---------------------------- MODULE MCBitOpsPool ----------------------------
(* Two components side by side: a bit operation, and the pools of the        *)
(* vectors with the digits.  One of them moves, the other is at rest.        *)
EXTENDS MCBitOps, ObjectPool

VARIABLE moving

Symmetry == Permutations(Slots) \cup Permutations(Ptrs)

(* A shift that is not made: all objects are zero.                           *)
NoCall ==
    /\ fn = "rshift" /\ alias = <<"x", "y", "x">> /\ n = 0
    /\ cell = [o \in Objs |-> [k \in Index |-> 0]]
    /\ size = [o \in Objs |-> 1] /\ neg = [o \in Objs |-> FALSE]
    /\ Init

BothInit ==
    \/ moving = "bit_ops" /\ SmallInit /\ PoolInit
    \/ moving = "object_pool" /\ NoCall /\ PoolInit

Operates == moving = "bit_ops" /\ Next /\ UNCHANGED <<moving, poolVars>>
Pools == moving = "object_pool" /\ PoolNext /\ UNCHANGED <<moving, vars>>

bothVars == <<moving, vars, poolVars>>
BothSpec == BothInit /\ [][Operates \/ Pools]_bothVars
=============================================================================
