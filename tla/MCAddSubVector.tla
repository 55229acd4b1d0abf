--------------------------- MODULE MCAddSubVector ---------------------------
(* Two components side by side: an addition or subtraction, and the vectors  *)
(* BigInts keep their digits in.  One of them moves, the other is at rest.   *)
EXTENDS MCAddSub, FastVector

VARIABLE moving

(* Addresses are interchangeable.                                            *)
AnyBlock == Permutations(Blocks)

(* A call of add that is not made: all objects are zero.                     *)
NoCall ==
    /\ alias = <<"x", "y", "z">>
    /\ cell = [o \in Objs |-> [k \in Index |-> 0]]
    /\ size = [o \in Objs |-> 1] /\ neg = [o \in Objs |-> FALSE]
    /\ Init

BothInit ==
    \/ moving = "add_sub" /\ SmallInit /\ VectorInit
    \/ moving = "fast_vector" /\ NoCall /\ VectorInit

Adds == moving = "add_sub" /\ Next /\ UNCHANGED <<moving, vectorVars>>
Stores == moving = "fast_vector" /\ VectorNext /\ UNCHANGED <<moving, vars>>

bothVars == <<moving, vars, vectorVars>>
BothSpec == BothInit /\ [][Adds \/ Stores]_bothVars
=============================================================================
