-------------------------- MODULE MCMultiplyDivide --------------------------
(* Two components side by side: a multiplication and a division.  One of     *)
(* them moves, the other is at rest.                                         *)
EXTENDS Karatsuba, MCDivision, TLC

VARIABLE moving

(* By an integer: in place or not.  By a BigInt: two operands or a square.   *)
Supported == {<<"x", "x", NONE>>, <<"x", "y", NONE>>, <<"x", "y", "z">>, <<"x", "y", "y">>}

(* The digits of the operands of multiplication: the loops tell 0, the       *)
(* largest digit and others apart.                                           *)
SomeDigits == {0, 1, B - 1}

(* Only the storage of result = x is read past its size; it holds the digits *)
(* 0 or B - 1 there.  Objects that are no operands are zero.                 *)
Storage(n, Junk) ==
    {[k \in Index |-> IF k < n THEN s[k] ELSE junk] : s \in [0 .. n - 1 -> SomeDigits], junk \in Junk}

SmallInit ==
    /\ alias \in Supported
    /\ size \in [Objs -> 1 .. MaxDigits]
    /\ word \in SomeDigits
    /\ \A o \in Objs \ {alias[2], alias[3]} : size[o] = 1
    /\ \E s \in Storage(size["x"], {0, B - 1}),
          t \in Storage(size["y"], {0}), u \in Storage(size["z"], {0}) :
           cell = [o \in Objs |-> CASE o = "x" -> s [] o = "y" -> t [] o = "z" -> u]
    /\ \A o \in Objs \ {alias[2], alias[3]} : cell[o][0] = 0
    /\ KInit

(* An empty temporary of a new level, and a number left by an earlier call.  *)
MCStale == {[v |-> 0, n |-> 0], [v |-> B ^ 3 - 1, n |-> 3]}

(* A multiplication that is not made: all objects are zero.                  *)
NoProduct ==
    /\ alias = <<"x", "y", "z">> /\ entry = "mul" /\ word = 0
    /\ size = [o \in Objs |-> 1] /\ neg = [o \in Objs |-> FALSE]
    /\ cell = [o \in Objs |-> [k \in Index |-> 0]]
    /\ temps = [l \in 1 .. MaxDepth |-> [t \in Temps |-> [v |-> 0, n |-> 0]]]
    /\ KInit

(* A division that is not made: 0 by 1.                                      *)
NoQuotient == mode = "div" /\ a = 0 /\ b = 1 /\ negA = FALSE /\ negB = FALSE /\ DivisionInit

BothInit ==
    \/ moving = "multiply" /\ SmallInit /\ NoQuotient
    \/ moving = "divide" /\ NoProduct /\ DivisionInit

Multiplies == moving = "multiply" /\ KNext /\ UNCHANGED <<moving, divisionVars>>
Divides == moving = "divide" /\ DivisionNext /\ UNCHANGED <<moving, kvars>>

bothVars == <<moving, kvars, divisionVars>>
BothSpec == BothInit /\ [][Multiplies \/ Divides]_bothVars
=============================================================================
