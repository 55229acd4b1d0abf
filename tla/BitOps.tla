------------------------------- MODULE BitOps -------------------------------
(* The bit operations on the shared storage of the operands: each behaviour  *)
(* is one call of a shift or of a bitwise operation.                         *)
EXTENDS Shift, Logic

VARIABLE fn         \* the function called: "lshift", "rshift", "logic"

shiftVars == <<n, na>>
logicVars == <<op, swapped, nl, ns>>
vars == <<cell, size, neg, pc, i, atCall, shiftVars, logicVars, fn>>

NoShift == n = 0 /\ na = 0
NoLogic == op = "and" /\ swapped = FALSE /\ nl = 0 /\ ns = 0

Init ==
    \/ fn \in {"lshift", "rshift"} /\ ShiftInit /\ NoLogic
    \/ fn = "logic" /\ LogicInit /\ NoShift

Next ==
    \/ fn = "lshift" /\ LShiftNext /\ UNCHANGED <<logicVars, fn>>
    \/ fn = "rshift" /\ RShiftNext /\ UNCHANGED <<logicVars, fn>>
    \/ fn # "logic" /\ ShiftCleanup /\ UNCHANGED <<logicVars, fn>>
    \/ fn = "logic" /\ LogicNext /\ UNCHANGED <<shiftVars, fn>>
    \/ pc = "done" /\ UNCHANGED vars

(* Both shifts into any result.                                              *)
Spec == Init /\ [][Next]_vars

(* The operators: << gives lshift a new BigInt for result.                   *)
NewResult == fn = "lshift" /\ result # a => size[result] = 1 /\ cell[result][0] = 0
OperatorInit == Init /\ NewResult
OperatorSpec == OperatorInit /\ [][Next]_vars

----------------------------------------------------------------------------
TypeOK ==
    /\ fn \in {"lshift", "rshift", "logic"}
    /\ alias \in Aliasings
    /\ cell \in [Objs -> [Index -> Digit]]
    /\ size \in [Objs -> 1 .. MaxSize]
    /\ neg \in [Objs -> BOOLEAN]
    /\ pc \in {"call", "lshift-top", "lshift", "rshift", "cleanup", "loop", "done"}
    /\ i \in 0 .. MaxSize
    /\ n \in 0 .. MaxShift /\ na \in 0 .. MaxSize
    /\ op \in {"and", "or", "xor"} /\ swapped \in BOOLEAN
    /\ nl \in 0 .. MaxSize /\ ns \in 0 .. MaxSize

(* No operation on an object in place reads a digit it has overwritten or    *)
(* one that resize added.                                                    *)
UnreadIntact == ShiftUnreadIntact /\ LogicUnreadIntact

(* lshift moves every bit of a up by n places, whatever result held.         *)
LShiftExact == pc = "done" /\ fn = "lshift" => ShiftedBy(0 - n)

(* rshift moves every bit of a down by n places, whatever result held.       *)
RShiftExact == pc = "done" /\ fn = "rshift" => ShiftedBy(n)

(* and, or and xor combine the magnitudes and the signs of the operands.     *)
LogicExact == pc = "done" /\ fn = "logic" => LogicDone

(* Each bit of the result is the one the operation says, in place and not.   *)
BitsExact == LShiftExact /\ RShiftExact /\ LogicExact
=============================================================================
