------------------------- MODULE MCFunctionsCompare -------------------------
(* A program that calls a function, or asks how three numbers compare.       *)
EXTENDS MCFunctionCalls, Compare

(* Numbers of one and two digits.                                            *)
SmallNumbers ==
    UNION {[digs : [0 .. k - 1 -> {0, 1, B - 1}], neg : BOOLEAN] : k \in {1, 2}}
MCInts == {1 - B, -1, 0, 1, B - 1}

Zero == [digs |-> [i \in {0} |-> 0], neg |-> FALSE]
AllZero == num = [x \in {"a", "b", "c"} |-> Zero] /\ int = 0

(* Of a program that compares the call is that of sqrt of 0.                 *)
FirstCall == fn = "sqrt" /\ arg = [y |-> [val |-> 0, size |-> 1]]
FirstCallInit == FirstCall /\ pc = "call" /\ loc = <<>> /\ res = <<>>

CallsInit == AllZero /\ Unasked /\ EndingInit
AsksInit ==
    /\ FirstCallInit
    /\ num \in [{"a", "b", "c"} -> SmallNumbers] /\ int \in Ints /\ Unasked

Calls == Next /\ UNCHANGED compareVars
Asks == FirstCall /\ CompareNext /\ UNCHANGED vars

allVars == <<vars, compareVars>>
BothSpec == (CallsInit \/ AsksInit) /\ [][Calls \/ Asks]_allVars /\ WF_vars(Next)
=============================================================================
