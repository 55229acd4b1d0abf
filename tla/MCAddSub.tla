------------------------------ MODULE MCAddSub ------------------------------
(* AddSub on small instances.                                               *)
EXTENDS AddSub, TLC

MCPow == [k \in 0 .. MaxSize |-> B ^ k]

(* The aliasings the library and its users rely on: result separate, result *)
(* = a (operator += and -=), and one operand given twice.                   *)
Supported == {<<"x", "y", "z">>, <<"x", "x", "y">>, <<"x", "y", "y">>}

(* add(a, a, a), which the doc comment of add names as supported.           *)
AllSame == {<<"x", "x", "x">>}

(* Cells past the size are read through the result only, so that only the   *)
(* result starts with arbitrary ones; a result that is no operand starts as *)
(* a zero with arbitrary storage.                                           *)
SmallInit ==
    /\ Init
    /\ \A o \in Objs \ {result} : \A j \in Index : j >= size[o] => cell[o][j] = 0
    /\ result \notin {alias[2], alias[3]} => size[result] = 1 /\ ~neg[result]
    /\ \A o \in Objs \ {alias[1], alias[2], alias[3]} :
           size[o] = 1 /\ cell[o][0] = 0

SmallSpec == SmallInit /\ [][Next]_vars
=============================================================================
