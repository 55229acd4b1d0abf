------------------------------ MODULE MCBitOps ------------------------------
EXTENDS BitOps, TLC

MCPow == [k \in 0 .. MaxSize |-> B ^ k]
MCPow2 == [k \in 0 .. W |-> 2 ^ k]

(* result separate, result = a, one operand twice, and all three the same.   *)
Supported == {<<"x", "y", "z">>, <<"x", "x", "y">>, <<"x", "y", "y">>, <<"x", "x", "x">>}

(* For a shift the third is not used.                                        *)
AllAliasings == Supported \cup {<<"x", "y", "x">>}

(* Storage past the size holds zeros or ones, and only that of x = result is *)
(* read; objects that are no operands are zero, result for a shift any.      *)
Storage0(k, Junk) ==
    {[j \in Index |-> IF j < k THEN d[j] ELSE junk] : d \in [0 .. k - 1 -> Digit], junk \in Junk}

ReadBy == IF fn = "logic" THEN {a, b} ELSE {a}
AnyResultInit ==
    /\ fn \in {"lshift", "rshift", "logic"}
    /\ alias \in IF fn = "logic" THEN Supported ELSE {t \in AllAliasings : t[3] = "x"}
    /\ size \in [Objs -> 1 .. MaxDigits]
    /\ \A o \in Objs \ (ReadBy \cup {"x"}) : size[o] = 1
    /\ fn = "logic" /\ "x" \notin ReadBy => size["x"] = 1
    /\ \E x \in Storage0(size["x"], {0, B - 1}),
          y \in Storage0(size["y"], {0}), z \in Storage0(size["z"], {0}) :
           cell = [o \in Objs |-> CASE o = "x" -> x [] o = "y" -> y [] o = "z" -> z]
    /\ \A o \in Objs \ (ReadBy \cup {"x"}) : cell[o][0] = 0
    /\ fn = "logic" /\ "x" \notin ReadBy => cell["x"][0] = 0
    /\ Init

SmallInit == AnyResultInit /\ NewResult
ReuseInit == AnyResultInit /\ fn = "lshift"

SmallSpec == SmallInit /\ [][Next]_vars
ReuseSpec == ReuseInit /\ [][Next]_vars
=============================================================================
