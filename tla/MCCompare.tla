------------------------------ MODULE MCCompare ------------------------------
EXTENDS Compare

(* uint64_t and int64_t, and types of half the width, whose min() is an int  *)
(* when it is negated: the analogues of uint16_t and int16_t.                *)
MCTypes == {[min |-> 0,  max |-> 15, negMin |-> 0], [min |-> -8, max |-> 7, negMin |-> 8],
            [min |-> 0,  max |-> 3, negMin |-> 0], [min |-> -2, max |-> 1, negMin |-> 2]}
MCPow == [k \in 0 .. MaxSize |-> B ^ k]
MCInts == 1 - B .. B - 1

(* The README's example, fits<int16_t>(-1234_big) and as_i64(-1234_big): a   *)
(* negative number inside the range of the type, not its minimum.            *)
Example == FromInt(-1)
ExampleInit == CompareInit /\ num = [x \in {"a", "b", "c"} |-> Example]
ExampleSpec == ExampleInit /\ [][CompareNext]_compareVars
=============================================================================
