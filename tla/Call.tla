-------------------------------- MODULE Call --------------------------------
(* One call of a function on BigInts, the state the modules of the functions *)
(* share.  A number is its value here: that the operations the functions are *)
(* built from compute it is the subject of the modules of those operations.  *)
(* Where leading zero digits make a difference an argument is a record of    *)
(* value and size in digits.                                                 *)
EXTENDS Places, Sequences

(* b^e by its recursion.                                                     *)
Exp(b, e) == LET f[k \in 0 .. e] == IF k = 0 THEN 1 ELSE b * f[k - 1] IN f[e]

CONSTANT W              \* bits of a digit, 64

ASSUME CallAssumption == W \in Nat \ {0} /\ B = Exp(2, W) /\ MaxSize >= 1

VARIABLES
    fn,                 \* the function called
    arg,                \* a record of its arguments
    pc,
    loc,                \* a record of its local variables
    res                 \* <<the value returned>>

vars == <<fn, arg, pc, loc, res>>

Called(f) == fn = f /\ pc = "call"
Enter(label, locals) == pc' = label /\ loc' = locals /\ UNCHANGED <<fn, arg, res>>
Return(r) == pc' = "returned" /\ res' = <<r>> /\ UNCHANGED <<fn, arg, loc>>
Throw == pc' = "threw" /\ UNCHANGED <<fn, arg, loc, res>>

result == res[1]
Returned(f) == fn = f /\ pc = "returned"
Threw(f) == fn = f /\ pc = "threw"

Abs(x) == IF x < 0 THEN -x ELSE x

(* The floor of a division and the remainder with the sign of the divisor,   *)
(* as divmod fixes them; m may be negative.                                  *)
FloorMod(x, m) == IF m > 0 THEN x % m ELSE -((-x) % (-m))

(* Numbers have at most MaxSize digits, and therefore MaxBits bits.          *)
Fits(x) == Abs(x) < Pow[MaxSize]
MaxBits == W * MaxSize
Canonical(n) == n.size = Size(n.val)

(* Digits that x has in base b, none for 0.                                  *)
DigitsOf(b, x) == CHOOSE k \in 0 .. MaxBits : x < Exp(b, k) /\ (k = 0 \/ x >= Exp(b, k - 1))

(* clzll, the builtin, which is told apart from zero, and log2.              *)
BitLength(x) == DigitsOf(2, x)
clzll(x) == W - BitLength(x)
Log2(n) == W * n.size - clzll(n.val \div Pow[n.size - 1]) - 1
=============================================================================
