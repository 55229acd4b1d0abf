-------------------------------- MODULE Bits --------------------------------
(* Bit operations on the machine words of Words: a digit has W bits, W = 64  *)
(* in the program.  Pow2[k] = 2^k.                                           *)
EXTENDS Words

CONSTANTS W, Pow2

ASSUME WidthAssumption ==
    /\ W \in Nat /\ W >= 1
    /\ Pow2 \in [0 .. W -> Nat]
    /\ Pow2[0] = 1
    /\ \A k \in 0 .. W - 1 : Pow2[k + 1] = 2 * Pow2[k]
    /\ B = Pow2[W]

Bit(x, k) == (x \div Pow2[k]) % 2

(* The word with the bits b.                                                 *)
Joined(b) ==
    LET f[k \in 0 .. W] == IF k = 0 THEN 0 ELSE f[k - 1] + b[k - 1] * Pow2[k - 1]
    IN  f[W]

AndBit(p, q) == p * q
OrBit(p, q)  == p + q - p * q
XorBit(p, q) == p + q - 2 * p * q

WordAnd(x, y) == Joined([k \in 0 .. W - 1 |-> AndBit(Bit(x, k), Bit(y, k))])
WordOr(x, y)  == Joined([k \in 0 .. W - 1 |-> OrBit(Bit(x, k), Bit(y, k))])
WordXor(x, y) == Joined([k \in 0 .. W - 1 |-> XorBit(Bit(x, k), Bit(y, k))])

(* Mutated form, used by no specification: a shift by W bits leaves the word *)
(* as it is, as the machine instruction does.                                *)
rshift_unsafe(x, k) == IF k >= W THEN x ELSE x \div Pow2[k]

(* lshift_safe and rshift_safe: a shift by W bits or more leaves nothing.    *)
lshift_safe(x, k) == IF k >= W THEN 0 ELSE (x * Pow2[k]) % B
rshift_safe(x, k) == IF k >= W THEN 0 ELSE x \div Pow2[k]
=============================================================================
