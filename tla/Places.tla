------------------------------- MODULE Places -------------------------------
(* Storage of a BigInt as a sequence of digits: cell k of MaxSize cells has   *)
(* the weight B^k.                                                            *)
EXTENDS Words

CONSTANTS MaxSize,      \* cells per object
          Pow           \* Pow[k] = B^k

ASSUME PowAssumption ==
    /\ MaxSize \in Nat
    /\ Pow \in [0 .. MaxSize -> Nat]
    /\ Pow[0] = 1
    /\ \A k \in 0 .. MaxSize - 1 : Pow[k + 1] = B * Pow[k]

Index == 0 .. MaxSize - 1

(* Value of the n low digits of d.                                            *)
Value(d, n) ==
    LET f[k \in 0 .. n] == IF k = 0 THEN 0 ELSE f[k - 1] + d[k - 1] * Pow[k - 1]
    IN  f[n]

DigitAt(n, k) == (n \div Pow[k]) % B

(* Number of digits of n; a number has at least one.                          *)
Size(n) == CHOOSE k \in 1 .. MaxSize : n < Pow[k] /\ (k = 1 \/ n >= Pow[k - 1])
=============================================================================
