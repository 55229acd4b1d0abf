----------------------------- MODULE MCDivision -----------------------------
EXTENDS Division

MCPow == [k \in 0 .. MaxSize |-> B ^ k]
UpTo2Digits == 0 .. B ^ 2 - 1
UpTo3Digits == 0 .. B ^ 3 - 1

(* All divisors of one and two digits, and of three those whose last two     *)
(* digits are the largest, for which the estimates are farthest off.         *)
SomeDivisors == UpTo2Digits \cup {n \in UpTo3Digits : n % Pow[2] = Pow[2] - 1}
=============================================================================
