------------------------------- MODULE Lehmer -------------------------------
(* gcd and lcm: Euclid's algorithm, in which Lehmer's step replaces divisions *)
(* of long numbers by divisions of their leading K bits as long as these     *)
(* determine the quotients.                                                  *)
EXTENDS Call

CONSTANT GcdArgs        \* pairs of arguments

ASSUME LehmerAssumption == W >= 3 /\ GcdArgs \subseteq {v \in Int : Fits(v)} \X {v \in Int : Fits(v)}

LehmerInit ==
    /\ fn \in {"gcd", "lcm"}
    /\ \E p \in GcdArgs : arg = [u |-> p[1], v |-> p[2]]
    /\ pc = "call" /\ loc = <<>> /\ res = <<>>

----------------------------------------------------------------------------
K == W - 1                                      \* leading bits used, 63
Word(x) == x % B
Signed(x) == ((x + B \div 2) % B) - B \div 2    \* int64_t of a word
log2(x) == BitLength(x) - 1

(* lcm of a zero; else it starts as gcd does, with the larger magnitude as U *)
LcmZero ==
    /\ Called("lcm") /\ (arg.u = 0 \/ arg.v = 0)
    /\ Return(0)

GcdCall ==
    LET u == Abs(arg.u)  v == Abs(arg.v)
    IN  /\ Called("gcd") \/ (Called("lcm") /\ u # 0 /\ v # 0)
        /\ Enter("euclid", IF u < v THEN [U |-> v, V |-> u] ELSE [U |-> u, V |-> v])

GcdReturn ==
    /\ pc = "euclid" /\ loc.V = 0
    /\ Return(IF fn = "gcd" THEN loc.U ELSE (Abs(arg.u) \div loc.U) * Abs(arg.v))

(* lehmer: the leading words and the cofactors before the loop.              *)
Close == log2(loc.U) - log2(loc.V) <= K \div 2

LehmerEnter ==
    LET h == IF log2(loc.U) < K - 1 THEN 0 ELSE log2(loc.U) + 1 - K
    IN  /\ pc = "euclid" /\ loc.V # 0 /\ Close
        /\ Enter("lehmer",
                 [U |-> loc.U, V |-> loc.V,
                  u_ |-> Word(loc.U \div Exp(2, h)), v_ |-> Word(loc.V \div Exp(2, h)),
                  x_im1 |-> 1, x_i |-> 0, y_im1 |-> 0, y_i |-> 1, swap |-> FALSE])

(* lehmer_step: quotient of the leading words and the next cofactors.        *)
q == loc.u_ \div loc.v_
r == loc.u_ - q * loc.v_
x_ip1 == Signed(loc.x_im1 - q * loc.x_i)
y_ip1 == Signed(loc.y_im1 - q * loc.y_i)

(* Mutated forms, used by no specification: one half of the condition; the   *)
(* cofactors are not put back in their places.                               *)
QuotientCorrect_half == r >= Abs(y_ip1)
Combined_unswapped ==
    [U |-> loc.U * loc.x_im1 + loc.V * loc.y_im1, V |-> loc.U * loc.x_i + loc.V * loc.y_i]

(* Jebelean's condition, of the remainder and the old v_.                    *)
QuotientCorrect == r >= Abs(y_ip1) /\ Word(loc.v_ - r) >= Abs(Signed(x_ip1 - loc.x_i))

(* The cofactors change places in every step, which swap records.            *)
LehmerStep ==
    /\ pc = "lehmer" /\ QuotientCorrect
    /\ Enter("lehmer",
             [loc EXCEPT !.u_ = loc.v_, !.v_ = r,
                         !.x_im1 = loc.y_i, !.y_im1 = loc.x_i,
                         !.x_i = y_ip1, !.y_i = x_ip1, !.swap = ~@])

(* The remainders the cofactors stand for.                                   *)
Combined ==
    LET x0 == IF loc.swap THEN loc.y_im1 ELSE loc.x_im1
        y0 == IF loc.swap THEN loc.x_im1 ELSE loc.y_im1
        x1 == IF loc.swap THEN loc.y_i ELSE loc.x_i
        y1 == IF loc.swap THEN loc.x_i ELSE loc.y_i
    IN  [U |-> loc.U * x0 + loc.V * y0, V |-> loc.U * x1 + loc.V * y1]

LehmerLeave ==
    /\ pc = "lehmer" /\ ~QuotientCorrect
    /\ Enter("divide", Combined)

(* The division of the loop of gcd_internal, after Lehmer's step or at once. *)
GcdDivide ==
    /\ pc = "divide" \/ (pc = "euclid" /\ loc.V # 0 /\ ~Close)
    /\ loc.V # 0
    /\ Enter("euclid", [U |-> loc.V, V |-> FloorMod(loc.U, loc.V)])

LehmerNext ==
    fn \in {"gcd", "lcm"} /\ (\/ LcmZero \/ GcdCall \/ GcdReturn \/ LehmerEnter
                              \/ LehmerStep \/ LehmerLeave \/ GcdDivide)

----------------------------------------------------------------------------
(* The greatest number that divides both, by definition.                     *)
Gcd(m, n) ==
    LET top == IF m = 0 \/ (n # 0 /\ n < m) THEN n ELSE m
        common == {d \in 1 .. top : m % d = 0 /\ n % d = 0}
    IN  IF top = 0 THEN 0 ELSE CHOOSE d \in common : \A c \in common : c <= d

InGcd == fn \in {"gcd", "lcm"}

(* Neither the divisions nor Lehmer's steps change the common divisors, and  *)
(* the results are the greatest common divisor, 0 for two zeros, and the     *)
(* least common multiple, neither of them negative.                          *)
GcdKept ==
    LET g == Gcd(Abs(arg.u), Abs(arg.v))
    IN  InGcd =>
            /\ pc \in {"euclid", "divide"} => Gcd(Abs(loc.U), Abs(loc.V)) = g
            /\ Returned("gcd") => result = g
            /\ Returned("lcm") => result = IF g = 0 THEN 0 ELSE Abs(arg.u * arg.v) \div g

(* Successive remainders of Euclid's algorithm from m and n on, of which     *)
(* there are at most n.                                                      *)
EuclidStep(e) == IF e.V = 0 THEN e ELSE [U |-> e.V, V |-> e.U % e.V]
Remainders(m, n, k) ==
    LET f[j \in 0 .. k] == IF j = 0 THEN [U |-> m, V |-> n] ELSE EuclidStep(f[j - 1]) IN f[k]
Follows(m, n, e) == \E k \in 0 .. n : Remainders(m, n, k) = e

(* The quotients taken from the leading words are those of the long numbers: *)
(* the cofactors always stand for two successive remainders of Euclid's      *)
(* algorithm, the smaller of them not zero, by which gcd then divides.  No   *)
(* cofactor outgrows its word.                                               *)
LehmerFollowsEuclid ==
    /\ InGcd /\ pc = "lehmer" =>
           Combined.V > 0 /\ loc.v_ > 0 /\ Follows(loc.U, loc.V, Combined)
    /\ InGcd /\ pc = "divide" => loc.U >= loc.V /\ loc.V > 0
=============================================================================
