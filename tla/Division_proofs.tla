--------------------------- MODULE Division_proofs ---------------------------
(* Proofs about Division for every base, all operands and every number of    *)
(* digits: the school division with its estimates and two corrections.       *)
EXTENDS Division, WordLemmas

----------------------------------------------------------------------------
(* The leading digit: not zero, and what the digits below leave over.        *)
LEMMA LeadingFacts ==
    ASSUME NEW n \in Nat, n > 0, NEW m \in 1 .. MaxSize, n < Pow[m]
    PROVE  /\ Leading(n) = n \div Pow[Size(n) - 1]
           /\ Leading(n) \in 1 .. B - 1
<1> DEFINE k == Size(n)  p == Pow[k - 1]  q == n \div p
<1>1. k \in 1 .. m /\ n < Pow[k] /\ (k = 1 \/ n >= p)
  BY SizeLeast
<1>2. Leading(n) = q % B
  BY DEF Leading, DigitAt
<1> HIDE DEF k
<1>3. k - 1 \in 0 .. MaxSize - 1 /\ k - 1 \in 0 .. MaxSize /\ (k - 1) + 1 = k
  BY <1>1, PowAssumption
<1>4. p \in Nat /\ p > 0 /\ Pow[k] = B * p /\ (k = 1 => p = 1)
  <2>1. p \in Nat /\ p > 0
    BY <1>3, PowPositive
  <2>2. Pow[(k - 1) + 1] = B * Pow[k - 1]
    BY <1>3, PowAssumption
  <2>3. k = 1 => k - 1 = 0
    OBVIOUS
  <2>4. QED
    BY <1>3, <2>1, <2>2, <2>3, PowAssumption
<1>5. q \in Int /\ q * p <= n /\ n < (q + 1) * p
  BY <1>4, QuotientRemainder
<1> HIDE DEF p, q
<1>6. n >= p
  BY <1>1, <1>4
<1>7. q * p \in Int /\ (q + 1) * p \in Int /\ B * p \in Int /\ 1 * p = p /\ B \in Int
  BY <1>4, <1>5, BAssumption
<1>8. 1 * p < (q + 1) * p /\ q * p < B * p
  BY <1>1, <1>4, <1>5, <1>6, <1>7
<1>9. 1 < q + 1 /\ q < B
  BY <1>4, <1>5, <1>7, <1>8, MulCancel
<1>10. q \in 1 .. B - 1 /\ q % B = q
  BY <1>5, <1>7, <1>9, BAssumption
<1>11. QED
  BY <1>2, <1>10 DEF q, p, k

----------------------------------------------------------------------------
(* Scaling and estimating.                                                   *)

(* The factor of _divmod_ignore_sign_big makes the leading digit at least    *)
(* half the base and adds no digit.                                          *)
LEMMA ScaleFacts ==
    ASSUME NEW v \in 1 .. B - 1, v < B \div 2
    PROVE  /\ DivSaturate(1, 0, v + 1) \in 1 .. B - 1
           /\ DivSaturate(1, 0, v + 1) * (v + 1) <= B
           /\ B - 1 <= 2 * (DivSaturate(1, 0, v + 1) * v)
<1> DEFINE w == v + 1  s == B \div w
<1>1. B \in Nat /\ B >= 2 /\ v \in Nat /\ v >= 1 /\ w \in Nat /\ w >= 2 /\ 2 * v < B
  BY BAssumption
<1>2. DivSaturate(1, 0, w) = s
  <2>1. 1 * B + 0 = B /\ 1 < w
    BY <1>1
  <2>2. QED
    BY <2>1 DEF DivSaturate
<1>3. s \in Int /\ s * w <= B /\ B < (s + 1) * w /\ s >= 0
  BY <1>1, QuotientRemainder
<1> HIDE DEF s
<1>4. s >= 1
  <2> SUFFICES ASSUME s = 0 PROVE FALSE
    BY <1>3
  <2>1. (0 + 1) * w = w
    BY <1>1
  <2>2. QED
    BY <1>1, <1>3, <2>1
<1>5. s * w = s * v + s /\ (s + 1) * w = s * v + s + v + 1 /\ s * v \in Int
  BY <1>1, <1>3
<1>6. v - 1 <= s * (v - 1) /\ s * (v - 1) = s * v - s
  <2>1. 1 * (v - 1) <= s * (v - 1) /\ 1 * (v - 1) = v - 1
    <3>1. v - 1 \in Nat /\ s \in Int /\ 1 <= s
      BY <1>1, <1>3, <1>4
    <3>2. QED
      BY <3>1, MulMonotone
  <2>2. QED
    BY <2>1, <1>1, <1>3
<1>7. v <= s * v
  <2>1. 1 * v <= s * v /\ 1 * v = v
    BY <1>1, <1>3, <1>4, MulMonotone
  <2>2. QED
    BY <2>1
<1>8. B - 1 <= 2 * (s * v) /\ s <= B - 1 /\ s * w <= B
  BY <1>1, <1>3, <1>5, <1>6, <1>7
<1>9. QED
  BY <1>1, <1>2, <1>3, <1>4, <1>8

(* The two leading digits of a window of m + 1 digits.                       *)
LEMMA TwoDigits ==
    ASSUME NEW w \in Nat, NEW m \in 1 .. MaxSize - 1, w < Pow[m + 1]
    PROVE  /\ DigitAt(w, m) \in Digit /\ DigitAt(w, m - 1) \in Digit
           /\ DigitAt(w, m) * B + DigitAt(w, m - 1) = w \div Pow[m - 1]
<1> DEFINE p == Pow[m - 1]  r == Pow[m]  u == w \div p  h == w \div r
<1>1. m \in 0 .. MaxSize - 1 /\ m - 1 \in 0 .. MaxSize - 1 /\ m - 1 \in 0 .. MaxSize /\ m \in 0 .. MaxSize
      /\ (m - 1) + 1 = m
  BY PowAssumption
<1>2. p \in Nat /\ p > 0 /\ r \in Nat /\ r > 0
  BY <1>1, PowPositive
<1>3. r = B * p /\ Pow[m + 1] = B * r
  <2>1. Pow[(m - 1) + 1] = B * Pow[m - 1] /\ Pow[m + 1] = B * Pow[m]
    BY <1>1, PowAssumption
  <2>2. QED
    BY <2>1, <1>1
<1>4. h = u \div B
  <2>1. B * p = p * B /\ B \in Nat /\ B > 0
    BY <1>2, BAssumption
  <2>2. w \div (p * B) = (w \div p) \div B
    BY <1>2, <2>1, QuotientTwice
  <2>3. QED
    BY <2>1, <2>2, <1>3
<1>5. h \in Int /\ h >= 0 /\ h * r <= w /\ u \in Int
  BY <1>2, QuotientRemainder
<1>6. DigitAt(w, m) = h % B /\ DigitAt(w, m - 1) = u % B
  BY DEF DigitAt
<1>7. u = (u \div B) * B + (u % B) /\ u % B \in 0 .. B - 1
  <2>1. B \in Nat /\ B > 0
    BY BAssumption
  <2> HIDE DEF u
  <2>2. QED
    BY <1>5, <2>1, QuotientRemainder
<1> HIDE DEF p, r, h
<1>8. h < B
  <2>1. h * r \in Int /\ B * r \in Int /\ B \in Int
    BY <1>2, <1>5, BAssumption
  <2>2. h * r < B * r
    BY <1>3, <1>5, <2>1
  <2>3. QED
    BY <1>2, <1>5, <2>1, <2>2, MulCancel
<1>9. h % B = h /\ h \in Digit
  BY <1>5, <1>8, BAssumption DEF Digit
<1>10. QED
  BY <1>4, <1>6, <1>7, <1>9 DEF Digit, p

(* The estimate never multiplies to more than the two digits, is never less  *)
(* than the true digit and at most two more: the reason why _divide_loop     *)
(* normalises and corrects twice.                                            *)
LEMMA EstimateFacts ==
    ASSUME NEW w \in Nat, NEW g \in Nat, NEW m \in 1 .. MaxSize - 1, NEW t \in Nat,
           w < Pow[m + 1], t = g \div Pow[m - 1], t < B, B - 1 <= 2 * t, t > 0
    PROVE  LET q == DivSaturate(DigitAt(w, m), DigitAt(w, m - 1), t)
           IN  /\ q \in Digit
               /\ q * t <= w \div Pow[m - 1]
               /\ g > 0
               /\ w < B * g => w \div g <= q /\ q <= (w \div g) + 2
<1> DEFINE p == Pow[m - 1]
           hi == DigitAt(w, m)
           lo == DigitAt(w, m - 1)
           u == w \div p
           q == DivSaturate(hi, lo, t)
<1>1. p \in Nat /\ p > 0
  <2>1. m - 1 \in 0 .. MaxSize
    BY PowAssumption
  <2>2. QED
    BY <2>1, PowPositive
<1>2. hi \in Digit /\ lo \in Digit /\ hi * B + lo = u
  BY TwoDigits
<1>3. u \in Nat /\ u * p <= w /\ w < (u + 1) * p
  BY <1>1, QuotientRemainder
<1>4. t * p <= g /\ g < (t + 1) * p
  BY <1>1, QuotientRemainder
<1>5. q = IF hi < t THEN u \div t ELSE B - 1
  BY <1>2 DEF DivSaturate
<1> HIDE DEF p, hi, lo, u, q
<1>6. B \in Nat /\ B >= 2 /\ hi \in Int /\ lo \in Int /\ 0 <= lo /\ lo < B /\ hi >= 0
  BY <1>2, BAssumption DEF Digit
<1>7. q \in Digit /\ q * t <= u /\ (hi < t => u < (q + 1) * t)
  <2>1. CASE hi < t
    <3>1. q \in Int /\ q >= 0 /\ q * t <= u /\ u < (q + 1) * t
      BY <2>1, <1>3, <1>5, QuotientRemainder
    <3>2. u < B * t
      <4>1. (hi + 1) * B <= t * B /\ (hi + 1) * B = hi * B + B
        BY <2>1, <1>6, MulMonotone
      <4>2. hi * B \in Int /\ t * B = B * t /\ t * B \in Int
        BY <1>6
      <4>3. QED
        BY <4>1, <4>2, <1>2, <1>6
    <3>3. q * t < B * t
      <4>1. q * t \in Int /\ B * t \in Int
        BY <3>1, <1>6
      <4>2. QED
        BY <4>1, <3>1, <3>2, <1>3
    <3>4. q < B
      BY <3>1, <3>3, <1>6, MulCancel
    <3>5. QED
      BY <3>1, <3>4, <1>6 DEF Digit
  <2>2. CASE ~(hi < t)
    <3>1. q = B - 1
      BY <2>2, <1>5
    <3>2. t * B <= hi * B
      BY <2>2, <1>6, MulMonotone
    <3>3. (B - 1) * t = t * B - t /\ t * B \in Int /\ hi * B \in Int
      <4>1. B \in Int /\ t \in Int
        BY <1>6
      <4>2. (B - 1) * t = B * t - t /\ B * t = t * B /\ t * B \in Int
        BY <4>1, Distributes
      <4>3. QED
        BY <4>2, <1>6
    <3>4. (B - 1) * t <= u
      BY <3>2, <3>3, <1>2, <1>6
    <3>5. QED
      BY <2>2, <3>1, <3>4, <1>6 DEF Digit
  <2>3. QED
    BY <2>1, <2>2
<1>8. q \in Nat /\ q <= B - 1
  BY <1>6, <1>7 DEF Digit
<1>9. g > 0
  <2>1. 1 * p <= t * p /\ 1 * p = p /\ t * p \in Int
    BY <1>1, MulMonotone
  <2>2. QED
    BY <2>1, <1>1, <1>4
<1>10. ASSUME w < B * g PROVE w \div g <= q /\ q <= (w \div g) + 2
  <2> DEFINE z == w \div g
  <2>1. z \in Nat /\ z * g <= w /\ w < (z + 1) * g
    BY <1>9, QuotientRemainder
  <2> HIDE DEF z
  <2>2. z <= B - 1
    <3>1. z * g \in Int /\ B * g \in Int
      BY <2>1, <1>6
    <3>2. z * g < B * g
      BY <3>1, <2>1, <1>10
    <3>3. z < B
      BY <3>2, <2>1, <1>6, MulCancel
    <3>4. QED
      BY <3>3, <2>1, <1>6
  <2>3. (z * t) * p < (u + 1) * p
    <3>1. z * (t * p) <= z * g
      <4>1. t * p \in Int
        BY <1>1
      <4>2. QED
        BY <4>1, <2>1, <1>4, MulMonotone
    <3>2. z * (t * p) = (z * t) * p
      BY <2>1, <1>1
    <3>3. z * (t * p) \in Int /\ z * g \in Int /\ (u + 1) * p \in Int
      BY <2>1, <1>1, <1>3
    <3>4. QED
      BY <3>1, <3>2, <3>3, <2>1, <1>3
  <2>4. z * t <= u
    <3>1. z * t \in Int
      BY <2>1
    <3>2. z * t < u + 1
      BY <2>3, <3>1, <1>1, <1>3, MulCancel
    <3>3. QED
      BY <3>1, <3>2, <1>3
  <2>5. z <= q
    <3>1. CASE hi < t
      <4>1. z * t \in Int /\ (q + 1) * t \in Int
        BY <2>1, <1>8
      <4>2. z * t < (q + 1) * t
        BY <3>1, <4>1, <2>4, <1>3, <1>7
      <4>3. z < q + 1
        BY <4>2, <2>1, <1>8, MulCancel
      <4>4. QED
        BY <4>3, <2>1, <1>8
    <3>2. CASE ~(hi < t)
      BY <3>2, <2>2, <1>5
    <3>3. QED
      BY <3>1, <3>2
  <2>6. q <= z + 2
    <3> SUFFICES ASSUME z + 3 <= q PROVE FALSE
      BY <2>1, <1>8
    <3>1. (q * t) * p < (z + 1) * g
      <4>1. (q * t) * p <= u * p
        BY <1>1, <1>3, <1>7, <1>8, MulMonotone
      <4>2. (q * t) * p \in Int /\ u * p \in Int /\ (z + 1) * g \in Int
        BY <1>1, <1>3, <1>8, <2>1
      <4>3. QED
        BY <4>1, <4>2, <1>3, <2>1
    <3>2. (z + 1) * g < ((z + 1) * (t + 1)) * p
      <4>1. g * (z + 1) < ((t + 1) * p) * (z + 1)
        <5>1. (t + 1) * p \in Int /\ z + 1 \in Nat /\ z + 1 > 0
          BY <1>1, <2>1
        <5>2. QED
          BY <5>1, <1>4, MulStrict
      <4>2. g * (z + 1) = (z + 1) * g /\ ((t + 1) * p) * (z + 1) = ((z + 1) * (t + 1)) * p
        BY <1>1, <2>1
      <4>3. QED
        BY <4>1, <4>2
    <3>3. q * t < (z + 1) * (t + 1)
      <4>1. (q * t) * p \in Int /\ (z + 1) * g \in Int /\ ((z + 1) * (t + 1)) * p \in Int
            /\ q * t \in Int /\ (z + 1) * (t + 1) \in Int
        BY <1>1, <1>8, <2>1
      <4>2. (q * t) * p < ((z + 1) * (t + 1)) * p
        BY <3>1, <3>2, <4>1
      <4>3. QED
        BY <4>1, <4>2, <1>1, MulCancel
    <3>4. (z + 3) * t <= q * t
      BY <2>1, <1>8, MulMonotone
    <3>5. (z + 3) * t = z * t + t + 2 * t /\ (z + 1) * (t + 1) = z * t + t + z + 1
      <4>1. z \in Int /\ t \in Int
        BY <2>1
      <4>2. QED
        BY <4>1, Distributes
    <3>6. z * t \in Int /\ q * t \in Int
      BY <2>1, <1>8
    <3>7. 2 * t < z + 1
      BY <3>3, <3>4, <3>5, <3>6, <2>1
    <3>8. QED
      BY <3>7, <2>1, <1>6, <1>8
  <2>7. QED
    BY <2>5, <2>6 DEF z
<1>11. QED
  BY <1>7, <1>9, <1>10 DEF q, hi, lo, u, p

----------------------------------------------------------------------------
(* The inductive invariant.                                                  *)

Round == {"subtract", "correct", "again", "store"}
Loop == Round \cup {"estimate"}

(* The window of the remainder span that a round reduces.                    *)
Window == (rem \div Pow[left]) % Pow[nbf + 1]

Fresh ==
    /\ at = "call" => f = 1 /\ x = 0
    /\ at \in {"call", "small"} => f = 1 /\ nbf = 0 /\ ~tie

(* What Normalize sets up, and the equation of the long division.            *)
Scaled ==
    at \in Loop =>
        /\ b > 0 /\ f > 0 /\ af = a * f /\ bf = b * f
        /\ nbf \in 1 .. MaxSize - 1 /\ left + nbf + 1 <= MaxSize
        /\ at \in Round => left + nbf + 2 <= MaxSize
        /\ Pow[nbf - 1] <= bf /\ bf < Pow[nbf]
        /\ e = bf \div Pow[nbf - 1] /\ B - 1 <= 2 * e
        /\ quo >= 0 /\ rem >= 0
        /\ quo * bf + rem = af

(* Unless a tie has occurred no digit is cut off by the window.              *)
Reduced ==
    ~tie => /\ at = "estimate" => rem < bf * Pow[left]
            /\ at \in Round => rem < (B * bf) * Pow[left]

(* What a round has made of the window so far.                               *)
Rounds ==
    /\ at = "subtract" =>
          /\ x = Window
          /\ d * e <= x \div Pow[nbf - 1]
          /\ x < B * bf => x \div bf <= d /\ d <= (x \div bf) + 2
    /\ at = "correct" =>
          /\ x = bf * d - Window /\ 0 < x /\ x <= 2 * bf
          /\ d >= 1 /\ (d = 1 => x < bf)
    /\ at = "again" =>
          /\ x = bf * d - Window /\ x <= bf /\ d >= 1
          /\ ~tie => x > 0
    /\ at = "store" =>
          /\ x = Window - bf * d
          /\ ~tie => x < bf

SmallLoop ==
    at = "small" =>
        /\ b > 0 /\ b < B /\ quo >= 0 /\ SmallReduced

(* Quotient and remainder of the magnitudes; div leaves the remainder scaled *)
(* and keeps only whether it is zero.                                        *)
Magnitudes ==
    at = "signs" =>
        /\ b > 0 /\ quo >= 0 /\ rem >= 0
        /\ DenormalizesExactly
        /\ mode # "div" => quo * b + rem = a /\ (~tie => rem < b)
        /\ mode = "div" =>
              /\ ~tie => quo * b <= a /\ a < quo * b + b
              /\ ~tie => (rem = 0 <=> quo * b = a)

IInv == DivisionTypeOK /\ Fresh /\ Scaled /\ Reduced /\ Rounds /\ SmallLoop /\ Magnitudes /\ FloorDivision

LEMMA Magnitude ==
    ASSUME DivisionTypeOK
    PROVE  /\ MaxSize \in Nat /\ MaxSize >= 4 /\ MaxSize - 3 \in 1 .. MaxSize
           /\ a \in Nat /\ a < Pow[MaxSize - 3] /\ b \in Nat /\ b < Pow[MaxSize - 3]
           /\ B \in Nat /\ B >= 2 /\ Pow[0] = 1
<1>1. MaxSize \in Nat /\ MaxSize >= 4 /\ MaxSize - 3 \in 1 .. MaxSize /\ MaxSize - 3 \in 0 .. MaxSize
  BY PowAssumption, OperandAssumption
<1>2. Pow[MaxSize - 3] \in Nat
  BY <1>1, PowPositive
<1>3. a \in 0 .. Pow[MaxSize - 3] - 1 /\ b \in 0 .. Pow[MaxSize - 3] - 1
  BY OperandAssumption DEF DivisionTypeOK
<1>4. ASSUME NEW n \in Nat, a \in 0 .. n - 1, b \in 0 .. n - 1
      PROVE  a \in Nat /\ a < n /\ b \in Nat /\ b < n
  BY <1>4
<1>5. a \in Nat /\ a < Pow[MaxSize - 3] /\ b \in Nat /\ b < Pow[MaxSize - 3]
  BY <1>2, <1>3, <1>4
<1>6. QED
  BY <1>1, <1>5, BAssumption, PowAssumption

LEMMA InitInv == DivisionInit => IInv
<1> SUFFICES ASSUME DivisionInit PROVE IInv
  OBVIOUS
<1>1. 0 \in Digit /\ 1 \in Digit /\ 0 \in 0 .. MaxSize - 1 /\ 0 \in 0 .. MaxSize
  BY BAssumption, PowAssumption, OperandAssumption DEF Digit
<1>2. DivisionTypeOK
  <2>1. 0 < Pow[0 + 1]
    <3>1. 0 + 1 \in 0 .. MaxSize
      BY PowAssumption, OperandAssumption
    <3>2. QED
      BY <3>1, PowPositive
  <2>2. nbf = 0 /\ x = 0 /\ left = 0 /\ d = 0 /\ rem = 0 /\ quo = 0 /\ xlo = 0 /\ tie = FALSE
        /\ f = 1 /\ af = 0 /\ bf = 0 /\ e = 0 /\ at = "call"
    BY DEF DivisionInit
  <2>3. x < Pow[nbf + 1]
    BY <2>1, <2>2
  <2>4. mode \in {"divmod", "div", "mod"} /\ a \in Dividends /\ b \in Divisors
        /\ negA \in BOOLEAN /\ negB \in BOOLEAN
    BY DEF DivisionInit
  <2>5. tie \in BOOLEAN
    BY <2>2
  <2>6. QED
    BY <1>1, <2>2, <2>3, <2>4, <2>5 DEF DivisionTypeOK
<1>3. Fresh /\ Scaled /\ Reduced /\ Rounds /\ SmallLoop /\ Magnitudes /\ FloorDivision
  BY DEF DivisionInit, Fresh, Scaled, Reduced, Rounds, SmallLoop, Magnitudes, FloorDivision, IsFloorDivision, Loop, Round
<1>4. QED
  BY <1>2, <1>3 DEF IInv

(* Nothing is left of the call but its answer, or nothing at all.            *)
LEMMA ThrowInv == ASSUME IInv, Throw PROVE IInv'
<1>1. /\ at' = "thrown"
      /\ UNCHANGED <<left, x, d, rem, quo, xlo, tie, mode, a, b, negA, negB, f, af, bf, e, nbf>>
  BY DEF Throw, operands, scaled
<1>2. DivisionTypeOK'
  BY <1>1 DEF IInv, DivisionTypeOK
<1>3. QED
  BY <1>1, <1>2 DEF IInv, Fresh, Scaled, Reduced, Rounds, SmallLoop, Magnitudes, FloorDivision,
                    IsFloorDivision, Loop, Round

(* A dividend of fewer digits is less than the divisor.                      *)
LEMMA ShortcutSmallerInv == ASSUME IInv, ShortcutSmaller PROVE IInv'
<1>1. /\ at = "call" /\ b # 0 /\ (a = 0 \/ Size(b) > Size(a))
      /\ quo' = 0 /\ rem' = (IF mode = "div" THEN Flag(a # 0) ELSE a) /\ at' = "signs"
      /\ UNCHANGED <<left, x, d, xlo, tie, mode, a, b, negA, negB, f, af, bf, e, nbf>>
  BY DEF ShortcutSmaller, operands, scaled
<1>2. a \in Nat /\ b \in Nat /\ b > 0 /\ MaxSize \in Nat /\ MaxSize - 3 \in 1 .. MaxSize
      /\ a < Pow[MaxSize - 3] /\ b < Pow[MaxSize - 3]
  BY <1>1, Magnitude DEF IInv
<1>3. a < b
  <2>1. CASE a = 0
    BY <2>1, <1>2
  <2>2. CASE Size(b) > Size(a)
    <3> DEFINE m == Size(a)  n == Size(b)
    <3>1. m \in 1 .. MaxSize - 3 /\ a < Pow[m] /\ n \in 1 .. MaxSize - 3 /\ (n = 1 \/ b >= Pow[n - 1])
      BY <1>2, SizeLeast
    <3>2. n > m
      BY <2>2
    <3> HIDE DEF m, n
    <3>3. m \in Nat /\ n - 1 \in Nat /\ m <= n - 1 /\ n - 1 <= MaxSize /\ n # 1
          /\ m \in 0 .. MaxSize /\ n - 1 \in 0 .. MaxSize
      BY <3>1, <3>2, <1>2
    <3>4. Pow[m] <= Pow[n - 1] /\ Pow[m] \in Nat /\ Pow[n - 1] \in Nat
      BY <3>3, PowGrows, PowPositive
    <3>5. QED
      BY <3>1, <3>3, <3>4, <1>2
  <2>3. QED
    BY <2>1, <2>2, <1>1
<1>4. DivisionTypeOK'
  BY <1>1, <1>2 DEF IInv, DivisionTypeOK, Flag
<1>5. f' = 1
  BY <1>1 DEF IInv, Fresh
<1>6. Magnitudes'
  <2>1. 0 * b = 0
    BY <1>2
  <2>2. CASE mode = "div"
    <3>1. rem' = Flag(a # 0)
      BY <2>2, <1>1
    <3>2. (rem' = 0 <=> 0 = a) /\ rem' >= 0
      BY <3>1 DEF Flag
    <3>3. QED
      BY <2>1, <2>2, <3>2, <1>1, <1>2, <1>3 DEF Magnitudes, DenormalizesExactly
  <2>3. CASE mode # "div"
    BY <2>1, <2>3, <1>1, <1>2, <1>3, <1>5 DEF Magnitudes, DenormalizesExactly
  <2>4. QED
    BY <2>2, <2>3
<1>7. QED
  BY <1>1, <1>4, <1>6 DEF IInv, Fresh, Scaled, Reduced, Rounds, SmallLoop, FloorDivision,
                          IsFloorDivision, Loop, Round

----------------------------------------------------------------------------
(* The division by one digit.                                                *)

LEMMA ShortcutDigitInv == ASSUME IInv, ShortcutDigit PROVE IInv'
<1>1. /\ at = "call" /\ b # 0 /\ Size(b) = 1
      /\ left' = Size(a) /\ quo' = 0 /\ xlo' = 0 /\ at' = "small"
      /\ UNCHANGED <<x, d, rem, tie, mode, a, b, negA, negB, f, af, bf, e, nbf>>
  BY DEF ShortcutDigit, operands, scaled
<1>2. a \in Nat /\ b \in Nat /\ b > 0 /\ MaxSize \in Nat /\ MaxSize - 3 \in 1 .. MaxSize
      /\ a < Pow[MaxSize - 3] /\ b < Pow[MaxSize - 3] /\ B \in Nat /\ B >= 2
  BY <1>1, Magnitude DEF IInv
<1>3. left' \in 1 .. MaxSize - 3 /\ a < Pow[left']
  BY <1>1, <1>2, SizeLeast
<1>4. left' \in 0 .. MaxSize /\ Pow[left'] \in Nat
  <2>1. left' \in 0 .. MaxSize
    BY <1>2, <1>3
  <2>2. QED
    BY <2>1, PowPositive
<1>5. a % Pow[left'] = a
  <2> DEFINE p == Pow[left']
  <2>1. p \in Nat /\ a < p
    BY <1>3, <1>4
  <2> HIDE DEF p
  <2>2. a % p = a
    BY <2>1, <1>2
  <2>3. QED
    BY <2>2 DEF p
<1>6. b < B
  <2>1. Pow[0 + 1] = B * Pow[0] /\ Pow[0] = 1
    BY <1>2, PowAssumption
  <2>2. b < Pow[Size(b)]
    BY <1>2, SizeLeast
  <2>3. QED
    BY <2>1, <2>2, <1>1, <1>2
<1>7. DivisionTypeOK'
  BY <1>1, <1>2, <1>4 DEF IInv, DivisionTypeOK, Digit
<1>8. SmallLoop'
  <2>1. 0 * b = 0 /\ 0 * Pow[left'] = 0 /\ a - a = 0
    BY <1>2, <1>4
  <2>2. QED
    BY <2>1, <1>1, <1>2, <1>5, <1>6 DEF SmallLoop, SmallReduced
<1>9. Fresh'
  BY <1>1 DEF IInv, Fresh
<1>10. QED
  BY <1>1, <1>7, <1>8, <1>9 DEF IInv, Scaled, Reduced, Rounds, Magnitudes, FloorDivision,
                          IsFloorDivision, Loop, Round

LEMMA SmallStepInv == ASSUME IInv, SmallStep PROVE IInv'
<1> DEFINE ai == DigitAt(a, left - 1)
           q == DivSaturate(xlo, ai, b)
           p == Pow[left - 1]
           n == xlo * B + ai
<1>1. /\ at = "small" /\ left > 0 /\ left' = left - 1
      /\ quo' = quo + q * p /\ xlo' = xlo * B + ai - q * b
      /\ UNCHANGED <<at, x, d, rem, tie, mode, a, b, negA, negB, f, af, bf, e, nbf>>
  <2>1. at = "small" /\ left > 0 /\ left' = left - 1 /\ quo' = quo + q * p /\ xlo' = xlo * B + ai - q * b
    BY Zenon DEF SmallStep
  <2>2. UNCHANGED <<at, x, d, rem, tie>> /\ UNCHANGED operands /\ UNCHANGED scaled
    BY Zenon DEF SmallStep
  <2>3. QED
    BY <2>1, <2>2 DEF operands, scaled
<1>2. a \in Nat /\ b \in Nat /\ b > 0 /\ MaxSize \in Nat /\ B \in Nat /\ B >= 2 /\ b < B
      /\ xlo \in Nat /\ xlo < b /\ quo \in Nat /\ left \in 1 .. MaxSize
      /\ quo * b + xlo * Pow[left] = a - (a % Pow[left])
  <2>1. xlo \in Int /\ quo \in Int /\ left \in 0 .. MaxSize
    BY BAssumption DEF IInv, DivisionTypeOK, Digit
  <2>2. QED
    BY <2>1, <1>1, Magnitude DEF IInv, SmallLoop, SmallReduced
<1>3. left - 1 \in 0 .. MaxSize - 1 /\ left - 1 \in 0 .. MaxSize /\ (left - 1) + 1 = left
  BY <1>2
<1>4. ai \in Digit /\ a % Pow[left] = ai * p + (a % p)
  <2>1. a % Pow[(left - 1) + 1] = ai * p + (a % p) /\ ai \in Digit
    BY <1>2, <1>3, RestStep
  <2>2. QED
    BY <2>1, <1>3
<1>5. Pow[left] = B * p /\ p \in Nat /\ p > 0
  <2>1. Pow[(left - 1) + 1] = B * p
    BY <1>3, PowAssumption
  <2>2. QED
    BY <2>1, <1>3, PowPositive
<1>6. a % p \in Nat
  <2> HIDE DEF p
  <2> QED
    BY <1>2, <1>5
<1>7. q = n \div b /\ n \in Nat
  <2>1. xlo * B \in Nat /\ ai \in Nat
    BY <1>2, <1>4 DEF Digit
  <2>2. QED
    BY <2>1, <1>2 DEF DivSaturate
<1> HIDE DEF ai, q, p
<1>8. n < b * B
  <2>1. (xlo + 1) * B <= b * B /\ (xlo + 1) * B = xlo * B + B /\ xlo * B \in Int /\ b * B \in Int
    BY <1>2, MulMonotone
  <2>2. QED
    BY <2>1, <1>2, <1>4 DEF Digit
<1>9. ASSUME NEW z \in Int PROVE xlo * B + ai - z = n - z
  BY <1>2, <1>4 DEF Digit
<1> HIDE DEF n
<1>10. q \in Int /\ q >= 0 /\ q * b <= n /\ n < (q + 1) * b /\ n - q * b \in 0 .. b - 1
  <2>1. q \in Int /\ q >= 0 /\ q * b <= n /\ n < (q + 1) * b /\ n = q * b + (n % b) /\ n % b \in 0 .. b - 1
    BY <1>2, <1>7, QuotientRemainder
  <2>2. q * b \in Int
    BY <2>1, <1>2
  <2>3. QED
    BY <2>1, <2>2, <1>2, <1>7
<1>11. q * p \in Nat
  BY <1>5, <1>10
<1>12. xlo' = n - q * b /\ xlo' \in 0 .. b - 1 /\ xlo' \in Digit /\ quo' \in Nat
  <2>1. q * b \in Int
    BY <1>2, <1>10
  <2>2. xlo' = n - q * b
    BY <2>1, <1>1, <1>9
  <2>3. QED
    BY <2>2, <1>1, <1>2, <1>10, <1>11 DEF Digit
<1>13. quo' * b + xlo' * p = a - (a % p)
  <2>1. quo' * b = quo * b + q * b * p
    <3>1. q * b * p = (q * p) * b
      BY <1>2, <1>5, <1>10
    <3>2. (quo + q * p) * b = quo * b + (q * p) * b
      BY <1>2, <1>11
    <3>3. QED
      BY <3>1, <3>2, <1>1
  <2>2. xlo' * p = xlo * Pow[left] + ai * p - q * b * p
    <3>1. xlo' = (xlo * B + ai) - q * b
      BY <1>12 DEF n
    <3>2. ai \in Int /\ q * b \in Int
      BY <1>2, <1>4, <1>10 DEF Digit
    <3>3. ((xlo * B + ai) - q * b) * p = xlo * (B * p) + ai * p - q * b * p
      BY <1>2, <1>5, <3>2
    <3>4. QED
      BY <3>1, <3>3, <1>5
  <2>3. /\ quo * b \in Int /\ q * b * p \in Int /\ xlo * Pow[left] \in Int /\ ai * p \in Int
        /\ a % p \in Int /\ a \in Int
    BY <1>2, <1>4, <1>5, <1>6, <1>10 DEF Digit
  <2>4. a - (ai * p + (a % p)) = quo * b + xlo * Pow[left]
    BY <1>2, <1>4
  <2>5. QED
    BY <2>1, <2>2, <2>3, <2>4
<1>14. DivisionTypeOK'
  BY <1>1, <1>2, <1>3, <1>12 DEF IInv, DivisionTypeOK
<1>15. SmallLoop'
  <2>1. quo' * b' + xlo' * Pow[left'] = a' - (a' % Pow[left'])
    BY <1>1, <1>13 DEF p
  <2>2. QED
    BY <2>1, <1>1, <1>2, <1>12 DEF SmallLoop, SmallReduced
<1>16. Fresh'
  BY <1>1 DEF IInv, Fresh
<1>17. QED
  BY <1>1, <1>14, <1>15, <1>16 DEF IInv, Scaled, Reduced, Rounds, Magnitudes, FloorDivision,
                          IsFloorDivision, Loop, Round

LEMMA SmallEndInv == ASSUME IInv, SmallEnd PROVE IInv'
<1>1. /\ at = "small" /\ left = 0 /\ rem' = xlo /\ at' = "signs"
      /\ UNCHANGED <<left, x, d, quo, xlo, tie, mode, a, b, negA, negB, f, af, bf, e, nbf>>
  BY DEF SmallEnd, operands, scaled
<1>2. a \in Nat /\ b \in Nat /\ b > 0 /\ xlo \in Nat /\ xlo < b /\ quo \in Nat /\ f = 1
      /\ quo * b + xlo * Pow[0] = a - (a % Pow[0]) /\ Pow[0] = 1
  <2>1. xlo \in Int /\ quo \in Int
    BY BAssumption DEF IInv, DivisionTypeOK, Digit
  <2>2. QED
    BY <2>1, <1>1, Magnitude DEF IInv, SmallLoop, SmallReduced, Fresh
<1>3. quo * b + xlo = a /\ quo * b \in Int
  BY <1>2
<1>4. DivisionTypeOK'
  BY <1>1, <1>2 DEF IInv, DivisionTypeOK
<1>5. Magnitudes'
  BY <1>1, <1>2, <1>3 DEF Magnitudes, DenormalizesExactly
<1>6. QED
  BY <1>1, <1>4, <1>5 DEF IInv, Fresh, Scaled, Reduced, Rounds, SmallLoop, FloorDivision,
                          IsFloorDivision, Loop, Round

----------------------------------------------------------------------------
(* The long division.                                                        *)

LEMMA NormalizeInv == ASSUME IInv, Normalize PROVE IInv'
<1> DEFINE v == Leading(b)
           s == IF v < B \div 2 THEN DivSaturate(1, 0, v + 1) ELSE 1
           n == Size(b)  p == Pow[n - 1]  g == b * s  h == a * s  m == Size(h)
<1>1. /\ at = "call" /\ b # 0 /\ a # 0 /\ n <= Size(a) /\ n > 1
      /\ f' = s /\ af' = h /\ bf' = g /\ e' = Leading(g) /\ nbf' = Size(g)
      /\ left' = m - Size(g) + 1 /\ rem' = h /\ quo' = 0 /\ at' = "estimate"
  BY Zenon DEF Normalize
<1>2. UNCHANGED <<x, d, xlo, tie, mode, a, b, negA, negB>>
  BY DEF Normalize, operands
<1>3. /\ a \in Nat /\ b \in Nat /\ b > 0 /\ MaxSize \in Nat /\ MaxSize - 3 \in 1 .. MaxSize
      /\ a < Pow[MaxSize - 3] /\ b < Pow[MaxSize - 3] /\ B \in Nat /\ B >= 2 /\ x = 0
  BY <1>1, Magnitude DEF IInv, Fresh
<1>4. /\ n \in 2 .. MaxSize - 3 /\ b < Pow[n] /\ p <= b
      /\ n - 1 \in 0 .. MaxSize - 1 /\ (n - 1) + 1 = n
      /\ n \in 1 .. MaxSize /\ n - 1 \in 0 .. MaxSize /\ n \in 0 .. MaxSize
  <2>1. n \in 1 .. MaxSize - 3 /\ b < Pow[n] /\ (n = 1 \/ p <= b)
    BY <1>3, SizeLeast
  <2> HIDE DEF n, p
  <2>2. QED
    BY <2>1, <1>1, <1>3
<1>5. v = b \div p /\ v \in 1 .. B - 1
  <2>1. v = b \div Pow[Size(b) - 1] /\ v \in 1 .. B - 1
    BY <1>3, LeadingFacts
  <2>2. QED
    BY <2>1
<1>6. p \in Nat /\ p > 0 /\ Pow[n] = B * p
  <2>1. Pow[(n - 1) + 1] = B * Pow[n - 1]
    BY <1>4, PowAssumption
  <2>2. QED
    BY <2>1, <1>4, PowPositive
<1>7. v * p <= b /\ b < (v + 1) * p
  <2> HIDE DEF p, v
  <2>1. QED
    BY <1>3, <1>5, <1>6, QuotientRemainder
<1>8. s \in 1 .. B - 1 /\ s * (v + 1) <= B /\ B - 1 <= 2 * (s * v)
  <2> HIDE DEF v
  <2>1. CASE v < B \div 2
    BY <2>1, <1>5, ScaleFacts
  <2>2. CASE ~(v < B \div 2)
    <3>1. s = 1 /\ 1 * (v + 1) = v + 1 /\ 1 * v = v
      BY <2>2, <1>5
    <3>2. B - 1 <= 2 * v
      BY <2>2, <1>3, <1>5
    <3>3. QED
      BY <3>1, <3>2, <1>3, <1>5
  <2>3. QED
    BY <2>1, <2>2
<1> HIDE DEF v, s, p, n
<1>9. v \in Int /\ s \in Nat /\ s >= 1 /\ v \in Nat
  BY <1>3, <1>5, <1>8
<1>10. g \in Nat /\ p <= g /\ g < Pow[n]
  <2>1. g \in Nat
    BY <1>3, <1>9
  <2>2. b <= g
    <3>1. b * 1 <= b * s /\ b * 1 = b
      BY <1>3, <1>9, MulMonotone
    <3>2. QED
      BY <3>1
  <2>3. g < ((v + 1) * p) * s
    <3>1. (v + 1) * p \in Int /\ s > 0
      BY <1>6, <1>9
    <3>2. QED
      BY <3>1, <1>3, <1>7, <1>9, MulStrict
  <2>4. ((v + 1) * p) * s <= B * p
    <3>1. ((v + 1) * p) * s = (s * (v + 1)) * p
      BY <1>6, <1>9
    <3>2. s * (v + 1) \in Int
      BY <1>9
    <3>3. (s * (v + 1)) * p <= B * p
      BY <3>2, <1>3, <1>6, <1>8, MulMonotone
    <3>4. QED
      BY <3>1, <3>3
  <2>5. ((v + 1) * p) * s \in Int /\ B * p \in Int
    BY <1>3, <1>6, <1>9
  <2> HIDE DEF g
  <2>6. QED
    BY <2>1, <2>2, <2>3, <2>4, <2>5, <1>3, <1>4, <1>6
<1>11. Size(g) = n
  <2> HIDE DEF g
  <2>1. Pow[n - 1] <= g
    BY <1>10 DEF p
  <2>2. QED
    BY <2>1, <1>4, <1>10, SizeIs
<1>12. e' = g \div p /\ e' \in 1 .. B - 1
  <2> HIDE DEF g
  <2>1. g > 0
    BY <1>6, <1>10
  <2>2. Leading(g) = g \div Pow[Size(g) - 1] /\ Leading(g) \in 1 .. B - 1
    BY <2>1, <1>4, <1>10, LeadingFacts
  <2>3. QED
    BY <2>2, <1>1, <1>11 DEF p
<1>13. B - 1 <= 2 * e'
  <2>1. (s * v) * p <= g
    <3>1. (v * p) * s <= b * s /\ v * p \in Int /\ (v * p) * s = (s * v) * p
      <4>1. v * p \in Int /\ (v * p) * s = (s * v) * p
        BY <1>6, <1>9
      <4>2. QED
        BY <4>1, <1>3, <1>7, <1>9, MulMonotone
    <3>2. QED
      BY <3>1
  <2> HIDE DEF g
  <2>2. g < (e' + 1) * p /\ e' \in Int
    BY <1>6, <1>10, <1>12, QuotientRemainder
  <2>3. s * v \in Int /\ (s * v) * p \in Int /\ (e' + 1) * p \in Int
    BY <2>2, <1>6, <1>9
  <2>4. (s * v) * p < (e' + 1) * p
    BY <2>1, <2>2, <2>3, <1>10
  <2>5. s * v < e' + 1
    BY <2>2, <2>3, <2>4, <1>6, MulCancel
  <2>6. ASSUME NEW y \in Int, NEW z \in Int, z < y + 1, B - 1 <= 2 * z PROVE B - 1 <= 2 * y
    BY <2>6, <1>3
  <2>7. QED
    BY <2>2, <2>3, <2>5, <2>6, <1>8
<1>14. h \in Nat /\ a <= h /\ h < Pow[MaxSize - 2] /\ MaxSize - 2 \in 1 .. MaxSize
  <2> DEFINE t == Pow[MaxSize - 3]
  <2>1. h \in Nat /\ a * 1 <= h /\ a * 1 = a
    BY <1>3, <1>9, MulMonotone
  <2>2. MaxSize - 3 \in 0 .. MaxSize - 1 /\ MaxSize - 3 \in 0 .. MaxSize /\ (MaxSize - 3) + 1 = MaxSize - 2
        /\ MaxSize - 2 \in 1 .. MaxSize
    BY <1>3, OperandAssumption
  <2>3. t \in Nat
    BY <2>2, PowPositive
  <2>4. Pow[(MaxSize - 3) + 1] = B * t
    BY <2>2, PowAssumption
  <2>5. a < t
    BY <1>3
  <2> HIDE DEF t
  <2>6. a * s < t * s /\ s * t <= B * t
    BY <2>3, <2>5, <1>3, <1>8, <1>9, MulStrict, MulMonotone
  <2>7. a * s \in Int /\ t * s = s * t /\ t * s \in Int /\ B * t \in Int
    BY <2>3, <1>3, <1>9
  <2>8. h < B * t
    BY <2>6, <2>7
  <2>9. QED
    BY <2>1, <2>2, <2>4, <2>8
<1> HIDE DEF h
<1>15. m \in 1 .. MaxSize - 2 /\ h < Pow[m]
  BY <1>14, SizeLeast
<1>16. n <= m
  <2>1. p <= a
    <3> DEFINE k == Size(a)
    <3>1. k \in 1 .. MaxSize - 3 /\ (k = 1 \/ a >= Pow[k - 1]) /\ n <= k
      BY <1>1, <1>3, SizeLeast
    <3> HIDE DEF k
    <3>2. n - 1 \in Nat /\ k - 1 \in Nat /\ n - 1 <= k - 1 /\ k - 1 <= MaxSize /\ k # 1
          /\ k - 1 \in 0 .. MaxSize
      BY <3>1, <1>3, <1>4
    <3>3. Pow[n - 1] <= Pow[k - 1] /\ Pow[k - 1] \in Nat
      BY <3>2, PowGrows, PowPositive
    <3>4. QED
      BY <3>1, <3>2, <3>3, <1>3, <1>6 DEF p
  <2> SUFFICES ASSUME m <= n - 1 PROVE FALSE
    BY <1>4, <1>15, <1>3
  <2>2. m \in Nat /\ n - 1 \in Nat /\ n - 1 <= MaxSize /\ m \in 0 .. MaxSize
    BY <1>3, <1>4, <1>15
  <2>3. Pow[m] <= Pow[n - 1] /\ Pow[m] \in Nat
    BY <2>2, PowGrows, PowPositive
  <2>4. QED
    BY <2>1, <2>3, <1>3, <1>6, <1>14, <1>15 DEF p
<1>17. /\ nbf' = n /\ left' = m - n + 1 /\ left' \in 1 .. MaxSize /\ left' + n + 1 <= MaxSize
       /\ n - 1 \in Nat /\ left' \in Nat /\ (n - 1) + left' = m /\ m <= MaxSize
  <2>1. nbf' = n /\ left' = m - n + 1
    BY <1>1, <1>11
  <2> HIDE DEF m
  <2>2. QED
    BY <2>1, <1>3, <1>4, <1>15, <1>16
<1>18. h < g * Pow[left']
  <2>1. Pow[m] = p * Pow[left'] /\ Pow[left'] \in Nat
    <3>1. left' \in 0 .. MaxSize
      BY <1>17
    <3> HIDE DEF m
    <3>2. Pow[(n - 1) + left'] = Pow[n - 1] * Pow[left']
      BY <1>17, PowSum
    <3>3. QED
      BY <3>1, <3>2, <1>17, PowPositive DEF p
  <2> HIDE DEF m, g
  <2>2. p * Pow[left'] <= g * Pow[left']
    BY <2>1, <1>6, <1>10, MulMonotone
  <2>3. p * Pow[left'] \in Int /\ g * Pow[left'] \in Int
    BY <2>1, <1>6, <1>10
  <2>4. QED
    BY <2>1, <2>2, <2>3, <1>14, <1>15
<1> HIDE DEF g, m
<1>19. DivisionTypeOK'
  <2>1. f' \in Digit /\ e' \in Digit /\ af' \in Nat /\ bf' \in Nat /\ rem' \in Int /\ quo' \in Int
    BY <1>1, <1>3, <1>8, <1>10, <1>12, <1>14 DEF Digit
  <2>2. nbf' \in 0 .. MaxSize - 1 /\ left' \in 0 .. MaxSize /\ nbf' + 1 \in 0 .. MaxSize
    BY <1>3, <1>4, <1>17
  <2>3. x' \in Nat /\ x' < Pow[nbf' + 1]
    BY <2>2, <1>2, <1>3, PowPositive
  <2>4. QED
    BY <2>1, <2>2, <2>3, <1>1, <1>2 DEF IInv, DivisionTypeOK
<1>20. Scaled'
  <2>1. 0 * g = 0 /\ 0 + h = h /\ n \in 1 .. MaxSize - 1
    BY <1>3, <1>4, <1>10, <1>14
  <2>2. bf' = b' * f' /\ af' = a' * f'
    BY <1>1, <1>2 DEF g, h
  <2>3. quo' * bf' + rem' = af'
    BY <2>1, <1>1
  <2>4. e' = bf' \div Pow[nbf' - 1] /\ Pow[nbf' - 1] <= bf' /\ bf' < Pow[nbf']
    BY <1>1, <1>10, <1>11, <1>12 DEF p
  <2>5. at' \notin Round
    BY <1>1 DEF Round
  <2>6. b' > 0 /\ f' > 0 /\ quo' >= 0 /\ rem' >= 0
    BY <1>1, <1>2, <1>3, <1>9, <1>14
  <2>7. nbf' \in 1 .. MaxSize - 1 /\ left' + nbf' + 1 <= MaxSize
    BY <2>1, <1>17
  <2>8. QED
    BY <2>2, <2>3, <2>4, <2>5, <2>6, <2>7, <1>13 DEF Scaled
<1>21. Reduced'
  BY <1>1, <1>18 DEF Reduced, Round
<1>22. QED
  BY <1>1, <1>19, <1>20, <1>21 DEF IInv, Fresh, Rounds, SmallLoop, Magnitudes, FloorDivision,
                          IsFloorDivision

(* What is known of a long division in any of its steps.                     *)
LEMMA LoopFacts ==
    ASSUME IInv, at \in Loop
    PROVE  /\ MaxSize \in Nat /\ B \in Nat /\ B >= 2 /\ a \in Nat /\ b \in Nat /\ b > 0
           /\ f \in Nat /\ f > 0 /\ bf \in Nat /\ bf > 0 /\ af \in Nat
           /\ nbf \in 1 .. MaxSize - 1 /\ nbf + 1 \in 0 .. MaxSize
           /\ left \in 0 .. MaxSize /\ left \in Nat /\ left + nbf + 1 <= MaxSize
           /\ Pow[nbf + 1] \in Nat /\ Pow[nbf + 1] > 0 /\ B * bf < Pow[nbf + 1] /\ 2 * bf <= B * bf
           /\ B * bf \in Nat /\ bf <= B * bf
           /\ Pow[left] \in Nat /\ Pow[left] > 0
           /\ Pow[nbf - 1] \in Nat /\ Pow[nbf - 1] > 0
           /\ quo \in Nat /\ rem \in Nat /\ quo * bf + rem = af
           /\ e = bf \div Pow[nbf - 1] /\ B - 1 <= 2 * e /\ e \in 1 .. B - 1
           /\ d \in 0 .. B - 1 /\ x \in Nat
           /\ Window \in Nat /\ Window < Pow[nbf + 1] /\ Window * Pow[left] <= rem
           /\ (at \in Round /\ ~tie => Window < B * bf /\ rem < (Window + 1) * Pow[left])
<1>1. /\ a \in Nat /\ b \in Nat /\ b > 0 /\ MaxSize \in Nat /\ B \in Nat /\ B >= 2
      /\ quo \in Nat /\ rem \in Nat /\ quo * bf + rem = af /\ bf \in Nat /\ af \in Nat
      /\ nbf \in 1 .. MaxSize - 1 /\ left + nbf + 1 <= MaxSize /\ left \in 0 .. MaxSize
      /\ f \in Nat /\ f > 0 /\ e = bf \div Pow[nbf - 1] /\ B - 1 <= 2 * e /\ e \in 0 .. B - 1
      /\ Pow[nbf - 1] <= bf /\ bf < Pow[nbf] /\ d \in 0 .. B - 1 /\ x \in Nat
      /\ (at \in Round /\ ~tie => rem < (B * bf) * Pow[left])
  BY Magnitude DEF IInv, DivisionTypeOK, Scaled, Digit, Reduced
<1>2. nbf + 1 \in 0 .. MaxSize /\ nbf - 1 \in 0 .. MaxSize /\ nbf \in 0 .. MaxSize - 1 /\ nbf \in 0 .. MaxSize
  BY <1>1
<1> DEFINE P == Pow[left]  T == Pow[nbf + 1]  n == rem \div P
<1>3. T \in Nat /\ T > 0 /\ P \in Nat /\ P > 0 /\ Pow[nbf - 1] \in Nat /\ Pow[nbf - 1] > 0
      /\ Pow[nbf] \in Nat
  BY <1>1, <1>2, PowPositive
<1>4. bf > 0
  BY <1>1, <1>3
<1>5. B * bf < T /\ 2 * bf <= B * bf /\ B * bf \in Nat /\ bf <= B * bf
  <2>1. T = B * Pow[nbf]
    BY <1>2, PowAssumption
  <2>2. bf * B < Pow[nbf] * B
    BY <1>1, <1>3, MulStrict
  <2>3. bf * B = B * bf /\ Pow[nbf] * B = B * Pow[nbf] /\ B * bf \in Nat
    BY <1>1, <1>3
  <2>4. 2 * bf <= B * bf /\ 1 * bf <= B * bf /\ 1 * bf = bf
    BY <1>1, MulMonotone
  <2>5. QED
    BY <2>1, <2>2, <2>3, <2>4
<1>6. Window = n % T
  BY DEF Window
<1> HIDE DEF P, T
<1>7. n \in Nat /\ n * P <= rem /\ rem < (n + 1) * P
  BY <1>1, <1>3, QuotientRemainder
<1> HIDE DEF n
<1>8. Window \in Nat /\ Window < T /\ Window <= n
  BY <1>3, <1>6, <1>7, QuotientRemainder
<1>9. Window * P <= rem
  <2>1. Window * P <= n * P
    BY <1>3, <1>7, <1>8, MulMonotone
  <2>2. Window * P \in Int /\ n * P \in Int
    BY <1>3, <1>7, <1>8
  <2>3. QED
    BY <2>1, <2>2, <1>1, <1>7
<1>10. ASSUME at \in Round, ~tie PROVE Window < B * bf /\ rem < (Window + 1) * P
  <2>1. rem < (B * bf) * P
    BY <1>1, <1>10 DEF P
  <2>2. n * P < (B * bf) * P
    <3>1. n * P \in Int /\ (B * bf) * P \in Int
      BY <1>3, <1>5, <1>7
    <3>2. QED
      BY <3>1, <2>1, <1>1, <1>7
  <2>3. n < B * bf
    BY <2>2, <1>3, <1>5, <1>7, MulCancel
  <2>4. n < T
    BY <2>3, <1>3, <1>5, <1>7
  <2>5. n % T = n
    BY <2>4, <1>3, <1>7
  <2>6. QED
    BY <2>3, <2>5, <1>6, <1>7
<1>11. e \in 1 .. B - 1
  BY <1>1
<1>12. QED
  BY <1>1, <1>2, <1>3, <1>4, <1>5, <1>8, <1>9, <1>10, <1>11 DEF P, T

(* Actions that keep what is scaled and both spans keep what is known of     *)
(* them.                                                                     *)
LEMMA ScaledKept ==
    ASSUME IInv, at \in Loop, UNCHANGED <<a, b, f, af, bf, e, nbf, rem, quo>>,
           at' \in Round => left' + nbf + 2 <= MaxSize,
           left' + nbf + 1 <= MaxSize
    PROVE  Scaled'
  BY DEF IInv, Scaled

LEMMA EstimateInv == ASSUME IInv, Estimate PROVE IInv'
<1> DEFINE w == (rem \div Pow[left - 1]) % Pow[nbf + 1]
<1>1. /\ at = "estimate" /\ left > 0 /\ left' = left - 1 /\ x' = w /\ at' = "subtract"
      /\ d' = DivSaturate(DigitAt(w, nbf), DigitAt(w, nbf - 1), e)
  BY Zenon DEF Estimate
<1>2. UNCHANGED <<rem, quo, xlo, tie, mode, a, b, negA, negB, f, af, bf, e, nbf>>
  BY DEF Estimate, operands, scaled
<1>3. at \in Loop /\ at' \in Round /\ at' \in Loop
  BY <1>1 DEF Loop, Round
<1>4. w = Window'
  BY <1>1, <1>2 DEF Window
<1>5. left - 1 \in 0 .. MaxSize - 1 /\ left - 1 \in 0 .. MaxSize /\ (left - 1) + 1 = left
      /\ left' + nbf + 2 <= MaxSize /\ left' + nbf + 1 <= MaxSize /\ left' \in 0 .. MaxSize
  BY <1>1, <1>3, LoopFacts
<1>6. w \in Nat /\ w < Pow[nbf + 1]
  <2> DEFINE p == Pow[left - 1]  T == Pow[nbf + 1]  n == rem \div p
  <2>1. p \in Nat /\ p > 0
    BY <1>5, PowPositive
  <2>2. T \in Nat /\ T > 0 /\ rem \in Nat
    BY <1>3, LoopFacts
  <2> HIDE DEF p, T
  <2>3. n \in Nat
    BY <2>1, <2>2, QuotientRemainder
  <2> HIDE DEF n
  <2>4. n % T \in Nat /\ n % T < T
    BY <2>2, <2>3
  <2>5. QED
    BY <2>4 DEF n, p, T
<1> HIDE DEF w
<1>7. /\ d' \in Digit /\ d' * e <= w \div Pow[nbf - 1]
      /\ w < B * bf => w \div bf <= d' /\ d' <= (w \div bf) + 2
  <2>1. bf \in Nat /\ e \in Nat /\ e > 0 /\ e < B /\ nbf \in 1 .. MaxSize - 1
        /\ e = bf \div Pow[nbf - 1] /\ B - 1 <= 2 * e
    BY <1>3, LoopFacts
  <2>2. QED
    BY <2>1, <1>1, <1>6, EstimateFacts
<1>8. DivisionTypeOK'
  BY <1>1, <1>2, <1>5, <1>6, <1>7 DEF IInv, DivisionTypeOK
<1>9. Scaled'
  BY <1>2, <1>3, <1>5, ScaledKept
<1>10. Rounds'
  BY <1>1, <1>2, <1>4, <1>7 DEF Rounds
<1>11. Reduced'
  <2> SUFFICES ASSUME ~tie PROVE rem < (B * bf) * Pow[left - 1]
    BY <1>1, <1>2 DEF Reduced, Round
  <2>1. rem < bf * Pow[left]
    BY <1>1 DEF IInv, Reduced
  <2>2. Pow[(left - 1) + 1] = B * Pow[left - 1] /\ Pow[left - 1] \in Nat
    BY <1>5, PowAssumption
  <2>3. bf \in Nat /\ B \in Nat
    BY <1>3, LoopFacts
  <2>4. bf * (B * Pow[left - 1]) = (B * bf) * Pow[left - 1]
    BY <2>2, <2>3
  <2>5. QED
    BY <2>1, <2>2, <2>4, <1>5
<1>12. QED
  BY <1>1, <1>8, <1>9, <1>10, <1>11 DEF IInv, Fresh, SmallLoop, Magnitudes, FloorDivision, IsFloorDivision

LEMMA DistFacts ==
    ASSUME NEW m \in Nat, NEW n \in Nat
    PROVE  /\ Dist(m, n) \in Nat
           /\ m >= n => Dist(m, n) = m - n
           /\ m < n => Dist(m, n) = n - m
           /\ m <= n => Dist(m, n) = n - m
  BY DEF Dist

LEMMA SubtractInv == ASSUME IInv, Subtract PROVE IInv'
<1> DEFINE z == bf * d  w == Window  q == w \div bf
<1>1. /\ at = "subtract" /\ x' = Dist(x, z) /\ at' = (IF x < z THEN "correct" ELSE "store")
      /\ UNCHANGED <<left, d, rem, quo, xlo, tie, mode, a, b, negA, negB, f, af, bf, e, nbf>>
  BY DEF Subtract, operands, scaled
<1>2. at \in Loop /\ at \in Round /\ at' \in Round
  BY <1>1 DEF Loop, Round
<1>3. /\ x = w /\ d * e <= w \div Pow[nbf - 1] /\ (w < B * bf => q <= d /\ d <= q + 2)
  BY <1>1 DEF IInv, Rounds
<1>4. /\ B \in Nat /\ B >= 2 /\ bf \in Nat /\ bf > 0 /\ d \in 0 .. B - 1 /\ w \in Nat
      /\ w < Pow[nbf + 1] /\ B * bf < Pow[nbf + 1] /\ 2 * bf <= B * bf /\ Pow[nbf + 1] \in Nat
      /\ B * bf \in Nat /\ bf <= B * bf
      /\ e \in 1 .. B - 1 /\ Pow[nbf - 1] \in Nat /\ Pow[nbf - 1] > 0
      /\ (~tie => w < B * bf)
  BY <1>2, LoopFacts
<1>5. Window' = w
  BY <1>1 DEF Window
<1> HIDE DEF w
<1>6. z \in Nat /\ z = d * bf /\ (d + 1) * bf = z + bf
  BY <1>4
<1>7. q \in Int /\ q * bf <= w /\ w < (q + 1) * bf /\ q * bf \in Int /\ (q + 1) * bf = q * bf + bf
  <2>1. q \in Int /\ q * bf <= w /\ w < (q + 1) * bf
    BY <1>4, QuotientRemainder
  <2> HIDE DEF q
  <2>2. QED
    BY <2>1, <1>4
<1> HIDE DEF z, q
<1>8. ASSUME w >= z
      PROVE  Rounds' /\ x' \in Nat /\ x' < Pow[nbf + 1] /\ at' \in {"correct", "store"}
  <2>1. x' = w - z /\ at' = "store" /\ x' \in Nat
    BY <1>1, <1>3, <1>4, <1>6, <1>8, DistFacts
  <2>2. ASSUME ~tie PROVE x' < bf
    <3>1. q <= d
      BY <2>2, <1>3, <1>4
    <3>2. q * bf <= d * bf
      BY <3>1, <1>4, <1>7, MulMonotone
    <3>3. QED
      BY <3>2, <2>1, <1>4, <1>6, <1>7
  <2>3. Rounds'
    BY <2>1, <2>2, <1>1, <1>5 DEF Rounds, z
  <2>4. x' < Pow[nbf + 1]
    BY <2>1, <1>4, <1>6
  <2>5. QED
    BY <2>1, <2>3, <2>4
<1>9. ASSUME w < z
      PROVE  Rounds' /\ x' \in Nat /\ x' < Pow[nbf + 1] /\ at' \in {"correct", "store"}
  <2>1. x' = z - w /\ at' = "correct" /\ x' \in Nat /\ x' > 0
    BY <1>1, <1>3, <1>4, <1>6, <1>9, DistFacts
  <2>2. d <= q + 2
    <3>1. d * bf <= (B - 1) * bf /\ (B - 1) * bf = B * bf - bf
      BY <1>4, MulMonotone
    <3>2. w < B * bf
      BY <3>1, <1>4, <1>6, <1>9
    <3>3. QED
      BY <3>2, <1>3
  <2>3. x' <= 2 * bf
    <3>1. d * bf <= (q + 2) * bf /\ (q + 2) * bf = q * bf + 2 * bf
      BY <2>2, <1>4, <1>7, MulMonotone
    <3>2. QED
      BY <3>1, <2>1, <1>4, <1>6, <1>7
  <2>4. d >= 1
    <3> SUFFICES ASSUME d = 0 PROVE FALSE
      BY <1>4
    <3>1. 0 * bf = 0
      BY <1>4
    <3>2. QED
      BY <3>1, <1>4, <1>6, <1>9
  <2>5. ASSUME d = 1 PROVE x' < bf
    <3> DEFINE p == Pow[nbf - 1]  u == w \div p
    <3>1. u \in Int /\ u * p <= w /\ p \in Nat /\ p > 0
      BY <1>4, QuotientRemainder
    <3>2. 1 * e <= u /\ 1 * e = e
      BY <2>5, <1>3, <1>4
    <3> HIDE DEF p, u
    <3>3. 1 * p <= u * p /\ 1 * p = p
      <4>1. 1 <= u
        BY <3>1, <3>2, <1>4
      <4>2. QED
        BY <4>1, <3>1, MulMonotone
    <3>4. w > 0
      <4>1. u * p \in Int
        BY <3>1
      <4>2. QED
        BY <4>1, <3>1, <3>3, <1>4
    <3>5. z = bf
      <4>1. 1 * bf = bf
        BY <1>4
      <4>2. QED
        BY <4>1, <2>5, <1>6
    <3>6. QED
      BY <3>4, <3>5, <2>1, <1>4
  <2>6. Rounds'
    BY <2>1, <2>3, <2>4, <2>5, <1>1, <1>5 DEF Rounds, z
  <2>7. x' < Pow[nbf + 1]
    BY <2>1, <2>3, <1>4
  <2>8. QED
    BY <2>1, <2>6, <2>7
<1>10. Rounds' /\ x' \in Nat /\ x' < Pow[nbf + 1] /\ at' \in {"correct", "store"}
  BY <1>4, <1>6, <1>8, <1>9
<1>11. DivisionTypeOK'
  BY <1>1, <1>10 DEF IInv, DivisionTypeOK
<1>12. Scaled'
  <2>1. left + nbf + 2 <= MaxSize /\ left + nbf + 1 <= MaxSize
    BY <1>2 DEF IInv, Scaled
  <2>2. QED
    BY <2>1, <1>1, <1>2, ScaledKept
<1>13. Reduced'
  BY <1>1, <1>2, <1>10 DEF IInv, Reduced, Round
<1>14. QED
  BY <1>10, <1>11, <1>12, <1>13 DEF IInv, Fresh, SmallLoop, Magnitudes, FloorDivision, IsFloorDivision

(* Both corrections: x still is what is missing to the window.               *)
LEMMA CorrectInv == ASSUME IInv, CorrectOnce \/ CorrectTwice PROVE IInv'
<1> DEFINE z == bf * d  w == Window
<1>1. /\ at \in {"correct", "again"} /\ d' = (d - 1) % B /\ x' = Dist(x, bf)
      /\ UNCHANGED <<left, rem, quo, xlo, mode, a, b, negA, negB, f, af, bf, e, nbf>>
      /\ at = "again" => at' = "store" /\ tie' = tie
      /\ at = "correct" => at' = (IF x >= bf THEN "again" ELSE "store") /\ tie' = (tie \/ x = bf)
  BY DEF CorrectOnce, CorrectTwice, operands, scaled
<1>2. at \in Loop /\ at \in Round /\ at' \in {"again", "store"} /\ at' \in Round
  BY <1>1 DEF Loop, Round
<1>3. /\ B \in Nat /\ bf \in Nat /\ bf > 0 /\ d \in 0 .. B - 1 /\ w \in Nat /\ x \in Nat
      /\ 2 * bf < Pow[nbf + 1] /\ Pow[nbf + 1] \in Nat /\ bf < Pow[nbf + 1]
  BY <1>2, LoopFacts
<1>4. Window' = w
  BY <1>1 DEF Window
<1> HIDE DEF w
<1>5. d >= 1 /\ x = z - w /\ (at = "again" => x <= bf /\ (~tie => x > 0))
      /\ (at = "correct" => 0 < x /\ x <= 2 * bf /\ (d = 1 => x < bf))
  BY <1>1 DEF IInv, Rounds, w
<1>6. d' = d - 1 /\ d' \in Digit /\ z \in Int /\ bf * (d - 1) = z - bf
  <2>1. d - 1 \in 0 .. B - 1 /\ (d - 1) % B = d - 1
    BY <1>3, <1>5
  <2>2. z \in Int /\ bf * (d - 1) = z - bf
    BY <1>3
  <2>3. QED
    BY <2>1, <2>2, <1>1 DEF Digit
<1> HIDE DEF z
<1>7. bf' * d' = z - bf
  BY <1>1, <1>6
<1>8. ASSUME at' = "again" PROVE Rounds' /\ x' \in Nat /\ x' <= bf
  <2>1. at = "correct" /\ x >= bf /\ tie' = (tie \/ x = bf)
    BY <1>1, <1>8
  <2>2. x' = x - bf /\ x' \in Nat
    BY <2>1, <1>1, <1>3, DistFacts
  <2>3. x' = (z - bf) - w /\ x' <= bf /\ d' >= 1
    BY <2>1, <2>2, <1>3, <1>5, <1>6
  <2>4. ~tie' => x' > 0
    <3>1. ~tie' => x # bf
      BY <2>1, Zenon
    <3>2. QED
      BY <3>1, <2>1, <2>2, <1>3
  <2>5. Rounds'
    BY <2>3, <2>4, <1>1, <1>4, <1>7, <1>8 DEF Rounds
  <2>6. QED
    BY <2>2, <2>3, <2>5, <1>3
<1>9. ASSUME at' = "store" PROVE Rounds' /\ x' \in Nat /\ x' <= bf
  <2>1. x <= bf /\ (~tie' => x > 0)
    <3>1. CASE at = "again"
      BY <3>1, <1>1, <1>5
    <3>2. CASE at = "correct"
      BY <3>2, <1>1, <1>3, <1>5, <1>9
    <3>3. QED
      BY <3>1, <3>2, <1>1
  <2>2. x' = bf - x /\ x' \in Nat
    BY <2>1, <1>1, <1>3, DistFacts
  <2>3. x' = w - (z - bf)
    BY <2>2, <1>3, <1>5, <1>6
  <2>4. (~tie' => x' < bf) /\ x' <= bf
    BY <2>1, <2>2, <1>3
  <2>5. Rounds'
    BY <2>3, <2>4, <1>1, <1>4, <1>7, <1>9 DEF Rounds
  <2>6. QED
    BY <2>2, <2>4, <2>5, <1>3
<1>10. Rounds' /\ x' \in Nat /\ x' < Pow[nbf + 1]
  <2>1. Rounds' /\ x' \in Nat /\ x' <= bf
    BY <1>2, <1>8, <1>9
  <2>2. QED
    BY <2>1, <1>3
<1>11. tie' \in BOOLEAN /\ (~tie' => ~tie)
  <2>1. tie' = tie \/ tie' = (tie \/ x = bf)
    BY <1>1
  <2>2. tie \in BOOLEAN
    BY DEF IInv, DivisionTypeOK
  <2>3. (tie \/ x = bf) \in BOOLEAN
    OBVIOUS
  <2>4. tie' \in BOOLEAN
    BY <2>1, <2>2, <2>3
  <2>5. ~tie' => ~tie
    BY <2>1, Zenon
  <2>6. QED
    BY <2>4, <2>5
<1>12. DivisionTypeOK'
  BY <1>1, <1>2, <1>6, <1>10, <1>11 DEF IInv, DivisionTypeOK
<1>13. Scaled'
  <2>1. left + nbf + 2 <= MaxSize /\ left + nbf + 1 <= MaxSize
    BY <1>2 DEF IInv, Scaled
  <2>2. QED
    BY <2>1, <1>1, <1>2, ScaledKept
<1>14. Reduced'
  BY <1>1, <1>2, <1>11 DEF IInv, Reduced, Round
<1>15. QED
  BY <1>2, <1>10, <1>12, <1>13, <1>14 DEF IInv, Fresh, SmallLoop, Magnitudes, FloorDivision, IsFloorDivision

LEMMA StoreDigitInv == ASSUME IInv, StoreDigit PROVE IInv'
<1> DEFINE z == bf * d  w == Window  P == Pow[left]
<1>1. /\ at = "store" /\ rem' = rem + (x - w) * P /\ quo' = quo + d * P /\ at' = "estimate"
      /\ UNCHANGED <<left, x, d, xlo, tie, mode, a, b, negA, negB, f, af, bf, e, nbf>>
  BY DEF StoreDigit, operands, scaled, Window
<1>2. at \in Loop /\ at \in Round
  BY <1>1 DEF Loop, Round
<1>3. /\ B \in Nat /\ bf \in Nat /\ bf > 0 /\ d \in 0 .. B - 1 /\ w \in Nat /\ x \in Nat
      /\ P \in Nat /\ P > 0 /\ quo \in Nat /\ rem \in Nat /\ quo * bf + rem = af /\ w * P <= rem
      /\ (~tie => rem < (w + 1) * P)
  BY <1>2, LoopFacts
<1>4. x = w - z /\ (~tie => x < bf)
  BY <1>1 DEF IInv, Rounds
<1> HIDE DEF w, P
<1>5. z \in Nat
  BY <1>3
<1>6. rem' = rem + x * P - w * P /\ x * P \in Nat /\ w * P \in Nat /\ d * P \in Nat
  <2>1. (x - w) * P = x * P - w * P /\ x * P \in Nat /\ w * P \in Nat /\ d * P \in Nat
    BY <1>3
  <2>2. QED
    BY <2>1, <1>1, <1>3
<1>7. rem' \in Nat /\ quo' \in Nat
  BY <1>1, <1>3, <1>6
<1>8. quo' * bf + rem' = af
  <2>1. (quo + d * P) * bf = quo * bf + (d * P) * bf /\ (d * P) * bf = z * P
    BY <1>3
  <2>2. x * P = w * P - z * P
    <3> HIDE DEF z
    <3>1. (w - z) * P = w * P - z * P
      BY <1>3, <1>5
    <3>2. QED
      BY <3>1, <1>4
  <2>3. quo * bf \in Int /\ z * P \in Int
    BY <1>3, <1>5
  <2>4. QED
    BY <2>1, <2>2, <2>3, <1>1, <1>3, <1>6
<1>9. ASSUME ~tie PROVE rem' < bf * P
  <2>1. (w + 1) * P = w * P + P /\ (x + 1) * P = x * P + P
    BY <1>3
  <2>2. (x + 1) * P <= bf * P
    BY <1>3, <1>4, <1>9, MulMonotone
  <2>3. bf * P \in Int
    BY <1>3
  <2>4. QED
    BY <2>1, <2>2, <2>3, <1>3, <1>6, <1>9
<1>10. DivisionTypeOK'
  BY <1>1, <1>7 DEF IInv, DivisionTypeOK
<1>11. Scaled'
  BY <1>1, <1>2, <1>7, <1>8 DEF IInv, Scaled, Round, Loop
<1>12. Reduced'
  BY <1>1, <1>9 DEF Reduced, Round, P
<1>13. QED
  BY <1>1, <1>10, <1>11, <1>12 DEF IInv, Fresh, Rounds, SmallLoop, Magnitudes, FloorDivision, IsFloorDivision

(* Nothing is left over when the remainder is divided by the scale.          *)
LEMMA DenormalizeInv == ASSUME IInv, Denormalize PROVE IInv'
<1> DEFINE y == quo * b  r == a - y
<1>1. /\ at = "estimate" /\ left = 0 /\ at' = "signs"
      /\ rem' = (IF mode = "div" THEN rem ELSE rem \div f)
      /\ xlo' = (IF mode = "div" THEN 0 ELSE rem % f)
      /\ UNCHANGED <<left, x, d, quo, tie, mode, a, b, negA, negB, f, af, bf, e, nbf>>
  BY DEF Denormalize, operands, scaled
<1>2. at \in Loop
  BY <1>1 DEF Loop
<1>3. /\ a \in Nat /\ b \in Nat /\ b > 0 /\ f \in Nat /\ f > 0 /\ bf \in Nat /\ rem \in Nat /\ quo \in Nat
      /\ quo * bf + rem = af /\ af = a * f /\ bf = b * f
      /\ (~tie => rem < bf * Pow[0]) /\ Pow[0] = 1
  BY <1>1, <1>2, LoopFacts, PowAssumption DEF IInv, Scaled, Reduced
<1>4. y \in Nat /\ r \in Int
  BY <1>3
<1>5. rem = r * f
  <2>1. quo * (b * f) = y * f
    BY <1>3
  <2> HIDE DEF y
  <2>2. (a - y) * f = a * f - y * f /\ y * f \in Int /\ a * f \in Int
    BY <1>3, <1>4
  <2>3. QED
    BY <2>1, <2>2, <1>3
<1>6. ~tie => rem < b * f
  BY <1>3
<1> HIDE DEF r
<1>7. r >= 0
  <2> SUFFICES ASSUME r + 1 <= 0 PROVE FALSE
    BY <1>4
  <2>1. (r + 1) * f <= 0 * f /\ 0 * f = 0 /\ (r + 1) * f = r * f + f /\ r * f \in Int
    BY <1>3, <1>4, MulMonotone
  <2>2. QED
    BY <2>1, <1>3, <1>5
<1>8. ~tie => r < b
  BY <1>3, <1>4, <1>5, <1>6, MulCancel
<1>9. rem = 0 <=> r = 0
  <2>1. r = 0 => r * f = 0
    BY <1>3
  <2>2. r >= 1 => 1 * f <= r * f /\ 1 * f = f
    BY <1>3, <1>4, MulMonotone
  <2>3. QED
    BY <2>1, <2>2, <1>3, <1>4, <1>5, <1>7
<1>10. rem \div f = r /\ rem % f = 0
  <2>1. r * f <= rem /\ (r + 1) * f = r * f + f /\ r * f \in Int
    BY <1>3, <1>4, <1>5
  <2>2. rem < (r + 1) * f
    BY <2>1, <1>3, <1>5
  <2>3. rem \div f = r /\ rem % f = rem - r * f
    BY <2>1, <2>2, <1>3, <1>4, QuotientUnique
  <2>4. QED
    BY <2>1, <2>3, <1>3, <1>5
<1>11. xlo' = 0 /\ 0 \in Digit
  BY <1>1, <1>10, BAssumption DEF Digit
<1>12. DivisionTypeOK'
  BY <1>1, <1>3, <1>4, <1>10, <1>11 DEF IInv, DivisionTypeOK
<1>13. Magnitudes'
  <2> HIDE DEF y
  <2>1. r = a - y
    BY DEF r
  <2>2. mode = "div" => rem' = rem /\ (~tie => y <= a /\ a < y + b) /\ (~tie => (rem = 0 <=> y = a))
    BY <2>1, <1>1, <1>3, <1>4, <1>7, <1>8, <1>9
  <2>3. mode # "div" => rem' = r /\ y + r = a
    BY <2>1, <1>1, <1>3, <1>4, <1>10
  <2>4. QED
    BY <2>2, <2>3, <1>1, <1>3, <1>7, <1>8, <1>11 DEF Magnitudes, DenormalizesExactly, y
<1>14. QED
  BY <1>1, <1>12, <1>13 DEF IInv, Fresh, Scaled, Reduced, Rounds, SmallLoop, FloorDivision,
                            IsFloorDivision, Loop, Round

----------------------------------------------------------------------------
(* From the quotient of the magnitudes to floor division.                    *)

LEMMA SignedProducts ==
    ASSUME NEW p \in Int, NEW m \in Int
    PROVE  /\ (0 - p) * m = 0 - p * m /\ p * (0 - m) = 0 - p * m
           /\ (0 - p - 1) * m = 0 - p * m - m /\ (0 - p - 1) * (0 - m) = p * m + m
           /\ (0 - p) * (0 - m) = p * m
           /\ p * m \in Int
  OBVIOUS

(* What FixSigns makes of both numbers, case by case of the signs.           *)
LEMMA FixSignsInv == ASSUME IInv, FixSigns PROVE IInv'
<1> DEFINE va == Signed(negA, a)  vb == Signed(negB, b)  negQ == negA # negB  z == quo * b
           vr == Signed(negA, rem)
           r == IF mode = "div" \/ rem = 0 THEN rem ELSE vr + (IF negQ THEN vb ELSE 0)
<1>1. /\ at = "signs" /\ at' = "done" /\ rem' = r
      /\ quo' = Signed(negQ, quo) - Flag(r # 0 /\ negQ)
  BY Zenon DEF FixSigns
<1>2. UNCHANGED <<left, x, d, xlo, tie, mode, a, b, negA, negB, f, af, bf, e, nbf>>
  BY DEF FixSigns, operands, scaled
<1>3. /\ a \in Nat /\ b \in Nat /\ b > 0 /\ rem \in Nat /\ quo \in Nat
      /\ negA \in BOOLEAN /\ negB \in BOOLEAN
      /\ (mode # "div" => z + rem = a /\ (~tie => rem < b))
      /\ (mode = "div" => (~tie => z <= a /\ a < z + b) /\ (~tie => (rem = 0 <=> z = a)))
  <2>1. a \in Nat /\ b \in Nat /\ rem \in Int /\ quo \in Int /\ negA \in BOOLEAN /\ negB \in BOOLEAN
    BY Magnitude DEF IInv, DivisionTypeOK
  <2>2. QED
    BY <2>1, <1>1 DEF IInv, Magnitudes
<1>4. z \in Int /\ z >= 0
  BY <1>3
<1>5. /\ quo * b = z /\ (0 - quo) * b = 0 - z /\ quo * (0 - b) = 0 - z
      /\ (0 - quo - 1) * b = 0 - z - b /\ (0 - quo - 1) * (0 - b) = z + b
      /\ (0 - quo) * (0 - b) = z
  <2>1. quo \in Int /\ b \in Int
    BY <1>3
  <2>2. QED
    BY <2>1, SignedProducts
<1> HIDE DEF z
<1>6. /\ ~negQ => quo' = quo - 0
      /\ negQ /\ r # 0 => quo' = 0 - quo - 1
      /\ negQ /\ r = 0 => quo' = 0 - quo - 0
  <2> HIDE DEF r
  <2>1. QED
    BY <1>1, Zenon DEF Signed, Flag
<1>7. /\ mode = "div" \/ rem = 0 => r = rem
      /\ mode # "div" /\ rem # 0 /\ negQ => r = vr + vb
      /\ mode # "div" /\ rem # 0 /\ ~negQ => r = vr + 0
  <2> HIDE DEF vr, vb, negQ
  <2>1. QED
    BY Zenon
<1>8. /\ negA => vr = 0 - rem /\ va = 0 - a
      /\ ~negA => vr = rem /\ va = a
      /\ negB => vb = 0 - b
      /\ ~negB => vb = b
  BY Zenon DEF Signed
<1>9. negQ <=> (negA /\ ~negB) \/ (~negA /\ negB)
  BY <1>3, Zenon
<1> HIDE DEF r, va, vb, vr, negQ
<1>10. va \in Int /\ vb \in Int
  BY <1>3, <1>8
<1>11. r \in Int /\ quo' \in Int
  <2>1. r \in Int
    BY <1>3, <1>7, <1>8, <1>9, <1>10
  <2>2. QED
    BY <2>1, <1>3, <1>6
<1>12. ASSUME ~tie, mode # "div"
      PROVE  /\ va = quo' * vb + rem'
             /\ IF negB THEN vb < rem' /\ rem' <= 0 ELSE 0 <= rem' /\ rem' < vb
  <2>1. z + rem = a /\ rem < b
    BY <1>3, <1>12
  <2>2. CASE ~negA /\ ~negB
    <3>1. rem' = rem /\ quo' = quo
      BY <2>2, <1>1, <1>3, <1>12, <1>6, <1>7, <1>8, <1>9
    <3>2. QED
      BY <3>1, <2>1, <2>2, <1>3, <1>4, <1>5, <1>8
  <2>3. CASE negA /\ negB
    <3>1. ~negQ /\ vr = 0 - rem
      BY <2>3, <1>8, <1>9
    <3>2. r = 0 - rem
      <4>1. CASE rem = 0
        BY <4>1, <1>7
      <4>2. CASE rem # 0
        BY <4>2, <3>1, <1>3, <1>12, <1>7
      <4>3. QED
        BY <4>1, <4>2
    <3>3. rem' = 0 - rem /\ quo' = quo
      BY <3>1, <3>2, <1>1, <1>3, <1>6
    <3>4. QED
      BY <3>3, <2>1, <2>3, <1>3, <1>4, <1>5, <1>8
  <2>4. CASE negA /\ ~negB
    <3>1. CASE rem = 0
      <4>1. rem' = 0 /\ quo' = 0 - quo
        BY <2>4, <3>1, <1>1, <1>3, <1>6, <1>7, <1>9
      <4>2. QED
        BY <4>1, <3>1, <2>1, <2>4, <1>3, <1>4, <1>5, <1>8
    <3>2. CASE rem # 0
      <4>1. r = (0 - rem) + b /\ r # 0
        BY <2>1, <2>4, <3>2, <1>3, <1>12, <1>7, <1>8, <1>9
      <4>2. rem' = b - rem /\ quo' = 0 - quo - 1
        BY <4>1, <2>4, <1>1, <1>3, <1>6, <1>9
      <4>3. QED
        BY <4>2, <3>2, <2>1, <2>4, <1>3, <1>4, <1>5, <1>8
    <3>3. QED
      BY <3>1, <3>2
  <2>5. CASE ~negA /\ negB
    <3>1. CASE rem = 0
      <4>1. rem' = 0 /\ quo' = 0 - quo
        BY <2>5, <3>1, <1>1, <1>3, <1>6, <1>7, <1>9
      <4>2. QED
        BY <4>1, <3>1, <2>1, <2>5, <1>3, <1>4, <1>5, <1>8
    <3>2. CASE rem # 0
      <4>1. r = rem + (0 - b) /\ r # 0
        BY <2>1, <2>5, <3>2, <1>3, <1>12, <1>7, <1>8, <1>9
      <4>2. rem' = rem - b /\ quo' = 0 - quo - 1
        BY <4>1, <2>5, <1>1, <1>3, <1>6, <1>9
      <4>3. QED
        BY <4>2, <3>2, <2>1, <2>5, <1>3, <1>4, <1>5, <1>8
    <3>3. QED
      BY <3>1, <3>2
  <2>6. QED
    BY <2>2, <2>3, <2>4, <2>5, <1>3
<1>13. ASSUME ~tie, mode # "div" PROVE (va - rem') % b = 0
  <2>1. va = quo' * vb + rem' /\ rem' \in Int
    BY <1>1, <1>11, <1>12, <1>13
  <2>2. va - rem' = quo' * vb
    <3>1. quo' * vb \in Int
      BY <1>11, <1>10
    <3>2. QED
      BY <2>1, <3>1, <1>10
  <2>3. CASE negB
    <3>1. vb = 0 - b
      BY <2>3, <1>8
    <3>2. quo' * (0 - b) = (0 - quo') * b /\ 0 - quo' \in Int
      BY <1>3, <1>11
    <3>3. ((0 - quo') * b) % b = 0
      BY <3>2, <1>3, ModMultiple
    <3>4. QED
      BY <3>1, <3>2, <3>3, <2>2
  <2>4. CASE ~negB
    <3>1. vb = b
      BY <2>4, <1>8
    <3>2. (quo' * b) % b = 0
      BY <1>3, <1>11, ModMultiple
    <3>3. QED
      BY <3>1, <3>2, <2>2
  <2>5. QED
    BY <2>3, <2>4
<1>14. ASSUME ~tie, mode = "div"
      PROVE  IF negB THEN va <= quo' * vb /\ quo' * vb + vb < va
             ELSE quo' * vb <= va /\ va < quo' * vb + vb
  <2>1. z <= a /\ a < z + b /\ (rem = 0 <=> z = a) /\ r = rem
    BY <1>3, <1>14, <1>7
  <2>2. CASE ~negQ
    <3>1. quo' = quo
      BY <2>2, <1>3, <1>6
    <3>2. QED
      BY <2>1, <2>2, <3>1, <1>3, <1>4, <1>5, <1>8, <1>9
  <2>3. CASE negQ /\ rem = 0
    <3>1. quo' = 0 - quo
      BY <2>1, <2>3, <1>3, <1>6
    <3>2. QED
      BY <2>1, <2>3, <3>1, <1>3, <1>4, <1>5, <1>8, <1>9
  <2>4. CASE negQ /\ rem # 0
    <3>1. quo' = 0 - quo - 1
      BY <2>1, <2>4, <1>6
    <3>2. QED
      BY <2>1, <2>4, <3>1, <1>3, <1>4, <1>5, <1>8, <1>9
  <2>5. QED
    BY <2>2, <2>3, <2>4
<1>15. va' = va /\ vb' = vb
  BY <1>2 DEF va, vb
<1>16. FloorDivision'
  <2> SUFFICES ASSUME ~tie PROVE IsFloorDivision'
    BY <1>2 DEF FloorDivision
  <2>1. mode # "div" =>
            /\ va = quo' * vb + rem' /\ (va - rem') % b = 0
            /\ IF negB THEN vb < rem' /\ rem' <= 0 ELSE 0 <= rem' /\ rem' < vb
    BY <1>12, <1>13
  <2>2. mode = "div" => IF negB THEN va <= quo' * vb /\ quo' * vb + vb < va
                        ELSE quo' * vb <= va /\ va < quo' * vb + vb
    BY <1>14
  <2> HIDE DEF va, vb
  <2>3. IsFloorDivision' <=>
          (at' = "done" =>
            /\ mode' = "divmod" => va' = quo' * vb' + rem'
            /\ mode' # "div" => (va' - rem') % b' = 0
            /\ mode' # "div" => IF negB' THEN vb' < rem' /\ rem' <= 0 ELSE 0 <= rem' /\ rem' < vb'
            /\ mode' = "div" => IF negB' THEN va' <= quo' * vb' /\ quo' * vb' + vb' < va'
                                ELSE quo' * vb' <= va' /\ va' < quo' * vb' + vb')
    BY Zenon DEF IsFloorDivision, va, vb
  <2>4. mode' = mode /\ negB' = negB /\ b' = b
    BY <1>2
  <2>5. mode = "divmod" => mode # "div"
    OBVIOUS
  <2>6. QED
    BY <2>1, <2>2, <2>3, <2>4, <2>5, <1>15, Zenon
<1>17. DivisionTypeOK'
  BY <1>1, <1>2, <1>11 DEF IInv, DivisionTypeOK
<1>18. QED
  BY <1>1, <1>16, <1>17 DEF IInv, Fresh, Scaled, Reduced, Rounds, SmallLoop, Magnitudes, Loop, Round

LEMMA StutterInv == ASSUME IInv, UNCHANGED divisionVars PROVE IInv'
  BY DEF IInv, divisionVars, DivisionTypeOK, Fresh, Scaled, Reduced, Rounds, SmallLoop, SmallReduced, Magnitudes,
         DenormalizesExactly, FloorDivision, IsFloorDivision, Window

LEMMA NextInv == IInv /\ [DivisionNext]_divisionVars => IInv'
<1> SUFFICES ASSUME IInv, [DivisionNext]_divisionVars PROVE IInv'
  OBVIOUS
<1>1. CASE Throw
  BY <1>1, ThrowInv
<1>2. CASE ShortcutSmaller
  BY <1>2, ShortcutSmallerInv
<1>3. CASE ShortcutDigit
  BY <1>3, ShortcutDigitInv
<1>4. CASE SmallStep
  BY <1>4, SmallStepInv
<1>5. CASE SmallEnd
  BY <1>5, SmallEndInv
<1>6. CASE Normalize
  BY <1>6, NormalizeInv
<1>7. CASE Estimate
  BY <1>7, EstimateInv
<1>8. CASE Subtract
  BY <1>8, SubtractInv
<1>9. CASE CorrectOnce \/ CorrectTwice
  BY <1>9, CorrectInv
<1>10. CASE StoreDigit
  BY <1>10, StoreDigitInv
<1>11. CASE Denormalize
  BY <1>11, DenormalizeInv
<1>12. CASE FixSigns
  BY <1>12, FixSignsInv
<1>13. CASE DivisionReturn \/ UNCHANGED divisionVars
  BY <1>13, StutterInv DEF DivisionReturn
<1>14. QED
  BY <1>1, <1>2, <1>3, <1>4, <1>5, <1>6, <1>7, <1>8, <1>9, <1>10, <1>11, <1>12, <1>13 DEF DivisionNext

----------------------------------------------------------------------------
(* The strengthened invariant holds in every behaviour of a division.        *)
THEOREM Inductive == DivisionSpec => []IInv
<1>1. QED
  BY InitInv, NextInv, PTL DEF DivisionSpec

(* Every digit, index and window of the division stays in its range.         *)
THEOREM TypeCorrect == DivisionSpec => []DivisionTypeOK
<1>1. IInv => DivisionTypeOK
  BY DEF IInv
<1>2. QED
  BY <1>1, Inductive, PTL

(* Long division (_divide_loop) keeps quotient * divisor + remainder equal   *)
(* to the scaled dividend, ties included.                                    *)
THEOREM QuotientKept == DivisionSpec => []QuotientSoFar
<1>1. IInv => QuotientSoFar
  BY DEF IInv, Scaled, QuotientSoFar, Loop
<1>2. QED
  BY <1>1, Inductive, PTL

(* In any base, of any digits: the estimate from two digits and the leading  *)
(* digit of a normalised divisor is at most two too large, never too small.  *)
THEOREM TwoCorrectionsEnough == DivisionSpec => []EstimateClose
<1>1. IInv => EstimateClose
  BY DEF IInv, Rounds, EstimateClose
<1>2. QED
  BY <1>1, Inductive, PTL

(* The spans the loops leave are reduced, borrows that throw do not occur    *)
(* and undoing the scaling leaves nothing over.                              *)
THEOREM Reduction == DivisionSpec => []SpansReduced
<1>1. IInv => SpansReduced
  <2> SUFFICES ASSUME IInv PROVE SpansReduced
    OBVIOUS
  <2>1. PrefixReduced
    BY DEF IInv, Reduced, PrefixReduced
  <2>2. SmallReduced
    BY DEF IInv, SmallLoop, SmallReduced
  <2>3. DenormalizesExactly
    BY DEF IInv, Magnitudes, DenormalizesExactly
  <2>4. QED
    BY <2>1, <2>2, <2>3 DEF SpansReduced
<1>2. QED
  BY <1>1, Inductive, PTL

(* divmod, div and mod are floor division whenever no tie occurs, for every  *)
(* base, dividend, divisor and sign.                                         *)
THEOREM DividesExactly == DivisionSpec => []FloorDivision
<1>1. IInv => FloorDivision
  BY DEF IInv
<1>2. QED
  BY <1>1, Inductive, PTL
=============================================================================
