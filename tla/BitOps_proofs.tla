---------------------------- MODULE BitOps_proofs ----------------------------
(* Proofs about the shifts and the bitwise operations, for every width of a  *)
(* digit, number of digits and distance, in place or not.                    *)
EXTENDS BitOps, WordLemmas

----------------------------------------------------------------------------
(* Weights of the bits of a digit.                                           *)

LEMMA Pow2Positive ==
    ASSUME NEW k \in 0 .. W
    PROVE  Pow2[k] \in Nat /\ Pow2[k] > 0
<1> DEFINE S == {m \in 0 .. W : Pow2[m] > 0}
<1>1. W \in Nat /\ \A m \in 0 .. W : Pow2[m] \in Nat
  BY WidthAssumption
<1>2. 0 \in S
  BY <1>1, WidthAssumption
<1>3. ASSUME NEW m \in 0 .. W - 1, m \in S PROVE m + 1 \in S
  <2>1. Pow2[m + 1] = 2 * Pow2[m] /\ m + 1 \in 0 .. W /\ m \in 0 .. W
    BY <1>1, WidthAssumption
  <2>2. QED
    BY <1>1, <1>3, <2>1
<1> HIDE DEF S
<1>4. 0 .. W \subseteq S
  BY <1>1, <1>2, <1>3, BoundedInduction
<1>5. QED
  BY <1>1, <1>4 DEF S

LEMMA Pow2Sum ==
    ASSUME NEW j \in Nat, NEW k \in Nat, j + k <= W
    PROVE  Pow2[j + k] = Pow2[j] * Pow2[k]
<1> DEFINE T == {m \in 0 .. k : Pow2[j + m] = Pow2[j] * Pow2[m]}
<1>1. W \in Nat /\ j \in 0 .. W /\ j + 0 = j /\ Pow2[j] \in Nat
  BY WidthAssumption
<1>2. 0 \in T
  BY <1>1, WidthAssumption
<1>3. ASSUME NEW m \in 0 .. k - 1, m \in T PROVE m + 1 \in T
  <2>1. /\ m \in 0 .. W - 1 /\ j + m \in 0 .. W - 1 /\ m + 1 \in 0 .. k /\ j + (m + 1) = (j + m) + 1
        /\ m \in 0 .. W
    BY <1>1
  <2>2. Pow2[m + 1] = 2 * Pow2[m] /\ Pow2[(j + m) + 1] = 2 * Pow2[j + m] /\ Pow2[m] \in Nat
    BY <2>1, WidthAssumption
  <2>3. Pow2[j + m] = Pow2[j] * Pow2[m]
    BY <1>3
  <2>4. ASSUME NEW u \in Nat, NEW v \in Nat PROVE 2 * (u * v) = u * (2 * v)
    OBVIOUS
  <2>5. 2 * (Pow2[j] * Pow2[m]) = Pow2[j] * (2 * Pow2[m])
    BY <1>1, <2>2, <2>4
  <2>6. Pow2[j + (m + 1)] = Pow2[j] * Pow2[m + 1]
    BY <2>1, <2>2, <2>3, <2>5
  <2>7. QED
    BY <2>1, <2>6
<1> HIDE DEF T
<1>4. 0 .. k \subseteq T /\ k \in 0 .. k
  BY <1>2, <1>3, BoundedInduction
<1>5. QED
  BY <1>4 DEF T

LEMMA BitRange ==
    ASSUME NEW x \in Nat, NEW k \in 0 .. W - 1
    PROVE  /\ Bit(x, k) \in 0 .. 1
           /\ x \div Pow2[k] \in Nat
           /\ x \div Pow2[k] = 2 * (x \div Pow2[k + 1]) + Bit(x, k)
<1>1. k \in 0 .. W /\ Pow2[k + 1] = 2 * Pow2[k]
  BY WidthAssumption
<1> DEFINE m == Pow2[k]  u == x \div m
<1>2. m \in Nat /\ m > 0
  BY <1>1, Pow2Positive
<1> HIDE DEF m
<1>3. u \in Int /\ x = u * m + (x % m) /\ x % m \in 0 .. m - 1 /\ x < (u + 1) * m
  BY <1>2, QuotientRemainder
<1>4. u >= 0
  <2> SUFFICES ASSUME u + 1 <= 0 PROVE FALSE
    BY <1>3
  <2> HIDE DEF u
  <2>1. (u + 1) * m <= 0 * m /\ (u + 1) * m \in Int /\ 0 * m = 0
    BY <1>2, <1>3, MulMonotone
  <2>2. QED
    BY <1>3, <2>1
<1>5. x \div (m * 2) = u \div 2
  BY <1>2, QuotientTwice
<1> HIDE DEF u
<1>6. u % 2 \in 0 .. 1 /\ u = 2 * (u \div 2) + (u % 2)
  BY <1>3
<1>7. m * 2 = 2 * m
  BY <1>2
<1>8. QED
  BY <1>1, <1>3, <1>4, <1>5, <1>6, <1>7 DEF Bit, u, m

(* A multiple of a weight above does not change a bit.                       *)
LEMMA BitHigh ==
    ASSUME NEW x \in Nat, NEW c \in Nat, NEW k \in 0 .. W - 1, NEW m \in k + 1 .. W
    PROVE  Bit(x + c * Pow2[m], k) = Bit(x, k)
<1> DEFINE h == Pow2[m - (k + 1)]  w == Pow2[k]  u == x \div w  e == c * h
<1>1. W \in Nat /\ k \in Nat /\ k \in 0 .. W /\ k + 1 \in Nat /\ m - (k + 1) \in 0 .. W
  BY WidthAssumption
<1>2. (k + 1) + (m - (k + 1)) = m
  BY <1>1
<1>3. Pow2[m] = Pow2[k + 1] * h /\ Pow2[k + 1] = 2 * w
  <2>1. m - (k + 1) \in Nat
    BY <1>1
  <2>2. Pow2[k + 1] = 2 * Pow2[k]
    BY WidthAssumption
  <2>3. QED
    BY <1>1, <1>2, <2>1, <2>2, Pow2Sum
<1>4. w \in Nat /\ w > 0 /\ h \in Nat
  BY <1>1, Pow2Positive
<1> HIDE DEF h, w
<1>5. e \in Nat /\ c * (2 * w * h) = (2 * e) * w
  BY <1>4
<1>6. u \in Nat /\ u * w <= x /\ x < (u + 1) * w
  <2>1. u \in Nat
    BY BitRange DEF w
  <2>2. QED
    BY <1>4, <2>1, QuotientRemainder
<1> HIDE DEF e, u
<1>7. (u + 2 * e) * w = u * w + (2 * e) * w /\ (u + 2 * e + 1) * w = (u + 1) * w + (2 * e) * w
  BY <1>4, <1>5, <1>6
<1> DEFINE y == x + (2 * e) * w  z == (2 * e) * w  v == u + 2 * e
<1>8. z \in Int /\ u * w \in Int /\ (u + 1) * w \in Int /\ v \in Int
  BY <1>4, <1>5, <1>6
<1>9. v * w <= y /\ y < (v + 1) * w /\ y \in Int
  <2>1. v * w = u * w + z /\ (v + 1) * w = (u + 1) * w + z
    BY <1>7
  <2> HIDE DEF z, v
  <2>2. QED
    BY <1>6, <1>8, <2>1 DEF z
<1>10. y \div w = v
  <2> HIDE DEF y, v
  <2> QED
    BY <1>4, <1>8, <1>9, QuotientUnique
<1>11. v % 2 = u % 2
  BY <1>5, <1>6
<1>12. x + c * Pow2[m] = y
  BY <1>3, <1>5
<1>13. QED
  BY <1>10, <1>11, <1>12 DEF Bit, u, w

LEMMA BitZero ==
    ASSUME NEW k \in 0 .. W - 1
    PROVE  Bit(0, k) = 0
<1>1. k \in 0 .. W
  BY WidthAssumption
<1>2. Pow2[k] \in Nat /\ Pow2[k] > 0
  BY <1>1, Pow2Positive
<1> DEFINE w == Pow2[k]
<1>3. 0 * w <= 0 /\ 0 < (0 + 1) * w /\ 0 \in Int /\ w \in Nat /\ w > 0
  BY <1>2
<1> HIDE DEF w
<1>4. 0 \div w = 0
  BY <1>3, QuotientUnique
<1>5. QED
  BY <1>4 DEF Bit, w

(* A digit is below the weight of a bit above its own.                       *)
LEMMA DigitBound ==
    ASSUME NEW x \in Digit
    PROVE  x \in Nat /\ x < Pow2[W] /\ Pow2[W] = B
  BY WidthAssumption, BAssumption DEF Digit

(* Digits with the same bits are the same.                                   *)
LEMMA BitsEqual ==
    ASSUME NEW x \in Digit, NEW y \in Digit, \A k \in 0 .. W - 1 : Bit(x, k) = Bit(y, k)
    PROVE  x = y
<1> DEFINE T == {m \in 0 .. W : x \div Pow2[W - m] = y \div Pow2[W - m]}
<1>1. W \in Nat /\ x \in Nat /\ y \in Nat /\ x < Pow2[W] /\ y < Pow2[W] /\ Pow2[W] \in Nat /\ Pow2[W] > 0
  BY DigitBound, WidthAssumption, BAssumption
<1>2. 0 \in T
  <2> DEFINE w == Pow2[W]
  <2>1. /\ 0 * w <= x /\ x < (0 + 1) * w /\ 0 * w <= y /\ y < (0 + 1) * w
        /\ 0 \in Int /\ w \in Nat /\ w > 0
    BY <1>1
  <2> HIDE DEF w
  <2>2. x \div w = 0 /\ y \div w = 0
    BY <2>1, <1>1, QuotientUnique
  <2>3. W - 0 = W /\ 0 \in 0 .. W
    BY <1>1
  <2>4. QED
    BY <2>2, <2>3 DEF w
<1>3. ASSUME NEW m \in 0 .. W - 1, m \in T PROVE m + 1 \in T
  <2> DEFINE k == W - (m + 1)
  <2>1. k \in 0 .. W - 1 /\ k + 1 = W - m /\ m + 1 \in 0 .. W
    BY <1>1
  <2> HIDE DEF k
  <2>2. /\ x \div Pow2[k] = 2 * (x \div Pow2[k + 1]) + Bit(x, k)
        /\ y \div Pow2[k] = 2 * (y \div Pow2[k + 1]) + Bit(y, k)
    BY <1>1, <2>1, BitRange
  <2>3. x \div Pow2[k + 1] = y \div Pow2[k + 1] /\ Bit(x, k) = Bit(y, k)
    BY <1>3, <2>1
  <2>4. x \div Pow2[k] = y \div Pow2[k]
    BY <2>2, <2>3
  <2>5. QED
    BY <2>1, <2>4 DEF k
<1> HIDE DEF T
<1>4. 0 .. W \subseteq T /\ W \in 0 .. W
  BY <1>1, <1>2, <1>3, BoundedInduction
<1>5. x \div Pow2[0] = y \div Pow2[0]
  <2>1. W - W = 0
    BY <1>1
  <2>2. QED
    BY <1>4, <2>1 DEF T
<1>6. ASSUME NEW v \in Nat PROVE v \div 1 = v
  BY <1>6, QuotientUnique
<1>7. QED
  BY <1>1, <1>5, <1>6, WidthAssumption

(* The word with the bits b: a running sum below the next weight.            *)
LEMMA JoinedBits ==
    ASSUME NEW bts \in [0 .. W - 1 -> 0 .. 1]
    PROVE  /\ Joined(bts) \in Digit
           /\ \A k \in 0 .. W - 1 : Bit(Joined(bts), k) = bts[k]
<1> DEFINE t == [k \in 1 .. W |-> bts[k - 1] * Pow2[k - 1]]
           f == CHOOSE f : f = [k \in 0 .. W |-> IF k = 0 THEN 0 ELSE f[k - 1] + bts[k - 1] * Pow2[k - 1]]
<1>1. W \in Nat /\ W \in 0 .. W /\ 0 \in 0 .. W
  BY WidthAssumption
<1>2. ASSUME NEW k \in 0 .. W - 1
      PROVE  bts[k] \in 0 .. 1 /\ Pow2[k] \in Nat /\ Pow2[k] > 0 /\ k + 1 \in 1 .. W /\ k + 1 \in 0 .. W
             /\ bts[k] * Pow2[k] \in {0, Pow2[k]} /\ k \in 0 .. W /\ Pow2[k + 1] = 2 * Pow2[k]
  <2>1. k \in 0 .. W /\ k + 1 \in 1 .. W /\ k + 1 \in 0 .. W /\ bts[k] \in 0 .. 1
    BY <1>1
  <2>2. Pow2[k] \in Nat /\ Pow2[k] > 0 /\ Pow2[k + 1] = 2 * Pow2[k]
    BY <2>1, Pow2Positive, WidthAssumption
  <2>3. QED
    BY <2>1, <2>2
<1>3. \A k \in 1 .. W : t[k] \in Int /\ t[k] = bts[k - 1] * Pow2[k - 1]
  <2> SUFFICES ASSUME NEW k \in 1 .. W PROVE bts[k - 1] * Pow2[k - 1] \in Int
    OBVIOUS
  <2>1. k - 1 \in 0 .. W - 1
    BY <1>1
  <2>2. QED
    BY <2>1, <1>2
<1> HIDE DEF t
<1>4. PICK g \in [0 .. W -> Int] : g[0] = 0 /\ \A k \in 1 .. W : g[k] = g[k - 1] + t[k]
  BY <1>1, <1>3, SumExists
<1>5. g = [k \in 0 .. W |-> IF k = 0 THEN 0 ELSE g[k - 1] + bts[k - 1] * Pow2[k - 1]]
  BY <1>3, <1>4
<1>6. f = [k \in 0 .. W |-> IF k = 0 THEN 0 ELSE f[k - 1] + bts[k - 1] * Pow2[k - 1]]
  BY <1>5
<1>7. Joined(bts) = f[W]
  BY DEF Joined
<1> HIDE DEF f
<1>8. f[0] = 0 /\ \A k \in 0 .. W - 1 : f[k + 1] = f[k] + bts[k] * Pow2[k]
  <2>1. ASSUME NEW k \in 0 .. W - 1 PROVE f[k + 1] = f[k] + bts[k] * Pow2[k]
    <3>1. k + 1 \in 0 .. W /\ k + 1 # 0 /\ (k + 1) - 1 = k
      BY <1>1
    <3>2. QED
      BY <3>1, <1>6
  <2>2. QED
    BY <1>1, <1>6, <2>1
<1> DEFINE T == {m \in 0 .. W : f[m] \in Nat /\ f[m] < Pow2[m] /\ \A k \in 0 .. m - 1 : Bit(f[m], k) = bts[k]}
<1>9. 0 \in T
  BY <1>1, <1>8, WidthAssumption
<1>10. ASSUME NEW m \in 0 .. W - 1, m \in T PROVE m + 1 \in T
  <2> DEFINE x == f[m]  c == bts[m]  w == Pow2[m]
  <2>1. /\ x \in Nat /\ x < w /\ c \in 0 .. 1 /\ w \in Nat /\ w > 0 /\ c * w \in {0, w}
        /\ f[m + 1] = x + c * w /\ Pow2[m + 1] = 2 * w /\ m + 1 \in 0 .. W
    BY <1>2, <1>8, <1>10
  <2>2. f[m + 1] \in Nat /\ f[m + 1] < Pow2[m + 1]
    <3> HIDE DEF x, c, w
    <3> QED
      BY <2>1
  <2>3. ASSUME NEW k \in 0 .. m - 1 PROVE Bit(f[m + 1], k) = bts[k]
    <3>1. k \in 0 .. W - 1 /\ m \in k + 1 .. W /\ c \in Nat /\ x \in Nat
      BY <1>1, <2>1
    <3>2. Bit(x + c * Pow2[m], k) = Bit(x, k)
      BY <3>1, BitHigh
    <3>3. Bit(x, k) = bts[k]
      BY <1>10
    <3>4. QED
      BY <2>1, <3>2, <3>3
  <2>4. Bit(f[m + 1], m) = bts[m]
    <3> DEFINE y == x + c * w
    <3>1. c * w <= y /\ y < (c + 1) * w /\ y \in Nat /\ c \in Int
      <4> HIDE DEF x, c, w
      <4> QED
        BY <2>1
    <3> HIDE DEF y
    <3>2. y \div w = c
      <4>1. w \in Nat /\ w > 0
        BY <2>1
      <4> HIDE DEF w, c
      <4>2. QED
        BY <4>1, <3>1, QuotientUnique
    <3>3. c % 2 = c
      BY <2>1
    <3>4. QED
      BY <2>1, <3>2, <3>3 DEF Bit, y
  <2>5. ASSUME NEW k \in 0 .. (m + 1) - 1 PROVE Bit(f[m + 1], k) = bts[k]
    <3>1. k \in 0 .. m - 1 \/ k = m
      BY <1>1
    <3>2. QED
      BY <3>1, <2>3, <2>4
  <2>6. QED
    BY <2>1, <2>2, <2>5
<1> HIDE DEF T
<1>11. 0 .. W \subseteq T
  BY <1>1, <1>9, <1>10, BoundedInduction
<1>12. f[W] \in Nat /\ f[W] < Pow2[W] /\ \A k \in 0 .. W - 1 : Bit(f[W], k) = bts[k]
  BY <1>1, <1>11 DEF T
<1>13. Pow2[W] = B /\ B \in Nat
  BY WidthAssumption, BAssumption
<1>14. Joined(bts) \in Digit
  BY <1>7, <1>12, <1>13 DEF Digit
<1> HIDE DEF Joined
<1>15. QED
  BY <1>7, <1>12, <1>14

(* The bits of the words that WordAnd, WordOr and WordXor make.              *)
LEMMA WordBits ==
    ASSUME NEW x \in Digit, NEW y \in Digit
    PROVE  /\ WordAnd(x, y) \in Digit /\ WordOr(x, y) \in Digit /\ WordXor(x, y) \in Digit
           /\ \A k \in 0 .. W - 1 :
                  /\ Bit(WordAnd(x, y), k) = AndBit(Bit(x, k), Bit(y, k))
                  /\ Bit(WordOr(x, y), k) = OrBit(Bit(x, k), Bit(y, k))
                  /\ Bit(WordXor(x, y), k) = XorBit(Bit(x, k), Bit(y, k))
<1>1. ASSUME NEW k \in 0 .. W - 1
      PROVE  /\ AndBit(Bit(x, k), Bit(y, k)) \in 0 .. 1
             /\ OrBit(Bit(x, k), Bit(y, k)) \in 0 .. 1
             /\ XorBit(Bit(x, k), Bit(y, k)) \in 0 .. 1
  <2>1. Bit(x, k) \in {0, 1} /\ Bit(y, k) \in {0, 1}
    BY BitRange, DigitBound
  <2>2. QED
    BY <2>1 DEF AndBit, OrBit, XorBit
<1> DEFINE p == [k \in 0 .. W - 1 |-> AndBit(Bit(x, k), Bit(y, k))]
           q == [k \in 0 .. W - 1 |-> OrBit(Bit(x, k), Bit(y, k))]
           r == [k \in 0 .. W - 1 |-> XorBit(Bit(x, k), Bit(y, k))]
<1>2. p \in [0 .. W - 1 -> 0 .. 1] /\ q \in [0 .. W - 1 -> 0 .. 1] /\ r \in [0 .. W - 1 -> 0 .. 1]
  BY <1>1
<1>3. WordAnd(x, y) = Joined(p) /\ WordOr(x, y) = Joined(q) /\ WordXor(x, y) = Joined(r)
  BY DEF WordAnd, WordOr, WordXor
<1>4. \A k \in 0 .. W - 1 : /\ p[k] = AndBit(Bit(x, k), Bit(y, k))
                           /\ q[k] = OrBit(Bit(x, k), Bit(y, k))
                           /\ r[k] = XorBit(Bit(x, k), Bit(y, k))
  OBVIOUS
<1> HIDE DEF p, q, r
<1>5. /\ Joined(p) \in Digit /\ \A k \in 0 .. W - 1 : Bit(Joined(p), k) = p[k]
      /\ Joined(q) \in Digit /\ \A k \in 0 .. W - 1 : Bit(Joined(q), k) = q[k]
      /\ Joined(r) \in Digit /\ \A k \in 0 .. W - 1 : Bit(Joined(r), k) = r[k]
  BY <1>2, JoinedBits
<1>6. QED
  BY <1>3, <1>4, <1>5

LEMMA WordSymmetric ==
    ASSUME NEW x \in Digit, NEW y \in Digit
    PROVE  WordAnd(x, y) = WordAnd(y, x) /\ WordOr(x, y) = WordOr(y, x) /\ WordXor(x, y) = WordXor(y, x)
<1>1. ASSUME NEW k \in 0 .. W - 1
      PROVE  /\ AndBit(Bit(x, k), Bit(y, k)) = AndBit(Bit(y, k), Bit(x, k))
             /\ OrBit(Bit(x, k), Bit(y, k)) = OrBit(Bit(y, k), Bit(x, k))
             /\ XorBit(Bit(x, k), Bit(y, k)) = XorBit(Bit(y, k), Bit(x, k))
  <2>1. Bit(x, k) \in {0, 1} /\ Bit(y, k) \in {0, 1}
    BY BitRange, DigitBound
  <2>2. QED
    BY <2>1 DEF AndBit, OrBit, XorBit
<1>2. QED
  BY <1>1, WordBits, BitsEqual

(* With a word of zeros.                                                     *)
LEMMA WordWithZero ==
    ASSUME NEW x \in Digit
    PROVE  /\ 0 \in Digit
           /\ WordAnd(x, 0) = 0 /\ WordOr(x, 0) = x /\ WordXor(x, 0) = x
           /\ WordAnd(0, x) = 0 /\ WordOr(0, x) = x /\ WordXor(0, x) = x
<1>1. 0 \in Digit
  BY BAssumption DEF Digit
<1>2. ASSUME NEW k \in 0 .. W - 1
      PROVE  /\ AndBit(Bit(x, k), Bit(0, k)) = Bit(0, k)
             /\ OrBit(Bit(x, k), Bit(0, k)) = Bit(x, k)
             /\ XorBit(Bit(x, k), Bit(0, k)) = Bit(x, k)
  <2>1. Bit(x, k) \in {0, 1} /\ Bit(0, k) = 0
    BY BitRange, DigitBound, BitZero
  <2>2. QED
    BY <2>1 DEF AndBit, OrBit, XorBit
<1>3. WordAnd(x, 0) = 0 /\ WordOr(x, 0) = x /\ WordXor(x, 0) = x
  BY <1>1, <1>2, WordBits, BitsEqual
<1>4. QED
  BY <1>1, <1>3, WordSymmetric

(* A word shifted down: its bits move, zeros follow.                         *)
LEMMA RShiftBits ==
    ASSUME NEW x \in Digit, NEW m \in 0 .. W
    PROVE  /\ rshift_safe(x, m) \in Digit
           /\ \A k \in 0 .. W - 1 :
                  Bit(rshift_safe(x, m), k) = IF k + m < W THEN Bit(x, k + m) ELSE 0
<1>1. W \in Nat /\ x \in Nat /\ x < Pow2[W] /\ Pow2[W] = B /\ 0 \in Digit /\ B \in Nat
  BY DigitBound, WidthAssumption, WordWithZero, BAssumption
<1>2. CASE m = W
  <2>1. rshift_safe(x, m) = 0
    BY <1>1, <1>2 DEF rshift_safe
  <2>2. \A k \in 0 .. W - 1 : ~(k + m < W)
    BY <1>1, <1>2
  <2>3. QED
    BY <1>1, <2>1, <2>2, BitZero
<1>3. CASE m # W
  <2> DEFINE u == x \div Pow2[m]
  <2>1. rshift_safe(x, m) = u /\ m \in 0 .. W - 1 /\ m \in 0 .. W /\ m \in Nat
    BY <1>1, <1>3 DEF rshift_safe
  <2>2. u \in Nat /\ u <= x
    <3>1. u \in Nat
      BY <1>1, <2>1, BitRange
    <3> DEFINE w == Pow2[m]
    <3>2. w \in Nat /\ w > 0
      BY Pow2Positive
    <3> HIDE DEF w
    <3>3. (x \div w) * w <= x /\ x \div w \in Int
      BY <1>1, <3>2, QuotientRemainder
    <3> DEFINE v == x \div w
    <3>4. v \in Nat
      BY <3>1 DEF w
    <3> HIDE DEF v
    <3>5. v * 1 <= v * w /\ v * 1 = v /\ v * w \in Int
      BY <3>2, <3>4
    <3>6. v <= x
      BY <3>3, <3>4, <3>5, <1>1 DEF v
    <3>7. QED
      BY <3>1, <3>6 DEF v, w
  <2>3. u \in Digit
    <3> HIDE DEF u
    <3> QED
      BY <1>1, <2>2 DEF Digit
  <2>4. ASSUME NEW k \in 0 .. W - 1, k + m < W
        PROVE  Bit(u, k) = Bit(x, k + m)
    <3>1. k \in Nat /\ k \in 0 .. W /\ m + k <= W /\ m + k = k + m
      BY <1>1, <2>1, <2>4
    <3>2. Pow2[k + m] = Pow2[m] * Pow2[k]
      BY <2>1, <3>1, Pow2Sum
    <3>3. Pow2[m] \in Nat /\ Pow2[k] \in Nat /\ Pow2[m] > 0 /\ Pow2[k] > 0
      BY <2>1, <3>1, Pow2Positive
    <3>4. x \div Pow2[k + m] = u \div Pow2[k]
      BY <1>1, <3>2, <3>3, QuotientTwice
    <3>5. QED
      BY <3>4 DEF Bit
  <2>5. ASSUME NEW k \in 0 .. W - 1, ~(k + m < W)
        PROVE  Bit(u, k) = 0
    <3> DEFINE w == Pow2[m]  h == Pow2[W - m]  p == Pow2[k]
    <3>1. W - m \in Nat /\ m + (W - m) = W /\ W - m <= k /\ k \in 0 .. W /\ W - m \in 0 .. W
          /\ k - (W - m) \in Nat /\ (W - m) + (k - (W - m)) = k /\ k <= W
      BY <1>1, <2>1, <2>5
    <3>2. Pow2[W] = w * h /\ p = h * Pow2[k - (W - m)]
      BY <2>1, <3>1, Pow2Sum
    <3>3. w \in Nat /\ w > 0 /\ h \in Nat /\ h > 0 /\ p \in Nat /\ p > 0 /\ Pow2[k - (W - m)] \in Nat
          /\ Pow2[k - (W - m)] > 0
      <4>1. k - (W - m) \in 0 .. W
        BY <3>1, <1>1
      <4>2. QED
        BY <4>1, <2>1, <3>1, Pow2Positive
    <3> HIDE DEF w, h, p
    <3>4. h <= p
      <4> DEFINE e == Pow2[k - (W - m)]
      <4>1. e \in Nat /\ e >= 1 /\ p = h * e
        BY <3>2, <3>3
      <4> HIDE DEF e
      <4>2. h * 1 <= h * e /\ h * 1 = h
        BY <4>1, <3>3, MulMonotone
      <4>3. QED
        BY <4>1, <4>2
    <3>5. u < h
      <4> DEFINE v == x \div w
      <4>1. v \in Int /\ v * w <= x
        BY <1>1, <3>3, QuotientRemainder
      <4> HIDE DEF v
      <4>2. v * w < h * w
        <5>1. w * h = h * w /\ v * w \in Int /\ h * w \in Int
          BY <3>3, <4>1
        <5>2. QED
          BY <5>1, <4>1, <1>1, <3>2
      <4>3. v < h
        BY <4>1, <4>2, <3>3, MulCancel
      <4>4. QED
        BY <4>3 DEF v, w
    <3> HIDE DEF u
    <3>6. 0 * p <= u /\ u < (0 + 1) * p /\ 0 \in Int
      BY <2>2, <3>3, <3>4, <3>5
    <3>7. u \div p = 0
      BY <2>2, <3>3, <3>6, QuotientUnique
    <3>8. QED
      BY <3>7 DEF Bit, p
  <2> HIDE DEF u
  <2>6. QED
    BY <2>1, <2>3, <2>4, <2>5
<1>4. QED
  BY <1>2, <1>3

(* A word shifted up: zeros, then its bits.                                  *)
LEMMA LShiftBits ==
    ASSUME NEW x \in Digit, NEW m \in 0 .. W
    PROVE  /\ lshift_safe(x, m) \in Digit
           /\ \A k \in 0 .. W - 1 :
                  Bit(lshift_safe(x, m), k) = IF k < m THEN 0 ELSE Bit(x, k - m)
<1>1. W \in Nat /\ x \in Nat /\ x < Pow2[W] /\ Pow2[W] = B /\ 0 \in Digit /\ B \in Nat /\ B > 0
  BY DigitBound, WidthAssumption, WordWithZero, BAssumption
<1>2. CASE m = W
  <2>1. lshift_safe(x, m) = 0
    BY <1>1, <1>2 DEF lshift_safe
  <2>2. \A k \in 0 .. W - 1 : k < m
    BY <1>1, <1>2
  <2>3. QED
    BY <1>1, <2>1, <2>2, BitZero
<1>3. CASE m # W
  <2> DEFINE w == Pow2[m]  y == x * w  r == y % B  c == y \div B
  <2>1. lshift_safe(x, m) = r /\ m \in 0 .. W - 1 /\ m \in 0 .. W /\ m \in Nat
    BY <1>1, <1>3 DEF lshift_safe
  <2>2. w \in Nat /\ w > 0
    BY <2>1, Pow2Positive
  <2>3. y \in Nat
    <3> HIDE DEF w
    <3> QED
      BY <1>1, <2>2
  <2>4. r \in 0 .. B - 1 /\ c \in Int /\ y = c * B + r /\ y < (c + 1) * B
    <3> HIDE DEF y
    <3> QED
      BY <1>1, <2>3, QuotientRemainder
  <2>5. c \in Nat
    <3> HIDE DEF y, c
    <3> SUFFICES ASSUME c + 1 <= 0 PROVE FALSE
      BY <2>4
    <3>1. (c + 1) * B <= 0 * B /\ 0 * B = 0 /\ (c + 1) * B \in Int
      BY <1>1, <2>4, MulMonotone
    <3>2. QED
      BY <2>3, <2>4, <3>1
  <2> HIDE DEF r, c
  <2>6. ASSUME NEW k \in 0 .. W - 1 PROVE Bit(r, k) = Bit(y, k)
    <3>1. W \in k + 1 .. W /\ r \in Nat /\ y = r + c * Pow2[W]
      <4>1. c * B \in Int
        BY <1>1, <2>5
      <4> HIDE DEF y
      <4>2. QED
        BY <1>1, <2>3, <2>4, <2>5, <4>1
    <3>2. QED
      BY <2>5, <3>1, BitHigh
  <2>7. ASSUME NEW k \in 0 .. W - 1, k < m PROVE Bit(y, k) = 0
    <3>1. m \in k + 1 .. W /\ y = 0 + x * Pow2[m] /\ 0 \in Nat
      BY <1>1, <2>1, <2>3, <2>7
    <3>2. Bit(0 + x * Pow2[m], k) = Bit(0, k)
      BY <1>1, <3>1, BitHigh
    <3>3. QED
      BY <3>1, <3>2, BitZero
  <2>8. ASSUME NEW k \in 0 .. W - 1, ~(k < m) PROVE Bit(y, k) = Bit(x, k - m)
    <3>1. k - m \in Nat /\ m + (k - m) = k /\ k - m \in 0 .. W /\ k <= W
      BY <1>1, <2>1, <2>8
    <3>2. Pow2[k] = w * Pow2[k - m] /\ Pow2[k - m] \in Nat /\ Pow2[k - m] > 0
      BY <2>1, <3>1, Pow2Sum, Pow2Positive
    <3>3. y \div w = x
      <4>1. x * w <= y /\ y < (x + 1) * w
        <5> HIDE DEF w
        <5> QED
          BY <1>1, <2>2
      <4> HIDE DEF y, w
      <4>2. QED
        BY <1>1, <2>2, <2>3, <4>1, QuotientUnique
    <3> HIDE DEF y, w
    <3>4. y \div Pow2[k] = (y \div w) \div Pow2[k - m]
      BY <2>2, <2>3, <3>2, QuotientTwice
    <3>5. QED
      BY <3>3, <3>4 DEF Bit
  <2>9. r \in Digit
    BY <2>4 DEF Digit
  <2> HIDE DEF y
  <2>10. QED
    BY <2>1, <2>6, <2>7, <2>8, <2>9
<1>4. QED
  BY <1>2, <1>3

----------------------------------------------------------------------------
(* The inductive invariant.                                                  *)
OldDigit(k) == DigitOf(digs[a], size0[a], k)

(* What the digit k becomes: bits of two neighbours.                         *)
LDigit(k) == WordOr(rshift_safe(OldDigit(k - start - 1), W - bits), lshift_safe(OldDigit(k - start), bits))
RDigit(k) == WordOr(rshift_safe(OldDigit(k + start), bits), lshift_safe(OldDigit(k + start + 1), W - bits))
OpDigit(k) == WordOp(DigitOf(digs[a], size0[a], k), DigitOf(digs[b], size0[b], k))

Typed ==
    /\ TypeOK
    /\ digs \in [Objs -> [Index -> Digit]]
    /\ size0 \in [Objs -> 1 .. MaxDigits]
    /\ neg0 \in [Objs -> BOOLEAN]
    /\ \A o \in Objs : Canonical(digs[o], size0[o], neg0[o])

Calling ==
    /\ pc = "call" => cell = digs /\ size = size0 /\ neg = neg0 /\ i = 0
    /\ fn = "logic" => (result = b => result = a) /\ pc \in {"call", "loop", "done"}

(* lshift got what the operators give it: its operand or a new object.       *)
Fresh == fn = "lshift" /\ result # a => size0[result] = 1 /\ digs[result][0] = 0

(* The digits of a that are read later are still there; a new result holds   *)
(* zeros above them.                                                         *)
LShifting ==
    pc \in {"lshift-top", "lshift"} =>
        /\ fn = "lshift" /\ na = size0[a] /\ size[result] = na + start + 1 /\ neg[result] = neg0[a]
        /\ pc = "lshift-top" =>
              /\ \A k \in 0 .. na - 1 : cell[a][k] = digs[a][k]
              /\ Fresh => \A k \in 0 .. na + start : result # a \/ k >= na => cell[result][k] = 0
        /\ pc = "lshift" =>
              /\ i <= na - 1
              /\ \A k \in 0 .. i : cell[a][k] = digs[a][k]
              /\ Fresh => \A k \in i + start + 1 .. na + start : cell[result][k] = LDigit(k)

RShifting ==
    pc = "rshift" =>
        /\ fn = "rshift" /\ na = size0[a] /\ i \in start .. na - 1
        /\ size[result] >= na - start /\ neg[result] = neg0[a]
        /\ \A k \in i .. na - 1 : cell[a][k] = digs[a][k]
        /\ \A k \in 0 .. i - start - 1 : cell[result][k] = RDigit(k)

Shifted ==
    pc = "cleanup" =>
        /\ neg[result] = neg0[a] /\ fn \in {"lshift", "rshift"}
        /\ fn = "lshift" =>
              /\ size[result] = size0[a] + start + 1
              /\ Fresh => \A k \in 0 .. size[result] - 1 : cell[result][k] = LDigit(k)
        /\ fn = "rshift" =>
              /\ size[result] = size0[a] - start
              /\ \A k \in 0 .. size[result] - 1 : cell[result][k] = RDigit(k)

(* The loops of the bitwise operations; only "and" may have shortened a.     *)
Combining ==
    pc = "loop" =>
        /\ fn = "logic" /\ ns = MinOf(size0[a], size0[b]) /\ ns <= nl
        /\ neg[result] = SignOp(neg0[a], neg0[b])
        /\ op = "and" => size[result] = ns /\ i <= ns
        /\ op # "and" =>
              /\ nl = MaxOf(size0[a], size0[b]) /\ size[result] = nl /\ i <= nl
              /\ swapped = (size0[b] > size0[a])
              /\ \A k \in i .. nl - 1 : cell[long][k] = digs[long][k]
        /\ \A k \in i .. ns - 1 : cell[a][k] = digs[a][k] /\ cell[b][k] = digs[b][k]
        /\ \A k \in 0 .. i - 1 : cell[result][k] = OpDigit(k)

Answer == (Fresh => LShiftExact) /\ RShiftExact /\ LogicExact

IInv == Typed /\ Calling /\ LShifting /\ RShifting /\ Shifted /\ Combining /\ Answer

----------------------------------------------------------------------------
(* What the parameters of a call are.                                        *)

LEMMA CallFacts ==
    ASSUME TypeOK, size0 \in [Objs -> 1 .. MaxDigits]
    PROVE  /\ result \in Objs /\ a \in Objs /\ b \in Objs
           /\ W \in Nat /\ W >= 1 /\ MaxSize \in Nat /\ MaxDigits \in Nat /\ MaxDigits <= MaxSize
           /\ start \in Nat /\ bits \in 0 .. W - 1 /\ n \in Nat /\ n = start * W + bits
           /\ size0[a] \in 1 .. MaxDigits /\ size0[b] \in 1 .. MaxDigits
           /\ size0[a] + start + 1 <= MaxSize /\ size0[result] \in 1 .. MaxDigits
<1>1. /\ W \in Nat /\ W >= 1 /\ MaxSize \in Nat /\ MaxDigits \in Nat /\ MaxDigits <= MaxSize
      /\ MaxShift \in Nat /\ MaxSize > MaxDigits + MaxShift \div W
  BY WidthAssumption, StorageAssumption, ShiftAssumption
<1>2. alias \in Objs \X Objs \X Objs /\ n \in 0 .. MaxShift
  BY StorageAssumption DEF TypeOK
<1>3. result \in Objs /\ a \in Objs /\ b \in Objs
  BY <1>2 DEF result, a, b
<1> DEFINE q == MaxShift \div W  s == n \div W  r == n % W
<1>4. n \in Nat /\ n <= MaxShift
  BY <1>1, <1>2
<1>5. s \in Int /\ r \in 0 .. W - 1 /\ n = s * W + r /\ s * W <= n /\ n < (s + 1) * W
  BY <1>1, <1>4, QuotientRemainder
<1>6. q \in Int /\ MaxShift < (q + 1) * W
  BY <1>1, QuotientRemainder
<1> HIDE DEF q, s, r
<1>7. s * W \in Int /\ (s + 1) * W \in Int /\ (q + 1) * W \in Int
  BY <1>1, <1>5, <1>6
<1>8. s < q + 1
  <2>1. s * W < (q + 1) * W
    BY <1>1, <1>4, <1>5, <1>6, <1>7
  <2>2. QED
    BY <1>1, <1>5, <1>6, <2>1, MulCancel
<1>9. 0 < s + 1
  <2>1. 0 * W < (s + 1) * W
    BY <1>1, <1>4, <1>5, <1>7
  <2>2. QED
    BY <1>1, <1>5, <2>1, MulCancel
<1>10. size0[a] \in 1 .. MaxDigits /\ size0[b] \in 1 .. MaxDigits /\ size0[result] \in 1 .. MaxDigits
  BY <1>3
<1>11. start = s /\ bits = r /\ MaxSize > MaxDigits + q
  BY <1>1 DEF start, bits, s, r, q
<1>12. size0[a] + s + 1 <= MaxSize
  BY <1>1, <1>5, <1>6, <1>8, <1>10, <1>11
<1>13. QED
  BY <1>1, <1>3, <1>4, <1>5, <1>9, <1>10, <1>11, <1>12

(* The digits an object has, and those it has not, are digits.               *)
LEMMA DigitOfIsDigit ==
    ASSUME NEW d \in [Index -> Digit], NEW m \in 0 .. MaxSize, NEW k \in Int
    PROVE  /\ DigitOf(d, m, k) \in Digit
           /\ k < 0 \/ k >= m => DigitOf(d, m, k) = 0
           /\ k >= 0 /\ k < m => DigitOf(d, m, k) = d[k] /\ k \in Index
<1>1. MaxSize \in Nat /\ m \in Nat /\ 0 \in Digit
  BY PowAssumption, WordWithZero, BAssumption DEF Digit
<1>2. CASE 0 <= k /\ k < m
  <2>1. k \in Index
    BY <1>1, <1>2 DEF Index
  <2>2. QED
    BY <1>1, <1>2, <2>1 DEF DigitOf
<1>3. CASE ~(0 <= k /\ k < m)
  BY <1>1, <1>3 DEF DigitOf
<1>4. QED
  BY <1>2, <1>3

LEMMA OldDigits ==
    ASSUME Typed, NEW k \in Int
    PROVE  /\ OldDigit(k) \in Digit
           /\ k < 0 \/ k >= size0[a] => OldDigit(k) = 0
           /\ k >= 0 /\ k < size0[a] => OldDigit(k) = digs[a][k] /\ k \in Index
<1>1. digs[a] \in [Index -> Digit] /\ size0[a] \in 0 .. MaxSize
  BY CallFacts DEF Typed
<1>2. QED
  BY <1>1, DigitOfIsDigit DEF OldDigit

(* A digit shifted to the left: the low bits are the high ones of the digit  *)
(* below.                                                                    *)
LEMMA LDigitBits ==
    ASSUME Typed, NEW k \in Int
    PROVE  /\ LDigit(k) \in Digit
           /\ \A q \in 0 .. W - 1 :
                  Bit(LDigit(k), q) = IF q < bits THEN Bit(OldDigit(k - start - 1), q + (W - bits))
                                      ELSE Bit(OldDigit(k - start), q - bits)
<1>1. /\ W \in Nat /\ W >= 1 /\ start \in Nat /\ bits \in 0 .. W - 1 /\ bits \in 0 .. W
      /\ W - bits \in 0 .. W
  BY CallFacts DEF Typed
<1> DEFINE x == OldDigit(k - start - 1)  y == OldDigit(k - start)
           u == rshift_safe(x, W - bits)  v == lshift_safe(y, bits)
<1>2. x \in Digit /\ y \in Digit
  <2>1. k - start - 1 \in Int /\ k - start \in Int
    BY <1>1
  <2>2. QED
    BY <2>1, OldDigits
<1> HIDE DEF x, y
<1>3. /\ u \in Digit
      /\ \A q \in 0 .. W - 1 : Bit(u, q) = IF q + (W - bits) < W THEN Bit(x, q + (W - bits)) ELSE 0
  BY <1>1, <1>2, RShiftBits
<1>4. v \in Digit /\ \A q \in 0 .. W - 1 : Bit(v, q) = IF q < bits THEN 0 ELSE Bit(y, q - bits)
  BY <1>1, <1>2, LShiftBits
<1>5. LDigit(k) = WordOr(u, v)
  BY DEF LDigit, u, v, x, y
<1> HIDE DEF u, v
<1>6. WordOr(u, v) \in Digit /\ \A q \in 0 .. W - 1 : Bit(WordOr(u, v), q) = OrBit(Bit(u, q), Bit(v, q))
  BY <1>3, <1>4, WordBits
<1>7. ASSUME NEW q \in 0 .. W - 1
      PROVE  OrBit(Bit(u, q), Bit(v, q)) = IF q < bits THEN Bit(x, q + (W - bits)) ELSE Bit(y, q - bits)
  <2>1. Bit(u, q) \in {0, 1} /\ Bit(v, q) \in {0, 1}
    BY <1>3, <1>4, BitRange, DigitBound
  <2>2. q < bits <=> q + (W - bits) < W
    BY <1>1
  <2>3. (q < bits => Bit(v, q) = 0) /\ (~(q < bits) => Bit(u, q) = 0)
    BY <1>3, <1>4, <2>2
  <2>4. OrBit(Bit(u, q), Bit(v, q)) = IF q < bits THEN Bit(u, q) ELSE Bit(v, q)
    BY <2>1, <2>3 DEF OrBit
  <2>5. QED
    BY <1>3, <1>4, <2>2, <2>4
<1>8. QED
  BY <1>5, <1>6, <1>7 DEF x, y

(* A digit shifted to the right: the high bits are the low ones of the digit *)
(* above.                                                                    *)
LEMMA RDigitBits ==
    ASSUME Typed, NEW k \in Int
    PROVE  /\ RDigit(k) \in Digit
           /\ \A q \in 0 .. W - 1 :
                  Bit(RDigit(k), q) = IF q + bits < W THEN Bit(OldDigit(k + start), q + bits)
                                      ELSE Bit(OldDigit(k + start + 1), q - (W - bits))
<1>1. /\ W \in Nat /\ W >= 1 /\ start \in Nat /\ bits \in 0 .. W - 1 /\ bits \in 0 .. W
      /\ W - bits \in 0 .. W
  BY CallFacts DEF Typed
<1> DEFINE x == OldDigit(k + start)  y == OldDigit(k + start + 1)
           u == rshift_safe(x, bits)  v == lshift_safe(y, W - bits)
<1>2. x \in Digit /\ y \in Digit
  <2>1. k + start + 1 \in Int /\ k + start \in Int
    BY <1>1
  <2>2. QED
    BY <2>1, OldDigits
<1> HIDE DEF x, y
<1>3. u \in Digit /\ \A q \in 0 .. W - 1 : Bit(u, q) = IF q + bits < W THEN Bit(x, q + bits) ELSE 0
  BY <1>1, <1>2, RShiftBits
<1>4. /\ v \in Digit
      /\ \A q \in 0 .. W - 1 : Bit(v, q) = IF q < W - bits THEN 0 ELSE Bit(y, q - (W - bits))
  BY <1>1, <1>2, LShiftBits
<1>5. RDigit(k) = WordOr(u, v)
  BY DEF RDigit, u, v, x, y
<1> HIDE DEF u, v
<1>6. WordOr(u, v) \in Digit /\ \A q \in 0 .. W - 1 : Bit(WordOr(u, v), q) = OrBit(Bit(u, q), Bit(v, q))
  BY <1>3, <1>4, WordBits
<1>7. ASSUME NEW q \in 0 .. W - 1
      PROVE  OrBit(Bit(u, q), Bit(v, q)) = IF q + bits < W THEN Bit(x, q + bits) ELSE Bit(y, q - (W - bits))
  <2>1. Bit(u, q) \in {0, 1} /\ Bit(v, q) \in {0, 1}
    BY <1>3, <1>4, BitRange, DigitBound
  <2>2. q + bits < W <=> q < W - bits
    BY <1>1
  <2>3. (q + bits < W => Bit(v, q) = 0) /\ (~(q + bits < W) => Bit(u, q) = 0)
    BY <1>3, <1>4, <2>2
  <2>4. OrBit(Bit(u, q), Bit(v, q)) = IF q + bits < W THEN Bit(u, q) ELSE Bit(v, q)
    BY <2>1, <2>3 DEF OrBit
  <2>5. QED
    BY <1>3, <1>4, <2>2, <2>4
<1>8. QED
  BY <1>5, <1>6, <1>7 DEF x, y

(* Beyond what a reaches, shifted, there are zeros.                          *)
LEMMA LDigitOutside ==
    ASSUME Typed, NEW k \in Int, k < start \/ k > size0[a] + start
    PROVE  LDigit(k) = 0
<1>1. start \in Nat /\ bits \in 0 .. W - 1 /\ W \in Nat /\ size0[a] \in Nat
  BY CallFacts DEF Typed
<1>2. k - start \in Int /\ k - start - 1 \in Int
  BY <1>1
<1>3. OldDigit(k - start) = 0 /\ OldDigit(k - start - 1) = 0
  BY <1>1, <1>2, OldDigits
<1>4. 0 \in Digit /\ LDigit(k) \in Digit
  BY LDigitBits, WordWithZero, BAssumption DEF Digit
<1>5. ASSUME NEW q \in 0 .. W - 1 PROVE Bit(LDigit(k), q) = Bit(0, q)
  <2>1. Bit(LDigit(k), q) = IF q < bits THEN Bit(0, q + (W - bits)) ELSE Bit(0, q - bits)
    BY <1>3, LDigitBits
  <2>2. q < bits => q + (W - bits) \in 0 .. W - 1
    BY <1>1
  <2>3. ~(q < bits) => q - bits \in 0 .. W - 1
    BY <1>1
  <2>4. QED
    BY <2>1, <2>2, <2>3, BitZero
<1>6. QED
  BY <1>4, <1>5, BitsEqual

LEMMA RDigitOutside ==
    ASSUME Typed, NEW k \in Int, k >= size0[a] - start
    PROVE  RDigit(k) = 0
<1>1. start \in Nat /\ bits \in 0 .. W - 1 /\ W \in Nat /\ size0[a] \in Nat
  BY CallFacts DEF Typed
<1>2. k + start \in Int /\ k + start + 1 \in Int
  BY <1>1
<1>3. OldDigit(k + start) = 0 /\ OldDigit(k + start + 1) = 0
  BY <1>1, <1>2, OldDigits
<1>4. 0 \in Digit /\ RDigit(k) \in Digit
  BY RDigitBits, WordWithZero, BAssumption DEF Digit
<1>5. ASSUME NEW q \in 0 .. W - 1 PROVE Bit(RDigit(k), q) = Bit(0, q)
  <2>1. Bit(RDigit(k), q) = IF q + bits < W THEN Bit(0, q + bits) ELSE Bit(0, q - (W - bits))
    BY <1>3, RDigitBits
  <2>2. q + bits < W => q + bits \in 0 .. W - 1
    BY <1>1
  <2>3. ~(q + bits < W) => q - (W - bits) \in 0 .. W - 1
    BY <1>1
  <2>4. QED
    BY <2>1, <2>2, <2>3, BitZero
<1>6. QED
  BY <1>4, <1>5, BitsEqual

(* The bit at a place k * W + q of a number stored as digits.                *)
LEMMA PlaceSplit ==
    ASSUME NEW k \in Int, NEW q \in 0 .. W - 1
    PROVE  /\ (k * W + q) \div W = k /\ (k * W + q) % W = q
           /\ k * W + q < 0 <=> k < 0
<1>1. W \in Nat /\ W >= 1
  BY WidthAssumption
<1> DEFINE z == k * W  m == z + q
<1>2. z \in Int /\ (k + 1) * W = z + W
  BY <1>1
<1>3. m \in Int /\ k * W <= m /\ m < (k + 1) * W
  BY <1>1, <1>2
<1>4. m \div W = k /\ m % W = m - k * W
  <2> HIDE DEF m
  <2>1. W \in Nat /\ W > 0
    BY <1>1
  <2>2. QED
    BY <1>3, <2>1, QuotientUnique
<1>5. m < 0 => k < 0
  <2> SUFFICES ASSUME k >= 0, m < 0 PROVE FALSE
    OBVIOUS
  <2>1. 0 * W <= z /\ 0 * W = 0
    BY <1>1, MulMonotone
  <2> HIDE DEF z
  <2>2. QED
    BY <2>1, <1>1, <1>2
<1>6. k < 0 => m < 0
  <2> SUFFICES ASSUME k + 1 <= 0 PROVE m < 0
    OBVIOUS
  <2>1. (k + 1) * W <= 0 * W /\ 0 * W = 0
    BY <1>1, MulMonotone
  <2> HIDE DEF z
  <2>2. QED
    BY <2>1, <1>1, <1>2
<1>7. m - k * W = q
  <2> HIDE DEF z
  <2>1. (z + q) - z = q
    BY <1>1, <1>2
  <2>2. QED
    BY <2>1 DEF z
<1>8. QED
  BY <1>4, <1>5, <1>6, <1>7

LEMMA LDigitPlaces ==
    ASSUME Typed, NEW p \in Nat
    PROVE  Bit(LDigit(p \div W), p % W) = BitOf(digs[a], size0[a], p + (0 - n))
<1> DEFINE k == p \div W  q == p % W  m == p + (0 - n)
<1>1. /\ start \in Nat /\ bits \in 0 .. W - 1 /\ W \in Nat /\ W >= 1 /\ n = start * W + bits
      /\ start * W \in Int
  BY CallFacts DEF Typed
<1>2. k \in Int /\ q \in 0 .. W - 1 /\ p = k * W + q
  BY <1>1, QuotientRemainder
<1> HIDE DEF k, q
<1>3. BitOf(digs[a], size0[a], m) = IF m < 0 THEN 0 ELSE Bit(OldDigit(m \div W), m % W)
  BY DEF BitOf, OldDigit
<1>4. ASSUME NEW j \in Int, NEW r \in 0 .. W - 1, m = j * W + r
      PROVE  BitOf(digs[a], size0[a], m) = Bit(OldDigit(j), r)
  <2>1. m \div W = j /\ m % W = r /\ (m < 0 <=> j < 0)
    BY <1>4, PlaceSplit
  <2>2. j < 0 => OldDigit(j) = 0 /\ Bit(0, r) = 0
    BY OldDigits, BitZero
  <2> HIDE DEF m
  <2>3. QED
    BY <1>3, <2>1, <2>2
<1>5. CASE q < bits
  <2>1. k - start - 1 \in Int /\ q + (W - bits) \in 0 .. W - 1
    BY <1>1, <1>2, <1>5
  <2>2. m = (k - start - 1) * W + (q + (W - bits))
    <3>1. (k - start - 1) * W = k * W - start * W - W /\ k * W \in Int
      BY <1>1, <1>2
    <3> DEFINE e == k * W  g == start * W  h == (k - start - 1) * W
    <3> HIDE DEF e, g, h
    <3>2. p = e + q /\ n = g + bits /\ h = e - g - W /\ e \in Int /\ g \in Int
      BY <1>1, <1>2, <3>1 DEF e, g, h
    <3>3. m = h + (q + (W - bits))
      BY <3>2, <1>1, <1>2
    <3>4. QED
      BY <3>3 DEF h
  <2>3. BitOf(digs[a], size0[a], m) = Bit(OldDigit(k - start - 1), q + (W - bits))
    BY <1>4, <2>1, <2>2
  <2>4. Bit(LDigit(k), q) = Bit(OldDigit(k - start - 1), q + (W - bits))
    BY <1>2, <1>5, LDigitBits
  <2>5. QED
    BY <2>3, <2>4 DEF k, q
<1>6. CASE ~(q < bits)
  <2>1. k - start \in Int /\ q - bits \in 0 .. W - 1
    BY <1>1, <1>2, <1>6
  <2>2. m = (k - start) * W + (q - bits)
    <3>1. (k - start) * W = k * W - start * W /\ k * W \in Int
      BY <1>1, <1>2
    <3> DEFINE e == k * W  g == start * W  h == (k - start) * W
    <3> HIDE DEF e, g, h
    <3>2. p = e + q /\ n = g + bits /\ h = e - g /\ e \in Int /\ g \in Int
      BY <1>1, <1>2, <3>1 DEF e, g, h
    <3>3. m = h + (q - bits)
      BY <3>2, <1>1, <1>2
    <3>4. QED
      BY <3>3 DEF h
  <2>3. BitOf(digs[a], size0[a], m) = Bit(OldDigit(k - start), q - bits)
    BY <1>4, <2>1, <2>2
  <2>4. Bit(LDigit(k), q) = Bit(OldDigit(k - start), q - bits)
    BY <1>2, <1>6, LDigitBits
  <2>5. QED
    BY <2>3, <2>4 DEF k, q
<1>7. QED
  BY <1>5, <1>6

LEMMA RDigitPlaces ==
    ASSUME Typed, NEW p \in Nat
    PROVE  Bit(RDigit(p \div W), p % W) = BitOf(digs[a], size0[a], p + n)
<1> DEFINE k == p \div W  q == p % W  m == p + n
<1>1. /\ start \in Nat /\ bits \in 0 .. W - 1 /\ W \in Nat /\ W >= 1 /\ n = start * W + bits
      /\ start * W \in Int
  BY CallFacts DEF Typed
<1>2. k \in Int /\ q \in 0 .. W - 1 /\ p = k * W + q
  BY <1>1, QuotientRemainder
<1> HIDE DEF k, q
<1>3. BitOf(digs[a], size0[a], m) = IF m < 0 THEN 0 ELSE Bit(OldDigit(m \div W), m % W)
  BY DEF BitOf, OldDigit
<1>4. ASSUME NEW j \in Int, NEW r \in 0 .. W - 1, m = j * W + r
      PROVE  BitOf(digs[a], size0[a], m) = Bit(OldDigit(j), r)
  <2>1. m \div W = j /\ m % W = r /\ (m < 0 <=> j < 0)
    BY <1>4, PlaceSplit
  <2>2. j < 0 => OldDigit(j) = 0 /\ Bit(0, r) = 0
    BY OldDigits, BitZero
  <2> HIDE DEF m
  <2>3. QED
    BY <1>3, <2>1, <2>2
<1>5. CASE q + bits < W
  <2>1. k + start \in Int /\ q + bits \in 0 .. W - 1
    BY <1>1, <1>2, <1>5
  <2>2. m = (k + start) * W + (q + bits)
    <3>1. (k + start) * W = k * W + start * W /\ k * W \in Int
      BY <1>1, <1>2
    <3> DEFINE e == k * W  g == start * W  h == (k + start) * W
    <3> HIDE DEF e, g, h
    <3>2. p = e + q /\ n = g + bits /\ h = e + g /\ e \in Int /\ g \in Int
      BY <1>1, <1>2, <3>1 DEF e, g, h
    <3>3. m = h + (q + bits)
      BY <3>2, <1>1, <1>2
    <3>4. QED
      BY <3>3 DEF h
  <2>3. BitOf(digs[a], size0[a], m) = Bit(OldDigit(k + start), q + bits)
    BY <1>4, <2>1, <2>2
  <2>4. Bit(RDigit(k), q) = Bit(OldDigit(k + start), q + bits)
    BY <1>2, <1>5, RDigitBits
  <2>5. QED
    BY <2>3, <2>4 DEF k, q
<1>6. CASE ~(q + bits < W)
  <2>1. k + start + 1 \in Int /\ q - (W - bits) \in 0 .. W - 1
    BY <1>1, <1>2, <1>6
  <2>2. m = (k + start + 1) * W + (q - (W - bits))
    <3>1. (k + start + 1) * W = k * W + start * W + W /\ k * W \in Int
      BY <1>1, <1>2
    <3> DEFINE e == k * W  g == start * W  h == (k + start + 1) * W
    <3> HIDE DEF e, g, h
    <3>2. p = e + q /\ n = g + bits /\ h = e + g + W /\ e \in Int /\ g \in Int
      BY <1>1, <1>2, <3>1 DEF e, g, h
    <3>3. m = h + (q - (W - bits))
      BY <3>2, <1>1, <1>2
    <3>4. QED
      BY <3>3 DEF h
  <2>3. BitOf(digs[a], size0[a], m) = Bit(OldDigit(k + start + 1), q - (W - bits))
    BY <1>4, <2>1, <2>2
  <2>4. Bit(RDigit(k), q) = Bit(OldDigit(k + start + 1), q - (W - bits))
    BY <1>2, <1>6, RDigitBits
  <2>5. QED
    BY <2>3, <2>4 DEF k, q
<1>7. QED
  BY <1>5, <1>6

----------------------------------------------------------------------------
(* What no step changes, and what a step does to the storage.                *)

LEMMA Frozen ==
    ASSUME [Next]_vars
    PROVE  /\ UNCHANGED <<atCall, n, op, fn>>
           /\ UNCHANGED <<result, a, b, start, bits, Fresh>>
<1>1. UNCHANGED <<atCall, n, op, fn>>
  <2>1. CASE fn = "lshift" /\ LShiftNext /\ UNCHANGED <<logicVars, fn>>
    <3>1. UNCHANGED <<op, fn>>
      BY <2>1, Zenon DEF logicVars
    <3>2. UNCHANGED <<atCall, n>>
      <4>1. LShiftZero \/ LShiftTop \/ LShiftStep \/ LShiftEnd => UNCHANGED shiftCall
        BY Zenon DEF LShiftZero, LShiftTop, LShiftStep, LShiftEnd, Clear
      <4>2. LShift => UNCHANGED <<atCall, n>>
        BY Zenon DEF LShift
      <4>3. UNCHANGED shiftCall => UNCHANGED <<atCall, n>>
        BY Zenon DEF shiftCall
      <4>4. QED
        BY <2>1, <4>1, <4>2, <4>3, Zenon DEF LShiftNext
    <3>3. QED
      BY <3>1, <3>2
  <2>2. CASE fn = "rshift" /\ RShiftNext /\ UNCHANGED <<logicVars, fn>>
    <3>1. UNCHANGED <<op, fn>>
      BY <2>2, Zenon DEF logicVars
    <3>2. UNCHANGED <<atCall, n>>
      <4>1. RShiftZero \/ RShiftNothing \/ RShiftStep \/ RShiftEnd => UNCHANGED shiftCall
        BY Zenon DEF RShiftZero, RShiftNothing, RShiftStep, RShiftEnd, Clear
      <4>2. RShift => UNCHANGED <<atCall, n>>
        BY Zenon DEF RShift
      <4>3. UNCHANGED shiftCall => UNCHANGED <<atCall, n>>
        BY Zenon DEF shiftCall
      <4>4. QED
        BY <2>2, <4>1, <4>2, <4>3, Zenon DEF RShiftNext
    <3>3. QED
      BY <3>1, <3>2
  <2>3. CASE fn # "logic" /\ ShiftCleanup /\ UNCHANGED <<logicVars, fn>>
    <3>1. UNCHANGED <<logicVars, fn>> /\ UNCHANGED shiftCall
      BY <2>3, Zenon DEF ShiftCleanup
    <3>2. QED
      BY <3>1, Zenon DEF shiftCall, logicVars
  <2>4. CASE fn = "logic" /\ LogicNext /\ UNCHANGED <<shiftVars, fn>>
    <3>1. UNCHANGED <<n, fn>>
      BY <2>4, Zenon DEF shiftVars
    <3>2. UNCHANGED <<atCall, op>>
      <4>1. Both \/ Rest \/ LogicCleanup => UNCHANGED logicCall
        BY Zenon DEF Both, Rest, LogicCleanup
      <4>2. Call => UNCHANGED <<atCall, op>>
        BY Zenon DEF Call
      <4>3. UNCHANGED logicCall => UNCHANGED <<atCall, op>>
        BY Zenon DEF logicCall
      <4>4. QED
        BY <2>4, <4>1, <4>2, <4>3, Zenon DEF LogicNext
    <3>3. QED
      BY <3>1, <3>2
  <2>5. CASE UNCHANGED vars
    BY <2>5, Zenon DEF vars, shiftVars, logicVars
  <2>6. QED
    BY <2>1, <2>2, <2>3, <2>4, <2>5, Zenon DEF Next
<1>2. alias' = alias /\ digs' = digs /\ size0' = size0 /\ n' = n /\ fn' = fn
  BY <1>1, Zenon DEF atCall
<1>3. UNCHANGED <<result, a, b, start, bits>>
  BY <1>2 DEF result, a, b, start, bits
<1>4. Fresh' = Fresh
  BY <1>2, <1>3, Zenon DEF Fresh
<1>5. QED
  BY <1>1, <1>3, <1>4

LEMMA FrozenDigits ==
    ASSUME [Next]_vars
    PROVE  /\ \A k : LDigit(k)' = LDigit(k)
           /\ \A k : RDigit(k)' = RDigit(k)
           /\ \A k : OpDigit(k)' = OpDigit(k)
<1>1. digs' = digs /\ size0' = size0 /\ op' = op /\ UNCHANGED <<a, b, start, bits>>
  BY Frozen DEF atCall
<1>2. ASSUME NEW k PROVE OldDigit(k)' = OldDigit(k) /\ OpDigit(k)' = OpDigit(k)
  BY <1>1, Zenon DEF OldDigit, OpDigit, WordOp
<1>3. ASSUME NEW k PROVE LDigit(k)' = LDigit(k) /\ RDigit(k)' = RDigit(k)
  BY <1>1, <1>2, Zenon DEF LDigit, RDigit, OldDigit
<1>4. QED
  BY <1>2, <1>3

(* One digit of one object written.                                          *)
LEMMA CellSet ==
    ASSUME NEW c \in [Objs -> [Index -> Digit]], NEW r \in Objs, NEW m \in Index, NEW v \in Digit,
           NEW c2, c2 = [c EXCEPT ![r][m] = v]
    PROVE  /\ c2 \in [Objs -> [Index -> Digit]]
           /\ c2[r][m] = v
           /\ \A o \in Objs : o # r => c2[o] = c[o]
           /\ \A o \in Objs, k \in Index : k # m => c2[o][k] = c[o][k]
<1> DEFINE e == [c[r] EXCEPT ![m] = v]
<1>1. e \in [Index -> Digit] /\ e[m] = v /\ \A k \in Index : k # m => e[k] = c[r][k]
  OBVIOUS
<1>2. c2 = [c EXCEPT ![r] = e]
  OBVIOUS
<1> HIDE DEF e
<1>3. c2 \in [Objs -> [Index -> Digit]] /\ c2[r] = e /\ \A o \in Objs : o # r => c2[o] = c[o]
  BY <1>1, <1>2
<1>4. QED
  BY <1>1, <1>3

(* The digits of one object replaced.                                        *)
LEMMA CellRow ==
    ASSUME NEW c \in [Objs -> [Index -> Digit]], NEW r \in Objs, NEW e \in [Index -> Digit],
           NEW c2, c2 = [c EXCEPT ![r] = e]
    PROVE  /\ c2 \in [Objs -> [Index -> Digit]]
           /\ c2[r] = e
           /\ \A o \in Objs : o # r => c2[o] = c[o]
  OBVIOUS

LEMMA Zeros ==
    ASSUME NEW d \in [Index -> Digit], NEW m \in 1 .. MaxSize, m = 1 \/ d[m - 1] # 0
    PROVE  IsZero(d, m) <=> (m = 1 /\ d[0] = 0)
<1>1. MaxSize \in Nat /\ m - 1 \in 0 .. m - 1
  BY PowAssumption
<1>2. QED
  BY <1>1 DEF IsZero

(* BigInt::cleanup keeps the value and makes it canonical.                   *)
LEMMA CleanedFacts ==
    ASSUME TypeOK, result \in Objs, NEW d \in [Index -> Digit], Cleaned(d)
    PROVE  /\ cell' \in [Objs -> [Index -> Digit]] /\ size' \in [Objs -> 1 .. MaxSize]
           /\ neg' \in [Objs -> BOOLEAN]
           /\ cell'[result] = d
           /\ size'[result] \in 1 .. size[result]
           /\ \A j \in size'[result] .. size[result] - 1 : d[j] = 0
           /\ Canonical(d, size'[result], neg'[result])
           /\ neg'[result] = (neg[result] /\ ~IsZero(d, size'[result]))
<1> DEFINE k == CHOOSE k \in 1 .. size[result] :
                    /\ \A j \in k .. size[result] - 1 : d[j] = 0
                    /\ k = 1 \/ d[k - 1] # 0
<1>1. /\ cell \in [Objs -> [Index -> Digit]] /\ size \in [Objs -> 1 .. MaxSize]
      /\ neg \in [Objs -> BOOLEAN] /\ size[result] \in 1 .. MaxSize /\ MaxSize \in Nat
  BY PowAssumption DEF TypeOK
<1>2. /\ cell' = [cell EXCEPT ![result] = d]
      /\ size' = [size EXCEPT ![result] = k]
      /\ neg' = [neg EXCEPT ![result] = @ /\ ~(k = 1 /\ d[0] = 0)]
  BY Zenon DEF Cleaned
<1>3. k \in 1 .. size[result] /\ (\A p \in k .. size[result] - 1 : d[p] = 0) /\ (k = 1 \/ d[k - 1] # 0)
  <2> DEFINE T == {m \in 1 .. size[result] : \A p \in m .. size[result] - 1 : d[p] = 0}
  <2>1. size[result] \in T /\ T \subseteq Nat
    BY <1>1
  <2>2. PICK m \in T : \A q \in T : m <= q
    BY <2>1, LeastNat
  <2>3. m = 1 \/ d[m - 1] # 0
    <3> SUFFICES ASSUME m # 1, d[m - 1] = 0 PROVE FALSE
      OBVIOUS
    <3>1. m - 1 \in 1 .. size[result] /\ ~(m <= m - 1)
      BY <1>1, <2>2
    <3>2. ASSUME NEW p \in m - 1 .. size[result] - 1 PROVE d[p] = 0
      <4>1. p = m - 1 \/ p \in m .. size[result] - 1
        BY <1>1, <2>2
      <4>2. QED
        BY <4>1, <2>2
    <3>3. m - 1 \in T
      BY <3>1, <3>2
    <3>4. QED
      BY <2>2, <3>1, <3>3
  <2>4. \E m2 \in 1 .. size[result] :
            (\A p \in m2 .. size[result] - 1 : d[p] = 0) /\ (m2 = 1 \/ d[m2 - 1] # 0)
    BY <2>2, <2>3
  <2>5. QED
    BY <2>4
<1> HIDE DEF k
<1>4. k \in 1 .. MaxSize
  BY <1>1, <1>3
<1>5. IsZero(d, k) <=> (k = 1 /\ d[0] = 0)
  BY <1>3, <1>4, Zeros
<1>6. /\ cell' \in [Objs -> [Index -> Digit]] /\ cell'[result] = d
      /\ size' \in [Objs -> 1 .. MaxSize] /\ size'[result] = k
  BY <1>1, <1>2, <1>4
<1>7. neg' \in [Objs -> BOOLEAN] /\ neg'[result] = (neg[result] /\ ~(k = 1 /\ d[0] = 0))
  BY <1>1, <1>2, Zenon
<1>8. Canonical(d, k, neg'[result])
  <2>1. k > 1 => d[k - 1] # 0
    BY <1>3, <1>4
  <2>2. k = 1 /\ d[0] = 0 => ~neg'[result]
    BY <1>7, Zenon
  <2>3. QED
    BY <2>1, <2>2, Zenon DEF Canonical
<1>9. QED
  BY <1>3, <1>5, <1>6, <1>7, <1>8, Zenon

(* An object whose digits are those of a, shifted, is a, shifted.            *)
LEMMA ShiftedDigits ==
    ASSUME Typed, NEW d \in [Index -> Digit], NEW m \in 1 .. MaxSize
    PROVE  /\ (\A j \in Index : DigitOf(d, m, j) = LDigit(j)) =>
                  \A p \in 0 .. MaxSize * W - 1 : BitOf(d, m, p) = BitOf(digs[a], size0[a], p + (0 - n))
           /\ (\A j \in Index : DigitOf(d, m, j) = RDigit(j)) =>
                  \A p \in 0 .. MaxSize * W - 1 : BitOf(d, m, p) = BitOf(digs[a], size0[a], p + n)
<1>1. W \in Nat /\ W > 0 /\ MaxSize \in Nat /\ MaxSize * W \in Nat
  BY CallFacts DEF Typed
<1>2. ASSUME NEW p \in 0 .. MaxSize * W - 1
      PROVE  /\ p \in Nat /\ p \div W \in Index
             /\ BitOf(d, m, p) = Bit(DigitOf(d, m, p \div W), p % W)
  <2> DEFINE k == p \div W
  <2>1. p \in Nat /\ p < MaxSize * W
    BY <1>1
  <2>2. k \in Int /\ k * W <= p /\ p < (k + 1) * W
    BY <1>1, <2>1, QuotientRemainder
  <2> HIDE DEF k
  <2>3. k * W < MaxSize * W /\ 0 * W < (k + 1) * W
    <3>1. k * W \in Int /\ (k + 1) * W \in Int /\ 0 * W = 0
      BY <1>1, <2>2
    <3>2. QED
      BY <1>1, <2>1, <2>2, <3>1
  <2>4. k < MaxSize /\ 0 < k + 1
    BY <1>1, <2>2, <2>3, MulCancel
  <2>5. k \in Index
    BY <1>1, <2>2, <2>4 DEF Index
  <2>6. ~(p < 0)
    BY <2>1
  <2>7. QED
    BY <2>1, <2>5, <2>6 DEF BitOf, k
<1>3. QED
  BY <1>2, LDigitPlaces, RDigitPlaces

LEMMA ShiftDone ==
    ASSUME Typed, [Next]_vars,
           cell'[result] \in [Index -> Digit], size'[result] \in 1 .. MaxSize,
           Canonical(cell'[result], size'[result], neg'[result]),
           neg'[result] = (neg0[a] /\ ~IsZero(cell'[result], size'[result]))
    PROVE  /\ (\A j \in Index : DigitOf(cell'[result], size'[result], j) = LDigit(j)) => ShiftedBy(0 - n)'
           /\ (\A j \in Index : DigitOf(cell'[result], size'[result], j) = RDigit(j)) => ShiftedBy(n)'
<1>1. /\ result' = result /\ a' = a /\ n' = n /\ digs' = digs /\ size0' = size0 /\ neg0' = neg0
  BY Frozen DEF atCall
<1>2. /\ (\A j \in Index : DigitOf(cell'[result], size'[result], j) = LDigit(j)) =>
            \A p \in 0 .. MaxSize * W - 1 :
                BitOf(cell'[result], size'[result], p) = BitOf(digs[a], size0[a], p + (0 - n))
      /\ (\A j \in Index : DigitOf(cell'[result], size'[result], j) = RDigit(j)) =>
            \A p \in 0 .. MaxSize * W - 1 :
                BitOf(cell'[result], size'[result], p) = BitOf(digs[a], size0[a], p + n)
  BY ShiftedDigits
<1>3. QED
  BY <1>1, <1>2, Zenon DEF ShiftedBy

(* Each part of the invariant is about some places of the program.           *)
LEMMA Elsewhere ==
    /\ pc' \notin {"lshift-top", "lshift"} => LShifting'
    /\ pc' # "rshift" => RShifting'
    /\ pc' # "cleanup" => Shifted'
    /\ pc' # "loop" => Combining'
    /\ pc' # "done" => Answer'
<1>1. pc' \notin {"lshift-top", "lshift"} => LShifting'
  BY DEF LShifting
<1>2. pc' # "rshift" => RShifting'
  BY DEF RShifting
<1>3. pc' # "cleanup" => Shifted'
  BY DEF Shifted
<1>4. pc' # "loop" => Combining'
  BY DEF Combining
<1>5. pc' # "done" => Answer'
  BY DEF Answer, LShiftExact, RShiftExact, LogicExact
<1>6. QED
  BY <1>1, <1>2, <1>3, <1>4, <1>5

LEMMA TypedKept ==
    ASSUME Typed, [Next]_vars, TypeOK'
    PROVE  Typed'
<1>1. digs' = digs /\ size0' = size0 /\ neg0' = neg0
  BY Frozen DEF atCall
<1>2. QED
  BY <1>1, Zenon DEF Typed

LEMMA CallingKept ==
    ASSUME Calling, [Next]_vars, pc' # "call", fn = "logic" => pc' \in {"loop", "done"}
    PROVE  Calling'
<1>1. result' = result /\ a' = a /\ b' = b /\ fn' = fn
  BY Frozen
<1>2. fn = "logic" => pc' \in {"call", "loop", "done"}
  OBVIOUS
<1>3. QED
  BY <1>1, <1>2, Zenon DEF Calling

LEMMA SafeZero ==
    ASSUME NEW m \in 0 .. W
    PROVE  lshift_safe(0, m) = 0 /\ rshift_safe(0, m) = 0
<1>1. 0 \in Digit /\ W \in Nat
  BY WordWithZero, WidthAssumption, BAssumption DEF Digit
<1>2. ASSUME NEW k \in 0 .. W - 1
      PROVE  Bit(lshift_safe(0, m), k) = Bit(0, k) /\ Bit(rshift_safe(0, m), k) = Bit(0, k)
  <2>1. Bit(lshift_safe(0, m), k) = IF k < m THEN 0 ELSE Bit(0, k - m)
    BY <1>1, LShiftBits
  <2>2. Bit(rshift_safe(0, m), k) = IF k + m < W THEN Bit(0, k + m) ELSE 0
    BY <1>1, RShiftBits
  <2>3. ~(k < m) => k - m \in 0 .. W - 1
    BY <1>1
  <2>4. k + m < W => k + m \in 0 .. W - 1
    BY <1>1
  <2>5. QED
    BY <2>1, <2>2, <2>3, <2>4, BitZero
<1>3. lshift_safe(0, m) \in Digit /\ rshift_safe(0, m) \in Digit
  BY <1>1, LShiftBits, RShiftBits
<1>4. QED
  BY <1>1, <1>2, <1>3, BitsEqual

(* Zero, shifted, is zero.                                                   *)
LEMMA ZeroOperand ==
    ASSUME Typed, IsZero(digs[a], size0[a]), NEW k \in Int
    PROVE  LDigit(k) = 0 /\ RDigit(k) = 0
<1>1. start \in Nat /\ bits \in 0 .. W /\ W - bits \in 0 .. W /\ size0[a] \in Nat /\ 0 \in Digit
  BY CallFacts, WordWithZero, BAssumption DEF Typed, Digit
<1>2. ASSUME NEW j \in Int PROVE OldDigit(j) = 0
  <2>1. j >= 0 /\ j < size0[a] => digs[a][j] = 0
    BY <1>1 DEF IsZero
  <2>2. QED
    BY <2>1, <1>1, OldDigits
<1>3. k - start - 1 \in Int /\ k - start \in Int /\ k + start \in Int /\ k + start + 1 \in Int
  BY <1>1
<1>4. WordOr(0, 0) = 0
  BY <1>1, WordWithZero
<1>5. QED
  BY <1>1, <1>2, <1>3, <1>4, SafeZero DEF LDigit, RDigit

(* A canonical object has its sign only when it is not zero.                 *)
LEMMA CanonicalSign ==
    ASSUME Typed, NEW o \in Objs
    PROVE  neg0[o] = (neg0[o] /\ ~IsZero(digs[o], size0[o]))
<1>1. /\ digs[o] \in [Index -> Digit] /\ size0[o] \in 1 .. MaxSize
      /\ Canonical(digs[o], size0[o], neg0[o]) /\ neg0[o] \in BOOLEAN
  BY CallFacts DEF Typed
<1>2. size0[o] = 1 \/ digs[o][size0[o] - 1] # 0
  BY <1>1, CallFacts DEF Canonical, Typed
<1>3. IsZero(digs[o], size0[o]) <=> (size0[o] = 1 /\ digs[o][0] = 0)
  BY <1>1, <1>2, Zeros
<1>4. IsZero(digs[o], size0[o]) => ~neg0[o]
  BY <1>1, <1>3, Zenon DEF Canonical
<1>5. QED
  BY <1>1, <1>4, Zenon

----------------------------------------------------------------------------
(* The invariant along the steps of the shifts.                              *)

LEMMA ClearStep ==
    ASSUME IInv, [Next]_vars, pc = "call", Clear, UNCHANGED <<logicVars, fn>>,
           \/ fn = "lshift" /\ \A j \in Index : LDigit(j) = 0
           \/ fn = "rshift" /\ \A j \in Index : RDigit(j) = 0
    PROVE  IInv'
<1>1. Typed /\ TypeOK /\ Calling
  BY DEF IInv, Typed
<1>2. result \in Objs /\ a \in Objs /\ MaxSize \in Nat /\ MaxSize >= 1 /\ 0 \in Index /\ 0 \in Digit
  BY <1>1, CallFacts, BAssumption DEF Typed, Index, Digit
<1>3. /\ size' = [size EXCEPT ![result] = 1]
      /\ cell' = [cell EXCEPT ![result][0] = 0]
      /\ neg' = [neg EXCEPT ![result] = FALSE]
      /\ pc' = "done" /\ i' = i /\ n' = n /\ na' = na
  BY Zenon DEF Clear, shiftCall
<1>4. cell' \in [Objs -> [Index -> Digit]] /\ cell'[result] \in [Index -> Digit] /\ cell'[result][0] = 0
  <2>1. cell \in [Objs -> [Index -> Digit]]
    BY <1>1 DEF TypeOK
  <2>2. cell' \in [Objs -> [Index -> Digit]] /\ cell'[result][0] = 0
    BY <1>2, <1>3, <2>1, CellSet
  <2>3. QED
    BY <1>2, <2>2
<1>5. size' \in [Objs -> 1 .. MaxSize] /\ size'[result] = 1 /\ size'[result] \in 1 .. MaxSize
  BY <1>1, <1>2, <1>3 DEF TypeOK
<1>6. neg' \in [Objs -> BOOLEAN] /\ ~neg'[result] /\ neg'[result] = FALSE
  BY <1>1, <1>2, <1>3 DEF TypeOK
<1>7. TypeOK'
  <2>1. UNCHANGED <<alias, fn, op, swapped, nl, ns>>
    BY Frozen, Zenon DEF atCall, logicVars
  <2>2. QED
    BY <1>1, <1>3, <1>4, <1>5, <1>6, <2>1 DEF TypeOK
<1>8. Typed' /\ Calling'
  <2>1. pc' # "call" /\ pc' \in {"loop", "done"}
    BY <1>3
  <2>2. QED
    BY <1>1, <1>7, <2>1, TypedKept, CallingKept
<1>9. LShifting' /\ RShifting' /\ Shifted' /\ Combining'
  BY <1>3, Elsewhere
<1>10. Answer'
  <2>1. IsZero(cell'[result], size'[result]) /\ Canonical(cell'[result], size'[result], neg'[result])
    BY <1>4, <1>5, <1>6 DEF IsZero, Canonical
  <2>2. neg'[result] = (neg0[a] /\ ~IsZero(cell'[result], size'[result]))
    BY <1>6, <2>1, Zenon
  <2>3. ASSUME NEW j \in Index PROVE DigitOf(cell'[result], size'[result], j) = 0 /\ j \in Int
    <3>1. j \in Int /\ (0 <= j /\ j < 1 => j = 0)
      BY <1>2 DEF Index
    <3>2. QED
      BY <1>4, <1>5, <3>1 DEF DigitOf
  <2>4. fn' = fn
    BY Frozen
  <2>5. CASE fn = "lshift" /\ \A j \in Index : LDigit(j) = 0
    <3>1. ShiftedBy(0 - n)'
      BY <1>1, <1>4, <1>5, <2>1, <2>2, <2>3, <2>5, ShiftDone
    <3>2. QED
      BY <1>3, <2>4, <2>5, <3>1 DEF Answer, LShiftExact, RShiftExact, LogicExact
  <2>6. CASE fn = "rshift" /\ \A j \in Index : RDigit(j) = 0
    <3>1. ShiftedBy(n)'
      BY <1>1, <1>4, <1>5, <2>1, <2>2, <2>3, <2>6, ShiftDone
    <3>2. fn' = "rshift"
      BY <2>4, <2>6
    <3>3. fn' # "lshift" /\ fn' # "logic"
      BY <3>2
    <3>4. QED
      BY <1>3, <3>1, <3>3, Zenon DEF Answer, LShiftExact, RShiftExact, LogicExact
  <2>7. QED
    BY <2>5, <2>6
<1>11. QED
  BY <1>8, <1>9, <1>10 DEF IInv

LEMMA LShiftZeroStep ==
    ASSUME IInv, [Next]_vars, fn = "lshift", LShiftZero, UNCHANGED <<logicVars, fn>>
    PROVE  IInv'
<1>1. pc = "call" /\ IsZero(cell[a], size[a]) /\ Clear
  BY Zenon DEF LShiftZero
<1>2. Typed /\ IsZero(digs[a], size0[a])
  BY <1>1 DEF IInv, Calling
<1>3. \A j \in Index : LDigit(j) = 0
  <2>1. \A j \in Index : j \in Int
    BY PowAssumption DEF Index
  <2>2. QED
    BY <1>2, <2>1, ZeroOperand
<1>4. QED
  BY <1>1, <1>3, ClearStep

LEMMA RShiftZeroStep ==
    ASSUME IInv, [Next]_vars, fn = "rshift", RShiftZero, UNCHANGED <<logicVars, fn>>
    PROVE  IInv'
<1>1. pc = "call" /\ (IsZero(cell[a], size[a]) \/ size[a] <= start) /\ Clear
  BY Zenon DEF RShiftZero
<1>2. Typed /\ (IsZero(digs[a], size0[a]) \/ size0[a] <= start)
  BY <1>1 DEF IInv, Calling
<1>3. ASSUME NEW j \in Index PROVE RDigit(j) = 0
  <2>1. j \in Nat /\ start \in Nat /\ size0[a] \in Nat
    BY <1>2, CallFacts DEF Typed, Index
  <2>2. CASE IsZero(digs[a], size0[a])
    BY <1>2, <2>1, <2>2, ZeroOperand
  <2>3. CASE size0[a] <= start
    <3>1. j >= size0[a] - start
      BY <2>1, <2>3
    <3>2. QED
      BY <1>2, <2>1, <3>1, RDigitOutside
  <2>4. QED
    BY <1>2, <2>2, <2>3
<1>4. QED
  BY <1>1, <1>3, ClearStep

LEMMA LShiftCallStep ==
    ASSUME IInv, [Next]_vars, fn = "lshift", LShift, UNCHANGED <<logicVars, fn>>
    PROVE  IInv'
<1> DEFINE room == size[a] + start + 1
           e == [j \in Index |-> IF size[result] <= j /\ j < room THEN 0 ELSE cell[result][j]]
<1>1. /\ Typed /\ TypeOK /\ Calling
  BY DEF IInv, Typed
<1>2. /\ pc = "call" /\ neg' = [neg EXCEPT ![result] = neg[a]] /\ na' = size[a]
      /\ size' = [size EXCEPT ![result] = room] /\ cell' = [cell EXCEPT ![result] = e]
      /\ pc' = "lshift-top" /\ i' = i /\ n' = n
  BY DEF LShift
<1>3. /\ cell = digs /\ size = size0 /\ neg = neg0
  BY <1>1, <1>2 DEF Calling
<1>4. /\ result \in Objs /\ a \in Objs /\ MaxSize \in Nat /\ start \in Nat /\ size0[a] \in 1 .. MaxDigits
      /\ MaxDigits \in Nat /\ MaxDigits <= MaxSize /\ room \in 1 .. MaxSize /\ 0 \in Digit
      /\ size0[result] \in 1 .. MaxDigits
  BY <1>1, <1>3, CallFacts, BAssumption DEF Typed, Digit
<1>5. /\ cell \in [Objs -> [Index -> Digit]] /\ size \in [Objs -> 1 .. MaxSize] /\ neg \in [Objs -> BOOLEAN]
      /\ cell[result] \in [Index -> Digit]
  BY <1>1, <1>4 DEF TypeOK
<1>6. /\ e \in [Index -> Digit]
      /\ \A j \in Index : e[j] = IF size[result] <= j /\ j < room THEN 0 ELSE cell[result][j]
  BY <1>4, <1>5
<1> HIDE DEF e
<1>7. /\ cell' \in [Objs -> [Index -> Digit]] /\ cell'[result] = e
      /\ \A o \in Objs : o # result => cell'[o] = cell[o]
  BY <1>2, <1>4, <1>5, <1>6, CellRow
<1>8. size' \in [Objs -> 1 .. MaxSize] /\ size'[result] = room
  <2> HIDE DEF room
  <2> QED
    BY <1>2, <1>4, <1>5
<1>9. neg' \in [Objs -> BOOLEAN] /\ neg'[result] = neg0[a]
  BY <1>2, <1>3, <1>4, <1>5
<1>10. na' = size0[a] /\ na' \in 0 .. MaxSize
  BY <1>2, <1>3, <1>4
<1>11. UNCHANGED <<alias, digs, size0, neg0, fn, op, swapped, nl, ns, result, a, start, bits, Fresh>>
  BY Frozen, Zenon DEF atCall, logicVars
<1>12. TypeOK'
  BY <1>1, <1>2, <1>7, <1>8, <1>9, <1>10, <1>11 DEF TypeOK
<1>13. Typed' /\ Calling'
  BY <1>1, <1>2, <1>12, TypedKept, CallingKept
<1>14. LShifting'
  <2>1. ASSUME NEW k \in 0 .. size0[a] - 1 PROVE cell'[a][k] = digs[a][k]
    <3>1. k \in Index /\ k < size[a]
      BY <1>3, <1>4 DEF Index
    <3>2. CASE result = a
      <4>1. ~(size[result] <= k /\ k < room)
        BY <3>1, <3>2, <1>3, <1>4
      <4>2. cell'[a][k] = cell[a][k]
        BY <3>1, <3>2, <4>1, <1>6, <1>7
      <4>3. QED
        BY <4>2, <1>3
    <3>3. CASE result # a
      <4>1. cell'[a] = cell[a]
        BY <3>3, <1>4, <1>7
      <4>2. QED
        BY <4>1, <1>3
    <3>4. QED
      BY <3>2, <3>3
  <2>2. ASSUME Fresh, NEW k \in 0 .. size0[a] + start, result # a \/ k >= size0[a]
        PROVE  cell'[result][k] = 0
    <3>1. k \in Index /\ k \in Nat /\ k < room
      BY <1>3, <1>4 DEF Index
    <3>2. CASE size[result] <= k
      BY <3>1, <3>2, <1>6, <1>7
    <3>3. CASE ~(size[result] <= k)
      <4>1. result # a
        BY <2>2, <3>3, <1>3, <1>4
      <4>2. size[result] = 1 /\ digs[result][0] = 0
        BY <4>1, <2>2, <1>3 DEF Fresh
      <4>3. k = 0
        BY <3>1, <3>3, <4>2
      <4>4. cell'[result][k] = cell[result][k]
        BY <3>1, <3>3, <1>6, <1>7
      <4>5. QED
        BY <4>2, <4>3, <4>4, <1>3
    <3>4. QED
      BY <3>2, <3>3
  <2>3. size'[result] = na' + start + 1
    BY <1>3, <1>8, <1>10
  <2>4. pc' # "lshift"
    BY <1>2
  <2>5. QED
    BY <2>1, <2>2, <2>3, <2>4, <1>2, <1>9, <1>10, <1>11 DEF LShifting
<1>15. pc' \notin {"rshift", "cleanup", "loop", "done"}
  BY <1>2
<1>16. RShifting' /\ Shifted' /\ Combining' /\ Answer'
  BY <1>15, Elsewhere
<1>17. QED
  BY <1>13, <1>14, <1>16 DEF IInv

LEMMA LShiftTopStep ==
    ASSUME IInv, [Next]_vars, fn = "lshift", LShiftTop, UNCHANGED <<logicVars, fn>>
    PROVE  IInv'
<1> DEFINE last == rshift_safe(cell[a][na - 1], W - bits)
<1>1. /\ Typed /\ TypeOK /\ Calling /\ LShifting
  BY DEF IInv, Typed
<1>2. /\ pc = "lshift-top" /\ i' = na - 1 /\ pc' = "lshift"
      /\ cell' = IF bits > 0 /\ last # 0 THEN [cell EXCEPT ![result][na + start] = last] ELSE cell
      /\ UNCHANGED <<size, neg>> /\ UNCHANGED shiftCall
  BY DEF LShiftTop
<1>3. /\ na = size0[a] /\ size[result] = na + start + 1 /\ neg[result] = neg0[a]
      /\ \A k \in 0 .. na - 1 : cell[a][k] = digs[a][k]
      /\ Fresh => \A k \in 0 .. na + start : result # a \/ k >= na => cell[result][k] = 0
  BY <1>1, <1>2 DEF LShifting
<1>4. /\ result \in Objs /\ a \in Objs /\ MaxSize \in Nat /\ start \in Nat /\ na \in 1 .. MaxSize
      /\ bits \in 0 .. W - 1 /\ bits \in 0 .. W /\ W - bits \in 0 .. W /\ W \in Nat
      /\ na + start \in Index /\ na - 1 \in Index /\ na - 1 \in 0 .. na - 1 /\ 0 \in Digit
  <2>1. /\ result \in Objs /\ a \in Objs /\ MaxSize \in Nat /\ start \in Nat
        /\ na >= 1 /\ na \in Nat /\ na + start + 1 <= MaxSize /\ bits \in 0 .. W - 1 /\ W \in Nat
    BY <1>1, <1>3, CallFacts DEF Typed
  <2>2. 0 \in Digit
    BY BAssumption DEF Digit
  <2>3. QED
    BY <2>1, <2>2 DEF Index
<1>5. cell \in [Objs -> [Index -> Digit]] /\ cell[a][na - 1] \in Digit
  BY <1>1, <1>4 DEF TypeOK
<1>6. last \in Digit
  BY <1>4, <1>5, RShiftBits
<1>7. LDigit(na + start) = last
  <2>1. (na + start) - start - 1 = na - 1 /\ (na + start) - start = na
    BY <1>4
  <2>2. OldDigit(na - 1) = cell[a][na - 1] /\ OldDigit(na) = 0
    <3>1. na - 1 \in Int /\ na \in Int /\ na - 1 >= 0 /\ na - 1 < size0[a] /\ na >= size0[a]
      BY <1>3, <1>4
    <3>2. QED
      BY <3>1, <1>1, <1>3, <1>4, OldDigits
  <2>3. LDigit(na + start) = WordOr(last, lshift_safe(0, bits))
    BY <2>1, <2>2 DEF LDigit
  <2> HIDE DEF last
  <2>4. QED
    BY <2>3, <1>4, <1>6, SafeZero, WordWithZero
<1>8. bits = 0 => last = 0
  BY <1>4 DEF rshift_safe
<1> HIDE DEF last
<1>9. /\ cell' \in [Objs -> [Index -> Digit]]
      /\ \A k \in Index : k # na + start => cell'[a][k] = cell[a][k]
      /\ cell'[result][na + start] = last \/ (cell' = cell /\ last = 0)
  <2>1. CASE bits > 0 /\ last # 0
    <3>1. cell' = [cell EXCEPT ![result][na + start] = last]
      BY <1>2, <2>1
    <3>2. /\ cell' \in [Objs -> [Index -> Digit]] /\ cell'[result][na + start] = last
          /\ \A o \in Objs, k \in Index : k # na + start => cell'[o][k] = cell[o][k]
      BY <3>1, <1>4, <1>5, <1>6, CellSet
    <3>3. QED
      BY <3>2, <1>4
  <2>2. CASE ~(bits > 0 /\ last # 0)
    BY <2>2, <1>2, <1>4, <1>5, <1>8
  <2>3. QED
    BY <2>1, <2>2
<1>10. UNCHANGED <<alias, digs, size0, neg0, fn, op, swapped, nl, ns, n, na, result, a, start, bits, Fresh>>
  BY <1>2, Frozen, Zenon DEF atCall, logicVars, shiftCall
<1>11. TypeOK'
  <2>1. i' \in 0 .. MaxSize
    BY <1>2, <1>4
  <2>2. size' = size /\ neg' = neg
    BY <1>2
  <2>3. QED
    BY <2>1, <2>2, <1>1, <1>2, <1>9, <1>10 DEF TypeOK
<1>12. Typed' /\ Calling'
  BY <1>1, <1>2, <1>11, TypedKept, CallingKept
<1>13. LShifting'
  <2>1. ASSUME NEW k \in 0 .. na - 1 PROVE cell'[a][k] = digs[a][k]
    <3>1. k \in Index /\ k # na + start
      BY <1>4 DEF Index
    <3>2. QED
      BY <3>1, <1>3, <1>9
  <2>2. ASSUME Fresh, NEW k \in (na - 1) + start + 1 .. na + start
        PROVE  cell'[result][k] = LDigit(k)
    <3>1. k = na + start /\ k >= na /\ k \in 0 .. na + start
      BY <1>4
    <3>2. cell[result][k] = 0
      BY <2>2, <3>1, <1>3
    <3>3. QED
      BY <3>1, <3>2, <1>7, <1>9
  <2>3. \A k : LDigit(k)' = LDigit(k)
    BY FrozenDigits
  <2>4. size' = size /\ neg' = neg /\ i' = na - 1 /\ pc' = "lshift"
    BY <1>2
  <2>5. pc' # "lshift-top" /\ na - 1 <= na - 1
    BY <1>2, <1>4
  <2>6. QED
    BY <2>1, <2>2, <2>3, <2>4, <2>5, <1>3, <1>10 DEF LShifting
<1>14. pc' \notin {"rshift", "cleanup", "loop", "done"}
  BY <1>2
<1>15. RShifting' /\ Shifted' /\ Combining' /\ Answer'
  BY <1>14, Elsewhere
<1>16. QED
  BY <1>12, <1>13, <1>15 DEF IInv

LEMMA LShiftStepStep ==
    ASSUME IInv, [Next]_vars, fn = "lshift", LShiftStep, UNCHANGED <<logicVars, fn>>
    PROVE  IInv'
<1> DEFINE v == WordOr(rshift_safe(cell[a][i - 1], W - bits), lshift_safe(cell[a][i], bits))
<1>1. /\ Typed /\ TypeOK /\ Calling /\ LShifting
  BY DEF IInv, Typed
<1>2. /\ pc = "lshift" /\ i >= 1 /\ i' = i - 1 /\ pc' = pc
      /\ cell' = [cell EXCEPT ![result][i + start] = v]
      /\ UNCHANGED <<size, neg>> /\ UNCHANGED shiftCall
  BY DEF LShiftStep
<1>3. /\ na = size0[a] /\ size[result] = na + start + 1 /\ neg[result] = neg0[a] /\ i <= na - 1
      /\ \A k \in 0 .. i : cell[a][k] = digs[a][k]
      /\ Fresh => \A k \in i + start + 1 .. na + start : cell[result][k] = LDigit(k)
  BY <1>1, <1>2 DEF LShifting
<1>4. /\ result \in Objs /\ a \in Objs /\ MaxSize \in Nat /\ start \in Nat /\ na \in 1 .. MaxSize
      /\ na + start \in Index /\ i \in 1 .. na - 1 /\ i + start \in Index /\ i - 1 \in 0 .. i /\ i \in 0 .. i
  <2>1. /\ result \in Objs /\ a \in Objs /\ MaxSize \in Nat /\ start \in Nat /\ na \in 1 .. MaxSize
        /\ na + start + 1 <= MaxSize
    BY <1>1, <1>3, CallFacts DEF Typed
  <2>2. i \in Nat
    BY <1>1 DEF TypeOK
  <2>3. QED
    BY <2>1, <2>2, <1>2, <1>3 DEF Index
<1>5. LDigit(i + start) = v /\ v \in Digit
  <2>1. (i + start) - start - 1 = i - 1 /\ (i + start) - start = i /\ i + start \in Int
    BY <1>4
  <2>2. OldDigit(i - 1) = cell[a][i - 1] /\ OldDigit(i) = cell[a][i]
    <3>1. i - 1 \in Int /\ i \in Int /\ i - 1 >= 0 /\ i - 1 < size0[a] /\ i >= 0 /\ i < size0[a]
      BY <1>3, <1>4
    <3>2. QED
      BY <3>1, <1>1, <1>3, <1>4, OldDigits
  <2>3. LDigit(i + start) = v
    BY <2>1, <2>2 DEF LDigit
  <2>4. QED
    BY <2>1, <2>3, <1>1, LDigitBits
<1> HIDE DEF v
<1>6. cell \in [Objs -> [Index -> Digit]]
  BY <1>1 DEF TypeOK
<1>7. /\ cell' \in [Objs -> [Index -> Digit]] /\ cell'[result][i + start] = v
      /\ \A o \in Objs, k \in Index : k # i + start => cell'[o][k] = cell[o][k]
  BY <1>2, <1>4, <1>5, <1>6, CellSet
<1>8. UNCHANGED <<alias, digs, size0, neg0, fn, op, swapped, nl, ns, n, na, result, a, start, bits, Fresh>>
  BY <1>2, Frozen, Zenon DEF atCall, logicVars, shiftCall
<1>9. TypeOK'
  <2>1. i' \in 0 .. MaxSize
    BY <1>2, <1>4
  <2>2. size' = size /\ neg' = neg /\ pc' = pc
    BY <1>2
  <2>3. QED
    BY <2>1, <2>2, <1>1, <1>7, <1>8 DEF TypeOK
<1>10. Typed' /\ Calling'
  BY <1>1, <1>2, <1>9, TypedKept, CallingKept
<1>11. LShifting'
  <2>1. ASSUME NEW k \in 0 .. i - 1 PROVE cell'[a][k] = digs[a][k]
    <3>1. k \in Index /\ k # i + start /\ k \in 0 .. i
      BY <1>4 DEF Index
    <3>2. QED
      BY <3>1, <1>3, <1>4, <1>7
  <2>2. ASSUME Fresh, NEW k \in (i - 1) + start + 1 .. na + start
        PROVE  cell'[result][k] = LDigit(k)
    <3>1. k \in Index /\ (k = i + start \/ k \in i + start + 1 .. na + start)
      BY <1>4 DEF Index
    <3>2. CASE k = i + start
      BY <3>2, <1>5, <1>7
    <3>3. CASE k \in i + start + 1 .. na + start
      <4>1. k # i + start /\ cell[result][k] = LDigit(k)
        BY <2>2, <3>3, <1>3, <1>4
      <4>2. QED
        BY <3>1, <4>1, <1>4, <1>7
    <3>4. QED
      BY <3>1, <3>2, <3>3
  <2>3. \A k : LDigit(k)' = LDigit(k)
    BY FrozenDigits
  <2>4. size' = size /\ neg' = neg /\ i' = i - 1 /\ pc' = "lshift"
    BY <1>2
  <2>5. pc' # "lshift-top" /\ i - 1 <= na - 1
    BY <1>2, <1>4
  <2>6. QED
    BY <2>1, <2>2, <2>3, <2>4, <2>5, <1>3, <1>8 DEF LShifting
<1>12. pc' \notin {"rshift", "cleanup", "loop", "done"}
  BY <1>2
<1>13. RShifting' /\ Shifted' /\ Combining' /\ Answer'
  BY <1>12, Elsewhere
<1>14. QED
  BY <1>10, <1>11, <1>13 DEF IInv

LEMMA LShiftEndStep ==
    ASSUME IInv, [Next]_vars, fn = "lshift", LShiftEnd, UNCHANGED <<logicVars, fn>>
    PROVE  IInv'
<1> DEFINE low == lshift_safe(cell[a][0], bits)
           e == [j \in Index |-> IF j < start THEN 0 ELSE IF j = start THEN low ELSE cell[result][j]]
<1>1. /\ Typed /\ TypeOK /\ Calling /\ LShifting
  BY DEF IInv, Typed
<1>2. /\ pc = "lshift" /\ i = 0 /\ i' = i /\ pc' = "cleanup" /\ cell' = [cell EXCEPT ![result] = e]
      /\ UNCHANGED <<size, neg>> /\ UNCHANGED shiftCall
  BY DEF LShiftEnd
<1>3. /\ na = size0[a] /\ size[result] = na + start + 1 /\ neg[result] = neg0[a]
      /\ \A k \in 0 .. i : cell[a][k] = digs[a][k]
      /\ Fresh => \A k \in i + start + 1 .. na + start : cell[result][k] = LDigit(k)
  BY <1>1, <1>2 DEF LShifting
<1>4. /\ result \in Objs /\ a \in Objs /\ MaxSize \in Nat /\ start \in Nat /\ na \in 1 .. MaxSize
      /\ bits \in 0 .. W /\ W - bits \in 0 .. W /\ na + start + 1 <= MaxSize
      /\ start \in Index /\ 0 \in Index /\ 0 \in Digit
  <2>1. /\ result \in Objs /\ a \in Objs /\ MaxSize \in Nat /\ start \in Nat
        /\ na >= 1 /\ na \in Nat /\ na + start + 1 <= MaxSize /\ bits \in 0 .. W - 1 /\ W \in Nat
    BY <1>1, <1>3, CallFacts DEF Typed
  <2>2. 0 \in Digit
    BY BAssumption DEF Digit
  <2>3. QED
    BY <2>1, <2>2 DEF Index
<1>5. cell \in [Objs -> [Index -> Digit]] /\ cell[a][0] \in Digit /\ cell[result] \in [Index -> Digit]
  BY <1>1, <1>4 DEF TypeOK
<1>6. low \in Digit
  BY <1>4, <1>5, LShiftBits
<1>7. LDigit(start) = low
  <2>1. start - start - 1 = -1 /\ start - start = 0 /\ -1 \in Int /\ -1 < 0
    BY <1>4
  <2>2. OldDigit(-1) = 0
    BY <2>1, <1>1, OldDigits
  <2>3. OldDigit(0) = cell[a][0]
    <3>1. 0 \in Int /\ 0 >= 0 /\ 0 < size0[a] /\ 0 \in 0 .. i
      BY <1>2, <1>3, <1>4
    <3>2. QED
      BY <3>1, <1>1, <1>3, OldDigits
  <2>4. LDigit(start) = WordOr(rshift_safe(0, W - bits), low)
    BY <2>1, <2>2, <2>3 DEF LDigit
  <2> HIDE DEF low
  <2>5. QED
    BY <2>4, <1>4, <1>6, SafeZero, WordWithZero
<1> HIDE DEF low
<1>8. /\ e \in [Index -> Digit]
      /\ \A j \in Index : e[j] = IF j < start THEN 0 ELSE IF j = start THEN low ELSE cell[result][j]
  BY <1>4, <1>5, <1>6
<1> HIDE DEF e
<1>9. cell' \in [Objs -> [Index -> Digit]] /\ cell'[result] = e
  BY <1>2, <1>4, <1>5, <1>8, CellRow
<1>10. UNCHANGED <<alias, digs, size0, neg0, fn, op, swapped, nl, ns, n, na, result, a, start, bits, Fresh>>
  BY <1>2, Frozen, Zenon DEF atCall, logicVars, shiftCall
<1>11. TypeOK'
  <2>1. size' = size /\ neg' = neg /\ i' = i
    BY <1>2
  <2>2. QED
    BY <2>1, <1>1, <1>2, <1>9, <1>10 DEF TypeOK
<1>12. Typed' /\ Calling'
  BY <1>1, <1>2, <1>11, TypedKept, CallingKept
<1>13. Shifted'
  <2>1. ASSUME Fresh, NEW k \in 0 .. size[result] - 1
        PROVE  cell'[result][k] = LDigit(k)
    <3>1. k \in Index /\ k \in Int /\ (k < start \/ k = start \/ k \in i + start + 1 .. na + start)
      BY <1>2, <1>3, <1>4 DEF Index
    <3>2. CASE k < start
      <4>1. LDigit(k) = 0
        BY <3>1, <3>2, <1>1, LDigitOutside
      <4>2. QED
        BY <3>1, <3>2, <4>1, <1>8, <1>9
    <3>3. CASE k = start
      BY <3>1, <3>3, <1>4, <1>7, <1>8, <1>9
    <3>4. CASE k \in i + start + 1 .. na + start
      <4>1. ~(k < start) /\ k # start /\ cell[result][k] = LDigit(k)
        BY <2>1, <3>4, <1>2, <1>3, <1>4
      <4>2. QED
        BY <3>1, <4>1, <1>8, <1>9
    <3>5. QED
      BY <3>1, <3>2, <3>3, <3>4
  <2>2. \A k : LDigit(k)' = LDigit(k)
    BY FrozenDigits
  <2>3. size' = size /\ neg' = neg /\ fn' = "lshift" /\ fn' # "rshift"
    BY <1>2, <1>10
  <2>4. QED
    BY <2>1, <2>2, <2>3, <1>3, <1>10 DEF Shifted
<1>14. pc' \notin {"lshift-top", "lshift", "rshift", "loop", "done"}
  BY <1>2
<1>15. LShifting' /\ RShifting' /\ Combining' /\ Answer'
  BY <1>14, Elsewhere
<1>16. QED
  BY <1>12, <1>13, <1>15 DEF IInv

LEMMA RShiftCallStep ==
    ASSUME IInv, [Next]_vars, fn = "rshift", RShift, UNCHANGED <<logicVars, fn>>
    PROVE  IInv'
<1> DEFINE room == size[a] - start
           sz == IF size[result] >= room THEN size[result] ELSE room
<1>1. /\ Typed /\ TypeOK /\ Calling
  BY DEF IInv, Typed
<1>2. /\ pc = "call" /\ size[a] > start /\ neg' = [neg EXCEPT ![result] = neg[a]] /\ na' = size[a]
      /\ size' = [size EXCEPT ![result] = sz]
      /\ i' = start /\ pc' = "rshift" /\ cell' = cell /\ n' = n
  BY DEF RShift
<1>3. /\ cell = digs /\ size = size0 /\ neg = neg0
  BY <1>1, <1>2 DEF Calling
<1>4. /\ result \in Objs /\ a \in Objs /\ MaxSize \in Nat /\ start \in Nat /\ size0[a] \in 1 .. MaxSize
      /\ start < size0[a] /\ room = size0[a] - start
  <2>1. /\ result \in Objs /\ a \in Objs /\ MaxSize \in Nat /\ start \in Nat /\ size0[a] \in Nat
        /\ size0[a] >= 1 /\ size0[a] + start + 1 <= MaxSize
    BY <1>1, CallFacts DEF Typed
  <2>2. QED
    BY <2>1, <1>2, <1>3
<1>5. /\ cell \in [Objs -> [Index -> Digit]] /\ size \in [Objs -> 1 .. MaxSize] /\ neg \in [Objs -> BOOLEAN]
      /\ size[result] \in 1 .. MaxSize
  BY <1>1, <1>4 DEF TypeOK
<1>6. sz \in 1 .. MaxSize /\ sz >= size0[a] - start
  BY <1>4, <1>5
<1> HIDE DEF sz, room
<1>7. size' \in [Objs -> 1 .. MaxSize] /\ size'[result] = sz
  BY <1>2, <1>4, <1>5, <1>6
<1>8. neg' \in [Objs -> BOOLEAN] /\ neg'[result] = neg0[a]
  BY <1>2, <1>3, <1>4, <1>5
<1>9. na' = size0[a] /\ na' \in 0 .. MaxSize /\ i' \in 0 .. MaxSize
  BY <1>2, <1>3, <1>4
<1>10. UNCHANGED <<alias, digs, size0, neg0, fn, op, swapped, nl, ns, result, a, start, bits>>
  BY Frozen, Zenon DEF atCall, logicVars
<1>11. TypeOK'
  BY <1>1, <1>2, <1>5, <1>7, <1>8, <1>9, <1>10 DEF TypeOK
<1>12. Typed' /\ Calling'
  BY <1>1, <1>2, <1>11, TypedKept, CallingKept
<1>13. RShifting'
  <2>1. i' \in start .. na' - 1 /\ size'[result] >= na' - start
    BY <1>2, <1>4, <1>6, <1>7, <1>9
  <2>2. \A k \in i' .. na' - 1 : cell'[a][k] = digs[a][k]
    BY <1>2, <1>3
  <2>3. \A k \in 0 .. i' - start - 1 : cell'[result][k] = RDigit(k)'
    <3>1. i' - start - 1 = -1
      BY <1>2, <1>4
    <3>2. QED
      BY <3>1
  <2>4. QED
    BY <2>1, <2>2, <2>3, <1>8, <1>9, <1>10, Zenon DEF RShifting
<1>14. pc' \notin {"lshift-top", "lshift", "cleanup", "loop", "done"}
  BY <1>2
<1>15. LShifting' /\ Shifted' /\ Combining' /\ Answer'
  BY <1>14, Elsewhere
<1>16. QED
  BY <1>12, <1>13, <1>15 DEF IInv

LEMMA RShiftNothingStep ==
    ASSUME IInv, [Next]_vars, fn = "rshift", RShiftNothing, UNCHANGED <<logicVars, fn>>
    PROVE  IInv'
<1>1. /\ Typed /\ TypeOK /\ Calling
  BY DEF IInv, Typed
<1>2. /\ pc = "call" /\ n = 0 /\ result = a /\ pc' = "done" /\ cell' = cell /\ size' = size /\ neg' = neg
      /\ i' = i /\ UNCHANGED shiftCall
  BY Zenon DEF RShiftNothing, objects
<1>3. /\ cell = digs /\ size = size0 /\ neg = neg0
  BY <1>1, <1>2 DEF Calling
<1>4. /\ a \in Objs /\ MaxSize \in Nat /\ W \in Nat /\ MaxSize * W \in Nat
  BY <1>1, CallFacts DEF Typed
<1>5. UNCHANGED <<alias, digs, size0, neg0, fn, op, swapped, nl, ns, n, na, result, a, start, bits>>
  BY <1>2, Frozen, Zenon DEF atCall, logicVars, shiftCall
<1>6. TypeOK'
  BY <1>1, <1>2, <1>5 DEF TypeOK
<1>7. Typed' /\ Calling'
  BY <1>1, <1>2, <1>6, TypedKept, CallingKept
<1>8. ShiftedBy(n)'
  <2>1. \A p \in 0 .. MaxSize * W - 1 : p + n = p
    BY <1>2, <1>4
  <2>2. Canonical(cell'[result], size'[result], neg'[result])
    BY <1>1, <1>2, <1>3, <1>4 DEF Typed
  <2>3. neg'[result] = (neg0[a] /\ ~IsZero(cell'[result], size'[result]))
    <3>1. neg0[a] = (neg0[a] /\ ~IsZero(digs[a], size0[a]))
      BY <1>1, <1>4, CanonicalSign
    <3>2. QED
      BY <3>1, <1>2, <1>3
  <2>4. \A p \in 0 .. MaxSize * W - 1 :
            BitOf(cell'[result], size'[result], p) = BitOf(digs[a], size0[a], p + n)
    BY <2>1, <1>2, <1>3
  <2>5. QED
    BY <2>2, <2>3, <2>4, <1>5, Zenon DEF ShiftedBy
<1>9. Answer'
  <2>1. fn' = "rshift"
    BY <1>5
  <2>2. fn' # "lshift" /\ fn' # "logic"
    BY <2>1
  <2>3. QED
    BY <1>8, <2>2, Zenon DEF Answer, LShiftExact, RShiftExact, LogicExact
<1>10. LShifting' /\ RShifting' /\ Shifted' /\ Combining'
  BY <1>2, Elsewhere
<1>11. QED
  BY <1>7, <1>9, <1>10 DEF IInv

LEMMA RShiftStepStep ==
    ASSUME IInv, [Next]_vars, fn = "rshift", RShiftStep, UNCHANGED <<logicVars, fn>>
    PROVE  IInv'
<1> DEFINE v == WordOr(rshift_safe(cell[a][i], bits), lshift_safe(cell[a][i + 1], W - bits))
<1>1. /\ Typed /\ TypeOK /\ Calling /\ RShifting
  BY DEF IInv, Typed
<1>2. /\ pc = "rshift" /\ i < na - 1 /\ i' = i + 1 /\ pc' = pc
      /\ cell' = [cell EXCEPT ![result][i - start] = v]
      /\ UNCHANGED <<size, neg>> /\ UNCHANGED shiftCall
  BY DEF RShiftStep
<1>3. /\ na = size0[a] /\ i \in start .. na - 1 /\ size[result] >= na - start /\ neg[result] = neg0[a]
      /\ \A k \in i .. na - 1 : cell[a][k] = digs[a][k]
      /\ \A k \in 0 .. i - start - 1 : cell[result][k] = RDigit(k)
  BY <1>1, <1>2 DEF RShifting
<1>4. /\ result \in Objs /\ a \in Objs /\ MaxSize \in Nat /\ start \in Nat /\ na \in 1 .. MaxSize
      /\ i \in Nat /\ i >= start /\ i < na - 1 /\ i - start \in Index
      /\ i \in i .. na - 1 /\ i + 1 \in i .. na - 1
  <2>1. /\ result \in Objs /\ a \in Objs /\ MaxSize \in Nat /\ start \in Nat /\ na \in Nat /\ na >= 1
        /\ na + start + 1 <= MaxSize
    BY <1>1, <1>3, CallFacts DEF Typed
  <2>2. QED
    BY <2>1, <1>2, <1>3 DEF Index
<1>5. RDigit(i - start) = v /\ v \in Digit
  <2>1. i - start + start + 1 = i + 1 /\ i - start + start = i /\ i - start \in Int
    BY <1>4
  <2>2. OldDigit(i) = cell[a][i] /\ OldDigit(i + 1) = cell[a][i + 1]
    <3>1. i \in Int /\ i + 1 \in Int /\ i >= 0 /\ i < size0[a] /\ i + 1 >= 0 /\ i + 1 < size0[a]
      BY <1>3, <1>4
    <3>2. QED
      BY <3>1, <1>1, <1>3, <1>4, OldDigits
  <2>3. RDigit(i - start) = v
    BY <2>1, <2>2 DEF RDigit
  <2>4. QED
    BY <2>1, <2>3, <1>1, RDigitBits
<1> HIDE DEF v
<1>6. cell \in [Objs -> [Index -> Digit]]
  BY <1>1 DEF TypeOK
<1>7. /\ cell' \in [Objs -> [Index -> Digit]] /\ cell'[result][i - start] = v
      /\ \A o \in Objs, k \in Index : k # i - start => cell'[o][k] = cell[o][k]
  BY <1>2, <1>4, <1>5, <1>6, CellSet
<1>8. UNCHANGED <<alias, digs, size0, neg0, fn, op, swapped, nl, ns, n, na, result, a, start, bits>>
  BY <1>2, Frozen, Zenon DEF atCall, logicVars, shiftCall
<1>9. TypeOK'
  <2>1. i' \in 0 .. MaxSize
    BY <1>2, <1>4
  <2>2. size' = size /\ neg' = neg /\ pc' = pc
    BY <1>2
  <2>3. QED
    BY <2>1, <2>2, <1>1, <1>7, <1>8 DEF TypeOK
<1>10. Typed' /\ Calling'
  BY <1>1, <1>2, <1>9, TypedKept, CallingKept
<1>11. RShifting'
  <2>1. ASSUME NEW k \in i + 1 .. na - 1 PROVE cell'[a][k] = digs[a][k]
    <3>1. k \in Index /\ k # i - start /\ k \in i .. na - 1
      BY <1>4 DEF Index
    <3>2. QED
      BY <3>1, <1>3, <1>4, <1>7
  <2>2. ASSUME NEW k \in 0 .. (i + 1) - start - 1
        PROVE  cell'[result][k] = RDigit(k)
    <3>1. k \in Index /\ (k = i - start \/ k \in 0 .. i - start - 1)
      BY <1>4 DEF Index
    <3>2. CASE k = i - start
      BY <3>2, <1>5, <1>7
    <3>3. CASE k \in 0 .. i - start - 1
      <4>1. k # i - start /\ cell[result][k] = RDigit(k)
        BY <3>3, <1>3, <1>4
      <4>2. QED
        BY <3>1, <4>1, <1>4, <1>7
    <3>4. QED
      BY <3>1, <3>2, <3>3
  <2>3. \A k : RDigit(k)' = RDigit(k)
    BY FrozenDigits
  <2>4. size' = size /\ neg' = neg /\ i' = i + 1
    BY <1>2
  <2>5. i + 1 \in start .. na - 1
    BY <1>4
  <2>6. QED
    BY <2>1, <2>2, <2>3, <2>4, <2>5, <1>3, <1>8, Zenon DEF RShifting
<1>12. pc' \notin {"lshift-top", "lshift", "cleanup", "loop", "done"}
  BY <1>2
<1>13. LShifting' /\ Shifted' /\ Combining' /\ Answer'
  BY <1>12, Elsewhere
<1>14. QED
  BY <1>10, <1>11, <1>13 DEF IInv

LEMMA RShiftEndStep ==
    ASSUME IInv, [Next]_vars, fn = "rshift", RShiftEnd, UNCHANGED <<logicVars, fn>>
    PROVE  IInv'
<1> DEFINE v == rshift_safe(cell[a][na - 1], bits)
<1>1. /\ Typed /\ TypeOK /\ Calling /\ RShifting
  BY DEF IInv, Typed
<1>2. /\ pc = "rshift" /\ i = na - 1 /\ i' = i /\ pc' = "cleanup"
      /\ cell' = [cell EXCEPT ![result][na - start - 1] = v]
      /\ size' = [size EXCEPT ![result] = na - start]
      /\ neg' = neg /\ UNCHANGED shiftCall
  BY DEF RShiftEnd
<1>3. /\ na = size0[a] /\ i \in start .. na - 1 /\ neg[result] = neg0[a]
      /\ \A k \in i .. na - 1 : cell[a][k] = digs[a][k]
      /\ \A k \in 0 .. i - start - 1 : cell[result][k] = RDigit(k)
  BY <1>1, <1>2 DEF RShifting
<1>4. /\ result \in Objs /\ a \in Objs /\ MaxSize \in Nat /\ start \in Nat /\ na \in 1 .. MaxSize
      /\ na - 1 \in i .. na - 1 /\ na - start - 1 \in Index /\ na - 1 \in Index
      /\ bits \in 0 .. W /\ W - bits \in 0 .. W /\ na - start \in 1 .. MaxSize
  <2>1. /\ result \in Objs /\ a \in Objs /\ MaxSize \in Nat /\ start \in Nat /\ na \in Nat /\ na >= 1
        /\ na + start + 1 <= MaxSize /\ bits \in 0 .. W - 1 /\ W \in Nat
    BY <1>1, <1>3, CallFacts DEF Typed
  <2>2. QED
    BY <2>1, <1>2, <1>3 DEF Index
<1>5. cell \in [Objs -> [Index -> Digit]] /\ cell[a][na - 1] \in Digit
  BY <1>1, <1>4 DEF TypeOK
<1>6. v \in Digit
  BY <1>4, <1>5, RShiftBits
<1>7. RDigit(na - start - 1) = v
  <2>1. na - start - 1 + start + 1 = na /\ na - start - 1 + start = na - 1
    BY <1>4
  <2>2. OldDigit(na - 1) = cell[a][na - 1] /\ OldDigit(na) = 0
    <3>1. na - 1 \in Int /\ na \in Int /\ na - 1 >= 0 /\ na - 1 < size0[a] /\ na >= size0[a]
      BY <1>3, <1>4
    <3>2. QED
      BY <3>1, <1>1, <1>3, <1>4, OldDigits
  <2>3. RDigit(na - start - 1) = WordOr(v, lshift_safe(0, W - bits))
    BY <2>1, <2>2 DEF RDigit
  <2> HIDE DEF v
  <2>4. QED
    BY <2>3, <1>4, <1>6, SafeZero, WordWithZero
<1> HIDE DEF v
<1>8. /\ cell' \in [Objs -> [Index -> Digit]] /\ cell'[result][na - start - 1] = v
      /\ \A o \in Objs, k \in Index : k # na - start - 1 => cell'[o][k] = cell[o][k]
  BY <1>2, <1>4, <1>5, <1>6, CellSet
<1>9. size' \in [Objs -> 1 .. MaxSize] /\ size'[result] = na - start
  BY <1>1, <1>2, <1>4 DEF TypeOK
<1>10. UNCHANGED <<alias, digs, size0, neg0, fn, op, swapped, nl, ns, n, na, result, a, start, bits>>
  BY <1>2, Frozen, Zenon DEF atCall, logicVars, shiftCall
<1>11. TypeOK'
  BY <1>1, <1>2, <1>8, <1>9, <1>10 DEF TypeOK
<1>12. Typed' /\ Calling'
  BY <1>1, <1>2, <1>11, TypedKept, CallingKept
<1>13. Shifted'
  <2>1. ASSUME NEW k \in 0 .. (na - start) - 1 PROVE cell'[result][k] = RDigit(k)
    <3>1. k \in Index /\ (k = na - start - 1 \/ k \in 0 .. i - start - 1)
      BY <1>2, <1>4 DEF Index
    <3>2. CASE k = na - start - 1
      BY <3>2, <1>7, <1>8
    <3>3. CASE k \in 0 .. i - start - 1
      <4>1. k # na - start - 1 /\ cell[result][k] = RDigit(k)
        BY <3>3, <1>2, <1>3, <1>4
      <4>2. QED
        BY <3>1, <4>1, <1>4, <1>8
    <3>4. QED
      BY <3>1, <3>2, <3>3
  <2>2. \A k : RDigit(k)' = RDigit(k)
    BY FrozenDigits
  <2>3. fn' = "rshift" /\ fn' # "lshift" /\ fn' \in {"lshift", "rshift"}
    BY <1>10
  <2>4. QED
    BY <2>1, <2>2, <2>3, <1>2, <1>3, <1>9, <1>10 DEF Shifted
<1>14. pc' \notin {"lshift-top", "lshift", "rshift", "loop", "done"}
  BY <1>2
<1>15. LShifting' /\ RShifting' /\ Combining' /\ Answer'
  BY <1>14, Elsewhere
<1>16. QED
  BY <1>12, <1>13, <1>15 DEF IInv

LEMMA ShiftCleanupStep ==
    ASSUME IInv, [Next]_vars, fn # "logic", ShiftCleanup, UNCHANGED <<logicVars, fn>>
    PROVE  IInv'
<1> DEFINE d == cell[result]  k == size'[result]
<1>1. /\ Typed /\ TypeOK /\ Calling /\ Shifted
  BY DEF IInv, Typed
<1>2. pc = "cleanup" /\ Cleaned(d) /\ pc' = "done" /\ i' = i /\ UNCHANGED shiftCall
  BY Zenon DEF ShiftCleanup
<1>3. /\ neg[result] = neg0[a] /\ fn \in {"lshift", "rshift"}
      /\ fn = "lshift" =>
            /\ size[result] = size0[a] + start + 1
            /\ Fresh => \A j \in 0 .. size[result] - 1 : cell[result][j] = LDigit(j)
      /\ fn = "rshift" =>
            /\ size[result] = size0[a] - start
            /\ \A j \in 0 .. size[result] - 1 : cell[result][j] = RDigit(j)
  BY <1>1, <1>2 DEF Shifted
<1>4. /\ result \in Objs /\ a \in Objs /\ MaxSize \in Nat /\ start \in Nat /\ size0[a] \in Nat
  BY <1>1, CallFacts DEF Typed
<1>5. d \in [Index -> Digit] /\ size[result] \in 1 .. MaxSize
  BY <1>1, <1>4 DEF TypeOK
<1>6. /\ cell' \in [Objs -> [Index -> Digit]] /\ size' \in [Objs -> 1 .. MaxSize]
      /\ neg' \in [Objs -> BOOLEAN]
      /\ cell'[result] = d
      /\ k \in 1 .. size[result]
      /\ \A j \in k .. size[result] - 1 : d[j] = 0
      /\ Canonical(d, k, neg'[result])
      /\ neg'[result] = (neg[result] /\ ~IsZero(d, k))
  BY <1>1, <1>2, <1>4, <1>5, CleanedFacts
<1>7. UNCHANGED <<alias, digs, size0, neg0, fn, op, swapped, nl, ns, n, na, result, a, start, bits, Fresh>>
  BY <1>2, Frozen, Zenon DEF atCall, logicVars, shiftCall
<1>8. TypeOK'
  BY <1>1, <1>2, <1>6, <1>7 DEF TypeOK
<1>9. Typed' /\ Calling'
  BY <1>1, <1>2, <1>8, TypedKept, CallingKept
<1>10. ASSUME NEW j \in Index
       PROVE  /\ j \in Int
              /\ j \in 0 .. size[result] - 1 => DigitOf(d, k, j) = d[j]
              /\ j >= size[result] => DigitOf(d, k, j) = 0
  <2>1. j \in Nat /\ k \in Nat /\ k <= size[result] /\ size[result] \in Nat
    BY <1>4, <1>5, <1>6 DEF Index
  <2> HIDE DEF d, k
  <2>2. j >= size[result] => DigitOf(d, k, j) = 0
    BY <2>1 DEF DigitOf
  <2>3. j < k => DigitOf(d, k, j) = d[j]
    BY <2>1 DEF DigitOf
  <2>4. ~(j < k) /\ j < size[result] => DigitOf(d, k, j) = 0 /\ d[j] = 0
    BY <2>1, <1>6 DEF DigitOf
  <2>5. QED
    BY <2>1, <2>2, <2>3, <2>4
<1>11. k \in 1 .. MaxSize /\ cell'[result] \in [Index -> Digit]
  BY <1>4, <1>5, <1>6
<1>12. neg'[result] = (neg0[a] /\ ~IsZero(cell'[result], size'[result]))
  BY <1>3, <1>6
<1>13. fn = "lshift" /\ Fresh => ShiftedBy(0 - n)'
  <2> SUFFICES ASSUME fn = "lshift", Fresh PROVE ShiftedBy(0 - n)'
    OBVIOUS
  <2>1. ASSUME NEW j \in Index PROVE DigitOf(cell'[result], size'[result], j) = LDigit(j)
    <3>1. CASE j >= size[result]
      <4>1. j > size0[a] + start
        BY <3>1, <1>3, <1>4, <1>10
      <4>2. LDigit(j) = 0
        BY <4>1, <1>1, <1>10, LDigitOutside
      <4>3. QED
        BY <3>1, <4>2, <1>6, <1>10
    <3>2. CASE ~(j >= size[result])
      <4>1. j \in 0 .. size[result] - 1
        BY <3>2, <1>4, <1>5 DEF Index
      <4>2. QED
        BY <4>1, <1>3, <1>6, <1>10
    <3>3. QED
      BY <3>1, <3>2
  <2>2. QED
    BY <2>1, <1>1, <1>6, <1>11, <1>12, ShiftDone
<1>14. fn = "rshift" => ShiftedBy(n)'
  <2> SUFFICES ASSUME fn = "rshift" PROVE ShiftedBy(n)'
    OBVIOUS
  <2>1. ASSUME NEW j \in Index PROVE DigitOf(cell'[result], size'[result], j) = RDigit(j)
    <3>1. CASE j >= size[result]
      <4>1. j >= size0[a] - start
        BY <3>1, <1>3, <1>4, <1>10
      <4>2. RDigit(j) = 0
        BY <4>1, <1>1, <1>10, RDigitOutside
      <4>3. QED
        BY <3>1, <4>2, <1>6, <1>10
    <3>2. CASE ~(j >= size[result])
      <4>1. j \in 0 .. size[result] - 1
        BY <3>2, <1>4, <1>5 DEF Index
      <4>2. QED
        BY <4>1, <1>3, <1>6, <1>10
    <3>3. QED
      BY <3>1, <3>2
  <2>2. QED
    BY <2>1, <1>1, <1>6, <1>11, <1>12, ShiftDone
<1>15. Answer'
  <2>1. fn' # "logic" /\ fn' = fn /\ Fresh' = Fresh
    BY <1>7
  <2>2. QED
    BY <2>1, <1>13, <1>14, Zenon DEF Answer, LShiftExact, RShiftExact, LogicExact
<1>16. LShifting' /\ RShifting' /\ Shifted' /\ Combining'
  BY <1>2, Elsewhere
<1>17. QED
  BY <1>9, <1>15, <1>16 DEF IInv

----------------------------------------------------------------------------
(* The invariant along the steps of the bitwise operations.                  *)

(* The operation on two digits: its result is a digit, the order of the      *)
(* digits does not count, and what a missing digit does.                     *)
LEMMA WordOpFacts ==
    ASSUME op \in {"and", "or", "xor"}, NEW x \in Digit, NEW y \in Digit
    PROVE  /\ WordOp(x, y) \in Digit /\ WordOp(x, y) = WordOp(y, x)
           /\ op = "and" => WordOp(x, 0) = 0 /\ WordOp(0, x) = 0
           /\ op # "and" => WordOp(x, 0) = x /\ WordOp(0, x) = x
<1>1. /\ WordAnd(x, y) \in Digit /\ WordOr(x, y) \in Digit /\ WordXor(x, y) \in Digit
      /\ WordAnd(x, y) = WordAnd(y, x) /\ WordOr(x, y) = WordOr(y, x) /\ WordXor(x, y) = WordXor(y, x)
  BY WordBits, WordSymmetric
<1>2. /\ WordAnd(x, 0) = 0 /\ WordOr(x, 0) = x /\ WordXor(x, 0) = x
      /\ WordAnd(0, x) = 0 /\ WordOr(0, x) = x /\ WordXor(0, x) = x
  BY WordWithZero
<1>3. CASE op = "and"
  BY <1>1, <1>2, <1>3 DEF WordOp
<1>4. CASE op = "or"
  BY <1>1, <1>2, <1>4 DEF WordOp
<1>5. CASE op = "xor"
  BY <1>1, <1>2, <1>5 DEF WordOp
<1>6. QED
  BY <1>3, <1>4, <1>5

(* The digits that are combined.                                             *)
LEMMA OpDigits ==
    ASSUME Typed, NEW k \in Nat
    PROVE  /\ OpDigit(k) \in Digit
           /\ k < size0[a] /\ k < size0[b] =>
                  OpDigit(k) = WordOp(digs[a][k], digs[b][k]) /\ OpDigit(k) = WordOp(digs[b][k], digs[a][k])
           /\ op = "and" /\ (k >= size0[a] \/ k >= size0[b]) => OpDigit(k) = 0
           /\ op # "and" /\ k < size0[a] /\ k >= size0[b] => OpDigit(k) = digs[a][k]
           /\ op # "and" /\ k >= size0[a] /\ k < size0[b] => OpDigit(k) = digs[b][k]
           /\ op # "and" /\ k >= size0[a] /\ k >= size0[b] => OpDigit(k) = 0
<1>1. /\ digs[a] \in [Index -> Digit] /\ digs[b] \in [Index -> Digit]
      /\ size0[a] \in 0 .. MaxSize /\ size0[b] \in 0 .. MaxSize /\ size0[a] \in Nat /\ size0[b] \in Nat
      /\ op \in {"and", "or", "xor"} /\ k \in Int /\ k >= 0
  BY CallFacts DEF Typed, TypeOK
<1> DEFINE x == DigitOf(digs[a], size0[a], k)  y == DigitOf(digs[b], size0[b], k)
<1>2. /\ x \in Digit /\ (k >= size0[a] => x = 0) /\ (k < size0[a] => x = digs[a][k])
      /\ y \in Digit /\ (k >= size0[b] => y = 0) /\ (k < size0[b] => y = digs[b][k])
  BY <1>1, DigitOfIsDigit
<1>3. OpDigit(k) = WordOp(x, y)
  BY DEF OpDigit
<1> HIDE DEF x, y
<1>4. /\ WordOp(x, y) \in Digit /\ WordOp(x, y) = WordOp(y, x)
      /\ op = "and" => WordOp(x, 0) = 0 /\ WordOp(0, y) = 0
      /\ op # "and" => WordOp(x, 0) = x /\ WordOp(0, y) = y
  BY <1>1, <1>2, WordOpFacts
<1>5. QED
  BY <1>1, <1>2, <1>3, <1>4

LEMMA MinMax ==
    ASSUME NEW x \in Nat, NEW y \in Nat
    PROVE  /\ MinOf(x, y) \in {x, y} /\ MinOf(x, y) <= x /\ MinOf(x, y) <= y
           /\ MaxOf(x, y) \in {x, y} /\ MaxOf(x, y) >= x /\ MaxOf(x, y) >= y
           /\ MinOf(MinOf(x, y), y) = MinOf(x, y) /\ MinOf(x, MinOf(x, y)) = MinOf(x, y)
           /\ MinOf(x, y) <= MaxOf(x, y) /\ (x = y => MinOf(x, y) = x /\ MaxOf(x, y) = x)
  BY DEF MinOf, MaxOf

LEMMA CallStep ==
    ASSUME IInv, [Next]_vars, fn = "logic", Call, UNCHANGED <<shiftVars, fn>>
    PROVE  IInv'
<1> DEFINE sx == size0[a]  sy == size0[b]
           room == IF op = "and" THEN MinOf(size[a], size[b]) ELSE MaxOf(size[a], size[b])
           sized == [size EXCEPT ![result] = room]
           a2 == IF op = "and" THEN sized[a] ELSE size[a]
           b2 == sized[b]
<1>1. /\ Typed /\ TypeOK /\ Calling
  BY DEF IInv, Typed
<1>2. /\ pc = "call" /\ neg' = [neg EXCEPT ![result] = SignOp(IsNeg(a), IsNeg(b))]
      /\ size' = sized /\ swapped' = (b2 > a2)
      /\ nl' = MaxOf(a2, b2) /\ ns' = MinOf(a2, b2)
      /\ pc' = "loop" /\ cell' = cell /\ i' = i /\ op' = op
  BY DEF Call
<1>3. /\ cell = digs /\ size = size0 /\ neg = neg0 /\ i = 0 /\ (result = b => result = a)
  BY <1>1, <1>2 DEF Calling
<1>4. /\ result \in Objs /\ a \in Objs /\ b \in Objs /\ MaxSize \in Nat
      /\ sx \in 1 .. MaxSize /\ sy \in 1 .. MaxSize /\ sx \in Nat /\ sy \in Nat
  BY <1>1, CallFacts DEF Typed
<1>5. /\ cell \in [Objs -> [Index -> Digit]] /\ size \in [Objs -> 1 .. MaxSize] /\ neg \in [Objs -> BOOLEAN]
      /\ op \in {"and", "or", "xor"}
  BY <1>1 DEF TypeOK
<1>6. room = (IF op = "and" THEN MinOf(sx, sy) ELSE MaxOf(sx, sy)) /\ room \in 1 .. MaxSize
  <2>1. room = IF op = "and" THEN MinOf(sx, sy) ELSE MaxOf(sx, sy)
    BY <1>3
  <2>2. MinOf(sx, sy) \in {sx, sy} /\ MaxOf(sx, sy) \in {sx, sy}
    BY <1>4, MinMax
  <2>3. QED
    BY <2>1, <2>2, <1>4
<1> HIDE DEF room
<1>7. /\ sized \in [Objs -> 1 .. MaxSize] /\ sized[result] = room
      /\ \A o \in Objs : o # result => sized[o] = size0[o]
  BY <1>3, <1>4, <1>5, <1>6
<1>8. /\ a2 \in 0 .. MaxSize /\ b2 \in 0 .. MaxSize
      /\ MinOf(a2, b2) = MinOf(sx, sy)
      /\ op # "and" => a2 = sx /\ b2 = sy
  <2> DEFINE lo == MinOf(sx, sy)  hi == MaxOf(sx, sy)
  <2>1. /\ lo \in {sx, sy} /\ MinOf(lo, sy) = lo /\ MinOf(sx, lo) = lo
        /\ (sx = sy => lo = sx /\ hi = sx)
    BY <1>4, MinMax
  <2>2. CASE result = b
    <3>1. result = a /\ sx = sy
      BY <1>3, <2>2
    <3>2. room = sx /\ sized[a] = sx /\ sized[b] = sx
      BY <3>1, <2>1, <2>2, <1>6, <1>7
    <3>3. a2 = sx /\ b2 = sy
      BY <3>1, <3>2, <1>3
    <3>4. QED
      BY <3>3, <1>4
  <2>3. CASE result # b
    <3>1. b2 = sy
      BY <2>3, <1>4, <1>7
    <3>2. CASE op # "and"
      <4>1. a2 = sx
        BY <3>2, <1>3
      <4>2. QED
        BY <3>1, <4>1, <1>4
    <3>3. CASE op = "and" /\ result = a
      <4>1. a2 = lo
        BY <3>3, <1>6, <1>7
      <4>2. QED
        BY <3>1, <3>3, <4>1, <2>1, <1>4
    <3>4. CASE op = "and" /\ result # a
      <4>1. a2 = sx
        BY <3>4, <1>4, <1>7
      <4>2. QED
        BY <3>1, <3>4, <4>1, <1>4
    <3>5. QED
      BY <3>2, <3>3, <3>4
  <2>4. QED
    BY <2>2, <2>3
<1> HIDE DEF sized, a2, b2
<1>9. UNCHANGED <<alias, digs, size0, neg0, fn, op, n, na, result, a, b, start, bits>>
  BY Frozen, Zenon DEF atCall, shiftVars
<1>10. /\ MinOf(a2, b2) \in 0 .. MaxSize /\ MaxOf(a2, b2) \in 0 .. MaxSize /\ MinOf(a2, b2) <= MaxOf(a2, b2)
  <2>1. a2 \in Nat /\ b2 \in Nat
    BY <1>4, <1>8
  <2>2. QED
    BY <2>1, <1>8, MinMax
<1>11. neg' \in [Objs -> BOOLEAN] /\ neg'[result] = SignOp(neg0[a], neg0[b])
  <2>1. IsNeg(a) = neg0[a] /\ IsNeg(b) = neg0[b]
    <3>1. IsNeg(a) = (neg0[a] /\ ~IsZero(digs[a], size0[a])) /\ IsNeg(b) = (neg0[b] /\ ~IsZero(digs[b], size0[b]))
      BY <1>3, Zenon DEF IsNeg
    <3>2. QED
      BY <3>1, <1>1, <1>4, CanonicalSign
  <2>2. neg0[a] \in BOOLEAN /\ neg0[b] \in BOOLEAN
    BY <1>1, <1>4 DEF Typed
  <2>3. SignOp(neg0[a], neg0[b]) \in BOOLEAN
    <3>1. CASE op = "and"
      BY <3>1 DEF SignOp
    <3>2. CASE op = "or"
      BY <3>2 DEF SignOp
    <3>3. CASE op = "xor"
      BY <3>3 DEF SignOp
    <3>4. QED
      BY <1>5, <3>1, <3>2, <3>3
  <2> DEFINE sg == SignOp(neg0[a], neg0[b])
  <2>4. neg' = [neg EXCEPT ![result] = sg] /\ sg \in BOOLEAN
    BY <1>2, <2>1, <2>3
  <2> HIDE DEF sg
  <2>5. neg' \in [Objs -> BOOLEAN] /\ neg'[result] = sg
    BY <2>4, <1>4, <1>5
  <2>6. QED
    BY <2>5 DEF sg
<1>12. TypeOK'
  <2>1. swapped' \in BOOLEAN /\ nl' \in 0 .. MaxSize /\ ns' \in 0 .. MaxSize
    BY <1>2, <1>10
  <2>2. QED
    BY <2>1, <1>1, <1>2, <1>5, <1>7, <1>9, <1>11 DEF TypeOK
<1>13. Typed' /\ Calling'
  <2>1. pc' # "call" /\ pc' \in {"loop", "done"}
    BY <1>2
  <2>2. QED
    BY <2>1, <1>1, <1>12, TypedKept, CallingKept
<1>14. Combining'
  <2>1. ns' = MinOf(size0[a], size0[b]) /\ ns' <= nl'
    BY <1>2, <1>8, <1>10
  <2>2. op = "and" => size'[result] = ns' /\ i' <= ns'
    <3>1. ns' \in 0 .. MaxSize
      BY <1>2, <1>10
    <3>2. QED
      BY <3>1, <1>2, <1>3, <1>4, <1>6, <1>7, <1>8
  <2>3. op # "and" =>
            /\ nl' = MaxOf(size0[a], size0[b]) /\ size'[result] = nl' /\ i' <= nl'
            /\ swapped' = (size0[b] > size0[a])
    <3>1. nl' \in 0 .. MaxSize
      BY <1>2, <1>10
    <3>2. QED
      BY <3>1, <1>2, <1>3, <1>4, <1>6, <1>7, <1>8
  <2>4. \A k \in 0 .. i' - 1 : FALSE
    BY <1>2, <1>3
  <2>5. fn' = "logic" /\ neg'[result'] = SignOp(neg0[a], neg0[b])' /\ cell' = digs'
    <3>1. SignOp(neg0[a], neg0[b])' = SignOp(neg0[a], neg0[b])
      BY <1>9, Zenon DEF SignOp
    <3>2. QED
      BY <3>1, <1>2, <1>3, <1>9, <1>11
  <2>6. ns' = MinOf(size0[a], size0[b])' /\ (op # "and" => nl' = MaxOf(size0[a], size0[b])')
    BY <2>1, <2>3, <1>9
  <2>7. QED
    BY <2>1, <2>2, <2>3, <2>4, <2>5, <2>6, <1>9, Zenon DEF Combining
<1>15. pc' \notin {"lshift-top", "lshift", "rshift", "cleanup", "done"}
  BY <1>2
<1>16. LShifting' /\ RShifting' /\ Shifted' /\ Answer'
  BY <1>15, Elsewhere
<1>17. QED
  BY <1>13, <1>14, <1>16 DEF IInv

(* One digit of result written in the loops.                                 *)
LEMMA WriteStep ==
    ASSUME IInv, [Next]_vars, fn = "logic", pc = "loop", UNCHANGED <<size, neg, pc, na>>,
           UNCHANGED logicCall, UNCHANGED shiftVars, i' = i + 1,
           cell' = [cell EXCEPT ![result][i] = OpDigit(i)],
           op = "and" => i < ns, op # "and" => i < nl
    PROVE  IInv'
<1>1. /\ Typed /\ TypeOK /\ Calling /\ Combining
  BY DEF IInv, Typed
<1>2. /\ ns = MinOf(size0[a], size0[b]) /\ ns <= nl
      /\ neg[result] = SignOp(neg0[a], neg0[b])
      /\ op = "and" => size[result] = ns /\ i <= ns
      /\ op # "and" =>
            /\ nl = MaxOf(size0[a], size0[b]) /\ size[result] = nl /\ i <= nl
            /\ swapped = (size0[b] > size0[a])
            /\ \A k \in i .. nl - 1 : cell[long][k] = digs[long][k]
      /\ \A k \in i .. ns - 1 : cell[a][k] = digs[a][k] /\ cell[b][k] = digs[b][k]
      /\ \A k \in 0 .. i - 1 : cell[result][k] = OpDigit(k)
  BY <1>1, Zenon DEF Combining
<1>3. /\ result \in Objs /\ a \in Objs /\ b \in Objs /\ MaxSize \in Nat /\ long \in Objs
  BY <1>1, CallFacts DEF Typed, long
<1>4. /\ cell \in [Objs -> [Index -> Digit]] /\ i \in Nat /\ nl \in 0 .. MaxSize /\ ns \in 0 .. MaxSize
  BY <1>1, <1>3 DEF TypeOK
<1>5. i \in Index /\ i' \in 0 .. MaxSize /\ OpDigit(i) \in Digit
  <2>1. i < nl
    BY <1>2, <1>3, <1>4
  <2>2. i \in Index /\ i + 1 \in 0 .. MaxSize
    BY <2>1, <1>3, <1>4 DEF Index
  <2>3. QED
    BY <2>2, <1>1, <1>4, OpDigits
<1>6. /\ cell' \in [Objs -> [Index -> Digit]] /\ cell'[result][i] = OpDigit(i)
      /\ \A o \in Objs, k \in Index : k # i => cell'[o][k] = cell[o][k]
  BY <1>3, <1>4, <1>5, CellSet
<1>7. UNCHANGED <<alias, digs, size0, neg0, fn, op, swapped, nl, ns, n, na, result, a, b, long>>
  BY Frozen, Zenon DEF atCall, shiftVars, logicCall, long
<1>8. TypeOK'
  <2>1. size' = size /\ neg' = neg /\ pc' = pc
    OBVIOUS
  <2>2. QED
    BY <2>1, <1>1, <1>5, <1>6, <1>7 DEF TypeOK
<1>9. Typed' /\ Calling'
  <2>1. pc' # "call" /\ pc' \in {"loop", "done"}
    OBVIOUS
  <2>2. QED
    BY <2>1, <1>1, <1>8, TypedKept, CallingKept
<1>10. Combining'
  <2>1. ASSUME NEW o \in Objs, NEW m \in 0 .. MaxSize, NEW k \in i + 1 .. m - 1
        PROVE  cell'[o][k] = cell[o][k] /\ k \in i .. m - 1
    <3>1. k \in Index /\ k # i /\ k \in i .. m - 1
      BY <1>3, <1>4 DEF Index
    <3>2. QED
      BY <3>1, <1>6
  <2>2. ASSUME NEW k \in i + 1 .. ns - 1 PROVE cell'[a][k] = digs[a][k] /\ cell'[b][k] = digs[b][k]
    BY <2>1, <1>2, <1>3, <1>4
  <2>3. ASSUME op # "and", NEW k \in i + 1 .. nl - 1 PROVE cell'[long][k] = digs[long][k]
    BY <2>1, <2>3, <1>2, <1>3, <1>4
  <2>4. ASSUME NEW k \in 0 .. (i + 1) - 1 PROVE cell'[result][k] = OpDigit(k)
    <3>1. k = i \/ (k \in 0 .. i - 1 /\ k # i /\ k \in Index)
      BY <1>3, <1>4, <1>5 DEF Index
    <3>2. CASE k = i
      BY <3>2, <1>6
    <3>3. CASE k \in 0 .. i - 1 /\ k # i /\ k \in Index
      BY <3>3, <1>2, <1>3, <1>6
    <3>4. QED
      BY <3>1, <3>2, <3>3
  <2>5. \A k : OpDigit(k)' = OpDigit(k)
    BY FrozenDigits
  <2>6. (op = "and" => i + 1 <= ns) /\ (op # "and" => i + 1 <= nl)
    BY <1>4
  <2>7. SignOp(neg0[a], neg0[b])' = SignOp(neg0[a], neg0[b])
    BY <1>7, Zenon DEF SignOp
  <2>8. /\ MinOf(size0[a], size0[b])' = MinOf(size0[a], size0[b])
        /\ MaxOf(size0[a], size0[b])' = MaxOf(size0[a], size0[b])
    BY <1>7, Zenon
  <2>9. \A k \in 0 .. i' - 1 : cell'[result'][k] = OpDigit(k)'
    BY <2>4, <2>5, <1>7
  <2>10. QED
    BY <2>2, <2>3, <2>6, <2>7, <2>8, <2>9, <1>2, <1>7, Zenon DEF Combining
<1>11. pc' \notin {"lshift-top", "lshift", "rshift", "cleanup", "done"}
  OBVIOUS
<1>12. LShifting' /\ RShifting' /\ Shifted' /\ Answer'
  BY <1>11, Elsewhere
<1>13. QED
  BY <1>9, <1>10, <1>12 DEF IInv

LEMMA BothStep ==
    ASSUME IInv, [Next]_vars, fn = "logic", Both, UNCHANGED <<shiftVars, fn>>
    PROVE  IInv'
<1>1. /\ Typed /\ TypeOK /\ Combining
  BY DEF IInv, Typed
<1>2. /\ pc = "loop" /\ i < ns /\ i' = i + 1 /\ UNCHANGED <<size, neg, pc>> /\ UNCHANGED logicCall
      /\ cell' = [cell EXCEPT ![result][i] = WordOp(cell[long][i], cell[short][i])]
  BY Zenon DEF Both
<1>3. /\ ns = MinOf(size0[a], size0[b]) /\ ns <= nl
      /\ \A k \in i .. ns - 1 : cell[a][k] = digs[a][k] /\ cell[b][k] = digs[b][k]
  BY <1>1, <1>2, Zenon DEF Combining
<1>4. /\ size0[a] \in Nat /\ size0[b] \in Nat /\ i \in Nat /\ ns \in Nat /\ nl \in Nat
  <2>1. size0[a] \in Nat /\ size0[b] \in Nat /\ MaxSize \in Nat
    BY <1>1, CallFacts DEF Typed
  <2>2. QED
    BY <2>1, <1>1 DEF TypeOK
<1>5. i < size0[a] /\ i < size0[b] /\ i \in i .. ns - 1 /\ i < nl
  <2>1. ns <= size0[a] /\ ns <= size0[b]
    BY <1>3, <1>4, MinMax
  <2>2. QED
    BY <2>1, <1>2, <1>3, <1>4
<1>6. WordOp(cell[long][i], cell[short][i]) = OpDigit(i)
  <2>1. OpDigit(i) = WordOp(cell[a][i], cell[b][i]) /\ OpDigit(i) = WordOp(cell[b][i], cell[a][i])
    BY <1>1, <1>3, <1>4, <1>5, OpDigits
  <2>2. (long = a /\ short = b) \/ (long = b /\ short = a)
    BY DEF long, short
  <2>3. QED
    BY <2>1, <2>2
<1>7. UNCHANGED shiftVars /\ na' = na
  BY Zenon DEF shiftVars
<1>8. cell' = [cell EXCEPT ![result][i] = OpDigit(i)]
  BY <1>2, <1>6
<1>9. QED
  BY <1>2, <1>5, <1>7, <1>8, WriteStep

LEMMA RestStepStep ==
    ASSUME IInv, [Next]_vars, fn = "logic", Rest, UNCHANGED <<shiftVars, fn>>
    PROVE  IInv'
<1>1. /\ Typed /\ TypeOK /\ Combining
  BY DEF IInv, Typed
<1>2. /\ pc = "loop" /\ op # "and" /\ ns <= i /\ i < nl /\ i' = i + 1
      /\ UNCHANGED <<size, neg, pc>> /\ UNCHANGED logicCall
      /\ cell' = [cell EXCEPT ![result][i] = cell[long][i]]
  BY Zenon DEF Rest
<1>3. /\ ns = MinOf(size0[a], size0[b]) /\ nl = MaxOf(size0[a], size0[b])
      /\ swapped = (size0[b] > size0[a])
      /\ \A k \in i .. nl - 1 : cell[long][k] = digs[long][k]
  BY <1>1, <1>2, Zenon DEF Combining
<1>4. /\ size0[a] \in Nat /\ size0[b] \in Nat /\ i \in Nat /\ nl \in Nat
  <2>1. size0[a] \in Nat /\ size0[b] \in Nat /\ MaxSize \in Nat
    BY <1>1, CallFacts DEF Typed
  <2>2. QED
    BY <2>1, <1>1 DEF TypeOK
<1>5. cell[long][i] = digs[long][i]
  <2>1. i \in i .. nl - 1
    BY <1>2, <1>4
  <2>2. QED
    BY <2>1, <1>3
<1>6. OpDigit(i) = digs[long][i]
  <2>1. CASE size0[b] > size0[a]
    <3>1. long = b
      BY <2>1, <1>3, Zenon DEF long
    <3>2. i >= size0[a] /\ i < size0[b]
      BY <2>1, <1>2, <1>3, <1>4 DEF MinOf, MaxOf
    <3>3. QED
      BY <3>1, <3>2, <1>1, <1>2, <1>4, OpDigits
  <2>2. CASE ~(size0[b] > size0[a])
    <3>1. long = a
      BY <2>2, <1>3, Zenon DEF long
    <3>2. i >= size0[b] /\ i < size0[a]
      BY <2>2, <1>2, <1>3, <1>4 DEF MinOf, MaxOf
    <3>3. QED
      BY <3>1, <3>2, <1>1, <1>2, <1>4, OpDigits
  <2>3. QED
    BY <2>1, <2>2
<1>7. UNCHANGED shiftVars /\ na' = na
  BY Zenon DEF shiftVars
<1>8. cell' = [cell EXCEPT ![result][i] = OpDigit(i)]
  BY <1>2, <1>5, <1>6
<1>9. QED
  BY <1>2, <1>7, <1>8, WriteStep

LEMMA LogicCleanupStep ==
    ASSUME IInv, [Next]_vars, fn = "logic", LogicCleanup, UNCHANGED <<shiftVars, fn>>
    PROVE  IInv'
<1> DEFINE d == [j \in Index |-> IF i <= j /\ j < size[result] THEN 0 ELSE cell[result][j]]
           k == size'[result]
<1>1. /\ Typed /\ TypeOK /\ Calling /\ Combining
  BY DEF IInv, Typed
<1>2. /\ pc = "loop" /\ i >= ns /\ (op = "and" \/ i >= nl) /\ Cleaned(d) /\ pc' = "done"
      /\ i' = i /\ UNCHANGED logicCall
  BY Zenon DEF LogicCleanup
<1>3. /\ ns = MinOf(size0[a], size0[b]) /\ ns <= nl
      /\ neg[result] = SignOp(neg0[a], neg0[b])
      /\ op = "and" => size[result] = ns /\ i <= ns
      /\ op # "and" => nl = MaxOf(size0[a], size0[b]) /\ size[result] = nl /\ i <= nl
      /\ \A j \in 0 .. i - 1 : cell[result][j] = OpDigit(j)
  BY <1>1, <1>2, Zenon DEF Combining
<1>4. /\ result \in Objs /\ a \in Objs /\ MaxSize \in Nat /\ size0[a] \in Nat /\ size0[b] \in Nat
  BY <1>1, CallFacts DEF Typed
<1>5. /\ cell[result] \in [Index -> Digit] /\ size[result] \in 1 .. MaxSize /\ i \in Nat
      /\ ns \in Nat /\ nl \in Nat /\ 0 \in Digit
  <2>1. 0 \in Digit
    BY BAssumption DEF Digit
  <2>2. QED
    BY <2>1, <1>1, <1>4 DEF TypeOK
<1>6. /\ d \in [Index -> Digit]
      /\ \A j \in Index : d[j] = IF i <= j /\ j < size[result] THEN 0 ELSE cell[result][j]
  BY <1>5
<1> HIDE DEF d
<1>7. /\ cell' \in [Objs -> [Index -> Digit]] /\ size' \in [Objs -> 1 .. MaxSize]
      /\ neg' \in [Objs -> BOOLEAN]
      /\ cell'[result] = d
      /\ k \in 1 .. size[result]
      /\ \A j \in k .. size[result] - 1 : d[j] = 0
      /\ Canonical(d, k, neg'[result])
      /\ neg'[result] = (neg[result] /\ ~IsZero(d, k))
  BY <1>1, <1>2, <1>4, <1>6, CleanedFacts
<1>8. UNCHANGED <<alias, digs, size0, neg0, fn, op, swapped, nl, ns, n, na, result, a, b>>
  BY <1>2, Frozen, Zenon DEF atCall, shiftVars, logicCall
<1>9. TypeOK'
  BY <1>1, <1>2, <1>7, <1>8 DEF TypeOK
<1>10. Typed' /\ Calling'
  <2>1. pc' # "call" /\ pc' \in {"loop", "done"}
    BY <1>2
  <2>2. QED
    BY <2>1, <1>1, <1>9, TypedKept, CallingKept
<1>11. /\ i = size[result]
       /\ op = "and" => i = MinOf(size0[a], size0[b])
       /\ op # "and" => i = MaxOf(size0[a], size0[b])
  BY <1>2, <1>3, <1>5
<1>12. ASSUME NEW j \in Index PROVE DigitOf(d, k, j) = OpDigit(j)
  <2>1. j \in Nat /\ k \in Nat /\ k <= size[result] /\ size[result] \in Nat
    BY <1>4, <1>5, <1>7 DEF Index
  <2> HIDE DEF k
  <2>2. CASE j < size[result]
    <3>1. d[j] = OpDigit(j)
      <4>1. j \in 0 .. i - 1 /\ ~(i <= j)
        BY <2>1, <2>2, <1>11
      <4>2. QED
        BY <4>1, <1>3, <1>6
    <3>2. CASE j < k
      BY <3>1, <3>2, <2>1 DEF DigitOf
    <3>3. CASE ~(j < k)
      <4>1. d[j] = 0 /\ DigitOf(d, k, j) = 0
        BY <2>1, <2>2, <3>3, <1>7 DEF DigitOf
      <4>2. QED
        BY <3>1, <4>1
    <3>4. QED
      BY <3>2, <3>3
  <2>3. CASE ~(j < size[result])
    <3>1. DigitOf(d, k, j) = 0
      BY <2>1, <2>3 DEF DigitOf
    <3>2. CASE op = "and"
      <4>1. j >= size0[a] \/ j >= size0[b]
        BY <2>1, <2>3, <3>2, <1>4, <1>11 DEF MinOf
      <4>2. QED
        BY <2>1, <3>1, <3>2, <4>1, <1>1, OpDigits
    <3>3. CASE op # "and"
      <4>1. j >= size0[a] /\ j >= size0[b]
        BY <2>1, <2>3, <3>3, <1>4, <1>11 DEF MaxOf
      <4>2. QED
        BY <2>1, <3>1, <3>3, <4>1, <1>1, OpDigits
    <3>4. QED
      BY <3>2, <3>3
  <2>4. QED
    BY <2>2, <2>3
<1>13. LogicDone'
  <2>1. SignOp(neg0[a], neg0[b])' = SignOp(neg0[a], neg0[b])
    BY <1>8, Zenon DEF SignOp
  <2>2. \A j : WordOp(DigitOf(digs[a], size0[a], j), DigitOf(digs[b], size0[b], j))' = OpDigit(j)
    BY <1>8, Zenon DEF OpDigit, WordOp
  <2>3. \A j \in Index : DigitOf(cell'[result'], size'[result'], j)
            = WordOp(DigitOf(digs[a], size0[a], j), DigitOf(digs[b], size0[b], j))'
    BY <2>2, <1>7, <1>8, <1>12
  <2>4. neg'[result'] = (SignOp(neg0[a], neg0[b])' /\ ~IsZero(cell'[result'], size'[result']))
    BY <2>1, <1>3, <1>7, <1>8, Zenon
  <2>5. Canonical(cell'[result'], size'[result'], neg'[result'])
    BY <1>7, <1>8
  <2>6. QED
    BY <2>3, <2>4, <2>5, Zenon DEF LogicDone
<1>14. Answer'
  <2>1. fn' = "logic"
    BY <1>8
  <2>2. fn' # "lshift" /\ fn' # "rshift"
    BY <2>1
  <2>3. QED
    BY <2>2, <1>13, Zenon DEF Answer, LShiftExact, RShiftExact, LogicExact
<1>15. LShifting' /\ RShifting' /\ Shifted' /\ Combining'
  BY <1>2, Elsewhere
<1>16. QED
  BY <1>10, <1>14, <1>15 DEF IInv

----------------------------------------------------------------------------
LEMMA InitInv ==
    ASSUME Init
    PROVE  IInv
<1>1. StorageInit /\ fn \in {"lshift", "rshift", "logic"} /\ pc = "call" /\ i = 0
      /\ digs = cell /\ size0 = size /\ neg0 = neg
  BY DEF Init, ShiftInit, LogicInit, StorageInit
<1>2. /\ n \in 0 .. MaxShift /\ na = 0 /\ op \in {"and", "or", "xor"} /\ swapped \in BOOLEAN
      /\ nl = 0 /\ ns = 0 /\ (fn = "logic" => (result = b => result = a))
  <2>1. CASE fn \in {"lshift", "rshift"} /\ ShiftInit /\ NoLogic
    BY <2>1 DEF ShiftInit, NoLogic
  <2>2. CASE fn = "logic" /\ LogicInit /\ NoShift
    <3>1. 0 \in 0 .. MaxShift
      BY ShiftAssumption
    <3>2. op \in {"and", "or", "xor"} /\ swapped = FALSE /\ nl = 0 /\ ns = 0 /\ (result = b => result = a)
      BY <2>2, Zenon DEF LogicInit
    <3>3. QED
      BY <2>2, <3>1, <3>2 DEF NoShift
  <2>3. QED
    BY <2>1, <2>2 DEF Init
<1>3. /\ alias \in Aliasings /\ cell \in [Objs -> [Index -> Digit]] /\ size \in [Objs -> 1 .. MaxDigits]
      /\ neg \in [Objs -> BOOLEAN] /\ \A o \in Objs : Canonical(cell[o], size[o], neg[o])
  BY <1>1 DEF StorageInit
<1>4. MaxSize \in Nat /\ MaxDigits \in Nat /\ MaxDigits <= MaxSize
  BY StorageAssumption
<1>5. size \in [Objs -> 1 .. MaxSize]
  BY <1>3, <1>4
<1>6. TypeOK
  BY <1>1, <1>2, <1>3, <1>4, <1>5 DEF TypeOK
<1>7. Typed
  BY <1>1, <1>3, <1>6, Zenon DEF Typed
<1>8. Calling
  BY <1>1, <1>2 DEF Calling
<1>9. LShifting /\ RShifting /\ Shifted /\ Combining /\ Answer
  BY <1>1 DEF LShifting, RShifting, Shifted, Combining, Answer, LShiftExact, RShiftExact, LogicExact
<1>10. QED
  BY <1>7, <1>8, <1>9 DEF IInv

(* A step that changes nothing.                                              *)
LEMMA StutterStep ==
    ASSUME IInv, UNCHANGED vars
    PROVE  IInv'
<1>1. /\ cell' = cell /\ size' = size /\ neg' = neg /\ pc' = pc /\ i' = i
      /\ alias' = alias /\ digs' = digs /\ size0' = size0 /\ neg0' = neg0 /\ n' = n /\ na' = na
      /\ op' = op /\ swapped' = swapped /\ nl' = nl /\ ns' = ns /\ fn' = fn
  BY Zenon DEF vars, atCall, shiftVars, logicVars
<1>2. /\ UNCHANGED <<result, a, b, start, bits, Fresh, long>>
      /\ \A k : LDigit(k)' = LDigit(k)
      /\ \A k : RDigit(k)' = RDigit(k)
      /\ \A k : OpDigit(k)' = OpDigit(k)
  BY <1>1, Frozen, FrozenDigits, Zenon DEF long
<1>3. Typed' /\ Calling'
  BY <1>1, <1>2, Zenon DEF IInv, Typed, TypeOK, Calling
<1>4. LShifting' /\ RShifting' /\ Shifted'
  BY <1>1, <1>2, Zenon DEF IInv, LShifting, RShifting, Shifted
<1>5. Combining'
  <2>1. SignOp(neg0[a], neg0[b])' = SignOp(neg0[a], neg0[b])
    BY <1>1, <1>2, Zenon DEF SignOp
  <2>2. QED
    BY <1>1, <1>2, <2>1, Zenon DEF IInv, Combining
<1>6. Answer'
  <2>1. ShiftedBy(0 - n)' <=> ShiftedBy(0 - n)
    BY <1>1, <1>2, Zenon DEF ShiftedBy
  <2>2. ShiftedBy(n)' <=> ShiftedBy(n)
    BY <1>1, <1>2, Zenon DEF ShiftedBy
  <2>3. LogicDone' <=> LogicDone
    BY <1>1, <1>2, Zenon DEF LogicDone, SignOp, WordOp
  <2>4. QED
    BY <1>1, <1>2, <2>1, <2>2, <2>3, Zenon DEF IInv, Answer, LShiftExact, RShiftExact, LogicExact
<1>7. QED
  BY <1>3, <1>4, <1>5, <1>6 DEF IInv

LEMMA NextInv ==
    ASSUME IInv, [Next]_vars
    PROVE  IInv'
<1>1. CASE fn = "lshift" /\ LShiftNext /\ UNCHANGED <<logicVars, fn>>
  <2>1. CASE LShiftZero
    BY <1>1, <2>1, LShiftZeroStep
  <2>2. CASE LShift
    BY <1>1, <2>2, LShiftCallStep
  <2>3. CASE LShiftTop
    BY <1>1, <2>3, LShiftTopStep
  <2>4. CASE LShiftStep
    BY <1>1, <2>4, LShiftStepStep
  <2>5. CASE LShiftEnd
    BY <1>1, <2>5, LShiftEndStep
  <2>6. QED
    BY <1>1, <2>1, <2>2, <2>3, <2>4, <2>5, Zenon DEF LShiftNext
<1>2. CASE fn = "rshift" /\ RShiftNext /\ UNCHANGED <<logicVars, fn>>
  <2>1. CASE RShiftZero
    BY <1>2, <2>1, RShiftZeroStep
  <2>2. CASE RShift
    BY <1>2, <2>2, RShiftCallStep
  <2>3. CASE RShiftNothing
    BY <1>2, <2>3, RShiftNothingStep
  <2>4. CASE RShiftStep
    BY <1>2, <2>4, RShiftStepStep
  <2>5. CASE RShiftEnd
    BY <1>2, <2>5, RShiftEndStep
  <2>6. QED
    BY <1>2, <2>1, <2>2, <2>3, <2>4, <2>5, Zenon DEF RShiftNext
<1>3. CASE fn # "logic" /\ ShiftCleanup /\ UNCHANGED <<logicVars, fn>>
  BY <1>3, ShiftCleanupStep
<1>4. CASE fn = "logic" /\ LogicNext /\ UNCHANGED <<shiftVars, fn>>
  <2>1. CASE Call
    BY <1>4, <2>1, CallStep
  <2>2. CASE Both
    BY <1>4, <2>2, BothStep
  <2>3. CASE Rest
    BY <1>4, <2>3, RestStepStep
  <2>4. CASE LogicCleanup
    BY <1>4, <2>4, LogicCleanupStep
  <2>5. QED
    BY <1>4, <2>1, <2>2, <2>3, <2>4, Zenon DEF LogicNext
<1>5. CASE UNCHANGED vars
  BY <1>5, StutterStep
<1>6. QED
  BY <1>1, <1>2, <1>3, <1>4, <1>5, Zenon DEF Next

(* The digits of an operand that a loop has not read are those of the call.  *)
LEMMA NothingLost ==
    ASSUME IInv
    PROVE  UnreadIntact
<1>1. Typed /\ LShifting /\ RShifting /\ Combining
  BY DEF IInv
<1>2. ShiftUnreadIntact
  <2>1. ASSUME pc = "lshift-top", NEW j \in 0 .. na - 1 PROVE cell[a][j] = digs[a][j]
    BY <1>1, <2>1 DEF LShifting
  <2>2. ASSUME pc = "lshift", NEW j \in 0 .. i PROVE cell[a][j] = digs[a][j]
    BY <1>1, <2>2 DEF LShifting
  <2>3. ASSUME pc = "rshift", NEW j \in i .. na - 1 PROVE cell[a][j] = digs[a][j]
    BY <1>1, <2>3 DEF RShifting
  <2>4. pc = "lshift-top" => pc # "lshift"
    OBVIOUS
  <2>5. QED
    BY <2>1, <2>2, <2>3, <2>4 DEF ShiftUnreadIntact
<1>3. LogicUnreadIntact
  <2> SUFFICES ASSUME pc = "loop" PROVE LogicUnreadIntact
    BY DEF LogicUnreadIntact
  <2>1. /\ ns = MinOf(size0[a], size0[b]) /\ ns <= nl
        /\ op # "and" =>
              /\ nl = MaxOf(size0[a], size0[b])
              /\ swapped = (size0[b] > size0[a])
              /\ \A k \in i .. nl - 1 : cell[long][k] = digs[long][k]
        /\ \A k \in i .. ns - 1 : cell[a][k] = digs[a][k] /\ cell[b][k] = digs[b][k]
    BY <1>1, Zenon DEF Combining
  <2>2. size0[a] \in Nat /\ size0[b] \in Nat /\ i \in Nat /\ ns \in Nat /\ nl \in Nat
    <3>1. size0[a] \in Nat /\ size0[b] \in Nat /\ MaxSize \in Nat
      BY <1>1, CallFacts DEF Typed
    <3>2. QED
      BY <3>1, <1>1 DEF Typed, TypeOK
  <2>3. (long = a /\ short = b) \/ (long = b /\ short = a)
    BY DEF long, short
  <2>4. ns <= size0[a] /\ ns <= size0[b]
    BY <2>1, <2>2, MinMax
  <2>5. ASSUME NEW j \in i .. ns - 1
        PROVE  /\ j < size0[short] /\ cell[short][j] = digs[short][j]
               /\ j < size0[long] /\ cell[long][j] = digs[long][j]
    <3>1. j < size0[a] /\ j < size0[b] /\ cell[a][j] = digs[a][j] /\ cell[b][j] = digs[b][j]
      BY <2>1, <2>2, <2>4
    <3>2. QED
      BY <3>1, <2>3
  <2>6. ASSUME op # "and", NEW j \in i .. nl - 1
        PROVE  j < size0[long] /\ cell[long][j] = digs[long][j]
    <3>1. j < nl /\ j \in Int
      BY <2>2
    <3>2. size0[long] = nl
      <4>1. CASE size0[b] > size0[a]
        <5>1. long = b
          BY <2>1, <2>6, <4>1, Zenon DEF long
        <5>2. QED
          BY <5>1, <4>1, <2>1, <2>2, <2>6 DEF MaxOf
      <4>2. CASE ~(size0[b] > size0[a])
        <5>1. long = a
          BY <2>1, <2>6, <4>2, Zenon DEF long
        <5>2. QED
          BY <5>1, <4>2, <2>1, <2>2, <2>6 DEF MaxOf
      <4>3. QED
        BY <4>1, <4>2
    <3>3. QED
      BY <2>1, <2>6, <3>1, <3>2
  <2>7. QED
    BY <2>1, <2>5, <2>6 DEF LogicUnreadIntact
<1>4. QED
  BY <1>2, <1>3 DEF UnreadIntact

(* The invariant holds in every behaviour, of both shifts into any result    *)
(* and of the bitwise operations.                                            *)
THEOREM Inductive == Spec => []IInv
<1>1. Init => IInv
  BY InitInv
<1>2. IInv /\ [Next]_vars => IInv'
  BY NextInv
<1>3. QED
  BY <1>1, <1>2, PTL DEF Spec

(* The program places, the sizes, the digits and the counters stay in their  *)
(* ranges: resize makes room for every digit the shifts write.               *)
THEOREM TypeCorrect == Spec => []TypeOK
<1>1. IInv => TypeOK
  BY DEF IInv, Typed
<1>2. QED
  BY <1>1, Inductive, PTL

(* No shift and no bitwise operation on an object in place reads a digit it  *)
(* has overwritten or one that resize added.                                 *)
THEOREM InPlaceSafe == Spec => []UnreadIntact
<1>1. IInv => UnreadIntact
  BY NothingLost
<1>2. QED
  BY <1>1, Inductive, PTL

(* rshift, whatever result held, and the bitwise operations are exact.       *)
THEOREM RShiftAndLogicExact == Spec => [](RShiftExact /\ LogicExact)
<1>1. IInv => RShiftExact /\ LogicExact
  BY DEF IInv, Answer
<1>2. QED
  BY <1>1, Inductive, PTL

(* With the new result << gives lshift, every bit of the result of a shift   *)
(* or of a bitwise operation is the one the operation says, in place or not. *)
THEOREM ExactBits == OperatorSpec => []BitsExact
<1>1. OperatorInit => IInv /\ Fresh
  <2> SUFFICES ASSUME OperatorInit PROVE IInv /\ Fresh
    OBVIOUS
  <2>1. Init /\ NewResult
    BY DEF OperatorInit
  <2>2. digs = cell /\ size0 = size
    BY <2>1 DEF Init, ShiftInit, LogicInit, StorageInit
  <2>3. Fresh
    BY <2>1, <2>2, Zenon DEF Fresh, NewResult
  <2>4. QED
    BY <2>1, <2>3, InitInv
<1>2. IInv /\ Fresh /\ [Next]_vars => (IInv /\ Fresh)'
  <2> SUFFICES ASSUME IInv, Fresh, [Next]_vars PROVE IInv' /\ Fresh'
    OBVIOUS
  <2>1. Fresh' = Fresh
    BY Frozen
  <2>2. QED
    BY <2>1, NextInv
<1>3. IInv /\ Fresh => BitsExact
  BY Zenon DEF IInv, Answer, BitsExact
<1>4. QED
  BY <1>1, <1>2, <1>3, PTL DEF OperatorSpec
=============================================================================
