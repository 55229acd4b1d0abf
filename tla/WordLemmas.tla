---------------------------- MODULE WordLemmas ----------------------------
(* Facts the proofs share: induction over the natural numbers in the form of *)
(* facts about sets and functions; what the bodies of the digit loops        *)
(* compute; what stored digits stand for; products, quotients and weights.   *)
EXTENDS Places, WellFoundedInduction, TLAPS

(* A nonempty set of natural numbers has a least element.                    *)
LEMMA LeastNat ==
    ASSUME NEW T, T \subseteq Nat, T # {}
    PROVE  \E x \in T : \A y \in T : x <= y
<1> DEFINE R == {p \in Nat \X Nat : p[1] < p[2]}
<1>1. IsWellFoundedOn(R, Nat)
  BY NatLessThanWellFounded, Zenon DEF OpToRel
<1>2. PICK x \in T : \A y \in T : ~(<<y, x>> \in R)
  BY <1>1, WFMin
<1>3. ASSUME NEW y \in T PROVE x <= y
  <2>1. x \in Nat /\ y \in Nat
    OBVIOUS
  <2>2. ~(y < x)
    BY <1>2, <2>1
  <2>3. QED
    BY <2>1, <2>2
<1>4. QED
  BY <1>3

(* A set with 0 that is closed under successors below n has all numbers up   *)
(* to n.                                                                     *)
LEMMA BoundedInduction ==
    ASSUME NEW n \in Nat, NEW S, 0 \in S,
           \A k \in 0 .. n - 1 : k \in S => k + 1 \in S
    PROVE  0 .. n \subseteq S
<1> SUFFICES ASSUME (0 .. n) \ S # {} PROVE FALSE
  OBVIOUS
<1> DEFINE T == (0 .. n) \ S
<1>1. T \subseteq Nat
  OBVIOUS
<1>2. PICK x \in T : \A y \in T : x <= y
  BY <1>1, LeastNat
<1>3. x \in Nat /\ x # 0 /\ x <= n /\ x \notin S
  OBVIOUS
<1>4. x - 1 \in 0 .. n - 1 /\ x - 1 \in 0 .. n /\ (x - 1) + 1 = x /\ ~(x <= x - 1)
  BY <1>3
<1>5. x - 1 \in S
  BY <1>2, <1>4
<1>6. QED
  BY <1>3, <1>4, <1>5

(* The same without a bound.                                                 *)
LEMMA SetInduction ==
    ASSUME NEW S, 0 \in S, \A k \in Nat : k \in S => k + 1 \in S
    PROVE  Nat \subseteq S
<1> SUFFICES ASSUME NEW n \in Nat PROVE n \in S
  OBVIOUS
<1>1. \A k \in 0 .. n - 1 : k \in S => k + 1 \in S
  OBVIOUS
<1>2. 0 .. n \subseteq S
  BY <1>1, BoundedInduction
<1>3. QED
  BY <1>2

(* Primitive recursion up to n defines a function; st[k] makes its value     *)
(* at k from the one at k - 1.                                               *)
LEMMA RecursionExists ==
    ASSUME NEW S, NEW s0 \in S, NEW n \in Nat, NEW st \in [1 .. n -> [S -> S]]
    PROVE  \E g \in [0 .. n -> S] :
               g[0] = s0 /\ \A k \in 1 .. n : g[k] = st[k][g[k - 1]]
<1> DEFINE Defined(m, g) == g[0] = s0 /\ \A k \in 1 .. m : g[k] = st[k][g[k - 1]]
           M == {m \in 0 .. n : \E g \in [0 .. m -> S] : Defined(m, g)}
<1>1. 0 \in M
  <2>1. [k \in 0 .. 0 |-> s0] \in [0 .. 0 -> S] /\ Defined(0, [k \in 0 .. 0 |-> s0])
    OBVIOUS
  <2> HIDE DEF Defined
  <2>2. \E g \in [0 .. 0 -> S] : Defined(0, g)
    BY <2>1
  <2>3. 0 \in 0 .. n
    OBVIOUS
  <2>4. QED
    BY <2>2, <2>3
<1>2. ASSUME NEW m \in 0 .. n - 1, m \in M PROVE m + 1 \in M
  <2>1. m + 1 \in 1 .. n /\ m + 1 \in 0 .. n /\ m \in 0 .. m
    OBVIOUS
  <2>2. PICK g \in [0 .. m -> S] : Defined(m, g)
    BY <1>2
  <2> DEFINE h == [k \in 0 .. m + 1 |-> IF k <= m THEN g[k] ELSE st[m + 1][g[m]]]
  <2>3. g[m] \in S /\ st[m + 1] \in [S -> S] /\ st[m + 1][g[m]] \in S
    BY <2>1
  <2>4. h \in [0 .. m + 1 -> S]
    BY <2>3
  <2>5. ASSUME NEW k \in 1 .. m + 1
        PROVE  h[k] = st[k][h[k - 1]]
    <3>1. CASE k <= m
      <4>1. k \in 1 .. m /\ k \in 0 .. m + 1 /\ k - 1 \in 0 .. m /\ k - 1 \in 0 .. m + 1
        BY <3>1
      <4>2. h[k] = g[k] /\ h[k - 1] = g[k - 1]
        BY <4>1
      <4>3. g[k] = st[k][g[k - 1]]
        BY <2>2, <4>1
      <4>4. QED
        BY <4>2, <4>3
    <3>2. CASE k = m + 1
      <4>1. h[k] = st[m + 1][g[m]] /\ h[m] = g[m] /\ k - 1 = m
        BY <3>2
      <4>2. QED
        BY <3>2, <4>1
    <3>3. QED
      BY <3>1, <3>2
  <2>6. Defined(m + 1, h)
    BY <2>2, <2>5
  <2>7. QED
    BY <2>1, <2>4, <2>6
<1>3. n \in M
  <2> HIDE DEF M
  <2>1. 0 .. n \subseteq M
    BY <1>1, <1>2, BoundedInduction
  <2>2. QED
    BY <2>1
<1>4. QED
  BY <1>3

(* A running sum of integers is a function, the only one with its equation.  *)
LEMMA SumExists ==
    ASSUME NEW n \in Nat, NEW t, \A k \in 1 .. n : t[k] \in Int
    PROVE  \E g \in [0 .. n -> Int] :
               g[0] = 0 /\ \A k \in 1 .. n : g[k] = g[k - 1] + t[k]
<1> DEFINE II == Int
           st == [k \in 1 .. n |-> [s \in II |-> s + t[k]]]
<1>1. st \in [1 .. n -> [II -> II]] /\ 0 \in II
  OBVIOUS
<1>2. ASSUME NEW k \in 1 .. n, NEW s \in Int PROVE st[k][s] = s + t[k]
  OBVIOUS
<1> HIDE DEF II, st
<1>3. PICK g \in [0 .. n -> II] : g[0] = 0 /\ \A k \in 1 .. n : g[k] = st[k][g[k - 1]]
  BY <1>1, RecursionExists
<1>4. g \in [0 .. n -> Int]
  BY DEF II
<1>5. ASSUME NEW k \in 1 .. n
      PROVE  g[k] = g[k - 1] + t[k]
  <2>1. k - 1 \in 0 .. n /\ g[k - 1] \in Int /\ g[k] = st[k][g[k - 1]]
    BY <1>3, <1>4
  <2>2. QED
    BY <2>1, <1>2
<1>6. QED
  BY <1>3, <1>4, <1>5

(* Functions that start alike and stay alike from one step to the next.      *)
LEMMA SameSteps ==
    ASSUME NEW n \in Nat, NEW g, NEW h, g[0] = h[0],
           \A k \in 0 .. n - 1 : g[k] = h[k] => g[k + 1] = h[k + 1]
    PROVE  \A k \in 0 .. n : g[k] = h[k]
<1> DEFINE Alike == {k \in 0 .. n : g[k] = h[k]}
<1>1. 0 \in Alike
  OBVIOUS
<1>2. \A k \in 0 .. n - 1 : k \in Alike => k + 1 \in Alike
  OBVIOUS
<1> HIDE DEF Alike
<1>3. 0 .. n \subseteq Alike
  BY <1>1, <1>2, BoundedInduction
<1>4. QED
  BY <1>3 DEF Alike

----------------------------------------------------------------------------
(* A wrapped sum of two digits is the sum, less one base if it overflowed. *)
LEMMA WrapAddValue ==
    ASSUME NEW x \in Digit, NEW y \in Digit
    PROVE  /\ WrapAdd(x, y) = IF x + y < B THEN x + y ELSE x + y - B
           /\ WrapAdd(x, y) \in Digit
  BY BAssumption DEF WrapAdd, Digit

(* A wrapped difference is the difference, plus one base on underflow.     *)
LEMMA WrapSubValue ==
    ASSUME NEW x \in Digit, NEW y \in Digit
    PROVE  /\ WrapSub(x, y) = IF x >= y THEN x - y ELSE x - y + B
           /\ WrapSub(x, y) \in Digit
  BY BAssumption DEF WrapSub, Digit

LEMMA CarryIsDigit == Carry \subseteq Digit
  BY BAssumption DEF Carry, Digit

(* _add_ignore_sign, first loop: the two comparisons together recover the  *)
(* carry of ai + bi + c, which never exceeds one.                          *)
LEMMA AddStepExact ==
    ASSUME NEW ai \in Digit, NEW bi \in Digit, NEW c \in Carry
    PROVE  /\ AddDigit(ai, bi, c) \in Digit
           /\ AddCarry(ai, bi, c) \in Carry
           /\ AddDigit(ai, bi, c) + AddCarry(ai, bi, c) * B = ai + bi + c
<1>1. c \in Digit
  BY CarryIsDigit
<1> DEFINE t == WrapAdd(bi, c)
           r == WrapAdd(t, ai)
<1>2. t \in Digit /\ t = IF bi + c < B THEN bi + c ELSE bi + c - B
  BY <1>1, WrapAddValue
<1>3. r \in Digit /\ r = IF t + ai < B THEN t + ai ELSE t + ai - B
  BY <1>2, WrapAddValue
<1>4. AddDigit(ai, bi, c) = r /\ AddCarry(ai, bi, c) = Flag(t < c) + Flag(r < ai)
  BY DEF AddDigit, AddCarry
<1> HIDE DEF t, r
<1>5. QED
  BY <1>2, <1>3, <1>4, BAssumption DEF Flag, Digit, Carry

(* _add_ignore_sign, second loop.                                          *)
LEMMA IncStepExact ==
    ASSUME NEW ai \in Digit, NEW c \in Carry
    PROVE  /\ IncDigit(ai, c) \in Digit
           /\ IncCarry(ai, c) \in Carry
           /\ IncDigit(ai, c) + IncCarry(ai, c) * B = ai + c
<1>1. c \in Digit
  BY CarryIsDigit
<1>2. WrapAdd(ai, c) \in Digit /\ WrapAdd(ai, c) = IF ai + c < B THEN ai + c ELSE ai + c - B
  BY <1>1, WrapAddValue
<1>3. QED
  BY <1>2, BAssumption DEF IncDigit, IncCarry, Flag, Digit, Carry

(* _sub_ignore_sign, first loop: the borrow of ai - bi - c.                *)
LEMMA SubStepExact ==
    ASSUME NEW ai \in Digit, NEW bi \in Digit, NEW c \in Carry
    PROVE  /\ SubDigit(ai, bi, c) \in Digit
           /\ SubBorrow(ai, bi, c) \in Carry
           /\ SubDigit(ai, bi, c) - SubBorrow(ai, bi, c) * B = ai - bi - c
<1>1. c \in Digit
  BY CarryIsDigit
<1> DEFINE t == WrapAdd(bi, c)
           r == WrapSub(ai, t)
<1>2. t \in Digit /\ t = IF bi + c < B THEN bi + c ELSE bi + c - B
  BY <1>1, WrapAddValue
<1>3. r \in Digit /\ r = IF ai >= t THEN ai - t ELSE ai - t + B
  BY <1>2, WrapSubValue
<1>4. SubDigit(ai, bi, c) = r /\ SubBorrow(ai, bi, c) = Flag(t < c) + Flag(r > ai)
  BY DEF SubDigit, SubBorrow
<1> HIDE DEF t, r
<1>5. QED
  BY <1>2, <1>3, <1>4, BAssumption DEF Flag, Digit, Carry

(* _sub_ignore_sign, second loop.                                          *)
LEMMA DecStepExact ==
    ASSUME NEW ai \in Digit, NEW c \in Carry
    PROVE  /\ DecDigit(ai, c) \in Digit
           /\ DecBorrow(ai, c) \in Carry
           /\ DecDigit(ai, c) - DecBorrow(ai, c) * B = ai - c
<1>1. c \in Digit
  BY CarryIsDigit
<1>2. WrapSub(ai, c) \in Digit /\ WrapSub(ai, c) = IF ai >= c THEN ai - c ELSE ai - c + B
  BY <1>1, WrapSubValue
<1>3. QED
  BY <1>2, BAssumption DEF DecDigit, DecBorrow, Flag, Digit, Carry

(* _negate_twos_complement: digit and replacement add up to the new carry. *)
LEMMA NegStepExact ==
    ASSUME NEW ai \in Digit, NEW c \in Carry
    PROVE  /\ NegDigit(ai, c) \in Digit
           /\ NegCarry(ai, c) \in Carry
           /\ NegDigit(ai, c) + ai + c = NegCarry(ai, c) * B
<1>1. NegDigit(ai, c) = IF ai + c = 0 THEN 0 ELSE B - ai - c
  BY BAssumption DEF NegDigit, Digit, Carry
<1>2. QED
  BY <1>1, BAssumption DEF NegCarry, Flag, Digit, Carry

----------------------------------------------------------------------------
(* The value of the n low digits of d is a running sum.                      *)
LEMMA ValueSum ==
    ASSUME NEW d \in [Index -> Digit], NEW n \in 0 .. MaxSize
    PROVE  \E g \in [0 .. n -> Int] :
               /\ g[0] = 0
               /\ \A k \in 0 .. n - 1 : g[k + 1] = g[k] + d[k] * Pow[k]
               /\ Value(d, n) = g[n]
<1> DEFINE t == [k \in 1 .. n |-> d[k - 1] * Pow[k - 1]]
           f == CHOOSE f : f = [k \in 0 .. n |-> IF k = 0 THEN 0 ELSE f[k - 1] + d[k - 1] * Pow[k - 1]]
<1>1. n \in Nat /\ \A k \in 1 .. n : t[k] \in Int
  <2>1. ASSUME NEW k \in 1 .. n PROVE d[k - 1] * Pow[k - 1] \in Int
    <3>1. k - 1 \in Index /\ k - 1 \in 0 .. MaxSize
      BY PowAssumption DEF Index
    <3>2. d[k - 1] \in Int /\ Pow[k - 1] \in Int
      BY <3>1, PowAssumption, BAssumption DEF Digit
    <3>3. QED
      BY <3>2
  <2>2. QED
    BY <2>1, PowAssumption
<1>2. \A k \in 1 .. n : t[k] = d[k - 1] * Pow[k - 1]
  OBVIOUS
<1> HIDE DEF t
<1>3. PICK g \in [0 .. n -> Int] : g[0] = 0 /\ \A k \in 1 .. n : g[k] = g[k - 1] + t[k]
  BY <1>1, SumExists
<1>4. g = [k \in 0 .. n |-> IF k = 0 THEN 0 ELSE g[k - 1] + d[k - 1] * Pow[k - 1]]
  BY <1>2, <1>3
<1>5. f = [k \in 0 .. n |-> IF k = 0 THEN 0 ELSE f[k - 1] + d[k - 1] * Pow[k - 1]]
  BY <1>4
<1>6. Value(d, n) = f[n]
  BY DEF Value
<1> HIDE DEF f
<1>7. \A k \in 0 .. n : g[k] = f[k]
  <2>1. g[0] = f[0]
    BY <1>1, <1>3, <1>5
  <2>2. ASSUME NEW k \in 0 .. n - 1, g[k] = f[k] PROVE g[k + 1] = f[k + 1]
    <3>1. k + 1 \in 1 .. n /\ k + 1 \in 0 .. n /\ k + 1 # 0 /\ (k + 1) - 1 = k
      BY <1>1
    <3>2. f[k + 1] = f[k] + d[k] * Pow[k]
      BY <3>1, <1>5
    <3>3. g[k + 1] = g[k] + d[k] * Pow[k]
      BY <3>1, <1>2, <1>3
    <3>4. QED
      BY <3>2, <3>3, <2>2
  <2>3. QED
    BY <1>1, <2>1, <2>2, SameSteps
<1>8. ASSUME NEW k \in 0 .. n - 1 PROVE g[k + 1] = g[k] + d[k] * Pow[k]
  <2>1. k + 1 \in 1 .. n /\ (k + 1) - 1 = k
    BY <1>1
  <2>2. QED
    BY <2>1, <1>2, <1>3
<1>9. QED
  BY <1>1, <1>3, <1>6, <1>7, <1>8

LEMMA ValueZero ==
    ASSUME NEW d \in [Index -> Digit]
    PROVE  Value(d, 0) = 0
<1>1. 0 \in 0 .. MaxSize
  BY PowAssumption
<1>2. QED
  BY <1>1, ValueSum

(* Two storages with the same n low digits have the same value.              *)
LEMMA ValueSame ==
    ASSUME NEW d \in [Index -> Digit], NEW d2 \in [Index -> Digit], NEW n \in 0 .. MaxSize,
           \A k \in 0 .. n - 1 : d[k] = d2[k]
    PROVE  Value(d, n) = Value(d2, n)
<1>1. PICK g \in [0 .. n -> Int] :
          g[0] = 0 /\ (\A k \in 0 .. n - 1 : g[k + 1] = g[k] + d[k] * Pow[k]) /\ Value(d, n) = g[n]
  BY ValueSum
<1>2. PICK h \in [0 .. n -> Int] :
          h[0] = 0 /\ (\A k \in 0 .. n - 1 : h[k + 1] = h[k] + d2[k] * Pow[k]) /\ Value(d2, n) = h[n]
  BY ValueSum
<1>3. n \in Nat /\ n \in 0 .. n
  BY PowAssumption
<1>4. \A k \in 0 .. n : g[k] = h[k]
  <2>1. g[0] = h[0] /\ \A k \in 0 .. n - 1 : g[k] = h[k] => g[k + 1] = h[k + 1]
    BY <1>1, <1>2
  <2>2. QED
    BY <1>3, <2>1, SameSteps
<1>5. QED
  BY <1>1, <1>2, <1>3, <1>4

(* One more digit adds the digit times its weight.                           *)
LEMMA ValueStep ==
    ASSUME NEW d \in [Index -> Digit], NEW n \in 0 .. MaxSize - 1
    PROVE  Value(d, n + 1) = Value(d, n) + d[n] * Pow[n]
<1>1. n + 1 \in 0 .. MaxSize /\ n \in 0 .. MaxSize /\ n \in Nat /\ n \in 0 .. n /\ n \in 0 .. (n + 1) - 1
  BY PowAssumption
<1>2. PICK g \in [0 .. n -> Int] :
          g[0] = 0 /\ (\A k \in 0 .. n - 1 : g[k + 1] = g[k] + d[k] * Pow[k]) /\ Value(d, n) = g[n]
  BY <1>1, ValueSum
<1>3. PICK h \in [0 .. n + 1 -> Int] :
          /\ h[0] = 0 /\ (\A k \in 0 .. (n + 1) - 1 : h[k + 1] = h[k] + d[k] * Pow[k])
          /\ Value(d, n + 1) = h[n + 1]
  BY <1>1, ValueSum
<1>4. \A k \in 0 .. n - 1 : k \in 0 .. (n + 1) - 1
  BY <1>1
<1>5. \A k \in 0 .. n : g[k] = h[k]
  <2>1. g[0] = h[0] /\ \A k \in 0 .. n - 1 : g[k] = h[k] => g[k + 1] = h[k + 1]
    BY <1>2, <1>3, <1>4
  <2>2. QED
    BY <1>1, <2>1, SameSteps
<1>6. QED
  BY <1>1, <1>2, <1>3, <1>5

LEMMA ValueNat ==
    ASSUME NEW d \in [Index -> Digit], NEW n \in 0 .. MaxSize
    PROVE  Value(d, n) \in Nat
<1>1. PICK g \in [0 .. n -> Int] :
          g[0] = 0 /\ (\A k \in 0 .. n - 1 : g[k + 1] = g[k] + d[k] * Pow[k]) /\ Value(d, n) = g[n]
  BY ValueSum
<1> DEFINE N == {k \in 0 .. n : g[k] >= 0}
<1>2. n \in Nat /\ n \in 0 .. n
  BY PowAssumption
<1>3. ASSUME NEW k \in 0 .. n - 1, k \in N PROVE k + 1 \in N
  <2>1. k + 1 \in 0 .. n /\ k \in 0 .. MaxSize /\ k \in Index /\ k \in 0 .. n
    BY <1>2, PowAssumption DEF Index
  <2>2. Pow[k] \in Nat /\ d[k] \in Nat
    BY <2>1, PowAssumption, BAssumption DEF Digit
  <2>3. d[k] * Pow[k] >= 0 /\ d[k] * Pow[k] \in Int
    BY <2>2
  <2>4. g[k] >= 0 /\ g[k] \in Int
    BY <1>3, <2>1, <1>1
  <2>5. g[k] + d[k] * Pow[k] >= 0
    BY <2>3, <2>4
  <2>6. QED
    BY <2>1, <2>5, <1>1
<1>4. 0 \in N
  BY <1>1, <1>2
<1> HIDE DEF N
<1>5. 0 .. n \subseteq N
  BY <1>2, <1>3, <1>4, BoundedInduction
<1>6. QED
  BY <1>1, <1>2, <1>5 DEF N

LEMMA DigitTimesWeight ==
    ASSUME NEW p \in Nat, NEW d \in Digit
    PROVE  d * p \in Nat
  BY BAssumption DEF Digit

(* Zero digits from n on do not count.                                       *)
LEMMA ValueTrim ==
    ASSUME NEW d \in [Index -> Digit], NEW n \in 0 .. MaxSize, NEW m \in 0 .. n,
           \A k \in m .. n - 1 : d[k] = 0
    PROVE  Value(d, n) = Value(d, m)
<1> DEFINE T == {k \in 0 .. n - m : Value(d, m + k) = Value(d, m)}
<1>1. n \in Nat /\ m \in Nat /\ n - m \in Nat /\ m + (n - m) = n /\ m + 0 = m
  BY PowAssumption
<1>2. 0 \in T
  BY <1>1
<1>3. ASSUME NEW k \in 0 .. (n - m) - 1, k \in T PROVE k + 1 \in T
  <2>1. /\ m + k \in 0 .. MaxSize - 1 /\ m + k \in m .. n - 1 /\ k + 1 \in 0 .. n - m
        /\ m + (k + 1) = (m + k) + 1 /\ m + k \in 0 .. MaxSize
    BY <1>1, PowAssumption
  <2>2. Value(d, (m + k) + 1) = Value(d, m + k) + 0 * Pow[m + k]
    BY <2>1, ValueStep
  <2>3. Value(d, m + k) \in Nat
    BY <2>1, ValueNat
  <2>4. Pow[m + k] \in Nat
    BY <2>1, PowAssumption
  <2>5. 0 * Pow[m + k] = 0
    BY <2>4
  <2>6. Value(d, m + (k + 1)) = Value(d, m)
    BY <1>3, <2>1, <2>2, <2>3, <2>5
  <2>7. QED
    BY <2>1, <2>6
<1> HIDE DEF T
<1>4. 0 .. n - m \subseteq T
  BY <1>1, <1>2, <1>3, BoundedInduction
<1>5. n - m \in T
  BY <1>1, <1>4
<1>6. QED
  BY <1>1, <1>5 DEF T

(* Replacing one digit.                                                      *)
LEMMA ValueUpdate ==
    ASSUME NEW d \in [Index -> Digit], NEW e \in [Index -> Digit], NEW n \in 0 .. MaxSize,
           NEW m \in 0 .. n - 1, \A k \in 0 .. n - 1 : k # m => e[k] = d[k]
    PROVE  Value(e, n) = Value(d, n) + (e[m] - d[m]) * Pow[m]
<1> DEFINE D == (e[m] - d[m]) * Pow[m]
           T == {k \in 0 .. n - (m + 1) : Value(e, (m + 1) + k) = Value(d, (m + 1) + k) + D}
<1>1. /\ n \in Nat /\ m \in Nat /\ m \in Index /\ m \in 0 .. MaxSize - 1 /\ m \in 0 .. MaxSize
      /\ n - (m + 1) \in Nat
      /\ (m + 1) + (n - (m + 1)) = n /\ (m + 1) + 0 = m + 1
  BY PowAssumption DEF Index
<1>2. e[m] \in Int /\ d[m] \in Int /\ Pow[m] \in Int /\ D \in Int
  BY <1>1, PowAssumption, BAssumption DEF Digit
<1>3. Value(e, m + 1) = Value(d, m + 1) + D
  <2>1. \A k \in 0 .. m - 1 : e[k] = d[k]
    BY <1>1
  <2>2. Value(e, m) = Value(d, m)
    BY <1>1, <2>1, ValueSame
  <2>3. Value(e, m + 1) = Value(e, m) + e[m] * Pow[m] /\ Value(d, m + 1) = Value(d, m) + d[m] * Pow[m]
    BY <1>1, ValueStep
  <2>4. Value(d, m) \in Int
    BY <1>1, ValueNat
  <2>5. (e[m] - d[m]) * Pow[m] = e[m] * Pow[m] - d[m] * Pow[m]
    BY <1>2
  <2>6. e[m] * Pow[m] \in Int /\ d[m] * Pow[m] \in Int
    BY <1>2
  <2>7. QED
    BY <2>2, <2>3, <2>4, <2>5, <2>6
<1> HIDE DEF D
<1>4. 0 \in T
  BY <1>1, <1>3
<1>5. ASSUME NEW k \in 0 .. (n - (m + 1)) - 1, k \in T PROVE k + 1 \in T
  <2> DEFINE q == (m + 1) + k
  <2>1. /\ q \in 0 .. MaxSize - 1 /\ q \in 0 .. n - 1 /\ q # m /\ k + 1 \in 0 .. n - (m + 1)
        /\ (m + 1) + (k + 1) = q + 1 /\ q \in Index /\ q \in 0 .. MaxSize
    BY <1>1, PowAssumption DEF Index
  <2>2. Value(e, q) = Value(d, q) + D
    BY <1>5
  <2> HIDE DEF q
  <2>3. Value(e, q + 1) = Value(e, q) + e[q] * Pow[q] /\ Value(d, q + 1) = Value(d, q) + d[q] * Pow[q]
    BY <2>1, ValueStep
  <2>4. e[q] = d[q]
    BY <2>1
  <2>5. Value(d, q) \in Nat /\ d[q] * Pow[q] \in Nat
    <3>1. Value(d, q) \in Nat
      BY <2>1, ValueNat
    <3>2. d[q] \in Digit /\ Pow[q] \in Nat
      BY <2>1, PowAssumption
    <3>3. QED
      BY <3>1, <3>2, DigitTimesWeight
  <2>6. Value(e, q + 1) = Value(d, q + 1) + D
    BY <2>2, <2>3, <2>4, <2>5, <1>2
  <2>7. QED
    BY <2>1, <2>6
<1> HIDE DEF T
<1>6. 0 .. n - (m + 1) \subseteq T
  BY <1>1, <1>4, <1>5, BoundedInduction
<1>7. n - (m + 1) \in T
  BY <1>1, <1>6
<1>8. QED
  BY <1>1, <1>7 DEF T, D

(* Weights multiply.                                                         *)
LEMMA PowSum ==
    ASSUME NEW m \in Nat, NEW n \in Nat, m + n <= MaxSize
    PROVE  Pow[m + n] = Pow[m] * Pow[n]
<1> DEFINE T == {k \in 0 .. n : Pow[m + k] = Pow[m] * Pow[k]}
<1>1. m \in 0 .. MaxSize /\ m + 0 = m
  BY PowAssumption
<1>2. 0 \in T
  BY <1>1, PowAssumption
<1>3. ASSUME NEW k \in 0 .. n - 1, k \in T PROVE k + 1 \in T
  <2>1. /\ m + k \in 0 .. MaxSize - 1 /\ k \in 0 .. MaxSize - 1 /\ m + (k + 1) = (m + k) + 1
        /\ k + 1 \in 0 .. n
    BY PowAssumption
  <2>2. Pow[(m + k) + 1] = B * Pow[m + k] /\ Pow[k + 1] = B * Pow[k]
    BY <2>1, PowAssumption
  <2>3. Pow[m + k] = Pow[m] * Pow[k]
    BY <1>3
  <2>4. Pow[m] \in Int /\ Pow[k] \in Int
    BY <1>1, <2>1, PowAssumption
  <2>5. \A p, q \in Int : B * (p * q) = p * (B * q)
    BY BAssumption
  <2>6. Pow[m + (k + 1)] = Pow[m] * Pow[k + 1]
    BY <2>1, <2>2, <2>3, <2>4, <2>5
  <2>7. QED
    BY <2>1, <2>6
<1> HIDE DEF T
<1>4. 0 .. n \subseteq T
  BY <1>2, <1>3, BoundedInduction
<1>5. n \in T
  BY <1>4
<1>6. QED
  BY <1>5 DEF T

----------------------------------------------------------------------------
(* Products and quotients.                                                   *)

LEMMA MulMonotone ==
    ASSUME NEW u \in Int, NEW v \in Int, NEW m \in Nat, u <= v
    PROVE  u * m <= v * m /\ m * u <= m * v
  OBVIOUS

LEMMA MulStrict ==
    ASSUME NEW u \in Int, NEW v \in Int, NEW m \in Nat, m > 0, u < v
    PROVE  u * m < v * m
<1>1. u + 1 <= v /\ u + 1 \in Int
  OBVIOUS
<1>2. (u + 1) * m <= v * m
  BY <1>1, MulMonotone
<1>3. (u + 1) * m = u * m + m
  OBVIOUS
<1>4. u * m \in Int /\ v * m \in Int
  OBVIOUS
<1>5. QED
  BY <1>2, <1>3, <1>4

LEMMA MulCancel ==
    ASSUME NEW u \in Int, NEW v \in Int, NEW m \in Nat, u * m < v * m
    PROVE  u < v
<1> SUFFICES ASSUME v <= u PROVE FALSE
  OBVIOUS
<1>1. v * m <= u * m
  BY MulMonotone
<1>2. u * m \in Int /\ v * m \in Int
  OBVIOUS
<1>3. QED
  BY <1>1, <1>2

LEMMA Distributes ==
    ASSUME NEW u \in Int, NEW v \in Int
    PROVE  /\ u * v \in Int /\ (u - 1) * v = u * v - v /\ (u + 3) * v = u * v + v + 2 * v
           /\ (u + 1) * (v + 1) = u * v + v + u + 1 /\ u * v = v * u
  OBVIOUS

LEMMA QuotientRemainder ==
    ASSUME NEW n \in Int, NEW m \in Nat, m > 0
    PROVE  /\ n \div m \in Int /\ n % m \in 0 .. m - 1
           /\ n = (n \div m) * m + (n % m)
           /\ (n \div m) * m <= n /\ n < (n \div m + 1) * m
           /\ n >= 0 => n \div m >= 0 /\ n % m <= n
<1>1. n \div m \in Int /\ n % m \in 0 .. m - 1 /\ n = (n \div m) * m + (n % m)
  OBVIOUS
<1> DEFINE q == n \div m
<1> HIDE DEF q
<1>2. q \in Int /\ q * m \in Int /\ n = q * m + (n % m)
  BY <1>1 DEF q
<1>3. (q + 1) * m = q * m + m
  BY <1>2
<1>4. q * m <= n /\ n < (q + 1) * m
  BY <1>1, <1>2, <1>3
<1>5. n >= 0 => q >= 0
  <2> SUFFICES ASSUME n >= 0, q + 1 <= 0 PROVE FALSE
    BY <1>2
  <2>1. q + 1 \in Int /\ (q + 1) * m <= 0 * m /\ 0 * m = 0
    BY <1>2, MulMonotone
  <2>2. QED
    BY <1>2, <1>4, <2>1
<1>6. n >= 0 => n % m <= n
  <2> SUFFICES ASSUME n >= 0 PROVE n % m <= n
    OBVIOUS
  <2>1. 0 * m <= q * m /\ 0 * m = 0
    BY <1>2, <1>5, MulMonotone
  <2>2. QED
    BY <1>1, <1>2, <2>1
<1>7. QED
  BY <1>1, <1>2, <1>4, <1>5, <1>6 DEF q

LEMMA QuotientUnique ==
    ASSUME NEW n \in Int, NEW m \in Nat, m > 0, NEW q \in Int, q * m <= n, n < (q + 1) * m
    PROVE  n \div m = q /\ n % m = n - q * m
<1> DEFINE p == n \div m
<1>1. p \in Int /\ n = p * m + (n % m) /\ p * m <= n /\ n < (p + 1) * m /\ n % m \in Int
  BY QuotientRemainder
<1> HIDE DEF p
<1>2. p * m \in Int /\ (p + 1) * m \in Int /\ q * m \in Int /\ (q + 1) * m \in Int
  BY <1>1
<1>3. p * m < (q + 1) * m /\ q * m < (p + 1) * m
  BY <1>1, <1>2
<1>4. p < q + 1 /\ q < p + 1
  BY <1>1, <1>3, MulCancel
<1>5. p = q
  BY <1>1, <1>4
<1>6. QED
  BY <1>1, <1>2, <1>5 DEF p

LEMMA ModSmall ==
    ASSUME NEW x \in Nat, NEW m \in Nat, x < m
    PROVE  x % m = x
<1>1. 0 * m <= x /\ x < (0 + 1) * m /\ x - 0 * m = x /\ 0 \in Int /\ m > 0
  OBVIOUS
<1>2. x % m = x - 0 * m
  BY <1>1, QuotientUnique
<1>3. QED
  BY <1>1, <1>2

LEMMA ModMultiple ==
    ASSUME NEW k \in Int, NEW m \in Nat, m > 0
    PROVE  (k * m) % m = 0
<1> DEFINE n == k * m
<1>1. n \in Int /\ (k + 1) * m = n + m /\ n - n = 0
  OBVIOUS
<1>2. k * m <= n /\ n < (k + 1) * m
  BY <1>1
<1>3. n % m = n - k * m
  <2> HIDE DEF n
  <2> QED
    BY <1>1, <1>2, QuotientUnique
<1>4. QED
  BY <1>1, <1>3

(* Dividing twice is dividing by the product.                                *)
LEMMA QuotientTwice ==
    ASSUME NEW n \in Nat, NEW m \in Nat, NEW k \in Nat, m > 0, k > 0
    PROVE  n \div (m * k) = (n \div m) \div k
<1> DEFINE u == n \div m  v == u \div k
<1>1. u \in Int /\ u * m <= n /\ n < (u + 1) * m
  BY QuotientRemainder
<1>2. v \in Int /\ v * k <= u /\ u < (v + 1) * k
  BY <1>1, QuotientRemainder
<1> HIDE DEF u, v
<1>3. m * k \in Nat /\ m * k > 0 /\ v * k \in Int /\ (v + 1) * k \in Int
  <2>1. m * k \in Nat
    OBVIOUS
  <2>2. 0 * k < m * k
    BY MulStrict
  <2>3. QED
    BY <2>1, <2>2, <1>2
<1>4. (v * k) * m <= u * m /\ (u + 1) * m <= ((v + 1) * k) * m
  <2>1. u + 1 <= (v + 1) * k
    BY <1>1, <1>2, <1>3
  <2>2. QED
    BY <1>1, <1>2, <1>3, <2>1, MulMonotone
<1>5. (v * k) * m = v * (m * k) /\ ((v + 1) * k) * m = (v + 1) * (m * k)
  BY <1>2
<1>6. (v * k) * m \in Int /\ u * m \in Int /\ (u + 1) * m \in Int /\ ((v + 1) * k) * m \in Int
  BY <1>1, <1>3
<1>7. (v * k) * m <= n /\ n < ((v + 1) * k) * m
  BY <1>1, <1>4, <1>6
<1>8. v * (m * k) <= n /\ n < (v + 1) * (m * k)
  BY <1>5, <1>7
<1>9. n \div (m * k) = v
  BY <1>2, <1>3, <1>8, QuotientUnique
<1>10. QED
  BY <1>9 DEF u, v

----------------------------------------------------------------------------
(* Weights and sizes.                                                        *)

LEMMA PowPositive ==
    ASSUME NEW k \in 0 .. MaxSize
    PROVE  Pow[k] \in Nat /\ Pow[k] > 0
<1> DEFINE S == {n \in 0 .. MaxSize : Pow[n] > 0}
<1>1. MaxSize \in Nat /\ \A n \in 0 .. MaxSize : Pow[n] \in Nat
  BY PowAssumption
<1>2. 0 \in S
  BY <1>1, PowAssumption
<1>3. ASSUME NEW n \in 0 .. MaxSize - 1, n \in S PROVE n + 1 \in S
  <2>1. Pow[n + 1] = B * Pow[n] /\ n + 1 \in 0 .. MaxSize /\ n \in 0 .. MaxSize
    BY <1>1, PowAssumption
  <2>2. ASSUME NEW p \in Nat, p > 0 PROVE B * p > 0
    BY <2>2, BAssumption
  <2>3. QED
    BY <1>1, <1>3, <2>1, <2>2
<1> HIDE DEF S
<1>4. 0 .. MaxSize \subseteq S
  BY <1>1, <1>2, <1>3, BoundedInduction
<1>5. QED
  BY <1>1, <1>4 DEF S

LEMMA PowGrows ==
    ASSUME NEW m \in Nat, NEW n \in Nat, m <= n, n <= MaxSize
    PROVE  Pow[m] <= Pow[n]
<1>1. n - m \in Nat /\ m + (n - m) = n /\ MaxSize \in Nat
  BY PowAssumption
<1>2. Pow[n] = Pow[m] * Pow[n - m]
  BY <1>1, PowSum
<1>3. Pow[m] \in Nat /\ Pow[n - m] \in Nat /\ Pow[n - m] >= 1
  <2>1. m \in 0 .. MaxSize /\ n - m \in 0 .. MaxSize
    BY <1>1
  <2>2. QED
    BY <2>1, PowPositive
<1>4. 1 * Pow[m] <= Pow[n - m] * Pow[m]
  BY <1>3, MulMonotone
<1>5. ASSUME NEW p \in Nat, NEW q \in Nat, 1 * p <= q * p PROVE p <= p * q
  BY <1>5
<1>6. QED
  BY <1>2, <1>3, <1>4, <1>5

LEMMA SizeFacts ==
    ASSUME NEW n \in Nat, MaxSize >= 1, n < Pow[MaxSize]
    PROVE  /\ Size(n) \in 1 .. MaxSize /\ n < Pow[Size(n)]
           /\ Size(n) = 1 \/ n >= Pow[Size(n) - 1]
<1> DEFINE T == {k \in 1 .. MaxSize : n < Pow[k]}
<1>1. MaxSize \in T /\ T \subseteq Nat /\ MaxSize \in Nat
  BY PowAssumption
<1>2. PICK k \in T : \A m \in T : k <= m
  BY <1>1, LeastNat
<1>3. k = 1 \/ n >= Pow[k - 1]
  <2> SUFFICES ASSUME k # 1, ~(n >= Pow[k - 1]) PROVE FALSE
    OBVIOUS
  <2>1. k - 1 \in 1 .. MaxSize /\ ~(k <= k - 1) /\ k - 1 \in 0 .. MaxSize
    BY <1>1, <1>2
  <2>2. Pow[k - 1] \in Nat
    BY <2>1, PowPositive
  <2>3. k - 1 \in T
    BY <2>1, <2>2
  <2>4. QED
    BY <1>2, <2>1, <2>3
<1>4. \E m \in 1 .. MaxSize : n < Pow[m] /\ (m = 1 \/ n >= Pow[m - 1])
  BY <1>2, <1>3
<1>5. QED
  BY <1>4 DEF Size

LEMMA SizeLeast ==
    ASSUME NEW n \in Nat, NEW m \in 1 .. MaxSize, n < Pow[m]
    PROVE  /\ Size(n) \in 1 .. m /\ n < Pow[Size(n)]
           /\ Size(n) = 1 \/ n >= Pow[Size(n) - 1]
<1>1. MaxSize \in Nat /\ m \in Nat /\ m <= MaxSize
  BY PowAssumption
<1>2. n < Pow[MaxSize]
  <2>1. Pow[m] <= Pow[MaxSize]
    BY <1>1, PowGrows
  <2>2. Pow[m] \in Nat /\ Pow[MaxSize] \in Nat
    BY <1>1, PowPositive
  <2>3. QED
    BY <2>1, <2>2
<1> DEFINE k == Size(n)
<1>3. k \in 1 .. MaxSize /\ n < Pow[k] /\ (k = 1 \/ n >= Pow[k - 1])
  BY <1>1, <1>2, SizeFacts
<1> HIDE DEF k
<1>4. k <= m
  <2> SUFFICES ASSUME k > m PROVE FALSE
    BY <1>1, <1>3
  <2>1. k # 1 /\ k - 1 \in Nat /\ m <= k - 1 /\ k - 1 <= MaxSize /\ k - 1 \in 0 .. MaxSize /\ m \in 0 .. MaxSize
    BY <1>1, <1>3
  <2>2. Pow[m] <= Pow[k - 1] /\ Pow[m] \in Nat /\ Pow[k - 1] \in Nat
    BY <1>1, <2>1, PowGrows, PowPositive
  <2>3. QED
    BY <1>3, <2>1, <2>2
<1>5. QED
  BY <1>1, <1>3, <1>4 DEF k

LEMMA SizeIs ==
    ASSUME NEW n \in Nat, NEW m \in 1 .. MaxSize, n < Pow[m], Pow[m - 1] <= n
    PROVE  Size(n) = m
<1> DEFINE k == Size(n)
<1>1. k \in 1 .. m /\ n < Pow[k]
  BY SizeLeast
<1> HIDE DEF k
<1>2. MaxSize \in Nat
  BY PowAssumption
<1>3. k >= m
  <2> SUFFICES ASSUME k <= m - 1 PROVE FALSE
    BY <1>1, <1>2
  <2>1. k \in Nat /\ m - 1 \in Nat /\ m - 1 <= MaxSize /\ k \in 0 .. MaxSize /\ m - 1 \in 0 .. MaxSize
    BY <1>1, <1>2
  <2>2. Pow[k] <= Pow[m - 1] /\ Pow[k] \in Nat /\ Pow[m - 1] \in Nat
    BY <2>1, PowGrows, PowPositive
  <2>3. QED
    BY <1>1, <2>2
<1>4. QED
  BY <1>1, <1>2, <1>3 DEF k

(* The digit k of n is what its window from k on has more than that from     *)
(* k + 1 on.                                                                 *)
LEMMA RestStep ==
    ASSUME NEW n \in Nat, NEW k \in 0 .. MaxSize - 1
    PROVE  /\ n % Pow[k + 1] = DigitAt(n, k) * Pow[k] + (n % Pow[k])
           /\ DigitAt(n, k) \in Digit
<1> DEFINE p == Pow[k]  u == n \div p  v == u \div B  r == n % p  s == u % B
<1>1. p \in Nat /\ p > 0 /\ Pow[k + 1] = B * p /\ B \in Nat /\ B > 0
  <2>1. k \in 0 .. MaxSize
    BY PowAssumption
  <2>2. QED
    BY <2>1, PowPositive, PowAssumption, BAssumption
<1> HIDE DEF p
<1>2. u \in Int /\ r \in 0 .. p - 1 /\ n = u * p + r
  BY <1>1, QuotientRemainder
<1> HIDE DEF u, r
<1>3. v \in Int /\ s \in 0 .. B - 1 /\ u = v * B + s
  BY <1>1, <1>2, QuotientRemainder
<1> HIDE DEF v, s
<1>4. s \in Int /\ s * p \in Int /\ r \in Int
  BY <1>1, <1>2, <1>3
<1>5. u * p = v * (B * p) + s * p
  BY <1>1, <1>3, <1>4
<1>6. s * p + r >= 0 /\ s * p + r < B * p
  <2>1. 0 * p <= s * p /\ s * p <= (B - 1) * p /\ 0 * p = 0 /\ (B - 1) * p = B * p - p /\ B * p \in Int
    BY <1>1, <1>3, MulMonotone
  <2>2. QED
    BY <2>1, <1>1, <1>2, <1>4
<1>7. n % (B * p) = n - v * (B * p)
  <2>1. (v + 1) * (B * p) = v * (B * p) + B * p /\ v * (B * p) \in Int /\ B * p \in Nat
    BY <1>1, <1>3
  <2>2. v * (B * p) <= n /\ n < (v + 1) * (B * p) /\ B * p > 0
    BY <2>1, <1>1, <1>2, <1>4, <1>5, <1>6
  <2> DEFINE w == B * p
  <2>3. w \in Nat /\ w > 0 /\ v * w <= n /\ n < (v + 1) * w /\ v \in Int /\ n \in Int
    BY <2>1, <2>2, <1>3
  <2> HIDE DEF w
  <2>4. n % w = n - v * w
    BY <2>3, QuotientUnique
  <2>5. QED
    BY <2>4 DEF w
<1>8. n % (B * p) = s * p + r
  <2>1. v * (B * p) \in Int
    BY <1>1, <1>3
  <2>2. QED
    BY <2>1, <1>2, <1>4, <1>5, <1>7
<1>9. DigitAt(n, k) = s
  BY DEF DigitAt, s, u, p
<1>10. QED
  BY <1>1, <1>3, <1>8, <1>9 DEF p, r, Digit

----------------------------------------------------------------------------
(* Stored digits have a value below the weight of the next one.              *)
LEMMA ValueBound ==
    ASSUME NEW d \in [Index -> Digit], NEW n \in 0 .. MaxSize
    PROVE  Value(d, n) < Pow[n]
<1> DEFINE T == {k \in 0 .. MaxSize : Value(d, k) < Pow[k]}
<1>1. 0 \in T
  BY ValueZero, PowAssumption
<1>2. ASSUME NEW k \in 0 .. MaxSize - 1, k \in T PROVE k + 1 \in T
  <2>1. k + 1 \in 0 .. MaxSize /\ k \in 0 .. MaxSize /\ k \in Index /\ MaxSize \in Nat
    BY PowAssumption DEF Index
  <2> DEFINE x == Value(d, k)  y == d[k]  p == Pow[k]  q == Pow[k + 1]
  <2>2. /\ x \in Nat /\ x < p /\ y \in 0 .. B - 1 /\ p \in Nat /\ q = B * p
        /\ Value(d, k + 1) = x + y * p /\ B \in Nat
    BY <1>2, <2>1, ValueNat, ValueStep, PowAssumption, BAssumption DEF Digit
  <2> HIDE DEF x, y, p, q
  <2>3. y * p <= (B - 1) * p /\ (B - 1) * p = B * p - p /\ y * p \in Int /\ B * p \in Int
    BY <2>2, MulMonotone
  <2>4. x + y * p < q
    BY <2>2, <2>3
  <2>5. QED
    BY <2>1, <2>2, <2>4 DEF q
<1> HIDE DEF T
<1>3. 0 .. MaxSize \subseteq T
  BY <1>1, <1>2, BoundedInduction, PowAssumption
<1>4. QED
  BY <1>3 DEF T

(* The digits of a number, stored, have its value up to their weight.        *)
LEMMA DigitsValue ==
    ASSUME NEW d \in [Index -> Digit], NEW n \in 0 .. MaxSize, NEW v \in Nat,
           \A k \in 0 .. n - 1 : d[k] = DigitAt(v, k)
    PROVE  Value(d, n) = v % Pow[n]
<1> DEFINE T == {k \in 0 .. n : Value(d, k) = v % Pow[k]}
<1>1. 0 \in T
  <2>1. v % 1 = 0
    <3>1. v * 1 = v /\ 1 \in Nat /\ 1 > 0
      OBVIOUS
    <3>2. QED
      BY <3>1, ModMultiple
  <2>2. QED
    BY <2>1, ValueZero, PowAssumption
<1>2. ASSUME NEW k \in 0 .. n - 1, k \in T PROVE k + 1 \in T
  <2>1. k + 1 \in 0 .. n /\ k \in 0 .. MaxSize - 1
    BY PowAssumption
  <2>2. v % Pow[k + 1] = DigitAt(v, k) * Pow[k] + (v % Pow[k]) /\ DigitAt(v, k) \in Digit
    BY <2>1, RestStep
  <2>3. Value(d, k + 1) = Value(d, k) + d[k] * Pow[k]
    BY <2>1, ValueStep
  <2> DEFINE x == DigitAt(v, k) * Pow[k]  y == v % Pow[k]
  <2>4. x \in Int /\ y \in Int
    <3>1. k \in 0 .. MaxSize
      BY <2>1, PowAssumption
    <3>2. Pow[k] \in Nat /\ Pow[k] > 0
      BY <3>1, PowPositive
    <3>3. y \in Int
      BY <3>2, QuotientRemainder
    <3>4. QED
      BY <2>2, <3>2, <3>3, DigitTimesWeight
  <2>5. Value(d, k + 1) = y + x /\ v % Pow[k + 1] = x + y
    BY <1>2, <2>2, <2>3
  <2> HIDE DEF x, y
  <2>6. Value(d, k + 1) = v % Pow[k + 1]
    BY <2>4, <2>5
  <2>7. QED
    BY <2>1, <2>6
<1> HIDE DEF T
<1>3. n \in Nat
  BY PowAssumption
<1>4. 0 .. n \subseteq T /\ n \in 0 .. n
  BY <1>1, <1>2, <1>3, BoundedInduction
<1>5. QED
  BY <1>4 DEF T
=============================================================================
