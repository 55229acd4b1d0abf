---------------------- MODULE FunctionCalls_proofs ----------------------
(* The comparison of numbers and the functions called on them are right for  *)
(* every base, every number of digits and every argument.  Each function has *)
(* an inductive invariant that says what holds at each of its places; the    *)
(* functions share their variables, so the step of one leaves the invariants *)
(* of the others alone (StepsOfOne).                                         *)
EXTENDS FunctionCalls, Compare, WordLemmas, FiniteSetTheorems, SequenceTheorems, TLAPS

----------------------------------------------------------------------------
(* A number as storage of MaxSize digits.                                    *)
Padded(x) == [i \in Index |-> at(x, i)]

LEMMA NumberShape ==
    ASSUME NEW x \in Numbers
    PROVE  /\ size(x) \in 1 .. MaxSize /\ DOMAIN x.digs = 0 .. size(x) - 1
           /\ x.digs \in [0 .. size(x) - 1 -> Digit] /\ x.neg \in BOOLEAN
           /\ Padded(x) \in [Index -> Digit]
           /\ \A i \in Index : i < size(x) => Padded(x)[i] = x.digs[i]
           /\ \A i \in Index : i >= size(x) => Padded(x)[i] = 0
<1>1. PICK k \in 1 .. MaxSize : x \in [digs : [0 .. k - 1 -> Digit], neg : BOOLEAN]
  BY DEF Numbers
<1>2. x.digs \in [0 .. k - 1 -> Digit] /\ x.neg \in BOOLEAN /\ DOMAIN x.digs = 0 .. k - 1
  BY <1>1
<1>3. size(x) = k
  <2>1. Cardinality(0 .. k - 1) = k
    <3>1. 0 \in Int /\ k - 1 \in Int /\ (k - 1) - 0 + 1 = k /\ ~(0 > k - 1)
      BY PowAssumption
    <3>2. QED
      BY <3>1, FS_Interval
  <2>2. QED
    BY <1>2, <2>1 DEF size
<1>4. 0 \in Digit /\ MaxSize \in Nat
  BY BAssumption, PowAssumption DEF Digit
<1>5. ASSUME NEW i \in Index PROVE at(x, i) \in Digit /\ (i < k => at(x, i) = x.digs[i]) /\ (i >= k => at(x, i) = 0)
  <2>1. i \in 0 .. k - 1 <=> i < k
    BY <1>1, <1>4 DEF Index
  <2>2. QED
    BY <2>1, <1>2, <1>4 DEF at, Index
<1>6. QED
  BY <1>1, <1>2, <1>3, <1>5 DEF Padded

LEMMA Greatest ==
    ASSUME NEW m \in Nat, NEW T, T \subseteq 0 .. m, T # {}
    PROVE  \E i \in T : \A j \in T : j <= i
<1> DEFINE R == {m - j : j \in T}
<1>1. R \subseteq Nat /\ R # {}
  <2>1. ASSUME NEW j \in T PROVE m - j \in Nat
    OBVIOUS
  <2>2. R \subseteq Nat
    BY <2>1
  <2>3. R # {}
    BY Zenon
  <2>4. QED
    BY <2>2, <2>3
<1>2. PICK r0 \in R : \A k2 \in R : r0 <= k2
  BY <1>1, LeastNat
<1>3. PICK i \in T : r0 = m - i
  OBVIOUS
<1>4. ASSUME NEW j \in T PROVE j <= i
  <2>1. m - j \in R
    OBVIOUS
  <2>2. m - i <= m - j
    BY <2>1, <1>2, <1>3
  <2>3. i \in Nat /\ j \in Nat
    OBVIOUS
  <2>4. QED
    BY <2>2, <2>3
<1>5. QED
  BY <1>4

(* The highest digit in which two numbers differ decides.                    *)
LEMMA ValueLess ==
    ASSUME NEW d \in [Index -> Digit], NEW e \in [Index -> Digit], NEW i \in Index,
           d[i] < e[i], \A j \in Index : j > i => d[j] = e[j]
    PROVE  Value(d, MaxSize) < Value(e, MaxSize)
<1> DEFINE n == MaxSize - (i + 1)
           T == {k \in 0 .. n : Value(d, (i + 1) + k) < Value(e, (i + 1) + k)}
<1>1. /\ MaxSize \in Nat /\ i \in 0 .. MaxSize - 1 /\ i \in 0 .. MaxSize /\ n \in Nat
      /\ (i + 1) + n = MaxSize /\ (i + 1) + 0 = i + 1
  BY PowAssumption DEF Index
<1>2. 0 \in T
  <2> DEFINE x == Value(d, i)  x2 == Value(e, i)  wt == Pow[i]
  <2>1. /\ x \in Nat /\ x < wt /\ x2 \in Nat /\ wt \in Nat /\ d[i] \in Nat /\ e[i] \in Nat
        /\ Value(d, i + 1) = x + d[i] * wt /\ Value(e, i + 1) = x2 + e[i] * wt
    <3>1. d[i] \in Digit /\ e[i] \in Digit /\ d[i] \in Nat /\ e[i] \in Nat /\ wt \in Nat
      BY <1>1, PowAssumption, BAssumption DEF Digit
    <3>2. x \in Nat /\ x < wt /\ x2 \in Nat
      BY <1>1, ValueNat, ValueBound
    <3>3. Value(d, i + 1) = x + d[i] * wt /\ Value(e, i + 1) = x2 + e[i] * wt
      BY <1>1, ValueStep
    <3>4. QED
      BY <3>1, <3>2, <3>3
  <2> HIDE DEF x, x2, wt
  <2>2. e[i] - (d[i] + 1) \in Nat /\ e[i] = (d[i] + 1) + (e[i] - (d[i] + 1))
    BY <2>1
  <2>3. e[i] * wt = (d[i] + 1) * wt + (e[i] - (d[i] + 1)) * wt
    BY <2>1, <2>2, Distributes
  <2>4. (d[i] + 1) * wt = d[i] * wt + wt
    BY <2>1
  <2>5. (e[i] - (d[i] + 1)) * wt \in Nat /\ d[i] * wt \in Nat /\ e[i] * wt \in Nat
    BY <2>1, <2>2
  <2>6. x + d[i] * wt < x2 + e[i] * wt
    <3> DEFINE u == d[i] * wt  v == e[i] * wt  w == (e[i] - (d[i] + 1)) * wt  z == (d[i] + 1) * wt
    <3>1. u \in Nat /\ v \in Nat /\ w \in Nat /\ v = z + w /\ z = u + wt
      BY <2>3, <2>4, <2>5
    <3> HIDE DEF u, v, w, z
    <3>2. x + u < x2 + v
      BY <3>1, <2>1
    <3>3. QED
      BY <3>2 DEF u, v
  <2>7. QED
    BY <2>1, <2>6, <1>1
<1>3. ASSUME NEW k \in 0 .. n - 1, k \in T PROVE k + 1 \in T
  <2>1. /\ (i + 1) + k \in Index /\ (i + 1) + k > i /\ (i + 1) + k \in 0 .. MaxSize - 1
        /\ (i + 1) + (k + 1) = ((i + 1) + k) + 1 /\ k + 1 \in 0 .. n /\ (i + 1) + k \in 0 .. MaxSize
    BY <1>1 DEF Index
  <2> DEFINE j == (i + 1) + k
  <2>2. Value(d, j + 1) = Value(d, j) + d[j] * Pow[j] /\ Value(e, j + 1) = Value(e, j) + e[j] * Pow[j]
    BY <2>1, ValueStep
  <2>3. d[j] = e[j] /\ Value(d, j) \in Nat /\ Value(e, j) \in Nat /\ d[j] * Pow[j] \in Nat
    <3>1. d[j] \in Digit /\ Pow[j] \in Nat
      BY <2>1, PowAssumption
    <3>2. QED
      BY <3>1, <2>1, ValueNat, DigitTimesWeight
  <2>4. Value(d, j) < Value(e, j)
    BY <1>3
  <2> HIDE DEF j
  <2>5. Value(d, j + 1) < Value(e, j + 1)
    BY <2>2, <2>3, <2>4
  <2>6. QED
    BY <2>1, <2>5 DEF j
<1> HIDE DEF T
<1>4. 0 .. n \subseteq T
  BY <1>1, <1>2, <1>3, BoundedInduction
<1>5. n \in T
  BY <1>4, <1>1
<1>6. QED
  BY <1>5, <1>1 DEF T

(* Equal digits, equal values; no digit, no value.                           *)
LEMMA ZeroValue ==
    ASSUME NEW d \in [Index -> Digit]
    PROVE  /\ Value(d, MaxSize) \in Nat
           /\ (\A i \in Index : d[i] = 0) <=> Value(d, MaxSize) = 0
<1>1. MaxSize \in Nat /\ MaxSize \in 0 .. MaxSize /\ 0 \in 0 .. MaxSize
  BY PowAssumption
<1>2. Value(d, MaxSize) \in Nat
  BY <1>1, ValueNat
<1>3. ASSUME \A i \in Index : d[i] = 0 PROVE Value(d, MaxSize) = 0
  <2>1. \A k \in 0 .. MaxSize - 1 : d[k] = 0
    BY <1>3 DEF Index
  <2>2. Value(d, MaxSize) = Value(d, 0)
    BY <1>1, <2>1, ValueTrim
  <2>3. QED
    BY <2>2, ValueZero
<1>4. ASSUME NEW k \in Index, d[k] # 0 PROVE Value(d, MaxSize) # 0
  <2> DEFINE T == {j \in Index : d[j] # 0}
             z == [j \in Index |-> 0]
  <2>1. T \subseteq 0 .. MaxSize /\ T # {}
    BY <1>1, <1>4 DEF Index
  <2>2. PICK i \in T : \A j \in T : j <= i
    BY <1>1, <2>1, Greatest
  <2>3. z \in [Index -> Digit] /\ i \in Index
    BY BAssumption DEF Digit
  <2>4. z[i] < d[i]
    <3>1. d[i] \in Nat /\ d[i] # 0 /\ z[i] = 0
      BY <2>3, BAssumption DEF Digit
    <3>2. QED
      BY <3>1
  <2>5. ASSUME NEW j \in Index, j > i PROVE z[j] = d[j]
    <3>1. ~(j <= i)
      BY <2>3, <2>5, <1>1 DEF Index
    <3>2. j \notin T
      BY <3>1, <2>2
    <3>3. QED
      BY <3>2
  <2> HIDE DEF z
  <2>6. Value(z, MaxSize) < Value(d, MaxSize)
    BY <2>3, <2>4, <2>5, ValueLess
  <2>7. Value(z, MaxSize) \in Nat
    BY <1>1, <2>3, ValueNat
  <2>8. QED
    BY <2>6, <2>7, <1>2
<1>5. QED
  BY <1>2, <1>3, <1>4

LEMMA AbsValueFacts ==
    ASSUME NEW x \in Numbers
    PROVE  /\ AbsValue(x) = Value(Padded(x), MaxSize) /\ AbsValue(x) \in Nat
           /\ is_zero(x) <=> AbsValue(x) = 0
<1>1. AbsValue(x) = Value(Padded(x), MaxSize)
  BY DEF AbsValue, Padded
<1>2. /\ Padded(x) \in [Index -> Digit] /\ DOMAIN x.digs = 0 .. size(x) - 1 /\ size(x) \in 1 .. MaxSize
      /\ \A i \in Index : i < size(x) => Padded(x)[i] = x.digs[i]
      /\ \A i \in Index : i >= size(x) => Padded(x)[i] = 0
  BY NumberShape
<1>3. is_zero(x) <=> \A i \in Index : Padded(x)[i] = 0
  <2>1. \A i \in 0 .. size(x) - 1 : i \in Index /\ i < size(x)
    BY <1>2, PowAssumption DEF Index
  <2>2. \A i \in Index : i < size(x) => i \in 0 .. size(x) - 1
    BY <1>2 DEF Index
  <2>3. \A i \in Index : i < size(x) \/ i >= size(x)
    BY <1>2, PowAssumption DEF Index
  <2>4. QED
    BY <1>2, <2>1, <2>2, <2>3 DEF is_zero
<1>4. QED
  BY <1>1, <1>2, <1>3, ZeroValue

----------------------------------------------------------------------------
(* The comparison of spans                                                   *)
LEMMA SgnFacts ==
    ASSUME NEW x \in Int, NEW x2 \in Int
    PROVE  /\ x < x2 => Sgn(x, x2) = -1
           /\ x > x2 => Sgn(x, x2) = 1
           /\ x = x2 => Sgn(x, x2) = 0
  BY DEF Sgn

(* The digit at which the loop from the top stops: the highest difference,   *)
(* or digit 0.                                                               *)
Stop(x, x2, m, i) == /\ i = 0 \/ x.digs[i] # x2.digs[i]
                    /\ \A j \in i + 1 .. m - 1 : x.digs[j] = x2.digs[j]

LEMMA StopUnique ==
    ASSUME NEW x, NEW x2, NEW m \in Nat, NEW i \in 0 .. m - 1, NEW k \in 0 .. m - 1,
           Stop(x, x2, m, i), Stop(x, x2, m, k)
    PROVE  i = k
<1>1. ASSUME i < k PROVE FALSE
  <2>1. k \in i + 1 .. m - 1 /\ k # 0
    BY <1>1
  <2>2. QED
    BY <2>1 DEF Stop
<1>2. ASSUME k < i PROVE FALSE
  <2>1. i \in k + 1 .. m - 1 /\ i # 0
    BY <1>2
  <2>2. QED
    BY <2>1 DEF Stop
<1>3. QED
  BY <1>1, <1>2

LEMMA SpanOrderExact ==
    ASSUME NEW x \in Numbers, NEW x2 \in Numbers
    PROVE  SpanOrder(x, x2) = Sgn(AbsValue(x), AbsValue(x2))
<1> DEFINE m == IF size(x) <= size(x2) THEN size(x) ELSE size(x2)
           i == CHOOSE i \in 0 .. m - 1 :
                    /\ i = 0 \/ x.digs[i] # x2.digs[i]
                    /\ \A j \in i + 1 .. m - 1 : x.digs[j] = x2.digs[j]
           d == Padded(x)  e == Padded(x2)  u == AbsValue(x)  v == AbsValue(x2)
           T == {j \in Index : d[j] # e[j]}
<1>1. /\ d \in [Index -> Digit] /\ size(x) \in 1 .. MaxSize
      /\ \A j \in Index : j < size(x) => d[j] = x.digs[j]
      /\ \A j \in Index : j >= size(x) => d[j] = 0
  BY NumberShape
<1>2. /\ e \in [Index -> Digit] /\ size(x2) \in 1 .. MaxSize
      /\ \A j \in Index : j < size(x2) => e[j] = x2.digs[j]
      /\ \A j \in Index : j >= size(x2) => e[j] = 0
  BY NumberShape
<1>3. /\ u = Value(d, MaxSize) /\ v = Value(e, MaxSize) /\ u \in Nat /\ v \in Nat
      /\ is_zero(x) <=> u = 0
      /\ is_zero(x2) <=> v = 0
  BY AbsValueFacts
<1>4. /\ MaxSize \in Nat /\ m \in 1 .. MaxSize /\ m <= size(x) /\ m <= size(x2)
      /\ m = size(x) \/ m = size(x2)
      /\ \A j \in 0 .. m - 1 : j \in Index /\ j < size(x) /\ j < size(x2)
  <2>1. MaxSize \in Nat /\ size(x) \in 1 .. MaxSize /\ size(x2) \in 1 .. MaxSize
    BY <1>1, <1>2, PowAssumption
  <2>2. m \in 1 .. MaxSize /\ m <= size(x) /\ m <= size(x2) /\ (m = size(x) \/ m = size(x2))
    BY <2>1
  <2> HIDE DEF m
  <2>3. \A j \in 0 .. m - 1 : j \in Index /\ j < size(x) /\ j < size(x2)
    BY <2>1, <2>2 DEF Index
  <2>4. QED
    BY <2>1, <2>2, <2>3
<1>5. ASSUME NEW j \in Index, \A k \in Index : k > j => d[k] = e[k]
      PROVE  (d[j] < e[j] => u < v) /\ (e[j] < d[j] => v < u)
  BY <1>1, <1>2, <1>3, <1>5, ValueLess
<1>6. CASE is_zero(x) \/ is_zero(x2)
  BY <1>3, <1>6, SgnFacts DEF SpanOrder
<1>7. CASE ~is_zero(x) /\ ~is_zero(x2)
  <2>1. SpanOrder(x, x2) = IF \E j \in m .. size(x) - 1 : x.digs[j] # 0 THEN 1
                          ELSE IF \E j \in m .. size(x2) - 1 : x2.digs[j] # 0 THEN -1
                          ELSE Sgn(x.digs[i], x2.digs[i])
    BY <1>7 DEF SpanOrder
  <2>2. ASSUME NEW k \in 0 .. m - 1, Stop(x, x2, m, k) PROVE i = k /\ i \in 0 .. m - 1
    <3>1. \E j \in 0 .. m - 1 : Stop(x, x2, m, j)
      BY <2>2
    <3>2. i \in 0 .. m - 1 /\ Stop(x, x2, m, i)
      BY <3>1 DEF Stop
    <3>3. m \in Nat
      BY <1>4
    <3> HIDE DEF i, m
    <3>4. QED
      BY <2>2, <3>2, <3>3, StopUnique
  <2> HIDE DEF i
  <2>3. \A j \in m .. size(x) - 1 : j \in Index /\ j < size(x) /\ j >= size(x2) /\ d[j] = x.digs[j] /\ e[j] = 0
    <3>1. ASSUME NEW j \in m .. size(x) - 1 PROVE j \in Index /\ j < size(x) /\ j >= size(x2)
      BY <1>1, <1>2, <1>4 DEF Index
    <3>2. QED
      BY <3>1, <1>1, <1>2
  <2>4. \A j \in m .. size(x2) - 1 : j \in Index /\ j < size(x2) /\ j >= size(x) /\ e[j] = x2.digs[j] /\ d[j] = 0
    <3>1. ASSUME NEW j \in m .. size(x2) - 1 PROVE j \in Index /\ j < size(x2) /\ j >= size(x)
      BY <1>1, <1>2, <1>4 DEF Index
    <3>2. QED
      BY <3>1, <1>1, <1>2
  <2>5. \A j \in 0 .. m - 1 : j \in Index /\ d[j] = x.digs[j] /\ e[j] = x2.digs[j]
    BY <1>1, <1>2, <1>4
  <2>6. CASE T = {}
    <3>1. \A j \in Index : d[j] = e[j]
      BY <2>6
    <3>2. u = v
      <4>1. d = e
        BY <3>1, <1>1, <1>2
      <4>2. QED
        BY <4>1, <1>3
    <3>3. Stop(x, x2, m, 0) /\ 0 \in 0 .. m - 1
      <4>1. \A j \in 0 + 1 .. m - 1 : j \in 0 .. m - 1
        BY <1>4
      <4>2. QED
        BY <4>1, <2>5, <3>1, <1>4 DEF Stop
    <3>4. i \in 0 .. m - 1
      BY <2>2, <3>3
    <3>5. x.digs[i] = x2.digs[i] /\ x.digs[i] \in Int
      <4>1. i \in Index /\ x.digs[i] = d[i] /\ x2.digs[i] = e[i]
        BY <3>4, <2>5
      <4>2. d[i] \in Digit
        BY <4>1, <1>1
      <4>3. QED
        BY <4>1, <4>2, <3>1, BAssumption DEF Digit
    <3>6. SpanOrder(x, x2) = Sgn(x.digs[i], x2.digs[i])
      <4>1. \A j \in m .. size(x) - 1 : x.digs[j] = 0
        BY <2>3, <3>1
      <4>2. \A j \in m .. size(x2) - 1 : x2.digs[j] = 0
        BY <2>4, <3>1
      <4>3. QED
        BY <2>1, <4>1, <4>2
    <3>7. QED
      BY <3>2, <3>5, <3>6, <1>3, SgnFacts
  <2>7. CASE T # {}
    <3>1. T \subseteq 0 .. MaxSize
      BY <1>4 DEF Index
    <3>2. PICK t \in T : \A j \in T : j <= t
      BY <3>1, <2>7, <1>4, Greatest
    <3>3. t \in Index /\ d[t] # e[t] /\ t \in Nat /\ d[t] \in Nat /\ e[t] \in Nat
      <4>1. t \in Index /\ d[t] # e[t] /\ d[t] \in Digit /\ e[t] \in Digit
        BY <1>1, <1>2
      <4>2. QED
        BY <4>1, BAssumption DEF Digit, Index
    <3>4. \A j \in Index : j > t => d[j] = e[j]
      <4>1. ASSUME NEW j \in Index, j > t PROVE d[j] = e[j]
        <5>1. ~(j <= t)
          BY <4>1, <3>3 DEF Index
        <5>2. j \notin T
          BY <5>1, <3>2
        <5>3. QED
          BY <5>2
      <4>2. QED
        BY <4>1
    <3>5. (d[t] < e[t] => u < v) /\ (e[t] < d[t] => v < u)
      BY <3>3, <3>4, <1>5
    <3> HIDE DEF T
    <3>6. CASE t >= size(x) \/ t >= size(x2)
      <4>1. CASE t >= size(x)
        <5>1. d[t] = 0 /\ u < v /\ e[t] # 0
          <6>1. d[t] = 0
            BY <4>1, <1>1, <3>3
          <6>2. QED
            BY <6>1, <3>3, <3>5
        <5>2. t < size(x2)
          BY <5>1, <1>2, <3>3
        <5>3. m = size(x) /\ t \in m .. size(x2) - 1
          BY <5>2, <4>1, <1>1, <1>2, <3>3
        <5>4. \A j \in m .. size(x) - 1 : x.digs[j] = 0
          <6>1. m .. size(x) - 1 = {}
            BY <5>3, <1>1
          <6>2. QED
            BY <6>1
        <5>5. x2.digs[t] # 0
          BY <5>1, <5>3, <2>4
        <5>6. QED
          BY <2>1, <5>1, <5>3, <5>4, <5>5, <1>3, SgnFacts
      <4>2. CASE t >= size(x2)
        <5>1. e[t] = 0 /\ v < u /\ d[t] # 0
          <6>1. e[t] = 0
            BY <4>2, <1>2, <3>3
          <6>2. QED
            BY <6>1, <3>3, <3>5
        <5>2. t < size(x)
          BY <5>1, <1>1, <3>3
        <5>3. m = size(x2) /\ t \in m .. size(x) - 1
          BY <5>2, <4>2, <1>1, <1>2, <3>3
        <5>4. x.digs[t] # 0
          BY <5>1, <5>3, <2>3
        <5>5. QED
          BY <2>1, <5>1, <5>3, <5>4, <1>3, SgnFacts
      <4>3. QED
        BY <3>6, <4>1, <4>2
    <3>7. CASE t < size(x) /\ t < size(x2)
      <4>1. t \in 0 .. m - 1
        BY <3>7, <3>3, <1>4
      <4>2. \A j \in m .. size(x) - 1 : j > t
        BY <4>1, <1>1, <1>4
      <4>3. \A j \in m .. size(x2) - 1 : j > t
        BY <4>1, <1>2, <1>4
      <4>4. \A j \in m .. size(x) - 1 : x.digs[j] = 0
        BY <4>2, <2>3, <3>4
      <4>5. \A j \in m .. size(x2) - 1 : x2.digs[j] = 0
        BY <4>3, <2>4, <3>4
      <4>6. SpanOrder(x, x2) = Sgn(x.digs[i], x2.digs[i])
        BY <2>1, <4>4, <4>5
      <4>7. x.digs[t] = d[t] /\ x2.digs[t] = e[t]
        BY <4>1, <2>5
      <4>8. Stop(x, x2, m, t)
        <5>1. \A j \in t + 1 .. m - 1 : j \in 0 .. m - 1 /\ j > t
          BY <4>1, <1>4, <3>3
        <5>2. \A j \in t + 1 .. m - 1 : x.digs[j] = x2.digs[j]
          BY <5>1, <2>5, <3>4
        <5>3. QED
          BY <5>2, <4>7, <3>3 DEF Stop
      <4>9. i = t
        BY <4>8, <4>1, <2>2
      <4>10. SpanOrder(x, x2) = Sgn(d[t], e[t])
        BY <4>6, <4>7, <4>9
      <4>11. d[t] < e[t] \/ e[t] < d[t]
        BY <3>3
      <4>12. CASE d[t] < e[t]
        BY <4>10, <4>12, <3>5, <3>3, <1>3, SgnFacts
      <4>13. CASE e[t] < d[t]
        BY <4>10, <4>13, <3>5, <3>3, <1>3, SgnFacts
      <4>14. QED
        BY <4>11, <4>12, <4>13
    <3>8. QED
      BY <3>6, <3>7, <1>1, <1>2, <3>3
  <2>8. QED
    BY <2>6, <2>7
<1>8. QED
  BY <1>6, <1>7

(* The order of two numbers: by magnitude when both are negative, by value   *)
(* otherwise.                                                                *)
LEMMA BigOrderExact ==
    ASSUME NEW x \in Numbers, NEW x2 \in Numbers
    PROVE  /\ NumberOf(x) \in Int /\ NumberOf(x2) \in Int
           /\ BigOrder(x, x2) = IF NumberOf(x) < 0 /\ NumberOf(x2) < 0
                               THEN Sgn(NumberOf(x2), NumberOf(x))
                               ELSE Sgn(NumberOf(x), NumberOf(x2))
<1> DEFINE u == AbsValue(x)  v == AbsValue(x2)
<1>1. u \in Nat /\ v \in Nat /\ (is_zero(x) <=> u = 0) /\ (is_zero(x2) <=> v = 0)
  BY AbsValueFacts
<1>2. x.neg \in BOOLEAN /\ x2.neg \in BOOLEAN
  BY NumberShape
<1>3. /\ NumberOf(x) = IF x.neg THEN -u ELSE u
      /\ NumberOf(x2) = IF x2.neg THEN -v ELSE v
  BY DEF NumberOf
<1>4. /\ is_neg(x) <=> (u # 0 /\ x.neg)
      /\ is_pos(x2) <=> (v # 0 /\ ~x2.neg)
  BY <1>1 DEF is_neg, is_pos
<1>5. SpanOrder(x, x2) = Sgn(u, v)
  BY SpanOrderExact
<1>6. BigOrder(x, x2) = IF u = 0 /\ v = 0 THEN 0
                       ELSE IF u # 0 /\ v # 0 /\ x.neg = x2.neg THEN Sgn(u, v)
                       ELSE IF (u # 0 /\ x.neg) \/ (v # 0 /\ ~x2.neg) THEN -1 ELSE 1
  BY <1>1, <1>4, <1>5 DEF BigOrder
<1> HIDE DEF u, v
<1>7. CASE x.neg = TRUE /\ x2.neg = TRUE
  <2>1. x.neg = x2.neg /\ x.neg /\ x2.neg
    BY <1>7
  <2>2. BigOrder(x, x2) = IF u = 0 /\ v = 0 THEN 0
                         ELSE IF u # 0 /\ v # 0 THEN Sgn(u, v)
                         ELSE IF u # 0 THEN -1 ELSE 1
    BY <1>6, <2>1, Zenon
  <2>3. NumberOf(x) = -u /\ NumberOf(x2) = -v
    BY <1>3, <2>1, Zenon
  <2>4. QED
    BY <1>1, <2>2, <2>3 DEF Sgn
<1>8. CASE x.neg = FALSE /\ x2.neg = TRUE
  <2>1. ~(x.neg = x2.neg) /\ ~x.neg /\ x2.neg
    BY <1>8
  <2>2. BigOrder(x, x2) = IF u = 0 /\ v = 0 THEN 0 ELSE 1
    BY <1>6, <2>1, Zenon
  <2>3. NumberOf(x) = u /\ NumberOf(x2) = -v
    BY <1>3, <2>1, Zenon
  <2>4. ~(NumberOf(x) < 0) /\ NumberOf(x) \in Int /\ NumberOf(x2) \in Int
    BY <1>1, <2>3
  <2>5. BigOrder(x, x2) = Sgn(u, -v)
    BY <1>1, <2>2 DEF Sgn
  <2>6. QED
    BY <2>3, <2>4, <2>5, Zenon
<1>9. CASE x.neg = TRUE /\ x2.neg = FALSE
  BY <1>1, <1>3, <1>6, <1>9 DEF Sgn
<1>10. CASE x.neg = FALSE /\ x2.neg = FALSE
  <2>1. x.neg = x2.neg /\ ~x.neg /\ ~x2.neg
    BY <1>10
  <2>2. BigOrder(x, x2) = IF u = 0 /\ v = 0 THEN 0
                         ELSE IF u # 0 /\ v # 0 THEN Sgn(u, v)
                         ELSE IF v # 0 THEN -1 ELSE 1
    BY <1>6, <2>1, Zenon
  <2>3. NumberOf(x) = u /\ NumberOf(x2) = v
    BY <1>3, <2>1, Zenon
  <2>4. QED
    BY <1>1, <2>2, <2>3 DEF Sgn
<1>11. (x.neg = TRUE \/ x.neg = FALSE) /\ (x2.neg = TRUE \/ x2.neg = FALSE)
  BY <1>2
<1>12. QED
  BY <1>7, <1>8, <1>9, <1>10, <1>11, Zenon

----------------------------------------------------------------------------
(* Comparison with an integer                                                *)
LEMMA OneDigit ==
    ASSUME NEW x \in Numbers, size(x) = 1
    PROVE  AbsValue(x) = x.digs[0] /\ x.digs[0] \in Digit
<1> DEFINE d == Padded(x)
<1>1. /\ d \in [Index -> Digit] /\ x.digs \in [0 .. 0 -> Digit]
      /\ \A i \in Index : i < 1 => d[i] = x.digs[i]
      /\ \A i \in Index : i >= 1 => d[i] = 0
  <2>1. size(x) - 1 = 0
    OBVIOUS
  <2>2. /\ d \in [Index -> Digit] /\ x.digs \in [0 .. size(x) - 1 -> Digit]
        /\ \A i \in Index : i < size(x) => d[i] = x.digs[i]
        /\ \A i \in Index : i >= size(x) => d[i] = 0
    BY NumberShape
  <2> HIDE DEF d
  <2>3. QED
    BY <2>1, <2>2
<1>2. MaxSize \in Nat /\ MaxSize >= 1 /\ 0 \in Index
  BY PowAssumption, CompareAssumption DEF Index
<1>3. AbsValue(x) = Value(d, MaxSize)
  BY AbsValueFacts
<1>4. \A k \in 1 .. MaxSize - 1 : d[k] = 0
  BY <1>1, <1>2 DEF Index
<1>5. Value(d, MaxSize) = Value(d, 1)
  <2>1. MaxSize \in 0 .. MaxSize /\ 1 \in 0 .. MaxSize
    BY <1>2
  <2>2. QED
    BY <2>1, <1>1, <1>4, ValueTrim
<1>6. Value(d, 0 + 1) = Value(d, 0) + d[0] * Pow[0] /\ Value(d, 0) = 0 /\ Pow[0] = 1
  <2>1. 0 \in 0 .. MaxSize - 1
    BY <1>2
  <2>2. QED
    BY <2>1, <1>1, ValueStep, ValueZero, PowAssumption
<1>7. d[0] = x.digs[0] /\ x.digs[0] \in Digit
  BY <1>1, <1>2
<1>8. x.digs[0] \in Int
  BY <1>7, BAssumption DEF Digit
<1> HIDE DEF d
<1>9. QED
  BY <1>3, <1>5, <1>6, <1>7, <1>8

(* A number whose second or a higher digit is not zero is larger than any    *)
(* digit.                                                                    *)
LEMMA ManyDigits ==
    ASSUME NEW x \in Numbers, size(x) > 1, x.digs[size(x) - 1] # 0
    PROVE  AbsValue(x) \in Nat /\ AbsValue(x) >= B
<1> DEFINE d == Padded(x)  k == size(x) - 1
<1>1. /\ d \in [Index -> Digit] /\ size(x) \in 1 .. MaxSize
      /\ \A i \in Index : i < size(x) => d[i] = x.digs[i]
      /\ \A i \in Index : i >= size(x) => d[i] = 0
  BY NumberShape
<1>2. MaxSize \in Nat /\ k \in Index /\ k \in 1 .. MaxSize - 1 /\ k + 1 = size(x) /\ k + 1 \in 0 .. MaxSize
  BY <1>1, PowAssumption DEF Index
<1>3. d[k] \in Nat /\ d[k] >= 1
  <2>1. d[k] \in Digit /\ d[k] # 0
    BY <1>1, <1>2
  <2>2. QED
    BY <2>1, BAssumption DEF Digit
<1>4. Pow[k] \in Nat /\ Pow[k] >= B
  <2>1. Pow[0 + 1] = B * Pow[0] /\ Pow[0] = 1
    BY <1>2, PowAssumption
  <2>2. Pow[1] = B
    BY <2>1, BAssumption
  <2>3. Pow[1] <= Pow[k] /\ Pow[k] \in Nat
    BY <1>2, PowGrows, PowAssumption
  <2>4. QED
    BY <2>2, <2>3, BAssumption
<1>5. AbsValue(x) = Value(d, MaxSize)
  BY AbsValueFacts
<1>6. Value(d, MaxSize) = Value(d, k + 1)
  <2>1. \A j \in k + 1 .. MaxSize - 1 : d[j] = 0
    BY <1>1, <1>2 DEF Index
  <2>2. MaxSize \in 0 .. MaxSize /\ k + 1 \in 0 .. MaxSize
    BY <1>2
  <2>3. QED
    BY <2>1, <2>2, <1>1, ValueTrim
<1>7. Value(d, k + 1) = Value(d, k) + d[k] * Pow[k] /\ Value(d, k) \in Nat
  BY <1>1, <1>2, ValueStep, ValueNat
<1>8. d[k] * Pow[k] >= B /\ d[k] * Pow[k] \in Nat
  <2>1. 1 * Pow[k] <= d[k] * Pow[k]
    BY <1>3, <1>4, MulMonotone
  <2>2. d[k] * Pow[k] \in Nat
    BY <1>3, <1>4
  <2> DEFINE w == d[k] * Pow[k]
  <2> HIDE DEF w
  <2>3. QED
    BY <2>1, <2>2, <1>4, BAssumption DEF w
<1> DEFINE w == d[k] * Pow[k]  r0 == Value(d, k)
<1>9. AbsValue(x) = r0 + w /\ r0 \in Nat /\ w \in Nat /\ w >= B
  BY <1>5, <1>6, <1>7, <1>8
<1> HIDE DEF w, r0
<1>10. QED
  BY <1>9, BAssumption

LEMMA IntNumber ==
    ASSUME NEW k \in 1 - B .. B - 1
    PROVE  FromInt(k) \in Numbers /\ NumberOf(FromInt(k)) = k
<1> DEFINE f == FromInt(k)  w == IF k < 0 THEN -k ELSE k
<1>1. w \in Digit /\ k \in Int /\ w \in Int
  BY BAssumption DEF Digit
<1>2. f \in Numbers /\ f.digs[0] = w /\ f.neg = (k < 0) /\ DOMAIN f.digs = 0 .. 0
  <2>1. 0 .. 0 = {0} /\ 1 \in 1 .. MaxSize /\ 1 - 1 = 0
    BY PowAssumption, CompareAssumption
  <2>2. f.digs \in [0 .. 1 - 1 -> Digit] /\ f.digs[0] = w /\ f.neg = (k < 0) /\ DOMAIN f.digs = 0 .. 0
    BY <2>1, <1>1 DEF FromInt
  <2>3. f \in [digs : [0 .. 1 - 1 -> Digit], neg : BOOLEAN]
    BY <2>1, <1>1 DEF FromInt
  <2>4. QED
    BY <2>1, <2>2, <2>3 DEF Numbers
<1>3. size(f) = 1
  <2>1. Cardinality(0 .. 0) = 1
    <3>1. 0 \in Int /\ ~(0 > 0) /\ 0 - 0 + 1 = 1
      OBVIOUS
    <3>2. QED
      BY <3>1, FS_Interval
  <2>2. QED
    BY <1>2, <2>1 DEF size
<1>4. AbsValue(f) = w
  <2> HIDE DEF f, w
  <2>1. QED
    BY <1>2, <1>3, OneDigit
<1>5. NumberOf(f) = IF k < 0 THEN -w ELSE w
  BY <1>2, <1>4 DEF NumberOf
<1>6. QED
  BY <1>1, <1>2, <1>5

(* Comparison with an integer: one digit as by BigOrder with the BigInt of   *)
(* that integer, several digits by value.                                    *)
LEMMA IntOrderExact ==
    ASSUME NEW x \in Numbers, NEW k \in 1 - B .. B - 1, CanonicalNumber(x)
    PROVE  IntOrder(x, k) = IF size(x) = 1 THEN BigOrder(x, FromInt(k)) ELSE Sgn(NumberOf(x), k)
<1> DEFINE u == AbsValue(x)  N == NumberOf(x)
<1>1. u \in Nat /\ k \in Int /\ B \in Nat /\ x.neg \in BOOLEAN /\ size(x) \in 1 .. MaxSize
  BY AbsValueFacts, NumberShape, BAssumption
<1>2. is_zero(x) <=> u = 0
  BY AbsValueFacts
<1>3. N = IF x.neg THEN -u ELSE u
  BY DEF NumberOf
<1>4. (x.neg = TRUE /\ ~is_zero(x) /\ is_neg(x)) \/ (x.neg = FALSE /\ ~is_neg(x))
  BY <1>1 DEF CanonicalNumber, is_neg
<1>5. CASE size(x) = 1
  <2>1. u = x.digs[0]
    BY <1>5, OneDigit
  <2>2. IntOrder(x, k) = IF is_neg(x) THEN IF k < 0 THEN Sgn(u, -k) ELSE -1
                         ELSE IF k < 0 THEN 1 ELSE Sgn(u, k)
    BY <1>5, <2>1 DEF IntOrder
  <2>3. FromInt(k) \in Numbers /\ NumberOf(FromInt(k)) = k
    BY IntNumber
  <2>4. BigOrder(x, FromInt(k)) = IF N < 0 /\ k < 0 THEN Sgn(k, N) ELSE Sgn(N, k)
    BY <2>3, BigOrderExact
  <2> HIDE DEF u, N
  <2>5. CASE x.neg = TRUE /\ ~is_zero(x) /\ is_neg(x)
    <3>1. u # 0 /\ N = -u /\ N < 0
      BY <2>5, <1>1, <1>2, <1>3
    <3>2. IntOrder(x, k) = IF k < 0 THEN Sgn(u, -k) ELSE -1
      BY <2>5, <2>2
    <3>3. IntOrder(x, k) = IF N < 0 /\ k < 0 THEN Sgn(k, N) ELSE Sgn(N, k)
      BY <3>1, <3>2, <1>1 DEF Sgn
    <3>4. QED
      BY <3>3, <2>4, <1>5
  <2>6. CASE x.neg = FALSE /\ ~is_neg(x)
    <3>1. N = u
      BY <2>6, <1>3
    <3>2. IntOrder(x, k) = IF k < 0 THEN 1 ELSE Sgn(u, k)
      BY <2>6, <2>2
    <3>3. IntOrder(x, k) = IF N < 0 /\ k < 0 THEN Sgn(k, N) ELSE Sgn(N, k)
      BY <3>1, <3>2, <1>1 DEF Sgn
    <3>4. QED
      BY <3>3, <2>4, <1>5
  <2>7. QED
    BY <1>4, <2>5, <2>6
<1>6. CASE size(x) > 1
  <2>1. u >= B
    BY <1>6, ManyDigits DEF CanonicalNumber
  <2>2. IntOrder(x, k) = IF is_neg(x) THEN -1 ELSE 1
    BY <1>6 DEF IntOrder
  <2>3. size(x) # 1
    BY <1>6, <1>1
  <2> HIDE DEF u, N
  <2>4. CASE x.neg = TRUE /\ ~is_zero(x) /\ is_neg(x)
    <3>1. N = -u /\ N < k
      BY <2>4, <1>1, <1>3, <2>1
    <3>2. QED
      BY <2>2, <2>3, <2>4, <3>1, <1>1, SgnFacts DEF N
  <2>5. CASE x.neg = FALSE /\ ~is_neg(x)
    <3>1. N = u /\ N > k
      BY <2>5, <1>1, <1>3, <2>1
    <3>2. QED
      BY <2>2, <2>3, <2>5, <3>1, <1>1, SgnFacts DEF N
  <2>6. QED
    BY <1>4, <2>4, <2>5
<1>7. QED
  BY <1>1, <1>5, <1>6

----------------------------------------------------------------------------
(* What is asked and what is answered                                        *)
CInv == /\ num \in [{"a", "b", "c"} -> Numbers] /\ int \in Ints
        /\ Asked => /\ order = [wt \in Compared |-> BigOrder(num[wt[1]], num[wt[2]])]
                    /\ ordInt = IntOrder(num["a"], int)

LEMMA AskedAnswers ==
    ASSUME CInv, Asked
    PROVE  /\ num["a"] \in Numbers /\ num["b"] \in Numbers /\ num["c"] \in Numbers
           /\ order[<<"a", "b">>] = BigOrder(num["a"], num["b"])
           /\ order[<<"b", "a">>] = BigOrder(num["b"], num["a"])
           /\ order[<<"b", "c">>] = BigOrder(num["b"], num["c"])
           /\ order[<<"a", "c">>] = BigOrder(num["a"], num["c"])
<1>1. order = [wt \in Compared |-> BigOrder(num[wt[1]], num[wt[2]])]
  BY DEF CInv
<1>2. ASSUME NEW wt \in Compared PROVE order[wt] = BigOrder(num[wt[1]], num[wt[2]])
  BY <1>1
<1>3. <<"a", "b">> \in Compared /\ <<"b", "a">> \in Compared /\ <<"b", "c">> \in Compared /\ <<"a", "c">> \in Compared
  BY DEF Compared
<1>4. /\ order[<<"a", "b">>] = BigOrder(num["a"], num["b"])
      /\ order[<<"b", "a">>] = BigOrder(num["b"], num["a"])
      /\ order[<<"b", "c">>] = BigOrder(num["b"], num["c"])
      /\ order[<<"a", "c">>] = BigOrder(num["a"], num["c"])
  BY <1>2, <1>3
<1>5. QED
  BY <1>4 DEF CInv

(* The order by values, where both orders of the code are one formula.       *)
ByValue(v, w) == IF v < 0 /\ w < 0 THEN Sgn(w, v) ELSE Sgn(v, w)

LEMMA AnswersByValue ==
    ASSUME CInv, Asked
    PROVE  /\ val("a") \in Int /\ val("b") \in Int /\ val("c") \in Int
           /\ order[<<"a", "b">>] = ByValue(val("a"), val("b"))
           /\ order[<<"b", "a">>] = ByValue(val("b"), val("a"))
           /\ order[<<"b", "c">>] = ByValue(val("b"), val("c"))
           /\ order[<<"a", "c">>] = ByValue(val("a"), val("c"))
  BY AskedAnswers, BigOrderExact DEF val, ByValue

(* ByValue is a total order of the integers.                                 *)
LEMMA ByValueOrders ==
    ASSUME NEW u \in Int, NEW v \in Int, NEW w \in Int
    PROVE  /\ ByValue(v, u) = -ByValue(u, v)
           /\ ByValue(u, v) = 0 <=> u = v
           /\ ByValue(u, v) <= 0 /\ ByValue(v, w) <= 0 => ByValue(u, w) <= 0
<1>1. ByValue(v, u) = -ByValue(u, v)
  BY DEF ByValue, Sgn
<1>2. ByValue(u, v) = 0 <=> u = v
  BY DEF ByValue, Sgn
<1>3. ASSUME ByValue(u, v) <= 0, ByValue(v, w) <= 0 PROVE ByValue(u, w) <= 0
  BY <1>3 DEF ByValue, Sgn
<1>4. QED
  BY <1>1, <1>2, <1>3

(* A question is answered once, by the operators above, and no answer        *)
(* changes afterwards.                                                       *)
THEOREM CompareInductive == CompareSpec => []CInv
<1>1. CompareInit => CInv
  BY DEF CompareInit, Unasked, CInv, Asked
<1>2. CInv /\ [CompareNext]_compareVars => CInv'
  <2> SUFFICES ASSUME CInv, [CompareNext]_compareVars PROVE CInv'
    OBVIOUS
  <2>1. CASE Ask
    BY <2>1 DEF Ask, CInv, Asked
  <2>2. CASE UNCHANGED compareVars
    BY <2>2, Zenon DEF CInv, Asked, compareVars
  <2>3. QED
    BY <2>1, <2>2 DEF CompareNext, Answered
<1>3. QED
  BY <1>1, <1>2, PTL DEF CompareSpec

(* operator<=> of BigInts goes by the values unless both are negative, with  *)
(* any leading zeros and zero signs, in any base and for any number of       *)
(* digits.                                                                   *)
THEOREM ValuesOrdered == CompareSpec => []OrderByValue
<1>1. CInv => OrderByValue
  BY AnswersByValue, Zenon DEF OrderByValue, ByValue
<1>2. QED
  BY <1>1, CompareInductive, PTL

(* operator<=> of BigInts is a total order of the numbers, -5 > -3 included: *)
(* sorted containers may rely on it.                                         *)
THEOREM OrderIsTotal == CompareSpec => []TotalOrder
<1>1. CInv => TotalOrder
  BY AnswersByValue, ByValueOrders DEF TotalOrder
<1>2. QED
  BY <1>1, CompareInductive, PTL

(* operator<=> of a BigInt and an integer agrees with the one of BigInts for *)
(* one digit, and goes by value for more.                                    *)
THEOREM IntegersAgree == CompareSpec => []IntAgrees
<1>1. CInv => IntAgrees
  <2> SUFFICES ASSUME CInv, Asked, CanonicalNumber(num["a"])
               PROVE  ordInt = IF size(num["a"]) = 1 THEN BigOrder(num["a"], FromInt(int))
                               ELSE Sgn(val("a"), int)
    BY DEF IntAgrees
  <2>1. num["a"] \in Numbers /\ int \in 1 - B .. B - 1 /\ ordInt = IntOrder(num["a"], int)
    BY CompareAssumption DEF CInv
  <2>2. QED
    BY <2>1, IntOrderExact DEF val
<1>2. QED
  BY <1>1, CompareInductive, PTL

----------------------------------------------------------------------------
(* Exp follows its recursion.                                                *)
LEMMA ExpRecursion ==
    ASSUME NEW b \in Int, NEW e \in Nat
    PROVE  \E g \in [0 .. e -> Int] :
               g[0] = 1 /\ (\A k \in 0 .. e - 1 : g[k + 1] = b * g[k]) /\ Exp(b, e) = g[e]
<1> DEFINE f == CHOOSE f : f = [k \in 0 .. e |-> IF k = 0 THEN 1 ELSE b * f[k - 1]]
           II == Int
           st == [k \in 1 .. e |-> [s \in II |-> b * s]]
<1>1. Exp(b, e) = f[e]
  BY DEF Exp
<1>2. st \in [1 .. e -> [II -> II]] /\ 1 \in II
  OBVIOUS
<1>2a. \A k \in 1 .. e, s \in Int : st[k][s] = b * s
  OBVIOUS
<1> HIDE DEF II, st
<1>3. PICK g \in [0 .. e -> II] : g[0] = 1 /\ \A k \in 1 .. e : g[k] = st[k][g[k - 1]]
  BY <1>2, RecursionExists
<1>4. g \in [0 .. e -> Int] /\ \A k \in 1 .. e : g[k] = b * g[k - 1]
  <2>1. g \in [0 .. e -> Int]
    BY DEF II
  <2>2. ASSUME NEW k \in 1 .. e PROVE k - 1 \in 0 .. e
    OBVIOUS
  <2>3. QED
    BY <2>1, <2>2, <1>2a, <1>3
<1>5. g = [k \in 0 .. e |-> IF k = 0 THEN 1 ELSE b * g[k - 1]]
  BY <1>3, <1>4
<1>6. f = [k \in 0 .. e |-> IF k = 0 THEN 1 ELSE b * f[k - 1]]
  BY <1>5
<1> HIDE DEF f
<1>7. f[0] = 1 /\ \A k \in 1 .. e : f[k] = b * f[k - 1]
  BY <1>6
<1>8. \A k \in 0 .. e : f[k] = g[k]
  <2>1. ASSUME NEW k \in 0 .. e - 1, f[k] = g[k] PROVE f[k + 1] = g[k + 1]
    <3>1. k + 1 \in 1 .. e /\ (k + 1) - 1 = k
      OBVIOUS
    <3>2. QED
      BY <3>1, <2>1, <1>4, <1>7
  <2>2. f[0] = g[0]
    BY <1>3, <1>7
  <2>3. QED
    BY <2>1, <2>2, SameSteps
<1>9. ASSUME NEW k \in 0 .. e - 1 PROVE g[k + 1] = b * g[k]
  <2>1. k + 1 \in 1 .. e /\ (k + 1) - 1 = k
    OBVIOUS
  <2>2. QED
    BY <2>1, <1>4
<1>10. Exp(b, e) = g[e]
  <2>1. e \in 0 .. e
    OBVIOUS
  <2>2. QED
    BY <2>1, <1>1, <1>8
<1>11. QED
  BY <1>3, <1>4, <1>9, <1>10, Zenon

LEMMA ExpFacts ==
    ASSUME NEW b \in Int, NEW e \in Nat
    PROVE  Exp(b, e) \in Int /\ Exp(b, 0) = 1 /\ Exp(b, e + 1) = b * Exp(b, e)
<1>1. PICK g \in [0 .. e -> Int] :
          g[0] = 1 /\ (\A k \in 0 .. e - 1 : g[k + 1] = b * g[k]) /\ Exp(b, e) = g[e]
  BY ExpRecursion, Zenon
<1>2. PICK h \in [0 .. e + 1 -> Int] :
          h[0] = 1 /\ (\A k \in 0 .. (e + 1) - 1 : h[k + 1] = b * h[k]) /\ Exp(b, e + 1) = h[e + 1]
  <2>1. e + 1 \in Nat
    OBVIOUS
  <2>2. QED
    BY <2>1, ExpRecursion
<1>3. Exp(b, 0) = 1
  <2>1. 0 \in Nat
    OBVIOUS
  <2>2. QED
    BY <2>1, ExpRecursion
<1>4. ASSUME NEW k \in 0 .. e - 1, g[k] = h[k] PROVE g[k + 1] = h[k + 1]
  <2>1. k \in 0 .. (e + 1) - 1
    OBVIOUS
  <2>2. QED
    BY <2>1, <1>1, <1>2, <1>4
<1>5. g[0] = h[0]
  BY <1>1, <1>2
<1>6. \A k \in 0 .. e : g[k] = h[k]
  BY <1>4, <1>5, SameSteps
<1>7. e \in 0 .. e /\ e \in 0 .. (e + 1) - 1
  OBVIOUS
<1>8. g[e] \in Int /\ h[e + 1] = b * h[e] /\ h[e] = g[e]
  BY <1>1, <1>2, <1>6, <1>7
<1>9. QED
  BY <1>1, <1>2, <1>3, <1>8

LEMMA ExpOne ==
    ASSUME NEW b \in Int
    PROVE  Exp(b, 1) = b /\ Exp(b, 2) = b * b
<1>1. Exp(b, 0) = 1 /\ Exp(b, 0 + 1) = b * Exp(b, 0) /\ Exp(b, 1 + 1) = b * Exp(b, 1)
  BY ExpFacts
<1>2. QED
  BY <1>1

LEMMA ExpSum ==
    ASSUME NEW b \in Int, NEW m \in Nat, NEW n \in Nat
    PROVE  Exp(b, m + n) = Exp(b, m) * Exp(b, n)
<1> DEFINE T == {k \in Nat : Exp(b, m + k) = Exp(b, m) * Exp(b, k)}
<1>1. 0 \in T
  BY ExpFacts
<1>2. ASSUME NEW k \in Nat, k \in T PROVE k + 1 \in T
  <2> DEFINE u == Exp(b, m)  v == Exp(b, k)
  <2>1. m + k \in Nat /\ m + (k + 1) = (m + k) + 1
    OBVIOUS
  <2>2. u \in Int /\ v \in Int /\ Exp(b, k + 1) = b * v /\ Exp(b, m + k) = u * v
        /\ Exp(b, (m + k) + 1) = b * Exp(b, m + k)
    BY <1>2, <2>1, ExpFacts
  <2> HIDE DEF u, v
  <2>3. b * (u * v) = u * (b * v)
    BY <2>2
  <2>4. QED
    BY <2>1, <2>2, <2>3 DEF u
<1> HIDE DEF T
<1>3. Nat \subseteq T
  BY <1>1, <1>2, SetInduction
<1>4. QED
  BY <1>3 DEF T

LEMMA ExpPositive ==
    ASSUME NEW b \in Nat, NEW n \in Nat, b >= 1
    PROVE  Exp(b, n) \in Nat /\ Exp(b, n) >= 1
<1> DEFINE T == {k \in Nat : Exp(b, k) >= 1}
<1>1. 0 \in T
  BY ExpFacts
<1>2. ASSUME NEW k \in Nat, k \in T PROVE k + 1 \in T
  <2> DEFINE u == Exp(b, k)
  <2>1. u \in Int /\ u >= 1 /\ Exp(b, k + 1) = b * u
    BY <1>2, ExpFacts
  <2> HIDE DEF u
  <2>2. 1 * u <= b * u
    BY <2>1, MulMonotone
  <2>3. b * u >= 1
    BY <2>1, <2>2
  <2>4. QED
    BY <2>1, <2>3
<1> HIDE DEF T
<1>3. Nat \subseteq T
  BY <1>1, <1>2, SetInduction
<1>4. Exp(b, n) >= 1 /\ Exp(b, n) \in Int
  BY <1>3, ExpFacts DEF T
<1>5. QED
  BY <1>4

LEMMA ExpGrows ==
    ASSUME NEW b \in Nat, NEW m \in Nat, NEW n \in Nat, b >= 1, m <= n
    PROVE  Exp(b, m) <= Exp(b, n)
<1>1. n - m \in Nat /\ m + (n - m) = n
  OBVIOUS
<1> DEFINE u == Exp(b, m)  v == Exp(b, n - m)
<1>2. u \in Nat /\ v \in Nat /\ v >= 1 /\ Exp(b, n) = u * v
  <2>1. u \in Nat /\ v \in Nat /\ v >= 1
    BY <1>1, ExpPositive
  <2>2. b \in Int
    OBVIOUS
  <2>3. Exp(b, m + (n - m)) = u * v
    BY <1>1, <2>2, ExpSum
  <2>4. QED
    BY <1>1, <2>1, <2>3
<1> HIDE DEF u, v
<1>3. u * 1 <= u * v
  BY <1>2, MulMonotone
<1>4. QED
  BY <1>2, <1>3 DEF u

LEMMA ExpStrict ==
    ASSUME NEW b \in Nat, NEW m \in Nat, NEW n \in Nat, b >= 2, m < n
    PROVE  Exp(b, m) < Exp(b, n)
<1> DEFINE u == Exp(b, m)
<1>1. u \in Nat /\ u >= 1 /\ Exp(b, m + 1) = b * u /\ m + 1 <= n /\ m + 1 \in Nat
  BY ExpPositive, ExpFacts
<1>2. Exp(b, m + 1) <= Exp(b, n) /\ Exp(b, n) \in Nat
  <2>1. b >= 1
    OBVIOUS
  <2>2. QED
    BY <1>1, <2>1, ExpGrows, ExpPositive
<1> HIDE DEF u
<1>3. 2 * u <= b * u
  BY <1>1, MulMonotone
<1>4. b * u \in Int
  BY <1>1
<1>5. u < Exp(b, n)
  BY <1>1, <1>2, <1>3, <1>4
<1>6. QED
  BY <1>5 DEF u

LEMMA ExpBase ==
    ASSUME NEW b \in Nat, NEW c \in Nat, NEW n \in Nat, 1 <= b, b <= c
    PROVE  Exp(b, n) <= Exp(c, n)
<1> DEFINE T == {k \in Nat : Exp(b, k) <= Exp(c, k)}
<1>1. 0 \in T
  BY ExpFacts
<1>2. ASSUME NEW k \in Nat, k \in T PROVE k + 1 \in T
  <2> DEFINE u == Exp(b, k)  v == Exp(c, k)
  <2>1. u \in Nat /\ v \in Nat /\ u <= v /\ Exp(b, k + 1) = b * u /\ Exp(c, k + 1) = c * v
    BY <1>2, ExpFacts, ExpPositive
  <2> HIDE DEF u, v
  <2>2. b * u <= b * v /\ b * v <= c * v
    BY <2>1, MulMonotone
  <2>3. b * u \in Int /\ b * v \in Int /\ c * v \in Int
    BY <2>1
  <2>4. b * u <= c * v
    BY <2>2, <2>3
  <2>5. QED
    BY <2>1, <2>4
<1> HIDE DEF T
<1>3. Nat \subseteq T
  BY <1>1, <1>2, SetInduction
<1>4. QED
  BY <1>3 DEF T

LEMMA ExpProduct ==
    ASSUME NEW b \in Int, NEW m \in Nat, NEW n \in Nat
    PROVE  Exp(b, m * n) = Exp(Exp(b, m), n)
<1> DEFINE c == Exp(b, m)
           T == {k \in Nat : Exp(b, m * k) = Exp(c, k)}
<1>1. c \in Int
  BY ExpFacts
<1>2. 0 \in T
  <2>1. m * 0 = 0
    OBVIOUS
  <2>2. QED
    BY <2>1, <1>1, ExpFacts
<1>3. ASSUME NEW k \in Nat, k \in T PROVE k + 1 \in T
  <2>1. m * k \in Nat /\ m * (k + 1) = m + m * k
    OBVIOUS
  <2>2. Exp(b, m + m * k) = c * Exp(b, m * k)
    BY <2>1, ExpSum
  <2>3. Exp(c, k + 1) = c * Exp(c, k)
    BY <1>1, ExpFacts
  <2>4. QED
    BY <2>1, <2>2, <2>3, <1>3
<1> HIDE DEF T
<1>4. Nat \subseteq T
  BY <1>2, <1>3, SetInduction
<1>5. QED
  BY <1>4 DEF T

----------------------------------------------------------------------------
LEMMA PowExp ==
    ASSUME NEW k \in 0 .. MaxSize
    PROVE  Pow[k] = Exp(B, k) /\ Pow[k] = Exp(2, W * k)
<1> DEFINE T == {n \in 0 .. MaxSize : Pow[n] = Exp(B, n)}
<1>1. MaxSize \in Nat /\ B \in Nat /\ B = Exp(2, W) /\ W \in Nat /\ k \in Nat
  BY PowAssumption, BAssumption, CallAssumption
<1>2. 0 \in T
  BY <1>1, ExpFacts, PowAssumption
<1>3. ASSUME NEW n \in 0 .. MaxSize - 1, n \in T PROVE n + 1 \in T
  <2>1. n \in Nat /\ n + 1 \in 0 .. MaxSize /\ Pow[n + 1] = B * Pow[n]
    BY <1>1, PowAssumption
  <2>2. Exp(B, n + 1) = B * Exp(B, n)
    BY <2>1, <1>1, ExpFacts
  <2>3. QED
    BY <2>1, <2>2, <1>3
<1> HIDE DEF T
<1>4. 0 .. MaxSize \subseteq T
  BY <1>1, <1>2, <1>3, BoundedInduction
<1>5. Pow[k] = Exp(B, k)
  BY <1>4 DEF T
<1>6. Exp(2, W * k) = Exp(Exp(2, W), k)
  BY <1>1, ExpProduct
<1>7. QED
  BY <1>1, <1>5, <1>6

LEMMA MaxBitsFacts ==
    /\ MaxSize \in Nat /\ MaxSize >= 1 /\ W \in Nat /\ W >= 1 /\ B \in Nat /\ B >= 2 /\ B = Exp(2, W)
    /\ MaxBits \in Nat /\ MaxBits >= 1 /\ Pow[MaxSize] = Exp(2, MaxBits) /\ Pow[MaxSize] \in Nat
<1>1. /\ MaxSize \in Nat /\ MaxSize >= 1 /\ W \in Nat /\ W >= 1 /\ B \in Nat /\ B >= 2 /\ B = Exp(2, W)
      /\ MaxSize \in 0 .. MaxSize
  BY PowAssumption, CallAssumption, BAssumption
<1>2. W * MaxSize \in Nat /\ 1 * MaxSize <= W * MaxSize
  BY <1>1, MulMonotone
<1>3. Pow[MaxSize] = Exp(2, W * MaxSize) /\ Pow[MaxSize] \in Nat
  BY <1>1, PowExp, PowAssumption
<1>4. QED
  BY <1>1, <1>2, <1>3 DEF MaxBits

(* The number of digits, for all numbers that fit.                           *)
LEMMA DigitsFacts ==
    ASSUME NEW b \in Nat, NEW x \in Nat, b >= 2, x < Pow[MaxSize]
    PROVE  /\ DigitsOf(b, x) \in 0 .. MaxBits /\ x < Exp(b, DigitsOf(b, x))
           /\ DigitsOf(b, x) = 0 \/ x >= Exp(b, DigitsOf(b, x) - 1)
<1> DEFINE T == {k \in 0 .. MaxBits : x < Exp(b, k)}
<1>1. MaxBits \in T /\ T \subseteq Nat
  <2>1. MaxBits \in Nat /\ x < Exp(2, MaxBits) /\ MaxBits \in 0 .. MaxBits
    BY MaxBitsFacts
  <2>2. Exp(2, MaxBits) <= Exp(b, MaxBits) /\ Exp(2, MaxBits) \in Int /\ Exp(b, MaxBits) \in Int
    <3>1. 1 <= 2 /\ 2 <= b /\ 2 \in Nat /\ 2 \in Int /\ b \in Int
      OBVIOUS
    <3>2. QED
      BY <2>1, <3>1, ExpBase, ExpFacts
  <2>3. x < Exp(b, MaxBits)
    BY <2>1, <2>2
  <2>4. QED
    BY <2>1, <2>3
<1>2. PICK k \in T : \A m \in T : k <= m
  BY <1>1, LeastNat
<1>3. k \in 0 .. MaxBits /\ x < Exp(b, k)
  OBVIOUS
<1>4. k = 0 \/ x >= Exp(b, k - 1)
  <2>1. SUFFICES ASSUME k # 0, ~(x >= Exp(b, k - 1)) PROVE FALSE
    OBVIOUS
  <2>2. k - 1 \in 0 .. MaxBits /\ k - 1 \in Nat /\ ~(k <= k - 1)
    BY <1>3, <2>1, MaxBitsFacts
  <2>3. x < Exp(b, k - 1)
    BY <2>1, <2>2, ExpFacts
  <2>4. k - 1 \in T
    BY <2>2, <2>3
  <2>5. QED
    BY <2>2, <2>4, <1>2
<1>5. \E i \in 0 .. MaxBits : x < Exp(b, i) /\ (i = 0 \/ x >= Exp(b, i - 1))
  BY <1>3, <1>4, Zenon
<1>6. QED
  BY <1>5, Zenon DEF DigitsOf

LEMMA DigitsUnique ==
    ASSUME NEW b \in Nat, NEW x \in Nat, NEW k \in Nat, b >= 2, x < Pow[MaxSize],
           x < Exp(b, k), k = 0 \/ x >= Exp(b, k - 1)
    PROVE  DigitsOf(b, x) = k
<1> DEFINE n == DigitsOf(b, x)
<1>1. n \in 0 .. MaxBits /\ x < Exp(b, n) /\ (n = 0 \/ x >= Exp(b, n - 1))
  BY DigitsFacts
<1>2. n \in Nat /\ b >= 1 /\ b \in Int
  BY <1>1, MaxBitsFacts
<1> HIDE DEF n
<1>3. ~(n < k)
  <2>1. SUFFICES ASSUME n < k PROVE FALSE
    OBVIOUS
  <2>2. k - 1 \in Nat /\ n <= k - 1 /\ k # 0
    BY <1>2, <2>1
  <2>3. Exp(b, n) <= Exp(b, k - 1) /\ Exp(b, n) \in Int /\ Exp(b, k - 1) \in Int
    BY <2>2, <1>2, ExpGrows, ExpFacts
  <2>4. QED
    BY <2>2, <2>3, <1>1
<1>4. ~(k < n)
  <2>1. SUFFICES ASSUME k < n PROVE FALSE
    OBVIOUS
  <2>2. n - 1 \in Nat /\ k <= n - 1 /\ n # 0
    BY <1>2, <2>1
  <2>3. Exp(b, k) <= Exp(b, n - 1) /\ Exp(b, k) \in Int /\ Exp(b, n - 1) \in Int
    BY <2>2, <1>2, ExpGrows, ExpFacts
  <2>4. QED
    BY <2>2, <2>3, <1>1
<1>5. n = k
  BY <1>2, <1>3, <1>4
<1>6. QED
  BY <1>5 DEF n

----------------------------------------------------------------------------
(* Common divisors and the greatest of them.                                 *)
CommonDivisors(m, n) == {d \in Nat \ {0} : m % d = 0 /\ n % d = 0}

LEMMA DividesIff ==
    ASSUME NEW n \in Int, NEW d \in Nat \ {0}
    PROVE  n % d = 0 <=> \E t \in Int : n = t * d
<1>1. ASSUME n % d = 0 PROVE \E t \in Int : n = t * d
  <2>1. n \div d \in Int /\ n = (n \div d) * d + (n % d)
    BY QuotientRemainder
  <2> DEFINE t == n \div d
  <2>2. t \in Int /\ n = t * d + 0
    BY <2>1, <1>1
  <2> HIDE DEF t
  <2>3. n = t * d
    BY <2>2
  <2>4. QED
    BY <2>2, <2>3
<1>2. ASSUME NEW t \in Int, n = t * d PROVE n % d = 0
  BY <1>2, ModMultiple
<1>3. QED
  BY <1>1, <1>2

LEMMA DividesCombination ==
    ASSUME NEW m \in Int, NEW n \in Int, NEW t \in Int, NEW d \in Nat \ {0}, m % d = 0, n % d = 0
    PROVE  (m + t * n) % d = 0
<1>1. PICK u \in Int : m = u * d
  BY DividesIff
<1>2. PICK v \in Int : n = v * d
  BY DividesIff
<1>3. m + t * n = (u + t * v) * d
  <2>1. t * (v * d) = (t * v) * d /\ t * v \in Int
    OBVIOUS
  <2> DEFINE w == t * v
  <2>2. t * n = w * d /\ w \in Int
    BY <2>1, <1>2
  <2> HIDE DEF w
  <2>3. (u + w) * d = u * d + w * d
    BY <2>2
  <2>4. m + t * n = (u + w) * d
    BY <2>2, <2>3, <1>1
  <2>5. QED
    BY <2>4 DEF w
<1>4. u + t * v \in Int /\ m + t * n \in Int
  OBVIOUS
<1>5. QED
  BY <1>3, <1>4, DividesIff

LEMMA GcdGreatest ==
    ASSUME NEW m \in Nat, NEW n \in Nat, m # 0 \/ n # 0
    PROVE  /\ Gcd(m, n) \in CommonDivisors(m, n)
           /\ \A c \in CommonDivisors(m, n) : c <= Gcd(m, n)
<1> DEFINE top == IF m = 0 \/ (n # 0 /\ n < m) THEN n ELSE m
           common == {d \in 1 .. top : m % d = 0 /\ n % d = 0}
<1>1. top \in Nat /\ top # 0 /\ (top = m \/ top = n)
  OBVIOUS
<1>2. common = CommonDivisors(m, n)
  <2>1. ASSUME NEW d \in Nat \ {0}, top % d = 0 PROVE d <= top
    <3>1. PICK t \in Int : top = t * d
      BY <1>1, <2>1, DividesIff
    <3> HIDE DEF top
    <3>2. t >= 1
      <4>1. SUFFICES ASSUME t <= 0 PROVE FALSE
        OBVIOUS
      <4>2. t * d <= 0 * d
        BY <4>1, MulMonotone
      <4>3. QED
        BY <4>2, <3>1, <1>1
    <3>3. 1 * d <= t * d
      BY <3>2, MulMonotone
    <3>4. QED
      BY <3>1, <3>3
  <2>2. ASSUME NEW d \in Nat \ {0}, m % d = 0, n % d = 0 PROVE d <= top
    BY <1>1, <2>1, <2>2
  <2> HIDE DEF top
  <2>3. common \subseteq CommonDivisors(m, n)
    BY <1>1 DEF CommonDivisors
  <2>4. CommonDivisors(m, n) \subseteq common
    BY <2>2, <1>1 DEF CommonDivisors
  <2>5. QED
    BY <2>3, <2>4
<1>3. common \subseteq 0 .. top /\ common # {}
  <2>1. m % 1 = 0 /\ n % 1 = 0 /\ 1 \in 1 .. top
    <3>1. m = m * 1 /\ n = n * 1 /\ 1 \in Nat /\ 1 > 0 /\ m \in Int /\ n \in Int
      OBVIOUS
    <3>2. (m * 1) % 1 = 0 /\ (n * 1) % 1 = 0
      BY <3>1, ModMultiple
    <3>3. QED
      BY <3>1, <3>2, <1>1
  <2>2. QED
    BY <2>1, <1>1
<1>4. Gcd(m, n) = CHOOSE d \in common : \A c \in common : c <= d
  BY <1>1 DEF Gcd
<1> HIDE DEF common, top
<1>5. \E d \in common : \A c \in common : c <= d
  BY <1>1, <1>3, Greatest
<1>6. Gcd(m, n) \in common /\ \A c \in common : c <= Gcd(m, n)
  BY <1>4, <1>5, Zenon
<1>7. QED
  BY <1>2, <1>6

LEMMA GcdZeros == Gcd(0, 0) = 0
  BY DEF Gcd

LEMMA GcdIs ==
    ASSUME NEW m \in Nat, NEW n \in Nat, m # 0 \/ n # 0, NEW x \in CommonDivisors(m, n),
           \A c \in CommonDivisors(m, n) : c <= x
    PROVE  Gcd(m, n) = x
<1> DEFINE g == Gcd(m, n)
<1>1. g \in CommonDivisors(m, n) /\ x <= g
  BY GcdGreatest
<1> HIDE DEF g
<1>2. g <= x /\ g \in Nat /\ x \in Nat
  BY <1>1 DEF CommonDivisors
<1>3. g = x
  BY <1>1, <1>2
<1>4. QED
  BY <1>3 DEF g

LEMMA GcdSame ==
    ASSUME NEW m \in Nat, NEW n \in Nat, m # 0 \/ n # 0,
           NEW i \in Nat, NEW j \in Nat, i # 0 \/ j # 0,
           CommonDivisors(m, n) = CommonDivisors(i, j)
    PROVE  Gcd(m, n) = Gcd(i, j)
<1>1. Gcd(i, j) \in CommonDivisors(m, n) /\ \A c \in CommonDivisors(m, n) : c <= Gcd(i, j)
  BY GcdGreatest
<1>2. QED
  BY <1>1, GcdIs

LEMMA GcdCommutes ==
    ASSUME NEW m \in Nat, NEW n \in Nat
    PROVE  Gcd(m, n) = Gcd(n, m)
<1>1. CASE m = 0 /\ n = 0
  BY <1>1
<1>2. CASE m # 0 \/ n # 0
  <2>1. CommonDivisors(m, n) = CommonDivisors(n, m)
    BY DEF CommonDivisors
  <2>2. QED
    BY <1>2, <2>1, GcdSame
<1>3. QED
  BY <1>1, <1>2

(* Nothing but 0 has more divisors than a number itself.                     *)
LEMMA GcdOfZero ==
    ASSUME NEW m \in Nat
    PROVE  Gcd(m, 0) = m
<1>1. CASE m = 0
  BY <1>1, GcdZeros
<1>2. CASE m # 0
  <2>1. m \in CommonDivisors(m, 0)
    <3>1. m = 1 * m /\ 0 = 0 * m /\ m > 0 /\ 1 \in Int /\ 0 \in Int
      BY <1>2
    <3>2. (1 * m) % m = 0 /\ (0 * m) % m = 0
      BY <3>1, ModMultiple
    <3>3. QED
      BY <3>1, <3>2, <1>2 DEF CommonDivisors
  <2>2. ASSUME NEW c \in CommonDivisors(m, 0) PROVE c <= m
    <3>1. c \in Nat \ {0} /\ m % c = 0
      BY DEF CommonDivisors
    <3>2. PICK t \in Int : m = t * c
      BY <3>1, DividesIff
    <3>3. t >= 1
      <4>1. SUFFICES ASSUME t <= 0 PROVE FALSE
        OBVIOUS
      <4>2. t * c <= 0 * c
        BY <3>1, <4>1, MulMonotone
      <4>3. QED
        BY <4>2, <3>1, <3>2, <1>2
    <3>4. 1 * c <= t * c
      BY <3>1, <3>3, MulMonotone
    <3>5. QED
      BY <3>1, <3>2, <3>4
  <2>3. 0 \in Nat
    OBVIOUS
  <2>4. QED
    BY <1>2, <2>1, <2>2, <2>3, GcdIs
<1>3. QED
  BY <1>1, <1>2

(* One step of Euclid's algorithm.                                           *)
LEMMA GcdStep ==
    ASSUME NEW m \in Nat, NEW n \in Nat, n # 0
    PROVE  Gcd(m, n) = Gcd(n, m % n)
<1> DEFINE t == m \div n  r0 == m % n
<1>1. t \in Int /\ r0 \in 0 .. n - 1 /\ m = t * n + r0
  BY QuotientRemainder
<1> HIDE DEF t, r0
<1>2. m = r0 + t * n /\ r0 = m + (-t) * n /\ r0 \in Nat /\ -t \in Int
  BY <1>1
<1>3. ASSUME NEW d \in Nat \ {0}, n % d = 0 PROVE m % d = 0 <=> r0 % d = 0
  <2>1. n \in Int /\ m \in Int /\ r0 \in Int
    BY <1>2
  <2>2. ASSUME r0 % d = 0 PROVE (r0 + t * n) % d = 0
    BY <2>1, <2>2, <1>1, <1>3, DividesCombination
  <2>3. ASSUME m % d = 0 PROVE (m + (-t) * n) % d = 0
    BY <2>1, <2>3, <1>2, <1>3, DividesCombination
  <2>4. QED
    BY <2>2, <2>3, <1>2
<1>4. CommonDivisors(m, n) = CommonDivisors(n, r0)
  BY <1>3 DEF CommonDivisors
<1>5. Gcd(m, n) = Gcd(n, r0)
  BY <1>2, <1>4, GcdSame
<1>6. QED
  BY <1>5 DEF r0

----------------------------------------------------------------------------
(* One step of Lehmer's algorithm on the leading words u and v with the      *)
(* quotient t and the remainder w: a0, b0 and a1, b1 are the cofactors of    *)
(* the last two remainders, a2 and b2 the next ones; c and d are the leading *)
(* words at the start, in the places the cofactors multiply.                 *)
LEMMA CofactorSigns ==
    ASSUME NEW a0 \in Int, NEW a1 \in Int, NEW b0 \in Int, NEW b1 \in Int, NEW t \in Int,
           a0 >= 1, a1 <= 0, b0 <= 0, b1 >= 1, t >= 1
    PROVE  a0 - t * a1 \in Int /\ b0 - t * b1 \in Int /\ a0 - t * a1 >= 1 /\ b0 - t * b1 <= -1
           /\ b0 - t * b1 <= -t
<1>1. -a1 \in Nat /\ t \in Nat /\ t * a1 = -(t * (-a1)) /\ t * (-a1) \in Nat
  OBVIOUS
<1>2. t * 1 <= t * b1 /\ t * b1 \in Int
  BY <1>1, MulMonotone
<1>3. a0 - t * a1 >= 1 /\ a0 - t * a1 \in Int
  <2> DEFINE x == t * (-a1)  z == t * a1
  <2>1. x \in Nat /\ z = -x
    BY <1>1
  <2> HIDE DEF x, z
  <2>2. a0 - z >= 1 /\ a0 - z \in Int
    BY <2>1
  <2>3. QED
    BY <2>2 DEF z
<1>4. b0 - t * b1 <= -1 /\ b0 - t * b1 \in Int /\ b0 - t * b1 <= -t
  <2> DEFINE z == t * b1
  <2>1. t <= z /\ z \in Int
    BY <1>2
  <2> HIDE DEF z
  <2>2. b0 - z <= -1 /\ b0 - z \in Int /\ b0 - z <= -t
    BY <2>1
  <2>3. QED
    BY <2>2 DEF z
<1>5. QED
  BY <1>3, <1>4

(* Jebelean's condition on the words decides the quotient of the long        *)
(* numbers m and n, of which s * c + i and s * d + j are the leading words   *)
(* and the rest.                                                             *)
LEMMA QuotientDecided ==
    ASSUME NEW a1 \in Int, NEW b1 \in Int, NEW a2 \in Int, NEW b2 \in Int,
           NEW v \in Int, NEW w \in Int, NEW c \in Int, NEW d \in Int,
           NEW s \in Nat, NEW i \in Nat, NEW j \in Nat, i < s, j < s,
           a1 <= 0, b1 >= 1, a2 >= 1, b2 <= -1,
           w = a2 * c + b2 * d, v = a1 * c + b1 * d,
           w >= -b2, v - w >= a2 - a1
    PROVE  LET m == s * c + i
               n == s * d + j
           IN  0 < a2 * m + b2 * n /\ a2 * m + b2 * n < a1 * m + b1 * n
<1> DEFINE m == s * c + i
           n == s * d + j
<1>1. a2 * m + b2 * n = s * w + (a2 * i + b2 * j)
  <2>1. a2 * (s * c + i) + b2 * (s * d + j) = s * (a2 * c + b2 * d) + (a2 * i + b2 * j)
    OBVIOUS
  <2>2. QED
    BY <2>1
<1>2. a1 * m + b1 * n = s * v + (a1 * i + b1 * j)
  <2>1. a1 * (s * c + i) + b1 * (s * d + j) = s * (a1 * c + b1 * d) + (a1 * i + b1 * j)
    OBVIOUS
  <2>2. QED
    BY <2>1
<1>3. s * w \in Int /\ s * v \in Int /\ a2 * i \in Nat /\ b1 * j \in Nat /\ a1 * i \in Int /\ b2 * j \in Int
  <2>1. a2 \in Nat /\ b1 \in Nat
    OBVIOUS
  <2>2. QED
    BY <2>1
<1>4. 0 < s * w + b2 * j
  <2>1. (-b2) \in Nat /\ s * (-b2) <= s * w
    BY MulMonotone
  <2>2. j * (-b2) < s * (-b2)
    <3>1. (-b2) \in Nat /\ (-b2) > 0
      OBVIOUS
    <3>2. QED
      BY <3>1, MulStrict
  <2>3. b2 * j = -(j * (-b2)) /\ j * (-b2) \in Int /\ s * (-b2) \in Int
    OBVIOUS
  <2> DEFINE x == s * (-b2)  z == j * (-b2)  o == s * w  f == b2 * j
  <2>4. x <= o /\ z < x /\ f = -z /\ z \in Int /\ x \in Int /\ o \in Int
    BY <2>1, <2>2, <2>3, <1>3
  <2> HIDE DEF x, z, o, f
  <2>5. 0 < o + f
    BY <2>4
  <2>6. QED
    BY <2>5 DEF o, f
<1>5. s * w + (a2 * i) < s * v + a1 * i
  <2>1. a2 - a1 \in Nat /\ a2 - a1 > 0 /\ v - w \in Int
    OBVIOUS
  <2>2. s * (a2 - a1) <= s * (v - w)
    BY <2>1, MulMonotone
  <2>3. i * (a2 - a1) < s * (a2 - a1)
    BY <2>1, MulStrict
  <2>4. s * (v - w) = s * v - s * w /\ i * (a2 - a1) = a2 * i - a1 * i
    OBVIOUS
  <2> DEFINE x == s * (a2 - a1)  z == i * (a2 - a1)  o == s * v  f == s * w  g == a2 * i  h == a1 * i
  <2>5. x <= o - f /\ z < x /\ z = g - h /\ x \in Int /\ z \in Int /\ o \in Int /\ f \in Int /\ g \in Int /\ h \in Int
    <3>1. x <= o - f /\ z = g - h
      BY <2>2, <2>4
    <3>2. x \in Int /\ z \in Int
      BY <2>1
    <3>3. QED
      BY <3>1, <3>2, <2>3, <1>3
  <2> HIDE DEF x, z, o, f, g, h
  <2>6. f + g < o + h
    BY <2>5
  <2>7. QED
    BY <2>6 DEF o, f, g, h
<1> DEFINE x == s * w  z == s * v  o == a2 * i  f == b2 * j  g == a1 * i  h == b1 * j
<1>6. x \in Int /\ z \in Int /\ o \in Nat /\ h \in Nat /\ g \in Int /\ f \in Int
      /\ 0 < x + f /\ x + o < z + g /\ f <= 0
  <2>1. b2 * j = -((-b2) * j) /\ (-b2) * j \in Nat
    <3>1. -b2 \in Nat
      OBVIOUS
    <3>2. QED
      BY <3>1
  <2>2. f <= 0
    BY <2>1
  <2>3. QED
    BY <1>3, <1>4, <1>5, <2>2
<1>7. a2 * m + b2 * n = x + (o + f) /\ a1 * m + b1 * n = z + (g + h)
  BY <1>1, <1>2
<1> HIDE DEF x, z, o, f, g, h, m, n
<1>8. 0 < x + (o + f) /\ x + (o + f) < z + (g + h)
  BY <1>6
<1>9. QED
  BY <1>7, <1>8 DEF m, n

(* Identities of one step: the next sum, difference and remainder.           *)
LEMMA NextSum ==
    ASSUME NEW b0 \in Int, NEW b1 \in Int, NEW t \in Int, NEW v \in Int, NEW w \in Int
    PROVE  b1 * (t * v + w) - b0 * v = b1 * w - (b0 - t * b1) * v
  OBVIOUS

LEMMA NextDifference ==
    ASSUME NEW a0 \in Int, NEW a1 \in Int, NEW t \in Int, NEW v \in Int, NEW w \in Int
    PROVE  a0 * v - a1 * (t * v + w) = (a0 - t * a1) * v - a1 * w
  OBVIOUS

LEMMA NextRemainder ==
    ASSUME NEW a0 \in Int, NEW a1 \in Int, NEW b0 \in Int, NEW b1 \in Int, NEW t \in Int,
           NEW c \in Int, NEW d \in Int
    PROVE  (a0 * c + b0 * d) - t * (a1 * c + b1 * d) = (b0 - t * b1) * d + (a0 - t * a1) * c
  OBVIOUS

LEMMA SumCommutes ==
    ASSUME NEW a1 \in Int, NEW b1 \in Int, NEW c \in Int, NEW d \in Int
    PROVE  a1 * c + b1 * d = b1 * d + a1 * c
  OBVIOUS

LEMMA BoundsDifference ==
    ASSUME NEW a1 \in Int, NEW a2 \in Int, NEW v \in Int, NEW w \in Int,
           a1 <= 0, a2 >= 1, v >= 1, 0 <= w
    PROVE  a2 <= a2 * v - a1 * w /\ (w >= 1 => a2 - a1 <= a2 * v - a1 * w)
<1> DEFINE x == a2 * v  z == a1 * w  o == (-a1) * w
<1>1. a2 * 1 <= a2 * v
  <2>1. a2 \in Nat /\ 1 <= v
    OBVIOUS
  <2>2. QED
    BY <2>1, MulMonotone
<1>2. o \in Nat /\ z = -o
  <2>1. -a1 \in Nat /\ w \in Nat
    OBVIOUS
  <2>2. (-a1) * w \in Nat /\ a1 * w = -((-a1) * w)
    BY <2>1
  <2>3. QED
    BY <2>2
<1>3. w >= 1 => (-a1) * 1 <= (-a1) * w
  <2>1. -a1 \in Nat
    OBVIOUS
  <2>2. QED
    BY <2>1, MulMonotone
<1>4. a2 <= x /\ x \in Int /\ (w >= 1 => -a1 <= o)
  BY <1>1, <1>3
<1> HIDE DEF x, z, o
<1>5. a2 <= x - z /\ (w >= 1 => a2 - a1 <= x - z)
  BY <1>2, <1>4
<1>6. QED
  BY <1>5 DEF x, z

LEMMA BoundsSum ==
    ASSUME NEW b1 \in Int, NEW b2 \in Int, NEW v \in Int, NEW w \in Int,
           b1 >= 1, b2 <= -1, v >= 1, 0 <= w
    PROVE  -b2 <= b1 * w - b2 * v
<1> DEFINE x == b1 * w  z == b2 * v  o == (-b2) * v
<1>1. x \in Nat
  <2>1. b1 \in Nat /\ w \in Nat
    OBVIOUS
  <2>2. QED
    BY <2>1
<1>2. -b2 <= o /\ z = -o /\ o \in Int
  <2>1. -b2 \in Nat /\ 1 <= v
    OBVIOUS
  <2>2. (-b2) * 1 <= (-b2) * v
    BY <2>1, MulMonotone
  <2>3. b2 * v = -((-b2) * v) /\ (-b2) * v \in Int
    OBVIOUS
  <2>4. QED
    BY <2>2, <2>3
<1> HIDE DEF x, z, o
<1>3. -b2 <= x - z
  BY <1>1, <1>2
<1>4. QED
  BY <1>3 DEF x, z

(* The cofactors of the next step before it is known whether it counts.      *)
CofactorsHold(a0, a1, b0, b1, u, v, c, d) ==
    /\ a0 >= 1 /\ a1 <= 0 /\ b0 <= 0 /\ b1 >= 1 /\ v >= 1 /\ u >= v
    /\ c = b1 * u - b0 * v /\ d = a0 * v - a1 * u
    /\ u = a0 * c + b0 * d /\ v = a1 * c + b1 * d

Quot(u, v) == u \div v
NextOf(x0, x1, u, v) == x0 - Quot(u, v) * x1

StepHolds(a0, a1, b0, b1, u, v, c, d) ==
    LET w == NextOf(u, v, u, v)
        a2 == NextOf(a0, a1, u, v)   b2 == NextOf(b0, b1, u, v)
    IN  /\ Quot(u, v) \in Int /\ Quot(u, v) >= 1 /\ w \in Int /\ 0 <= w /\ w < v /\ w <= u
        /\ a2 \in Int /\ b2 \in Int /\ a2 >= 1 /\ b2 <= -1
        /\ -b2 <= c /\ a2 <= d /\ (w >= 1 => a2 - a1 <= d)
        /\ c = b1 * w - b2 * v /\ d = a2 * v - a1 * w
        /\ w = b2 * d + a2 * c /\ v = b1 * d + a1 * c

LEMMA StepRanges ==
    ASSUME NEW a0 \in Int, NEW a1 \in Int, NEW b0 \in Int, NEW b1 \in Int,
           NEW u \in Int, NEW v \in Int, NEW c \in Int, NEW d \in Int,
           CofactorsHold(a0, a1, b0, b1, u, v, c, d)
    PROVE  StepHolds(a0, a1, b0, b1, u, v, c, d)
<1> DEFINE t == Quot(u, v)
           w == NextOf(u, v, u, v)
           a2 == NextOf(a0, a1, u, v)   b2 == NextOf(b0, b1, u, v)
<1>0. a0 >= 1 /\ a1 <= 0 /\ b0 <= 0 /\ b1 >= 1 /\ v >= 1 /\ u >= v
  BY DEF CofactorsHold
<1>1. t \in Int /\ w \in Int /\ 0 <= w /\ w < v /\ u = t * v + w /\ w = u - t * v
      /\ a2 = a0 - t * a1 /\ b2 = b0 - t * b1
  <2>1. v \in Nat /\ v > 0
    BY <1>0
  <2> DEFINE z == t * v  o == u % v
  <2>2. t \in Int /\ o \in 0 .. v - 1 /\ u = z + o
    BY <2>1, QuotientRemainder DEF Quot
  <2>2a. w = u - z /\ a2 = a0 - t * a1 /\ b2 = b0 - t * b1
    BY DEF NextOf
  <2> HIDE DEF t, o
  <2> HIDE DEF w, a2, b2
  <2>3. z \in Int /\ w = u - z
    BY <2>2, <2>2a
  <2> HIDE DEF z
  <2>5. w \in Int /\ 0 <= w /\ w < v /\ u = z + w
    BY <2>1, <2>2, <2>3
  <2>6. QED
    BY <2>2, <2>2a, <2>3, <2>5, Zenon DEF z
<1> HIDE DEF t, w, a2, b2
<1>2. t >= 1
  <2>1. SUFFICES ASSUME t <= 0 PROVE FALSE
    BY <1>1
  <2>2. v \in Nat
    BY <1>0
  <2>3. t * v <= 0 * v
    BY <2>1, <2>2, <1>1, MulMonotone
  <2> DEFINE z == t * v
  <2>4. z <= 0 /\ z \in Int /\ u = z + w
    BY <2>3, <1>1
  <2> HIDE DEF z
  <2>5. QED
    BY <2>4, <1>0, <1>1
<1>3. a2 \in Int /\ b2 \in Int /\ a2 >= 1 /\ b2 <= -1
  BY <1>0, <1>1, <1>2, CofactorSigns
<1>4. /\ c = b1 * w - b2 * v /\ d = a2 * v - a1 * w
      /\ w = b2 * d + a2 * c /\ v = b1 * d + a1 * c
  <2>1. c = b1 * (t * v + w) - b0 * v /\ d = a0 * v - a1 * (t * v + w)
    BY <1>1, Zenon DEF CofactorsHold
  <2>2. b1 * (t * v + w) - b0 * v = b1 * w - (b0 - t * b1) * v
    BY <1>1, NextSum
  <2>3. a0 * v - a1 * (t * v + w) = (a0 - t * a1) * v - a1 * w
    BY <1>1, NextDifference
  <2>4. w = (a0 * c + b0 * d) - t * (a1 * c + b1 * d)
    BY <1>1, Zenon DEF CofactorsHold
  <2>5. (a0 * c + b0 * d) - t * (a1 * c + b1 * d) = (b0 - t * b1) * d + (a0 - t * a1) * c
    BY <1>1, NextRemainder
  <2>6. a1 * c + b1 * d = b1 * d + a1 * c
    BY SumCommutes
  <2>7. c = b1 * w - b2 * v
    BY <2>1, <2>2, <1>1, Zenon
  <2>8. d = a2 * v - a1 * w
    BY <2>1, <2>3, <1>1, Zenon
  <2>9. w = b2 * d + a2 * c
    BY <2>4, <2>5, <1>1, Zenon
  <2>10. v = b1 * d + a1 * c
    BY <2>6, Zenon DEF CofactorsHold
  <2>11. QED
    BY <2>7, <2>8, <2>9, <2>10, Zenon
<1>5. -b2 <= c /\ a2 <= d /\ (w >= 1 => a2 - a1 <= d)
  <2>1. -b2 <= b1 * w - b2 * v
    BY <1>0, <1>1, <1>3, BoundsSum
  <2>2. a2 <= a2 * v - a1 * w /\ (w >= 1 => a2 - a1 <= a2 * v - a1 * w)
    BY <1>0, <1>1, <1>3, BoundsDifference
  <2>3. QED
    BY <1>4, <2>1, <2>2, Zenon
<1>6. w <= u
  BY <1>0, <1>1
<1>7. QED
  BY <1>1, <1>2, <1>3, <1>4, <1>5, <1>6, Zenon DEF StepHolds, t, w, a2, b2

(* The remainders in the long numbers: the quotient is theirs.               *)
LongStep(a0, a1, b0, b1, u, v, m, n) ==
    LET o == NextOf(a0, a1, u, v) * m + NextOf(b0, b1, u, v) * n
        z == a1 * m + b1 * n
    IN  0 < o /\ o < z => (a0 * m + b0 * n) % z = o

LEMMA LongQuotient ==
    ASSUME NEW a0 \in Int, NEW a1 \in Int, NEW b0 \in Int, NEW b1 \in Int,
           NEW u \in Int, NEW v \in Int, Quot(u, v) \in Int, NEW m \in Int, NEW n \in Int,
           NextOf(a0, a1, u, v) \in Int, NextOf(b0, b1, u, v) \in Int
    PROVE  LongStep(a0, a1, b0, b1, u, v, m, n)
<1> DEFINE t == Quot(u, v)  a2 == NextOf(a0, a1, u, v)  b2 == NextOf(b0, b1, u, v)
           x == a0 * m + b0 * n  z == a1 * m + b1 * n
<1> SUFFICES ASSUME 0 < a2 * m + b2 * n, a2 * m + b2 * n < z
             PROVE  x % z = a2 * m + b2 * n
  BY Zenon DEF LongStep
<1>0. a2 = a0 - t * a1 /\ b2 = b0 - t * b1 /\ t \in Int /\ a2 \in Int /\ b2 \in Int
      /\ 0 < a2 * m + b2 * n /\ a2 * m + b2 * n < z
  BY DEF NextOf
<1> HIDE DEF t, a2, b2
<1>1. x - t * z = a2 * m + b2 * n
  <2>1. (a0 * m + b0 * n) - t * (a1 * m + b1 * n) = (a0 - t * a1) * m + (b0 - t * b1) * n
    BY <1>0
  <2>2. QED
    BY <2>1, <1>0
<1>2. x \in Int /\ z \in Int /\ t * z \in Int
  BY <1>0
<1> HIDE DEF x, z
<1>3. (t + 1) * z = t * z + z
  BY <1>0, <1>2
<1> DEFINE o == a2 * m + b2 * n  f == t * z
<1>4. x - f = o /\ 0 < o /\ o < z /\ f \in Int /\ (t + 1) * z = f + z
  BY <1>0, <1>1, <1>2, <1>3, Zenon
<1>5. o \in Int
  <2> HIDE DEF o, f
  <2>1. QED
    BY <1>2, <1>4
<1> HIDE DEF o, f
<1>6. f <= x /\ x < f + z /\ z \in Nat /\ z > 0
  BY <1>2, <1>4, <1>5
<1>7. x % z = x - t * z
  <2>1. t * z <= x /\ x < (t + 1) * z
    BY <1>4, <1>6 DEF f
  <2>2. QED
    BY <2>1, <1>0, <1>2, <1>6, QuotientUnique, Zenon
<1>8. QED
  BY <1>1, <1>7, Zenon DEF x, z, a2, b2

LEMMA TopBit ==
    ASSUME NEW x \in Nat, x > 0, x < Pow[MaxSize]
    PROVE  log2(x) \in Nat /\ Exp(2, log2(x)) <= x /\ x < Exp(2, log2(x) + 1)
<1> DEFINE n == DigitsOf(2, x)
<1>1. n \in 0 .. MaxBits /\ x < Exp(2, n) /\ (n = 0 \/ x >= Exp(2, n - 1)) /\ n \in Nat
  <2>1. 2 \in Nat /\ 2 >= 2
    OBVIOUS
  <2>2. QED
    BY <2>1, DigitsFacts, MaxBitsFacts
<1>2. log2(x) = n - 1
  BY DEF log2, BitLength
<1> HIDE DEF n
<1>3. n # 0
  <2>1. Exp(2, 0) = 1
    BY ExpFacts
  <2>2. QED
    BY <2>1, <1>1
<1>4. n - 1 \in Nat /\ (n - 1) + 1 = n
  BY <1>1, <1>3
<1>5. Exp(2, n - 1) \in Int /\ Exp(2, n - 1) <= x
  BY <1>1, <1>3, <1>4, ExpFacts
<1>6. QED
  BY <1>1, <1>2, <1>4, <1>5

LEMMA HalfWord ==
    /\ K \in Nat /\ K >= 2 /\ Exp(2, K) \in Nat /\ Exp(2, K) >= 1
    /\ B = 2 * Exp(2, K) /\ B \div 2 = Exp(2, K) /\ B \in Nat /\ B > 0
<1>1. W \in Nat /\ W >= 3 /\ B = Exp(2, W) /\ B \in Nat
  BY LehmerAssumption, CallAssumption, BAssumption
<1>2. K \in Nat /\ K >= 2 /\ K + 1 = W
  BY <1>1 DEF K
<1> HIDE DEF K
<1>3. 2 \in Nat /\ 2 \in Int /\ 2 >= 1
  OBVIOUS
<1>4. Exp(2, K) \in Nat /\ Exp(2, K) >= 1
  BY <1>2, <1>3, ExpPositive
<1>5. B = 2 * Exp(2, K)
  BY <1>1, <1>2, <1>3, ExpFacts
<1>6. B \div 2 = Exp(2, K)
  <2> DEFINE x == Exp(2, K)
  <2>1. x \in Nat /\ B = 2 * x
    BY <1>4, <1>5
  <2> HIDE DEF x
  <2>2. x * 2 <= B /\ B < (x + 1) * 2
    BY <2>1
  <2>3. B \div 2 = x
    BY <2>1, <2>2, <1>1, QuotientUnique
  <2>4. QED
    BY <2>3 DEF x
<1>7. QED
  BY <1>1, <1>2, <1>4, <1>5, <1>6

LEMMA SignedExact ==
    ASSUME NEW x \in Int, -Exp(2, K) <= x, x < Exp(2, K)
    PROVE  Signed(x) = x
<1> DEFINE k == Exp(2, K)
<1>1. k \in Nat /\ B = 2 * k /\ B \div 2 = k /\ B \in Nat /\ B > 0
  BY HalfWord
<1>2. -k <= x /\ x < k
  OBVIOUS
<1> HIDE DEF k
<1>3. x + k \in Nat /\ x + k < B
  BY <1>1, <1>2
<1>4. (x + k) % B = x + k
  BY <1>1, <1>3, ModSmall
<1>5. QED
  BY <1>1, <1>4 DEF Signed

LeadShift(x) == IF log2(x) < K - 1 THEN 0 ELSE log2(x) + 1 - K

LEMMA LeadingWords ==
    ASSUME NEW m \in Nat, NEW n \in Nat, m >= n, n > 0, m < Pow[MaxSize],
           log2(m) - log2(n) <= K \div 2
    PROVE  LET s == Exp(2, LeadShift(m))
           IN  /\ LeadShift(m) \in Nat /\ s \in Nat /\ s >= 1
               /\ m \div s \in Nat /\ n \div s \in Nat /\ m \div s < Exp(2, K) /\ n \div s <= m \div s
               /\ n \div s >= 1 /\ Word(m \div s) = m \div s /\ Word(n \div s) = n \div s
<1> DEFINE i == log2(m)  j == log2(n)  h == LeadShift(m)  s == Exp(2, h)
<1>1. Pow[MaxSize] \in Nat /\ n < Pow[MaxSize] /\ m > 0
  BY MaxBitsFacts
<1>2. i \in Nat /\ Exp(2, i) <= m /\ m < Exp(2, i + 1) /\ j \in Nat /\ Exp(2, j) <= n
  BY <1>1, TopBit
<1>3. K \in Nat /\ K >= 2 /\ K \div 2 <= K - 1 /\ i - j <= K \div 2
  BY HalfWord
<1>4. h = IF i < K - 1 THEN 0 ELSE i + 1 - K
  BY DEF LeadShift
<1> HIDE DEF i, h
<1>5. h \in Nat /\ h + K \in Nat /\ i + 1 <= h + K /\ i + 1 \in Nat
  BY <1>2, <1>3, <1>4
<1>6. s \in Nat /\ s >= 1 /\ s > 0
  BY <1>5, ExpPositive
<1>7. m < s * Exp(2, K)
  <2>1. Exp(2, i + 1) <= Exp(2, h + K) /\ Exp(2, h + K) \in Int /\ Exp(2, i + 1) \in Int
    BY <1>5, ExpGrows, ExpFacts
  <2>2. Exp(2, h + K) = s * Exp(2, K)
    <3>1. 2 \in Int
      OBVIOUS
    <3>2. QED
      BY <3>1, <1>3, <1>5, ExpSum, Zenon
  <2>3. m < Exp(2, h + K)
    BY <2>1, <1>2
  <2>4. QED
    BY <2>2, <2>3
<1>8. s <= n
  <2>1. CASE h = 0
    <3>1. s = 1
      BY <2>1, ExpFacts
    <3>2. QED
      BY <3>1
  <2>2. CASE h # 0
    <3>1. h <= j /\ 2 \in Nat /\ 2 >= 1
      BY <2>2, <1>2, <1>3, <1>4
    <3>2. s <= Exp(2, j) /\ Exp(2, j) \in Int
      BY <3>1, <1>2, <1>5, ExpGrows, ExpFacts
    <3>3. QED
      BY <3>2, <1>2, <1>6
  <2>3. QED
    BY <2>1, <2>2
<1> DEFINE u == m \div s  v == n \div s  k == Exp(2, K)
<1>9. k \in Nat /\ B = 2 * k /\ k >= 1
  BY HalfWord
<1> HIDE DEF s, k, j
<1>10. u \in Int /\ v \in Int /\ u >= 0 /\ u * s <= m /\ m < (u + 1) * s /\ v * s <= n /\ n < (v + 1) * s
  BY <1>6, QuotientRemainder
<1> HIDE DEF u, v
<1>11. u < k
  <2>1. u * s < k * s
    <3>1. k * s = s * k /\ u * s \in Int /\ k * s \in Int
      BY <1>6, <1>9, <1>10
    <3>2. QED
      BY <3>1, <1>7, <1>10 DEF k
  <2>2. QED
    BY <2>1, <1>6, <1>9, <1>10, MulCancel
<1>12. v <= u
  <2>1. v * s < (u + 1) * s
    <3>1. v * s \in Int /\ (u + 1) * s \in Int
      BY <1>6, <1>10
    <3>2. QED
      BY <3>1, <1>10
  <2>2. v < u + 1 /\ u + 1 \in Int
    BY <2>1, <1>6, <1>10, MulCancel
  <2>3. QED
    BY <2>2, <1>10
<1>13. v >= 1
  <2>1. 0 * s < v * s + s /\ 1 * s < (v + 1) * s
    <3>1. v * s \in Int /\ (v + 1) * s = v * s + s /\ 1 * s = s
      BY <1>6, <1>10
    <3>2. QED
      BY <3>1, <1>6, <1>8, <1>10
  <2>2. 1 < v + 1
    <3>1. v + 1 \in Int /\ 1 \in Int
      BY <1>10
    <3>2. QED
      BY <3>1, <2>1, <1>6, MulCancel
  <2>3. QED
    BY <2>2, <1>10
<1>14. u \in Nat /\ v \in Nat /\ u < B /\ v < B /\ B \in Nat
  BY <1>9, <1>10, <1>11, <1>12, <1>13
<1>15. Word(u) = u /\ Word(v) = v
  BY <1>14, ModSmall DEF Word
<1>16. QED
  BY <1>5, <1>6, <1>11, <1>12, <1>13, <1>14, <1>15 DEF u, v, s, h, k

(* A call keeps its name and its arguments, and only the steps of its own    *)
(* function are taken.                                                       *)
LEMMA StepsOfOne ==
    ASSUME [Next]_vars
    PROVE  /\ fn' = fn /\ arg' = arg
           /\ \/ UNCHANGED vars
              \/ fn \in {"sqrt", "log2", "log"} /\ RootsNext
              \/ fn \in {"pow", "pow_mod"} /\ PowersNext
              \/ fn \in {"factorial", "perm", "comb"} /\ CountingNext
              \/ fn \in {"gcd", "lcm"} /\ LehmerNext
              \/ fn = "int_div" /\ IntDivisionNext
              \/ fn \in {"from_string", "to_string", "digit_sum"} /\ StringsNext
<1> USE DEF Enter, Return, Throw, Called
<1>1. CASE RootsNext
  <2>1. fn \in {"sqrt", "log2", "log"} /\ UNCHANGED <<fn, arg>>
    BY <1>1 DEF RootsNext, SqrtCall, NextX1, NextX0, Log2Call, LogCall, LogCorrect
  <2>2. QED
    BY <1>1, <2>1, Zenon
<1>2. CASE PowersNext
  <2>1. fn \in {"pow", "pow_mod"} /\ UNCHANGED <<fn, arg>>
    BY <1>2 DEF PowersNext, PowCall, PowModCall, PowStep, PowReturn
  <2>2. QED
    BY <1>2, <2>1, Zenon
<1>3. CASE CountingNext
  <2>1. fn \in {"factorial", "perm", "comb"} /\ UNCHANGED <<fn, arg>>
    BY <1>3 DEF CountingNext, FactorialCall, PermCall, MultiplyStep, MultiplyEnd, CombCall, CombStep, CombEnd
  <2>2. QED
    BY <1>3, <2>1, Zenon
<1>4. CASE LehmerNext
  <2>1. fn \in {"gcd", "lcm"} /\ UNCHANGED <<fn, arg>>
    BY <1>4 DEF LehmerNext, LcmZero, GcdCall, GcdReturn, LehmerEnter, LehmerStep, LehmerLeave, GcdDivide
  <2>2. QED
    BY <1>4, <2>1, Zenon
<1>5. CASE IntDivisionNext
  <2>1. fn = "int_div" /\ UNCHANGED <<fn, arg>>
    BY <1>5 DEF IntDivisionNext, IntDivCall, IntDivStep, IntDivEnd, IntDivFix, SignInPlace
  <2>2. QED
    BY <1>5, <2>1, Zenon
<1>6. CASE StringsNext
  <2>1. fn \in {"from_string", "to_string", "digit_sum"} /\ UNCHANGED <<fn, arg>>
    <3> HIDE DEF Enter, Return, Throw
    <3>1. ASSUME NEW l, NEW x, Enter(l, x) PROVE UNCHANGED <<fn, arg>>
      BY <3>1 DEF Enter
    <3>2. ASSUME NEW x, Return(x) PROVE UNCHANGED <<fn, arg>>
      BY <3>2 DEF Return
    <3>3. ASSUME Throw PROVE UNCHANGED <<fn, arg>>
      BY <3>3 DEF Throw
    <3>4. CASE FromString \/ ReadChunk \/ ReadChunksEnd \/ ReadWindow \/ ReadWindowsEnd
      BY <3>1, <3>2, <3>3, <3>4 DEF FromString, ReadChunk, ReadChunksEnd, ReadWindow, ReadWindowsEnd
    <3>5. CASE ToString \/ PrintRound \/ PrintEnd \/ PrintWord \/ PrintWordsEnd
      BY <3>1, <3>2, <3>3, <3>5 DEF ToString, PrintRound, PrintEnd, PrintWord, PrintWordsEnd
    <3>6. CASE DigitSum \/ SumRound \/ SumEnd
      BY <3>1, <3>2, <3>3, <3>6 DEF DigitSum, SumRound, SumEnd
    <3>7. QED
      BY <1>6, <3>4, <3>5, <3>6 DEF StringsNext
  <2>2. QED
    BY <1>6, <2>1, Zenon
<1>7. CASE UNCHANGED vars
  BY <1>7 DEF vars
<1>8. QED
  BY <1>1, <1>2, <1>3, <1>4, <1>5, <1>6, <1>7, Zenon DEF Next

Pairs == [U : Nat, V : Nat]

LEMMA EuclidStepPair ==
    ASSUME NEW e \in Pairs
    PROVE  EuclidStep(e) \in Pairs
<1>1. e.U \in Nat /\ e.V \in Nat
  BY DEF Pairs
<1>2. CASE e.V = 0
  BY <1>2 DEF EuclidStep
<1>3. CASE e.V # 0
  <2>1. e.V > 0
    BY <1>1, <1>3
  <2>2. e.U % e.V \in Nat
    BY <1>1, <2>1, QuotientRemainder
  <2>3. QED
    BY <1>1, <1>3, <2>2 DEF EuclidStep, Pairs
<1>4. QED
  BY <1>2, <1>3

(* A run of Euclid's algorithm of e steps.                                   *)
EuclidRun(g, m, n, e) ==
    /\ g \in [0 .. e -> Pairs] /\ g[0] = [U |-> m, V |-> n]
    /\ \A k \in 0 .. e - 1 : g[k + 1] = EuclidStep(g[k])

LEMMA RemaindersRecursion ==
    ASSUME NEW m \in Nat, NEW n \in Nat, NEW e \in Nat
    PROVE  \E g : EuclidRun(g, m, n, e) /\ Remainders(m, n, e) = g[e]
<1> DEFINE s0 == [U |-> m, V |-> n]
           f == CHOOSE f : f = [j \in 0 .. e |-> IF j = 0 THEN s0 ELSE EuclidStep(f[j - 1])]
           st == [k \in 1 .. e |-> [s \in Pairs |-> EuclidStep(s)]]
<1>1. Remainders(m, n, e) = f[e]
  BY DEF Remainders
<1>2. st \in [1 .. e -> [Pairs -> Pairs]] /\ s0 \in Pairs
  <2>1. s0 \in Pairs
    BY DEF Pairs
  <2>2. \A s \in Pairs : EuclidStep(s) \in Pairs
    BY EuclidStepPair
  <2>3. QED
    BY <2>1, <2>2
<1>2a. \A k \in 1 .. e, s \in Pairs : st[k][s] = EuclidStep(s)
  OBVIOUS
<1> HIDE DEF st, s0
<1>3. PICK g \in [0 .. e -> Pairs] : g[0] = s0 /\ \A k \in 1 .. e : g[k] = st[k][g[k - 1]]
  BY <1>2, RecursionExists
<1>4. \A k \in 1 .. e : g[k] = EuclidStep(g[k - 1])
  <2>2. ASSUME NEW k \in 1 .. e PROVE k - 1 \in 0 .. e
    OBVIOUS
  <2>3. QED
    BY <2>2, <1>2a, <1>3
<1>5. g = [j \in 0 .. e |-> IF j = 0 THEN s0 ELSE EuclidStep(g[j - 1])]
  BY <1>3, <1>4
<1>6. f = [j \in 0 .. e |-> IF j = 0 THEN s0 ELSE EuclidStep(f[j - 1])]
  BY <1>5
<1> HIDE DEF f
<1>7. f[0] = s0 /\ \A k \in 1 .. e : f[k] = EuclidStep(f[k - 1])
  BY <1>6
<1>8. \A k \in 0 .. e : f[k] = g[k]
  <2>1. ASSUME NEW k \in 0 .. e - 1, f[k] = g[k] PROVE f[k + 1] = g[k + 1]
    <3>1. k + 1 \in 1 .. e /\ (k + 1) - 1 = k
      OBVIOUS
    <3>2. QED
      BY <3>1, <2>1, <1>4, <1>7
  <2>2. f[0] = g[0]
    BY <1>3, <1>7
  <2>3. QED
    BY <2>1, <2>2, SameSteps
<1>9. ASSUME NEW k \in 0 .. e - 1 PROVE g[k + 1] = EuclidStep(g[k])
  <2>1. k + 1 \in 1 .. e /\ (k + 1) - 1 = k
    OBVIOUS
  <2>2. QED
    BY <2>1, <1>4
<1>10. Remainders(m, n, e) = g[e]
  <2>1. e \in 0 .. e
    OBVIOUS
  <2>2. QED
    BY <2>1, <1>1, <1>8
<1>11. QED
  <2>1. EuclidRun(g, m, n, e)
    BY <1>3, <1>9 DEF s0, EuclidRun
  <2>2. QED
    BY <2>1, <1>10

LEMMA RemaindersFacts ==
    ASSUME NEW m \in Nat, NEW n \in Nat, NEW e \in Nat
    PROVE  /\ Remainders(m, n, 0) = [U |-> m, V |-> n]
           /\ Remainders(m, n, e + 1) = EuclidStep(Remainders(m, n, e))
<1>0. e + 1 \in Nat /\ 0 \in Nat
  OBVIOUS
<1>1. PICK g : EuclidRun(g, m, n, e) /\ Remainders(m, n, e) = g[e]
  BY RemaindersRecursion, Zenon
<1>2. PICK h : EuclidRun(h, m, n, e + 1) /\ Remainders(m, n, e + 1) = h[e + 1]
  BY <1>0, RemaindersRecursion, Zenon
<1>3. Remainders(m, n, 0) = [U |-> m, V |-> n]
  <2>1. PICK h0 : EuclidRun(h0, m, n, 0) /\ Remainders(m, n, 0) = h0[0]
    BY <1>0, RemaindersRecursion, Zenon
  <2>2. QED
    BY <2>1 DEF EuclidRun
<1>4. ASSUME NEW k \in 0 .. e - 1, g[k] = h[k] PROVE g[k + 1] = h[k + 1]
  <2>1. k \in 0 .. (e + 1) - 1
    OBVIOUS
  <2>2. QED
    BY <2>1, <1>1, <1>2, <1>4 DEF EuclidRun
<1>5. g[0] = h[0]
  BY <1>1, <1>2 DEF EuclidRun
<1>6. \A k \in 0 .. e : g[k] = h[k]
  BY <1>4, <1>5, SameSteps
<1>7. e \in 0 .. e /\ e \in 0 .. (e + 1) - 1
  OBVIOUS
<1>8. h[e + 1] = EuclidStep(h[e]) /\ h[e] = g[e]
  BY <1>2, <1>6, <1>7 DEF EuclidRun
<1>9. QED
  BY <1>1, <1>2, <1>3, <1>8

(* What the cofactors stand for in the long numbers.                         *)
LeadOf(m, s, c) == c = m \div s

StepKept(a0, a1, b0, b1, u, v, c, d, m, n) ==
    LET w == NextOf(u, v, u, v)
        a2 == NextOf(a0, a1, u, v)   b2 == NextOf(b0, b1, u, v)
    IN  w >= -b2 /\ v - w >= a2 - a1 =>
           /\ CofactorsHold(b1, b2, a1, a2, v, w, d, c)
           /\ 0 < a2 * m + b2 * n /\ a2 * m + b2 * n < a1 * m + b1 * n
           /\ (a0 * m + b0 * n) % (a1 * m + b1 * n) = a2 * m + b2 * n

LEMMA LehmerStepExact ==
    ASSUME NEW a0 \in Int, NEW a1 \in Int, NEW b0 \in Int, NEW b1 \in Int,
           NEW u \in Int, NEW v \in Int, NEW c \in Int, NEW d \in Int,
           CofactorsHold(a0, a1, b0, b1, u, v, c, d),
           NEW s \in Nat, NEW m \in Nat, NEW n \in Nat, s > 0,
           LeadOf(m, s, c), LeadOf(n, s, d)
    PROVE  StepKept(a0, a1, b0, b1, u, v, c, d, m, n)
<1> DEFINE w == NextOf(u, v, u, v)
           a2 == NextOf(a0, a1, u, v)   b2 == NextOf(b0, b1, u, v)
<1>0. /\ Quot(u, v) \in Int /\ w \in Int /\ 0 <= w /\ w < v /\ w <= u
      /\ a2 \in Int /\ b2 \in Int /\ a2 >= 1 /\ b2 <= -1
      /\ c = b1 * w - b2 * v /\ d = a2 * v - a1 * w
      /\ w = b2 * d + a2 * c /\ v = b1 * d + a1 * c
  <2>1. StepHolds(a0, a1, b0, b1, u, v, c, d)
    BY StepRanges
  <2>2. QED
    BY <2>1, Zenon DEF StepHolds
<1>0a. ASSUME 0 < a2 * m + b2 * n, a2 * m + b2 * n < a1 * m + b1 * n
       PROVE  (a0 * m + b0 * n) % (a1 * m + b1 * n) = a2 * m + b2 * n
  <2>1. m \in Int /\ n \in Int
    OBVIOUS
  <2>2. Quot(u, v) \in Int /\ a2 \in Int /\ b2 \in Int
    BY <1>0, Zenon
  <2>3. LongStep(a0, a1, b0, b1, u, v, m, n)
    BY <2>1, <2>2, LongQuotient
  <2>4. QED
    BY <2>3, <1>0a, Zenon DEF LongStep
<1> HIDE DEF w, a2, b2
<1>1. SUFFICES ASSUME w >= -b2, v - w >= a2 - a1
               PROVE  /\ CofactorsHold(b1, b2, a1, a2, v, w, d, c)
                      /\ 0 < a2 * m + b2 * n /\ a2 * m + b2 * n < a1 * m + b1 * n
                      /\ (a0 * m + b0 * n) % (a1 * m + b1 * n) = a2 * m + b2 * n
  BY Zenon DEF StepKept, w, a2, b2
<1>2. a1 <= 0 /\ b1 >= 1 /\ v >= 1
  BY DEF CofactorsHold
<1>3. /\ w \in Int /\ 0 <= w /\ w < v /\ w <= u
      /\ a2 \in Int /\ b2 \in Int /\ a2 >= 1 /\ b2 <= -1
  BY <1>0, Zenon
<1>4. CofactorsHold(b1, b2, a1, a2, v, w, d, c)
  <2>1. w >= 1 /\ v >= w /\ b2 <= 0
    BY <1>1, <1>3
  <2>2. d = a2 * v - a1 * w /\ c = b1 * w - b2 * v
        /\ w = b2 * d + a2 * c /\ v = b1 * d + a1 * c
    BY <1>0, Zenon
  <2>3. QED
    BY <1>2, <1>3, <2>1, <2>2, Zenon DEF CofactorsHold
<1> DEFINE i == m % s  j == n % s
<1>5. i \in Nat /\ i < s /\ m = s * c + i /\ j \in Nat /\ j < s /\ n = s * d + j
  <2>1. m \in Int /\ n \in Int
    OBVIOUS
  <2>2. i \in 0 .. s - 1 /\ m = c * s + i
    BY <2>1, QuotientRemainder DEF LeadOf
  <2>3. j \in 0 .. s - 1 /\ n = d * s + j
    BY <2>1, QuotientRemainder DEF LeadOf
  <2> HIDE DEF i, j
  <2>4. c * s = s * c /\ d * s = s * d
    OBVIOUS
  <2>5. i \in Nat /\ i < s /\ j \in Nat /\ j < s
    BY <2>2, <2>3
  <2>6. QED
    BY <2>2, <2>3, <2>4, <2>5, Zenon
<1> HIDE DEF i, j
<1>6. w = a2 * c + b2 * d /\ v = a1 * c + b1 * d
  <2>1. a2 * c + b2 * d = b2 * d + a2 * c
    BY <1>3, SumCommutes
  <2>2. a1 * c + b1 * d = b1 * d + a1 * c
    BY SumCommutes
  <2>3. QED
    BY <2>1, <2>2, <1>0, Zenon
<1>7. 0 < a2 * m + b2 * n /\ a2 * m + b2 * n < a1 * m + b1 * n
  <2>1. 0 < a2 * (s * c + i) + b2 * (s * d + j)
        /\ a2 * (s * c + i) + b2 * (s * d + j) < a1 * (s * c + i) + b1 * (s * d + j)
    BY <1>1, <1>2, <1>3, <1>5, <1>6, QuotientDecided
  <2>2. QED
    BY <2>1, <1>5, Zenon
<1>8. QED
  BY <1>0a, <1>4, <1>7, Zenon

(* The long numbers in the places the cofactors multiply, their leading      *)
(* words, and the remainders the cofactors stand for.                        *)
FirstOf(l) == IF l.swap THEN l.V ELSE l.U
SecondOf(l) == IF l.swap THEN l.U ELSE l.V
Scale(l) == Exp(2, LeadShift(l.U))
LeadFirst(l) == FirstOf(l) \div Scale(l)
LeadSecond(l) == SecondOf(l) \div Scale(l)
R0(l) == l.x_im1 * FirstOf(l) + l.y_im1 * SecondOf(l)
R1(l) == l.x_i * FirstOf(l) + l.y_i * SecondOf(l)

(* What gcd keeps in its locals while it runs Lehmer's algorithm.            *)
LehmerLocals ==
    [U : Nat, V : Nat, u_ : Int, v_ : Int, x_im1 : Int, x_i : Int, y_im1 : Int, y_i : Int,
     swap : BOOLEAN]

(* U and V are as long as the arguments at most and have their divisors.     *)
EuclidPair(m, n) ==
    /\ m \in Nat /\ n \in Nat /\ m >= n /\ m < Pow[MaxSize]
    /\ Gcd(m, n) = Gcd(Abs(arg.u), Abs(arg.v))
    /\ fn = "lcm" => arg.u # 0 /\ arg.v # 0

(* The remainders are successive ones of Euclid's algorithm.                 *)
InSequence(m, n, x, z) ==
    /\ x \in Int /\ z \in Int /\ 0 < z /\ z <= x /\ x <= m /\ Gcd(x, z) = Gcd(m, n)
    /\ \E k \in 0 .. n : k + z <= n /\ Remainders(m, n, k) = [U |-> x, V |-> z]

(* The leading words are half words, the cofactors are those of remainders   *)
(* of the words and of the long numbers alike.                               *)
LehmerState(l) ==
    /\ l \in LehmerLocals /\ l.V > 0 /\ EuclidPair(l.U, l.V)
    /\ LeadFirst(l) < Exp(2, K) /\ LeadSecond(l) < Exp(2, K) /\ l.u_ < Exp(2, K)
    /\ CofactorsHold(l.x_im1, l.x_i, l.y_im1, l.y_i, l.u_, l.v_, LeadFirst(l), LeadSecond(l))
    /\ InSequence(l.U, l.V, R0(l), R1(l))

(* gcd returns the greatest common divisor, lcm the product divided by it.   *)
GcdReturned ==
    LET g == Gcd(Abs(arg.u), Abs(arg.v))
    IN  /\ fn = "gcd" => result = g
        /\ fn = "lcm" => result = IF g = 0 THEN 0 ELSE Abs(arg.u * arg.v) \div g

(* What holds at each place of gcd and lcm: U and V keep the divisors of     *)
(* the arguments, and the cofactors stay those of Euclid's algorithm.        *)
GcdInv ==
    InGcd =>
        /\ arg.u \in Int /\ arg.v \in Int /\ Fits(arg.u) /\ Fits(arg.v)
        /\ pc \in {"call", "euclid", "lehmer", "divide", "returned"}
        /\ pc \in {"euclid", "divide"} => EuclidPair(loc.U, loc.V)
        /\ pc = "divide" => loc.V > 0
        /\ pc = "lehmer" => LehmerState(loc)
        /\ pc = "returned" => GcdReturned

LEMMA LehmerEnters ==
    ASSUME NEW m, NEW n, EuclidPair(m, n), n > 0, log2(m) - log2(n) <= K \div 2,
           NEW l, l = [U |-> m, V |-> n,
                       u_ |-> Word(m \div Exp(2, LeadShift(m))), v_ |-> Word(n \div Exp(2, LeadShift(m))),
                       x_im1 |-> 1, x_i |-> 0, y_im1 |-> 0, y_i |-> 1, swap |-> FALSE]
    PROVE  LehmerState(l)
<1> DEFINE s == Exp(2, LeadShift(m))  u == m \div s  v == n \div s
<1>0. m \in Nat /\ n \in Nat /\ m >= n /\ m < Pow[MaxSize]
  BY DEF EuclidPair
<1>1. /\ s \in Nat /\ s >= 1 /\ u \in Nat /\ v \in Nat /\ u < Exp(2, K) /\ v <= u
      /\ v >= 1 /\ Word(u) = u /\ Word(v) = v
  BY <1>0, LeadingWords
<1>2. Exp(2, K) \in Nat
  BY HalfWord
<1> HIDE DEF u, v
<1>3. l = [U |-> m, V |-> n, u_ |-> u, v_ |-> v, x_im1 |-> 1, x_i |-> 0, y_im1 |-> 0, y_i |-> 1,
           swap |-> FALSE]
  BY <1>1, Zenon DEF u, v
<1>4. /\ l \in LehmerLocals /\ l.U = m /\ l.V = n /\ l.u_ = u /\ l.v_ = v
      /\ l.x_im1 = 1 /\ l.x_i = 0 /\ l.y_im1 = 0 /\ l.y_i = 1 /\ l.swap = FALSE
  <2>1. u \in Int /\ v \in Int
    BY <1>1
  <2>2. QED
    BY <1>0, <1>3, <2>1 DEF LehmerLocals
<1>5. FirstOf(l) = m /\ SecondOf(l) = n /\ Scale(l) = s
  BY <1>4 DEF FirstOf, SecondOf, Scale
<1>6. LeadFirst(l) = u /\ LeadSecond(l) = v
  BY <1>5 DEF LeadFirst, LeadSecond, u, v
<1>7. CofactorsHold(1, 0, 0, 1, u, v, u, v)
  BY <1>1 DEF CofactorsHold
<1>8. R0(l) = m /\ R1(l) = n
  BY <1>0, <1>4, <1>5 DEF R0, R1
<1>9. InSequence(m, n, m, n)
  <2>1. Remainders(m, n, 0) = [U |-> m, V |-> n] /\ 0 \in 0 .. n /\ 0 + n <= n
    <3>1. 0 \in Nat
      OBVIOUS
    <3>2. QED
      BY <3>1, <1>0, RemaindersFacts
  <2>2. QED
    BY <1>0, <2>1 DEF InSequence
<1>10. u < Exp(2, K) /\ v < Exp(2, K)
  BY <1>1, <1>2
<1>11. QED
  BY <1>4, <1>6, <1>7, <1>8, <1>9, <1>10, Zenon DEF LehmerState

LEMMA LehmerRanges ==
    ASSUME NEW l, LehmerState(l)
    PROVE  /\ l.U \in Nat /\ l.V \in Nat /\ l.V > 0 /\ l.U >= l.V
           /\ l.x_im1 \in Int /\ l.x_i \in Int /\ l.y_im1 \in Int /\ l.y_i \in Int
           /\ l.u_ \in Int /\ l.v_ \in Int /\ l.swap \in BOOLEAN
           /\ FirstOf(l) \in Nat /\ SecondOf(l) \in Nat
           /\ Scale(l) \in Nat /\ Scale(l) > 0
           /\ LeadFirst(l) \in Int /\ LeadSecond(l) \in Int
           /\ l.v_ >= 1 /\ l.u_ >= l.v_
<1>1. l \in LehmerLocals /\ EuclidPair(l.U, l.V) /\ l.V > 0
  BY DEF LehmerState
<1>2. /\ l.x_im1 \in Int /\ l.x_i \in Int /\ l.y_im1 \in Int /\ l.y_i \in Int
      /\ l.u_ \in Int /\ l.v_ \in Int /\ l.swap \in BOOLEAN
  BY <1>1 DEF LehmerLocals
<1>3. l.U \in Nat /\ l.V \in Nat /\ l.U >= l.V /\ l.U < Pow[MaxSize]
  BY <1>1 DEF EuclidPair
<1>4. FirstOf(l) \in Nat /\ SecondOf(l) \in Nat
  BY <1>3 DEF FirstOf, SecondOf
<1>5. Scale(l) \in Nat /\ Scale(l) > 0
  <2>1. l.U > 0
    BY <1>1, <1>3
  <2>2. log2(l.U) \in Nat /\ K \in Nat
    BY <1>3, <2>1, TopBit, HalfWord
  <2>3. LeadShift(l.U) \in Nat
    BY <2>2 DEF LeadShift
  <2>4. 2 \in Nat /\ 2 >= 1
    OBVIOUS
  <2>5. Exp(2, LeadShift(l.U)) \in Nat /\ Exp(2, LeadShift(l.U)) >= 1
    BY <2>3, <2>4, ExpPositive
  <2>6. QED
    BY <2>5 DEF Scale
<1>6. LeadFirst(l) \in Int /\ LeadSecond(l) \in Int
  <2>1. FirstOf(l) \in Int /\ SecondOf(l) \in Int
    BY <1>4
  <2>2. QED
    BY <2>1, <1>5, QuotientRemainder DEF LeadFirst, LeadSecond
<1>7. l.v_ >= 1 /\ l.u_ >= l.v_
  BY DEF LehmerState, CofactorsHold
<1>8. QED
  BY <1>1, <1>2, <1>3, <1>4, <1>5, <1>6, <1>7, Zenon

(* No cofactor outgrows its word, and Jebelean's condition is decided without*)
(* wrapping.                                                                 *)
LEMMA CofactorsSmall ==
    ASSUME NEW l, LehmerState(l)
    PROVE  /\ {l.x_im1, l.x_i, l.y_im1, l.y_i} \subseteq -Exp(2, K) + 1 .. Exp(2, K) - 1
<1> DEFINE k == Exp(2, K)  a0 == l.x_im1  a1 == l.x_i  b0 == l.y_im1  b1 == l.y_i
           u == l.u_  v == l.v_  c == LeadFirst(l)  d == LeadSecond(l)
<1>1. /\ a0 \in Int /\ a1 \in Int /\ b0 \in Int /\ b1 \in Int /\ u \in Int /\ v \in Int
      /\ c \in Int /\ d \in Int /\ c < k /\ d < k /\ CofactorsHold(a0, a1, b0, b1, u, v, c, d)
  BY LehmerRanges DEF LehmerState
<1>2. k \in Nat
  BY HalfWord
<1> HIDE DEF k, a0, a1, b0, b1, u, v, c, d
<1>3. /\ a0 >= 1 /\ a1 <= 0 /\ b0 <= 0 /\ b1 >= 1 /\ v >= 1 /\ u >= v
      /\ c = b1 * u - b0 * v /\ d = a0 * v - a1 * u
  BY <1>1, Zenon DEF CofactorsHold
<1>3a. a0 >= 1 /\ a1 <= 0 /\ b0 <= 0 /\ b1 >= 1 /\ v >= 1 /\ u >= v
  BY <1>3, Zenon
<1>3b. u >= 1 /\ 0 <= u /\ 0 <= v
  BY <1>1, <1>3a
<1>4. b1 <= c /\ b1 - b0 <= c
  <2>1. b1 <= b1 * u - b0 * v /\ (v >= 1 => b1 - b0 <= b1 * u - b0 * v)
    BY <1>1, <1>3a, <1>3b, BoundsDifference
  <2>2. QED
    BY <2>1, <1>3, Zenon
<1>5. a0 <= d /\ a0 - a1 <= d
  <2>1. a0 <= a0 * v - a1 * u /\ (u >= 1 => a0 - a1 <= a0 * v - a1 * u)
    BY <1>1, <1>3a, <1>3b, BoundsDifference
  <2>2. QED
    BY <2>1, <1>3, <1>3b, Zenon
<1>6. {a0, a1, b0, b1} \subseteq -k + 1 .. k - 1
  <2>1. c < k /\ d < k /\ a0 \in Int /\ a1 \in Int /\ b0 \in Int /\ b1 \in Int /\ c \in Int /\ d \in Int
    BY <1>1, Zenon
  <2>2. a0 < k /\ -a0 < k /\ a1 < k /\ -a1 < k /\ b0 < k /\ -b0 < k /\ b1 < k /\ -b1 < k
    BY <2>1, <1>2, <1>3a, <1>4, <1>5
  <2>3. a0 \in -k + 1 .. k - 1 /\ a1 \in -k + 1 .. k - 1 /\ b0 \in -k + 1 .. k - 1 /\ b1 \in -k + 1 .. k - 1
    BY <2>1, <2>2, <1>2
  <2>4. QED
    BY <2>3
<1>7. QED
  BY <1>6 DEF k, a0, a1, b0, b1

LEMMA QuotientDecoded ==
    ASSUME LehmerState(loc), QuotientCorrect
    PROVE  /\ x_ip1 = NextOf(loc.x_im1, loc.x_i, loc.u_, loc.v_)
           /\ y_ip1 = NextOf(loc.y_im1, loc.y_i, loc.u_, loc.v_)
           /\ r = NextOf(loc.u_, loc.v_, loc.u_, loc.v_)
           /\ r \in Int /\ x_ip1 \in Int /\ y_ip1 \in Int
           /\ r >= -y_ip1 /\ loc.v_ - r >= x_ip1 - loc.x_i
<1> DEFINE k == Exp(2, K)  a0 == loc.x_im1  a1 == loc.x_i  b0 == loc.y_im1  b1 == loc.y_i
           u == loc.u_  v == loc.v_  c == LeadFirst(loc)  d == LeadSecond(loc)
           t == Quot(u, v)
           w == NextOf(u, v, u, v)  a2 == NextOf(a0, a1, u, v)  b2 == NextOf(b0, b1, u, v)
<1>1. /\ a0 \in Int /\ a1 \in Int /\ b0 \in Int /\ b1 \in Int /\ u \in Int /\ v \in Int
      /\ c \in Int /\ d \in Int /\ c < k /\ d < k /\ u < k /\ CofactorsHold(a0, a1, b0, b1, u, v, c, d)
  BY LehmerRanges DEF LehmerState
<1>2. k \in Nat /\ B = 2 * k /\ B \in Nat
  BY HalfWord
<1>3. r = w
  <2>1. r = u - (u \div v) * v
    BY DEF r, q
  <2>2. w = u - (u \div v) * v
    BY DEF NextOf, Quot
  <2>3. QED
    BY <2>1, <2>2, Zenon
<1>4. x_ip1 = Signed(a2) /\ y_ip1 = Signed(b2)
  BY Zenon DEF x_ip1, y_ip1, q, NextOf, Quot
<1> HIDE DEF k, a0, a1, b0, b1, u, v, c, d, t, w, a2, b2
<1>5. StepHolds(a0, a1, b0, b1, u, v, c, d)
  BY <1>1, StepRanges
<1>6. /\ w \in Int /\ 0 <= w /\ w < v /\ w <= u /\ a2 \in Int /\ b2 \in Int /\ a2 >= 1 /\ b2 <= -1
      /\ -b2 <= c /\ a2 <= d /\ (w >= 1 => a2 - a1 <= d)
  BY <1>5, Zenon DEF StepHolds, w, a2, b2
<1>7. a1 <= 0 /\ v >= 1
  BY <1>1, Zenon DEF CofactorsHold
<1>8. x_ip1 = a2 /\ y_ip1 = b2
  <2>1. -k <= a2 /\ a2 < k /\ -k <= b2 /\ b2 < k
    BY <1>1, <1>2, <1>6
  <2>2. Signed(a2) = a2 /\ Signed(b2) = b2
    BY <1>6, <2>1, SignedExact DEF k
  <2>3. QED
    BY <1>4, <2>2, Zenon
<1>9. r >= Abs(y_ip1) /\ Word(v - r) >= Abs(Signed(x_ip1 - a1))
  BY Zenon DEF QuotientCorrect, v, a1
<1>10. w >= -b2
  <2>1. w >= Abs(b2)
    BY <1>3, <1>8, <1>9
  <2>2. Abs(b2) = -b2
    BY <1>6 DEF Abs
  <2>3. QED
    BY <2>1, <2>2
<1>11. v - w >= a2 - a1
  <2>1. w >= 1 /\ a2 - a1 <= d
    BY <1>6, <1>10
  <2>2. a2 - a1 \in Int /\ -k <= a2 - a1 /\ a2 - a1 < k /\ a2 - a1 >= 0
    BY <1>1, <1>2, <1>6, <1>7, <2>1
  <2>3. Signed(a2 - a1) = a2 - a1
    BY <2>2, SignedExact DEF k
  <2>4. v - w \in Nat /\ v - w < B
    <3>1. v <= u
      BY <1>1, Zenon DEF CofactorsHold
    <3>2. QED
      BY <3>1, <1>1, <1>2, <1>6
  <2>5. Word(v - w) = v - w
    BY <2>4, <1>2, ModSmall DEF Word
  <2>6. Abs(a2 - a1) = a2 - a1
    BY <2>2 DEF Abs
  <2>7. Word(v - w) >= Abs(Signed(a2 - a1))
    BY <1>3, <1>8, <1>9, Zenon
  <2>8. QED
    BY <2>3, <2>5, <2>6, <2>7, Zenon
<1>12. r >= -y_ip1 /\ v - r >= x_ip1 - a1 /\ r \in Int /\ x_ip1 \in Int /\ y_ip1 \in Int
  BY <1>3, <1>6, <1>8, <1>10, <1>11, Zenon
<1>13. x_ip1 = a2 /\ y_ip1 = b2 /\ r = w
  BY <1>3, <1>8, Zenon
<1>14. QED
  BY <1>12, <1>13, Zenon DEF a0, a1, b0, b1, u, v, w, a2, b2

LEMMA LehmerSteps ==
    ASSUME LehmerState(loc), QuotientCorrect,
           NEW l, l = [loc EXCEPT !.u_ = loc.v_, !.v_ = r,
                                  !.x_im1 = loc.y_i, !.y_im1 = loc.x_i,
                                  !.x_i = y_ip1, !.y_i = x_ip1, !.swap = ~@]
    PROVE  LehmerState(l)
<1> DEFINE a0 == loc.x_im1  a1 == loc.x_i  b0 == loc.y_im1  b1 == loc.y_i
           u == loc.u_  v == loc.v_  c == LeadFirst(loc)  d == LeadSecond(loc)
           s == Scale(loc)  m == FirstOf(loc)  n == SecondOf(loc)
           w == NextOf(u, v, u, v)  a2 == NextOf(a0, a1, u, v)  b2 == NextOf(b0, b1, u, v)
<1>1. loc \in LehmerLocals /\ loc.V > 0 /\ EuclidPair(loc.U, loc.V)
  BY DEF LehmerState
<1>2. w = r /\ a2 = x_ip1 /\ b2 = y_ip1 /\ w \in Int /\ a2 \in Int /\ b2 \in Int
      /\ w >= -b2 /\ v - w >= a2 - a1
  BY QuotientDecoded
<1>3. /\ a0 \in Int /\ a1 \in Int /\ b0 \in Int /\ b1 \in Int /\ u \in Int /\ v \in Int
      /\ c \in Int /\ d \in Int /\ s \in Nat /\ s > 0 /\ m \in Nat /\ n \in Nat /\ loc.swap \in BOOLEAN
      /\ v >= 1 /\ u >= v /\ loc.U \in Nat /\ loc.V \in Nat /\ loc.V <= loc.U
  BY LehmerRanges
<1>4. l = [U |-> loc.U, V |-> loc.V, u_ |-> v, v_ |-> w, x_im1 |-> b1, x_i |-> b2,
           y_im1 |-> a1, y_i |-> a2, swap |-> ~loc.swap]
  BY <1>1, <1>2 DEF LehmerLocals
<1>5. CofactorsHold(a0, a1, b0, b1, u, v, c, d) /\ InSequence(loc.U, loc.V, R0(loc), R1(loc))
      /\ c < Exp(2, K) /\ d < Exp(2, K) /\ u < Exp(2, K)
  BY DEF LehmerState
<1>6. LeadOf(m, s, c) /\ LeadOf(n, s, d)
  BY DEF LeadOf, LeadFirst, LeadSecond
<1>7. R0(loc) = a0 * m + b0 * n /\ R1(loc) = a1 * m + b1 * n
  BY DEF R0, R1
<1> HIDE DEF w, a2, b2
<1>8. /\ l \in LehmerLocals /\ l.U = loc.U /\ l.V = loc.V /\ l.u_ = v /\ l.v_ = w
      /\ l.x_im1 = b1 /\ l.x_i = b2 /\ l.y_im1 = a1 /\ l.y_i = a2 /\ l.swap = ~loc.swap
  BY <1>2, <1>3, <1>4 DEF LehmerLocals
<1>9. FirstOf(l) = n /\ SecondOf(l) = m /\ Scale(l) = s
  BY <1>3, <1>8 DEF FirstOf, SecondOf, Scale
<1>10. LeadFirst(l) = d /\ LeadSecond(l) = c
  BY <1>9 DEF LeadFirst, LeadSecond
<1>11. R0(l) = b1 * n + a1 * m /\ R1(l) = b2 * n + a2 * m
  BY <1>8, <1>9, Zenon DEF R0, R1
<1> HIDE DEF a0, a1, b0, b1, u, v, c, d, s, m, n
<1>12. /\ CofactorsHold(b1, b2, a1, a2, v, w, d, c)
       /\ 0 < a2 * m + b2 * n /\ a2 * m + b2 * n < a1 * m + b1 * n
       /\ (a0 * m + b0 * n) % (a1 * m + b1 * n) = a2 * m + b2 * n
  <2>1. StepKept(a0, a1, b0, b1, u, v, c, d, m, n)
    BY <1>3, <1>5, <1>6, LehmerStepExact
  <2>2. QED
    BY <2>1, <1>2, Zenon DEF StepKept, w, a2, b2
<1>13. R0(l) = R1(loc) /\ R1(l) = a2 * m + b2 * n
  <2>1. m \in Int /\ n \in Int
    BY <1>3
  <2>2. a1 * m + b1 * n = b1 * n + a1 * m
    BY <1>3, <2>1, SumCommutes, SMT
  <2>3. a2 * m + b2 * n = b2 * n + a2 * m
    BY <1>2, <2>1, SumCommutes, SMT
  <2>4. QED
    BY <2>2, <2>3, <1>7, <1>11, Zenon
<1>14. R1(l) = R0(loc) % R1(loc) /\ 0 < R1(l) /\ R1(l) < R1(loc)
  BY <1>7, <1>12, <1>13, Zenon
<1>15. InSequence(loc.U, loc.V, R0(l), R1(l))
  <2> DEFINE x == R0(loc)  z == R1(loc)  o == R1(l)  f == loc.U  g == loc.V
  <2>1. InSequence(f, g, x, z) /\ o = x % z /\ 0 < o /\ o < z /\ R0(l) = z /\ f \in Nat /\ g \in Nat
    BY <1>3, <1>5, <1>13, <1>14
  <2> HIDE DEF x, z, o, f, g
  <2>2. x \in Int /\ z \in Int /\ 0 < z /\ z <= x /\ x <= f /\ Gcd(x, z) = Gcd(f, g)
    BY <2>1 DEF InSequence
  <2>3. PICK k \in 0 .. g : k + z <= g /\ Remainders(f, g, k) = [U |-> x, V |-> z]
    BY <2>1 DEF InSequence
  <2>4. o \in Int
    <3>1. z \in Nat /\ z > 0
      BY <2>2
    <3>2. x % z \in 0 .. z - 1
      BY <2>2, <3>1, QuotientRemainder
    <3>3. QED
      BY <2>1, <2>2, <3>2
  <2>5. Gcd(z, o) = Gcd(f, g)
    <3>1. x \in Nat /\ z \in Nat /\ z # 0
      BY <2>2
    <3>2. QED
      BY <3>1, <2>1, <2>2, GcdStep
  <2>6. k \in Nat /\ k + 1 \in 0 .. g /\ (k + 1) + o <= g
    BY <2>1, <2>2, <2>3, <2>4
  <2>7. Remainders(f, g, k + 1) = [U |-> z, V |-> o]
    <3>1. Remainders(f, g, k + 1) = EuclidStep(Remainders(f, g, k))
      BY <2>1, <2>6, RemaindersFacts
    <3>2. EuclidStep([U |-> x, V |-> z]) = [U |-> z, V |-> x % z]
      BY <2>2 DEF EuclidStep
    <3>3. QED
      BY <3>1, <3>2, <2>1, <2>3
  <2>8. \E i \in 0 .. g : i + o <= g /\ Remainders(f, g, i) = [U |-> z, V |-> o]
    BY <2>6, <2>7, Zenon
  <2>9. z <= f /\ o <= z
    BY <2>1, <2>2, <2>4, <1>3
  <2>10. InSequence(f, g, z, o)
    BY <2>1, <2>2, <2>4, <2>5, <2>8, <2>9, Zenon DEF InSequence
  <2>11. QED
    BY <2>1, <2>10, Zenon DEF o, f, g
<1>16. v < Exp(2, K)
  <2>1. Exp(2, K) \in Nat
    BY HalfWord
  <2>2. QED
    BY <2>1, <1>3, <1>5
<1>17. QED
  BY <1>1, <1>5, <1>8, <1>10, <1>12, <1>15, <1>16, Zenon DEF LehmerState

LEMMA GcdInit == Init => GcdInv
<1>1. CASE LehmerInit
  <2>1. PICK x \in GcdArgs : arg = [u |-> x[1], v |-> x[2]]
    BY <1>1 DEF LehmerInit
  <2>2. x \in {v \in Int : Fits(v)} \X {v \in Int : Fits(v)}
    BY LehmerAssumption
  <2>3. x[1] \in Int /\ x[2] \in Int /\ Fits(x[1]) /\ Fits(x[2])
    BY <2>2
  <2>4. arg.u = x[1] /\ arg.v = x[2]
    BY <2>1
  <2>5. pc = "call"
    BY <1>1 DEF LehmerInit
  <2>6. QED
    BY <2>3, <2>4, <2>5 DEF GcdInv
<1>2. CASE ~LehmerInit
  <2>1. Init => LehmerInit \/ ~InGcd
    <3>1. RootsInit \/ PowersInit => ~InGcd
      BY DEF InGcd, RootsInit, PowersInit
    <3>2. CountingInit \/ IntDivisionInit => ~InGcd
      BY DEF InGcd, CountingInit, IntDivisionInit
    <3>3. StringsInit => ~InGcd
      BY DEF InGcd, StringsInit, ReadInit, WriteInit
    <3>4. QED
      BY <3>1, <3>2, <3>3 DEF Init
  <2>2. QED
    BY <2>1, <1>2 DEF GcdInv
<1>3. QED
  BY <1>1, <1>2

(* The result of lcm.                                                        *)
LEMMA LcmExact ==
    ASSUME NEW m \in Nat, NEW n \in Nat, m # 0, n # 0
    PROVE  Gcd(m, n) # 0 /\ (m * n) \div Gcd(m, n) = (m \div Gcd(m, n)) * n
<1> DEFINE g == Gcd(m, n)
<1>1. g \in Nat \ {0} /\ m % g = 0 /\ g > 0 /\ g \in Nat
  BY GcdGreatest DEF CommonDivisors
<1> HIDE DEF g
<1>2. PICK t \in Int : m = t * g
  BY <1>1, DividesIff
<1>3. m \div g = t
  <2>1. t * g <= m /\ m < (t + 1) * g
    <3>1. (t + 1) * g = t * g + g
      BY <1>1, <1>2
    <3>2. QED
      BY <3>1, <1>1, <1>2
  <2>2. QED
    BY <2>1, <1>1, QuotientUnique
<1>4. (m * n) \div g = t * n
  <2>1. (t * g) * n = (t * n) * g /\ t * n \in Int /\ m * n \in Int
    BY <1>1, <1>2
  <2> DEFINE x == t * n  z == m * n
  <2>2. z = x * g /\ x \in Int /\ z \in Int
    BY <2>1, <1>2
  <2> HIDE DEF x, z
  <2>3. x * g <= z /\ z < (x + 1) * g
    <3>1. (x + 1) * g = x * g + g
      BY <1>1, <2>2
    <3>2. QED
      BY <3>1, <1>1, <2>2
  <2>4. z \div g = x
    BY <2>2, <2>3, <1>1, QuotientUnique
  <2>5. QED
    BY <2>4 DEF x, z
<1>5. QED
  BY <1>1, <1>3, <1>4 DEF g

LEMMA AbsFacts ==
    ASSUME NEW x \in Int
    PROVE  Abs(x) \in Nat /\ (Abs(x) = 0 <=> x = 0) /\ Abs(x) >= 0
           /\ (x >= 0 => Abs(x) = x) /\ (x <= 0 => Abs(x) = -x)
  BY DEF Abs

LEMMA AbsProduct ==
    ASSUME NEW x \in Int, NEW z \in Int
    PROVE  Abs(x * z) = Abs(x) * Abs(z)
<1>1. x * z \in Int /\ (-x) * z = -(x * z) /\ x * (-z) = -(x * z) /\ (-x) * (-z) = x * z
  OBVIOUS
<1>2. ASSUME NEW m \in Nat, NEW n \in Nat PROVE m * n >= 0 /\ m * n \in Int
  OBVIOUS
<1>3. CASE x >= 0 /\ z >= 0
  <2>1. x * z >= 0 /\ Abs(x) = x /\ Abs(z) = z
    BY <1>3, <1>2, AbsFacts
  <2>2. Abs(x * z) = x * z
    BY <2>1, <1>1, AbsFacts
  <2>3. QED
    BY <2>1, <2>2, Zenon
<1>4. CASE x <= 0 /\ z >= 0
  <2>1. (-x) * z >= 0 /\ Abs(x) = -x /\ Abs(z) = z
    BY <1>4, <1>2, AbsFacts
  <2>2. x * z <= 0
    BY <2>1, <1>1
  <2>3. Abs(x * z) = -(x * z)
    BY <2>2, <1>1, AbsFacts
  <2>4. QED
    BY <2>1, <2>3, <1>1, Zenon
<1>5. CASE x >= 0 /\ z <= 0
  <2>1. x * (-z) >= 0 /\ Abs(x) = x /\ Abs(z) = -z
    BY <1>5, <1>2, AbsFacts
  <2>2. x * z <= 0
    BY <2>1, <1>1
  <2>3. Abs(x * z) = -(x * z)
    BY <2>2, <1>1, AbsFacts
  <2>4. QED
    BY <2>1, <2>3, <1>1, Zenon
<1>6. CASE x <= 0 /\ z <= 0
  <2>1. (-x) * (-z) >= 0 /\ Abs(x) = -x /\ Abs(z) = -z
    BY <1>6, <1>2, AbsFacts
  <2>2. x * z >= 0
    BY <2>1, <1>1
  <2>3. Abs(x * z) = x * z
    BY <2>2, <1>1, AbsFacts
  <2>4. QED
    BY <2>1, <2>3, <1>1, Zenon
<1>7. QED
  BY <1>3, <1>4, <1>5, <1>6

(* The remainders the cofactors stand for are those the code combines.       *)
LEMMA CombinedExact ==
    ASSUME LehmerState(loc)
    PROVE  Combined = [U |-> R0(loc), V |-> R1(loc)]
<1> DEFINE a0 == loc.x_im1  a1 == loc.x_i  b0 == loc.y_im1  b1 == loc.y_i  m == loc.U  n == loc.V
<1>1. /\ a0 \in Int /\ a1 \in Int /\ b0 \in Int /\ b1 \in Int /\ m \in Int /\ n \in Int
      /\ loc.swap \in BOOLEAN
  BY LehmerRanges
<1>2. CASE loc.swap = TRUE
  <2>1. Combined = [U |-> m * b0 + n * a0, V |-> m * b1 + n * a1]
    BY <1>2 DEF Combined
  <2>2. R0(loc) = a0 * n + b0 * m /\ R1(loc) = a1 * n + b1 * m
    BY <1>2 DEF R0, R1, FirstOf, SecondOf
  <2> HIDE DEF a0, a1, b0, b1, m, n
  <2>3. m * b0 + n * a0 = a0 * n + b0 * m /\ m * b1 + n * a1 = a1 * n + b1 * m
    BY <1>1
  <2>4. QED
    BY <2>1, <2>2, <2>3, Zenon
<1>3. CASE loc.swap = FALSE
  <2>1. Combined = [U |-> m * a0 + n * b0, V |-> m * a1 + n * b1]
    BY <1>3 DEF Combined
  <2>2. R0(loc) = a0 * m + b0 * n /\ R1(loc) = a1 * m + b1 * n
    BY <1>3 DEF R0, R1, FirstOf, SecondOf
  <2> HIDE DEF a0, a1, b0, b1, m, n
  <2>3. m * a0 + n * b0 = a0 * m + b0 * n /\ m * a1 + n * b1 = a1 * m + b1 * n
    BY <1>1
  <2>4. QED
    BY <2>1, <2>2, <2>3, Zenon
<1>4. QED
  BY <1>1, <1>2, <1>3

LEMMA GcdNext == GcdInv /\ [Next]_vars => GcdInv'
<1> SUFFICES ASSUME GcdInv, [Next]_vars, InGcd PROVE GcdInv'
  BY StepsOfOne DEF GcdInv, InGcd
<1>1. fn' = fn /\ arg' = arg /\ (UNCHANGED vars \/ LehmerNext)
  BY StepsOfOne DEF InGcd
<1>2. /\ arg.u \in Int /\ arg.v \in Int /\ Fits(arg.u) /\ Fits(arg.v) /\ fn \in {"gcd", "lcm"}
      /\ pc \in {"call", "euclid", "lehmer", "divide", "returned"}
      /\ pc \in {"euclid", "divide"} => EuclidPair(loc.U, loc.V)
      /\ pc = "divide" => loc.V > 0
      /\ pc = "lehmer" => LehmerState(loc)
      /\ pc = "returned" => GcdReturned
  BY DEF GcdInv, InGcd
<1> DEFINE m == Abs(arg.u)  n == Abs(arg.v)  g == Gcd(m, n)
<1>3. m \in Nat /\ n \in Nat /\ (m = 0 <=> arg.u = 0) /\ (n = 0 <=> arg.v = 0)
      /\ m < Pow[MaxSize] /\ n < Pow[MaxSize]
  BY <1>2, AbsFacts DEF Fits
<1>4. ASSUME pc' \in {"euclid", "divide"}, EuclidPair(loc'.U, loc'.V), pc' = "divide" => loc'.V > 0
      PROVE  GcdInv'
  <2>1. EuclidPair(loc.U, loc.V)'
    BY <1>1, <1>4 DEF EuclidPair
  <2>2. (arg.u \in Int /\ arg.v \in Int /\ Fits(arg.u) /\ Fits(arg.v))'
    BY <1>1, <1>2
  <2>3. pc' # "lehmer" /\ pc' # "returned" /\ pc' \in {"call", "euclid", "lehmer", "divide", "returned"}
    BY <1>4
  <2>4. QED
    BY <2>1, <2>2, <2>3, <1>4 DEF GcdInv
<1>5. ASSUME pc' = "lehmer", LehmerState(loc)' PROVE GcdInv'
  <2>1. (arg.u \in Int /\ arg.v \in Int /\ Fits(arg.u) /\ Fits(arg.v))'
    BY <1>1, <1>2
  <2>2. QED
    BY <2>1, <1>5 DEF GcdInv
<1>6. ASSUME pc' = "returned", GcdReturned' PROVE GcdInv'
  <2>1. (arg.u \in Int /\ arg.v \in Int /\ Fits(arg.u) /\ Fits(arg.v))'
    BY <1>1, <1>2
  <2>2. QED
    BY <2>1, <1>6 DEF GcdInv
<1>7. CASE UNCHANGED vars
  BY <1>7, <1>2 DEF vars, GcdInv, EuclidPair, LehmerState, InSequence, GcdReturned, result, R0, R1, InGcd,
     LeadFirst, LeadSecond, FirstOf, SecondOf, Scale
<1>8. CASE LcmZero
  <2>1. pc' = "returned" /\ res' = <<0>> /\ fn = "lcm" /\ (m = 0 \/ n = 0)
    BY <1>8, <1>3 DEF LcmZero, Return, Called
  <2>2. g # 0 => g \in Nat \ {0}
    <3>1. CASE m = 0 /\ n = 0
      <4>1. g = 0
        BY <3>1, GcdZeros
      <4>2. QED
        BY <4>1
    <3>2. CASE m # 0 \/ n # 0
      <4>1. g \in Nat \ {0}
        BY <3>2, <1>3, GcdGreatest DEF CommonDivisors
      <4>2. QED
        BY <4>1
    <3>3. QED
      BY <3>1, <3>2
  <2>3. Abs(arg.u * arg.v) = 0
    <3>1. arg.u = 0 \/ arg.v = 0
      BY <2>1, <1>3
    <3>2. arg.u * arg.v = 0
      BY <3>1, <1>2
    <3>3. QED
      BY <3>2 DEF Abs
  <2>4. g # 0 => 0 \div g = 0
    <3>1. ASSUME g # 0 PROVE 0 \div g = 0
      <4>1. g \in Nat /\ g > 0
        BY <2>2, <3>1
      <4> HIDE DEF g
      <4>2. 0 * g <= 0 /\ 0 < (0 + 1) * g /\ 0 \in Int
        BY <4>1
      <4>3. QED
        BY <4>1, <4>2, QuotientUnique
    <3>2. QED
      BY <3>1
  <2>5. GcdReturned'
    BY <2>1, <2>3, <2>4, <1>1 DEF GcdReturned, result
  <2>6. QED
    BY <2>1, <2>5, <1>6
<1>9. CASE GcdCall
  <2>1. pc' = "euclid" /\ loc' = (IF m < n THEN [U |-> n, V |-> m] ELSE [U |-> m, V |-> n])
        /\ (fn = "lcm" => m # 0 /\ n # 0)
    BY <1>9 DEF GcdCall, Enter, Called
  <2>2. (loc'.U = m /\ loc'.V = n /\ m >= n) \/ (loc'.U = n /\ loc'.V = m /\ n >= m)
    BY <2>1, <1>3
  <2>3. Gcd(loc'.U, loc'.V) = g
    BY <2>2, <1>3, GcdCommutes
  <2>4. EuclidPair(loc'.U, loc'.V)
    BY <2>1, <2>2, <2>3, <1>3 DEF EuclidPair
  <2>5. QED
    BY <2>1, <2>4, <1>4
<1>10. CASE GcdReturn
  <2> DEFINE x == IF fn = "gcd" THEN loc.U ELSE (m \div loc.U) * n
  <2>1. pc' = "returned" /\ loc.V = 0 /\ res' = <<x>> /\ EuclidPair(loc.U, loc.V)
    BY <1>10, <1>2 DEF GcdReturn, Return
  <2>2. loc.U \in Nat /\ loc.U = g /\ (fn = "lcm" => m # 0 /\ n # 0)
    BY <2>1, <1>3, GcdOfZero DEF EuclidPair
  <2>3. fn = "lcm" => g # 0 /\ Abs(arg.u * arg.v) \div g = (m \div g) * n
    BY <2>2, <1>2, <1>3, LcmExact, AbsProduct
  <2>4. fn = "gcd" => x = g
    BY <2>2
  <2>5. fn = "lcm" => x = (m \div g) * n
    BY <2>2
  <2>6. result' = x
    BY <2>1 DEF result
  <2>7. GcdReturned'
    BY <2>3, <2>4, <2>5, <2>6, <1>1 DEF GcdReturned
  <2>8. QED
    BY <2>1, <2>7, <1>6
<1>11. CASE LehmerEnter
  <2>1. pc = "euclid" /\ pc' = "lehmer" /\ loc.V # 0 /\ Close /\ EuclidPair(loc.U, loc.V)
        /\ loc' = [U |-> loc.U, V |-> loc.V,
                   u_ |-> Word(loc.U \div Exp(2, LeadShift(loc.U))),
                   v_ |-> Word(loc.V \div Exp(2, LeadShift(loc.U))),
                   x_im1 |-> 1, x_i |-> 0, y_im1 |-> 0, y_i |-> 1, swap |-> FALSE]
    BY <1>11, <1>2 DEF LehmerEnter, Enter, LeadShift
  <2>2. loc.V > 0
    BY <2>1 DEF EuclidPair
  <2>3. LehmerState(loc')
    BY <2>1, <2>2, LehmerEnters DEF Close
  <2>4. LehmerState(loc)'
    BY <2>3, <1>1 DEF LehmerState, EuclidPair, InSequence, R0, R1, LeadFirst, LeadSecond, FirstOf, SecondOf, Scale
  <2>5. QED
    BY <2>1, <2>4, <1>5
<1>12. CASE LehmerStep
  <2>1. pc' = "lehmer" /\ QuotientCorrect /\ LehmerState(loc)
        /\ loc' = [loc EXCEPT !.u_ = loc.v_, !.v_ = r, !.x_im1 = loc.y_i, !.y_im1 = loc.x_i,
                              !.x_i = y_ip1, !.y_i = x_ip1, !.swap = ~@]
    BY <1>12, <1>2 DEF LehmerStep, Enter
  <2>2. LehmerState(loc')
    BY <2>1, LehmerSteps
  <2>3. LehmerState(loc)'
    BY <2>2, <1>1 DEF LehmerState, EuclidPair, InSequence, R0, R1, LeadFirst, LeadSecond, FirstOf, SecondOf, Scale
  <2>4. QED
    BY <2>1, <2>3, <1>5
<1>13. CASE LehmerLeave
  <2>1. pc' = "divide" /\ loc' = Combined /\ LehmerState(loc)
    BY <1>13, <1>2 DEF LehmerLeave, Enter
  <2>2. loc' = [U |-> R0(loc), V |-> R1(loc)]
    BY <2>1, CombinedExact
  <2>3. InSequence(loc.U, loc.V, R0(loc), R1(loc)) /\ EuclidPair(loc.U, loc.V)
    BY <2>1 DEF LehmerState
  <2>4. loc'.U = R0(loc) /\ loc'.V = R1(loc)
    BY <2>2
  <2>5. loc'.V > 0 /\ EuclidPair(loc'.U, loc'.V)
    BY <2>3, <2>4, MaxBitsFacts DEF InSequence, EuclidPair
  <2>6. QED
    BY <2>1, <2>5, <1>4
<1>14. CASE GcdDivide
  <2>1. pc' = "euclid" /\ EuclidPair(loc.U, loc.V) /\ loc.V # 0
        /\ loc' = [U |-> loc.V, V |-> FloorMod(loc.U, loc.V)]
    BY <1>14, <1>2 DEF GcdDivide, Enter
  <2> DEFINE x == loc.U  z == loc.V  o == x % z
  <2>2. x \in Nat /\ z \in Nat /\ z > 0 /\ x >= z /\ x < Pow[MaxSize] /\ Gcd(x, z) = g
        /\ (fn = "lcm" => arg.u # 0 /\ arg.v # 0)
    BY <2>1 DEF EuclidPair
  <2>3. loc'.U = z /\ loc'.V = o
    BY <2>1, <2>2 DEF FloorMod
  <2>4. o \in 0 .. z - 1
    BY <2>2, QuotientRemainder
  <2>5. Gcd(z, o) = g
    BY <2>2, GcdStep
  <2> HIDE DEF x, z, o
  <2>6. EuclidPair(z, o)
    BY <2>2, <2>4, <2>5, MaxBitsFacts DEF EuclidPair
  <2>7. QED
    BY <2>1, <2>3, <2>6, <1>4
<1>15. QED
  BY <1>1, <1>7, <1>8, <1>9, <1>10, <1>11, <1>12, <1>13, <1>14 DEF LehmerNext

(* In every reachable state of gcd and lcm the invariant holds.              *)
THEOREM GcdInductive == Spec => []GcdInv
<1>1. Init => GcdInv
  BY GcdInit
<1>2. GcdInv /\ [Next]_vars => GcdInv'
  BY GcdNext
<1>3. QED
  BY <1>1, <1>2, PTL DEF Spec

(* No division and no combination by cofactors in gcd changes the greatest   *)
(* common divisor of U and V, and gcd and lcm return what they promise.      *)
THEOREM GcdAlwaysKept == Spec => []GcdKept
<1>1. GcdInv => GcdKept
  <2> SUFFICES ASSUME GcdInv, InGcd PROVE GcdKept
    BY DEF GcdKept
  <2>1. pc \in {"euclid", "divide"} => EuclidPair(loc.U, loc.V)
    BY DEF GcdInv
  <2>2. pc \in {"euclid", "divide"} => Gcd(Abs(loc.U), Abs(loc.V)) = Gcd(Abs(arg.u), Abs(arg.v))
    <3>1. SUFFICES ASSUME EuclidPair(loc.U, loc.V)
                   PROVE  Gcd(Abs(loc.U), Abs(loc.V)) = Gcd(Abs(arg.u), Abs(arg.v))
      BY <2>1
    <3>2. loc.U \in Nat /\ loc.V \in Nat /\ Gcd(loc.U, loc.V) = Gcd(Abs(arg.u), Abs(arg.v))
      BY <3>1 DEF EuclidPair
    <3>3. Abs(loc.U) = loc.U /\ Abs(loc.V) = loc.V
      BY <3>2 DEF Abs
    <3>4. QED
      BY <3>2, <3>3, Zenon
  <2>3. pc = "returned" => GcdReturned
    BY DEF GcdInv
  <2>4. QED
    BY <2>2, <2>3 DEF GcdKept, GcdReturned, Returned
<1>2. QED
  BY <1>1, GcdInductive, PTL

(* The cofactors found from the leading words lead to a pair that Euclid's   *)
(* algorithm on the long numbers passes through as well, with V above 0: the *)
(* condition that ends Lehmer's loop is never late.                          *)
THEOREM LehmerAlwaysFollows == Spec => []LehmerFollowsEuclid
<1>1. GcdInv => LehmerFollowsEuclid
  <2> SUFFICES ASSUME GcdInv, InGcd PROVE LehmerFollowsEuclid
    BY DEF LehmerFollowsEuclid
  <2>1. pc = "divide" => loc.U >= loc.V /\ loc.V > 0
    BY DEF GcdInv, EuclidPair
  <2>2. ASSUME pc = "lehmer"
        PROVE  Combined.V > 0 /\ loc.v_ > 0 /\ Follows(loc.U, loc.V, Combined)
    <3>1. LehmerState(loc)
      BY <2>2 DEF GcdInv
    <3>2. Combined = [U |-> R0(loc), V |-> R1(loc)]
      BY <3>1, CombinedExact
    <3>3. InSequence(loc.U, loc.V, R0(loc), R1(loc)) /\ loc.v_ >= 1 /\ loc.v_ \in Int
      BY <3>1, LehmerRanges DEF LehmerState
    <3>4. Combined.V > 0 /\ loc.v_ > 0
      BY <3>2, <3>3 DEF InSequence
    <3>5. PICK k \in 0 .. loc.V : Remainders(loc.U, loc.V, k) = [U |-> R0(loc), V |-> R1(loc)]
      BY <3>3 DEF InSequence
    <3>6. Follows(loc.U, loc.V, Combined)
      BY <3>2, <3>5, Zenon DEF Follows
    <3>7. QED
      BY <3>4, <3>6
  <2>3. QED
    BY <2>1, <2>2 DEF LehmerFollowsEuclid
<1>2. QED
  BY <1>1, GcdInductive, PTL

----------------------------------------------------------------------------
(* Falling products.                                                         *)
LEMMA FallingRecursion ==
    ASSUME NEW n \in Int, NEW k \in Nat
    PROVE  \E g \in [0 .. k -> Int] :
               /\ g[0] = 1 /\ \A i \in 1 .. k : g[i] = (n - i + 1) * g[i - 1]
               /\ Falling(n, k) = g[k]
<1> DEFINE f == CHOOSE f : f = [i \in 0 .. k |-> IF i = 0 THEN 1 ELSE (n - i + 1) * f[i - 1]]
           II == Int
           st == [i \in 1 .. k |-> [s \in II |-> (n - i + 1) * s]]
<1>1. Falling(n, k) = f[k]
  BY DEF Falling
<1>2. st \in [1 .. k -> [II -> II]] /\ 1 \in II
  OBVIOUS
<1>2a. \A i \in 1 .. k, s \in Int : st[i][s] = (n - i + 1) * s
  OBVIOUS
<1> HIDE DEF II, st
<1>3. PICK g \in [0 .. k -> II] : g[0] = 1 /\ \A i \in 1 .. k : g[i] = st[i][g[i - 1]]
  BY <1>2, RecursionExists
<1>4. g \in [0 .. k -> Int] /\ \A i \in 1 .. k : g[i] = (n - i + 1) * g[i - 1]
  <2>1. g \in [0 .. k -> Int]
    BY DEF II
  <2>2. ASSUME NEW i \in 1 .. k PROVE i - 1 \in 0 .. k
    OBVIOUS
  <2>3. QED
    BY <2>1, <2>2, <1>2a, <1>3
<1>5. g = [i \in 0 .. k |-> IF i = 0 THEN 1 ELSE (n - i + 1) * g[i - 1]]
  BY <1>3, <1>4
<1>6. f = [i \in 0 .. k |-> IF i = 0 THEN 1 ELSE (n - i + 1) * f[i - 1]]
  BY <1>5
<1> HIDE DEF f
<1>7. f[0] = 1 /\ \A i \in 1 .. k : f[i] = (n - i + 1) * f[i - 1]
  BY <1>6
<1>8. \A i \in 0 .. k : f[i] = g[i]
  <2>1. ASSUME NEW i \in 0 .. k - 1, f[i] = g[i] PROVE f[i + 1] = g[i + 1]
    <3>1. i + 1 \in 1 .. k /\ (i + 1) - 1 = i
      OBVIOUS
    <3>2. f[i + 1] = (n - (i + 1) + 1) * f[i] /\ g[i + 1] = (n - (i + 1) + 1) * g[i]
      BY <3>1, <1>4, <1>7
    <3>3. QED
      BY <3>2, <2>1
  <2>2. f[0] = g[0]
    BY <1>3, <1>7
  <2>3. QED
    BY <2>1, <2>2, SameSteps
<1>9. Falling(n, k) = g[k]
  <2>1. k \in 0 .. k
    OBVIOUS
  <2>2. QED
    BY <2>1, <1>1, <1>8
<1>10. QED
  BY <1>3, <1>4, <1>9, Zenon

LEMMA FallingFacts ==
    ASSUME NEW n \in Int, NEW k \in Nat
    PROVE  Falling(n, k) \in Int /\ Falling(n, 0) = 1 /\ Falling(n, k + 1) = (n - k) * Falling(n, k)
<1>1. PICK g \in [0 .. k -> Int] :
          /\ g[0] = 1 /\ \A i \in 1 .. k : g[i] = (n - i + 1) * g[i - 1]
          /\ Falling(n, k) = g[k]
  BY FallingRecursion, Zenon
<1>2. k + 1 \in Nat /\ 0 \in Nat
  OBVIOUS
<1>3. PICK h \in [0 .. k + 1 -> Int] :
          /\ h[0] = 1 /\ \A i \in 1 .. k + 1 : h[i] = (n - i + 1) * h[i - 1]
          /\ Falling(n, k + 1) = h[k + 1]
  BY <1>2, FallingRecursion, Zenon
<1>4. Falling(n, 0) = 1
  <2>1. PICK h0 \in [0 .. 0 -> Int] :
          /\ h0[0] = 1 /\ \A i \in 1 .. 0 : h0[i] = (n - i + 1) * h0[i - 1]
          /\ Falling(n, 0) = h0[0]
    BY <1>2, FallingRecursion, Zenon
  <2>2. QED
    BY <2>1
<1>5. \A i \in 0 .. k : g[i] = h[i]
  <2>1. ASSUME NEW i \in 0 .. k - 1, g[i] = h[i] PROVE g[i + 1] = h[i + 1]
    <3>1. i + 1 \in 1 .. k /\ i + 1 \in 1 .. k + 1 /\ (i + 1) - 1 = i
      OBVIOUS
    <3>2. g[i + 1] = (n - (i + 1) + 1) * g[i] /\ h[i + 1] = (n - (i + 1) + 1) * h[i]
      BY <3>1, <1>1, <1>3
    <3>3. QED
      BY <3>2, <2>1
  <2>2. g[0] = h[0]
    BY <1>1, <1>3
  <2>3. QED
    BY <2>1, <2>2, SameSteps
<1>6. k \in 0 .. k /\ k + 1 \in 1 .. k + 1 /\ (k + 1) - 1 = k /\ n - (k + 1) + 1 = n - k
  OBVIOUS
<1>7. h[k + 1] = (n - k) * h[k] /\ h[k] = g[k] /\ g[k] \in Int
  <2>1. h[k + 1] = (n - (k + 1) + 1) * h[(k + 1) - 1]
    BY <1>6, <1>3
  <2>2. QED
    BY <2>1, <1>1, <1>5, <1>6
<1>8. QED
  BY <1>1, <1>3, <1>4, <1>7

(* One more factor in front.                                                 *)
LEMMA FallingUp ==
    ASSUME NEW n \in Int, NEW k \in Nat
    PROVE  Falling(n + 1, k + 1) = (n + 1) * Falling(n, k)
<1> DEFINE T == {i \in Nat : Falling(n + 1, i + 1) = (n + 1) * Falling(n, i)}
<1>1. 0 \in T
  <2>1. n + 1 \in Int /\ 0 \in Nat
    OBVIOUS
  <2>2. Falling(n + 1, 0) = 1 /\ Falling(n, 0) = 1 /\ Falling(n + 1, 0 + 1) = ((n + 1) - 0) * Falling(n + 1, 0)
    BY <2>1, FallingFacts
  <2>3. QED
    BY <2>2
<1>2. ASSUME NEW i \in Nat, i \in T PROVE i + 1 \in T
  <2> DEFINE x == Falling(n, i)  z == Falling(n + 1, i + 1)
  <2>1. n + 1 \in Int /\ i + 1 \in Nat
    OBVIOUS
  <2>2. x \in Int /\ z \in Int /\ Falling(n + 1, (i + 1) + 1) = ((n + 1) - (i + 1)) * z
        /\ Falling(n, i + 1) = (n - i) * x /\ z = (n + 1) * x
    BY <2>1, <1>2, FallingFacts
  <2> HIDE DEF x, z
  <2>3. ((n + 1) - (i + 1)) * ((n + 1) * x) = (n + 1) * ((n - i) * x)
    BY <2>2
  <2>4. QED
    BY <2>1, <2>2, <2>3
<1> HIDE DEF T
<1>3. Nat \subseteq T
  BY <1>1, <1>2, SetInduction
<1>4. QED
  BY <1>3 DEF T

LEMMA FallingPositive ==
    ASSUME NEW k \in Nat
    PROVE  Falling(k, k) \in Nat /\ Falling(k, k) >= 1
<1> DEFINE T == {i \in Nat : Falling(i, i) >= 1}
<1>1. 0 \in T
  <2>1. 0 \in Int /\ 0 \in Nat
    OBVIOUS
  <2>2. Falling(0, 0) = 1
    BY <2>1, FallingFacts
  <2>3. QED
    BY <2>2
<1>2. ASSUME NEW i \in Nat, i \in T PROVE i + 1 \in T
  <2> DEFINE x == Falling(i, i)
  <2>1. i \in Int
    OBVIOUS
  <2>2. x \in Int /\ x >= 1 /\ Falling(i + 1, i + 1) = (i + 1) * x
    BY <2>1, <1>2, FallingFacts, FallingUp
  <2> HIDE DEF x
  <2>3. 1 * x <= (i + 1) * x /\ (i + 1) * x \in Int
    <3>1. x \in Nat /\ 1 <= i + 1 /\ i + 1 \in Int
      BY <2>2
    <3>2. QED
      BY <3>1, MulMonotone
  <2>4. QED
    BY <2>2, <2>3
<1> HIDE DEF T
<1>3. Nat \subseteq T
  BY <1>1, <1>2, SetInduction
<1>4. k \in Int
  OBVIOUS
<1>5. Falling(k, k) >= 1 /\ Falling(k, k) \in Int
  BY <1>3, <1>4, FallingFacts DEF T
<1>6. QED
  BY <1>5

(* A product in two parts.                                                   *)
LEMMA FallingSplit ==
    ASSUME NEW n \in Int, NEW m \in Nat, NEW k \in Nat
    PROVE  Falling(n, m + k) = Falling(n, m) * Falling(n - m, k)
<1> DEFINE T == {i \in Nat : Falling(n, m + i) = Falling(n, m) * Falling(n - m, i)}
<1>0. n - m \in Int
  OBVIOUS
<1>1. 0 \in T
  <2>1. 0 \in Nat /\ m + 0 = m
    OBVIOUS
  <2>2. Falling(n - m, 0) = 1 /\ Falling(n, m) \in Int
    BY <1>0, <2>1, FallingFacts
  <2>3. QED
    BY <2>1, <2>2
<1>2. ASSUME NEW i \in Nat, i \in T PROVE i + 1 \in T
  <2> DEFINE x == Falling(n, m)  z == Falling(n - m, i)
  <2>1. m + i \in Nat /\ m + (i + 1) = (m + i) + 1
    OBVIOUS
  <2>2. x \in Int /\ z \in Int /\ Falling(n, (m + i) + 1) = (n - (m + i)) * Falling(n, m + i)
        /\ Falling(n - m, i + 1) = ((n - m) - i) * z /\ Falling(n, m + i) = x * z
    BY <1>0, <2>1, <1>2, FallingFacts
  <2> HIDE DEF x, z
  <2>3. (n - (m + i)) * (x * z) = x * (((n - m) - i) * z)
    BY <2>2
  <2>4. QED
    BY <2>1, <2>2, <2>3 DEF x
<1> HIDE DEF T
<1>3. Nat \subseteq T
  BY <1>1, <1>2, SetInduction
<1>4. QED
  BY <1>3 DEF T

(* Pascal's rule: the number of choices is a natural number.                 *)
LEMMA ChoicesNatural ==
    ASSUME NEW n \in Nat, NEW k \in Nat
    PROVE  \E c \in Nat : Falling(n, k) = c * Falling(k, k)
<1> DEFINE Whole(m, i) == \E c \in Nat : Falling(m, i) = c * Falling(i, i)
           T == {m \in Nat : \A i \in Nat : Whole(m, i)}
<1>1. 0 \in T
  <2> DEFINE Z == {i \in Nat : Falling(0, i + 1) = 0}
  <2>1. 0 \in Nat /\ 0 \in Int
    OBVIOUS
  <2>2. 0 \in Z
    <3>1. Falling(0, 0 + 1) = (0 - 0) * Falling(0, 0) /\ Falling(0, 0) = 1
      BY <2>1, FallingFacts
    <3>2. QED
      BY <3>1
  <2>3. ASSUME NEW i \in Nat, i \in Z PROVE i + 1 \in Z
    <3>1. i + 1 \in Nat
      OBVIOUS
    <3>2. Falling(0, (i + 1) + 1) = (0 - (i + 1)) * Falling(0, i + 1)
      BY <2>1, <3>1, FallingFacts
    <3>3. QED
      BY <3>1, <3>2, <2>3
  <2> HIDE DEF Z
  <2>4. Nat \subseteq Z
    BY <2>2, <2>3, SetInduction
  <2>5. ASSUME NEW i \in Nat PROVE Whole(0, i)
    <3>1. CASE i = 0
      <4>1. Falling(0, 0) = 1 * Falling(0, 0)
        BY <2>1, FallingFacts
      <4>2. QED
        BY <3>1, <4>1
    <3>2. CASE i # 0
      <4>1. i - 1 \in Nat /\ (i - 1) + 1 = i /\ i \in Int
        BY <3>2
      <4>2. Falling(0, i) = 0
        BY <4>1, <2>4 DEF Z
      <4>3. 0 * Falling(i, i) = 0
        BY <4>1, FallingFacts
      <4>4. QED
        BY <4>2, <4>3
    <3>3. QED
      BY <3>1, <3>2
  <2>6. QED
    BY <2>5
<1>2. ASSUME NEW m \in Nat, m \in T PROVE m + 1 \in T
  <2>1. ASSUME NEW i \in Nat PROVE Whole(m + 1, i)
    <3>0. m \in Int /\ m + 1 \in Int /\ 0 \in Nat /\ 0 \in Int /\ i \in Int
      OBVIOUS
    <3>1. CASE i = 0
      <4>1. Falling(m + 1, 0) = 1 /\ Falling(0, 0) = 1
        BY <3>0, FallingFacts
      <4>2. 1 = 1 * 1 /\ 1 \in Nat
        OBVIOUS
      <4>3. QED
        BY <3>1, <4>1, <4>2
    <3>2. CASE i # 0
      <4> DEFINE j == i - 1
      <4>1. j \in Nat /\ j + 1 = i /\ j \in Int
        BY <3>2
      <4> HIDE DEF j
      <4>2. PICK c \in Nat : Falling(m, j) = c * Falling(j, j)
        BY <1>2, <4>1
      <4>3. PICK d \in Nat : Falling(m, j + 1) = d * Falling(j + 1, j + 1)
        BY <1>2, <4>1
      <4> DEFINE x == Falling(m, j)  z == Falling(j, j)  o == Falling(j + 1, j + 1)
      <4>4. x \in Int /\ z \in Int /\ Falling(m, j + 1) = (m - j) * x
            /\ o = (j + 1) * z /\ Falling(m + 1, j + 1) = (m + 1) * x
        BY <3>0, <4>1, FallingFacts, FallingUp
      <4>5. x = c * z /\ (m - j) * x = d * o
        BY <4>2, <4>3, <4>4
      <4> HIDE DEF x, z, o
      <4>6. (m + 1) * x = (m - j) * x + (j + 1) * (c * z)
        <5>1. (m + 1) * x = (m - j) * x + (j + 1) * x
          BY <4>1, <4>4
        <5>2. QED
          BY <5>1, <4>5
      <4>7. (j + 1) * (c * z) = c * ((j + 1) * z)
        BY <4>1, <4>4
      <4>8. (d + c) * o = d * o + c * o
        <5>1. o \in Int
          BY <4>1, <4>4
        <5>2. QED
          BY <5>1
      <4>9. (m + 1) * x = (d + c) * o
        BY <4>4, <4>5, <4>6, <4>7, <4>8, Zenon
      <4>10. Falling(m + 1, i) = (d + c) * Falling(i, i) /\ d + c \in Nat
        BY <4>1, <4>4, <4>9 DEF o
      <4>11. QED
        BY <4>10
    <3>3. QED
      BY <3>1, <3>2
  <2> HIDE DEF Whole
  <2>2. QED
    BY <2>1
<1> HIDE DEF T
<1>3. Nat \subseteq T
  BY <1>1, <1>2, SetInduction
<1>4. QED
  BY <1>3 DEF T

LEMMA ProductCancel ==
    ASSUME NEW u \in Int, NEW v \in Int, NEW m \in Nat, m > 0, u * m = v * m
    PROVE  u = v
<1>1. ~(u < v) /\ ~(v < u)
  BY MulStrict
<1>2. QED
  BY <1>1

LEMMA QuotientOfProduct ==
    ASSUME NEW t \in Int, NEW g \in Nat, g > 0, NEW m, m = t * g
    PROVE  m \div g = t /\ m % g = 0
<1>1. (t + 1) * g = t * g + g /\ t * g \in Int
  OBVIOUS
<1>2. t * g <= m /\ m < (t + 1) * g /\ m \in Int
  BY <1>1
<1>3. m \div g = t
  BY <1>2, QuotientUnique
<1>4. QED
  BY <1>3, ModMultiple

(* The number of choices is the quotient, which has no remainder.            *)
LEMMA ChoicesIs ==
    ASSUME NEW n \in Nat, NEW k \in Nat, NEW c \in Int, c * Falling(k, k) = Falling(n, k)
    PROVE  Choices(n, k) = c
<1>1. Falling(k, k) \in Nat /\ Falling(k, k) > 0
  BY FallingPositive
<1>2. QED
  BY <1>1, QuotientOfProduct DEF Choices

(* Choosing k of n is leaving n - k.                                         *)
LEMMA ChoicesSymmetric ==
    ASSUME NEW n \in Nat, NEW k \in 0 .. n
    PROVE  Choices(n, n - k) = Choices(n, k)
<1> DEFINE m == n - k
<1>1. k \in Nat /\ m \in Nat /\ n \in Int /\ n - k = m /\ n - m = k /\ k + m = n /\ m + k = n
  OBVIOUS
<1> HIDE DEF m
<1> DEFINE x == Falling(k, k)  z == Falling(m, m)
<1>2. PICK c \in Nat : Falling(n, k) = c * x
  BY <1>1, ChoicesNatural
<1>3. PICK d \in Nat : Falling(n, m) = d * z
  BY <1>1, ChoicesNatural
<1>4. x \in Nat /\ x > 0 /\ z \in Nat /\ z > 0
  BY <1>1, FallingPositive
<1>5. Falling(n, k + m) = Falling(n, k) * Falling(n - k, m)
  BY <1>1, FallingSplit
<1>6. Falling(n, m + k) = Falling(n, m) * Falling(n - m, k)
  BY <1>1, FallingSplit
<1>7. (c * x) * z = (d * z) * x
  BY <1>1, <1>2, <1>3, <1>5, <1>6
<1>8. Choices(n, k) = c /\ Choices(n, m) = d
  BY <1>1, <1>2, <1>3, ChoicesIs
<1> HIDE DEF x, z
<1> DEFINE o == x * z
<1>9. o \in Nat /\ o > 0
  <2>1. 0 * z < x * z /\ x * z \in Int
    BY <1>4, MulStrict
  <2>2. QED
    BY <2>1, <1>4
<1>10. c * o = d * o
  <2>1. (c * x) * z = c * (x * z) /\ (d * z) * x = d * (x * z)
    BY <1>4
  <2>2. QED
    BY <2>1, <1>7
<1> HIDE DEF o
<1>11. c = d
  <2>1. c \in Int /\ d \in Int
    OBVIOUS
  <2>2. QED
    BY <2>1, <1>9, <1>10, ProductCancel
<1>12. QED
  BY <1>8, <1>11 DEF m

(* One factor of comb: the product divides evenly.                           *)
LEMMA CombStepExact ==
    ASSUME NEW d1 \in Nat, NEW j \in Nat, j >= 1, NEW c \in Nat,
           c * Falling(j - 1, j - 1) = Falling(d1 + j - 1, j - 1)
    PROVE  /\ (c * (d1 + j)) % j = 0 /\ (c * (d1 + j)) \div j \in Nat
           /\ ((c * (d1 + j)) \div j) * Falling(j, j) = Falling(d1 + j, j)
<1> DEFINE i == j - 1  m == d1 + i  x == Falling(i, i)
<1>1. i \in Nat /\ i \in Int /\ m \in Nat /\ m \in Int /\ i + 1 = j /\ m + 1 = d1 + j /\ d1 + j - 1 = m
      /\ d1 + j \in Nat
  OBVIOUS
<1> HIDE DEF i, m
<1>2. x \in Nat /\ x > 0 /\ c * x = Falling(m, i)
  BY <1>1, FallingPositive DEF i
<1>3. Falling(j, j) = j * x /\ Falling(d1 + j, j) = (d1 + j) * (c * x)
  <2>1. Falling(i + 1, i + 1) = (i + 1) * Falling(i, i) /\ Falling(m + 1, i + 1) = (m + 1) * Falling(m, i)
    BY <1>1, FallingUp
  <2>2. QED
    BY <2>1, <1>1, <1>2
<1>4. PICK t \in Nat : Falling(d1 + j, j) = t * Falling(j, j)
  BY <1>1, ChoicesNatural
<1> DEFINE z == d1 + j
<1>5. z \in Nat /\ z * (c * x) = t * (j * x)
  BY <1>1, <1>3, <1>4
<1> HIDE DEF x, z
<1>6. c * z = t * j
  <2>1. (c * z) * x = (t * j) * x
    <3>1. (c * z) * x = z * (c * x) /\ (t * j) * x = t * (j * x)
      BY <1>2, <1>5
    <3>2. QED
      BY <3>1, <1>5
  <2>2. c * z \in Int /\ t * j \in Int
    BY <1>5
  <2> DEFINE o == c * z  f == t * j
  <2>3. o * x = f * x /\ o \in Int /\ f \in Int
    BY <2>1, <2>2
  <2> HIDE DEF o, f
  <2>4. o = f
    BY <2>3, <1>2, ProductCancel
  <2>5. QED
    BY <2>4 DEF o, f
<1>7. (c * z) \div j = t /\ (c * z) % j = 0
  <2> DEFINE o == c * z
  <2>1. o = t * j /\ t \in Int /\ j > 0
    BY <1>6
  <2> HIDE DEF o
  <2>2. o \div j = t /\ o % j = 0
    BY <2>1, QuotientOfProduct
  <2>3. QED
    BY <2>2 DEF o
<1>8. QED
  BY <1>4, <1>7 DEF z

Counts == fn \in {"factorial", "perm", "comb"}

(* The products so far: of the numbers from 1 or from n - k + 1 up to i - 1, *)
(* and the number of ways to choose j - 1 of d1 + j - 1.  perm of the largest*)
(* n is left out, whose counter wraps.                                       *)
FactorialSoFar == loc.i \in 1 .. arg.n + 1 /\ loc.result = Falling(loc.i - 1, loc.i - 1)
PermSoFar ==
    LET d == arg.n - arg.k
    IN  /\ d \in Nat /\ loc.i \in 0 .. U - 1
        /\ arg.n < U - 1 => loc.i \in d + 1 .. arg.n + 1 /\ loc.result = Falling(loc.i - 1, loc.i - 1 - d)
CombSoFar ==
    LET d1 == arg.n - loc.d2
    IN  /\ d1 \in Nat /\ loc.d2 \in 1 .. d1 /\ (loc.d2 = arg.k \/ loc.d2 = arg.n - arg.k)
        /\ loc.j \in 1 .. loc.d2 + 1 /\ loc.i = (d1 + loc.j) % U
        /\ loc.result \in Nat
        /\ loc.result * Falling(loc.j - 1, loc.j - 1) = Falling(d1 + loc.j - 1, loc.j - 1)
        /\ loc = [i |-> loc.i, j |-> loc.j, d2 |-> loc.d2, result |-> loc.result]

(* factorial, perm and comb return the falling products and their quotient.  *)
CountReturned ==
    /\ fn = "factorial" => result = Falling(arg.n, arg.n)
    /\ fn = "perm" => result = IF arg.k > arg.n THEN 0 ELSE Falling(arg.n, arg.k)
    /\ fn = "comb" => result = IF arg.k > arg.n THEN 0 ELSE Choices(arg.n, arg.k)

(* What holds at each place of factorial, perm and comb.                     *)
CountInv ==
    Counts =>
        /\ arg.n \in 0 .. U - 1 /\ (fn # "factorial" => arg.k \in 0 .. U - 1)
        /\ pc \in {"call", "returned"} \cup IF fn = "comb" THEN {"choose"} ELSE {"multiply"}
        /\ fn = "factorial" /\ pc = "multiply" => FactorialSoFar
        /\ fn = "perm" /\ pc = "multiply" => PermSoFar
        /\ fn = "comb" /\ pc = "choose" => CombSoFar
        /\ pc = "returned" => CountReturned

LEMMA CountInit == Init => CountInv
<1>1. CASE CountingInit
  <2>1. PICK n \in 0 .. U - 1, k \in 0 .. U - 1 :
            arg = IF fn = "factorial" THEN [n |-> n] ELSE [n |-> n, k |-> k]
    BY <1>1 DEF CountingInit
  <2>2. arg.n = n /\ (fn # "factorial" => arg.k = k) /\ pc = "call"
    BY <1>1, <2>1 DEF CountingInit
  <2>3. QED
    BY <2>2 DEF CountInv
<1>2. CASE ~CountingInit
  <2>1. Init => CountingInit \/ ~Counts
    <3>1. RootsInit \/ PowersInit => ~Counts
      BY DEF Counts, RootsInit, PowersInit
    <3>2. LehmerInit \/ IntDivisionInit => ~Counts
      BY DEF Counts, LehmerInit, IntDivisionInit
    <3>3. StringsInit => ~Counts
      BY DEF Counts, StringsInit, ReadInit, WriteInit
    <3>4. QED
      BY <3>1, <3>2, <3>3 DEF Init
  <2>2. QED
    BY <2>1, <1>2 DEF CountInv
<1>3. QED
  BY <1>1, <1>2

LEMMA CountNext == CountInv /\ [Next]_vars => CountInv'
<1> SUFFICES ASSUME CountInv, [Next]_vars, Counts PROVE CountInv'
  BY StepsOfOne DEF CountInv, Counts
<1>1. fn' = fn /\ arg' = arg /\ (UNCHANGED vars \/ CountingNext)
  BY StepsOfOne DEF Counts
<1>2. /\ arg.n \in 0 .. U - 1 /\ (fn # "factorial" => arg.k \in 0 .. U - 1)
      /\ fn \in {"factorial", "perm", "comb"}
      /\ pc \in {"call", "returned"} \cup IF fn = "comb" THEN {"choose"} ELSE {"multiply"}
      /\ fn = "factorial" /\ pc = "multiply" => FactorialSoFar
      /\ fn = "perm" /\ pc = "multiply" => PermSoFar
      /\ fn = "comb" /\ pc = "choose" => CombSoFar
      /\ pc = "returned" => CountReturned
  BY DEF CountInv, Counts
<1>2a. U \in Nat /\ U >= 2 /\ arg.n \in Nat /\ arg.n \in Int /\ (fn # "factorial" => arg.k \in Nat)
  BY <1>2, CountingAssumption
<1>3. ASSUME fn = "factorial", pc' = "multiply", FactorialSoFar' PROVE CountInv'
  BY <1>1, <1>2, <1>3 DEF CountInv
<1>4. ASSUME fn = "perm", pc' = "multiply", PermSoFar' PROVE CountInv'
  BY <1>1, <1>2, <1>4 DEF CountInv
<1>5. ASSUME fn = "comb", pc' = "choose", CombSoFar' PROVE CountInv'
  BY <1>1, <1>2, <1>5 DEF CountInv
<1>6. ASSUME pc' = "returned", CountReturned' PROVE CountInv'
  BY <1>1, <1>2, <1>6 DEF CountInv
<1>7. CASE UNCHANGED vars
  BY <1>7, <1>2 DEF vars, CountInv, FactorialSoFar, PermSoFar, CombSoFar, CountReturned, result
<1>8. CASE FactorialCall
  <2>1. fn = "factorial" /\ pc' = "multiply" /\ loc' = [i |-> 1, result |-> 1]
    BY <1>8 DEF FactorialCall, Called, Enter
  <2>2. loc'.i = 1 /\ loc'.result = 1 /\ Falling(0, 0) = 1
    <3>1. 0 \in Nat /\ 0 \in Int
      OBVIOUS
    <3>2. QED
      BY <2>1, <3>1, FallingFacts
  <2>3. FactorialSoFar'
    BY <2>2, <1>1, <1>2a DEF FactorialSoFar
  <2>4. QED
    BY <2>1, <2>3, <1>3
<1>9. CASE PermCall
  <2>1. fn = "perm"
    BY <1>9 DEF PermCall, Called
  <2>2. CASE arg.k > arg.n
    <3>1. pc' = "returned" /\ res' = <<0>>
      BY <1>9, <2>2 DEF PermCall, Return
    <3>2. CountReturned'
      BY <3>1, <2>1, <2>2, <1>1 DEF CountReturned, result
    <3>3. QED
      BY <3>1, <3>2, <1>6
  <2>3. CASE ~(arg.k > arg.n)
    <3>1. pc' = "multiply" /\ loc' = [i |-> (arg.n - arg.k + 1) % U, result |-> 1]
      BY <1>9, <2>3 DEF PermCall, Enter
    <3> DEFINE d == arg.n - arg.k
    <3>2. d \in Nat /\ d + 1 \in Nat /\ d + 1 \in Int /\ d + 1 <= U /\ (arg.n < U - 1 => d + 1 < U)
          /\ d + 1 <= arg.n + 1 /\ U > 0
      BY <1>2, <1>2a, <2>1, <2>3
    <3>3. loc'.i = (d + 1) % U /\ loc'.result = 1
      BY <3>1
    <3> HIDE DEF d
    <3>4. (d + 1) % U \in 0 .. U - 1 /\ (arg.n < U - 1 => (d + 1) % U = d + 1)
      BY <3>2, <1>2a, QuotientRemainder, ModSmall
    <3>5. Falling(d, 0) = 1 /\ (d + 1) - 1 = d /\ d - d = 0
      <4>1. 0 \in Nat /\ d \in Int
        BY <3>2
      <4>2. QED
        BY <4>1, FallingFacts
    <3>6. d' = d
      BY <1>1 DEF d
    <3>7. PermSoFar'
      <4>1. loc'.i \in 0 .. U - 1 /\ d \in Nat
        BY <3>2, <3>3, <3>4
      <4>2. ASSUME arg.n < U - 1
            PROVE  loc'.i \in d + 1 .. arg.n + 1 /\ loc'.result = Falling(loc'.i - 1, loc'.i - 1 - d)
        <5>1. loc'.i = d + 1 /\ loc'.i - 1 = d /\ loc'.i - 1 - d = 0
          BY <4>2, <3>2, <3>3, <3>4
        <5>2. QED
          BY <5>1, <3>2, <3>3, <3>5, <1>2a
      <4>3. QED
        BY <4>1, <4>2, <1>1 DEF PermSoFar, d
    <3>8. QED
      BY <3>1, <3>7, <2>1, <1>4
  <2>4. QED
    BY <2>2, <2>3
<1>10. CASE MultiplyStep
  <2>1. pc = "multiply" /\ pc' = "multiply" /\ loc.i <= arg.n /\ fn \in {"factorial", "perm"}
        /\ loc' = [i |-> IF fn = "perm" THEN (loc.i + 1) % U ELSE loc.i + 1, result |-> loc.result * loc.i]
    BY <1>10 DEF MultiplyStep, Enter
  <2>2. loc'.result = loc.result * loc.i /\ loc'.i = IF fn = "perm" THEN (loc.i + 1) % U ELSE loc.i + 1
    BY <2>1
  <2>3. CASE fn = "factorial"
    <3> DEFINE i == loc.i
    <3>1. i \in 1 .. arg.n + 1 /\ loc.result = Falling(i - 1, i - 1) /\ i <= arg.n /\ loc'.i = i + 1
      BY <2>1, <2>2, <2>3, <1>2 DEF FactorialSoFar
    <3>2. i - 1 \in Nat /\ (i - 1) + 1 = i /\ i \in Nat /\ i - 1 \in Int
      BY <3>1, <1>2a
    <3> HIDE DEF i
    <3>3. Falling(i, i) = i * Falling(i - 1, i - 1) /\ Falling(i - 1, i - 1) \in Int
      <4>1. Falling((i - 1) + 1, (i - 1) + 1) = ((i - 1) + 1) * Falling(i - 1, i - 1)
        BY <3>2, FallingUp
      <4>2. QED
        BY <4>1, <3>2, FallingFacts
    <3>4. loc'.result = Falling(i, i)
      <4> DEFINE x == Falling(i - 1, i - 1)
      <4>1. x \in Int /\ Falling(i, i) = i * x /\ loc'.result = x * i
        BY <3>1, <3>3, <2>2 DEF i
      <4> HIDE DEF x
      <4>2. i * x = x * i
        BY <4>1, <3>2
      <4>3. QED
        BY <4>1, <4>2
    <3>5. loc'.i - 1 = i /\ loc'.i \in 1 .. arg.n + 1
      BY <3>1, <3>2, <1>2a
    <3>6. FactorialSoFar'
      BY <3>4, <3>5, <1>1 DEF FactorialSoFar
    <3>7. QED
      BY <2>1, <2>3, <3>6, <1>3
  <2>4. CASE fn = "perm"
    <3> DEFINE i == loc.i  d == arg.n - arg.k
    <3>1. d \in Nat /\ i \in 0 .. U - 1 /\ loc'.i = (i + 1) % U /\ i <= arg.n
          /\ (arg.n < U - 1 => i \in d + 1 .. arg.n + 1 /\ loc.result = Falling(i - 1, i - 1 - d))
      BY <2>1, <2>2, <2>4, <1>2 DEF PermSoFar
    <3>2. loc'.i \in 0 .. U - 1
      <4>1. i + 1 \in Int /\ U > 0
        BY <3>1, <1>2a
      <4>2. QED
        BY <4>1, <3>1, <1>2a, QuotientRemainder
    <3>3. ASSUME arg.n < U - 1
          PROVE  loc'.i \in d + 1 .. arg.n + 1 /\ loc'.result = Falling(loc'.i - 1, loc'.i - 1 - d)
      <4>1. i \in d + 1 .. arg.n + 1 /\ loc.result = Falling(i - 1, i - 1 - d)
        BY <3>1, <3>3
      <4> DEFINE e == i - 1 - d  x == Falling(i - 1, e)
      <4>2. i \in Nat /\ i + 1 \in Nat /\ i + 1 < U /\ e \in Nat /\ i - 1 \in Int /\ (i - 1) + 1 = i /\ e + 1 = i - d
        BY <3>1, <3>3, <4>1, <1>2a
      <4> HIDE DEF i, d, e
      <4>3. loc'.i = i + 1
        BY <4>2, <3>1, <1>2a, ModSmall
      <4>4. Falling(i, i - d) = i * x /\ x \in Int
        <5>1. Falling((i - 1) + 1, e + 1) = ((i - 1) + 1) * Falling(i - 1, e)
          BY <4>2, FallingUp
        <5>2. QED
          BY <5>1, <4>2, FallingFacts
      <4>5. loc'.result = x * i
        BY <2>2, <4>1 DEF i, e
      <4> HIDE DEF x
      <4>6. x * i = i * x
        BY <4>2, <4>4
      <4>7. loc'.i - 1 = i /\ loc'.i - 1 - d = i - d /\ loc'.i \in d + 1 .. arg.n + 1
        BY <4>2, <4>3, <3>1, <4>1, <1>2a
      <4>8. QED
        BY <4>4, <4>5, <4>6, <4>7
    <3>4. PermSoFar'
      BY <3>1, <3>2, <3>3, <1>1 DEF PermSoFar
    <3>5. QED
      BY <2>1, <2>4, <3>4, <1>4
  <2>5. QED
    BY <2>1, <2>3, <2>4
<1>11. CASE MultiplyEnd
  <2>1. pc = "multiply" /\ pc' = "returned" /\ loc.i > arg.n /\ fn \in {"factorial", "perm"} /\ res' = <<loc.result>>
    BY <1>11 DEF MultiplyEnd, Return
  <2>2. result' = loc.result
    BY <2>1 DEF result
  <2>3. CASE fn = "factorial"
    <3>1. loc.i - 1 = arg.n /\ loc.result = Falling(loc.i - 1, loc.i - 1)
      BY <2>1, <2>3, <1>2, <1>2a DEF FactorialSoFar
    <3>2. CountReturned'
      BY <3>1, <2>2, <2>3, <1>1 DEF CountReturned
    <3>3. QED
      BY <2>1, <3>2, <1>6
  <2>4. CASE fn = "perm"
    <3> DEFINE d == arg.n - arg.k
    <3>1. PermSoFar
      BY <2>1, <2>4, <1>2
    <3>2. d \in Nat /\ arg.n < U - 1 /\ arg.k \in Nat
      BY <3>1, <2>1, <2>4, <1>2, <1>2a DEF PermSoFar
    <3>3. loc.i \in d + 1 .. arg.n + 1 /\ loc.result = Falling(loc.i - 1, loc.i - 1 - d)
      BY <3>1, <3>2 DEF PermSoFar
    <3>4. loc.i - 1 = arg.n /\ loc.i - 1 - d = arg.k /\ ~(arg.k > arg.n)
      BY <3>2, <3>3, <2>1, <1>2a
    <3>5. CountReturned'
      BY <3>3, <3>4, <2>2, <2>4, <1>1 DEF CountReturned
    <3>6. QED
      BY <2>1, <3>5, <1>6
  <2>5. QED
    BY <2>1, <2>3, <2>4
<1>12. CASE CombCall
  <2> DEFINE n == arg.n  k == arg.k  d1 == IF n - k > k THEN n - k ELSE k
  <2>1. fn = "comb" /\ n \in Nat /\ k \in Nat /\ n \in 0 .. U - 1 /\ k \in 0 .. U - 1
    BY <1>12, <1>2, <1>2a DEF CombCall, Called
  <2>2. CASE k > n
    <3>1. pc' = "returned" /\ res' = <<0>>
      BY <1>12, <2>2 DEF CombCall, Return
    <3>2. CountReturned'
      BY <3>1, <2>1, <2>2, <1>1 DEF CountReturned, result
    <3>3. QED
      BY <3>1, <3>2, <1>6
  <2>3. CASE ~(k > n) /\ (k = 0 \/ k = n)
    <3>1. pc' = "returned" /\ res' = <<1>>
      BY <1>12, <2>3 DEF CombCall, Return
    <3>2. 1 * Falling(k, k) = Falling(n, k)
      <4>1. CASE k = 0
        <5>1. 0 \in Nat /\ 0 \in Int /\ n \in Int
          BY <2>1
        <5>2. Falling(0, 0) = 1 /\ Falling(n, 0) = 1
          BY <5>1, FallingFacts
        <5>3. QED
          BY <4>1, <5>2
      <4>2. CASE k = n
        <5>1. Falling(k, k) \in Nat
          BY <2>1, FallingPositive
        <5>2. QED
          BY <4>2, <5>1
      <4>3. QED
        BY <2>3, <4>1, <4>2
    <3>3. Choices(n, k) = 1
      <4>1. 1 \in Int
        OBVIOUS
      <4>2. QED
        BY <4>1, <3>2, <2>1, ChoicesIs
    <3>4. CountReturned'
      BY <3>1, <3>3, <2>1, <2>3, <1>1 DEF CountReturned, result
    <3>5. QED
      BY <3>1, <3>4, <1>6
  <2>4. CASE ~(k > n) /\ ~(k = 0 \/ k = n)
    <3>1. pc' = "choose" /\ loc' = [i |-> d1 + 1, j |-> 1, d2 |-> n - d1, result |-> 1]
      BY <1>12, <2>4 DEF CombCall, Enter
    <3>2. d1 \in Nat /\ n - d1 \in 1 .. d1 /\ n - (n - d1) = d1 /\ (n - d1 = k \/ n - d1 = n - k) /\ d1 + 1 < U
          /\ d1 + 1 \in Nat /\ d1 \in Int
      BY <2>1, <2>4, <1>2a
    <3> HIDE DEF d1
    <3>3. loc'.i = d1 + 1 /\ loc'.j = 1 /\ loc'.d2 = n - d1 /\ loc'.result = 1
          /\ loc' = [i |-> loc'.i, j |-> loc'.j, d2 |-> loc'.d2, result |-> loc'.result]
      BY <3>1
    <3>4. (d1 + 1) % U = d1 + 1
      BY <3>2, <1>2a, ModSmall
    <3>5. 1 * Falling(1 - 1, 1 - 1) = Falling(d1 + 1 - 1, 1 - 1)
      <4>1. 0 \in Nat /\ 0 \in Int /\ d1 + 1 - 1 = d1 /\ 1 - 1 = 0
        BY <3>2
      <4>2. Falling(0, 0) = 1 /\ Falling(d1, 0) = 1
        BY <4>1, <3>2, FallingFacts
      <4>3. QED
        BY <4>1, <4>2
    <3>6. CombSoFar'
      <4>1. arg'.n - loc'.d2 = d1 /\ arg'.n = n /\ arg'.k = k
        BY <3>2, <3>3, <1>1
      <4>2. loc'.j \in 1 .. loc'.d2 + 1 /\ loc'.i = (d1 + loc'.j) % U /\ loc'.result \in Nat
            /\ loc'.d2 \in 1 .. d1 /\ (loc'.d2 = k \/ loc'.d2 = n - k)
        BY <3>2, <3>3, <3>4
      <4>3. loc'.result * Falling(loc'.j - 1, loc'.j - 1) = Falling(d1 + loc'.j - 1, loc'.j - 1)
        BY <3>3, <3>5
      <4>4. QED
        BY <3>2, <3>3, <4>1, <4>2, <4>3 DEF CombSoFar
    <3>7. QED
      BY <3>1, <3>6, <2>1, <1>5
  <2>5. QED
    BY <2>2, <2>3, <2>4
<1>13. CASE CombStep
  <2> DEFINE d1 == arg.n - loc.d2  j == loc.j  c == loc.result
  <2>1. fn = "comb" /\ pc = "choose" /\ pc' = "choose" /\ j <= loc.d2 /\ CombSoFar
        /\ loc' = [loc EXCEPT !.result = (@ * loc.i) \div loc.j,
                              !.i = (@ + 1) % U, !.j = (@ + 1) % U]
    BY <1>13, <1>2 DEF CombStep, Enter
  <2>2. /\ d1 \in Nat /\ loc.d2 \in 1 .. d1 /\ (loc.d2 = arg.k \/ loc.d2 = arg.n - arg.k)
        /\ j \in 1 .. loc.d2 + 1 /\ loc.i = (d1 + j) % U /\ c \in Nat
        /\ c * Falling(j - 1, j - 1) = Falling(d1 + j - 1, j - 1)
        /\ loc = [i |-> loc.i, j |-> loc.j, d2 |-> loc.d2, result |-> loc.result]
    BY <2>1, Zenon DEF CombSoFar
  <2>3. /\ loc'.result = (c * loc.i) \div j /\ loc'.i = (loc.i + 1) % U /\ loc'.j = (j + 1) % U
        /\ loc'.d2 = loc.d2
        /\ loc' = [i |-> loc'.i, j |-> loc'.j, d2 |-> loc'.d2, result |-> loc'.result]
    BY <2>1, <2>2
  <2>4. j \in Nat /\ j >= 1 /\ d1 + j \in Nat /\ d1 + j < U /\ j + 1 < U /\ j + 1 \in Nat /\ d1 + j + 1 \in Nat
    BY <2>1, <2>2, <1>2, <1>2a
  <2> HIDE DEF j, d1, c
  <2>5. loc.i = d1 + j /\ loc'.j = j + 1 /\ loc'.i = (d1 + (j + 1)) % U
    <3>1. (d1 + j) % U = d1 + j /\ (j + 1) % U = j + 1
      BY <2>4, <1>2a, ModSmall
    <3>2. loc.i + 1 = d1 + (j + 1)
      BY <3>1, <2>2, <2>4
    <3>3. QED
      BY <3>1, <3>2, <2>2, <2>3
  <2>6. /\ (c * (d1 + j)) \div j \in Nat
        /\ ((c * (d1 + j)) \div j) * Falling(j, j) = Falling(d1 + j, j)
    BY <2>2, <2>4, CombStepExact
  <2>7. (j + 1) - 1 = j /\ d1 + (j + 1) - 1 = d1 + j
    BY <2>2, <2>4
  <2>8. loc'.result \in Nat
        /\ loc'.result * Falling(loc'.j - 1, loc'.j - 1) = Falling(d1 + loc'.j - 1, loc'.j - 1)
    BY <2>3, <2>5, <2>6, <2>7
  <2>9. loc'.j \in 1 .. loc'.d2 + 1
    BY <2>1, <2>2, <2>3, <2>4, <2>5 DEF j
  <2>10. arg'.n - loc'.d2 = d1
    BY <2>3, <1>1 DEF d1
  <2>11. CombSoFar'
    BY <2>2, <2>3, <2>5, <2>8, <2>9, <2>10, <1>1, Zenon DEF CombSoFar
  <2>12. QED
    BY <2>1, <2>11, <1>5
<1>14. CASE CombEnd
  <2> DEFINE d1 == arg.n - loc.d2  j == loc.j  c == loc.result
             rest == IF loc.i \in 1 .. arg.n THEN Falling(arg.n, arg.n - loc.i + 1) ELSE 1
  <2>1. fn = "comb" /\ pc = "choose" /\ pc' = "returned" /\ j > loc.d2 /\ CombSoFar /\ res' = <<c * rest>>
    BY <1>14, <1>2 DEF CombEnd, Return
  <2>2. /\ d1 \in Nat /\ loc.d2 \in 1 .. d1 /\ (loc.d2 = arg.k \/ loc.d2 = arg.n - arg.k)
        /\ j \in 1 .. loc.d2 + 1 /\ loc.i = (d1 + j) % U /\ c \in Nat
        /\ c * Falling(j - 1, j - 1) = Falling(d1 + j - 1, j - 1)
    BY <2>1, Zenon DEF CombSoFar
  <2> HIDE DEF j, d1, c
  <2>3. j - 1 = loc.d2 /\ d1 + j - 1 = arg.n /\ d1 + j = arg.n + 1 /\ loc.d2 \in Nat /\ loc.d2 <= arg.n
    <3>1. loc.d2 \in Nat /\ j \in Nat /\ j = loc.d2 + 1
      BY <2>1, <2>2
    <3>2. d1 = arg.n - loc.d2
      BY DEF d1
    <3>3. QED
      BY <3>1, <3>2, <2>2, <1>2a
  <2>4. rest = 1
    <3>1. CASE arg.n + 1 < U
      <4>1. arg.n + 1 \in Nat
        BY <1>2a
      <4>2. loc.i = arg.n + 1
        BY <4>1, <3>1, <2>2, <2>3, <1>2a, ModSmall
      <4>3. QED
        BY <4>2, <1>2a
    <3>2. CASE arg.n + 1 = U
      <4>1. loc.i = (1 * U) % U /\ 1 \in Int /\ U > 0
        BY <3>2, <2>2, <2>3, <1>2a
      <4>2. loc.i = 0
        BY <4>1, <1>2a, ModMultiple
      <4>3. QED
        BY <4>2
    <3>3. QED
      BY <3>1, <3>2, <1>2, <1>2a
  <2>5. result' = c
    BY <2>1, <2>2, <2>4 DEF result
  <2>6. Choices(arg.n, loc.d2) = c
    <3>1. c \in Int /\ c * Falling(loc.d2, loc.d2) = Falling(arg.n, loc.d2)
      BY <2>2, <2>3
    <3>2. QED
      BY <3>1, <2>3, <1>2a, ChoicesIs
  <2>7. Choices(arg.n, arg.k) = c /\ ~(arg.k > arg.n)
    <3>1. arg.k \in Nat
      BY <2>1, <1>2a
    <3>2. CASE loc.d2 = arg.k
      BY <3>2, <2>3, <2>6, <3>1, <1>2a
    <3>3. CASE loc.d2 = arg.n - arg.k
      <4>1. arg.k \in 0 .. arg.n
        BY <3>1, <3>3, <2>3, <1>2a
      <4>2. Choices(arg.n, arg.n - arg.k) = Choices(arg.n, arg.k)
        BY <4>1, <1>2a, ChoicesSymmetric
      <4>3. QED
        BY <4>1, <4>2, <3>3, <2>6, <1>2a
    <3>4. QED
      BY <2>2, <3>2, <3>3
  <2>8. CountReturned'
    BY <2>1, <2>5, <2>7, <1>1 DEF CountReturned
  <2>9. QED
    BY <2>1, <2>8, <1>6
<1>15. QED
  BY <1>1, <1>7, <1>8, <1>9, <1>10, <1>11, <1>12, <1>13, <1>14 DEF CountingNext

(* In every reachable state of factorial, perm and comb the invariant holds. *)
THEOREM CountInductive == Spec => []CountInv
<1>1. Init => CountInv
  BY CountInit
<1>2. CountInv /\ [Next]_vars => CountInv'
  BY CountNext
<1>3. QED
  BY <1>1, <1>2, PTL DEF Spec

(* factorial, perm and comb return what they promise, whatever the width of  *)
(* the counters, and every division in the loop of comb is exact.            *)
THEOREM ChoicesAlwaysExact == Spec => []ChoicesExact
<1>1. CountInv => ChoicesExact
  <2> SUFFICES ASSUME CountInv, Counts PROVE ChoicesExact
    BY DEF ChoicesExact, Counts, Returned
  <2>1. pc \in {"call", "returned"} \cup IF fn = "comb" THEN {"choose"} ELSE {"multiply"}
    BY DEF CountInv
  <2>2. pc = "returned" => CountReturned
    BY DEF CountInv
  <2>3. ASSUME fn = "comb", pc = "choose", loc.j <= loc.d2
        PROVE  /\ loc.result = Choices(arg.n - loc.d2 + loc.j - 1, loc.j - 1)
               /\ (loc.result * loc.i) % loc.j = 0
    <3> DEFINE d1 == arg.n - loc.d2  j == loc.j  c == loc.result
    <3>1. CombSoFar /\ arg.n \in 0 .. U - 1 /\ U \in Nat
      BY <2>3, CountingAssumption DEF CountInv
    <3>2. /\ d1 \in Nat /\ loc.d2 \in 1 .. d1 /\ j \in 1 .. loc.d2 + 1 /\ loc.i = (d1 + j) % U /\ c \in Nat
          /\ c * Falling(j - 1, j - 1) = Falling(d1 + j - 1, j - 1)
      BY <3>1, Zenon DEF CombSoFar
    <3>3. j \in Nat /\ j >= 1 /\ j - 1 \in Nat /\ d1 + j \in Nat /\ d1 + j - 1 \in Nat /\ d1 + j < U
      BY <2>3, <3>1, <3>2
    <3> HIDE DEF d1, j, c
    <3>4. Choices(d1 + j - 1, j - 1) = c
      <4>1. c \in Int
        BY <3>2
      <4>2. QED
        BY <4>1, <3>2, <3>3, ChoicesIs
    <3>5. (c * (d1 + j)) % j = 0
      BY <3>2, <3>3, CombStepExact
    <3>6. loc.i = d1 + j
      BY <3>1, <3>2, <3>3, ModSmall
    <3>7. QED
      BY <3>4, <3>5, <3>6 DEF d1, j, c
  <2>4. pc # "threw"
    BY <2>1
  <2>5. QED
    BY <2>2, <2>3, <2>4 DEF ChoicesExact, CountReturned, Returned
<1>2. QED
  BY <1>1, CountInductive, PTL

----------------------------------------------------------------------------
(* Both ways to divide a word leave the quotient and the remainder.          *)
LEMMA ProductNat ==
    ASSUME NEW m \in Nat, NEW n \in Nat
    PROVE  m * n \in Nat
  OBVIOUS

LEMMA WholeStepIs ==
    ASSUME NEW x, NEW ai, x < divisor
    PROVE  WholeStep(x, ai) = [q |-> (x * B + ai) \div divisor,
                               x |-> x * B + ai - ((x * B + ai) \div divisor) * divisor]
  BY DEF WholeStep

LEMMA WholeStepExact ==
    ASSUME NEW x \in Nat, NEW ai \in Nat, divisor \in Nat, divisor > 0, x < divisor
    PROVE  WholeStep(x, ai) = [q |-> (x * B + ai) \div divisor, x |-> (x * B + ai) % divisor]
<1> DEFINE high == x * B  n == high + ai  t == n \div divisor  z == t * divisor  o == n % divisor
<1>1. high \in Int /\ n \in Int /\ n = high + ai
  BY BAssumption
<1>2. t \in Int /\ n = z + o /\ o \in Int
  BY <1>1, QuotientRemainder
<1>3. z \in Int
  BY <1>2
<1> HIDE DEF high, n, z, o, t
<1>4. high + (ai - z) = o
  BY <1>1, <1>2, <1>3
<1>5. x * B + ai - ((x * B + ai) \div divisor) * divisor = (x * B + ai) % divisor
  BY <1>4, Zenon DEF high, n, z, o, t
<1>6. QED
  BY <1>5, WholeStepIs, Zenon

LEMMA HalfIdentity ==
    ASSUME NEW hq \in Int, NEW hr \in Int, NEW lq \in Int, NEW lr \in Int, NEW d \in Int,
           NEW h \in Int, NEW l \in Int, NEW x \in Int
    PROVE  /\ (hq * d + hr) * h + l = (hq * h) * d + (l + hr * h)
           /\ (hq * h) * d + (lq * d + lr) = (hq * h + lq) * d + lr
           /\ x * (h * h) + (hq * h + l) = (hq + x * h) * h + l
  OBVIOUS

LEMMA HalfStepExact ==
    ASSUME NEW x \in Nat, NEW ai \in Nat, divisor \in Nat, divisor > 0, x < divisor
    PROVE  HalfStep(x, ai) = [q |-> (x * B + ai) \div divisor, x |-> (x * B + ai) % divisor]
<1> DEFINE d == divisor  n == x * B + ai
           ah == ai \div H  al == ai % H
           hi == ah + x * H  hq == hi \div d  hr == hi % d
           lo == al + hr * H  lq == lo \div d  lr == lo % d
<1>1. H \in Nat /\ H > 0 /\ B = H * H /\ B \in Nat
  <2>1. H \in Nat /\ H >= 2 /\ B = H * H
    BY IntDivisionAssumption, Zenon
  <2>2. QED
    BY <2>1, BAssumption
<1>2. HalfStep(x, ai) = [q |-> hq * H + lq, x |-> lr]
  BY DEF HalfStep
<1>3. d \in Nat /\ d > 0
  OBVIOUS
<1> HIDE DEF d
<1>4. ah \in Nat /\ al \in Nat /\ ai = ah * H + al
  <2>1. ai \in Int
    OBVIOUS
  <2>2. QED
    BY <1>1, <2>1, QuotientRemainder
<1> HIDE DEF ah, al
<1>5. hi \in Nat /\ hi \in Int
  <2>1. x * H \in Nat
    BY <1>1, ProductNat
  <2>2. QED
    BY <1>4, <2>1
<1>6. hq \in Int /\ hr \in Nat /\ hi = hq * d + hr
  BY <1>3, <1>5, QuotientRemainder
<1>7. lo \in Nat /\ lo \in Int
  <2>1. hr * H \in Nat
    BY <1>1, <1>6, ProductNat
  <2>2. QED
    BY <1>4, <2>1
<1> HIDE DEF hq, hr
<1>8. lq \in Int /\ lr \in 0 .. d - 1 /\ lo = lq * d + lr
  BY <1>3, <1>7, QuotientRemainder
<1> HIDE DEF lq, lr
<1>9. n = (hq * H + lq) * d + lr
  <2>1. n = x * (H * H) + (ah * H + al)
    BY <1>1, <1>4, Zenon
  <2>2. x * (H * H) + (ah * H + al) = (ah + x * H) * H + al
    <3>1. H \in Int /\ ah \in Int /\ al \in Int /\ x \in Int
      BY <1>1, <1>4
    <3>2. QED
      BY <3>1, HalfIdentity
  <2>3. (hq * d + hr) * H + al = (hq * H) * d + (al + hr * H)
    <3>1. H \in Int /\ al \in Int /\ d \in Int /\ hr \in Int
      BY <1>1, <1>3, <1>4, <1>6
    <3>2. QED
      BY <3>1, <1>6, HalfIdentity
  <2>4. (hq * H) * d + (lq * d + lr) = (hq * H + lq) * d + lr
    <3>1. H \in Int /\ d \in Int /\ lr \in Int
      BY <1>1, <1>3, <1>8
    <3>2. QED
      BY <3>1, <1>6, <1>8, HalfIdentity
  <2>5. (ah + x * H) * H + al = (hq * d + hr) * H + al
    BY <1>6, Zenon
  <2>6. (hq * H) * d + (al + hr * H) = (hq * H) * d + (lq * d + lr)
    BY <1>8, Zenon
  <2>7. QED
    BY <2>1, <2>2, <2>3, <2>4, <2>5, <2>6, Zenon
<1>10. n \in Int /\ hq * H + lq \in Int
  BY <1>1, <1>6, <1>8
<1> DEFINE t == hq * H + lq
<1>11. n \in Int /\ t \in Int /\ n = t * d + lr
  BY <1>9, <1>10
<1> HIDE DEF n, t, lo, hi
<1>12. n \div d = t /\ n % d = lr
  <2>1. (t + 1) * d = t * d + d /\ t * d \in Int
    BY <1>3, <1>11
  <2> DEFINE z == t * d
  <2>2. z \in Int /\ n = z + lr /\ (t + 1) * d = z + d /\ lr \in Int
    BY <2>1, <1>8, <1>11
  <2> HIDE DEF z
  <2>3. z <= n /\ n < z + d /\ n - z = lr
    BY <2>2, <1>3, <1>8
  <2>4. t * d <= n /\ n < (t + 1) * d
    BY <2>2, <2>3 DEF z
  <2>5. n \div d = t /\ n % d = n - t * d
    BY <1>3, <1>11, <2>4, QuotientUnique
  <2>6. QED
    BY <2>3, <2>5 DEF z
<1>13. QED
  BY <1>2, <1>12, Zenon DEF t, n, d

(* A number from one digit to the next.                                      *)
LEMMA DigitSplit ==
    ASSUME NEW n \in Nat, NEW k \in 0 .. MaxSize - 1
    PROVE  n \div Pow[k] = (n \div Pow[k + 1]) * B + DigitAt(n, k)
<1> DEFINE p1 == Pow[k]  u == n \div p1
<1>1. p1 \in Nat /\ p1 > 0 /\ Pow[k + 1] = p1 * B /\ B \in Nat /\ B > 0
  <2>1. k \in 0 .. MaxSize
    BY PowAssumption
  <2>2. p1 \in Nat /\ p1 > 0 /\ Pow[k + 1] = B * p1
    BY <2>1, PowPositive, PowAssumption
  <2>3. QED
    BY <2>2, BAssumption
<1>2. n \div (p1 * B) = u \div B
  BY <1>1, QuotientTwice
<1>3. u \in Int /\ u = (u \div B) * B + (u % B)
  <2>1. n \in Int
    OBVIOUS
  <2>2. u \in Int
    BY <2>1, <1>1, QuotientRemainder
  <2> HIDE DEF u
  <2>3. QED
    BY <2>2, <1>1, QuotientRemainder
<1>4. QED
  BY <1>1, <1>2, <1>3 DEF DigitAt

LEMMA DigitLow ==
    ASSUME NEW n \in Nat, NEW m \in Nat, NEW k \in 0 .. MaxSize - 1, n % Pow[k + 1] = m % Pow[k + 1]
    PROVE  DigitAt(n, k) = DigitAt(m, k) /\ n % Pow[k] = m % Pow[k]
<1> DEFINE p1 == Pow[k]  u == DigitAt(n, k)  v == DigitAt(m, k)  i == n % p1  j == m % p1
<1>1. p1 \in Nat /\ p1 > 0
  <2>1. k \in 0 .. MaxSize
    BY PowAssumption
  <2>2. QED
    BY <2>1, PowPositive
<1>2. u * p1 + i = v * p1 + j /\ u \in Int /\ v \in Int
  BY RestStep, BAssumption DEF Digit
<1>3. i \in 0 .. p1 - 1 /\ j \in 0 .. p1 - 1
  BY <1>1, QuotientRemainder
<1> HIDE DEF p1, u, v, i, j
<1> DEFINE o == u * p1 + i
<1>4. o \in Int /\ o = v * p1 + j /\ u * p1 \in Int /\ v * p1 \in Int
  BY <1>1, <1>2, <1>3
<1>5. o \div p1 = u
  <2>1. (u + 1) * p1 = u * p1 + p1
    BY <1>1, <1>2
  <2>2. u * p1 <= o /\ o < (u + 1) * p1
    BY <2>1, <1>1, <1>3, <1>4
  <2>3. QED
    BY <2>2, <1>1, <1>2, <1>4, QuotientUnique
<1>6. o \div p1 = v
  <2>1. (v + 1) * p1 = v * p1 + p1
    BY <1>1, <1>2
  <2>2. v * p1 <= o /\ o < (v + 1) * p1
    BY <2>1, <1>1, <1>3, <1>4
  <2>3. QED
    BY <2>2, <1>1, <1>2, <1>4, QuotientUnique
<1>7. u = v
  BY <1>5, <1>6
<1>8. i = j
  BY <1>3, <1>4, <1>7
<1>9. QED
  BY <1>7, <1>8 DEF u, v, i, j, p1

LEMMA DigitReplaced ==
    ASSUME NEW n \in Nat, NEW k \in 0 .. MaxSize - 1, NEW t \in Nat
    PROVE  LET n2 == n + (t - DigitAt(n, k)) * Pow[k]
           IN  /\ n2 \in Nat /\ n2 % Pow[k] = n % Pow[k]
               /\ n2 \div Pow[k] = (n \div Pow[k + 1]) * B + t
<1> DEFINE p1 == Pow[k]  e == DigitAt(n, k)  h == (n \div Pow[k + 1]) * B  u == n \div p1  i == n % p1
           n2 == n + (t - e) * p1
<1>1. k \in 0 .. MaxSize /\ k + 1 \in 0 .. MaxSize
  BY PowAssumption
<1>2. p1 \in Nat /\ p1 > 0 /\ Pow[k + 1] \in Nat /\ Pow[k + 1] > 0
  BY <1>1, PowPositive
<1>3. u \in Int /\ i \in 0 .. p1 - 1 /\ n = u * p1 + i
  <2>1. n \in Int
    OBVIOUS
  <2> HIDE DEF p1
  <2>2. QED
    BY <2>1, <1>2, QuotientRemainder
<1>4. h \in Nat
  <2>1. n \div Pow[k + 1] \in Nat
    BY <1>2, QuotientRemainder
  <2>2. QED
    BY <2>1, BAssumption, ProductNat
<1>5. u = h + e /\ e \in Int
  BY DigitSplit, RestStep, BAssumption DEF Digit
<1>6. n2 = n + (t - e) * p1
  OBVIOUS
<1> HIDE DEF p1, e, h, u, i, n2
<1>7. n2 = (h + t) * p1 + i
  <2>1. (h + e) * p1 + (t - e) * p1 = (h + t) * p1 /\ (h + e) * p1 \in Int /\ (t - e) * p1 \in Int
    BY <1>2, <1>4, <1>5
  <2>2. QED
    BY <2>1, <1>2, <1>3, <1>5, <1>6
<1>8. (h + t) * p1 \in Nat /\ h + t \in Int /\ ((h + t) + 1) * p1 = (h + t) * p1 + p1
  <2>1. h + t \in Nat
    BY <1>4
  <2>2. QED
    BY <2>1, <1>2, ProductNat
<1> DEFINE z == (h + t) * p1
<1>9. z \in Nat /\ n2 = z + i /\ ((h + t) + 1) * p1 = z + p1
  BY <1>7, <1>8
<1> HIDE DEF z
<1>10. n2 \in Nat /\ z <= n2 /\ n2 < z + p1 /\ n2 - z = i
  BY <1>2, <1>3, <1>9
<1>11. n2 \div p1 = h + t /\ n2 % p1 = i
  <2>1. (h + t) * p1 <= n2 /\ n2 < ((h + t) + 1) * p1
    BY <1>9, <1>10 DEF z
  <2>2. n2 \div p1 = h + t /\ n2 % p1 = n2 - (h + t) * p1
    <3>1. n2 \in Int
      BY <1>10
    <3>2. QED
      BY <3>1, <2>1, <1>2, <1>8, QuotientUnique
  <2>3. QED
    BY <2>2, <1>10 DEF z
<1>12. QED
  BY <1>10, <1>11 DEF n2, h, i, p1, e

(* One digit more of the dividend gives one digit more of the quotient.      *)
LEMMA NextDigit ==
    ASSUME NEW u \in Nat, NEW d \in Nat, d > 0, NEW ai \in Nat
    PROVE  LET n == (u % d) * B + ai
           IN  /\ (u * B + ai) \div d = (u \div d) * B + (n \div d)
               /\ (u * B + ai) % d = n % d
               /\ n \div d \in Nat /\ n % d \in Nat /\ n % d < d
<1> DEFINE h == u \div d  x == u % d  n == x * B + ai  t == n \div d  o == n % d
<1>1. B \in Nat
  BY BAssumption
<1>2. h \in Nat /\ x \in Nat /\ u = h * d + x
  BY QuotientRemainder
<1> HIDE DEF h, x
<1>3. n \in Nat /\ n \in Int
  BY <1>1, <1>2, ProductNat
<1>4. t \in Nat /\ o \in 0 .. d - 1 /\ n = t * d + o
  BY <1>3, QuotientRemainder
<1>5. n = x * B + ai
  OBVIOUS
<1> HIDE DEF n, t, o
<1>6. u * B + ai = (h * B + t) * d + o
  <2>1. (h * d + x) * B + ai = (h * B) * d + (x * B + ai)
    BY <1>1, <1>2
  <2>2. (h * B) * d + (t * d + o) = (h * B + t) * d + o
    BY <1>1, <1>2, <1>4
  <2>3. QED
    BY <2>1, <2>2, <1>2, <1>4, <1>5, Zenon
<1> DEFINE f == h * B + t  m == u * B + ai
<1>7. f \in Int /\ m \in Int /\ m = f * d + o
  BY <1>1, <1>2, <1>4, <1>6
<1> HIDE DEF f, m
<1>8. m \div d = f /\ m % d = o
  <2> DEFINE z == f * d
  <2>1. z \in Int /\ m = z + o /\ (f + 1) * d = z + d /\ o \in Int
    BY <1>4, <1>7
  <2> HIDE DEF z
  <2>2. z <= m /\ m < z + d /\ m - z = o
    BY <2>1, <1>4
  <2>3. f * d <= m /\ m < (f + 1) * d
    BY <2>1, <2>2 DEF z
  <2>4. m \div d = f /\ m % d = m - f * d
    BY <2>3, <1>7, QuotientUnique
  <2>5. QED
    BY <2>2, <2>4 DEF z
<1>9. o \in Nat /\ o < d
  BY <1>4
<1>10. QED
  BY <1>4, <1>8, <1>9 DEF f, m, n, t, o, h, x

(* Division of the opposite of a number.                                     *)
LEMMA NegativeDivision ==
    ASSUME NEW a \in Int, NEW d \in Nat, d > 0
    PROVE  /\ a \div d \in Int /\ a % d \in 0 .. d - 1
           /\ (-a) % d = IF a % d = 0 THEN 0 ELSE d - (a % d)
           /\ (-a) \div d = IF a % d = 0 THEN -(a \div d) ELSE -(a \div d) - 1
<1> DEFINE t == a \div d  x == a % d  e == IF x = 0 THEN 0 ELSE 1
<1>1. t \in Int /\ x \in 0 .. d - 1 /\ a = t * d + x
  BY QuotientRemainder
<1> HIDE DEF t, x
<1> DEFINE f == -t - e  z == f * d
<1>2. f \in Int /\ z \in Int /\ (f + 1) * d = z + d /\ -a = z + (IF x = 0 THEN 0 ELSE d - x)
  <2>1. (f + 1) * d = f * d + d
    BY <1>1
  <2>2. CASE x = 0
    BY <2>1, <2>2, <1>1
  <2>3. CASE x # 0
    BY <2>1, <2>3, <1>1
  <2>4. QED
    BY <2>2, <2>3
<1>3. f = IF x = 0 THEN -t ELSE -t - 1
  BY <1>1
<1> HIDE DEF z, e, f
<1>4. z <= -a /\ -a < z + d /\ -a - z = IF x = 0 THEN 0 ELSE d - x
  BY <1>1, <1>2
<1>5. (-a) \div d = f /\ (-a) % d = -a - f * d
  <2> DEFINE o == -a
  <2>1. o \in Int /\ f * d <= o /\ o < (f + 1) * d
    BY <1>2, <1>4 DEF z
  <2> HIDE DEF o
  <2>2. o \div d = f /\ o % d = o - f * d
    BY <2>1, <1>2, QuotientUnique
  <2>3. QED
    BY <2>2 DEF o
<1>6. QED
  BY <1>1, <1>3, <1>4, <1>5 DEF z, t, x

(* An unsigned type gives back what it lost; a signed one loses nothing.     *)
LEMMA UnsignedReturns ==
    ASSUME NEW m \in Nat, NEW k \in Nat, k < m, NEW x \in 1 .. k - 1
    PROVE  (((-x) % m) + k) % m = k - x
<1>1. m - x \in Nat /\ m - x < m /\ x \in Int /\ m > 0 /\ x % m = x
  <2>1. x \in Nat /\ x < m
    OBVIOUS
  <2>2. QED
    BY <2>1, ModSmall
<1>2. (-x) % m = m - x
  BY <1>1, NegativeDivision
<1>3. m - x + k = 1 * m + (k - x) /\ k - x \in Nat /\ k - x < m
  BY <1>1
<1>4. (1 * m + (k - x)) % m = k - x
  <2> DEFINE o == 1 * m + (k - x)
  <2>1. o \in Int /\ 1 * m <= o /\ o < (1 + 1) * m /\ 1 \in Int /\ o - 1 * m = k - x
    BY <1>3
  <2> HIDE DEF o
  <2>2. o % m = o - 1 * m
    BY <2>1, <1>1, QuotientUnique
  <2>3. QED
    BY <2>1, <2>2 DEF o
<1>5. QED
  BY <1>2, <1>3, <1>4

LEMMA SignedKept ==
    ASSUME NEW m \in Nat, m > 0, NEW v \in -(m \div 2) .. m \div 2 - 1
    PROVE  ((v + m \div 2) % m) - m \div 2 = v
<1> DEFINE h == m \div 2
<1>1. h \in Nat /\ 2 * h <= m
  BY QuotientRemainder
<1> HIDE DEF h
<1>2. v + h \in Nat /\ v + h < m /\ v \in Int
  BY <1>1 DEF h
<1>3. (v + h) % m = v + h
  BY <1>2, ModSmall
<1>4. QED
  BY <1>1, <1>2, <1>3 DEF h

----------------------------------------------------------------------------
(* The forms of division by a machine integer: big /= divides by one digit   *)
(* with a sign, the others by an integer of some type.                       *)
IntDivArgs ==
    /\ arg.form \in {"divmod", "div", "mod", "/=", "big /="} /\ arg.type \in {"u64", "i64", "u32", "i32"}
    /\ arg.inPlace \in BOOLEAN /\ arg.a \in Int /\ Fits(arg.a)
    /\ IF arg.form = "big /=" THEN arg.type = "u64" /\ arg.k \in 1 - B .. B - 1 ELSE arg.k \in IntsOf(arg.type)

(* The top digits have been divided; those below i are still there.          *)
DividedDown(i, x, quo) ==
    LET w == Pow[i]  a == Abs(arg.a)
    IN  /\ i \in 0 .. MaxSize /\ quo \in Nat
        /\ x = (a \div w) % divisor
        /\ keepsQuo => quo \div w = (a \div w) \div divisor
        /\ arg.inPlace => IF keepsQuo THEN quo % w = a % w ELSE quo = a

(* The quotient is rounded down, so that the remainder has the sign of the   *)
(* divisor.                                                                  *)
IntDivReturned ==
    /\ keepsQuo => result.quo = FloorDiv(arg.a, arg.k)
    /\ form \in {"divmod", "mod"} => result.rem = FloorMod(arg.a, arg.k)

(* The magnitude has been divided; the signs are still to be put right.      *)
AllDivided ==
    /\ loc.x = Abs(arg.a) % divisor
    /\ keepsQuo => loc.quo = Abs(arg.a) \div divisor

(* What holds at each place of the division by a machine integer.            *)
IntDivInv ==
    fn = "int_div" =>
        /\ IntDivArgs
        /\ pc \in {"call", "digits", "fix", "sign", "returned", "threw"}
        /\ pc \notin {"call", "threw"} => divisor > 0
        /\ pc = "digits" => DividedDown(loc.i, loc.x, loc.quo)
        /\ pc = "fix" => AllDivided
        /\ pc = "sign" => form = "big /=" /\ loc.x = arg.a % divisor /\ loc.quo = arg.a \div divisor
        /\ pc = "returned" => IntDivReturned
        /\ pc = "threw" => arg.k = 0

(* The ranges of the arguments.                                              *)
LEMMA ModulusFacts ==
    ASSUME NEW t \in {"u64", "i64", "u32", "i32"}
    PROVE  Modulus(t) \in Nat /\ Modulus(t) >= 2 /\ Modulus(t) <= B
<1>1. H \in Nat /\ H >= 2 /\ B = H * H
  BY IntDivisionAssumption, Zenon
<1>2. 1 * H <= H * H
  BY <1>1, MulMonotone
<1>3. QED
  BY <1>1, <1>2, BAssumption DEF Modulus

LEMMA DivisorFacts ==
    ASSUME IntDivArgs
    PROVE  /\ arg.k \in Int /\ divisor \in Nat /\ (divisor = 0 <=> arg.k = 0)
           /\ divisor < Modulus(arg.type)
           /\ arg.type \in {"u64", "u32"} /\ form # "big /=" => arg.k >= 0
           /\ arg.type \in {"i64", "i32"} => divisor <= Modulus(arg.type) \div 2 - 1
           /\ form = "big /=" => arg.type = "u64"
           /\ (divisor > 0 => arg.k < 0 \/ arg.k > 0)
           /\ (arg.k >= 0 => divisor = arg.k) /\ (arg.k < 0 => divisor = -arg.k)
<1> DEFINE m == Modulus(arg.type)
<1>1. m \in Nat /\ m >= 2 /\ m <= B /\ B \in Nat
  BY ModulusFacts, BAssumption DEF IntDivArgs
<1>2. m \div 2 \in Nat /\ 2 * (m \div 2) <= m
  <2> HIDE DEF m
  <2>1. QED
    BY <1>1, QuotientRemainder
<1>3. divisor = IF arg.k < 0 THEN -arg.k ELSE arg.k
  BY DEF divisor, Abs
<1>4. CASE form = "big /="
  <2>1. arg.k \in 1 - B .. B - 1 /\ m = B /\ arg.type = "u64"
    BY <1>4 DEF IntDivArgs, form, Modulus, Half
  <2> HIDE DEF m
  <2>2. arg.k \in Int /\ divisor \in Nat /\ (divisor = 0 <=> arg.k = 0) /\ divisor < m
        /\ (divisor > 0 => arg.k < 0 \/ arg.k > 0)
        /\ (arg.k >= 0 => divisor = arg.k) /\ (arg.k < 0 => divisor = -arg.k)
    BY <2>1, <1>1, <1>3
  <2>3. QED
    BY <2>1, <2>2, <1>4 DEF m
<1>5. CASE form # "big /="
  <2>1. arg.k \in IntsOf(arg.type) /\ arg.type \in {"u64", "i64", "u32", "i32"}
    BY <1>5 DEF IntDivArgs, form
  <2>2. arg.k \in IF arg.type \in {"u32", "u64"} THEN 0 .. m - 1 ELSE 1 - m \div 2 .. m \div 2 - 1
    BY <2>1, Zenon DEF IntsOf
  <2> DEFINE h == m \div 2
  <2>3. h \in Nat /\ 2 * h <= m /\ (arg.type \in {"u32", "u64"} => arg.k \in 0 .. m - 1)
        /\ (arg.type \in {"i32", "i64"} => arg.k \in 1 - h .. h - 1)
    BY <2>1, <2>2, <1>2
  <2> HIDE DEF m, h
  <2>4. /\ arg.k \in Int /\ divisor \in Nat /\ (divisor = 0 <=> arg.k = 0) /\ divisor < m
        /\ (arg.type \in {"u64", "u32"} => arg.k >= 0)
        /\ (arg.type \in {"i64", "i32"} => divisor <= h - 1)
        /\ (divisor > 0 => arg.k < 0 \/ arg.k > 0)
        /\ (arg.k >= 0 => divisor = arg.k) /\ (arg.k < 0 => divisor = -arg.k)
    BY <2>1, <2>3, <1>1, <1>3
  <2>5. QED
    BY <2>4, <1>5 DEF m, h
<1>6. QED
  BY <1>4, <1>5

(* One digit divided.                                                        *)
LEMMA DigitDivided ==
    ASSUME IntDivArgs, divisor > 0, loc.i > 0, DividedDown(loc.i, loc.x, loc.quo),
           NEW k, k = loc.i - 1,
           NEW ai, ai = DigitAt(IF arg.inPlace THEN loc.quo ELSE Abs(arg.a), k),
           NEW s, s = IF Half(arg.type) THEN HalfStep(loc.x, ai) ELSE WholeStep(loc.x, ai)
    PROVE  DividedDown(k, s.x, IF keepsQuo THEN loc.quo + (s.q - DigitAt(loc.quo, k)) * Pow[k] ELSE loc.quo)
<1> DEFINE a == Abs(arg.a)  w == Pow[k + 1]  u == a \div w  d == divisor  n == loc.x * B + ai  quo == loc.quo
<1>1. a \in Nat /\ k + 1 = loc.i /\ k \in 0 .. MaxSize - 1 /\ k \in 0 .. MaxSize /\ k + 1 \in 0 .. MaxSize /\ quo \in Nat
  <2>1. loc.i \in 0 .. MaxSize /\ loc.quo \in Nat
    BY DEF DividedDown
  <2>2. arg.a \in Int
    BY DEF IntDivArgs
  <2>3. a \in Nat
    BY <2>2 DEF Abs
  <2> HIDE DEF a
  <2>4. QED
    BY <2>1, <2>3, PowAssumption
<1>2. /\ loc.x = u % d /\ (keepsQuo => quo \div w = u \div d)
      /\ (arg.inPlace => IF keepsQuo THEN quo % w = a % w ELSE quo = a)
  BY <1>1 DEF DividedDown
<1>3. d \in Nat /\ d > 0 /\ arg.inPlace \in BOOLEAN
  BY DivisorFacts DEF IntDivArgs
<1> HIDE DEF a, quo
<1>4. w \in Nat /\ w > 0 /\ Pow[k] \in Nat /\ Pow[k] > 0
  BY <1>1, PowPositive
<1> HIDE DEF w
<1>5. u \in Nat
  BY <1>1, <1>4, QuotientRemainder
<1>6. ai = DigitAt(a, k) /\ ai \in Nat
  <2>1. CASE arg.inPlace /\ keepsQuo
    <3>1. quo % Pow[k + 1] = a % Pow[k + 1]
      BY <1>2, <2>1 DEF w
    <3>2. DigitAt(quo, k) = DigitAt(a, k)
      BY <3>1, <1>1, DigitLow
    <3>3. QED
      BY <3>2, <2>1, <1>1, RestStep, BAssumption DEF Digit, a, quo
  <2>2. CASE ~(arg.inPlace /\ keepsQuo)
    <3>1. ai = DigitAt(a, k)
      BY <1>2, <2>2, <1>3 DEF a, quo
    <3>2. QED
      BY <3>1, <1>1, RestStep, BAssumption DEF Digit
  <2>3. QED
    BY <2>1, <2>2
<1>7. loc.x \in Nat /\ loc.x < d
  BY <1>2, <1>3, <1>5, QuotientRemainder
<1>8. s = [q |-> n \div d, x |-> n % d]
  <2>1. WholeStep(loc.x, ai) = [q |-> n \div d, x |-> n % d] /\ HalfStep(loc.x, ai) = [q |-> n \div d, x |-> n % d]
    BY <1>3, <1>6, <1>7, WholeStepExact, HalfStepExact
  <2>2. QED
    BY <2>1, Zenon
<1>9. a \div Pow[k] = u * B + ai
  BY <1>1, <1>6, DigitSplit DEF w
<1>10. /\ (u * B + ai) \div d = (u \div d) * B + (n \div d)
       /\ (u * B + ai) % d = n % d
       /\ n \div d \in Nat
  BY <1>2, <1>3, <1>5, <1>6, NextDigit
<1>11. s.q = n \div d /\ s.x = n % d
  BY <1>8
<1>12. s.x = (a \div Pow[k]) % d
  BY <1>9, <1>10, <1>11, Zenon
<1> DEFINE t == s.q  quo2 == quo + (t - DigitAt(quo, k)) * Pow[k]
<1>13. t \in Nat
  BY <1>10, <1>11
<1>14. /\ quo2 \in Nat /\ quo2 % Pow[k] = quo % Pow[k]
       /\ quo2 \div Pow[k] = (quo \div w) * B + t
  <2> HIDE DEF t
  <2>1. QED
    BY <1>1, <1>13, DigitReplaced DEF w
<1> HIDE DEF quo2, t, n, u, d
<1>15. CASE keepsQuo
  <2>1. quo2 \div Pow[k] = (a \div Pow[k]) \div d
    BY <1>2, <1>9, <1>10, <1>11, <1>14, <1>15, Zenon DEF t
  <2>2. arg.inPlace => quo2 % Pow[k] = a % Pow[k]
    <3>1. ASSUME arg.inPlace PROVE quo % Pow[k] = a % Pow[k]
      <4>1. quo % Pow[k + 1] = a % Pow[k + 1]
        BY <1>2, <1>15, <3>1 DEF w
      <4>2. QED
        BY <4>1, <1>1, DigitLow
    <3>2. QED
      BY <3>1, <1>14
  <2>3. DividedDown(k, s.x, quo2)
    BY <2>1, <2>2, <1>1, <1>12, <1>14, <1>15, Zenon DEF DividedDown, d, a
  <2>4. QED
    BY <2>3, <1>15, Zenon DEF quo2, quo, t
<1>16. CASE ~keepsQuo
  <2>1. DividedDown(k, s.x, quo)
    BY <1>1, <1>2, <1>12, <1>16, Zenon DEF DividedDown, d, a
  <2>2. QED
    BY <2>1, <1>16, Zenon DEF quo
<1>17. QED
  BY <1>15, <1>16

LEMMA IntDivFacts ==
    ASSUME IntDivArgs
    PROVE  /\ arg.a \in Int /\ Abs(arg.a) \in Nat /\ Abs(arg.a) < Pow[MaxSize]
           /\ arg.type \in {"u64", "i64", "u32", "i32"}
<1>1. arg.a \in Int /\ Fits(arg.a) /\ arg.type \in {"u64", "i64", "u32", "i32"}
  BY Zenon DEF IntDivArgs
<1>2. QED
  BY <1>1, AbsFacts DEF Fits

(* Before the first digit.                                                   *)
LEMMA DivisionStarts ==
    ASSUME IntDivArgs, divisor > 0,
           NEW n, n = Size(Abs(arg.a)),
           NEW quo, quo = IF arg.inPlace THEN Abs(arg.a) ELSE Pow[n] - 1
    PROVE  DividedDown(n, 0, quo)
<1> DEFINE a == Abs(arg.a)  w == Pow[n]  d == divisor
<1>1. a \in Nat /\ a < Pow[MaxSize]
  BY IntDivFacts
<1> HIDE DEF a
<1>2. n \in 0 .. MaxSize /\ a < w
  <2>1. n \in 1 .. MaxSize /\ a < Pow[n]
    BY <1>1, SizeFacts, CallAssumption DEF a
  <2>2. QED
    BY <2>1, PowAssumption
<1>3. w \in Nat /\ w > 0 /\ d \in Nat /\ d > 0
  BY <1>2, PowPositive, DivisorFacts
<1>4. quo \in Nat /\ quo < w /\ (arg.inPlace => quo = a)
  <2>1. quo = IF arg.inPlace THEN a ELSE w - 1
    BY DEF a
  <2> HIDE DEF w
  <2>2. QED
    BY <2>1, <1>1, <1>2, <1>3
<1> HIDE DEF w, d
<1>5. a \div w = 0 /\ quo \div w = 0 /\ 0 \div d = 0 /\ 0 % d = 0
  <2>1. /\ 0 * w <= a /\ a < (0 + 1) * w /\ 0 * w <= quo /\ quo < (0 + 1) * w
        /\ 0 * d <= 0 /\ 0 < (0 + 1) * d /\ 0 \in Int /\ a \in Int /\ quo \in Int
    BY <1>1, <1>2, <1>3, <1>4
  <2>2. a \div w = 0 /\ quo \div w = 0
    BY <2>1, <1>3, QuotientUnique
  <2>3. 0 \div d = 0 /\ 0 % d = 0 - 0 * d
    BY <2>1, <1>3, QuotientUnique
  <2>4. QED
    BY <2>2, <2>3, <1>3
<1>6. QED
  BY <1>2, <1>4, <1>5, Zenon DEF DividedDown, a, w, d

LEMMA SignsDiffer == negA # negK <=> (negA /\ ~negK) \/ (~negA /\ negK)
<1>1. negA \in BOOLEAN /\ negK \in BOOLEAN
  BY DEF negA, negK
<1>2. QED
  BY <1>1, Zenon

(* What the digits leave.                                                    *)
RestOf(x) == x = Abs(arg.a) % divisor
WholeOf(quo) == quo = Abs(arg.a) \div divisor
QuotientFixed(quo, x) ==
    /\ FloorDiv(arg.a, arg.k) = IF (arg.a < 0 /\ ~(arg.k < 0)) \/ (~(arg.a < 0) /\ arg.k < 0)
                                THEN -quo - (IF x # 0 THEN 1 ELSE 0) ELSE quo
    /\ arg.a \div divisor = IF arg.a < 0 THEN -quo - (IF x # 0 THEN 1 ELSE 0) ELSE quo

(* The signs: floor of the quotient, and the remainder that goes with it.    *)
LEMMA FixedRemainder ==
    ASSUME IntDivArgs, divisor > 0, RestOf(loc.x)
    PROVE  /\ FixRemainder # 0 <=> loc.x # 0
           /\ form \in {"divmod", "mod"} => FixRemainder = FloorMod(arg.a, arg.k)
           /\ form = "big /=" => FixRemainder = arg.a % divisor
<1> DEFINE a == arg.a  A == Abs(a)  k == arg.k  d == divisor  x == loc.x  m == Modulus(arg.type)  h == m \div 2
<1>0. m \in Nat /\ m > 0 /\ arg.type \in {"u64", "i64", "u32", "i32"}
  <2>1. m \in Nat /\ m >= 2 /\ arg.type \in {"u64", "i64", "u32", "i32"}
    BY IntDivFacts, ModulusFacts
  <2> HIDE DEF m
  <2>2. QED
    BY <2>1
<1> HIDE DEF m
<1>0a. h \in Int
  BY <1>0, QuotientRemainder
<1>0b. /\ a \in Int /\ k \in Int /\ d \in Nat /\ d > 0 /\ d < m
       /\ (k < 0 \/ k > 0) /\ (form = "big /=" => arg.type = "u64")
  BY IntDivFacts, DivisorFacts DEF m
<1>0c. arg.type \in {"i64", "i32"} => d <= h - 1
  BY DivisorFacts, Zenon DEF m
<1>0d. arg.type \in {"u64", "u32"} /\ form # "big /=" => k >= 0
  BY DivisorFacts, Zenon
<1> HIDE DEF h
<1>1. /\ a \in Int /\ k \in Int /\ d \in Nat /\ m \in Nat /\ h \in Int /\ d > 0 /\ d < m /\ arg.type \in {"u64", "i64", "u32", "i32"}
      /\ (arg.type \in {"u64", "u32"} /\ form # "big /=" => k > 0)
      /\ (arg.type \in {"i64", "i32"} => d <= h - 1)
      /\ (form = "big /=" => arg.type = "u64")
  <2> HIDE DEF k, d, a
  <2>1. k >= 0 => k > 0
    <3>1. k \in Int /\ (k < 0 \/ k > 0)
      BY <1>0b, Zenon
    <3>2. QED
      BY <3>1
  <2>2. QED
    BY <1>0, <1>0a, <1>0b, <1>0c, <1>0d, <2>1, Zenon
<1>2. A = (IF a < 0 THEN -a ELSE a) /\ d = (IF k < 0 THEN -k ELSE k) /\ A \in Nat /\ x = A % d
  <2>1. d = IF k < 0 THEN -k ELSE k
    BY Zenon DEF divisor, Abs
  <2>2. A = IF a < 0 THEN -a ELSE a
    BY Zenon DEF Abs
  <2>3. x = A % d
    BY Zenon DEF RestOf
  <2>4. QED
    BY <2>1, <2>2, <2>3, IntDivFacts, Zenon
<1>1n. a \in Int /\ k \in Int /\ d \in Nat /\ d > 0
  BY <1>0b, Zenon
<1>3. m \in Nat /\ m > 0 /\ h \in Int
  BY <1>0, <1>0a
<1>4. negA <=> a < 0
  BY DEF negA
<1>5. negK <=> form # "big /=" /\ k < 0
  BY DEF negK
<1>6. /\ FloorMod(a, k) = IF k > 0 THEN a % k ELSE -((-a) % (-k))
      /\ \A v : InType(v) = IF arg.type \in {"u32", "u64"} THEN v % m ELSE ((v + h) % m) - h
  BY Zenon DEF FloorMod, InType, m, h
<1>7. FixRemainder = IF ~keepsRem \/ x = 0 THEN x
                     ELSE LET r_ == IF negA THEN InType(-x) ELSE x
                          IN  IF negA # negK THEN InType(r_ + (IF form = "big /=" THEN d ELSE k)) ELSE r_
  BY DEF FixRemainder
<1>8. form \in {"divmod", "mod", "big /="} <=> keepsRem
  BY DEF keepsRem
<1>9. /\ x \in 0 .. d - 1
      /\ a % d = IF a < 0 THEN (IF x = 0 THEN 0 ELSE d - x) ELSE x
      /\ (-a) % d = IF a < 0 THEN x ELSE (IF x = 0 THEN 0 ELSE d - x)
  <2> HIDE DEF a, A, d, x
  <2>1. x \in 0 .. d - 1 /\ (-A) % d = IF x = 0 THEN 0 ELSE d - x
    BY <1>1n, <1>2, NegativeDivision
  <2>2. CASE a < 0
    <3>1. A = -a /\ -A = a
      BY <1>1n, <1>2, <2>2
    <3>2. QED
      BY <3>1, <2>1, <2>2, <1>2
  <2>3. CASE ~(a < 0)
    <3>1. A = a
      BY <1>2, <2>3
    <3>2. QED
      BY <3>1, <2>1, <2>3, <1>2
  <2>4. QED
    BY <2>2, <2>3
<1> HIDE DEF a, A, d, x, m, k
<1>10. FloorMod(a, k) = IF k > 0 THEN a % d ELSE -((-a) % d)
  <2>1. CASE k > 0
    <3>1. d = k
      BY <1>1n, <1>2, <2>1
    <3>2. QED
      BY <3>1, <1>6, <2>1
  <2>2. CASE ~(k > 0)
    <3>1. d = -k
      BY <1>1n, <1>2, <2>2
    <3>2. QED
      BY <3>1, <1>6, <2>2
  <2>3. QED
    BY <2>1, <2>2
<1>11. CASE x = 0
  <2>1. FixRemainder = 0
    BY <1>7, <1>11
  <2>2. a % d = 0 /\ FloorMod(a, k) = 0
    BY <1>9, <1>10, <1>11
  <2>3. QED
    BY <2>1, <2>2, <1>11 DEF x, a, k, d
<1>12. CASE ~keepsRem
  <2>1. FixRemainder = x
    BY <1>7, <1>12
  <2>2. form \notin {"divmod", "mod", "big /="}
    BY <1>8, <1>12
  <2>3. QED
    BY <2>1, <2>2 DEF x
<1>13. CASE x # 0 /\ keepsRem /\ arg.type \in {"u32", "u64"}
  <2>1. ASSUME form # "big /=" PROVE k > 0 /\ ~(k < 0) /\ k = d
    <3>1. k > 0
      BY <1>1, <1>13, <2>1, Zenon
    <3>2. QED
      BY <3>1, <1>1n, <1>2
  <2>2. ~negK
    BY <2>1, <1>5, Zenon
  <2>3. (IF form = "big /=" THEN d ELSE k) = d
    BY <2>1, Zenon
  <2>4. FixRemainder = IF a < 0 THEN InType(InType(-x) + d) ELSE x
    <3>1. CASE a < 0
      <4>1. negA
        BY <3>1, <1>4, Zenon
      <4>2. FixRemainder = InType(InType(-x) + d)
        BY <4>1, <2>2, <2>3, <1>7, <1>13, Zenon
      <4>3. QED
        BY <4>2, <3>1, Zenon
    <3>2. CASE ~(a < 0)
      <4>1. ~negA
        BY <3>2, <1>4, Zenon
      <4>2. FixRemainder = x
        BY <4>1, <2>2, <1>7, SignsDiffer, <1>13, Zenon
      <4>3. QED
        BY <4>2, <3>2, Zenon
    <3>3. QED
      BY <3>1, <3>2, Zenon
  <2>5. InType(InType(-x) + d) = d - x
    <3>1. InType(InType(-x) + d) = (((-x) % m) + d) % m
      BY <1>6, <1>13, Zenon
    <3>2. x \in 1 .. d - 1
      BY <1>1n, <1>9, <1>13
    <3>3. m \in Nat /\ d \in Nat /\ d < m
      BY <1>1, Zenon
    <3>4. (((-x) % m) + d) % m = d - x
      BY <3>2, <3>3, UnsignedReturns
    <3>5. QED
      BY <3>1, <3>4, Zenon
  <2>6. x # 0
    BY <1>13, Zenon
  <2>7. FixRemainder = a % d /\ FixRemainder # 0
    BY <2>4, <2>5, <2>6, <1>1n, <1>9
  <2>8. form \in {"divmod", "mod"} => FloorMod(a, k) = a % d
    <3>1. form \in {"divmod", "mod"} => form # "big /="
      OBVIOUS
    <3>2. QED
      BY <3>1, <2>1, <1>10, Zenon
  <2>9. QED
    BY <2>6, <2>7, <2>8, Zenon DEF x, a, k, d
<1>14. CASE x # 0 /\ keepsRem /\ arg.type \in {"i32", "i64"}
  <2>1. form # "big /=" /\ form \in {"divmod", "mod"} /\ (negK <=> k < 0)
    BY <1>1, <1>5, <1>8, <1>14
  <2>2. d <= h - 1 /\ h \in Int
    BY <1>1, <1>3, <1>14, Zenon
  <2>3. \A v \in -h .. h - 1 : InType(v) = v
    <3>1. \A v \in -h .. h - 1 : ((v + h) % m) - h = v
      BY <1>3, SignedKept DEF h
    <3>2. QED
      BY <3>1, <1>6, <1>14
  <2>5. -x \in -h .. h - 1
    BY <1>1n, <1>9, <2>2
  <2>6. FixRemainder = IF negA THEN IF negK THEN InType(-x) ELSE InType(InType(-x) + k)
                       ELSE IF negK THEN InType(x + k) ELSE x
    <3>1. (IF form = "big /=" THEN d ELSE k) = k
      BY <2>1, Zenon
    <3>2. CASE negA
      BY <1>7, SignsDiffer, <1>14, <3>1, <3>2, Zenon
    <3>3. CASE ~negA
      BY <1>7, SignsDiffer, <1>14, <3>1, <3>3, Zenon
    <3>4. QED
      BY <3>2, <3>3, Zenon
  <2>7. FixRemainder = IF a < 0 THEN IF k < 0 THEN -x ELSE k - x ELSE IF k < 0 THEN x + k ELSE x
    <3>1. CASE a < 0 /\ k < 0
      BY <3>1, <2>1, <2>3, <2>5, <2>6, <1>4
    <3>2. CASE a < 0 /\ ~(k < 0)
      <4>1. k - x \in -h .. h - 1 /\ -x + k = k - x
        BY <3>2, <1>1n, <1>2, <1>9, <2>2
      <4>2. InType(-x) = -x
        BY <2>3, <2>5
      <4>3. InType(InType(-x) + k) = k - x
        BY <4>1, <4>2, <2>3
      <4>4. QED
        BY <4>3, <3>2, <2>1, <2>6, <1>4
    <3>3. CASE ~(a < 0) /\ k < 0
      <4>1. x + k \in -h .. h - 1
        BY <3>3, <1>1n, <1>2, <1>9, <2>2
      <4>2. QED
        BY <4>1, <3>3, <2>1, <2>3, <2>6, <1>4
    <3>4. CASE ~(a < 0) /\ ~(k < 0)
      BY <3>4, <2>1, <2>6, <1>4
    <3>5. QED
      BY <3>1, <3>2, <3>3, <3>4
  <2>8. FixRemainder = FloorMod(a, k) /\ FixRemainder # 0
    <3>1. CASE k < 0
      BY <3>1, <2>7, <1>1n, <1>2, <1>9, <1>10, <1>14
    <3>2. CASE ~(k < 0)
      BY <3>2, <2>7, <1>1n, <1>2, <1>9, <1>10, <1>14
    <3>3. QED
      BY <3>1, <3>2
  <2>9. QED
    BY <2>1, <2>8, <1>14, Zenon DEF x, a, k, d
<1>15. arg.type \in {"u32", "u64"} \/ arg.type \in {"i32", "i64"}
  BY <1>0, Zenon
<1>16. QED
  BY <1>15, <1>11, <1>12, <1>13, <1>14, Zenon

LEMMA FixedQuotient ==
    ASSUME IntDivArgs, divisor > 0, NEW quo, WholeOf(quo), NEW x, RestOf(x)
    PROVE  QuotientFixed(quo, x)
<1> DEFINE a == arg.a  A == Abs(a)  k == arg.k  d == divisor
<1>1. a \in Int /\ k \in Int /\ d \in Nat /\ d > 0
  BY DivisorFacts, IntDivFacts
<1>2. A = (IF a < 0 THEN -a ELSE a) /\ d = (IF k < 0 THEN -k ELSE k) /\ quo = A \div d /\ x = A % d
  <2>1. d = IF k < 0 THEN -k ELSE k
    BY Zenon DEF divisor, Abs
  <2>2. A = IF a < 0 THEN -a ELSE a
    BY Zenon DEF Abs
  <2>3. quo = A \div d /\ x = A % d
    BY Zenon DEF RestOf, WholeOf
  <2>4. QED
    BY <2>1, <2>2, <2>3, Zenon
<1>3. FloorDiv(a, k) = IF k > 0 THEN a \div k ELSE (-a) \div (-k)
  BY DEF FloorDiv
<1> HIDE DEF a, A, k, d
<1>4. /\ quo \in Int /\ x \in Int
      /\ a \div d = IF a < 0 THEN -quo - (IF x # 0 THEN 1 ELSE 0) ELSE quo
      /\ (-a) \div d = IF a < 0 THEN quo ELSE -quo - (IF x # 0 THEN 1 ELSE 0)
  <2>1. A \in Int
    BY <1>1, <1>2
  <2>2. quo \in Int /\ x \in Int /\ (-A) \div d = IF x = 0 THEN -quo ELSE -quo - 1
    BY <2>1, <1>1, <1>2, NegativeDivision
  <2>3. CASE a < 0
    <3>1. A = -a /\ -A = a
      BY <1>1, <1>2, <2>3
    <3>2. QED
      BY <3>1, <2>2, <2>3, <1>2
  <2>4. CASE ~(a < 0)
    <3>1. A = a
      BY <1>2, <2>4
    <3>2. QED
      BY <3>1, <2>2, <2>4, <1>2
  <2>5. QED
    BY <2>3, <2>4
<1>5. FloorDiv(a, k) = IF k < 0 THEN (-a) \div d ELSE a \div d
  <2>1. CASE k > 0
    <3>1. d = k /\ ~(k < 0)
      BY <1>1, <1>2, <2>1
    <3>2. QED
      BY <3>1, <1>3, <2>1
  <2>2. CASE ~(k > 0)
    <3>1. d = -k /\ k < 0
      BY <1>1, <1>2, <2>2
    <3>2. QED
      BY <3>1, <1>3, <2>2
  <2>3. QED
    BY <2>1, <2>2
<1>6. FloorDiv(a, k) = IF (a < 0 /\ ~(k < 0)) \/ (~(a < 0) /\ k < 0) THEN -quo - (IF x # 0 THEN 1 ELSE 0) ELSE quo
  <2>1. CASE k < 0
    BY <2>1, <1>4, <1>5
  <2>2. CASE ~(k < 0)
    BY <2>2, <1>4, <1>5
  <2>3. QED
    BY <2>1, <2>2
<1>7. QED
  BY <1>4, <1>6, Zenon DEF QuotientFixed, a, k, d

LEMMA IntDivInit == Init => IntDivInv
<1>1. CASE IntDivisionInit
  <2>1. PICK s \in Shapes, v \in Numerators :
            \E k \in IF s[1] = "big /=" THEN 1 - B .. B - 1 ELSE IntsOf(s[2]) :
               arg = [form |-> s[1], type |-> s[2], inPlace |-> s[3], a |-> v, k |-> k]
    BY <1>1, Zenon DEF IntDivisionInit
  <2>2. PICK k \in IF s[1] = "big /=" THEN 1 - B .. B - 1 ELSE IntsOf(s[2]) :
               arg = [form |-> s[1], type |-> s[2], inPlace |-> s[3], a |-> v, k |-> k]
    BY <2>1, Zenon
  <2>3. Shapes \subseteq {"divmod", "div", "mod", "/=", "big /="} \X {"u64", "i64", "u32", "i32"} \X BOOLEAN
    BY IntDivisionAssumption, Zenon
  <2>4. Numerators \subseteq {o \in Int : Fits(o)}
    BY IntDivisionAssumption, Zenon
  <2>5. \A o \in Shapes : o[1] = "big /=" => o[2] = "u64"
    BY IntDivisionAssumption, Zenon
  <2>6. s[1] \in {"divmod", "div", "mod", "/=", "big /="} /\ s[2] \in {"u64", "i64", "u32", "i32"} /\ s[3] \in BOOLEAN
    BY <2>3
  <2>7. arg.form = s[1] /\ arg.type = s[2] /\ arg.inPlace = s[3] /\ arg.a = v /\ arg.k = k
    BY <2>2
  <2>8. v \in Int /\ Fits(v) /\ (s[1] = "big /=" => s[2] = "u64")
    BY <2>4, <2>5, Zenon
  <2>9. IntDivArgs
    BY <2>2, <2>6, <2>7, <2>8, Zenon DEF IntDivArgs
  <2>10. pc = "call"
    BY <1>1 DEF IntDivisionInit
  <2>11. QED
    BY <2>9, <2>10 DEF IntDivInv
<1>2. CASE ~IntDivisionInit
  <2>1. Init => IntDivisionInit \/ fn # "int_div"
    <3>1. RootsInit \/ PowersInit => fn # "int_div"
      BY DEF RootsInit, PowersInit
    <3>2. LehmerInit \/ CountingInit => fn # "int_div"
      BY DEF LehmerInit, CountingInit
    <3>3. StringsInit => fn # "int_div"
      BY DEF StringsInit, ReadInit, WriteInit
    <3>4. QED
      BY <3>1, <3>2, <3>3 DEF Init
  <2>2. QED
    BY <2>1, <1>2 DEF IntDivInv
<1>3. QED
  BY <1>1, <1>2

LEMMA IntDivNext == IntDivInv /\ [Next]_vars => IntDivInv'
<1> SUFFICES ASSUME IntDivInv, [Next]_vars, fn = "int_div" PROVE IntDivInv'
  BY StepsOfOne DEF IntDivInv
<1>1. fn' = fn /\ arg' = arg /\ (UNCHANGED vars \/ IntDivisionNext)
  BY StepsOfOne
<1>2. /\ IntDivArgs
      /\ pc \in {"call", "digits", "fix", "sign", "returned", "threw"}
      /\ pc \notin {"call", "threw"} => divisor > 0
      /\ pc = "digits" => DividedDown(loc.i, loc.x, loc.quo)
      /\ pc = "fix" => AllDivided
      /\ pc = "sign" => form = "big /=" /\ loc.x = arg.a % divisor /\ loc.quo = arg.a \div divisor
      /\ pc = "returned" => IntDivReturned
      /\ pc = "threw" => arg.k = 0
  BY Zenon DEF IntDivInv
<1>3. IntDivArgs' /\ divisor' = divisor /\ form' = form /\ (keepsQuo' <=> keepsQuo)
  BY <1>1, <1>2, Zenon DEF IntDivArgs, divisor, form, keepsQuo
<1>4. ASSUME pc' = "digits", divisor > 0, NEW i, NEW x, NEW quo, DividedDown(i, x, quo),
             loc' = [i |-> i, x |-> x, quo |-> quo]
      PROVE  IntDivInv'
  <2>1. loc'.i = i /\ loc'.x = x /\ loc'.quo = quo
    BY <1>4
  <2>2. DividedDown(i, x, quo)'
    BY <1>1, <1>3, <1>4, Zenon DEF DividedDown
  <2>3. QED
    BY <1>1, <1>3, <1>4, <2>1, <2>2, Zenon DEF IntDivInv
<1>5. ASSUME pc' = "fix", divisor > 0, loc'.x = Abs(arg.a) % divisor, keepsQuo => loc'.quo = Abs(arg.a) \div divisor
      PROVE  IntDivInv'
  <2>1. AllDivided'
    BY <1>1, <1>3, <1>5, Zenon DEF AllDivided
  <2>2. QED
    BY <1>1, <1>3, <1>5, <2>1, Zenon DEF IntDivInv
<1>6. ASSUME pc' = "returned", divisor > 0, NEW quo, NEW rem, res' = <<[quo |-> quo, rem |-> rem]>>,
             keepsQuo => quo = FloorDiv(arg.a, arg.k),
             form \in {"divmod", "mod"} => rem = FloorMod(arg.a, arg.k)
      PROVE  IntDivInv'
  <2>1. result'.quo = quo /\ result'.rem = rem
    BY <1>6 DEF result
  <2>2. IntDivReturned'
    BY <1>1, <1>3, <1>6, <2>1, Zenon DEF IntDivReturned
  <2>3. QED
    BY <1>1, <1>3, <1>6, <2>2, Zenon DEF IntDivInv
<1>7. CASE UNCHANGED vars
  <2>1. fn' = fn /\ pc' = pc /\ loc' = loc /\ res' = res
    BY <1>7, Zenon DEF vars
  <2>2. pc = "digits" => DividedDown(loc.i, loc.x, loc.quo)'
    BY <1>1, <1>2, <1>3, <2>1, Zenon DEF DividedDown
  <2>3. pc = "fix" => AllDivided'
    BY <1>1, <1>2, <1>3, <2>1, Zenon DEF AllDivided
  <2>4. pc = "returned" => IntDivReturned'
    BY <1>1, <1>2, <1>3, <2>1, Zenon DEF IntDivReturned, result
  <2>5. QED
    BY <1>1, <1>2, <1>3, <2>1, <2>2, <2>3, <2>4, Zenon DEF IntDivInv
<1>8. CASE IntDivCall
  <2> DEFINE n == Size(Abs(arg.a))  quo == IF arg.inPlace THEN Abs(arg.a) ELSE Pow[n] - 1
  <2>1. CASE divisor = 0
    <3>1. pc' = "threw"
      BY <1>8, <2>1, Zenon DEF IntDivCall, Throw
    <3>2. arg'.k = 0
      BY <1>1, <1>2, <2>1, DivisorFacts
    <3>3. QED
      BY <1>1, <1>3, <3>1, <3>2 DEF IntDivInv
  <2>2. ASSUME divisor # 0 PROVE divisor > 0
    <3>1. divisor \in Nat
      BY <1>2, DivisorFacts
    <3>2. QED
      BY <2>2, <3>1
  <2>3. CASE divisor # 0 /\ arg.a = 0
    <3>1. pc' = "fix" /\ loc' = [i |-> 0, x |-> 0, quo |-> 0]
      BY <1>8, <2>3, Zenon DEF IntDivCall, Enter
    <3>2. loc'.x = 0 /\ loc'.quo = 0 /\ Abs(arg.a) = 0
      BY <3>1, <2>3 DEF Abs
    <3>3. 0 % divisor = 0 /\ 0 \div divisor = 0
      <4>0. divisor \in Nat /\ divisor > 0
        BY <1>2, <2>2, <2>3, DivisorFacts, Zenon
      <4>1. 0 \in Int /\ divisor \in Nat /\ divisor > 0
        BY <4>0
      <4>2. 0 * divisor = 0
        BY <4>1
      <4>3. QED
        BY <4>1, <4>2, QuotientOfProduct
    <3>4. QED
      BY <3>1, <3>2, <3>3, <2>2, <2>3, <1>5, Zenon
  <2>4. CASE divisor # 0 /\ arg.a # 0
    <3>1. pc' = "digits" /\ loc' = [i |-> n, x |-> 0, quo |-> quo]
      BY <1>8, <2>4, Zenon DEF IntDivCall, Enter
    <3>2. DividedDown(n, 0, quo)
      BY <1>2, <2>2, <2>4, DivisionStarts
    <3> HIDE DEF n, quo
    <3>3. QED
      BY <3>1, <3>2, <2>2, <2>4, <1>4, Zenon
  <2>5. QED
    BY <2>1, <2>3, <2>4
<1>9. CASE IntDivStep
  <2> DEFINE k == loc.i - 1
             ai == DigitAt(IF arg.inPlace THEN loc.quo ELSE Abs(arg.a), k)
             s == IF Half(arg.type) THEN HalfStep(loc.x, ai) ELSE WholeStep(loc.x, ai)
             quo == IF keepsQuo THEN loc.quo + (s.q - DigitAt(loc.quo, k)) * Pow[k] ELSE loc.quo
  <2>1. pc = "digits" /\ loc.i > 0 /\ pc' = "digits" /\ loc' = [i |-> k, x |-> s.x, quo |-> quo]
    BY <1>9, Zenon DEF IntDivStep, Enter
  <2>2. divisor > 0 /\ DividedDown(loc.i, loc.x, loc.quo)
    BY <1>2, <2>1, Zenon
  <2>3. DividedDown(k, s.x, quo)
    <3> DEFINE z == k  c == ai  e == s
    <3>1. z = loc.i - 1 /\ c = DigitAt(IF arg.inPlace THEN loc.quo ELSE Abs(arg.a), z)
          /\ e = IF Half(arg.type) THEN HalfStep(loc.x, c) ELSE WholeStep(loc.x, c)
      BY Zenon
    <3> HIDE DEF z, c, e
    <3>2. DividedDown(z, e.x, IF keepsQuo THEN loc.quo + (e.q - DigitAt(loc.quo, z)) * Pow[z] ELSE loc.quo)
      BY <1>2, <2>1, <2>2, <3>1, DigitDivided, Zenon
    <3>3. QED
      BY <3>2, Zenon DEF z, c, e
  <2> HIDE DEF k, s, quo
  <2>4. QED
    BY <2>1, <2>2, <2>3, <1>4, Zenon
<1>10. CASE IntDivEnd
  <2>1. pc = "digits" /\ loc.i = 0 /\ pc' = "fix" /\ loc' = loc
    BY <1>10, Zenon DEF IntDivEnd, Enter
  <2>2. divisor > 0 /\ DividedDown(0, loc.x, loc.quo)
    BY <1>2, <2>1, Zenon
  <2> DEFINE a == Abs(arg.a)  quo == loc.quo
  <2>3. loc.x = (a \div Pow[0]) % divisor /\ (keepsQuo => quo \div Pow[0] = (a \div Pow[0]) \div divisor) /\ quo \in Nat
    BY <2>2, Zenon DEF DividedDown
  <2>4. a \in Nat /\ Pow[0] = 1
    BY <1>2, IntDivFacts, PowAssumption
  <2> HIDE DEF a, quo
  <2>5. a \div 1 = a /\ quo \div 1 = quo
    BY <2>3, <2>4
  <2>6. loc.x = a % divisor /\ (keepsQuo => quo = a \div divisor)
    BY <2>3, <2>4, <2>5, Zenon
  <2>7. QED
    BY <2>1, <2>2, <2>6, <1>5, Zenon DEF a, quo
<1>11. CASE IntDivFix
  <2> DEFINE fix == IF FixRemainder # 0 THEN 1 ELSE 0
             quo == IF negA # negK THEN -loc.quo - fix ELSE loc.quo
  <2>1. pc = "fix"
    BY <1>11, Zenon DEF IntDivFix
  <2>2. divisor > 0 /\ RestOf(loc.x) /\ (keepsQuo => loc.quo = Abs(arg.a) \div divisor)
    BY <1>2, <2>1, Zenon DEF AllDivided, RestOf
  <2>3. /\ FixRemainder # 0 <=> loc.x # 0
        /\ form \in {"divmod", "mod"} => FixRemainder = FloorMod(arg.a, arg.k)
        /\ form = "big /=" => FixRemainder = arg.a % divisor
    BY <1>2, <2>2, FixedRemainder
  <2>4. fix = IF loc.x # 0 THEN 1 ELSE 0
    BY <2>3, Zenon
  <2>5. ASSUME keepsQuo
        PROVE  /\ form # "big /=" => quo = FloorDiv(arg.a, arg.k)
               /\ form = "big /=" => quo = arg.a \div divisor
    <3>1. loc.quo = Abs(arg.a) \div divisor /\ loc.x = Abs(arg.a) % divisor
      BY <2>2, <2>5, Zenon DEF RestOf
    <3> DEFINE t == loc.quo  x == loc.x
    <3>2. t = Abs(arg.a) \div divisor /\ x = Abs(arg.a) % divisor
      BY <3>1, Zenon
    <3>3. quo = IF negA # negK THEN -t - (IF x # 0 THEN 1 ELSE 0) ELSE t
      BY <2>4, Zenon
    <3> HIDE DEF t, x, quo
    <3>4. QuotientFixed(t, x)
      <4>1. WholeOf(t) /\ RestOf(x)
        BY <3>2, Zenon DEF WholeOf, RestOf
      <4>2. QED
        BY <4>1, <1>2, <2>2, FixedQuotient
    <3>5. CASE form = "big /="
      <4>1. negA # negK <=> arg.a < 0
        BY <3>5, SignsDiffer, Zenon DEF negA, negK
      <4>2. QED
        BY <4>1, <3>3, <3>4, <3>5, Zenon DEF QuotientFixed
    <3>6. CASE form # "big /="
      <4>1. negA # negK <=> (arg.a < 0 /\ ~(arg.k < 0)) \/ (~(arg.a < 0) /\ arg.k < 0)
        BY <3>6, SignsDiffer, Zenon DEF negA, negK
      <4>2. QED
        BY <4>1, <3>3, <3>4, <3>6, Zenon DEF QuotientFixed
    <3>7. QED
      BY <3>5, <3>6, Zenon
  <2>6. CASE form = "big /="
    <3>1. pc' = "sign" /\ loc' = [quo |-> quo, x |-> FixRemainder]
      BY <1>11, <2>6, Zenon DEF IntDivFix, Enter
    <3> HIDE DEF quo
    <3>2. loc'.quo = quo /\ loc'.x = FixRemainder
      BY <3>1
    <3>3. keepsQuo
      BY <2>6 DEF keepsQuo
    <3>4. loc'.quo = arg.a \div divisor /\ loc'.x = arg.a % divisor
      BY <3>2, <3>3, <2>3, <2>5, <2>6, Zenon
    <3>5. QED
      BY <1>1, <1>3, <2>2, <2>6, <3>1, <3>4, Zenon DEF IntDivInv
  <2>7. CASE form # "big /="
    <3>1. pc' = "returned" /\ res' = <<[quo |-> quo, rem |-> FixRemainder]>>
      BY <1>11, <2>7, Zenon DEF IntDivFix, Return
    <3> HIDE DEF quo
    <3>2. QED
      BY <2>2, <2>3, <2>5, <2>7, <3>1, <1>6, Zenon
  <2>8. QED
    BY <2>6, <2>7
<1>12. CASE SignInPlace
  <2> DEFINE t == loc.quo  x == loc.x
             q0 == IF arg.k < 0 THEN -t ELSE t
             quo == IF x # 0 /\ arg.k < 0 THEN q0 - 1 ELSE q0
  <2>1. pc = "sign" /\ pc' = "returned" /\ res' = <<[quo |-> quo, rem |-> x]>>
    BY <1>12, Zenon DEF SignInPlace, Return
  <2>2. divisor > 0 /\ form = "big /=" /\ x = arg.a % divisor /\ t = arg.a \div divisor
    BY <1>2, <2>1, Zenon
  <2> DEFINE a == arg.a  k == arg.k  d == divisor
  <2>3. a \in Int /\ k \in Int /\ d \in Nat /\ d > 0 /\ (k < 0 \/ k > 0)
        /\ (k >= 0 => d = k) /\ (k < 0 => d = -k)
    BY <1>2, <2>2, IntDivFacts, DivisorFacts
  <2>4. FloorDiv(a, k) = IF k > 0 THEN a \div k ELSE (-a) \div (-k)
    BY Zenon DEF FloorDiv
  <2> HIDE DEF a, k, d, t, x
  <2>5. t \in Int /\ (-a) \div d = IF x = 0 THEN -t ELSE -t - 1
    BY <2>2, <2>3, NegativeDivision DEF a, d
  <2>6. quo = FloorDiv(a, k)
    <3>1. CASE k > 0
      <4>1. quo = t
        BY <3>1, <2>3 DEF k
      <4>2. FloorDiv(a, k) = a \div d
        BY <3>1, <2>3, <2>4
      <4>3. QED
        BY <4>1, <4>2, <2>2, Zenon DEF a, d
    <3>2. CASE ~(k > 0)
      <4>1. k < 0 /\ d = -k
        BY <3>2, <2>3
      <4>2. FloorDiv(a, k) = (-a) \div d
        BY <3>2, <4>1, <2>4, Zenon
      <4>3. quo = IF x # 0 THEN -t - 1 ELSE -t
        BY <4>1, Zenon DEF k
      <4>4. QED
        BY <4>2, <4>3, <2>5, Zenon
    <3>3. QED
      BY <3>1, <3>2
  <2> HIDE DEF quo
  <2>7. form \notin {"divmod", "mod"}
    BY <2>2
  <2>8. QED
    BY <2>1, <2>2, <2>6, <2>7, <1>6, Zenon DEF a, k
<1>13. QED
  BY <1>1, <1>7, <1>8, <1>9, <1>10, <1>11, <1>12, Zenon DEF IntDivisionNext

(* In every reachable state of the division by a machine integer the         *)
(* invariant holds.                                                          *)
THEOREM IntDivInductive == Spec => []IntDivInv
<1>1. Init => IntDivInv
  BY IntDivInit
<1>2. IntDivInv /\ [Next]_vars => IntDivInv'
  BY IntDivNext
<1>3. QED
  BY <1>1, <1>2, PTL DEF Spec

(* Every division by a machine integer, in place or not and for every type,  *)
(* returns the floored quotient and remainder, and throws for 0 only.        *)
THEOREM IntDivisionAlwaysExact == Spec => []IntDivisionExact
<1>1. IntDivInv => IntDivisionExact
  <2> SUFFICES ASSUME IntDivInv, fn = "int_div" PROVE IntDivisionExact
    BY Zenon DEF IntDivisionExact, Returned, Threw
  <2>1. /\ IntDivArgs /\ (pc \notin {"call", "threw"} => divisor > 0)
        /\ (pc = "digits" => DividedDown(loc.i, loc.x, loc.quo))
        /\ (pc = "returned" => IntDivReturned) /\ (pc = "threw" => arg.k = 0)
    BY Zenon DEF IntDivInv
  <2>2. ASSUME pc = "digits"
        PROVE  /\ loc.x < divisor
               /\ keepsQuo => (loc.quo - (loc.quo % Pow[loc.i])) * divisor + loc.x * Pow[loc.i]
                              = Abs(arg.a) - (Abs(arg.a) % Pow[loc.i])
    <3> DEFINE w == Pow[loc.i]  a == Abs(arg.a)  quo == loc.quo  d == divisor  x == loc.x
               u == a \div w  e == a % w  f == quo \div w  g == quo % w
    <3>1. loc.i \in 0 .. MaxSize /\ quo \in Nat /\ x = u % d /\ (keepsQuo => f = u \div d)
      BY <2>1, <2>2, Zenon DEF DividedDown
    <3>2. w \in Nat /\ w > 0
      BY <3>1, PowPositive
    <3>3. a \in Nat /\ a \in Int /\ quo \in Int
      BY <2>1, <3>1, IntDivFacts
    <3>4a. d > 0 /\ d \in Nat
      BY <2>1, <2>2, DivisorFacts, Zenon
    <3> HIDE DEF w, a, quo, d, x
    <3>4. u \in Int /\ e \in Int /\ a = u * w + e /\ f \in Int /\ g \in Int /\ quo = f * w + g
      BY <3>2, <3>3, QuotientRemainder
    <3> HIDE DEF u, e, f, g
    <3>5. x \in 0 .. d - 1 /\ u = (u \div d) * d + x
      BY <3>1, <3>4, <3>4a, QuotientRemainder
    <3>6. ASSUME keepsQuo PROVE (quo - g) * d + x * w = a - e
      <4>1. u = f * d + x
        BY <3>1, <3>5, <3>6, Zenon
      <4>2. (f * w) * d + x * w = (f * d + x) * w /\ f * w \in Int /\ u * w \in Int
        BY <3>2, <3>4, <3>4a, <3>5
      <4>3. quo - g = f * w /\ a - e = u * w
        BY <3>4, <4>2
      <4>4. QED
        BY <4>1, <4>2, <4>3, Zenon
    <3>7. x < d
      BY <3>5, <3>4a
    <3>8. QED
      BY <3>6, <3>7, Zenon DEF w, a, quo, d, x, e, g
  <2>3. QED
    BY <2>1, <2>2, Zenon DEF IntDivisionExact, IntDivReturned, Returned, Threw
<1>2. QED
  BY <1>1, IntDivInductive, PTL

LEMMA ModShift ==
    ASSUME NEW m \in Nat, m > 0, NEW z \in Int, NEW t \in Int, NEW x, x = z + t * m
    PROVE  x % m = z % m
<1> DEFINE u == z \div m  e == z % m  f == u + t
<1>1. u \in Int /\ e \in 0 .. m - 1 /\ z = u * m + e
  BY QuotientRemainder
<1> HIDE DEF u, e
<1>2. x = f * m + e /\ f \in Int /\ x \in Int
  BY <1>1
<1> HIDE DEF f
<1> DEFINE o == f * m
<1>3. o \in Int /\ x = o + e /\ (f + 1) * m = o + m
  BY <1>2
<1> HIDE DEF o
<1>4. o <= x /\ x < o + m /\ x - o = e /\ e \in Int
  BY <1>1, <1>2, <1>3
<1>5. x % m = x - f * m
  <2>1. f * m <= x /\ x < (f + 1) * m
    BY <1>3, <1>4 DEF o
  <2>2. QED
    BY <2>1, <1>2, QuotientUnique
<1>6. x % m = e
  BY <1>4, <1>5, Zenon DEF o
<1>7. QED
  BY <1>6 DEF e

(* FloorMod takes numbers that differ by a multiple of m to the same number, *)
(* and each to one that differs from it by a multiple of m.                  *)
LEMMA FloorModShift ==
    ASSUME NEW m \in Int, m # 0, NEW z \in Int, NEW t \in Int
    PROVE  FloorMod(z + t * m, m) = FloorMod(z, m)
<1>1. CASE m > 0
  <2> DEFINE x == z + t * m
  <2>1. x = z + t * m
    OBVIOUS
  <2>2. FloorMod(z + t * m, m) = x % m /\ FloorMod(z, m) = z % m
    BY <1>1, Zenon DEF FloorMod
  <2> HIDE DEF x
  <2>3. x % m = z % m
    <3>1. m \in Nat
      BY <1>1
    <3>2. QED
      BY <3>1, <2>1, <1>1, ModShift
  <2>4. QED
    BY <2>2, <2>3, Zenon
<1>2. CASE ~(m > 0)
  <2> DEFINE n == -m  x == -z  o == -(z + t * m)
  <2>1. n \in Nat /\ n > 0 /\ x \in Int
    BY <1>2
  <2>2. o = x + t * n
    OBVIOUS
  <2>3. FloorMod(z + t * m, m) = -(o % n) /\ FloorMod(z, m) = -(x % n)
    BY <1>2, Zenon DEF FloorMod
  <2> HIDE DEF n, x, o
  <2>4. o % n = x % n
    BY <2>1, <2>2, ModShift
  <2>5. QED
    BY <2>3, <2>4
<1>3. QED
  BY <1>1, <1>2

LEMMA FloorModNear ==
    ASSUME NEW m \in Int, m # 0, NEW x \in Int
    PROVE  FloorMod(x, m) \in Int /\ \E t \in Int : FloorMod(x, m) = x + t * m
<1>1. CASE m > 0
  <2> DEFINE t == -(x \div m)
  <2>1. x \div m \in Int /\ x % m \in Int /\ x = (x \div m) * m + (x % m)
    BY <1>1, QuotientRemainder
  <2>2. t \in Int /\ x % m = x + t * m
    BY <2>1
  <2>3. FloorMod(x, m) = x % m
    BY <1>1 DEF FloorMod
  <2> HIDE DEF t
  <2>4. QED
    BY <2>1, <2>2, <2>3
<1>2. CASE ~(m > 0)
  <2> DEFINE n == -m  z == -x  t == -(z \div n)
  <2>1. n \in Nat /\ n > 0 /\ z \in Int /\ m = -n /\ x = -z
    BY <1>2
  <2>2. FloorMod(x, m) = -(z % n)
    BY <1>2, Zenon DEF FloorMod
  <2> HIDE DEF n, z
  <2>3. z \div n \in Int /\ z % n \in Int /\ z = (z \div n) * n + (z % n)
    BY <2>1, QuotientRemainder
  <2>4. t \in Int /\ -(z % n) = x + t * m
    BY <2>1, <2>3
  <2> HIDE DEF t
  <2>5. QED
    BY <2>2, <2>3, <2>4
<1>3. QED
  BY <1>1, <1>2

LEMMA ExpZero ==
    ASSUME NEW e \in Nat, e # 0
    PROVE  Exp(0, e) = 0
<1>1. e - 1 \in Nat /\ (e - 1) + 1 = e /\ 0 \in Int
  OBVIOUS
<1>2. Exp(0, (e - 1) + 1) = 0 * Exp(0, e - 1) /\ Exp(0, e - 1) \in Int
  BY <1>1, ExpFacts
<1>3. QED
  BY <1>1, <1>2

----------------------------------------------------------------------------
(* The modulus, 0 for pow, which has none.                                   *)
ModGiven == fn \in {"pow", "pow_mod"} /\ (fn = "pow_mod" => arg.mod \in Int /\ arg.mod # 0)
ModOf == IF fn = "pow_mod" THEN arg.mod ELSE 0
Alike(x, z) == Reduced(x) = Reduced(z)

LEMMA ReducedNear ==
    ASSUME ModGiven, NEW x \in Int
    PROVE  Reduced(x) \in Int /\ \E t \in Int : Reduced(x) = x + t * ModOf
<1>1. CASE fn = "pow_mod"
  <2>1. arg.mod \in Int /\ arg.mod # 0 /\ ModOf = arg.mod /\ Reduced(x) = FloorMod(x, arg.mod)
    BY <1>1 DEF ModGiven, ModOf, Reduced
  <2>2. QED
    BY <2>1, FloorModNear
<1>2. CASE fn # "pow_mod"
  <2>1. Reduced(x) = x /\ ModOf = 0
    BY <1>2 DEF Reduced, ModOf
  <2>2. 0 \in Int /\ x = x + 0 * 0
    OBVIOUS
  <2>3. QED
    BY <2>1, <2>2
<1>3. QED
  BY <1>1, <1>2

LEMMA ReducedShift ==
    ASSUME ModGiven, NEW z \in Int, NEW t \in Int
    PROVE  Alike(z + t * ModOf, z)
<1>1. CASE fn = "pow_mod"
  <2> DEFINE m == arg.mod
  <2>1. m \in Int /\ m # 0 /\ ModOf = m
    BY <1>1 DEF ModGiven, ModOf
  <2>2. FloorMod(z + t * m, m) = FloorMod(z, m)
    BY <2>1, FloorModShift
  <2>3. QED
    BY <2>1, <2>2, <1>1, Zenon DEF Reduced, Alike
<1>2. CASE fn # "pow_mod"
  <2>1. ModOf = 0
    BY <1>2 DEF ModOf
  <2>2. z + t * 0 = z
    OBVIOUS
  <2>3. QED
    BY <2>1, <2>2, Zenon DEF Alike
<1>3. QED
  BY <1>1, <1>2

(* Alike numbers differ by a multiple of the modulus.                        *)
LEMMA AlikeFacts ==
    ASSUME ModGiven, NEW x \in Int, NEW z \in Int
    PROVE  /\ Alike(x, z) <=> \E t \in Int : x = z + t * ModOf
           /\ Alike(Reduced(x), x) /\ ModOf \in Int
<1> DEFINE m == ModOf
<1>1. m \in Int
  BY DEF ModGiven, ModOf
<1>2. ASSUME NEW t \in Int, x = z + t * m PROVE Alike(x, z)
  BY <1>2, ReducedShift
<1>3. PICK i \in Int : Reduced(x) = x + i * m
  BY ReducedNear
<1>4. PICK j \in Int : Reduced(z) = z + j * m
  BY ReducedNear
<1>5. Alike(Reduced(x), x)
  BY <1>3, ReducedShift
<1> HIDE DEF m
<1>6. ASSUME Alike(x, z) PROVE \E t \in Int : x = z + t * m
  <2>1. x + i * m = z + j * m
    BY <1>3, <1>4, <1>6 DEF Alike
  <2>2. x = z + (j - i) * m /\ j - i \in Int
    BY <2>1, <1>1
  <2>3. QED
    BY <2>2
<1>7. QED
  BY <1>1, <1>2, <1>5, <1>6 DEF m

LEMMA AlikeProduct ==
    ASSUME ModGiven, NEW x \in Int, NEW x2 \in Int, NEW z \in Int, NEW z2 \in Int, Alike(x, x2), Alike(z, z2)
    PROVE  Alike(x * z, x2 * z2)
<1> DEFINE m == ModOf
<1>1. m \in Int
  BY AlikeFacts
<1>2. PICK i \in Int : x = x2 + i * m
  BY AlikeFacts
<1>3. PICK j \in Int : z = z2 + j * m
  BY AlikeFacts
<1> DEFINE t == i * z2 + x2 * j + (i * j) * m
<1> HIDE DEF m
<1>4. (x2 + i * m) * (z2 + j * m) = x2 * z2 + (i * z2 + x2 * j + (i * j) * m) * m /\ t \in Int
  BY <1>1
<1>5. x * z = x2 * z2 + t * m
  BY <1>2, <1>3, <1>4, Zenon
<1> HIDE DEF t
<1>6. x * z \in Int /\ x2 * z2 \in Int
  OBVIOUS
<1>7. QED
  BY <1>4, <1>5, <1>6, AlikeFacts DEF m

LEMMA AlikePower ==
    ASSUME ModGiven, NEW x \in Int, NEW z \in Int, Alike(x, z), NEW n \in Nat
    PROVE  Alike(Exp(x, n), Exp(z, n))
<1> DEFINE T == {k \in Nat : Alike(Exp(x, k), Exp(z, k))}
<1>1. 0 \in T
  <2>1. Exp(x, 0) = 1 /\ Exp(z, 0) = 1
    <3>1. 0 \in Nat
      OBVIOUS
    <3>2. QED
      BY <3>1, ExpFacts
  <2>2. QED
    BY <2>1, Zenon DEF Alike
<1>2. ASSUME NEW k \in Nat, k \in T PROVE k + 1 \in T
  <2>1. Exp(x, k + 1) = x * Exp(x, k) /\ Exp(z, k + 1) = z * Exp(z, k) /\ Exp(x, k) \in Int /\ Exp(z, k) \in Int
    BY ExpFacts
  <2>2. Alike(Exp(x, k), Exp(z, k))
    BY <1>2
  <2>3. Alike(x * Exp(x, k), z * Exp(z, k))
    BY <2>1, <2>2, AlikeProduct
  <2>4. QED
    BY <2>1, <2>3
<1> HIDE DEF T
<1>3. T \subseteq Nat
  BY DEF T
<1>4. Nat \subseteq T
  BY <1>1, <1>2, SetInduction
<1>5. QED
  BY <1>4 DEF T

LEMMA AlikeTransitive ==
    ASSUME NEW x, NEW z, NEW u, Alike(x, z), Alike(z, u)
    PROVE  Alike(x, u) /\ Alike(z, x)
  BY Zenon DEF Alike

(* One bit: what it takes from the power goes into the result.               *)
LEMMA BitTaken ==
    ASSUME NEW x \in Int, NEW t \in Int, NEW e \in Nat
    PROVE  LET rest == Exp(t * t, e \div 2)
           IN  /\ e % 2 = 1 => x * Exp(t, e) = (x * t) * rest
               /\ e % 2 # 1 => x * Exp(t, e) = x * rest
<1> DEFINE n == e \div 2  u == Exp(t, 2 * n)
<1>1. n \in Nat /\ (e % 2 = 1 => e = 2 * n + 1) /\ (e % 2 # 1 => e = 2 * n) /\ 2 * n \in Nat
  OBVIOUS
<1> HIDE DEF n
<1>2. u = Exp(t * t, n) /\ u \in Int
  <2>1. 2 \in Nat
    OBVIOUS
  <2>2. Exp(t, 2) = t * t /\ Exp(t, 2 * n) = Exp(Exp(t, 2), n)
    BY <1>1, <2>1, ExpOne, ExpProduct
  <2>3. QED
    BY <2>2, <1>1, ExpFacts
<1>3. Exp(t, 2 * n + 1) = t * u
  BY <1>1, ExpFacts
<1> HIDE DEF u
<1>4. x * (t * u) = (x * t) * u
  BY <1>2
<1>5. e % 2 = 1 => x * Exp(t, e) = (x * t) * u
  BY <1>1, <1>3, <1>4, Zenon
<1>6. e % 2 # 1 => x * Exp(t, e) = x * u
  BY <1>1, Zenon DEF u
<1>7. QED
  BY <1>2, <1>5, <1>6, Zenon DEF n

(* The calls of pow and pow_mod.                                             *)
InPow == fn \in {"pow", "pow_mod"}

(* pow takes exponents that are not negative, pow_mod any.                   *)
PowArgs ==
    /\ arg.base \in Int /\ arg.exp \in Int /\ Fits(arg.exp)
    /\ fn = "pow" => arg.exp >= 0
    /\ fn = "pow_mod" => arg.mod \in Int

(* The result so far times temp to the power of the bits left is the power   *)
(* asked for; once there are none left, so is the result, reduced.           *)
PowerLeft(i, x, t) ==
    /\ i \in 0 .. ExpBits /\ x \in Int /\ t \in Int
    /\ Alike(x * Exp(t, arg.exp \div Exp(2, i)), Power)
    /\ i = ExpBits => x = Reduced(Power)

(* pow returns the power, pow_mod the power reduced by the modulus.          *)
PowReturned ==
    /\ fn = "pow" => result = Power
    /\ fn = "pow_mod" => result = IF arg.exp = 0 THEN 1
                                  ELSE IF arg.base = 0 \/ arg.exp < 0 THEN 0
                                  ELSE FloorMod(Power, arg.mod)
    /\ fn = "pow_mod" /\ arg.base # 0 /\ arg.exp > 0 => arg.mod # 0

(* What is refused: 0 to the power of 0, and the modulus 0.                  *)
PowThrew == (arg.base = 0 /\ arg.exp = 0) \/ (fn = "pow_mod" /\ arg.mod = 0)

(* What holds at each place of pow and pow_mod.                              *)
PowInv ==
    InPow =>
        /\ PowArgs
        /\ pc \in {"call", "power", "returned", "threw"}
        /\ pc = "power" => /\ arg.exp > 0 /\ arg.base # 0 /\ ModGiven
                           /\ PowerLeft(loc.i, loc.result, loc.temp)
        /\ pc = "returned" => PowReturned
        /\ pc = "threw" => PowThrew

LEMMA PowArgsFacts ==
    ASSUME PowArgs, arg.exp > 0
    PROVE  /\ arg.exp \in Nat /\ Power \in Int
           /\ ExpBits \in Nat /\ ExpBits >= 1 /\ arg.exp < Exp(2, ExpBits) /\ arg.exp >= Exp(2, ExpBits - 1)
<1>1. arg.exp \in Int /\ Abs(arg.exp) < Pow[MaxSize] /\ arg.base \in Int
  BY Zenon DEF PowArgs, Fits
<1>2. arg.exp \in Nat /\ Abs(arg.exp) = arg.exp
  BY <1>1 DEF Abs
<1> DEFINE e == arg.exp
<1>3. e \in Nat /\ e < Pow[MaxSize] /\ e > 0 /\ arg.base \in Int
  BY <1>1, <1>2
<1> HIDE DEF e
<1>4. Exp(arg.base, e) \in Int
  BY <1>3, ExpFacts
<1> DEFINE n == DigitsOf(2, e)
<1>5. n \in 0 .. MaxBits /\ e < Exp(2, n) /\ (n = 0 \/ e >= Exp(2, n - 1)) /\ Exp(2, 0) = 1
  <2>1. 2 \in Nat /\ 2 \in Int /\ 0 \in Nat /\ 2 >= 2
    OBVIOUS
  <2>2. QED
    BY <2>1, <1>3, DigitsFacts, ExpFacts
<1> HIDE DEF n
<1>6. n \in Nat /\ n >= 1
  <2>1. n # 0
    BY <1>3, <1>5
  <2>2. QED
    BY <2>1, <1>5, MaxBitsFacts
<1>7. QED
  BY <1>3, <1>4, <1>5, <1>6 DEF e, n, Power, ExpBits, BitLength

(* One bit.                                                                  *)
LEMMA PowerStep ==
    ASSUME PowArgs, ModGiven, arg.exp > 0, NEW i, NEW x, NEW t, PowerLeft(i, x, t), i < ExpBits
    PROVE  PowerLeft(i + 1, IF Bit(i) THEN Reduced(x * t) ELSE x,
                     IF i + 1 < ExpBits THEN Reduced(t * t) ELSE t)
<1> DEFINE n == ExpBits  e == arg.exp \div Exp(2, i)  f == e \div 2
           x2 == IF Bit(i) THEN Reduced(x * t) ELSE x
           t2 == IF i + 1 < n THEN Reduced(t * t) ELSE t
           target == Power
<1>1. i \in 0 .. n /\ x \in Int /\ t \in Int /\ Alike(x * Exp(t, e), target)
  BY Zenon DEF PowerLeft
<1>2. arg.exp \in Nat /\ target \in Int /\ n \in Nat /\ n >= 1 /\ arg.exp < Exp(2, n) /\ arg.exp >= Exp(2, n - 1)
  BY PowArgsFacts
<1>3. i \in Nat /\ i + 1 \in Nat /\ i + 1 \in 0 .. n /\ 2 \in Int
  BY <1>1, <1>2
<1>4. Bit(i) <=> e % 2 = 1
  BY Zenon DEF Bit
<1> HIDE DEF n, target
<1> DEFINE w == Exp(2, i)
<1>5. w \in Nat /\ w >= 1 /\ Exp(2, i + 1) = 2 * w
  BY <1>3, ExpPositive, ExpFacts
<1>6. e \in Nat /\ f \in Nat /\ e = arg.exp \div w
  <2> HIDE DEF w
  <2>1. arg.exp \div w \in Nat
    BY <1>2, <1>5, QuotientRemainder
  <2> DEFINE k == arg.exp \div w
  <2>2. k \in Nat /\ e = k
    BY <2>1, Zenon DEF w
  <2> HIDE DEF k
  <2>3. k \div 2 \in Nat
    BY <2>2
  <2>4. QED
    BY <2>2, <2>3, Zenon DEF k
<1>7. arg.exp \div Exp(2, i + 1) = f
  <2> HIDE DEF w
  <2>1. arg.exp \div (w * 2) = (arg.exp \div w) \div 2
    BY <1>2, <1>5, QuotientTwice
  <2>2. w * 2 = 2 * w
    BY <1>5
  <2>3. QED
    BY <2>1, <2>2, <1>5, <1>6, Zenon DEF w
<1> HIDE DEF e, w
<1>8. x2 \in Int /\ t2 \in Int
  <2>1. x * t \in Int /\ t * t \in Int
    BY <1>1
  <2>2. Reduced(x * t) \in Int /\ Reduced(t * t) \in Int
    BY <2>1, ReducedNear
  <2>3. QED
    BY <2>2, <1>1, Zenon
<1> DEFINE rest == Exp(t * t, f)  rest2 == Exp(t2, f)
<1>9. rest \in Int /\ rest2 \in Int
  <2>1. t * t \in Int
    BY <1>1
  <2> HIDE DEF t2, f
  <2>2. QED
    BY <2>1, <1>6, <1>8, ExpFacts DEF f
<1>10. Alike(rest2, rest)
  <2>1. CASE i + 1 < n
    <3>1. t2 = Reduced(t * t) /\ t * t \in Int
      BY <2>1, <1>1
    <3>2. Alike(t2, t * t)
      BY <3>1, AlikeFacts
    <3> HIDE DEF t2, f
    <3>3. QED
      BY <3>1, <3>2, <1>6, <1>8, AlikePower DEF f
  <2>2. CASE ~(i + 1 < n)
    <3>1. f = 0
      <4>1. i + 1 = n
        BY <2>2, <1>1, <1>2 DEF n
      <4>2. arg.exp < Exp(2, i + 1) /\ 0 <= arg.exp /\ Exp(2, i + 1) \in Nat /\ Exp(2, i + 1) > 0
        BY <4>1, <1>2, <1>5
      <4> DEFINE m == Exp(2, i + 1)
      <4>3. m \in Nat /\ m > 0 /\ 0 * m <= arg.exp /\ arg.exp < (0 + 1) * m /\ 0 \in Int
        BY <4>2
      <4> HIDE DEF m
      <4>4. arg.exp \div m = 0
        BY <4>3, <1>2, QuotientUnique
      <4>5. QED
        BY <4>4, <1>7, Zenon DEF m
    <3>2. Exp(t2, 0) = 1 /\ Exp(t * t, 0) = 1
      <4>1. t * t \in Int /\ 0 \in Nat
        BY <1>1
      <4> HIDE DEF t2
      <4>2. QED
        BY <4>1, <1>8, ExpFacts
    <3>3. rest2 = rest
      <4> HIDE DEF t2, f
      <4>1. QED
        BY <3>1, <3>2, Zenon
    <3>4. QED
      BY <3>3, Zenon DEF Alike
  <2>3. QED
    BY <2>1, <2>2
<1>11. /\ e % 2 = 1 => x * Exp(t, e) = (x * t) * rest
       /\ e % 2 # 1 => x * Exp(t, e) = x * rest
  BY <1>1, <1>6, BitTaken
<1> HIDE DEF rest, rest2, t2
<1>12. Alike(x2 * rest2, target)
  <2>1. CASE Bit(i)
    <3>1. x2 = Reduced(x * t) /\ x * t \in Int
      BY <2>1, <1>1
    <3>2. Alike(x2, x * t)
      BY <3>1, AlikeFacts
    <3> HIDE DEF x2
    <3>3. Alike(x2 * rest2, (x * t) * rest)
      BY <3>1, <3>2, <1>8, <1>9, <1>10, AlikeProduct
    <3>4. QED
      BY <3>3, <1>1, <1>4, <1>11, <2>1, Zenon DEF Alike
  <2>2. CASE ~Bit(i)
    <3>1. x2 = x /\ Alike(x, x)
      BY <2>2, Zenon DEF Alike
    <3> HIDE DEF x2
    <3>2. Alike(x * rest2, x * rest)
      BY <3>1, <1>1, <1>9, <1>10, AlikeProduct
    <3>3. QED
      BY <3>1, <3>2, <1>1, <1>4, <1>11, <2>2, Zenon DEF Alike
  <2>3. QED
    BY <2>1, <2>2
<1>13. ASSUME i + 1 = n PROVE x2 = Reduced(target)
  <2>1. n - 1 = i
    BY <1>13, <1>3
  <2>2. e = 1
    <3>1. 1 * w <= arg.exp /\ arg.exp < (1 + 1) * w /\ w \in Nat /\ w > 0 /\ 1 \in Int
      BY <2>1, <1>2, <1>5, <1>13 DEF w
    <3>2. arg.exp \div w = 1
      BY <3>1, <1>2, QuotientUnique
    <3>3. QED
      BY <3>2, <1>6, Zenon
  <2>3. Bit(i) /\ f = 0
    BY <2>2, <1>4
  <2>4. x2 = Reduced(x * t) /\ x * t \in Int
    BY <2>3, <1>1
  <2>5. x * Exp(t, e) = x * t
    <3>1. Exp(t, 1) = t
      BY <1>1, ExpOne
    <3>2. QED
      BY <3>1, <2>2, Zenon
  <2>6. Reduced(x * t) = Reduced(target)
    BY <2>5, <1>1, Zenon DEF Alike
  <2>7. QED
    BY <2>4, <2>6, Zenon
<1> HIDE DEF x2
<1>14. PowerLeft(i + 1, x2, t2)
  BY <1>3, <1>7, <1>8, <1>12, <1>13, Zenon DEF PowerLeft, n, target, rest2
<1>15. QED
  BY <1>14, Zenon DEF x2, t2, n

LEMMA PowInit == Init => PowInv
<1>1. CASE PowersInit
  <2>1. PICK b \in PowBases, e \in Exponents, m \in Moduli :
            /\ fn = "pow" => e >= 0
            /\ arg = IF fn = "pow" THEN [base |-> b, exp |-> e] ELSE [base |-> b, exp |-> e, mod |-> m]
    BY <1>1, Zenon DEF PowersInit
  <2>2. b \in Int /\ e \in Int /\ Fits(e) /\ m \in Int
    BY PowersAssumption, Zenon
  <2>3. arg.base = b /\ arg.exp = e /\ (fn # "pow" => arg.mod = m) /\ pc = "call"
    BY <1>1, <2>1 DEF PowersInit
  <2>4. PowArgs
    BY <2>1, <2>2, <2>3 DEF PowArgs
  <2>5. QED
    BY <2>3, <2>4 DEF PowInv
<1>2. CASE ~PowersInit
  <2>1. Init => PowersInit \/ ~InPow
    <3>1. RootsInit \/ CountingInit => ~InPow
      BY DEF InPow, RootsInit, CountingInit
    <3>2. LehmerInit \/ IntDivisionInit => ~InPow
      BY DEF InPow, LehmerInit, IntDivisionInit
    <3>3. StringsInit => ~InPow
      BY DEF InPow, StringsInit, ReadInit, WriteInit
    <3>4. QED
      BY <3>1, <3>2, <3>3 DEF Init
  <2>2. QED
    BY <2>1, <1>2 DEF PowInv
<1>3. QED
  BY <1>1, <1>2

(* The calls that return or throw at once.                                   *)
LEMMA PowerTrivial ==
    ASSUME PowArgs, arg.exp >= 0
    PROVE  /\ arg.exp = 0 => Power = 1
           /\ arg.exp # 0 /\ arg.base = 0 => Power = 0
           /\ FloorMod(Power, 1) = 0
<1> DEFINE e == arg.exp  b == arg.base
<1>1. e \in Nat /\ b \in Int
  <2>1. arg.exp \in Int /\ arg.base \in Int
    BY Zenon DEF PowArgs
  <2>2. QED
    BY <2>1
<1> HIDE DEF e, b
<1>2. e = 0 => Exp(b, e) = 1
  BY <1>1, ExpFacts
<1>3. e # 0 /\ b = 0 => Exp(b, e) = 0
  BY <1>1, ExpZero
<1>4. FloorMod(Exp(b, e), 1) = 0
  <2>1. Exp(b, e) \in Int
    BY <1>1, ExpFacts
  <2>2. Exp(b, e) % 1 = 0
    BY <2>1
  <2>3. QED
    BY <2>2 DEF FloorMod
<1>5. QED
  BY <1>2, <1>3, <1>4, Zenon DEF e, b, Power

LEMMA PowNext == PowInv /\ [Next]_vars => PowInv'
<1> SUFFICES ASSUME PowInv, [Next]_vars, InPow PROVE PowInv'
  BY StepsOfOne DEF PowInv, InPow
<1>1. fn' = fn /\ arg' = arg /\ (UNCHANGED vars \/ PowersNext)
  BY StepsOfOne DEF InPow
<1>2. /\ PowArgs
      /\ pc \in {"call", "power", "returned", "threw"}
      /\ pc = "power" => /\ arg.exp > 0 /\ arg.base # 0 /\ ModGiven
                         /\ PowerLeft(loc.i, loc.result, loc.temp)
      /\ pc = "returned" => PowReturned
      /\ pc = "threw" => PowThrew
  BY Zenon DEF PowInv
<1>2a. arg.exp \in Int /\ arg.base \in Int /\ (fn = "pow" => arg.exp >= 0) /\ (fn = "pow_mod" => arg.mod \in Int)
  BY <1>2, Zenon DEF PowArgs
<1>3. PowArgs' /\ Power' = Power /\ ExpBits' = ExpBits /\ (ModGiven' <=> ModGiven) /\ (PowThrew' <=> PowThrew)
  BY <1>1, <1>2, Zenon DEF PowArgs, Power, ExpBits, ModGiven, PowThrew
<1>3a. \A i, x, t : PowerLeft(i, x, t) => PowerLeft(i, x, t)'
  BY <1>1, <1>3, Zenon DEF PowerLeft, Alike, Reduced
<1>4. ASSUME pc' = "power", arg.exp > 0, arg.base # 0, ModGiven, NEW i, NEW x, NEW t, PowerLeft(i, x, t),
             loc' = [i |-> i, result |-> x, temp |-> t]
      PROVE  PowInv'
  <2>1. loc'.i = i /\ loc'.result = x /\ loc'.temp = t
    BY <1>4
  <2>2. PowerLeft(i, x, t)'
    BY <1>3a, <1>4, Zenon
  <2>3. arg'.exp > 0 /\ arg'.base # 0
    BY <1>1, <1>4, Zenon
  <2>4. pc' \in {"call", "power", "returned", "threw"} /\ pc' # "returned" /\ pc' # "threw"
    BY <1>4
  <2>5. QED
    BY <1>3, <1>4, <2>1, <2>2, <2>3, <2>4, Zenon DEF PowInv
<1>5. ASSUME pc' = "returned", NEW x, res' = <<x>>, fn = "pow" => x = Power,
             fn = "pow_mod" => x = IF arg.exp = 0 THEN 1 ELSE IF arg.base = 0 \/ arg.exp < 0 THEN 0
                                   ELSE FloorMod(Power, arg.mod),
             fn = "pow_mod" /\ arg.base # 0 /\ arg.exp > 0 => arg.mod # 0
      PROVE  PowInv'
  <2>1. result' = x
    BY <1>5 DEF result
  <2>2. PowReturned'
    BY <1>1, <1>3, <1>5, <2>1, Zenon DEF PowReturned
  <2>3. pc' \in {"call", "power", "returned", "threw"} /\ pc' # "power" /\ pc' # "threw"
    BY <1>5
  <2>4. QED
    BY <1>3, <2>2, <2>3, Zenon DEF PowInv
<1>6. ASSUME pc' = "threw", PowThrew PROVE PowInv'
  <2>1. pc' \in {"call", "power", "returned", "threw"} /\ pc' # "power" /\ pc' # "returned"
    BY <1>6
  <2>2. QED
    BY <1>3, <1>6, <2>1, Zenon DEF PowInv
<1>7. CASE UNCHANGED vars
  <2>1. fn' = fn /\ pc' = pc /\ loc' = loc /\ res' = res /\ arg' = arg
    BY <1>7, Zenon DEF vars
  <2>2. pc = "power" => arg'.exp > 0 /\ arg'.base # 0 /\ ModGiven' /\ PowerLeft(loc.i, loc.result, loc.temp)'
    BY <1>2, <1>3, <1>3a, <2>1, Zenon DEF PowerLeft, Alike, Reduced
  <2>3. pc = "returned" => PowReturned'
    BY <1>2, <1>3, <2>1, Zenon DEF PowReturned, result
  <2>4. QED
    BY <1>2, <1>3, <2>1, <2>2, <2>3, Zenon DEF PowInv
<1>8. ASSUME fn = "pow" \/ arg.mod # 0, arg.exp > 0, arg.base # 0, NEW t \in Int, Alike(t, arg.base),
             pc' = "power", loc' = [i |-> 0, result |-> 1, temp |-> t]
      PROVE  PowInv'
  <2>1. ModGiven
    BY <1>8, <1>2a DEF ModGiven, InPow
  <2>2. ExpBits \in Nat /\ ExpBits >= 1 /\ arg.exp \in Nat /\ Power \in Int
    BY <1>2, <1>8, PowArgsFacts
  <2>3. arg.exp \div Exp(2, 0) = arg.exp
    <3>1. Exp(2, 0) = 1
      <4>1. 2 \in Int /\ 0 \in Nat
        OBVIOUS
      <4>2. QED
        BY <4>1, ExpFacts
    <3>2. arg.exp \div 1 = arg.exp
      BY <2>2
    <3>3. QED
      BY <3>1, <3>2, Zenon
  <2>4. Alike(Exp(t, arg.exp), Power)
    <3>1. Alike(Exp(t, arg.exp), Exp(arg.base, arg.exp))
      BY <1>2a, <1>8, <2>1, <2>2, AlikePower
    <3>2. QED
      BY <3>1, Zenon DEF Power
  <2>5. 1 * Exp(t, arg.exp) = Exp(t, arg.exp)
    <3>1. Exp(t, arg.exp) \in Int
      BY <1>8, <2>2, ExpFacts
    <3>2. QED
      BY <3>1
  <2>6. PowerLeft(0, 1, t)
    <3>1. 0 \in 0 .. ExpBits /\ 0 # ExpBits /\ 1 \in Int
      BY <2>2
    <3>2. QED
      BY <3>1, <2>3, <2>4, <2>5, <1>8, Zenon DEF PowerLeft
  <2>7. QED
    BY <1>4, <1>8, <2>1, <2>6, Zenon
<1>9. CASE PowCall
  <2>1. fn = "pow" /\ arg.exp >= 0
    BY <1>9, <1>2a DEF PowCall, Called
  <2>2. CASE arg.exp = 0 /\ arg.base = 0
    <3>1. pc' = "threw" /\ PowThrew
      BY <1>9, <2>2, Zenon DEF PowCall, Throw, PowThrew
    <3>2. QED
      BY <3>1, <1>6, Zenon
  <2>3. CASE arg.exp = 0 /\ arg.base # 0
    <3>1. pc' = "returned" /\ res' = <<1>> /\ Power = 1 /\ fn # "pow_mod"
      BY <1>9, <1>2, <2>1, <2>3, PowerTrivial DEF PowCall, Return
    <3>2. QED
      BY <3>1, <1>5, Zenon
  <2>4. CASE arg.exp # 0 /\ arg.base = 0
    <3>1. pc' = "returned" /\ res' = <<0>> /\ Power = 0 /\ fn # "pow_mod"
      BY <1>9, <1>2, <2>1, <2>4, PowerTrivial DEF PowCall, Return
    <3>2. QED
      BY <3>1, <1>5, Zenon
  <2>5. CASE arg.exp # 0 /\ arg.base # 0
    <3>1. pc' = "power" /\ loc' = [i |-> 0, result |-> 1, temp |-> arg.base]
      BY <1>9, <2>5, Zenon DEF PowCall, Enter
    <3>2. Alike(arg.base, arg.base)
      BY Zenon DEF Alike
    <3>3. arg.exp > 0
      BY <1>2a, <2>1, <2>5
    <3>4. QED
      BY <1>2a, <1>8, <2>1, <2>5, <3>1, <3>2, <3>3, Zenon
  <2>6. QED
    BY <2>2, <2>3, <2>4, <2>5
<1>10. CASE PowModCall
  <2>1. fn = "pow_mod" /\ fn # "pow" /\ arg.mod \in Int
    BY <1>10, <1>2a DEF PowModCall, Called
  <2>2. CASE arg.exp = 0 /\ arg.base = 0
    <3>1. pc' = "threw" /\ PowThrew
      BY <1>10, <2>2, Zenon DEF PowModCall, Throw, PowThrew
    <3>2. QED
      BY <3>1, <1>6, Zenon
  <2>3. CASE arg.exp = 0 /\ arg.base # 0
    <3>1. pc' = "returned" /\ res' = <<1>>
      BY <1>10, <2>3, Zenon DEF PowModCall, Return
    <3>2. QED
      <4>1. ~(arg.exp > 0)
        BY <2>3
      <4>2. QED
        BY <3>1, <4>1, <2>1, <2>3, <1>5, Zenon
  <2>4. CASE arg.exp # 0 /\ (arg.base = 0 \/ arg.exp < 0 \/ arg.mod = 1)
    <3>1. pc' = "returned" /\ res' = <<0>>
      BY <1>10, <2>4, Zenon DEF PowModCall, Return
    <3>2. CASE arg.base = 0 \/ arg.exp < 0
      <4>1. ~(arg.base # 0 /\ arg.exp > 0)
        BY <3>2, <1>2a
      <4>2. QED
        BY <3>1, <3>2, <4>1, <2>1, <2>4, <1>5, Zenon
    <3>3. CASE ~(arg.base = 0 \/ arg.exp < 0)
      <4>1. arg.exp >= 0 /\ arg.mod = 1 /\ arg.mod # 0
        BY <3>3, <2>4, <1>2a
      <4>2. FloorMod(Power, arg.mod) = 0
        BY <4>1, <1>2, PowerTrivial
      <4>3. QED
        BY <3>1, <3>3, <4>1, <4>2, <2>1, <2>4, <1>5, Zenon
    <3>4. QED
      BY <3>2, <3>3
  <2>5. CASE arg.exp # 0 /\ ~(arg.base = 0 \/ arg.exp < 0 \/ arg.mod = 1) /\ arg.mod = 0
    <3>1. pc' = "threw" /\ PowThrew
      BY <1>10, <2>1, <2>5, Zenon DEF PowModCall, Throw, PowThrew
    <3>2. QED
      BY <3>1, <1>6, Zenon
  <2>6. CASE arg.exp # 0 /\ ~(arg.base = 0 \/ arg.exp < 0 \/ arg.mod = 1) /\ arg.mod # 0
    <3> DEFINE t == FloorMod(arg.base, arg.mod)
    <3>1. pc' = "power" /\ loc' = [i |-> 0, result |-> 1, temp |-> t]
      BY <1>10, <2>6, Zenon DEF PowModCall, Enter
    <3>2. ModGiven
      BY <2>1, <2>6 DEF ModGiven
    <3>3. t = Reduced(arg.base)
      BY <2>1, Zenon DEF Reduced
    <3>4. t \in Int /\ Alike(t, arg.base)
      <4>1. Reduced(arg.base) \in Int /\ Alike(Reduced(arg.base), arg.base)
        BY <1>2a, <3>2, ReducedNear, AlikeFacts
      <4>2. QED
        BY <4>1, <3>3, Zenon
    <3>5. arg.exp > 0
      BY <1>2a, <2>6
    <3> HIDE DEF t
    <3>6. QED
      BY <1>8, <2>6, <3>1, <3>4, <3>5, Zenon
  <2>7. QED
    BY <2>2, <2>3, <2>4, <2>5, <2>6
<1>11. CASE PowStep
  <2> DEFINE i == loc.i  x == loc.result  t == loc.temp
  <2>1. pc = "power" /\ i < ExpBits /\ pc' = "power"
        /\ loc' = [i |-> i + 1, result |-> IF Bit(i) THEN Reduced(x * t) ELSE x,
                   temp |-> IF i + 1 < ExpBits THEN Reduced(t * t) ELSE t]
    BY <1>11, Zenon DEF PowStep, Enter
  <2>2. arg.exp > 0 /\ arg.base # 0 /\ ModGiven /\ PowerLeft(i, x, t)
    BY <1>2, <2>1, Zenon
  <2> HIDE DEF i, x, t
  <2>3. PowerLeft(i + 1, IF Bit(i) THEN Reduced(x * t) ELSE x, IF i + 1 < ExpBits THEN Reduced(t * t) ELSE t)
    BY <1>2, <2>1, <2>2, PowerStep
  <2>4. QED
    BY <1>4, <2>1, <2>2, <2>3, Zenon
<1>12. CASE PowReturn
  <2>1. pc = "power" /\ loc.i = ExpBits /\ pc' = "returned" /\ res' = <<loc.result>>
    BY <1>12, Zenon DEF PowReturn, Return
  <2>2. arg.exp > 0 /\ arg.base # 0 /\ loc.result = Reduced(Power)
    BY <1>2, <2>1, Zenon DEF PowerLeft
  <2>3. arg.exp # 0 /\ ~(arg.exp < 0)
    BY <2>2, <1>2a
  <2>4. fn = "pow" => loc.result = Power
    BY <2>2 DEF Reduced
  <2>5. fn = "pow_mod" => loc.result = FloorMod(Power, arg.mod)
    BY <2>2, Zenon DEF Reduced
  <2>6. fn = "pow_mod" => arg.mod # 0
    BY <2>1, <1>2 DEF ModGiven, InPow
  <2>7. QED
    BY <2>1, <2>2, <2>3, <2>4, <2>5, <2>6, <1>5, Zenon
<1>13. QED
  BY <1>1, <1>7, <1>9, <1>10, <1>11, <1>12, Zenon DEF PowersNext

(* In every reachable state of pow and pow_mod the invariant holds.          *)
THEOREM PowInductive == Spec => []PowInv
<1>1. Init => PowInv
  BY PowInit
<1>2. PowInv /\ [Next]_vars => PowInv'
  BY PowNext
<1>3. QED
  BY <1>1, <1>2, PTL DEF Spec

(* Square and multiply returns the power for every base and exponent, and    *)
(* in pow_mod what % by the modulus leaves of it wherever that is defined;   *)
(* the early returns of pow_mod for the exponent 0, the base 0 and negative  *)
(* exponents, which the documentation does not have, are not claimed.        *)
THEOREM PowersAlwaysExact == Spec => []PowersExact
<1>1. PowInv => PowersExact
  <2> SUFFICES ASSUME PowInv, InPow PROVE PowersExact
    BY DEF PowersExact, InPow, Returned, Threw
  <2>1. /\ pc = "power" => PowerLeft(loc.i, loc.result, loc.temp)
        /\ pc = "returned" => PowReturned
        /\ pc = "threw" => PowThrew
    BY Zenon DEF PowInv
  <2>2. pc = "power" => Reduced(loc.result * Exp(loc.temp, arg.exp \div Exp(2, loc.i))) = Reduced(Power)
    BY <2>1, Zenon DEF PowerLeft, Alike
  <2>3. fn = "pow" => fn # "pow_mod"
    OBVIOUS
  <2>4. ASSUME Returned("pow_mod"), ModuloDefined PROVE result = FloorMod(Power, arg.mod)
    <3>1. PowArgs /\ arg.mod \in Int /\ arg.exp >= 0 /\ arg.mod # 0 /\ (arg.exp = 0 => arg.mod > 1)
      BY <2>4, Zenon DEF PowInv, PowArgs, Returned, ModuloDefined
    <3>2. result = IF arg.exp = 0 THEN 1 ELSE IF arg.base = 0 \/ arg.exp < 0 THEN 0 ELSE FloorMod(Power, arg.mod)
      BY <2>1, <2>4, Zenon DEF PowReturned, Returned
    <3>3. CASE arg.exp = 0
      <4>1. Power = 1 /\ FloorMod(1, arg.mod) = 1
        BY <3>1, <3>3, PowerTrivial DEF FloorMod
      <4>2. QED
        BY <4>1, <3>2, <3>3, Zenon
    <3>4. CASE arg.exp # 0 /\ arg.base = 0
      <4>1. Power = 0 /\ FloorMod(0, arg.mod) = 0
        BY <3>1, <3>4, PowerTrivial DEF FloorMod
      <4>2. QED
        BY <4>1, <3>2, <3>4, Zenon
    <3>5. CASE arg.exp # 0 /\ arg.base # 0
      <4>1. arg.exp \in Int
        BY <3>1, Zenon DEF PowArgs
      <4>2. ~(arg.exp < 0)
        BY <3>1, <4>1
      <4>3. QED
        BY <4>2, <3>2, <3>5, Zenon
    <3>6. QED
      BY <3>3, <3>4, <3>5
  <2>5. QED
    BY <2>1, <2>2, <2>3, <2>4, Zenon DEF PowersExact, PowReturned, PowThrew, Returned, Threw
<1>2. QED
  BY <1>1, PowInductive, PTL

(* A step of Newton's iteration does not fall below the root, and one that   *)
(* does not fall starts at it.                                               *)
LEMMA SquareOfSum ==
    ASSUME NEW x \in Nat, NEW z \in Nat, NEW n \in Nat, x + z <= 2 * n
    PROVE  x * z <= n * n
<1> DEFINE s == x + z  d == x - z
<1>1. s \in Nat /\ d \in Int /\ 2 * n \in Nat /\ s * s <= (2 * n) * (2 * n)
  <2>1. s \in Nat /\ d \in Int /\ 2 * n \in Nat /\ s <= 2 * n
    OBVIOUS
  <2> DEFINE m == 2 * n
  <2> HIDE DEF s, m
  <2>2. s * s <= m * s /\ s * m <= m * m /\ s * m = m * s
    BY <2>1, MulMonotone DEF m
  <2>3. s * s \in Int /\ m * s \in Int /\ m * m \in Int
    BY <2>1 DEF m
  <2>4. s * s <= m * m
    BY <2>2, <2>3
  <2>5. QED
    BY <2>1, <2>4 DEF m
<1>2. d * d >= 0 /\ d * d \in Int
  <2>1. CASE d >= 0
    <3>1. 0 * d <= d * d
      <4>1. d \in Nat /\ 0 \in Int
        BY <1>1, <2>1
      <4> HIDE DEF d
      <4>2. QED
        BY <4>1, <2>1, MulMonotone
    <3>2. QED
      BY <3>1, <1>1
  <2>2. CASE ~(d >= 0)
    <3> DEFINE e == -d
    <3>1. e \in Nat /\ e * e = d * d /\ 0 \in Int
      BY <1>1, <2>2
    <3> HIDE DEF e, d
    <3>2. 0 * e <= e * e
      BY <3>1, MulMonotone
    <3>3. QED
      BY <3>1, <3>2
  <2>3. QED
    BY <2>1, <2>2
<1>3. s * s = d * d + 4 * (x * z) /\ (2 * n) * (2 * n) = 4 * (n * n) /\ x * z \in Int /\ n * n \in Int
  OBVIOUS
<1> HIDE DEF s, d
<1> DEFINE i == x * z  j == n * n  k == d * d  o == s * s
<1>4. i \in Int /\ j \in Int /\ k \in Int /\ k >= 0 /\ o = k + 4 * i /\ o <= 4 * j
  BY <1>1, <1>2, <1>3
<1> HIDE DEF i, j, k, o
<1>5. i <= j
  BY <1>4
<1>6. QED
  BY <1>5 DEF i, j

LEMMA NewtonFacts ==
    ASSUME NEW v \in Nat, v >= 2, NEW x \in Nat, x >= 1, NEW n, n = (x + v \div x) \div 2
    PROVE  /\ n \in Nat /\ n >= 1 /\ v < (n + 1) * (n + 1)
           /\ n >= x => x * x <= v
<1>1. v \in Int /\ x \in Nat /\ x > 0
  OBVIOUS
<1> DEFINE t == v \div x
<1>2. t \in Nat /\ t * x <= v /\ v < (t + 1) * x
  BY <1>1, QuotientRemainder
<1>2a. n = (x + t) \div 2
  OBVIOUS
<1> HIDE DEF t
<1>3. n \in Nat /\ 2 * n <= x + t /\ x + t <= 2 * n + 1
  BY <1>2, <1>2a
<1>4. x * (t + 1) <= (n + 1) * (n + 1)
  <2>1. x + (t + 1) <= 2 * (n + 1) /\ t + 1 \in Nat /\ n + 1 \in Nat
    BY <1>2, <1>3
  <2>2. QED
    BY <2>1, SquareOfSum
<1>5. v < (n + 1) * (n + 1)
  <2>1. x * (t + 1) = (t + 1) * x /\ (t + 1) * x \in Int /\ (n + 1) * (n + 1) \in Int
    BY <1>2, <1>3
  <2>2. QED
    BY <2>1, <1>2, <1>4
<1>6. n >= 1
  <2>1. ASSUME n = 0 PROVE FALSE
    <3>1. v < (0 + 1) * (0 + 1)
      BY <1>5, <2>1
    <3>2. QED
      BY <3>1
  <2>2. QED
    BY <2>1, <1>3
<1>7. ASSUME n >= x PROVE x * x <= v
  <2>1. x <= t
    BY <1>2, <1>3, <1>7
  <2>2. x * x <= t * x /\ x * x \in Int /\ t * x \in Int
    BY <2>1, <1>2, MulMonotone
  <2>3. QED
    BY <2>2, <1>2
<1>8. QED
  BY <1>3, <1>5, <1>6, <1>7

(* Where the iteration starts.                                               *)
LEMMA NewtonStarts ==
    ASSUME NEW v \in Nat, v >= 2, NEW h, h = v \div 2
    PROVE  h \in Nat /\ h >= 1 /\ v < (h + 1) * (h + 1)
<1>1. h \in Nat /\ h >= 1 /\ v <= 2 * h + 1
  OBVIOUS
<1>2. 0 * h <= h * h /\ (h + 1) * (h + 1) = h * h + (2 * h + 1) /\ h * h \in Int /\ 1 * h <= h * h
  <2>1. 0 * h <= h * h /\ 1 * h <= h * h
    BY <1>1, MulMonotone
  <2>2. QED
    BY <1>1, <2>1
<1> DEFINE z == h * h
<1>3. z \in Int /\ h <= z /\ (h + 1) * (h + 1) = z + (2 * h + 1)
  BY <1>1, <1>2
<1> HIDE DEF z
<1>4. QED
  BY <1>1, <1>3

----------------------------------------------------------------------------
(* The number of digits in base b less one is the logarithm.                 *)
LEMMA ExactFacts ==
    ASSUME NEW b \in Nat, b >= 2, NEW v \in Nat, v >= 1, v < Pow[MaxSize], NEW e, e = Exact(b, v)
    PROVE  e \in Nat /\ Exp(b, e) <= v /\ v < Exp(b, e + 1)
<1> DEFINE n == DigitsOf(b, v)
<1>1. n \in 0 .. MaxBits /\ v < Exp(b, n) /\ (n = 0 \/ v >= Exp(b, n - 1))
  BY DigitsFacts
<1> HIDE DEF n
<1>2. MaxBits \in Nat
  BY MaxBitsFacts
<1>3. Exp(b, 0) = 1
  <2>1. b \in Int /\ 0 \in Nat
    OBVIOUS
  <2>2. QED
    BY <2>1, ExpFacts
<1>4. n # 0
  BY <1>1, <1>3
<1> DEFINE k == n - 1
<1>5. k \in 0 .. MaxBits /\ k + 1 = n /\ v >= Exp(b, k)
  BY <1>1, <1>2, <1>4
<1> HIDE DEF k
<1>6. Exp(b, k) \in Int
  <2>1. b \in Int /\ k \in Nat
    BY <1>5, <1>2
  <2>2. QED
    BY <2>1, ExpFacts
<1>7. \E j \in 0 .. MaxBits : Exp(b, j) <= v /\ v < Exp(b, j + 1)
  <2>1. Exp(b, k) <= v /\ v < Exp(b, k + 1)
    BY <1>1, <1>5, <1>6
  <2>2. QED
    BY <2>1, <1>5
<1>8. e \in 0 .. MaxBits /\ Exp(b, e) <= v /\ v < Exp(b, e + 1)
  BY <1>7, Zenon DEF Exact
<1>9. QED
  BY <1>2, <1>8

(* An estimate, corrected.                                                   *)
LEMMA LogCorrected ==
    ASSUME NEW b \in Nat, b >= 2, NEW v \in Nat, v >= 1, v < Pow[MaxSize],
           NEW k \in Estimates(b, v), NEW j, j = IF Exp(b, k) > v THEN k - 1 ELSE k
    PROVE  /\ Exp(b, j) <= v
           /\ (v - Exp(b, j + 1)) * Precision >= Exp(b, j + 1) => v < Exp(b, j + 1)
<1> DEFINE e == Exact(b, v)
<1>1. e \in Nat /\ Exp(b, e) <= v /\ v < Exp(b, e + 1)
  BY ExactFacts
<1>2. /\ k \in {e - 1, e, e + 1}
      /\ k = e - 1 => k > 0 /\ (v - Exp(b, e)) * Precision < Exp(b, e)
  BY Zenon DEF Estimates
<1> HIDE DEF e
<1>3. /\ e + 1 \in Nat /\ e + 2 \in Nat /\ b \in Int
      /\ Exp(b, e) \in Nat /\ Exp(b, e) >= 1 /\ Exp(b, e + 1) \in Nat /\ Exp(b, e + 1) >= 1
      /\ Exp(b, e + 1) = b * Exp(b, e)
  <2>1. e \in Nat /\ e + 1 \in Nat /\ e + 2 \in Nat /\ b \in Int /\ b >= 1
    BY <1>1
  <2>2. QED
    BY <2>1, ExpPositive, ExpFacts
<1>4. CASE k = e - 1
  <2>1. k > 0 /\ k \in Nat /\ k + 1 = e /\ k < e
    BY <1>1, <1>2, <1>4
  <2>2. Exp(b, k) < Exp(b, e) /\ Exp(b, k) \in Nat
    BY <2>1, <1>1, ExpStrict, ExpPositive
  <2>3. j = k
    BY <2>2, <1>1, <1>3
  <2>4. Exp(b, k) <= v
    BY <2>2, <1>1, <1>3
  <2>5. ~((v - Exp(b, e)) * Precision >= Exp(b, e))
    <3> DEFINE z == Exp(b, e)  d == (v - z) * Precision
    <3>1. d < z /\ d \in Int /\ z \in Int
      BY <1>2, <1>3, <1>4, RootsAssumption
    <3> HIDE DEF d, z
    <3>2. ~(d >= z)
      BY <3>1
    <3>3. QED
      BY <3>2, Zenon DEF d, z
  <2>6. QED
    BY <2>1, <2>3, <2>4, <2>5, Zenon
<1>5. CASE k \in {e, e + 1}
  <2>1. j = e
    <3>1. CASE k = e
      <4>1. ~(Exp(b, e) > v)
        BY <1>1, <1>3
      <4>2. QED
        BY <3>1, <4>1
    <3>2. CASE k = e + 1
      <4>1. Exp(b, e + 1) > v
        BY <1>1, <1>3
      <4>2. (e + 1) - 1 = e
        BY <1>1
      <4>3. QED
        BY <3>2, <4>1, <4>2
    <3>3. QED
      BY <3>1, <3>2, <1>5
  <2>2. QED
    BY <2>1, <1>1, Zenon
<1>6. QED
  BY <1>2, <1>4, <1>5

(* The position of the top bit.                                              *)
LEMMA Log2Facts ==
    ASSUME NEW v \in Nat, v >= 1, v < Pow[MaxSize], NEW s \in 1 .. MaxSize, NEW j,
           j = Log2([val |-> v, size |-> s]), s = Size(v) \/ s = Size(v) + 1
    PROVE  /\ v < Exp(2, j + 1)
           /\ s = Size(v) => Exp(2, j) <= v
<1> DEFINE i == s - 1  w == Pow[i]  top == v \div w  n == BitLength(top)  z == W * i
<1>1. MaxSize \in Nat /\ W \in Nat /\ W >= 1 /\ MaxBits \in Nat
  BY MaxBitsFacts
<1>2. i \in Nat /\ i \in 0 .. MaxSize /\ i + 1 = s
  BY <1>1
<1>3. j = W * s - (W - n) - 1
  BY DEF Log2, clzll
<1> HIDE DEF i
<1>4. w \in Nat /\ w > 0 /\ w = Exp(2, z) /\ z \in Nat
  <2>1. w \in Nat /\ w > 0 /\ w = Exp(2, z)
    BY <1>2, PowPositive, PowExp
  <2>2. z \in Nat
    BY <1>1, <1>2, ProductNat
  <2>3. QED
    BY <2>1, <2>2
<1> HIDE DEF w
<1>5. top \in Nat /\ top * w <= v /\ v < (top + 1) * w /\ top <= v
  <2>1. top \in Nat /\ top * w <= v /\ v < (top + 1) * w
    BY <1>4, QuotientRemainder
  <2> HIDE DEF top
  <2>2. top * 1 <= top * w
    BY <2>1, <1>4, MulMonotone
  <2>3. top * w \in Int
    BY <2>1, <1>4
  <2>4. QED
    BY <2>1, <2>2, <2>3
<1> HIDE DEF top
<1>6. n \in 0 .. MaxBits /\ top < Exp(2, n) /\ (n = 0 \/ top >= Exp(2, n - 1))
  <2>1. 2 \in Nat /\ 2 >= 2 /\ top < Pow[MaxSize] /\ Pow[MaxSize] \in Nat
    <3>1. Pow[MaxSize] \in Nat
      BY MaxBitsFacts
    <3>2. QED
      BY <3>1, <1>5
  <2>2. QED
    BY <2>1, <1>5, DigitsFacts DEF BitLength
<1> HIDE DEF n
<1>7. n \in Nat
  BY <1>1, <1>6
<1>8. j = z + n - 1 /\ W * s = z + W
  <2> DEFINE d == W * s
  <2>1. d = W * i + W
    BY <1>1, <1>2
  <2>2. z \in Int /\ d = z + W /\ d \in Int /\ j = d - (W - n) - 1
    <3>1. j = d - (W - n) - 1 /\ d = z + W
      BY <2>1, <1>3, Zenon
    <3>2. z \in Int /\ z + W \in Int
      BY <1>1, <1>4
    <3>3. QED
      BY <3>1, <3>2, Zenon
  <2> HIDE DEF z, d
  <2>3. j = z + n - 1
    BY <2>2, <1>1, <1>7
  <2>4. QED
    BY <2>2, <2>3, Zenon DEF d
<1> HIDE DEF z
<1>9. j + 1 = n + z /\ j + 1 \in Nat
  BY <1>4, <1>7, <1>8
<1>10. 2 \in Int /\ 2 \in Nat /\ Exp(2, n) \in Nat /\ Exp(2, n) >= 1 /\ Exp(2, n + z) = Exp(2, n) * w
  <2>1. 2 \in Int /\ 2 \in Nat /\ 2 >= 1
    OBVIOUS
  <2>2. QED
    BY <2>1, <1>4, <1>7, ExpPositive, ExpSum
<1>11. v < Exp(2, j + 1)
  <2> DEFINE c == Exp(2, n)
  <2>1. c \in Nat /\ top + 1 <= c
    BY <1>5, <1>6, <1>10
  <2> HIDE DEF c
  <2>2. (top + 1) * w <= c * w /\ (top + 1) * w \in Int /\ c * w \in Int
    BY <2>1, <1>4, <1>5, MulMonotone
  <2>3. v < c * w
    BY <2>2, <1>5
  <2>4. QED
    BY <2>3, <1>9, <1>10, Zenon DEF c
<1>12. ASSUME s = Size(v) PROVE Exp(2, j) <= v
  <2>1. w <= v
    <3>1. MaxSize >= 1 /\ (Size(v) = 1 \/ v >= Pow[Size(v) - 1]) /\ Pow[0] = 1
      BY SizeFacts, MaxBitsFacts, PowAssumption
    <3>2. CASE s = 1
      <4>1. i = 0
        BY <3>2, <1>2
      <4>2. w = 1
        BY <4>1, <3>1, Zenon DEF w
      <4>3. QED
        BY <4>2
    <3>3. CASE s # 1
      <4>1. v >= Pow[i]
        BY <3>1, <3>3, <1>12, Zenon DEF i
      <4>2. QED
        BY <4>1, <1>4 DEF w
    <3>4. QED
      BY <3>2, <3>3
  <2>2. top >= 1
    <3>1. CASE top = 0
      <4>1. v < (0 + 1) * w
        BY <3>1, <1>5
      <4>2. QED
        BY <4>1, <2>1, <1>4
    <3>2. QED
      BY <3>1, <1>5
  <2>3. n # 0
    <3>1. Exp(2, 0) = 1
      <4>1. 0 \in Nat
        OBVIOUS
      <4>2. QED
        BY <4>1, <1>10, ExpFacts
    <3>2. QED
      BY <3>1, <2>2, <1>5, <1>6
  <2> DEFINE m == n - 1  c == Exp(2, m)
  <2>4. m \in Nat /\ top >= c /\ j = m + z
    BY <2>3, <1>4, <1>6, <1>7, <1>8
  <2> HIDE DEF m
  <2>5. c \in Nat /\ Exp(2, m + z) = c * w
    <3>1. 2 >= 1
      OBVIOUS
    <3>2. QED
      BY <3>1, <2>4, <1>4, <1>10, ExpPositive, ExpSum
  <2> HIDE DEF c
  <2>6. c * w <= top * w /\ c * w \in Int /\ top * w \in Int
    BY <2>4, <2>5, <1>4, <1>5, MulMonotone
  <2>7. c * w <= v
    BY <2>6, <1>5
  <2>8. QED
    BY <2>4, <2>5, <2>7, Zenon
<1>13. QED
  BY <1>11, <1>12

(* The calls of sqrt, log2 and log.                                          *)
InRoots == fn \in {"sqrt", "log2", "log"}

(* The numbers have at most one leading zero.                                *)
RootArgs ==
    /\ y \in Int /\ Abs(y) < Pow[MaxSize - 1]
    /\ arg.y.size \in {Size(Abs(y)), Size(Abs(y)) + 1}
    /\ fn = "log" => arg.base \in Int

(* An estimate that is not below the root; 0 stands for the zero and the one *)
(* with leading zeros, which the next step refuses.                          *)
RootAbove(x) == y >= 2 /\ x \in Nat /\ x >= 1 /\ y < (x + 1) * (x + 1)
ZeroEstimate(x) == y <= 1 /\ ~Canonical(arg.y) /\ x = 0

(* What holds while an estimate of the root or of the logarithm is improved. *)
Estimated ==
    /\ pc = "x1" => /\ loc = [x0 |-> loc.x0, x1 |-> loc.x1]
                    /\ RootAbove(loc.x0) \/ ZeroEstimate(loc.x0)
    /\ pc = "x0" => loc = [x0 |-> loc.x0, x1 |-> loc.x1] /\ RootAbove(loc.x1)
    /\ pc = "correct" => arg.base >= 2 /\ y >= 1 /\ loc.exp \in Estimates(arg.base, y)

(* The root and the logarithms; log may be too low just above a power, where *)
(* floating-point numbers do not tell the two apart.                         *)
RootIs(x) == x * x <= y /\ y < (x + 1) * (x + 1)
Log2Is(j) == y < Exp(2, j + 1) /\ (Canonical(arg.y) => Exp(2, j) <= y)
LogIs(j) ==
    /\ Exp(arg.base, j) <= y
    /\ ToldApart(Exp(arg.base, j + 1)) => y < Exp(arg.base, j + 1)

(* What sqrt, log2 and log return.                                           *)
RootsReturned ==
    /\ fn = "sqrt" => RootIs(result)
    /\ fn = "log2" => Log2Is(result)
    /\ fn = "log" => LogIs(result)

(* What sqrt, log2 and log refuse.                                           *)
RootsThrew ==
    /\ fn = "sqrt" => y < 0 \/ (y <= 1 /\ ~Canonical(arg.y))
    /\ fn = "log2" => y <= 0
    /\ fn = "log" => y <= 0 \/ arg.base <= 1

(* What holds at each place of sqrt, log2 and log.                           *)
RootsInv ==
    InRoots =>
        /\ RootArgs
        /\ pc \in {"call", "returned", "threw"} \cup (IF fn = "sqrt" THEN {"x1", "x0"} ELSE {})
                                                \cup (IF fn = "log" THEN {"correct"} ELSE {})
        /\ Estimated
        /\ pc = "returned" => RootsReturned
        /\ pc = "threw" => RootsThrew

LEMMA RootsStart == Init => RootsInv
<1>1. CASE RootsInit
  <2>1. PICK v \in Radicands : \E z \in Sized(v), b \in LogBases :
            arg = IF fn = "log" THEN [y |-> z, base |-> b] ELSE [y |-> z]
    BY <1>1, Zenon DEF RootsInit
  <2>2. PICK z \in Sized(v), b \in LogBases :
            arg = IF fn = "log" THEN [y |-> z, base |-> b] ELSE [y |-> z]
    BY <2>1, Zenon
  <2>3. v \in Int /\ b \in Int /\ Abs(v) < Pow[MaxSize - 1]
    BY RootsAssumption, Zenon
  <2>4. arg.y = z /\ (fn = "log" => arg.base = b)
    BY <2>2
  <2>5. z.val = v /\ z.size \in {Size(Abs(v)), Size(Abs(v)) + 1}
    BY DEF Sized
  <2>6. y = v /\ arg.y.size = z.size
    BY <2>4, <2>5, Zenon DEF y
  <2>7. RootArgs
    BY <2>3, <2>4, <2>5, <2>6, Zenon DEF RootArgs
  <2>8. pc = "call"
    BY <1>1, Zenon DEF RootsInit
  <2>9. Estimated
    BY <2>8 DEF Estimated
  <2>10. QED
    BY <2>7, <2>8, <2>9 DEF RootsInv
<1>2. CASE ~RootsInit
  <2>1. Init => RootsInit \/ ~InRoots
    <3>1. PowersInit \/ CountingInit => ~InRoots
      BY DEF InRoots, PowersInit, CountingInit
    <3>2. LehmerInit \/ IntDivisionInit => ~InRoots
      BY DEF InRoots, LehmerInit, IntDivisionInit
    <3>3. StringsInit => ~InRoots
      BY DEF InRoots, StringsInit, ReadInit, WriteInit
    <3>4. QED
      BY <3>1, <3>2, <3>3 DEF Init
  <2>2. QED
    BY <2>1, <1>2 DEF RootsInv
<1>3. QED
  BY <1>1, <1>2

(* The sizes of a positive argument.                                         *)
LEMMA RootSizes ==
    ASSUME RootArgs, y >= 1
    PROVE  /\ y \in Nat /\ y < Pow[MaxSize] /\ arg.y.size \in 1 .. MaxSize
           /\ arg.y.size = Size(y) \/ arg.y.size = Size(y) + 1
<1> DEFINE v == y  s == arg.y.size  k == MaxSize - 1
<1>1. v \in Int /\ Abs(v) < Pow[k] /\ s \in {Size(Abs(v)), Size(Abs(v)) + 1}
  BY Zenon DEF RootArgs
<1>2. v \in Nat /\ v >= 1 /\ Abs(v) = v
  BY <1>1 DEF Abs
<1> HIDE DEF v, s
<1>3. MaxSize \in Nat /\ MaxSize >= 1 /\ Pow[0] = 1 /\ k \in Nat /\ k <= MaxSize /\ k \in 0 .. MaxSize
  BY MaxBitsFacts, PowAssumption
<1>4. Pow[k] <= Pow[MaxSize] /\ Pow[k] \in Nat /\ Pow[MaxSize] \in Nat
  BY <1>3, PowGrows, PowPositive, MaxBitsFacts
<1>5. v < Pow[k] /\ v < Pow[MaxSize] /\ (s = Size(v) \/ s = Size(v) + 1)
  <2>1. v < Pow[k] /\ (s = Size(v) \/ s = Size(v) + 1)
    BY <1>1, <1>2, Zenon
  <2>2. QED
    BY <2>1, <1>2, <1>4
<1>6. k # 0
  BY <1>2, <1>3, <1>5
<1>7. k \in 1 .. MaxSize
  BY <1>3, <1>6
<1> HIDE DEF k
<1>8. Size(v) \in 1 .. k
  BY <1>2, <1>5, <1>7, SizeLeast
<1>9. s \in 1 .. MaxSize
  BY <1>3, <1>5, <1>8 DEF k
<1>10. QED
  BY <1>2, <1>5, <1>9, Zenon DEF v, s

(* A number of one digit that is at most one.                                *)
LEMMA RootSmall ==
    ASSUME RootArgs, y >= 0, y <= 1
    PROVE  Size(y) = 1 /\ (~AtMostOne(arg.y) => ~Canonical(arg.y))
           /\ (AtMostOne(arg.y) => RootIs(y))
<1>1. y \in Int
  BY Zenon DEF RootArgs
<1>2. y = 0 \/ y = 1
  BY <1>1
<1>3. MaxSize \in Nat /\ MaxSize >= 1 /\ 1 \in 1 .. MaxSize /\ Pow[1] = B * Pow[0] /\ Pow[0] = 1 /\ B \in Nat /\ B >= 2
  <2>1. MaxSize \in Nat /\ MaxSize >= 1 /\ Pow[0] = 1 /\ B \in Nat /\ B >= 2 /\ 0 \in 0 .. MaxSize - 1 /\ 0 + 1 = 1
    BY MaxBitsFacts, PowAssumption
  <2>2. Pow[0 + 1] = B * Pow[0]
    BY <2>1, PowAssumption, Zenon
  <2>3. QED
    BY <2>1, <2>2
<1>4. Size(y) = 1
  <2>1. y < Pow[1] /\ y \in Nat
    BY <1>2, <1>3
  <2>2. Size(y) \in 1 .. 1
    BY <2>1, <1>3, SizeLeast
  <2>3. QED
    BY <2>2
<1>5. AtMostOne(arg.y) <=> Canonical(arg.y)
  <2>1. arg.y.val = y
    BY Zenon DEF y
  <2>2. QED
    BY <2>1, <1>4, Zenon DEF AtMostOne, Canonical
<1>6. RootIs(y)
  BY <1>2 DEF RootIs
<1>7. QED
  BY <1>4, <1>5, <1>6

LEMMA NewtonAbove ==
    ASSUME y \in Int, NEW x, RootAbove(x)
    PROVE  RootAbove(Newton(x)) /\ (Newton(x) >= x => RootIs(x)) /\ Newton(x) \in Nat /\ x \in Nat
<1> DEFINE v == y  n == Newton(x)
<1>1. v \in Nat /\ v >= 2 /\ x \in Nat /\ x >= 1 /\ v < (x + 1) * (x + 1)
  BY DEF RootAbove
<1>2. n = (x + v \div x) \div 2
  BY Zenon DEF Newton
<1> HIDE DEF v, n
<1>3. /\ n \in Nat /\ n >= 1 /\ v < (n + 1) * (n + 1)
      /\ n >= x => x * x <= v
  BY <1>1, <1>2, NewtonFacts, Zenon
<1>4. QED
  BY <1>1, <1>3, Zenon DEF v, n, RootAbove, RootIs

LEMMA RootsStep == RootsInv /\ [Next]_vars => RootsInv'
<1> SUFFICES ASSUME RootsInv, [Next]_vars, InRoots PROVE RootsInv'
  BY StepsOfOne DEF RootsInv, InRoots
<1>1. fn' = fn /\ arg' = arg /\ (UNCHANGED vars \/ RootsNext)
  BY StepsOfOne DEF InRoots
<1>2. RootArgs /\ Estimated /\ (pc = "returned" => RootsReturned) /\ (pc = "threw" => RootsThrew)
      /\ pc \in {"call", "returned", "threw"} \cup (IF fn = "sqrt" THEN {"x1", "x0"} ELSE {})
                                              \cup (IF fn = "log" THEN {"correct"} ELSE {})
  BY Zenon DEF RootsInv
<1>3. y \in Int /\ (fn = "log" => arg.base \in Int)
  BY <1>2, Zenon DEF RootArgs
<1>4. y' = y /\ RootArgs' /\ (RootsThrew' <=> RootsThrew)
  BY <1>1, <1>2, Zenon DEF y, RootArgs, RootsThrew, Canonical
<1>5. /\ \A x : RootAbove(x)' <=> RootAbove(x)
      /\ \A x : ZeroEstimate(x)' <=> ZeroEstimate(x)
      /\ \A x : RootIs(x)' <=> RootIs(x)
  BY <1>1, <1>4, Zenon DEF RootAbove, ZeroEstimate, RootIs, Canonical
<1>6. /\ \A x : Log2Is(x)' <=> Log2Is(x)
      /\ \A x : LogIs(x)' <=> LogIs(x)
  BY <1>1, <1>4, Zenon DEF Log2Is, LogIs, ToldApart, Canonical
<1>7. ASSUME fn = "sqrt", pc' = "x1", NEW a, NEW b, loc' = [x0 |-> a, x1 |-> b], RootAbove(a) \/ ZeroEstimate(a)
      PROVE  RootsInv'
  <2>1. loc'.x0 = a /\ loc'.x1 = b
    BY <1>7
  <2>2. Estimated'
    BY <1>5, <1>7, <2>1 DEF Estimated
  <2>3. pc' \in {"call", "returned", "threw"} \cup {"x1", "x0"} \cup (IF fn' = "log" THEN {"correct"} ELSE {})
        /\ pc' # "returned" /\ pc' # "threw" /\ fn' = "sqrt"
    BY <1>1, <1>7
  <2>4. QED
    BY <1>4, <2>2, <2>3, Zenon DEF RootsInv
<1>8. ASSUME fn = "sqrt", pc' = "x0", NEW a, NEW b, loc' = [x0 |-> a, x1 |-> b], RootAbove(b)
      PROVE  RootsInv'
  <2>1. loc'.x0 = a /\ loc'.x1 = b
    BY <1>8
  <2>2. Estimated'
    BY <1>5, <1>8, <2>1 DEF Estimated
  <2>3. pc' \in {"call", "returned", "threw"} \cup {"x1", "x0"} \cup (IF fn' = "log" THEN {"correct"} ELSE {})
        /\ pc' # "returned" /\ pc' # "threw" /\ fn' = "sqrt"
    BY <1>1, <1>8
  <2>4. QED
    BY <1>4, <2>2, <2>3, Zenon DEF RootsInv
<1>9. ASSUME NEW x, pc' = "returned", res' = <<x>>, fn = "sqrt" => RootIs(x), fn = "log2" => Log2Is(x), fn = "log" => LogIs(x)
      PROVE  RootsInv'
  <2>1. result' = x
    BY <1>9 DEF result
  <2>2. RootsReturned'
    BY <1>1, <1>5, <1>6, <1>9, <2>1, Zenon DEF RootsReturned
  <2>3. Estimated'
    BY <1>9 DEF Estimated
  <2>4. pc' # "threw" /\ pc' \in {"call", "returned", "threw"}
    BY <1>9
  <2>5. QED
    BY <1>4, <2>2, <2>3, <2>4, Zenon DEF RootsInv
<1>10. ASSUME pc' = "threw", RootsThrew PROVE RootsInv'
  <2>1. Estimated'
    BY <1>10 DEF Estimated
  <2>2. pc' # "returned" /\ pc' \in {"call", "returned", "threw"}
    BY <1>10
  <2>3. QED
    BY <1>4, <1>10, <2>1, <2>2, Zenon DEF RootsInv
<1>11. CASE UNCHANGED vars
  <2>1. fn' = fn /\ pc' = pc /\ loc' = loc /\ res' = res /\ arg' = arg
    BY <1>11, Zenon DEF vars
  <2>2. Estimated'
    BY <1>2, <1>4, <1>5, <2>1, Zenon DEF Estimated
  <2>3. RootsReturned => RootsReturned'
    BY <1>5, <1>6, <2>1, Zenon DEF RootsReturned, result
  <2>4. QED
    BY <1>2, <1>4, <2>1, <2>2, <2>3, Zenon DEF RootsInv
<1>12. CASE SqrtCall
  <2>1. fn = "sqrt" /\ fn # "log2" /\ fn # "log"
    BY <1>12 DEF SqrtCall, Called
  <2>2. CASE y < 0
    <3>1. pc' = "threw" /\ RootsThrew
      BY <1>12, <2>1, <2>2, Zenon DEF SqrtCall, Throw, RootsThrew
    <3>2. QED
      BY <3>1, <1>10, Zenon
  <2>3. CASE y >= 0 /\ AtMostOne(arg.y)
    <3>1. ~(y < 0) /\ y <= 1
      <4>1. ~(y < 0)
        BY <1>3, <2>3
      <4>2. y <= 1
        BY <2>3, Zenon DEF AtMostOne, y
      <4>3. QED
        BY <4>1, <4>2, Zenon
    <3>2. pc' = "returned" /\ res' = <<y>>
      BY <1>12, <2>3, <3>1, Zenon DEF SqrtCall, Return
    <3>3. RootIs(y)
      BY <1>2, <2>3, <3>1, RootSmall
    <3>4. QED
      BY <3>2, <3>3, <2>1, <1>9, Zenon
  <2>4. CASE y >= 0 /\ ~AtMostOne(arg.y)
    <3>1. ~(y < 0)
      BY <1>3, <2>4
    <3>2. pc' = "x1" /\ loc' = [x0 |-> y \div 2, x1 |-> 0]
      BY <1>12, <2>4, <3>1, Zenon DEF SqrtCall, Enter
    <3>3. CASE y >= 2
      <4>1. RootAbove(y \div 2)
        <5> DEFINE v == y  h == v \div 2
        <5>1. v \in Nat /\ v >= 2
          BY <1>3, <3>3
        <5> HIDE DEF v
        <5>2. h = v \div 2
          OBVIOUS
        <5> HIDE DEF h
        <5>3. h \in Nat /\ h >= 1 /\ v < (h + 1) * (h + 1)
          BY <5>1, <5>2, NewtonStarts
        <5>4. QED
          BY <5>1, <5>3, Zenon DEF h, v, RootAbove
      <4>2. QED
        BY <1>7, <2>1, <3>2, <4>1, Zenon
    <3>4. CASE ~(y >= 2)
      <4>1. y <= 1 /\ y \div 2 = 0
        BY <1>3, <2>4, <3>4
      <4>2. ZeroEstimate(y \div 2)
        BY <1>2, <2>4, <4>1, RootSmall DEF ZeroEstimate
      <4>3. QED
        BY <1>7, <2>1, <3>2, <4>2, Zenon
    <3>5. QED
      BY <3>3, <3>4
  <2>5. QED
    BY <2>2, <2>3, <2>4, <1>3
<1>13. CASE NextX1
  <2>1. fn = "sqrt" /\ fn # "log2" /\ fn # "log" /\ pc = "x1"
    BY <1>13 DEF NextX1
  <2> DEFINE x == loc.x0  z == loc.x1
  <2>2. loc = [x0 |-> x, x1 |-> z] /\ (RootAbove(x) \/ ZeroEstimate(x))
    BY <1>2, <2>1, Zenon DEF Estimated
  <2>3. CASE x = 0
    <3>1. pc' = "threw"
      BY <1>13, <2>3, Zenon DEF NextX1, Throw
    <3>2. ZeroEstimate(x)
      <4>1. ~RootAbove(x)
        <5> HIDE DEF x
        <5>1. QED
          BY <2>3 DEF RootAbove
      <4>2. QED
        BY <4>1, <2>2, Zenon
    <3>3. RootsThrew
      BY <3>2, <2>1, Zenon DEF RootsThrew, ZeroEstimate
    <3>4. QED
      BY <3>1, <3>3, <1>10, Zenon
  <2>4. CASE x # 0
    <3>1. RootAbove(x)
      BY <2>2, <2>4, Zenon DEF ZeroEstimate
    <3>2. RootAbove(Newton(x)) /\ (Newton(x) >= x => RootIs(x))
      BY <3>1, <1>3, NewtonAbove, Zenon
    <3>3. CASE Newton(x) >= x
      <4>1. pc' = "returned" /\ res' = <<x>>
        BY <1>13, <2>4, <3>3, Zenon DEF NextX1, Return
      <4>2. QED
        BY <4>1, <3>2, <3>3, <2>1, <1>9, Zenon
    <3>4. CASE ~(Newton(x) >= x)
      <4>1. pc' = "x0" /\ loc' = [loc EXCEPT !.x1 = Newton(x)]
        BY <1>13, <2>4, <3>4, Zenon DEF NextX1, Enter
      <4>2. loc' = [x0 |-> x, x1 |-> Newton(x)]
        <5> DEFINE n == Newton(x)
        <5>1. loc' = [loc EXCEPT !.x1 = n]
          BY <4>1
        <5> HIDE DEF x, z, n
        <5>2. loc' = [x0 |-> x, x1 |-> n]
          BY <5>1, <2>2
        <5>3. QED
          BY <5>2, Zenon DEF n
      <4>3. QED
        BY <4>1, <4>2, <3>2, <2>1, <1>8, Zenon
    <3>5. QED
      BY <3>3, <3>4
  <2>5. QED
    BY <2>3, <2>4
<1>14. CASE NextX0
  <2>1. fn = "sqrt" /\ fn # "log2" /\ fn # "log" /\ pc = "x0"
    BY <1>14 DEF NextX0
  <2> DEFINE x == loc.x1  z == loc.x0  n == Newton(x)
  <2>2. loc = [x0 |-> z, x1 |-> x] /\ RootAbove(x)
    BY <1>2, <2>1, Zenon DEF Estimated
  <2>3. RootAbove(n) /\ (n >= x => RootIs(x)) /\ n \in Nat /\ x \in Nat
    BY <2>2, <1>3, NewtonAbove, Zenon
  <2>4. CASE x <= n
    <3>1. pc' = "returned" /\ res' = <<x>>
      BY <1>14, <2>4, Zenon DEF NextX0, Return
    <3>2. n >= x
      <4> HIDE DEF n, x
      <4>1. QED
        BY <2>3, <2>4
    <3>3. QED
      BY <3>1, <3>2, <2>3, <2>1, <1>9, Zenon
  <2>5. CASE ~(x <= n)
    <3>1. pc' = "x1" /\ loc' = [loc EXCEPT !.x0 = n]
      BY <1>14, <2>5, Zenon DEF NextX0, Enter
    <3>2. loc' = [x0 |-> n, x1 |-> x]
      <4> HIDE DEF x, z, n
      <4>1. QED
        BY <3>1, <2>2
    <3>3. QED
      BY <3>1, <3>2, <2>3, <2>1, <1>7, Zenon
  <2>6. QED
    BY <2>4, <2>5
<1>15. CASE Log2Call
  <2>1. fn = "log2" /\ fn # "sqrt" /\ fn # "log"
    BY <1>15 DEF Log2Call, Called
  <2>2. CASE y <= 0
    <3>1. pc' = "threw" /\ RootsThrew
      BY <1>15, <2>1, <2>2, Zenon DEF Log2Call, Throw, RootsThrew
    <3>2. QED
      BY <3>1, <1>10, Zenon
  <2>3. CASE ~(y <= 0)
    <3> DEFINE v == y  s == arg.y.size  j == Log2(arg.y)
    <3>1. pc' = "returned" /\ res' = <<j>>
      BY <1>15, <2>3, Zenon DEF Log2Call, Return
    <3>2. v >= 1
      BY <1>3, <2>3
    <3>3. v \in Nat /\ v < Pow[MaxSize] /\ s \in 1 .. MaxSize /\ (s = Size(v) \/ s = Size(v) + 1)
      BY <1>2, <3>2, RootSizes, Zenon
    <3>4. j = Log2([val |-> v, size |-> s])
      <4>1. [val |-> v, size |-> s].val = arg.y.val /\ [val |-> v, size |-> s].size = arg.y.size
        BY DEF y
      <4>2. QED
        BY <4>1, Zenon DEF Log2
    <3> HIDE DEF v, s, j
    <3>5. v < Exp(2, j + 1) /\ (s = Size(v) => Exp(2, j) <= v)
      BY <3>2, <3>3, <3>4, Log2Facts
    <3>6. Log2Is(j)
      <4>1. Canonical(arg.y) <=> s = Size(v)
        BY Zenon DEF Canonical, s, v, y
      <4>2. QED
        BY <3>5, <4>1, Zenon DEF Log2Is, v
    <3>7. QED
      BY <3>1, <3>6, <2>1, <1>9, Zenon
  <2>4. QED
    BY <2>2, <2>3
<1>16. CASE LogCall
  <2>1. fn = "log" /\ fn # "sqrt" /\ fn # "log2"
    BY <1>16 DEF LogCall, Called
  <2> DEFINE v == y  b == arg.base
  <2>2. v \in Int /\ b \in Int
    BY <1>3, <2>1, Zenon
  <2>3. CASE b <= 1 \/ v <= 0
    <3>1. pc' = "threw" /\ RootsThrew
      BY <1>16, <2>1, <2>3, Zenon DEF LogCall, Throw, RootsThrew
    <3>2. QED
      BY <3>1, <1>10, Zenon
  <2>4. CASE ~(b <= 1 \/ v <= 0) /\ b > v
    <3>1. pc' = "returned" /\ res' = <<0>>
      BY <1>16, <2>4, Zenon DEF LogCall, Return
    <3> HIDE DEF v, b
    <3>2. Exp(b, 0) = 1 /\ Exp(b, 0 + 1) = b
      <4>1. 0 \in Nat /\ 0 + 1 = 1
        OBVIOUS
      <4>2. QED
        BY <4>1, <2>2, ExpFacts, ExpOne
    <3>3. 1 <= v /\ v < b
      BY <2>2, <2>4
    <3>4. LogIs(0)
      BY <3>2, <3>3, Zenon DEF LogIs, v, b
    <3>5. QED
      BY <3>1, <3>4, <2>1, <1>9, Zenon
  <2>5. CASE ~(b <= 1 \/ v <= 0) /\ ~(b > v)
    <3>1. PICK k \in Estimates(arg.base, y) : pc' = "correct" /\ loc' = [exp |-> k]
      BY <1>16, <2>5, Zenon DEF LogCall, Enter
    <3>2. loc'.exp = k
      BY <3>1
    <3>3. b >= 2 /\ v >= 1
      <4> HIDE DEF v, b
      <4>1. QED
        BY <2>2, <2>5
    <3>4. Estimates(arg.base, y)' = Estimates(arg.base, y)
      BY <1>1, <1>4, Zenon DEF Estimates, Exact
    <3>5. pc' # "x1" /\ pc' # "x0" /\ fn' = "log"
      BY <1>1, <2>1, <3>1
    <3>6. Estimated'
      BY <1>1, <1>4, <3>1, <3>2, <3>3, <3>4, <3>5, Zenon DEF Estimated
    <3>7. pc' \in {"call", "returned", "threw"} \cup (IF fn' = "sqrt" THEN {"x1", "x0"} ELSE {}) \cup {"correct"}
          /\ pc' # "returned" /\ pc' # "threw"
      BY <3>1
    <3>8. QED
      BY <1>4, <3>5, <3>6, <3>7, Zenon DEF RootsInv
  <2>6. QED
    BY <2>3, <2>4, <2>5
<1>17. CASE LogCorrect
  <2>1. fn = "log" /\ fn # "sqrt" /\ fn # "log2" /\ pc = "correct"
    BY <1>17 DEF LogCorrect
  <2> DEFINE v == y  b == arg.base  k == loc.exp  j == IF Exp(b, k) > v THEN k - 1 ELSE k
  <2>2. pc' = "returned" /\ res' = <<j>>
    BY <1>17, Zenon DEF LogCorrect, Return
  <2>3. b \in Int /\ b >= 2 /\ v >= 1 /\ k \in Estimates(b, v)
    BY <1>2, <1>3, <2>1, Zenon DEF Estimated
  <2>4. v \in Nat /\ v < Pow[MaxSize]
    BY <1>2, <2>3, RootSizes, Zenon
  <2>5. j = IF Exp(b, k) > v THEN k - 1 ELSE k
    OBVIOUS
  <2> HIDE DEF v, b, k, j
  <2>6. b \in Nat
    BY <2>3
  <2>7. /\ Exp(b, j) <= v
        /\ (v - Exp(b, j + 1)) * Precision >= Exp(b, j + 1) => v < Exp(b, j + 1)
    BY <2>3, <2>4, <2>5, <2>6, LogCorrected
  <2>8. LogIs(j)
    BY <2>7, Zenon DEF LogIs, ToldApart, v, b
  <2>9. QED
    BY <2>2, <2>8, <2>1, <1>9, Zenon
<1>18. QED
  BY <1>1, <1>11, <1>12, <1>13, <1>14, <1>15, <1>16, <1>17, Zenon DEF RootsNext

(* In every reachable state of sqrt, log2 and log the invariant holds.       *)
THEOREM RootsInductive == Spec => []RootsInv
<1>1. Init => RootsInv
  BY RootsStart
<1>2. RootsInv /\ [Next]_vars => RootsInv'
  BY RootsStep
<1>3. QED
  BY <1>1, <1>2, PTL DEF Spec

(* sqrt returns the root rounded down, log2 of a number without leading      *)
(* zeros the position of the top bit, and log the logarithm rounded down,    *)
(* except just above a power, where it may be less; they throw for what has  *)
(* none and, against the documentation, sqrt of 0 or 1 with leading zeros.   *)
THEOREM RootsAlwaysExact == Spec => []RootsExact
<1>1. RootsInv => RootsExact
  <2> SUFFICES ASSUME RootsInv, InRoots PROVE RootsExact
    BY DEF RootsExact, SqrtExact, LogsExact, InRoots, Returned, Threw
  <2>1. /\ y \in Int /\ Estimated
        /\ pc = "returned" => RootsReturned
        /\ pc = "threw" => RootsThrew
    BY Zenon DEF RootsInv, RootArgs
  <2>2. fn = "sqrt" /\ pc = "x1" /\ y > 1 => Sqr(loc.x0 + 1) > y
    <3> SUFFICES ASSUME fn = "sqrt", pc = "x1", y > 1 PROVE Sqr(loc.x0 + 1) > y
      OBVIOUS
    <3> DEFINE x == loc.x0
    <3>1. RootAbove(x) \/ ZeroEstimate(x)
      BY <2>1, Zenon DEF Estimated
    <3>2. ~(y <= 1)
      BY <2>1
    <3>3. RootAbove(x)
      BY <3>1, <3>2, Zenon DEF ZeroEstimate
    <3> HIDE DEF x
    <3>4. (x + 1) * (x + 1) \in Int
      BY <3>3 DEF RootAbove
    <3>5. Sqr(x + 1) > y
      BY <3>3, <3>4, <2>1 DEF RootAbove, Sqr
    <3>6. QED
      BY <3>5 DEF x
  <2>3. fn = "sqrt" /\ pc = "x0" => Sqr(loc.x1 + 1) > y
    <3> SUFFICES ASSUME fn = "sqrt", pc = "x0" PROVE Sqr(loc.x1 + 1) > y
      OBVIOUS
    <3> DEFINE x == loc.x1
    <3>3. RootAbove(x)
      BY <2>1, Zenon DEF Estimated
    <3> HIDE DEF x
    <3>4. (x + 1) * (x + 1) \in Int
      BY <3>3 DEF RootAbove
    <3>5. Sqr(x + 1) > y
      BY <3>3, <3>4, <2>1 DEF RootAbove, Sqr
    <3>6. QED
      BY <3>5 DEF x
  <2>4. SqrtExact
    BY <2>1, <2>2, <2>3, Zenon DEF SqrtExact, Returned, Threw, RootsReturned, RootsThrew, RootIs, Sqr
  <2>5. LogsExact
    BY <2>1, Zenon DEF LogsExact, Returned, Threw, RootsReturned, RootsThrew, Log2Is, LogIs
  <2>6. QED
    BY <2>4, <2>5, Zenon DEF RootsExact
<1>2. QED
  BY <1>1, RootsInductive, PTL

(* The calls that read or write text.                                        *)
InStrings == fn \in {"from_string", "to_string", "digit_sum"}

(* The functions that are called, and the places of those of strings.        *)
KnownFunction ==
    fn \in {"sqrt", "log2", "log", "pow", "pow_mod", "factorial", "perm", "comb",
            "gcd", "lcm", "int_div", "from_string", "to_string", "digit_sum"}

LoopsOfStrings ==
    (IF fn = "from_string" THEN {"chunks", "windows"} ELSE {})
    \cup (IF fn = "to_string" THEN {"rounds", "words"} ELSE {})
    \cup (IF fn = "digit_sum" THEN {"sum"} ELSE {})

StringsPlaces == InStrings => pc \in {"call", "returned", "threw"} \cup LoopsOfStrings

LEMMA StringsPlacesStep == StringsPlaces /\ [Next]_vars => StringsPlaces'
<1> SUFFICES ASSUME StringsPlaces, [Next]_vars, InStrings PROVE StringsPlaces'
  BY StepsOfOne DEF StringsPlaces, InStrings
<1>1. fn' = fn /\ (UNCHANGED vars \/ StringsNext)
  BY StepsOfOne DEF InStrings
<1>2. pc \in {"call", "returned", "threw"} \cup LoopsOfStrings /\ LoopsOfStrings' = LoopsOfStrings
  BY <1>1 DEF StringsPlaces, LoopsOfStrings
<1>3. ASSUME pc' \in {"call", "returned", "threw"} \cup LoopsOfStrings PROVE StringsPlaces'
  BY <1>2, <1>3, Zenon DEF StringsPlaces
<1>4. CASE UNCHANGED vars
  BY <1>2, <1>3, <1>4 DEF vars
<1>5. ASSUME NEW x, NEW l \in LoopsOfStrings, Enter(l, x) PROVE StringsPlaces'
  BY <1>3, <1>5 DEF Enter
<1>6. ASSUME NEW x, Return(x) PROVE StringsPlaces'
  BY <1>3, <1>6 DEF Return
<1>7. ASSUME Throw PROVE StringsPlaces'
  BY <1>3, <1>7 DEF Throw
<1>8. ASSUME fn = "from_string" PROVE "chunks" \in LoopsOfStrings /\ "windows" \in LoopsOfStrings
  BY <1>8 DEF LoopsOfStrings
<1>9. ASSUME fn = "to_string" PROVE "rounds" \in LoopsOfStrings /\ "words" \in LoopsOfStrings
  BY <1>9 DEF LoopsOfStrings
<1>10. ASSUME fn = "digit_sum" PROVE "sum" \in LoopsOfStrings
  BY <1>10 DEF LoopsOfStrings
<1>11. CASE FromString \/ ReadChunk \/ ReadChunksEnd \/ ReadWindow \/ ReadWindowsEnd
  BY <1>5, <1>6, <1>7, <1>8, <1>11 DEF FromString, ReadChunk, ReadChunksEnd, ReadWindow, ReadWindowsEnd, Called
<1>12. CASE ToString \/ PrintRound \/ PrintEnd \/ PrintWord \/ PrintWordsEnd
  BY <1>5, <1>6, <1>7, <1>9, <1>12 DEF ToString, PrintRound, PrintEnd, PrintWord, PrintWordsEnd, Called
<1>13. CASE DigitSum \/ SumRound \/ SumEnd
  BY <1>5, <1>6, <1>7, <1>10, <1>13 DEF DigitSum, SumRound, SumEnd, Called
<1>14. QED
  BY <1>1, <1>4, <1>11, <1>12, <1>13 DEF StringsNext

LEMMA PlacesInvariant == Spec => [](KnownFunction /\ StringsPlaces)
<1>1. Init => KnownFunction /\ StringsPlaces
  <2>1. RootsInit \/ PowersInit \/ CountingInit => KnownFunction /\ ~InStrings
    BY DEF RootsInit, PowersInit, CountingInit, KnownFunction, InStrings
  <2>2. LehmerInit \/ IntDivisionInit => KnownFunction /\ ~InStrings
    BY DEF LehmerInit, IntDivisionInit, KnownFunction, InStrings
  <2>3. StringsInit => KnownFunction /\ pc = "call"
    BY DEF StringsInit, ReadInit, WriteInit, KnownFunction
  <2>4. QED
    BY <2>1, <2>2, <2>3 DEF Init, StringsPlaces
<1>2. KnownFunction /\ [Next]_vars => KnownFunction'
  BY StepsOfOne DEF KnownFunction
<1>3. QED
  BY <1>1, <1>2, StringsPlacesStep, PTL DEF Spec

(* What a division by a machine integer keeps in the divisor's type.         *)
LEMMA RemainderInType ==
    ASSUME IntDivArgs, divisor > 0
    PROVE  /\ Abs(arg.a) % divisor \in 0 .. Modulus(arg.type) - 1
           /\ form # "big /=" => FloorMod(arg.a, arg.k) \in IntsOf(arg.type)
<1> DEFINE d == divisor  m == Modulus(arg.type)  k == arg.k  a == arg.a  h == m \div 2
<1>1. /\ k \in Int /\ d \in Nat /\ d > 0 /\ d < m
      /\ arg.type \in {"u64", "u32"} /\ form # "big /=" => k >= 0
      /\ arg.type \in {"i64", "i32"} => d <= h - 1
      /\ k < 0 \/ k > 0
      /\ (k >= 0 => d = k) /\ (k < 0 => d = -k)
  BY DivisorFacts, Zenon
<1>2. m \in Nat /\ m >= 2
  BY ModulusFacts DEF IntDivArgs
<1>3. a \in Int /\ arg.type \in {"u64", "i64", "u32", "i32"}
  BY Zenon DEF IntDivArgs
<1>4. Abs(a) \in Nat
  <2> HIDE DEF a
  <2>1. QED
    BY <1>3 DEF Abs
<1>5. h \in Nat
  <2> HIDE DEF m
  <2>1. QED
    BY <1>2, QuotientRemainder
<1>5a. d \in Nat /\ d > 0 /\ m \in Nat /\ d < m /\ k \in Int /\ h \in Nat /\ a \in Int
  BY <1>1, <1>2, <1>3, <1>5, Zenon
<1>5b. (k < 0 \/ k > 0) /\ (k >= 0 => d = k) /\ (k < 0 => d = -k)
  BY <1>1, Zenon
<1> HIDE DEF d, m, k, a, h
<1>6. \A x \in Int : x % d \in 0 .. d - 1
  BY <1>5a
<1>7. Abs(a) % d \in 0 .. m - 1
  <2>1. Abs(a) % d \in 0 .. d - 1
    BY <1>4, <1>6
  <2>2. QED
    BY <2>1, <1>5a
<1>8. ASSUME form # "big /=" PROVE FloorMod(a, k) \in IntsOf(arg.type)
  <2>1. IntsOf(arg.type) = IF arg.type \in {"u32", "u64"} THEN 0 .. m - 1 ELSE 1 - h .. h - 1
    BY Zenon DEF IntsOf, m, h
  <2>1a. arg.type \in {"u32", "u64"} \/ (arg.type \notin {"u32", "u64"} /\ d <= h - 1)
    <3>1. arg.type \in {"u32", "u64"} \/ arg.type \in {"i64", "i32"}
      BY <1>3
    <3>2. CASE arg.type \in {"i64", "i32"}
      <4>1. arg.type \notin {"u32", "u64"}
        BY <3>2
      <4>2. d <= h - 1
        BY <3>2, <1>1, Zenon
      <4>3. QED
        BY <4>1, <4>2
    <3>3. QED
      BY <3>1, <3>2
  <2>2. CASE k > 0
    <3>1. d = k
      BY <2>2, <1>5a, <1>5b
    <3>2. FloorMod(a, k) \in 0 .. d - 1
      BY <3>1, <2>2, <1>5a, <1>6 DEF FloorMod
    <3>4. FloorMod(a, k) \in 0 .. m - 1 /\ (d <= h - 1 => FloorMod(a, k) \in 1 - h .. h - 1)
      <4> DEFINE z == FloorMod(a, k)
      <4>1. z \in 0 .. d - 1
        BY <3>2
      <4> HIDE DEF z
      <4>2. z \in 0 .. m - 1 /\ (d <= h - 1 => z \in 1 - h .. h - 1)
        BY <4>1, <1>5a
      <4>3. QED
        BY <4>2 DEF z
    <3>5. QED
      BY <3>4, <2>1, <2>1a, Zenon
  <2>3. CASE k < 0
    <3>1. d = -k /\ ~(k > 0)
      BY <2>3, <1>5a, <1>5b
    <3>2. (-a) % d \in 0 .. d - 1
      <4>1. -a \in Int
        BY <1>5a
      <4>2. QED
        BY <4>1, <1>6
    <3>3. FloorMod(a, k) = -((-a) % d)
      BY <3>1, Zenon DEF FloorMod
    <3> DEFINE z == (-a) % d
    <3>4. z \in 0 .. d - 1 /\ FloorMod(a, k) = -z
      BY <3>2, <3>3
    <3> HIDE DEF z
    <3>5. arg.type \notin {"u32", "u64"} /\ d <= h - 1
      <4>1. ASSUME arg.type \in {"u32", "u64"} PROVE FALSE
        <5>1. k >= 0
          <6>1. arg.type \in {"u64", "u32"}
            BY <4>1
          <6>2. QED
            BY <6>1, <1>1, <1>8, Zenon
        <5>2. QED
          BY <5>1, <2>3, <1>5a
      <4>2. QED
        BY <4>1, <2>1a, Zenon
    <3>6. -z \in 1 - h .. h - 1
      <4>1. d <= h - 1
        BY <3>5
      <4>2. QED
        BY <4>1, <3>4, <1>5a
    <3>7. QED
      BY <3>4, <3>5, <3>6, <2>1, Zenon
  <2>4. QED
    BY <2>2, <2>3, <1>5b
<1>9. QED
  BY <1>7, <1>8, Zenon DEF d, m, k, a

(* Every variable has its type, and the values that the code keeps in machine*)
(* words fit them: the running remainder and the remainder returned by the   *)
(* division by a machine integer, the leading words and the cofactors of     *)
(* Lehmer's algorithm.                                                       *)
THEOREM CallsTyped == Spec => []TypeOK
<1> DEFINE AllInv == RootsInv /\ PowInv /\ CountInv /\ GcdInv /\ IntDivInv /\ KnownFunction /\ StringsPlaces
<1>1. AllInv => TypeOK
  <2> SUFFICES ASSUME RootsInv, PowInv, CountInv, GcdInv, IntDivInv, KnownFunction, StringsPlaces PROVE TypeOK
    BY Zenon
  <2> DEFINE labels == CASE fn = "sqrt" -> {"x1", "x0"}
                     [] fn = "log" -> {"correct"}
                     [] fn \in {"pow", "pow_mod"} -> {"power"}
                     [] fn \in {"factorial", "perm"} -> {"multiply"}
                     [] fn = "comb" -> {"choose"}
                     [] fn \in {"gcd", "lcm"} -> {"euclid", "lehmer", "divide"}
                     [] fn = "int_div" -> {"digits", "fix", "sign"}
                     [] fn = "from_string" -> {"chunks", "windows"}
                     [] fn = "to_string" -> {"rounds", "words"}
                     [] fn = "digit_sum" -> {"sum"}
                     [] OTHER -> {}
  <2>1. pc \in {"call", "returned", "threw"} \cup labels
    <3>1. CASE fn \in {"sqrt", "log2", "log"}
      <4>1. pc \in {"call", "returned", "threw"} \cup (IF fn = "sqrt" THEN {"x1", "x0"} ELSE {})
                                                 \cup (IF fn = "log" THEN {"correct"} ELSE {})
        BY <3>1, Zenon DEF RootsInv, InRoots
      <4>2. QED
        BY <3>1, <4>1
    <3>2. CASE fn \in {"pow", "pow_mod"}
      <4>1. pc \in {"call", "power", "returned", "threw"}
        BY <3>2, Zenon DEF PowInv, InPow
      <4>2. labels = {"power"}
        BY <3>2
      <4>3. QED
        BY <4>1, <4>2
    <3>3. CASE fn \in {"factorial", "perm", "comb"}
      <4>1. pc \in {"call", "returned"} \cup IF fn = "comb" THEN {"choose"} ELSE {"multiply"}
        BY <3>3, Zenon DEF CountInv, Counts
      <4>2. QED
        BY <3>3, <4>1
    <3>4. CASE fn \in {"gcd", "lcm"}
      <4>1. pc \in {"call", "euclid", "lehmer", "divide", "returned"}
        BY <3>4, Zenon DEF GcdInv, InGcd
      <4>2. labels = {"euclid", "lehmer", "divide"}
        BY <3>4
      <4>3. QED
        BY <4>1, <4>2
    <3>5. CASE fn = "int_div"
      <4>1. pc \in {"call", "digits", "fix", "sign", "returned", "threw"}
        BY <3>5, Zenon DEF IntDivInv
      <4>2. labels = {"digits", "fix", "sign"}
        BY <3>5
      <4>3. QED
        BY <4>1, <4>2
    <3>6. CASE fn \in {"from_string", "to_string", "digit_sum"}
      <4>1. pc \in {"call", "returned", "threw"} \cup LoopsOfStrings
        BY <3>6, Zenon DEF StringsPlaces, InStrings
      <4>2. LoopsOfStrings = labels
        BY <3>6 DEF LoopsOfStrings
      <4>3. QED
        BY <4>1, <4>2
    <3>7. QED
      BY <3>1, <3>2, <3>3, <3>4, <3>5, <3>6 DEF KnownFunction
  <2>2. ASSUME fn = "int_div", pc = "fix" PROVE loc.x \in 0 .. Modulus(arg.type) - 1
    <3>1. IntDivArgs /\ divisor > 0 /\ loc.x = Abs(arg.a) % divisor
      <4>1. pc \notin {"call", "threw"}
        BY <2>2
      <4>2. QED
        BY <2>2, <4>1, Zenon DEF IntDivInv, AllDivided
    <3>2. QED
      BY <3>1, RemainderInType, Zenon
  <2>3. ASSUME fn = "int_div", form \in {"divmod", "mod"}, pc = "returned" PROVE result.rem \in IntsOf(arg.type)
    <3>1. IntDivArgs /\ divisor > 0 /\ result.rem = FloorMod(arg.a, arg.k)
      <4>1. pc \notin {"call", "threw"}
        BY <2>3
      <4>2. QED
        BY <2>3, <4>1, Zenon DEF IntDivInv, IntDivReturned
    <3>2. form # "big /="
      BY <2>3
    <3>3. QED
      BY <3>1, <3>2, RemainderInType, Zenon
  <2>4. ASSUME InGcd, pc = "lehmer"
        PROVE  /\ loc.u_ \in 0 .. B - 1 /\ loc.v_ \in 0 .. B - 1
               /\ {loc.x_im1, loc.x_i, loc.y_im1, loc.y_i} \subseteq -(B \div 2) .. B \div 2 - 1
    <3> DEFINE k == Exp(2, K)  u == loc.u_  v == loc.v_  four == {loc.x_im1, loc.x_i, loc.y_im1, loc.y_i}
    <3>1. LehmerState(loc)
      BY <2>4, Zenon DEF GcdInv
    <3>2. u \in Int /\ v \in Int /\ u < k /\ v >= 1 /\ u >= v
      <4>1. u \in Int /\ v \in Int
        BY <3>1, LehmerRanges
      <4>2. QED
        BY <3>1, <4>1, Zenon DEF LehmerState, CofactorsHold
    <3>3. four \subseteq -k + 1 .. k - 1
      BY <3>1, CofactorsSmall, Zenon
    <3>4. k \in Nat /\ B = 2 * k /\ B \div 2 = k
      BY HalfWord
    <3> HIDE DEF k, u, v, four
    <3>5. u \in 0 .. B - 1 /\ v \in 0 .. B - 1
      BY <3>2, <3>4
    <3>6. four \subseteq -k .. k - 1
      BY <3>3, <3>4
    <3>7. QED
      BY <3>4, <3>5, <3>6, Zenon DEF u, v, four
  <2>5. QED
    BY <2>1, <2>2, <2>3, <2>4, Zenon DEF TypeOK, KnownFunction
<1>2. QED
  BY <1>1, RootsInductive, PowInductive, CountInductive, GcdInductive, IntDivInductive, PlacesInvariant, PTL

(* The value of n digits of t, most significant first, in base c; with c = 1 *)
(* their sum.                                                                *)
Fold(c, t, n) ==
    LET f[k \in 0 .. n] == IF k = 0 THEN 0 ELSE f[k - 1] * c + t[k] IN f[n]

IntsTo(t, n) == \A k \in 1 .. n : t[k] \in Int
FoldSteps(c, t, n, g) ==
    /\ g \in [0 .. n -> Int] /\ g[0] = 0
    /\ \A k \in 0 .. n - 1 : g[k + 1] = g[k] * c + t[k + 1]
    /\ Fold(c, t, n) = g[n]

LEMMA FoldRecursion ==
    ASSUME NEW c \in Int, NEW t, NEW n \in Nat, \A k \in 1 .. n : t[k] \in Int
    PROVE  \E g : FoldSteps(c, t, n, g)
<1> DEFINE f == CHOOSE f : f = [k \in 0 .. n |-> IF k = 0 THEN 0 ELSE f[k - 1] * c + t[k]]
           II == Int
           st == [k \in 1 .. n |-> [s \in II |-> s * c + t[k]]]
<1>1. Fold(c, t, n) = f[n]
  BY DEF Fold
<1>2. st \in [1 .. n -> [II -> II]] /\ 0 \in II
  OBVIOUS
<1>2a. \A k \in 1 .. n, s \in Int : st[k][s] = s * c + t[k]
  OBVIOUS
<1> HIDE DEF II, st
<1>3. PICK g \in [0 .. n -> II] : g[0] = 0 /\ \A k \in 1 .. n : g[k] = st[k][g[k - 1]]
  BY <1>2, RecursionExists
<1>4. g \in [0 .. n -> Int] /\ \A k \in 1 .. n : g[k] = g[k - 1] * c + t[k]
  <2>1. g \in [0 .. n -> Int]
    BY DEF II
  <2>2. ASSUME NEW k \in 1 .. n PROVE k - 1 \in 0 .. n
    OBVIOUS
  <2>3. QED
    BY <2>1, <2>2, <1>2a, <1>3
<1>5. g = [k \in 0 .. n |-> IF k = 0 THEN 0 ELSE g[k - 1] * c + t[k]]
  BY <1>3, <1>4
<1>6. f = [k \in 0 .. n |-> IF k = 0 THEN 0 ELSE f[k - 1] * c + t[k]]
  BY <1>5
<1> HIDE DEF f
<1>7. f[0] = 0 /\ \A k \in 1 .. n : f[k] = f[k - 1] * c + t[k]
  BY <1>6
<1>8. \A k \in 0 .. n : f[k] = g[k]
  <2>1. ASSUME NEW k \in 0 .. n - 1, f[k] = g[k] PROVE f[k + 1] = g[k + 1]
    <3>1. k + 1 \in 1 .. n /\ (k + 1) - 1 = k
      OBVIOUS
    <3>2. QED
      BY <3>1, <2>1, <1>4, <1>7
  <2>2. f[0] = g[0]
    BY <1>3, <1>7
  <2>3. QED
    BY <2>1, <2>2, SameSteps
<1>9. ASSUME NEW k \in 0 .. n - 1 PROVE g[k + 1] = g[k] * c + t[k + 1]
  <2>1. k + 1 \in 1 .. n /\ (k + 1) - 1 = k
    OBVIOUS
  <2>2. QED
    BY <2>1, <1>4
<1>10. Fold(c, t, n) = g[n]
  <2>1. n \in 0 .. n
    OBVIOUS
  <2>2. QED
    BY <2>1, <1>1, <1>8
<1>11. g \in [0 .. n -> Int] /\ g[0] = 0
  BY <1>3, <1>4
<1>12. QED
  BY <1>9, <1>10, <1>11, Zenon DEF FoldSteps

LEMMA FoldNone ==
    ASSUME NEW c \in Int, NEW t
    PROVE  Fold(c, t, 0) = 0
<1>1. 0 \in Nat /\ \A k \in 1 .. 0 : t[k] \in Int
  OBVIOUS
<1>2. PICK g : FoldSteps(c, t, 0, g)
  BY <1>1, FoldRecursion
<1>3. QED
  BY <1>2 DEF FoldSteps

LEMMA FoldNext ==
    ASSUME NEW c \in Int, NEW t, NEW n \in Nat, \A k \in 1 .. n + 1 : t[k] \in Int
    PROVE  Fold(c, t, n) \in Int /\ Fold(c, t, n + 1) = Fold(c, t, n) * c + t[n + 1]
<1>0. n + 1 \in Nat /\ \A k \in 1 .. n : t[k] \in Int
  OBVIOUS
<1>0a. PICK g : FoldSteps(c, t, n, g)
  BY <1>0, FoldRecursion
<1>0b. PICK h : FoldSteps(c, t, n + 1, h)
  BY <1>0, FoldRecursion
<1>1. /\ g \in [0 .. n -> Int] /\ g[0] = 0 /\ Fold(c, t, n) = g[n]
      /\ \A k \in 0 .. n - 1 : g[k + 1] = g[k] * c + t[k + 1]
  BY <1>0a, Zenon DEF FoldSteps
<1>2. /\ h \in [0 .. n + 1 -> Int] /\ h[0] = 0 /\ Fold(c, t, n + 1) = h[n + 1]
      /\ \A k \in 0 .. (n + 1) - 1 : h[k + 1] = h[k] * c + t[k + 1]
  BY <1>0b, Zenon DEF FoldSteps
<1>4. ASSUME NEW k \in 0 .. n - 1, g[k] = h[k] PROVE g[k + 1] = h[k + 1]
  <2>1. k \in 0 .. (n + 1) - 1
    OBVIOUS
  <2>2. QED
    BY <2>1, <1>1, <1>2, <1>4
<1>5. g[0] = h[0]
  BY <1>1, <1>2
<1>6. \A k \in 0 .. n : g[k] = h[k]
  BY <1>4, <1>5, SameSteps
<1>7. n \in 0 .. n /\ n \in 0 .. (n + 1) - 1
  OBVIOUS
<1>8. g[n] \in Int /\ h[n + 1] = h[n] * c + t[n + 1] /\ h[n] = g[n]
  BY <1>1, <1>2, <1>6, <1>7
<1>9. QED
  BY <1>1, <1>2, <1>8, Zenon

LEMMA FoldInt ==
    ASSUME NEW c \in Int, NEW t, NEW n \in Nat, \A k \in 1 .. n : t[k] \in Int
    PROVE  Fold(c, t, n) \in Int
<1>1. IntsTo(t, n)
  BY DEF IntsTo
<1>2. PICK g : FoldSteps(c, t, n, g)
  BY <1>1, FoldRecursion
<1>3. g \in [0 .. n -> Int] /\ Fold(c, t, n) = g[n] /\ n \in 0 .. n
  BY <1>2 DEF FoldSteps
<1>4. QED
  BY <1>3

(* Digits appended.                                                          *)
PartOf(t, n, s, m) == \A k \in 1 .. n : t[k] = s[m + k]

LEMMA FoldConcat ==
    ASSUME NEW c \in Int, NEW s, NEW t, NEW m \in Nat, NEW n \in Nat,
           IntsTo(s, m + n), PartOf(t, n, s, m)
    PROVE  Fold(c, s, m + n) = Fold(c, s, m) * Exp(c, n) + Fold(c, t, n)
<1> DEFINE a == Fold(c, s, m)
           T == {k \in 0 .. n : Fold(c, s, m + k) = a * Exp(c, k) + Fold(c, t, k)}
<1>0. (\A k \in 1 .. m + n : s[k] \in Int) /\ \A k \in 1 .. n : t[k] = s[m + k]
  BY DEF IntsTo, PartOf
<1>1. a \in Int
  <2>1. \A k \in 1 .. m : s[k] \in Int
    BY <1>0
  <2>2. QED
    BY <2>1, FoldInt
<1>2. 0 \in T
  <2>1. Exp(c, 0) = 1 /\ Fold(c, t, 0) = 0 /\ m + 0 = m /\ 0 \in 0 .. n
    <3>1. 0 \in Nat /\ m + 0 = m /\ 0 \in 0 .. n
      OBVIOUS
    <3>2. Exp(c, 0) = 1
      BY <3>1, ExpFacts
    <3>3. Fold(c, t, 0) = 0
      BY FoldNone
    <3>4. QED
      BY <3>1, <3>2, <3>3
  <2> HIDE DEF a
  <2>2. a = a * 1 + 0
    BY <1>1
  <2>3. QED
    BY <2>1, <2>2 DEF a
<1>3. ASSUME NEW k \in 0 .. n - 1, k \in T PROVE k + 1 \in T
  <2>1. k \in Nat /\ k + 1 \in 0 .. n /\ m + k \in Nat /\ m + (k + 1) = (m + k) + 1
    OBVIOUS
  <2>2. Fold(c, s, (m + k) + 1) = Fold(c, s, m + k) * c + s[(m + k) + 1]
    <3>1. \A j \in 1 .. (m + k) + 1 : s[j] \in Int
      BY <2>1, <1>0
    <3>2. QED
      BY <2>1, <3>1, FoldNext
  <2>3. Fold(c, t, k + 1) = Fold(c, t, k) * c + t[k + 1] /\ Fold(c, t, k) \in Int
    <3>1. \A j \in 1 .. k + 1 : t[j] \in Int
      BY <2>1, <1>0
    <3>2. QED
      BY <2>1, <3>1, FoldNext
  <2>4. t[k + 1] = s[(m + k) + 1] /\ t[k + 1] \in Int
    <3>1. k + 1 \in 1 .. n /\ m + (k + 1) = (m + k) + 1 /\ m + (k + 1) \in 1 .. m + n
      BY <2>1
    <3>2. QED
      BY <3>1, <1>0
  <2>5. Exp(c, k + 1) = c * Exp(c, k) /\ Exp(c, k) \in Int
    BY <2>1, ExpFacts
  <2> DEFINE e == Exp(c, k)  x == Fold(c, t, k)  d == t[k + 1]
  <2>6. e \in Int /\ x \in Int /\ d \in Int
    BY <2>3, <2>4, <2>5
  <2> HIDE DEF e, x, d, a
  <2>7. (a * e + x) * c + d = a * (c * e) + (x * c + d)
    BY <2>6, <1>1
  <2>8. Fold(c, s, m + k) = a * e + x
    BY <1>3 DEF e, x
  <2>9. Fold(c, s, m + (k + 1)) = a * Exp(c, k + 1) + Fold(c, t, k + 1)
    BY <2>1, <2>2, <2>3, <2>4, <2>5, <2>7, <2>8, Zenon DEF e, x, d
  <2>10. QED
    BY <2>1, <2>9
<1> HIDE DEF T
<1>4. 0 .. n \subseteq T
  BY <1>2, <1>3, BoundedInduction
<1>5. n \in T
  BY <1>4
<1>6. QED
  BY <1>5 DEF T

LEMMA FoldSame ==
    ASSUME NEW c \in Int, NEW s, NEW t, NEW n \in Nat, \A k \in 1 .. n : s[k] \in Int /\ t[k] = s[k]
    PROVE  Fold(c, t, n) = Fold(c, s, n)
<1>1. 0 \in Nat /\ IntsTo(s, 0 + n) /\ PartOf(t, n, s, 0) /\ 0 + n = n
  BY DEF IntsTo, PartOf
<1>2. Fold(c, s, 0 + n) = Fold(c, s, 0) * Exp(c, n) + Fold(c, t, n)
  BY <1>1, FoldConcat, SMTT(30)
<1>3. Fold(c, s, 0) = 0 /\ Exp(c, n) \in Int /\ Fold(c, t, n) \in Int
  <2>1. \A k \in 1 .. n : t[k] \in Int
    OBVIOUS
  <2>2. QED
    BY <2>1, FoldNone, FoldInt, ExpFacts
<1> DEFINE e == Exp(c, n)  x == Fold(c, t, n)
<1>4. e \in Int /\ x \in Int
  BY <1>3
<1> HIDE DEF e, x
<1>5. 0 * e + x = x
  BY <1>4
<1>6. QED
  BY <1>1, <1>2, <1>3, <1>5, Zenon DEF e, x

LEMMA ValueIsFold ==
    ASSUME NEW t
    PROVE  ValueOf(t) = Fold(base, t, Len(t))
BY Zenon DEF ValueOf, Fold

LEMMA FoldOfOnes ==
    ASSUME NEW t, NEW n \in Nat, \A k \in 1 .. n : t[k] \in Int,
           NEW f, f[0] = 0, \A k \in 1 .. n : f[k] = f[k - 1] + t[k]
    PROVE  f[n] = Fold(1, t, n)
<1>6. 1 \in Int
  OBVIOUS
<1>6b. PICK h : FoldSteps(1, t, n, h)
  BY <1>6, FoldRecursion
<1>7. /\ h \in [0 .. n -> Int] /\ h[0] = 0 /\ Fold(1, t, n) = h[n]
      /\ \A k \in 0 .. n - 1 : h[k + 1] = h[k] * 1 + t[k + 1]
  BY <1>6b, Zenon DEF FoldSteps
<1>8. ASSUME NEW k \in 0 .. n - 1, h[k] = f[k] PROVE h[k + 1] = f[k + 1]
  <2>1. k + 1 \in 1 .. n /\ (k + 1) - 1 = k /\ h[k] \in Int
    BY <1>7
  <2>2. h[k + 1] = h[k] + t[k + 1]
    BY <2>1, <1>7
  <2>3. QED
    BY <2>1, <2>2, <1>8
<1>9. h[0] = f[0]
  BY <1>7
<1>10. \A k \in 0 .. n : h[k] = f[k]
  BY <1>8, <1>9, SameSteps
<1>11. n \in 0 .. n
  OBVIOUS
<1>12. QED
  BY <1>7, <1>10, <1>11

LEMMA SumIsFold ==
    ASSUME NEW t, NEW n \in Nat, Len(t) = n, \A k \in 1 .. n : t[k] \in Int
    PROVE  SumOf(t) = Fold(1, t, n)
<1> DEFINE f == CHOOSE f : f = [k \in 0 .. n |-> IF k = 0 THEN 0 ELSE f[k - 1] + t[k]]
<1>1. SumOf(t) = f[n]
  BY Zenon DEF SumOf
<1>2. PICK g \in [0 .. n -> Int] : g[0] = 0 /\ \A k \in 1 .. n : g[k] = g[k - 1] + t[k]
  BY SumExists
<1>3. g = [k \in 0 .. n |-> IF k = 0 THEN 0 ELSE g[k - 1] + t[k]]
  BY <1>2
<1>4. f = [k \in 0 .. n |-> IF k = 0 THEN 0 ELSE f[k - 1] + t[k]]
  BY <1>3
<1> HIDE DEF f
<1>5. f[0] = 0 /\ \A k \in 1 .. n : f[k] = f[k - 1] + t[k]
  BY <1>4
<1>6. f[n] = Fold(1, t, n)
  BY <1>5, FoldOfOnes
<1>7. QED
  BY <1>1, <1>6, Zenon

(* The digit of x at place j in base b.                                      *)
BaseDigit(b, x, j) == (x \div Exp(b, j)) % b

LEMMA PlaceFacts ==
    ASSUME NEW b \in Nat, b >= 2, NEW x \in Nat, NEW j \in Nat
    PROVE  /\ x \div Exp(b, j) \in Nat /\ BaseDigit(b, x, j) \in 0 .. b - 1
           /\ x \div Exp(b, j) = (x \div Exp(b, j + 1)) * b + BaseDigit(b, x, j)
           /\ x \div Exp(b, j + 1) = (x \div Exp(b, j)) \div b
           /\ x < Exp(b, j) => x \div Exp(b, j) = 0 /\ BaseDigit(b, x, j) = 0
           /\ x \div Exp(b, j) = 0 => x < Exp(b, j)
<1> DEFINE w == Exp(b, j)  u == x \div w  v == u \div b
<1>1. w \in Nat /\ w > 0 /\ Exp(b, j + 1) = w * b /\ b > 0
  <2>1. b \in Int /\ b >= 1
    OBVIOUS
  <2>2. w \in Nat /\ w >= 1 /\ Exp(b, j + 1) = b * w
    BY <2>1, ExpPositive, ExpFacts
  <2> HIDE DEF w
  <2>3. QED
    BY <2>2
<1> HIDE DEF w
<1>2. u \in Nat /\ u * w <= x /\ x < (u + 1) * w
  BY <1>1, QuotientRemainder
<1>3. x \div (w * b) = v
  BY <1>1, QuotientTwice
<1> HIDE DEF u
<1>4. u = v * b + (u % b) /\ u % b \in 0 .. b - 1
  BY <1>1, <1>2, QuotientRemainder
<1>5. x < w => u = 0
  <2> SUFFICES ASSUME x < w PROVE u = 0
    OBVIOUS
  <2>1. 0 * w <= x /\ x < (0 + 1) * w /\ 0 \in Int
    BY <1>1
  <2>2. QED
    BY <2>1, <1>1, QuotientUnique DEF u
<1>6. u = 0 => x < w
  <2> SUFFICES ASSUME u = 0 PROVE x < w
    OBVIOUS
  <2>1. x < (0 + 1) * w
    BY <1>2
  <2>2. QED
    BY <2>1, <1>1
<1>7. 0 % b = 0
  BY <1>1
<1>8. BaseDigit(b, x, j) = u % b
  BY Zenon DEF BaseDigit, u, w
<1>9. QED
  BY <1>1, <1>2, <1>3, <1>4, <1>5, <1>6, <1>7, <1>8, Zenon DEF u, v, w

LEMMA PlaceSum ==
    ASSUME NEW b \in Nat, b >= 2, NEW x \in Nat, NEW m \in Nat, NEW j \in Nat
    PROVE  /\ x \div Exp(b, m + j) = (x \div Exp(b, m)) \div Exp(b, j)
           /\ BaseDigit(b, x \div Exp(b, m), j) = BaseDigit(b, x, m + j)
<1> DEFINE u == Exp(b, m)  v == Exp(b, j)
<1>1. u \in Nat /\ u > 0 /\ v \in Nat /\ v > 0 /\ Exp(b, m + j) = u * v
  <2>1. b \in Int /\ b >= 1
    OBVIOUS
  <2>2. u \in Nat /\ u >= 1 /\ v \in Nat /\ v >= 1 /\ Exp(b, m + j) = u * v
    BY <2>1, ExpPositive, ExpSum
  <2> HIDE DEF u, v
  <2>3. QED
    BY <2>2
<1> HIDE DEF u, v
<1>2. x \div (u * v) = (x \div u) \div v
  BY <1>1, QuotientTwice
<1>3. QED
  BY <1>1, <1>2, Zenon DEF u, v, BaseDigit

(* The digits below place k are those of the rest of a division by the power.*)
LEMMA PlaceLow ==
    ASSUME NEW b \in Nat, b >= 2, NEW x \in Nat, NEW k \in Nat, NEW j \in Nat, j < k
    PROVE  /\ x % Exp(b, k) \in Nat /\ x % Exp(b, k) < Exp(b, k)
           /\ BaseDigit(b, x % Exp(b, k), j) = BaseDigit(b, x, j)
<1> DEFINE w == Exp(b, j)  e == Exp(b, k - (j + 1))  m == Exp(b, k)  z == x \div m  o == x % m
<1>1. w \in Nat /\ w > 0 /\ e \in Nat /\ m \in Nat /\ m > 0 /\ m = (e * b) * w
  <2> DEFINE i == k - (j + 1)
  <2>1. b \in Int /\ b >= 1 /\ i \in Nat /\ i + 1 \in Nat /\ (i + 1) + j = k
    OBVIOUS
  <2> HIDE DEF i
  <2>2. w \in Nat /\ w >= 1 /\ Exp(b, i) \in Nat /\ m \in Nat /\ m >= 1
    BY <2>1, ExpPositive
  <2>3. m = Exp(b, i + 1) * w /\ Exp(b, i + 1) = b * Exp(b, i)
    BY <2>1, ExpSum, ExpFacts
  <2> DEFINE a == Exp(b, i)
  <2>4. a \in Nat /\ m = (b * a) * w /\ b * a = a * b
    BY <2>2, <2>3
  <2>5. w > 0 /\ m > 0
    <3> HIDE DEF w, m
    <3>1. QED
      BY <2>2
  <2>6. QED
    BY <2>2, <2>4, <2>5, Zenon DEF a, i
<1> HIDE DEF w, e, m
<1>2. z \in Nat /\ o \in Nat /\ o < m /\ x = z * m + o
  <2>1. z \in Int /\ o \in 0 .. m - 1 /\ x = z * m + o /\ z >= 0
    BY <1>1, QuotientRemainder
  <2> HIDE DEF z, o
  <2>2. QED
    BY <2>1, <1>1
<1> HIDE DEF z, o
<1> DEFINE h == z * e  u == o \div w
<1>3. h \in Nat /\ x = o + (h * b) * w
  <2>1. z * ((e * b) * w) = ((z * e) * b) * w
    BY <1>1, <1>2
  <2>2. h \in Nat
    BY <1>1, <1>2, ProductNat
  <2> HIDE DEF h
  <2>3. (h * b) * w \in Int
    BY <2>2, <1>1
  <2>4. x = (h * b) * w + o
    BY <2>1, <1>1, <1>2, Zenon DEF h
  <2> DEFINE d == (h * b) * w
  <2>5. d \in Int /\ x = d + o
    BY <2>3, <2>4
  <2> HIDE DEF d
  <2>6. x = o + d
    BY <2>5, <1>2
  <2>7. QED
    BY <2>2, <2>6, Zenon DEF d
<1>4. u \in Nat /\ u * w <= o /\ o < (u + 1) * w
  BY <1>1, <1>2, QuotientRemainder
<1> HIDE DEF h, u
<1> DEFINE g == h * b  n == u + g
<1>5. g \in Nat
  BY <1>3, ProductNat
<1> HIDE DEF g
<1>6. x \div w = n
  <2>1. n * w = u * w + g * w /\ (n + 1) * w = (u + 1) * w + g * w /\ n \in Int
    BY <1>1, <1>4, <1>5
  <2> DEFINE c == u * w  d == g * w  i == (u + 1) * w
  <2>2. c \in Int /\ d \in Int /\ i \in Int /\ n * w = c + d /\ (n + 1) * w = i + d /\ c <= o /\ o < i /\ x = o + d
    BY <2>1, <1>1, <1>3, <1>4, <1>5 DEF g
  <2> HIDE DEF c, d, i, n
  <2>3. n * w <= x /\ x < (n + 1) * w
    BY <2>2, <1>2
  <2>4. n \in Int
    BY <1>4, <1>5 DEF n
  <2>5. QED
    BY <2>3, <2>4, <1>1, QuotientUnique
<1>7. n % b = u % b
  <2>1. n = u + h * b
    BY Zenon DEF g
  <2>2. b > 0 /\ u \in Int /\ h \in Int
    BY <1>3, <1>4
  <2> HIDE DEF n
  <2>3. QED
    BY <2>1, <2>2, ModShift
<1>8. QED
  BY <1>2, <1>6, <1>7, Zenon DEF BaseDigit, u, w, o, m

LEMMA IsSequence ==
    ASSUME NEW S, NEW n \in Nat, NEW t \in [1 .. n -> S]
    PROVE  t \in Seq(S) /\ Len(t) = n
<1>1. t \in Seq(S)
  BY SeqDef
<1>2. Len(t) \in Nat /\ DOMAIN t = 1 .. Len(t)
  BY <1>1, LenProperties
<1>3. 1 .. Len(t) = 1 .. n
  BY <1>2
<1> DEFINE m == Len(t)
<1>4. m \in Nat /\ 1 .. m = 1 .. n
  BY <1>2, <1>3
<1> HIDE DEF m
<1>5. m = n
  <2>1. CASE m < n
    <3>1. m + 1 \in 1 .. n /\ m + 1 \notin 1 .. m
      BY <1>4, <2>1
    <3>2. QED
      BY <3>1, <1>4, Zenon
  <2>2. CASE n < m
    <3>1. n + 1 \in 1 .. m /\ n + 1 \notin 1 .. n
      BY <1>4, <2>2
    <3>2. QED
      BY <3>1, <1>4, Zenon
  <2>3. QED
    BY <2>1, <2>2, <1>4
<1>6. QED
  BY <1>1, <1>5 DEF m

LEMMA LowDigitsFacts ==
    ASSUME base \in Nat, base >= 2, NEW x \in Nat, NEW k \in Nat
    PROVE  /\ LowDigits(x, k) \in Seq(Nat) /\ Len(LowDigits(x, k)) = k
           /\ \A j \in 1 .. k : /\ LowDigits(x, k)[j] = BaseDigit(base, x, j - 1)
                                /\ LowDigits(x, k)[j] \in Nat
<1> DEFINE t == LowDigits(x, k)
<1>1. t = [j \in 1 .. k |-> BaseDigit(base, x, j - 1)]
  BY DEF LowDigits, BaseDigit
<1>2. ASSUME NEW j \in 1 .. k PROVE BaseDigit(base, x, j - 1) \in Nat
  <2>1. j - 1 \in Nat
    OBVIOUS
  <2>2. BaseDigit(base, x, j - 1) \in 0 .. base - 1
    BY <2>1, PlaceFacts
  <2>3. QED
    BY <2>2
<1> HIDE DEF t
<1>3. t \in [1 .. k -> Nat]
  BY <1>1, <1>2
<1>4. t \in Seq(Nat) /\ Len(t) = k
  BY <1>3, IsSequence
<1>5. \A j \in 1 .. k : t[j] = BaseDigit(base, x, j - 1) /\ t[j] \in Nat
  BY <1>1, <1>3
<1>6. QED
  BY <1>4, <1>5, Zenon DEF t

LEMMA ReversedFacts ==
    ASSUME NEW S, NEW t \in Seq(S)
    PROVE  /\ Reversed(t) \in Seq(S) /\ Len(Reversed(t)) = Len(t)
           /\ \A j \in 1 .. Len(t) : Reversed(t)[j] = t[Len(t) + 1 - j]
<1> DEFINE n == Len(t)  u == Reversed(t)
<1>1. n \in Nat /\ t \in [1 .. n -> S]
  BY LenProperties
<1>2. u = [j \in 1 .. n |-> t[n + 1 - j]]
  BY DEF Reversed
<1> HIDE DEF n, u
<1>3. \A j \in 1 .. n : n + 1 - j \in 1 .. n
  BY <1>1
<1>4. u \in [1 .. n -> S]
  BY <1>1, <1>2, <1>3
<1>5. u \in Seq(S) /\ Len(u) = n
  BY <1>1, <1>4, IsSequence
<1>6. \A j \in 1 .. n : u[j] = t[n + 1 - j]
  BY <1>2
<1>7. QED
  BY <1>5, <1>6, Zenon DEF n, u

(* The low digits of x spell the rest of x.                                  *)
LEMMA ValueOfLow ==
    ASSUME base \in Nat, base >= 2, NEW x \in Nat, NEW k \in Nat
    PROVE  ValueOf(Reversed(LowDigits(x, k))) = x % Exp(base, k)
<1> DEFINE t == Reversed(LowDigits(x, k))  z == x % Exp(base, k)
           T == {i \in 0 .. k : Fold(base, t, i) = z \div Exp(base, k - i)}
<1>1. Len(t) = k /\ \A j \in 1 .. k : t[j] = BaseDigit(base, x, k - j) /\ t[j] \in Nat
  <2> DEFINE s == LowDigits(x, k)
  <2>1. s \in Seq(Nat) /\ Len(s) = k /\ \A j \in 1 .. k : s[j] = BaseDigit(base, x, j - 1) /\ s[j] \in Nat
    BY LowDigitsFacts
  <2> HIDE DEF s
  <2>2. Len(Reversed(s)) = k /\ \A j \in 1 .. k : Reversed(s)[j] = s[k + 1 - j]
    BY <2>1, ReversedFacts
  <2>3. \A j \in 1 .. k : k + 1 - j \in 1 .. k /\ (k + 1 - j) - 1 = k - j
    OBVIOUS
  <2>4. QED
    BY <2>1, <2>2, <2>3 DEF s
<1>2. z \in Nat /\ z < Exp(base, k)
  <2> DEFINE m == Exp(base, k)
  <2>1. m \in Nat /\ m > 0
    <3>1. m \in Nat /\ m >= 1
      BY ExpPositive
    <3> HIDE DEF m
    <3>2. QED
      BY <3>1
  <2> HIDE DEF m
  <2>2. x % m \in Nat /\ x % m < m
    BY <2>1
  <2>3. QED
    BY <2>2 DEF m
<1>3. \A j \in 1 .. k : BaseDigit(base, z, k - j) = BaseDigit(base, x, k - j)
  <2> SUFFICES ASSUME NEW j \in 1 .. k PROVE BaseDigit(base, z, k - j) = BaseDigit(base, x, k - j)
    OBVIOUS
  <2>1. k - j \in Nat /\ k - j < k
    OBVIOUS
  <2>2. QED
    BY <2>1, PlaceLow
<1> HIDE DEF t, z
<1>4. 0 \in T
  <2>1. 0 \in 0 .. k /\ k - 0 = k /\ base \in Int
    OBVIOUS
  <2>2. z \div Exp(base, k) = 0
    BY <1>2, PlaceFacts
  <2>3. Fold(base, t, 0) = 0
    BY <2>1, FoldNone
  <2>4. QED
    BY <2>1, <2>2, <2>3
<1>5. ASSUME NEW i \in 0 .. k - 1, i \in T PROVE i + 1 \in T
  <2> DEFINE j == k - (i + 1)
  <2>1. j \in Nat /\ j + 1 = k - i /\ i \in Nat /\ i + 1 \in 0 .. k /\ i + 1 \in 1 .. k /\ base \in Int
    OBVIOUS
  <2>2. Fold(base, t, i + 1) = Fold(base, t, i) * base + t[i + 1]
    <3>1. \A m \in 1 .. i + 1 : t[m] \in Int
      BY <1>1
    <3>2. QED
      BY <2>1, <3>1, FoldNext
  <2>3. t[i + 1] = BaseDigit(base, z, j)
    BY <1>1, <1>3, <2>1
  <2> HIDE DEF j
  <2>4. z \div Exp(base, j) = (z \div Exp(base, j + 1)) * base + BaseDigit(base, z, j)
    BY <1>2, <2>1, PlaceFacts
  <2>5. Fold(base, t, i) = z \div Exp(base, j + 1)
    BY <1>5, <2>1
  <2>6. Fold(base, t, i + 1) = z \div Exp(base, j)
    BY <2>2, <2>3, <2>4, <2>5, Zenon
  <2>7. QED
    BY <2>1, <2>6 DEF j
<1> HIDE DEF T
<1>6. k \in T
  <2>1. 0 .. k \subseteq T
    BY <1>4, <1>5, BoundedInduction
  <2>2. QED
    BY <2>1
<1>7. Fold(base, t, k) = z
  <2>1. Exp(base, 0) = 1 /\ k - k = 0
    <3>1. 0 \in Nat /\ base \in Int
      OBVIOUS
    <3>2. QED
      BY <3>1, ExpFacts
  <2>2. z \div 1 = z
    BY <1>2
  <2>3. QED
    BY <1>6, <2>1, <2>2 DEF T
<1>8. QED
  BY <1>1, <1>7, ValueIsFold, Zenon DEF t, z

LEMMA ValueOfConcat ==
    ASSUME base \in Nat, NEW s \in Seq(Nat), NEW t \in Seq(Nat)
    PROVE  /\ ValueOf(s \o t) = ValueOf(s) * Exp(base, Len(t)) + ValueOf(t)
           /\ s \o t \in Seq(Nat) /\ Len(s \o t) = Len(s) + Len(t)
<1> DEFINE a == s \o t  m == Len(s)  n == Len(t)
<1>1. m \in Nat /\ n \in Nat /\ (\A k \in 1 .. m : s[k] \in Nat) /\ \A k \in 1 .. n : t[k] \in Nat
  BY LenProperties, ElementOfSeq
<1>2. a \in Seq(Nat) /\ Len(a) = m + n
      /\ \A k \in 1 .. m + n : a[k] = IF k <= m THEN s[k] ELSE t[k - m]
  BY ConcatProperties
<1> HIDE DEF a, m, n
<1>3. \A k \in 1 .. m + n : a[k] \in Int
  <2> SUFFICES ASSUME NEW k \in 1 .. m + n PROVE a[k] \in Int
    OBVIOUS
  <2>1. CASE k <= m
    BY <2>1, <1>1, <1>2
  <2>2. CASE ~(k <= m)
    <3>1. k - m \in 1 .. n
      BY <2>2, <1>1
    <3>2. QED
      BY <2>2, <3>1, <1>1, <1>2
  <2>3. QED
    BY <2>1, <2>2
<1>4. \A k \in 1 .. n : t[k] = a[m + k]
  <2> SUFFICES ASSUME NEW k \in 1 .. n PROVE t[k] = a[m + k]
    OBVIOUS
  <2>1. m + k \in 1 .. m + n /\ ~(m + k <= m) /\ (m + k) - m = k
    BY <1>1
  <2>2. QED
    BY <2>1, <1>2
<1>5. IntsTo(a, m + n) /\ PartOf(t, n, a, m) /\ base \in Int
  BY <1>3, <1>4 DEF IntsTo, PartOf
<1>6. Fold(base, a, m + n) = Fold(base, a, m) * Exp(base, n) + Fold(base, t, n)
  BY <1>1, <1>5, FoldConcat
<1>7. Fold(base, a, m) = Fold(base, s, m)
  <2>1. \A k \in 1 .. m : s[k] \in Int /\ a[k] = s[k]
    BY <1>1, <1>2
  <2>2. QED
    BY <2>1, <1>1, <1>5, FoldSame
<1>8. QED
  BY <1>2, <1>6, <1>7, ValueIsFold, Zenon DEF a, m, n

(* The power of a base that fills a word, and the one that leaves room.      *)
LEMMA BasePowerFacts ==
    ASSUME NEW b \in 2 .. 64
    PROVE  /\ base_power[b] \in 1 .. W /\ Special(b) \in BOOLEAN
           /\ Special(b) => Exp(b, base_power[b]) = B
           /\ ~Special(b) => division_base[b] = Exp(b, base_power[b])
           /\ Exp(b, base_power[b]) \in Nat /\ Exp(b, base_power[b]) >= 2
<1> DEFINE T == {k \in 1 .. W : Exp(b, k) <= B}
           k == base_power[b]
<1>1. W \in Nat /\ W >= 6 /\ B \in Nat /\ B >= 2 /\ B = Exp(2, W) /\ b \in Nat /\ b >= 2 /\ b <= 64
  <2>1. W >= 6
    BY StringsAssumption, Zenon
  <2>2. QED
    BY <2>1, MaxBitsFacts
<1>2. B >= 64
  <2>1. Exp(2, 6) = 64
    <3>1. 2 \in Int /\ 2 \in Nat /\ 4 \in Nat /\ 2 + 2 = 4 /\ 4 + 2 = 6
      OBVIOUS
    <3>2. Exp(2, 2) = 2 * 2
      BY <3>1, ExpOne
    <3>3. Exp(2, 2 + 2) = Exp(2, 2) * Exp(2, 2) /\ Exp(2, 4 + 2) = Exp(2, 4) * Exp(2, 2)
      BY <3>1, ExpSum
    <3>4. QED
      BY <3>1, <3>2, <3>3
  <2>2. Exp(2, 6) <= Exp(2, W)
    <3>1. 2 \in Nat /\ 6 \in Nat /\ 2 >= 1 /\ 6 <= W
      BY <1>1
    <3>2. QED
      BY <3>1, <1>1, ExpGrows
  <2>3. QED
    BY <2>1, <2>2, <1>1
<1>3. 1 \in T
  <2>1. Exp(b, 1) = b
    BY <1>1, ExpOne
  <2>2. QED
    BY <2>1, <1>1, <1>2
<1>4. T \subseteq 0 .. W
  OBVIOUS
<1>5. PICK i \in T : \A j \in T : j <= i
  <2> HIDE DEF T
  <2>1. QED
    BY <1>1, <1>3, <1>4, Greatest
<1>6. i \in 1 .. W /\ Exp(b, i) <= B /\ Exp(b, i + 1) \in Nat /\ i + 1 \in Nat
  <2>1. i \in 1 .. W /\ Exp(b, i) <= B /\ i + 1 \in Nat /\ b >= 1
    BY <1>1
  <2>2. QED
    BY <2>1, <1>1, ExpPositive
<1>7. Exp(b, i + 1) > B
  <2>1. CASE i + 1 \in 1 .. W
    <3>1. i + 1 \notin T
      BY <1>5, <1>6
    <3>2. ~(Exp(b, i + 1) <= B)
      BY <3>1, <2>1
    <3>3. QED
      BY <3>2, <1>1, <1>6
  <2>2. CASE i + 1 \notin 1 .. W
    <3>1. i + 1 = W + 1
      BY <2>2, <1>1, <1>6
    <3>2. Exp(2, W + 1) = 2 * B /\ Exp(2, W + 1) <= Exp(b, W + 1)
      <4>1. 2 \in Int /\ 2 \in Nat /\ W + 1 \in Nat /\ 1 <= 2 /\ 2 <= b
        BY <1>1
      <4>2. QED
        BY <4>1, <1>1, ExpFacts, ExpBase
    <3>3. QED
      BY <3>1, <3>2, <1>1, <1>6
  <2>3. QED
    BY <2>1, <2>2
<1>8. k \in 1 .. W /\ Exp(b, k) <= B
  <2>1. \E j \in 1 .. W : Exp(b, j) <= B /\ Exp(b, j + 1) > B
    BY <1>6, <1>7
  <2>2. k = CHOOSE j \in 1 .. W : Exp(b, j) <= B /\ Exp(b, j + 1) > B
    BY DEF base_power
  <2> HIDE DEF k
  <2>3. QED
    BY <2>1, <2>2, Zenon
<1> DEFINE e == Exp(b, k)
<1>9. e \in Nat /\ e >= 2
  <2>1. b >= 1 /\ 1 \in Nat /\ k \in Nat /\ 1 <= k /\ Exp(b, 1) = b
    <3> HIDE DEF k
    <3>1. QED
      BY <1>1, <1>8, ExpOne
  <2>2. Exp(b, 1) <= e /\ e \in Nat
    <3> HIDE DEF k
    <3>1. QED
      BY <2>1, <1>1, ExpGrows, ExpPositive
  <2> HIDE DEF e
  <2>3. QED
    BY <2>1, <2>2, <1>1
<1>10. division_base[b] = e % B
  BY Zenon DEF division_base
<1> HIDE DEF e
<1>11. e % B = 0 \/ e < B
  BY <1>1, <1>8, <1>9 DEF e
<1>12. e % B = 0 => e = B
  <2> SUFFICES ASSUME e % B = 0 PROVE e = B
    OBVIOUS
  <2>1. CASE e < B
    <3>1. e % B = e
      BY <2>1, <1>1, <1>9, ModSmall
    <3>2. QED
      BY <3>1, <1>9
  <2>2. CASE ~(e < B)
    <3>1. e <= B
      BY <1>8 DEF e
    <3>2. QED
      BY <3>1, <2>2, <1>1, <1>9
  <2>3. QED
    BY <2>1, <2>2
<1>13. e % B # 0 => e % B = e
  BY <1>1, <1>9, <1>11, ModSmall
<1>14. Special(b) <=> e % B = 0
  BY <1>10, Zenon DEF Special
<1>15. Special(b) \in BOOLEAN
  BY DEF Special
<1>16. QED
  BY <1>8, <1>9, <1>10, <1>12, <1>13, <1>14, <1>15, Zenon DEF e

(* The number of windows of p digits.                                        *)
LEMMA WindowCount ==
    ASSUME NEW l \in Nat, NEW m \in Nat, m > 0, l > 0,
           NEW n, n = (l \div m) + (IF l % m > 0 THEN 1 ELSE 0)
    PROVE  n \in Nat /\ n >= 1 /\ n = (l + m - 1) \div m /\ (n - 1) * m < l /\ l <= n * m
<1> DEFINE u == l \div m  o == l % m  a == u * m
<1>1. u \in Nat /\ o \in Nat /\ o < m /\ l = a + o /\ a \in Int
  <2>1. u \in Int /\ o \in 0 .. m - 1 /\ l = u * m + o /\ u >= 0
    BY QuotientRemainder
  <2> HIDE DEF u, o
  <2>2. QED
    BY <2>1
<1>2. n = u + (IF o > 0 THEN 1 ELSE 0)
  BY Zenon
<1> HIDE DEF u, o
<1>3. (u + 1) * m = a + m /\ (u - 1) * m = a - m /\ ((u + 1) + 1) * m = a + m + m
  BY <1>1
<1> HIDE DEF a
<1>4. CASE o > 0
  <2>1. n = u + 1 /\ n - 1 = u
    BY <1>1, <1>2, <1>4
  <2>2. (u + 1) * m <= l + m - 1 /\ l + m - 1 < ((u + 1) + 1) * m /\ u + 1 \in Int /\ l + m - 1 \in Int
    BY <1>1, <1>3, <1>4
  <2>3. (l + m - 1) \div m = u + 1
    BY <2>2, QuotientUnique
  <2>4. u * m < l /\ l <= (u + 1) * m
    BY <1>1, <1>3, <1>4 DEF a
  <2>5. QED
    BY <2>1, <2>3, <2>4, <1>1
<1>5. CASE ~(o > 0)
  <2>1. n = u /\ o = 0
    BY <1>1, <1>2, <1>5
  <2>2. u * m <= l + m - 1 /\ l + m - 1 < (u + 1) * m /\ u \in Int /\ l + m - 1 \in Int
    BY <2>1, <1>1, <1>3 DEF a
  <2>3. (l + m - 1) \div m = u
    BY <2>2, QuotientUnique
  <2>4. (u - 1) * m < l /\ l <= u * m
    BY <2>1, <1>1, <1>3 DEF a
  <2>5. u # 0
    <3>1. 0 * m = 0
      OBVIOUS
    <3>2. QED
      BY <3>1, <2>4
  <2>6. QED
    BY <2>1, <2>3, <2>4, <2>5, <1>1
<1>6. QED
  BY <1>4, <1>5

(* A text whose value fits the largest number.                               *)
ReadArgs == base \in Nat /\ arg.digits \in Seq(Nat) /\ Exp(base, Length) <= Pow[MaxSize]

(* The digits of the text after the first m.                                 *)
After(m) == [k \in 1 .. Length - m |-> arg.digits[m + k]]

(* The chunks up to place i have been read, from the left; the k lowest      *)
(* words, from the right.                                                    *)
ReadUpTo(i) == IF i < Length THEN i ELSE Length
LeftBefore(k) == IF p * k < Length THEN Length - p * k ELSE 0

ChunksRead(i, v) ==
    /\ i \in Nat /\ v = Fold(base, arg.digits, ReadUpTo(i))
    /\ \A j \in 1 .. ReadUpTo(i) : arg.digits[j] # NoDigit

WindowsRead(k, v, n) ==
    /\ n = IF Length = 0 THEN 1 ELSE (Length \div p) + (IF Length % p > 0 THEN 1 ELSE 0)
    /\ k \in 0 .. n /\ (Length = 0 => k = 0 /\ arg.sign # "")
    /\ v = Fold(base, After(LeftBefore(k)), Length - LeftBefore(k))
    /\ \A j \in LeftBefore(k) + 1 .. Length : arg.digits[j] # NoDigit

(* from_string returns the value of the digits, its sign and its words.      *)
ReadReturned ==
    /\ Readable(arg.digits) \/ arg.digits = <<>>
    /\ result.val = ValueOf(arg.digits)
    /\ result.neg <=> Negative
    /\ result.size = IF Legal(base) /\ Special(base) /\ Length > 0 THEN (Length + p - 1) \div p
                     ELSE Size(result.val)

(* from_string refuses a base, a character, or in some bases a lone sign.    *)
ReadThrew ==
    \/ ~Legal(base)
    \/ \E k \in 1 .. Length : arg.digits[k] = NoDigit
    \/ Special(base) /\ Length = 0 /\ arg.sign # ""

(* What holds at each place of from_string.                                  *)
ReadInv ==
    fn = "from_string" =>
        /\ ReadArgs
        /\ pc = "chunks" => Legal(base) /\ ~Special(base) /\ ChunksRead(loc.i, loc.val)
        /\ pc = "windows" => /\ Legal(base) /\ Special(base) /\ WindowsRead(loc.k, loc.val, loc.size)
                             /\ loc = [k |-> loc.k, val |-> loc.val, size |-> loc.size]
        /\ pc = "returned" => ReadReturned
        /\ pc = "threw" => ReadThrew

LEMMA TextFacts ==
    ASSUME ReadArgs
    PROVE  /\ base \in Nat /\ Length \in Nat /\ arg.digits \in Seq(Nat)
           /\ \A k \in 1 .. Length : arg.digits[k] \in Nat
           /\ Length = 0 => arg.digits = <<>>
           /\ arg.digits = <<>> => Length = 0
<1> DEFINE t == arg.digits  n == Len(t)
<1>1. t \in Seq(Nat) /\ base \in Nat
  BY Zenon DEF ReadArgs
<1> HIDE DEF t
<1>2. n \in Nat /\ \A k \in 1 .. n : t[k] \in Nat
  BY <1>1, LenProperties, ElementOfSeq
<1>3. (n = 0 => t = <<>>) /\ (t = <<>> => n = 0)
  BY <1>1, EmptySeq
<1>4. QED
  BY <1>1, <1>2, <1>3, Zenon DEF t, Length

(* A part of the text.                                                       *)
LEMMA PartFacts ==
    ASSUME ReadArgs, NEW m \in Nat, NEW n \in Nat, n >= 1, m + n <= Length,
           NEW t, t = SubSeq(arg.digits, m + 1, m + n)
    PROVE  /\ Len(t) = n /\ (\A k \in 1 .. n : t[k] = arg.digits[m + k] /\ t[k] \in Nat)
           /\ ValueOf(t) = Fold(base, t, n)
           /\ Readable(t) <=> \A k \in m + 1 .. m + n : arg.digits[k] # NoDigit
<1> DEFINE s == arg.digits  l == Length
<1>1. l \in Nat /\ \A k \in 1 .. l : s[k] \in Nat
  BY TextFacts
<1> HIDE DEF s, l
<1>2. m + 1 \in Int /\ m + n \in Int /\ m + 1 <= m + n /\ (m + n) - (m + 1) + 1 = n
  OBVIOUS
<1>3. \A k \in m + 1 .. m + n : s[k] \in Nat
  BY <1>1 DEF l
<1>4. t = SubSeq(s, m + 1, m + n)
  BY DEF s
<1>5. t \in Seq(Nat) /\ Len(t) = n /\ \A k \in 1 .. n : t[k] = s[(m + 1) + k - 1]
  BY <1>2, <1>3, <1>4, SubSeqProperties
<1>6. \A k \in 1 .. n : t[k] = s[m + k] /\ t[k] \in Nat
  <2> SUFFICES ASSUME NEW k \in 1 .. n PROVE t[k] = s[m + k] /\ t[k] \in Nat
    OBVIOUS
  <2>1. (m + 1) + k - 1 = m + k /\ m + k \in m + 1 .. m + n
    OBVIOUS
  <2>2. QED
    BY <2>1, <1>3, <1>5
<1>7. t # <<>>
  <2>1. Len(t) # Len(<<>>)
    <3>1. Len(t) = n /\ Len(<<>>) = 0 /\ n # 0
      <4>1. Len(<<>>) = 0
        BY EmptySeq
      <4>2. n # 0
        OBVIOUS
      <4>3. QED
        BY <4>1, <4>2, <1>5, Zenon
    <3>2. QED
      BY <3>1, Zenon
  <2>2. QED
    BY <2>1, Zenon
<1>8. Readable(t) <=> \A k \in 1 .. n : t[k] # NoDigit
  BY <1>5, <1>7, Zenon DEF Readable
<1>9. (\A k \in 1 .. n : t[k] # NoDigit) <=> \A k \in m + 1 .. m + n : s[k] # NoDigit
  <2>1. ASSUME \A k \in 1 .. n : t[k] # NoDigit, NEW k \in m + 1 .. m + n PROVE s[k] # NoDigit
    <3>1. k - m \in 1 .. n /\ m + (k - m) = k
      OBVIOUS
    <3>2. QED
      BY <3>1, <2>1, <1>6
  <2>2. ASSUME \A k \in m + 1 .. m + n : s[k] # NoDigit, NEW k \in 1 .. n PROVE t[k] # NoDigit
    <3>1. m + k \in m + 1 .. m + n
      OBVIOUS
    <3>2. QED
      BY <3>1, <2>2, <1>6
  <2>3. QED
    BY <2>1, <2>2
<1>10. QED
  BY <1>5, <1>6, <1>8, <1>9, ValueIsFold, Zenon DEF s

(* One chunk.                                                                *)
LEMMA ChunkRead ==
    ASSUME ReadArgs, base \in 2 .. 64, NEW i, NEW v, ChunksRead(i, v), i < Length,
           NEW end, end = IF i + p < Length THEN i + p ELSE Length,
           NEW t, t = SubSeq(arg.digits, i + 1, end)
    PROVE  /\ Len(t) \in Nat
           /\ Readable(t) => ChunksRead(i + p, v * Exp(base, Len(t)) + ValueOf(t))
           /\ ~Readable(t) => \E k \in 1 .. Length : arg.digits[k] = NoDigit
<1> DEFINE l == Length  n == end - i  s == arg.digits  w == p
<1>1. l \in Nat /\ base \in Nat /\ \A k \in 1 .. l : s[k] \in Nat
  BY TextFacts
<1>2. w \in Nat /\ w >= 1
  <2>1. base_power[base] \in 1 .. W /\ W \in Nat
    BY BasePowerFacts, MaxBitsFacts
  <2>2. QED
    BY <2>1 DEF p
<1>3. i \in Nat /\ i < l /\ ReadUpTo(i) = i
  BY DEF ChunksRead, ReadUpTo
<1>4. v = Fold(base, s, i) /\ \A j \in 1 .. i : s[j] # NoDigit
  BY <1>3, Zenon DEF ChunksRead
<1>5. end = IF i + w < l THEN i + w ELSE l
  BY Zenon
<1>6. ReadUpTo(i + w) = end
  BY <1>5, Zenon DEF ReadUpTo
<1> HIDE DEF l, w
<1>7. n \in Nat /\ n >= 1 /\ i + n = end /\ i + n <= l /\ i + w \in Nat
  BY <1>1, <1>2, <1>3, <1>5
<1> HIDE DEF n
<1>8. t = SubSeq(s, i + 1, i + n)
  BY <1>7, Zenon
<1>9. /\ Len(t) = n /\ (\A k \in 1 .. n : t[k] = s[i + k] /\ t[k] \in Nat)
      /\ ValueOf(t) = Fold(base, t, n)
      /\ Readable(t) <=> \A k \in i + 1 .. i + n : s[k] # NoDigit
  BY <1>3, <1>7, <1>8, PartFacts DEF l, s
<1> HIDE DEF s
<1>10. Fold(base, s, i + n) = Fold(base, s, i) * Exp(base, n) + Fold(base, t, n)
  <2>1. IntsTo(s, i + n) /\ PartOf(t, n, s, i) /\ base \in Int
    BY <1>1, <1>3, <1>7, <1>9 DEF IntsTo, PartOf
  <2>2. QED
    BY <2>1, <1>3, <1>7, FoldConcat
<1>11. ASSUME Readable(t) PROVE ChunksRead(i + w, v * Exp(base, Len(t)) + ValueOf(t))
  <2>1. v * Exp(base, Len(t)) + ValueOf(t) = Fold(base, s, end)
    BY <1>4, <1>7, <1>9, <1>10, Zenon
  <2>2. \A j \in 1 .. end : s[j] # NoDigit
    <3> SUFFICES ASSUME NEW j \in 1 .. end PROVE s[j] # NoDigit
      OBVIOUS
    <3>1. j \in 1 .. i \/ j \in i + 1 .. i + n
      BY <1>3, <1>7
    <3>2. QED
      BY <3>1, <1>4, <1>9, <1>11, Zenon
  <2>3. QED
    BY <2>1, <2>2, <1>6, <1>7, Zenon DEF ChunksRead, s
<1>12. ASSUME ~Readable(t) PROVE \E k \in 1 .. l : s[k] = NoDigit
  <2>1. PICK k \in i + 1 .. i + n : s[k] = NoDigit
    BY <1>9, <1>12, Zenon
  <2>2. k \in 1 .. l
    BY <1>1, <1>3, <1>7
  <2>3. QED
    BY <2>1, <2>2
<1>13. QED
  BY <1>7, <1>9, <1>11, <1>12, Zenon DEF l, s, w

(* The digits from the left are those of a window and of the windows read.   *)
LEMMA WindowDigits ==
    ASSUME ReadArgs, NEW m \in Nat, NEW width \in Nat, NEW c \in Nat, m + width + c = Length
    PROVE  /\ Fold(base, After(m), width + c)
                  = Fold(base, After(m), width) * Exp(base, c) + Fold(base, After(m + width), c)
           /\ Fold(base, After(m), width) \in Int /\ Fold(base, After(m + width), c) \in Int
           /\ Exp(base, c) \in Int
           /\ \A j \in 1 .. width : After(m)[j] = arg.digits[m + j]
<1> DEFINE s == arg.digits  l == Length  f == After(m)  g == After(m + width)
<1>1. l \in Nat /\ base \in Nat /\ \A k \in 1 .. l : s[k] \in Nat
  BY TextFacts
<1>2. f = [k \in 1 .. l - m |-> s[m + k]] /\ g = [k \in 1 .. l - (m + width) |-> s[(m + width) + k]]
  BY Zenon DEF After
<1>3. m + width + c = l
  OBVIOUS
<1> HIDE DEF s, l, f, g
<1>4. l - m = width + c /\ l - (m + width) = c
  BY <1>1, <1>3
<1>5. /\ \A k \in 1 .. width + c : f[k] = s[m + k]
      /\ \A k \in 1 .. c : g[k] = s[(m + width) + k]
  BY <1>2, <1>4
<1>6. \A k \in 1 .. width + c : f[k] \in Int
  <2> SUFFICES ASSUME NEW k \in 1 .. width + c PROVE f[k] \in Int
    OBVIOUS
  <2>1. m + k \in 1 .. l
    BY <1>1, <1>3
  <2>2. QED
    BY <2>1, <1>1, <1>5
<1>7. \A k \in 1 .. c : g[k] = f[width + k] /\ g[k] \in Int
  <2> SUFFICES ASSUME NEW k \in 1 .. c PROVE g[k] = f[width + k] /\ g[k] \in Int
    OBVIOUS
  <2>1. width + k \in 1 .. width + c /\ m + (width + k) = (m + width) + k
    OBVIOUS
  <2>2. QED
    BY <2>1, <1>5, <1>6
<1>8. IntsTo(f, width + c) /\ PartOf(g, c, f, width) /\ base \in Int
  BY <1>1, <1>6, <1>7 DEF IntsTo, PartOf
<1>9. Fold(base, f, width + c) = Fold(base, f, width) * Exp(base, c) + Fold(base, g, c)
  BY <1>8, FoldConcat
<1>10. Fold(base, f, width) \in Int /\ Fold(base, g, c) \in Int
  <2>1. \A k \in 1 .. width : f[k] \in Int
    BY <1>6
  <2>2. \A k \in 1 .. c : g[k] \in Int
    BY <1>7
  <2>3. QED
    BY <2>1, <2>2, <1>8, FoldInt
<1>11. Exp(base, c) \in Int
  BY <1>8, ExpFacts
<1>12. \A j \in 1 .. width : f[j] = s[m + j]
  BY <1>5
<1>13. QED
  BY <1>9, <1>10, <1>11, <1>12, Zenon DEF f, g, s

(* The weight of a window of a special base.                                 *)
LEMMA WindowWeight ==
    ASSUME ReadArgs, base \in 2 .. 64, Special(base), NEW k \in Nat, p * k <= Length
    PROVE  Exp(base, p * k) = Pow[k]
<1> DEFINE w == p  c == w * k  l == Length
<1>1. w \in Nat /\ w >= 1 /\ Exp(base, w) = B
  <2>1. base_power[base] \in 1 .. W /\ W \in Nat /\ Exp(base, base_power[base]) = B
    BY BasePowerFacts, MaxBitsFacts
  <2>2. QED
    BY <2>1 DEF p
<1>2. base \in Nat /\ base \in Int /\ base >= 1 /\ l \in Nat
  BY TextFacts
<1> HIDE DEF w
<1>3. c \in Nat /\ c <= l
  BY <1>1, ProductNat DEF w
<1>4. Exp(base, c) = Exp(B, k)
  BY <1>1, <1>2, ExpProduct
<1> HIDE DEF c, l
<1>5. Exp(base, c) <= Exp(base, l) /\ Exp(base, c) \in Nat /\ Exp(base, l) \in Nat
  BY <1>2, <1>3, ExpGrows, ExpPositive
<1>6. Exp(base, l) <= Pow[MaxSize] /\ Pow[MaxSize] \in Nat
  BY MaxBitsFacts, Zenon DEF ReadArgs, l
<1>7. MaxSize \in Nat /\ MaxSize \in 0 .. MaxSize /\ B \in Nat /\ B >= 2
  BY MaxBitsFacts
<1>8. Pow[MaxSize] = Exp(B, MaxSize)
  BY <1>7, PowExp
<1>9. ~(MaxSize < k)
  <2> SUFFICES ASSUME MaxSize < k PROVE FALSE
    OBVIOUS
  <2>1. Exp(B, MaxSize) < Exp(B, k)
    BY <1>7, ExpStrict
  <2>2. QED
    BY <2>1, <1>4, <1>5, <1>6, <1>8
<1>10. k \in 0 .. MaxSize
  BY <1>7, <1>9
<1>11. Pow[k] = Exp(B, k)
  BY <1>10, PowExp
<1>12. QED
  BY <1>4, <1>11, Zenon DEF c, w

(* The next window t, of the given width and ending at the place end.        *)
NextWindow(k, n, end, width, t) ==
    /\ k < n /\ end = Length - p * k
    /\ width = IF end < p THEN end ELSE p
    /\ t = SubSeq(arg.digits, end - width + 1, end)

LEMMA WindowRead ==
    ASSUME ReadArgs, base \in 2 .. 64, Special(base), Length # 0,
           NEW k, NEW v, NEW n, WindowsRead(k, v, n), NEW end, NEW width, NEW t, NextWindow(k, n, end, width, t)
    PROVE  /\ Readable(t) => WindowsRead(k + 1, v + ValueOf(t) * Pow[k], n)
           /\ ~Readable(t) => \E j \in 1 .. Length : arg.digits[j] = NoDigit
<1> DEFINE l == Length  s == arg.digits  w == p  c == w * k  m == end - width
<1>1. l \in Nat /\ base \in Nat /\ base \in Int /\ (\A j \in 1 .. l : s[j] \in Nat) /\ l > 0
  <2>1. l \in Nat /\ base \in Nat /\ \A j \in 1 .. l : s[j] \in Nat
    BY TextFacts
  <2>2. l # 0
    BY Zenon
  <2> HIDE DEF l, s
  <2>3. QED
    BY <2>1, <2>2
<1>2. w \in Nat /\ w > 0
  <2>1. base_power[base] \in 1 .. W /\ W \in Nat
    BY BasePowerFacts, MaxBitsFacts
  <2>2. QED
    BY <2>1 DEF p
<1>3. /\ n = (l \div w) + (IF l % w > 0 THEN 1 ELSE 0)
      /\ k \in 0 .. n
      /\ v = Fold(base, After(LeftBefore(k)), l - LeftBefore(k))
      /\ \A j \in LeftBefore(k) + 1 .. l : s[j] # NoDigit
  BY Zenon DEF WindowsRead
<1>4. LeftBefore(k) = (IF c < l THEN l - c ELSE 0) /\ end = l - c /\ k < n
  BY Zenon DEF LeftBefore, NextWindow
<1>5. LeftBefore(k + 1) = (IF w * (k + 1) < l THEN l - w * (k + 1) ELSE 0)
  BY Zenon DEF LeftBefore
<1>6. width = (IF end < w THEN end ELSE w) /\ t = SubSeq(s, m + 1, end)
  BY Zenon DEF NextWindow
<1> HIDE DEF l, s, w
<1>7. n \in Nat /\ (n - 1) * w < l
  BY <1>1, <1>2, <1>3, WindowCount
<1>8. k \in Nat /\ k <= n - 1 /\ k + 1 \in 0 .. n
  <2>1. k \in 0 .. n /\ k < n
    BY <1>3, <1>4, Zenon
  <2>2. QED
    BY <2>1, <1>7
<1>9. c \in Nat /\ c < l /\ w * (k + 1) = c + w
  <2>1. k * w <= (n - 1) * w /\ w * k = k * w /\ w * (k + 1) = w * k + w /\ w * k \in Nat
    BY <1>2, <1>7, <1>8, MulMonotone, ProductNat
  <2> DEFINE a == (n - 1) * w
  <2>2. a \in Int /\ a < l /\ c <= a /\ c \in Nat /\ w * (k + 1) = c + w
    BY <2>1, <1>2, <1>7
  <2> HIDE DEF a, c
  <2>3. QED
    BY <2>2, <1>1
<1> HIDE DEF c
<1>10. end \in Nat /\ end >= 1 /\ end + c = l /\ LeftBefore(k) = end
  BY <1>1, <1>4, <1>9
<1>11. width \in Nat /\ width >= 1 /\ width <= end /\ (width = end \/ width = w) /\ width <= w
  BY <1>2, <1>6, <1>10
<1>12. m \in Nat /\ m + width = end /\ m + width <= l /\ m + width + c = l
  BY <1>1, <1>9, <1>10, <1>11
<1>13. LeftBefore(k + 1) = m
  <2>1. CASE c + w < l
    <3>1. w < end /\ ~(end < w)
      BY <2>1, <1>1, <1>2, <1>9, <1>10
    <3>2. width = w /\ m = l - (c + w)
      BY <3>1, <1>1, <1>2, <1>6, <1>9, <1>10
    <3>3. QED
      BY <3>2, <2>1, <1>5, <1>9
  <2>2. CASE ~(c + w < l)
    <3>1. m = 0
      BY <2>2, <1>1, <1>2, <1>6, <1>9, <1>10
    <3>2. QED
      BY <3>1, <2>2, <1>5, <1>9
  <2>3. QED
    BY <2>1, <2>2
<1> HIDE DEF m
<1>14. t = SubSeq(s, m + 1, m + width)
  BY <1>6, <1>12, Zenon
<1>15. /\ Len(t) = width /\ (\A j \in 1 .. width : t[j] = s[m + j] /\ t[j] \in Nat)
       /\ ValueOf(t) = Fold(base, t, width)
       /\ Readable(t) <=> \A j \in m + 1 .. m + width : s[j] # NoDigit
  BY <1>11, <1>12, <1>14, PartFacts DEF l, s
<1>16. /\ Fold(base, After(m), width + c)
              = Fold(base, After(m), width) * Exp(base, c) + Fold(base, After(end), c)
       /\ Fold(base, After(m), width) \in Int /\ Fold(base, After(end), c) \in Int
       /\ Exp(base, c) \in Int
       /\ \A j \in 1 .. width : After(m)[j] = s[m + j]
  <2>1. m + width + c = Length
    BY <1>12 DEF l
  <2>2. /\ Fold(base, After(m), width + c)
              = Fold(base, After(m), width) * Exp(base, c) + Fold(base, After(m + width), c)
        /\ Fold(base, After(m), width) \in Int /\ Fold(base, After(m + width), c) \in Int
        /\ Exp(base, c) \in Int
        /\ \A j \in 1 .. width : After(m)[j] = arg.digits[m + j]
    BY <2>1, <1>9, <1>11, <1>12, WindowDigits
  <2>3. QED
    BY <2>2, <1>12, Zenon DEF s
<1>17. Exp(base, c) = Pow[k]
  <2>1. p * k <= Length
    BY <1>1, <1>9 DEF c, w, l
  <2>2. QED
    BY <2>1, <1>8, WindowWeight DEF c, w
<1>18. Fold(base, After(m), width) = ValueOf(t)
  <2>1. \A j \in 1 .. width : t[j] \in Int /\ After(m)[j] = t[j]
    <3> SUFFICES ASSUME NEW j \in 1 .. width PROVE t[j] \in Int /\ After(m)[j] = t[j]
      OBVIOUS
    <3>1. t[j] \in Nat /\ After(m)[j] = t[j]
      BY <1>15, <1>16, Zenon
    <3>2. QED
      BY <3>1
  <2>2. Fold(base, After(m), width) = Fold(base, t, width)
    BY <2>1, <1>1, <1>11, FoldSame
  <2>3. QED
    BY <2>2, <1>15, Zenon
<1>19. l - end = c /\ l - m = width + c
  BY <1>1, <1>9, <1>10, <1>11, <1>12
<1>20. Fold(base, After(end), c) = v
  BY <1>3, <1>10, <1>19, Zenon
<1>21. Fold(base, After(m), width + c) = v + ValueOf(t) * Pow[k]
  <2> DEFINE x == ValueOf(t)  e == Pow[k]  z == Fold(base, After(m), width + c)
  <2>1. x \in Int /\ e \in Int /\ v \in Int /\ z = x * e + v
    BY <1>16, <1>17, <1>18, <1>20, Zenon
  <2> HIDE DEF x, e, z
  <2>2. z = v + x * e
    BY <2>1
  <2>3. QED
    BY <2>2, Zenon DEF x, e, z
<1>22. ASSUME Readable(t) PROVE WindowsRead(k + 1, v + ValueOf(t) * Pow[k], n)
  <2>1. \A j \in m + 1 .. l : s[j] # NoDigit
    <3> SUFFICES ASSUME NEW j \in m + 1 .. l PROVE s[j] # NoDigit
      OBVIOUS
    <3>1. j \in m + 1 .. m + width \/ j \in end + 1 .. l
      BY <1>1, <1>10, <1>11, <1>12
    <3>2. QED
      BY <3>1, <1>3, <1>10, <1>15, <1>22, Zenon
  <2>2. Length # 0
    BY Zenon
  <2>3. v + ValueOf(t) * Pow[k] = Fold(base, After(LeftBefore(k + 1)), l - LeftBefore(k + 1))
    BY <1>13, <1>19, <1>21, Zenon
  <2>4. \A j \in LeftBefore(k + 1) + 1 .. l : s[j] # NoDigit
    BY <2>1, <1>13, Zenon
  <2>5. QED
    BY <2>2, <2>3, <2>4, <1>3, <1>8, Zenon DEF WindowsRead, l, s, w
<1>23. ASSUME ~Readable(t) PROVE \E j \in 1 .. l : s[j] = NoDigit
  <2>1. PICK j \in m + 1 .. m + width : s[j] = NoDigit
    BY <1>15, <1>23, Zenon
  <2>2. j \in 1 .. l
    BY <1>1, <1>11, <1>12
  <2>3. QED
    BY <2>1, <2>2
<1>24. QED
  BY <1>22, <1>23, Zenon DEF l, s

(* Without digits there is no window to read.                                *)
LEMMA NoWindow ==
    ASSUME ReadArgs, Length = 0, NEW m \in Int, NEW n \in Int, n < m, NEW t, t = SubSeq(arg.digits, m, n)
    PROVE  ~Readable(t)
<1>1. t = <<>>
  BY SubSeqEmpty
<1>2. QED
  BY <1>1, Zenon DEF Readable

(* All windows read, or all chunks.                                          *)
LEMMA AllRead ==
    ASSUME ReadArgs, base \in 2 .. 64, NEW k, NEW v, NEW n
    PROVE  /\ ChunksRead(k, v) /\ k >= Length =>
                  v = ValueOf(arg.digits) /\ (Readable(arg.digits) \/ arg.digits = <<>>)
           /\ WindowsRead(k, v, n) /\ k = n =>
                  /\ v = ValueOf(arg.digits) /\ Readable(arg.digits)
                  /\ Length > 0 /\ n = (Length + p - 1) \div p
<1> DEFINE l == Length  s == arg.digits  w == p
<1>1. l \in Nat /\ base \in Nat /\ base \in Int /\ (\A j \in 1 .. l : s[j] \in Nat)
  BY TextFacts
<1>1a. (l = 0 => s = <<>>) /\ (s = <<>> => l = 0)
  BY TextFacts, Zenon
<1>2. w \in Nat /\ w > 0
  <2>1. base_power[base] \in 1 .. W /\ W \in Nat
    BY BasePowerFacts, MaxBitsFacts
  <2>2. QED
    BY <2>1 DEF p
<1>3. ValueOf(s) = Fold(base, s, l)
  BY ValueIsFold, Zenon DEF Length
<1>4. (\A j \in 1 .. l : s[j] # NoDigit) => Readable(s) \/ s = <<>>
  BY Zenon DEF Readable, Length
<1>5. ASSUME ChunksRead(k, v), k >= l PROVE v = ValueOf(s) /\ (Readable(s) \/ s = <<>>)
  <2>1. k \in Nat
    BY <1>5 DEF ChunksRead
  <2>2. ~(k < l)
    BY <2>1, <1>1, <1>5
  <2>3. ReadUpTo(k) = l
    BY <2>2, Zenon DEF ReadUpTo
  <2>4. v = Fold(base, s, l) /\ \A j \in 1 .. l : s[j] # NoDigit
    BY <2>3, <1>5, Zenon DEF ChunksRead
  <2>5. QED
    BY <2>4, <1>3, <1>4, Zenon
<1>6. ASSUME WindowsRead(k, v, n), k = n
      PROVE  v = ValueOf(s) /\ Readable(s) /\ l > 0 /\ n = (l + w - 1) \div w
  <2>1. /\ n = IF l = 0 THEN 1 ELSE (l \div w) + (IF l % w > 0 THEN 1 ELSE 0)
        /\ l = 0 => k = 0
        /\ v = Fold(base, After(LeftBefore(k)), l - LeftBefore(k))
        /\ \A j \in LeftBefore(k) + 1 .. l : s[j] # NoDigit
        /\ LeftBefore(k) = (IF w * k < l THEN l - w * k ELSE 0)
    BY <1>6, Zenon DEF WindowsRead, LeftBefore
  <2>2. l # 0
    <3>1. l = 0 => n = 1 /\ k = 0
      BY <2>1, Zenon
    <3>2. QED
      BY <3>1, <1>6
  <2>2a. n = (l \div w) + (IF l % w > 0 THEN 1 ELSE 0)
    BY <2>1, <2>2, Zenon
  <2> HIDE DEF l, s, w
  <2>3. l > 0
    BY <2>2, <1>1
  <2>4. n \in Nat /\ n = (l + w - 1) \div w /\ l <= n * w
    BY <2>2a, <2>3, <1>1, <1>2, WindowCount
  <2>5. LeftBefore(k) = 0
    <3>1. w * k = n * w /\ n * w \in Int
      BY <2>4, <1>2, <1>6
    <3> DEFINE c == n * w
    <3>2. c \in Int /\ l <= c /\ w * k = c
      BY <3>1, <2>4
    <3> HIDE DEF c
    <3>3. ~(w * k < l)
      BY <3>2, <1>1
    <3>4. QED
      BY <3>3, <2>1, Zenon
  <2>6. l - 0 = l /\ 0 + 1 = 1 /\ 0 + l = l
    BY <1>1
  <2>7. v = Fold(base, After(0), l) /\ \A j \in 1 .. l : s[j] # NoDigit
    BY <2>1, <2>5, <2>6, Zenon
  <2>8. Fold(base, After(0), l) = Fold(base, s, l)
    <3>1. \A j \in 1 .. l : s[j] \in Int /\ After(0)[j] = s[j]
      <4>1. After(0) = [j \in 1 .. l |-> s[0 + j]]
        BY <2>6 DEF After, l, s
      <4>2. QED
        BY <4>1, <1>1
    <3>2. QED
      BY <3>1, <1>1, FoldSame
  <2>9. Readable(s)
    BY <2>2, <2>7, <1>1a, <1>4, Zenon
  <2>10. QED
    BY <2>3, <2>4, <2>7, <2>8, <2>9, <1>3, Zenon
<1>7. QED
  BY <1>5, <1>6, Zenon DEF l, s, w

LEMMA DigitsNat ==
    ASSUME NEW b \in Nat
    PROVE  (0 .. b - 1) \cup {NoDigit} \subseteq Nat
BY DEF NoDigit

LEMMA ReadStart == Init => ReadInv
<1>1. CASE ReadInit /\ StringsInit
  <2> DEFINE Tx(b) == Texts[b]  Bs == TextBases \cup {2, 8, 10, 16}  Dg(b) == (0 .. b - 1) \cup {NoDigit}
  <2>1. PICK b \in Bs : \E t \in Tx(b), s \in {"", "-", "+"} : arg = [base |-> b, sign |-> s, digits |-> t]
    <3>1. CASE \E b \in TextBases : \E s \in {"", "-", "+"}, t \in Texts[b] :
                   arg = [base |-> b, sign |-> s, digits |-> t]
      BY <3>1
    <3>2. CASE \E prefix \in {"0x", "0b", "0", ""} :
                   \E t \in Texts[literal_base(prefix)] :
                       arg = [base |-> literal_base(prefix), sign |-> "", digits |-> t]
      <4>1. \A prefix \in {"0x", "0b", "0", ""} : literal_base(prefix) \in {2, 8, 10, 16}
        BY DEF literal_base
      <4>2. QED
        BY <3>2, <4>1
    <3>3. QED
      BY <1>1, <3>1, <3>2, Zenon DEF ReadInit
  <2>3. b \in Nat
    <3>1. TextBases \subseteq Nat
      BY StringsAssumption, Zenon
    <3>2. b \in TextBases \/ b \in {2, 8, 10, 16}
      BY Zenon
    <3>3. QED
      BY <3>1, <3>2
  <2>1a. PICK t \in Tx(b), s \in {"", "-", "+"} : arg = [base |-> b, sign |-> s, digits |-> t]
    BY <2>1
  <2>2. t \in Seq(Dg(b)) /\ Exp(b, Len(t)) <= Pow[MaxSize] /\ TextBases \subseteq Nat
    BY StringsAssumption, Zenon
  <2>4. t \in Seq(Nat)
    <3>1. Dg(b) \subseteq Nat
      BY <2>3, DigitsNat
    <3> HIDE DEF Dg
    <3> DEFINE n == Len(t)
    <3>2. n \in Nat /\ t \in [1 .. n -> Dg(b)]
      BY <2>2, LenProperties
    <3> HIDE DEF n
    <3>3. t \in [1 .. n -> Nat]
      BY <3>1, <3>2
    <3>4. QED
      BY <3>2, <3>3, IsSequence
  <2>5. arg.base = b /\ arg.digits = t
    BY <2>1a
  <2>6. ReadArgs
    BY <2>2, <2>3, <2>4, <2>5, Zenon DEF ReadArgs, base, Length
  <2>7. pc = "call"
    BY <1>1 DEF StringsInit
  <2>8. QED
    BY <2>6, <2>7 DEF ReadInv
<1>2. CASE ~(ReadInit /\ StringsInit)
  <2>1. Init => (ReadInit /\ StringsInit) \/ fn # "from_string"
    <3>1. RootsInit \/ CountingInit => fn # "from_string"
      BY DEF RootsInit, CountingInit
    <3>2. LehmerInit \/ IntDivisionInit \/ PowersInit => fn # "from_string"
      BY DEF LehmerInit, IntDivisionInit, PowersInit
    <3>3. StringsInit => ReadInit \/ fn # "from_string"
      BY DEF StringsInit, WriteInit
    <3>4. QED
      BY <3>1, <3>2, <3>3 DEF Init
  <2>2. QED
    BY <2>1, <1>2 DEF ReadInv
<1>3. QED
  BY <1>1, <1>2

SignIfEmpty == Length = 0 => arg.sign # ""

LEMMA WindowsStart ==
    ASSUME ReadArgs, base \in 2 .. 64, Special(base), SignIfEmpty
    PROVE  WindowsRead(0, 0, IF Length = 0 THEN 1 ELSE (Length \div p) + (IF Length % p > 0 THEN 1 ELSE 0))
<1> DEFINE l == Length  w == p  n == IF l = 0 THEN 1 ELSE (l \div w) + (IF l % w > 0 THEN 1 ELSE 0)
<1>1. l \in Nat /\ base \in Nat /\ base \in Int
  BY TextFacts
<1>2. w \in Nat /\ w > 0
  <2>1. base_power[base] \in 1 .. W /\ W \in Nat
    BY BasePowerFacts, MaxBitsFacts
  <2>2. QED
    BY <2>1 DEF p
<1>3. n = IF l = 0 THEN 1 ELSE (l \div w) + (IF l % w > 0 THEN 1 ELSE 0)
  BY Zenon
<1> HIDE DEF n
<1>4. LeftBefore(0) = IF w * 0 < l THEN l - w * 0 ELSE 0
  BY Zenon DEF LeftBefore
<1> HIDE DEF l, w
<1>5. 0 \in 0 .. n
  <2>1. CASE l = 0
    BY <2>1, <1>3
  <2>2. CASE l # 0
    <3>1. l > 0 /\ n = (l \div w) + (IF l % w > 0 THEN 1 ELSE 0)
      BY <2>2, <1>1, <1>3
    <3>2. n \in Nat
      BY <3>1, <1>1, <1>2, WindowCount
    <3>3. QED
      BY <3>2
  <2>3. QED
    BY <2>1, <2>2
<1>6. LeftBefore(0) = l /\ l - l = 0
  BY <1>1, <1>2, <1>4
<1>7. \A j \in l + 1 .. l : arg.digits[j] # NoDigit
  BY <1>1
<1>8. Fold(base, After(l), 0) = 0
  BY <1>1, FoldNone
<1>9. Length = 0 => 0 = 0 /\ arg.sign # ""
  BY Zenon DEF SignIfEmpty
<1>10. QED
  BY <1>3, <1>5, <1>6, <1>7, <1>8, <1>9, Zenon DEF WindowsRead, l, w, n

LEMMA NothingLeft ==
    ASSUME ReadArgs, base \in 2 .. 64, Special(base), Length = 0,
           NEW end, end = Length - p * 0, NEW width, width = IF end < p THEN end ELSE p,
           NEW t, t = SubSeq(arg.digits, end - width + 1, end)
    PROVE  ~Readable(t)
<1> DEFINE w == p
<1>1. w \in Nat /\ w > 0
  <2>1. base_power[base] \in 1 .. W /\ W \in Nat
    BY BasePowerFacts, MaxBitsFacts
  <2>2. QED
    BY <2>1 DEF p
<1>2. end = 0 - w * 0 /\ width = (IF end < w THEN end ELSE w)
  BY Zenon
<1> HIDE DEF w
<1>3. end = 0
  BY <1>1, <1>2
<1>4. width = 0
  BY <1>1, <1>2, <1>3
<1>5. end - width + 1 \in Int /\ end \in Int /\ end < end - width + 1
  BY <1>3, <1>4
<1>6. QED
  BY <1>5, NoWindow

LEMMA ReadStep == ReadInv /\ [Next]_vars => ReadInv'
<1> SUFFICES ASSUME ReadInv, [Next]_vars, fn = "from_string" PROVE ReadInv'
  BY StepsOfOne DEF ReadInv
<1>1. fn' = fn /\ arg' = arg /\ (UNCHANGED vars \/ StringsNext)
  BY StepsOfOne
<1>2. /\ ReadArgs
      /\ pc = "chunks" => Legal(base) /\ ~Special(base) /\ ChunksRead(loc.i, loc.val)
      /\ pc = "windows" => /\ Legal(base) /\ Special(base) /\ WindowsRead(loc.k, loc.val, loc.size)
                           /\ loc = [k |-> loc.k, val |-> loc.val, size |-> loc.size]
      /\ pc = "returned" => ReadReturned
      /\ pc = "threw" => ReadThrew
  BY Zenon DEF ReadInv
<1>3. /\ base' = base /\ p' = p /\ Length' = Length /\ (Negative' <=> Negative)
      /\ ReadArgs' /\ (ReadThrew' <=> ReadThrew)
  <2>1. base' = base /\ Length' = Length /\ (Negative' <=> Negative)
    BY <1>1, Zenon DEF base, Length, Negative
  <2>2. p' = p
    BY <2>1, Zenon DEF p, base_power
  <2>3. (Legal(base))' <=> Legal(base)
    BY <2>1, Zenon DEF Legal
  <2>4. (Special(base))' <=> Special(base)
    BY <2>1, Zenon DEF Special, division_base, base_power
  <2>5. QED
    BY <1>1, <1>2, <2>1, <2>2, <2>3, <2>4, Zenon DEF ReadArgs, ReadThrew
<1>4. ((Legal(base))' <=> Legal(base)) /\ ((Special(base))' <=> Special(base)) /\ (ValueOf(arg.digits))' = ValueOf(arg.digits)
  BY <1>1, <1>3, Zenon DEF Legal, Special, division_base, base_power, ValueOf
<1>5. /\ \A i, v : ChunksRead(i, v) => ChunksRead(i, v)'
      /\ \A k, v, n : WindowsRead(k, v, n) => WindowsRead(k, v, n)'
  BY <1>1, <1>3, Zenon DEF ChunksRead, WindowsRead, ReadUpTo, LeftBefore, After
<1>6. ASSUME pc' = "chunks", NEW i, NEW v, loc' = [i |-> i, val |-> v], Legal(base), ~Special(base), ChunksRead(i, v)
      PROVE  ReadInv'
  <2>1. loc'.i = i /\ loc'.val = v
    BY <1>6
  <2>2. pc' # "windows" /\ pc' # "returned" /\ pc' # "threw"
    BY <1>6
  <2>3. QED
    BY <1>3, <1>4, <1>5, <1>6, <2>1, <2>2, Zenon DEF ReadInv
<1>7. ASSUME pc' = "windows", NEW k, NEW v, NEW n, loc' = [k |-> k, val |-> v, size |-> n],
             Legal(base), Special(base), WindowsRead(k, v, n)
      PROVE  ReadInv'
  <2>1. loc'.k = k /\ loc'.val = v /\ loc'.size = n
    BY <1>7
  <2>2. pc' # "chunks" /\ pc' # "returned" /\ pc' # "threw"
    BY <1>7
  <2>3. QED
    BY <1>3, <1>4, <1>5, <1>7, <2>1, <2>2, Zenon DEF ReadInv
<1>8. ASSUME pc' = "returned", NEW v, NEW n, result'.val = v, result'.size = n, result'.neg <=> Negative,
             Readable(arg.digits) \/ arg.digits = <<>>, v = ValueOf(arg.digits),
             n = IF Legal(base) /\ Special(base) /\ Length > 0 THEN (Length + p - 1) \div p ELSE Size(v)
      PROVE  ReadInv'
  <2>2. (Readable(arg.digits))' <=> Readable(arg.digits)
    BY <1>1, Zenon DEF Readable
  <2>3. ReadReturned'
    BY <1>1, <1>3, <1>4, <1>8, <2>2, Zenon DEF ReadReturned, Size
  <2>4. pc' # "chunks" /\ pc' # "windows" /\ pc' # "threw"
    BY <1>8
  <2>5. QED
    BY <1>3, <2>3, <2>4, Zenon DEF ReadInv
<1>9. ASSUME pc' = "threw", ReadThrew PROVE ReadInv'
  <2>1. pc' # "chunks" /\ pc' # "windows" /\ pc' # "returned"
    BY <1>9
  <2>2. QED
    BY <1>3, <1>9, <2>1, Zenon DEF ReadInv
<1>10. CASE UNCHANGED vars
  <2>1. fn' = fn /\ pc' = pc /\ loc' = loc /\ res' = res /\ arg' = arg
    BY <1>10, Zenon DEF vars
  <2>2. (Readable(arg.digits))' <=> Readable(arg.digits)
    BY <1>1, Zenon DEF Readable
  <2>3. ReadReturned => ReadReturned'
    BY <1>1, <1>3, <1>4, <2>1, <2>2, Zenon DEF ReadReturned, result, Size
  <2>4. QED
    BY <1>2, <1>3, <1>4, <1>5, <2>1, <2>3, Zenon DEF ReadInv
<1>11. Length \in Nat /\ base \in Nat /\ (Length = 0 => arg.digits = <<>>) /\ (arg.digits = <<>> => Length = 0)
  BY <1>2, TextFacts, Zenon
<1>12. Legal(base) => base \in 2 .. 64
  BY DEF Legal
<1>13. ~Legal(base) => ReadThrew
  BY Zenon DEF ReadThrew
<1>14. CASE FromString
  <2>1. CASE ~Legal(base)
    <3>1. pc' = "threw"
      BY <1>14, <2>1, Zenon DEF FromString, Throw
    <3>2. QED
      BY <3>1, <2>1, <1>9, <1>13, Zenon
  <2>2. CASE Legal(base) /\ arg.sign = "" /\ Length = 0
    <3>1. pc' = "returned" /\ res' = <<[val |-> 0, size |-> 1, neg |-> FALSE]>>
      BY <1>14, <2>2, Zenon DEF FromString, Return
    <3>2. ValueOf(arg.digits) = 0
      <4>1. base \in Int
        BY <1>11
      <4>2. ValueOf(arg.digits) = Fold(base, arg.digits, 0)
        BY <2>2, ValueIsFold, Zenon DEF Length
      <4>3. QED
        BY <4>1, <4>2, FoldNone
    <3>3. ~(Length > 0)
      <4>1. Length = 0
        BY <2>2, Zenon
      <4>2. QED
        BY <4>1
    <3>4. Size(0) = 1
      <4>1. Size(0) \in 1 .. 1
        <5>1. 0 \in Nat /\ 1 \in 1 .. MaxSize /\ 0 < Pow[1]
          <6>1. 1 \in 0 .. MaxSize /\ 1 \in 1 .. MaxSize /\ 0 \in Nat
            BY MaxBitsFacts
          <6>2. QED
            BY <6>1, PowPositive
        <5>2. QED
          BY <5>1, SizeLeast
      <4>2. QED
        BY <4>1
    <3>5. ~Negative
      BY <2>2 DEF Negative
    <3>6. result'.val = 0 /\ result'.size = 1 /\ (result'.neg <=> Negative)
      <4>1. result'.val = 0 /\ result'.size = 1 /\ result'.neg = FALSE
        BY <3>1 DEF result
      <4>2. QED
        BY <4>1, <3>5
    <3>7. QED
      BY <1>8, <1>11, <2>2, <3>1, <3>2, <3>3, <3>4, <3>6, Zenon
  <2>3. CASE Legal(base) /\ ~(arg.sign = "" /\ Length = 0) /\ ~Special(base)
    <3>1. pc' = "chunks" /\ loc' = [i |-> 0, val |-> 0]
      BY <1>14, <2>3, Zenon DEF FromString, Enter
    <3>2. ChunksRead(0, 0)
      <4>1. ReadUpTo(0) = 0
        BY <1>11 DEF ReadUpTo
      <4>2. Fold(base, arg.digits, 0) = 0
        <5>1. base \in Int
          BY <1>11
        <5>2. QED
          BY <5>1, FoldNone
      <4>3. QED
        BY <4>1, <4>2 DEF ChunksRead
    <3>3. QED
      BY <1>6, <2>3, <3>1, <3>2, Zenon
  <2>4. CASE Legal(base) /\ ~(arg.sign = "" /\ Length = 0) /\ Special(base)
    <3> DEFINE n == IF Length = 0 THEN 1 ELSE (Length \div p) + (IF Length % p > 0 THEN 1 ELSE 0)
    <3>1. pc' = "windows" /\ loc' = [k |-> 0, val |-> 0, size |-> n]
      BY <1>14, <2>4, Zenon DEF FromString, Enter
    <3>2. WindowsRead(0, 0, n)
      <4>1. SignIfEmpty
        BY <2>4, Zenon DEF SignIfEmpty
      <4>2. QED
        BY <4>1, <1>2, <2>4, WindowsStart, <1>12, Zenon
    <3> HIDE DEF n
    <3>3. QED
      BY <1>7, <2>4, <3>1, <3>2, Zenon
  <2>5. QED
    BY <2>1, <2>2, <2>3, <2>4, Zenon
<1>15. CASE ReadChunk
  <2> DEFINE i == loc.i  v == loc.val
             end == IF i + p < Length THEN i + p ELSE Length
             t == SubSeq(arg.digits, i + 1, end)
             mul == IF Len(t) = p THEN division_base[base] ELSE Exp(base, Len(t))
  <2>1. pc = "chunks" /\ i < Length
        /\ IF Readable(t) THEN pc' = "chunks" /\ loc' = [i |-> i + p, val |-> v * mul + ValueOf(t)] ELSE pc' = "threw"
    BY <1>15, Zenon DEF ReadChunk, Enter, Throw
  <2>2. Legal(base) /\ ~Special(base) /\ ChunksRead(i, v) /\ base \in 2 .. 64
    BY <1>2, <1>12, <2>1, Zenon
  <2>3. mul = Exp(base, Len(t))
    <3>1. division_base[base] = Exp(base, p)
      BY <2>2, BasePowerFacts, Zenon DEF p
    <3>2. QED
      BY <3>1, Zenon
  <2>4. /\ Readable(t) => ChunksRead(i + p, v * Exp(base, Len(t)) + ValueOf(t))
        /\ ~Readable(t) => \E k \in 1 .. Length : arg.digits[k] = NoDigit
    BY <1>2, <2>1, <2>2, ChunkRead, Zenon
  <2> HIDE DEF i, v, t, mul
  <2>5. CASE Readable(t)
    <3> DEFINE j == i + p  z == v * Exp(base, Len(t)) + ValueOf(t)
    <3>1. pc' = "chunks" /\ loc' = [i |-> j, val |-> z] /\ ChunksRead(j, z)
      BY <2>1, <2>3, <2>4, <2>5, Zenon
    <3> HIDE DEF j, z
    <3>2. QED
      BY <1>6, <2>2, <3>1, Zenon
  <2>6. CASE ~Readable(t)
    BY <1>9, <2>1, <2>4, <2>6, Zenon DEF ReadThrew
  <2>7. QED
    BY <2>5, <2>6
<1>16. CASE ReadChunksEnd
  <2>1. pc = "chunks" /\ loc.i >= Length /\ pc' = "returned"
        /\ res' = <<[val |-> loc.val, size |-> Size(loc.val), neg |-> Negative]>>
    BY <1>16, Zenon DEF ReadChunksEnd, Return
  <2>2. Legal(base) /\ ~Special(base) /\ ChunksRead(loc.i, loc.val) /\ base \in 2 .. 64
    BY <1>2, <1>12, <2>1, Zenon
  <2>3. loc.val = ValueOf(arg.digits) /\ (Readable(arg.digits) \/ arg.digits = <<>>)
    BY <1>2, <2>1, <2>2, AllRead, Zenon
  <2>4. Size(loc.val) = IF Legal(base) /\ Special(base) /\ Length > 0 THEN (Length + p - 1) \div p ELSE Size(loc.val)
    BY <2>2, Zenon
  <2>5. result'.val = loc.val /\ result'.size = Size(loc.val) /\ (result'.neg <=> Negative)
    <3> DEFINE v == loc.val  n == Size(loc.val)  s == Negative
    <3>1. res' = <<[val |-> v, size |-> n, neg |-> s]>>
      BY <2>1, Zenon
    <3> HIDE DEF v, n, s
    <3>2. result'.val = v /\ result'.size = n /\ result'.neg = s
      BY <3>1 DEF result
    <3>3. QED
      BY <3>2, Zenon DEF v, n, s
  <2>6. QED
    BY <1>8, <2>1, <2>3, <2>4, <2>5, Zenon
<1>17. CASE ReadWindow
  <2> DEFINE k == loc.k  v == loc.val  n == loc.size
             end == Length - p * k
             width == IF end < p THEN end ELSE p
             t == SubSeq(arg.digits, end - width + 1, end)
             v2 == v + ValueOf(t) * Pow[k]
  <2>1. pc = "windows" /\ k < n
        /\ IF Readable(t) THEN pc' = "windows" /\ loc' = [loc EXCEPT !.k = @ + 1, !.val = @ + ValueOf(t) * Pow[k]]
           ELSE pc' = "threw"
    BY <1>17, Zenon DEF ReadWindow, Enter, Throw
  <2>2. Legal(base) /\ Special(base) /\ WindowsRead(k, v, n) /\ base \in 2 .. 64
        /\ loc = [k |-> k, val |-> v, size |-> n]
    BY <1>2, <1>12, <2>1, Zenon
  <2>3. CASE Length = 0
    <3>1. arg.sign # "" /\ k = 0
      BY <2>2, <2>3, Zenon DEF WindowsRead
    <3>2. ReadThrew
      BY <2>2, <2>3, <3>1, Zenon DEF ReadThrew
    <3>3. ~Readable(t)
      BY <1>2, <2>2, <2>3, <3>1, NothingLeft, Zenon
    <3>4. QED
      BY <1>9, <2>1, <3>2, <3>3, Zenon
  <2>4. CASE Length # 0
    <3>1. NextWindow(k, n, end, width, t)
      BY <2>1, Zenon DEF NextWindow
    <3> HIDE DEF k, v, n, end, width, t
    <3>2. /\ Readable(t) => WindowsRead(k + 1, v2, n)
          /\ ~Readable(t) => \E j \in 1 .. Length : arg.digits[j] = NoDigit
      BY <1>2, <2>2, <2>4, <3>1, WindowRead
    <3>3. CASE Readable(t)
      <4>1. loc' = [loc EXCEPT !.k = @ + 1, !.val = @ + ValueOf(t) * Pow[k]]
        BY <2>1, <3>3, Zenon
      <4>2. loc' = [k |-> k + 1, val |-> v2, size |-> n]
        <5> DEFINE z == ValueOf(t) * Pow[k]
        <5>1. loc' = [loc EXCEPT !.k = @ + 1, !.val = @ + z] /\ loc = [k |-> k, val |-> v, size |-> n]
          BY <4>1, <2>2, Zenon
        <5> HIDE DEF z
        <5>2. loc' = [k |-> k + 1, val |-> v + z, size |-> n]
          BY <5>1
        <5>3. QED
          BY <5>2, Zenon DEF z
      <4> HIDE DEF v2
      <4>3. QED
        BY <1>7, <2>1, <2>2, <3>2, <3>3, <4>2, Zenon
    <3>4. CASE ~Readable(t)
      BY <1>9, <2>1, <3>2, <3>4, Zenon DEF ReadThrew
    <3>5. QED
      BY <3>3, <3>4
  <2>5. QED
    BY <2>3, <2>4
<1>18. CASE ReadWindowsEnd
  <2>1. pc = "windows" /\ loc.k = loc.size /\ pc' = "returned"
        /\ res' = <<[val |-> loc.val, size |-> loc.size, neg |-> Negative]>>
    BY <1>18, Zenon DEF ReadWindowsEnd, Return
  <2>2. Legal(base) /\ Special(base) /\ WindowsRead(loc.k, loc.val, loc.size) /\ base \in 2 .. 64
    BY <1>2, <1>12, <2>1, Zenon
  <2>3. loc.val = ValueOf(arg.digits) /\ Readable(arg.digits) /\ Length > 0 /\ loc.size = (Length + p - 1) \div p
    BY <1>2, <2>1, <2>2, AllRead, Zenon
  <2>4. loc.size = IF Legal(base) /\ Special(base) /\ Length > 0 THEN (Length + p - 1) \div p ELSE Size(loc.val)
    BY <2>2, <2>3, Zenon
  <2>5. result'.val = loc.val /\ result'.size = loc.size /\ (result'.neg <=> Negative)
    <3> DEFINE v == loc.val  n == loc.size  s == Negative
    <3>1. res' = <<[val |-> v, size |-> n, neg |-> s]>>
      BY <2>1, Zenon
    <3> HIDE DEF v, n, s
    <3>2. result'.val = v /\ result'.size = n /\ result'.neg = s
      BY <3>1 DEF result
    <3>3. QED
      BY <3>2, Zenon DEF v, n, s
  <2>6. QED
    BY <1>8, <2>1, <2>3, <2>4, <2>5, Zenon
<1>19. CASE ToString \/ PrintRound \/ PrintEnd \/ PrintWord \/ PrintWordsEnd \/ DigitSum \/ SumRound \/ SumEnd
  <2>1. fn # "from_string"
    BY <1>19 DEF ToString, PrintRound, PrintEnd, PrintWord, PrintWordsEnd, DigitSum, SumRound, SumEnd, Called
  <2>2. QED
    BY <2>1
<1>20. QED
  BY <1>1, <1>10, <1>14, <1>15, <1>16, <1>17, <1>18, <1>19, Zenon DEF StringsNext

(* In every reachable state of from_string the invariant holds.              *)
THEOREM ReadInductive == Spec => []ReadInv
<1>1. Init => ReadInv
  BY ReadStart
<1>2. ReadInv /\ [Next]_vars => ReadInv'
  BY ReadStep
<1>3. QED
  BY <1>1, <1>2, PTL DEF Spec

(* from_string returns the value that the digits stand for in every base,    *)
(* in chunks from the left or in windows from the right, and refuses only    *)
(* bases and texts that are not a number's; of the texts without digits,     *)
(* which the documentation refuses, nothing is claimed.                      *)
THEOREM ReadsAlwaysValue == Spec => []ReadsValue
<1>1. ReadInv => ReadsValue
  <2>1. ASSUME ReadInv, Returned("from_string"), arg.digits # <<>>
        PROVE  /\ Readable(arg.digits) /\ result.val = ValueOf(arg.digits) /\ (result.neg <=> Negative)
               /\ result.size = IF Legal(base) /\ Special(base) THEN (Length + p - 1) \div p
                                ELSE Size(result.val)
    <3>1. ReadArgs /\ ReadReturned
      BY <2>1, Zenon DEF ReadInv, Returned
    <3>2. Length > 0
      <4>1. Length \in Nat /\ Length # 0
        BY <3>1, <2>1, TextFacts, Zenon
      <4>2. QED
        BY <4>1
    <3>3. QED
      BY <3>1, <3>2, <2>1, Zenon DEF ReadReturned
  <2>2. ASSUME ReadInv, Threw("from_string") PROVE ~Legal(base) \/ ~Readable(arg.digits)
    <3>1. ReadArgs /\ ReadThrew
      BY <2>2, Zenon DEF ReadInv, Threw
    <3>2. Length = 0 => arg.digits = <<>>
      BY <3>1, TextFacts, Zenon
    <3>3. QED
      BY <3>1, <3>2, Zenon DEF ReadThrew, Readable, Length
  <2>3. QED
    BY <2>1, <2>2, Zenon DEF ReadsValue
<1>2. QED
  BY <1>1, ReadInductive, PTL

LEMMA SameSequence ==
    ASSUME NEW S, NEW s \in Seq(S), NEW t \in Seq(S), NEW n \in Nat, Len(s) = n, Len(t) = n,
           \A j \in 1 .. n : s[j] = t[j]
    PROVE  s = t
<1>1. s \in [1 .. n -> S] /\ t \in [1 .. n -> S]
  BY LenProperties
<1>2. QED
  BY <1>1

(* The digits of a chunk appended to those below it.                         *)
LEMMA LowDigitsConcat ==
    ASSUME base \in Nat, base >= 2, NEW x \in Nat, NEW n \in Nat, NEW k \in Nat
    PROVE  LowDigits(x, n) \o LowDigits((x \div Exp(base, n)) % Exp(base, k), k) = LowDigits(x, n + k)
<1> DEFINE u == x \div Exp(base, n)  v == u % Exp(base, k)
           s == LowDigits(x, n)  t == LowDigits(v, k)  low == LowDigits(x, n + k)
<1>1. u \in Nat
  BY PlaceFacts
<1>2. \A j \in Nat : BaseDigit(base, u, j) = BaseDigit(base, x, n + j)
  BY PlaceSum
<1> HIDE DEF u
<1>3. v \in Nat
  <2> DEFINE m == Exp(base, k)
  <2>1. m \in Nat /\ m >= 1
    BY ExpPositive
  <2> HIDE DEF m
  <2>2. u % m \in Nat
    BY <2>1, <1>1
  <2>3. QED
    BY <2>2 DEF m
<1>4. \A j \in 0 .. k - 1 : BaseDigit(base, v, j) = BaseDigit(base, u, j)
  <2> SUFFICES ASSUME NEW j \in 0 .. k - 1 PROVE BaseDigit(base, v, j) = BaseDigit(base, u, j)
    OBVIOUS
  <2>1. j \in Nat /\ j < k
    OBVIOUS
  <2>2. QED
    BY <2>1, <1>1, PlaceLow
<1> HIDE DEF v
<1>5. /\ s \in Seq(Nat) /\ Len(s) = n /\ \A j \in 1 .. n : s[j] = BaseDigit(base, x, j - 1)
      /\ t \in Seq(Nat) /\ Len(t) = k /\ \A j \in 1 .. k : t[j] = BaseDigit(base, v, j - 1)
      /\ low \in Seq(Nat) /\ Len(low) = n + k /\ \A j \in 1 .. n + k : low[j] = BaseDigit(base, x, j - 1)
  <2>1. n + k \in Nat
    OBVIOUS
  <2>2. QED
    BY <2>1, <1>3, LowDigitsFacts
<1> HIDE DEF s, t, low
<1>6. s \o t \in Seq(Nat) /\ Len(s \o t) = n + k
      /\ \A j \in 1 .. n + k : (s \o t)[j] = IF j <= n THEN s[j] ELSE t[j - n]
  <2>1. /\ s \o t \in Seq(Nat) /\ Len(s \o t) = Len(s) + Len(t)
        /\ \A j \in 1 .. Len(s) + Len(t) : (s \o t)[j] = IF j <= Len(s) THEN s[j] ELSE t[j - Len(s)]
    BY <1>5, ConcatProperties
  <2>2. QED
    BY <1>5, <2>1, Zenon
<1>7. \A j \in 1 .. n + k : (s \o t)[j] = low[j]
  <2> SUFFICES ASSUME NEW j \in 1 .. n + k PROVE (s \o t)[j] = low[j]
    OBVIOUS
  <2>1. CASE j <= n
    <3>1. j \in 1 .. n
      BY <2>1
    <3>2. QED
      BY <3>1, <2>1, <1>5, <1>6, Zenon
  <2>2. CASE ~(j <= n)
    <3> DEFINE i == j - n
    <3>1. i \in 1 .. k /\ i - 1 \in 0 .. k - 1 /\ i - 1 \in Nat /\ n + (i - 1) = j - 1
      BY <2>2
    <3>2. (s \o t)[j] = t[i]
      BY <2>2, <1>6, Zenon
    <3> HIDE DEF i
    <3>3. t[i] = BaseDigit(base, v, i - 1) /\ BaseDigit(base, v, i - 1) = BaseDigit(base, u, i - 1)
      BY <3>1, <1>4, <1>5, Zenon
    <3>4. BaseDigit(base, u, i - 1) = BaseDigit(base, x, n + (i - 1))
      BY <3>1, <1>2, Zenon
    <3>5. low[j] = BaseDigit(base, x, j - 1)
      BY <1>5, Zenon
    <3>6. QED
      BY <3>1, <3>2, <3>3, <3>4, <3>5, Zenon
  <2>3. QED
    BY <2>1, <2>2
<1>8. s \o t = low
  <2>1. n + k \in Nat
    OBVIOUS
  <2>2. QED
    BY <2>1, <1>5, <1>6, <1>7, SameSequence
<1>9. QED
  BY <1>8, Zenon DEF s, t, low, v, u

(* Digits that x has in the base: below the power no others are left.        *)
LEMMA DigitsUsed ==
    ASSUME base \in Nat, base >= 2, NEW x \in Nat, x < Pow[MaxSize], NEW n \in Nat, x \div Exp(base, n) = 0
    PROVE  LET d == DigitsIn(x)
           IN  /\ d \in 0 .. n /\ x < Exp(base, d) /\ x \div Exp(base, d) = 0
               /\ x % Exp(base, d) = x
               /\ d # 0 => BaseDigit(base, x, d - 1) # 0
               /\ \A j \in Nat : j >= d => BaseDigit(base, x, j) = 0
               /\ d = 0 <=> x = 0
<1> DEFINE d == DigitsIn(x)  e == Exp(base, n)
<1>1. d \in Nat /\ x < Exp(base, d) /\ (d = 0 \/ x >= Exp(base, d - 1))
  <2>1. d = DigitsOf(base, x)
    BY Zenon DEF DigitsIn
  <2>2. d \in 0 .. MaxBits /\ x < Exp(base, d) /\ (d = 0 \/ x >= Exp(base, d - 1))
    <3> HIDE DEF d
    <3>1. QED
      BY <2>1, DigitsFacts
  <2> HIDE DEF d
  <2>3. d \in Nat
    BY <2>2, MaxBitsFacts
  <2>4. QED
    BY <2>2, <2>3
<1> HIDE DEF d
<1>2. x < Exp(base, n)
  BY PlaceFacts
<1>3. d <= n
  <2> SUFFICES ASSUME ~(d <= n) PROVE FALSE
    OBVIOUS
  <2>1. d # 0 /\ d - 1 \in Nat /\ n <= d - 1 /\ base >= 1
    BY <1>1
  <2>2. Exp(base, n) <= Exp(base, d - 1) /\ Exp(base, n) \in Nat /\ Exp(base, d - 1) \in Nat
    BY <2>1, ExpGrows, ExpPositive
  <2> DEFINE f == Exp(base, d - 1)
  <2>3. f \in Nat /\ x >= f /\ e <= f /\ e \in Nat /\ x < e
    BY <2>1, <2>2, <1>1, <1>2
  <2> HIDE DEF e, f
  <2>4. QED
    BY <2>3
<1>4. x \div Exp(base, d) = 0
  BY <1>1, PlaceFacts
<1>5. x % Exp(base, d) = x
  <2>1. Exp(base, d) \in Nat
    <3>1. base >= 1
      OBVIOUS
    <3>2. QED
      BY <3>1, <1>1, ExpPositive
  <2>2. QED
    BY <2>1, <1>1, ModSmall
<1>6. ASSUME d # 0 PROVE BaseDigit(base, x, d - 1) # 0
  <2>1. d - 1 \in Nat /\ (d - 1) + 1 = d /\ x >= Exp(base, d - 1)
    BY <1>1, <1>6
  <2> DEFINE i == d - 1  f == Exp(base, i)
  <2>2. x \div f = (x \div Exp(base, i + 1)) * base + BaseDigit(base, x, i)
        /\ (x \div f = 0 => x < f) /\ BaseDigit(base, x, i) \in 0 .. base - 1
    <3> HIDE DEF i
    <3>1. i \in Nat
      BY <2>1 DEF i
    <3>2. QED
      BY <3>1, PlaceFacts
  <2>3. f \in Nat
    <3>1. i \in Nat /\ base >= 1
      BY <2>1
    <3> HIDE DEF i
    <3>2. QED
      BY <3>1, ExpPositive
  <2>4. x \div f # 0
    <3>1. x >= f
      BY <2>1
    <3> HIDE DEF f
    <3>2. ~(x < f)
      BY <3>1, <2>3
    <3>3. QED
      BY <3>2, <2>2, Zenon
  <2>5. x \div Exp(base, i + 1) = 0
    BY <2>1, <1>4, Zenon
  <2> DEFINE g == BaseDigit(base, x, i)
  <2>6. x \div f = 0 * base + g /\ g \in 0 .. base - 1
    BY <2>2, <2>5, Zenon
  <2> HIDE DEF g, f
  <2>7. 0 * base + g = g
    BY <2>6
  <2>8. QED
    BY <2>4, <2>6, <2>7, Zenon DEF g
<1>7. ASSUME NEW j \in Nat, j >= d PROVE BaseDigit(base, x, j) = 0
  <2>1. base >= 1 /\ d <= j
    BY <1>1, <1>7
  <2>2. Exp(base, d) <= Exp(base, j) /\ Exp(base, d) \in Nat /\ Exp(base, j) \in Nat
    BY <2>1, <1>1, ExpGrows, ExpPositive
  <2>3. x < Exp(base, j)
    BY <2>2, <1>1
  <2>4. QED
    BY <2>3, PlaceFacts
<1>8. Exp(base, 0) = 1
  <2>1. base \in Int /\ 0 \in Nat
    OBVIOUS
  <2>2. QED
    BY <2>1, ExpFacts
<1>9. d = 0 => x = 0
  BY <1>1, <1>8
<1>10. x = 0 => d = 0
  <2> SUFFICES ASSUME x = 0, d # 0 PROVE FALSE
    OBVIOUS
  <2>1. d - 1 \in Nat /\ base >= 1 /\ x >= Exp(base, d - 1)
    BY <1>1
  <2>2. Exp(base, d - 1) \in Nat /\ Exp(base, d - 1) >= 1
    BY <2>1, ExpPositive
  <2>3. QED
    BY <2>1, <2>2
<1>11. d \in 0 .. n
  BY <1>1, <1>3
<1>12. QED
  BY <1>1, <1>4, <1>5, <1>6, <1>7, <1>9, <1>10, <1>11, Zenon DEF d

(* A number with at most one leading zero, and a base.                       *)
WriteArgs ==
    /\ base \in Nat /\ arg.n = [val |-> arg.n.val, size |-> arg.n.size]
    /\ arg.n.val \in Int /\ Magnitude < Pow[MaxSize - 1]
    /\ arg.n.size = Size(Magnitude) \/ arg.n.size = Size(Magnitude) + 1

(* The digits below place n have been written and rest is what is left of    *)
(* the number; or they have been added.                                      *)
RoundsWritten(n, rest, out) == n \in Nat /\ rest = Magnitude \div Exp(base, n) /\ out = LowDigits(Magnitude, n)
RoundsAdded(n, rest, sum) == n \in Nat /\ rest = Magnitude \div Exp(base, n) /\ sum = SumOf(LowDigits(Magnitude, n))

LEMMA MagnitudeFacts ==
    ASSUME WriteArgs
    PROVE  /\ Magnitude \in Nat /\ Magnitude < Pow[MaxSize] /\ (arg.n.val < 0 => Magnitude # 0)
           /\ base \in Nat
<1> DEFINE v == arg.n.val  m == Magnitude
<1>1. v \in Int /\ m < Pow[MaxSize - 1] /\ base \in Nat
  BY Zenon DEF WriteArgs
<1>2. m = IF v < 0 THEN -v ELSE v
  BY Zenon DEF Magnitude, Abs
<1> HIDE DEF v, m
<1>3. m \in Nat /\ (v < 0 => m # 0)
  BY <1>1, <1>2
<1>4. MaxSize \in Nat /\ MaxSize - 1 \in Nat /\ MaxSize - 1 <= MaxSize /\ MaxSize \in 0 .. MaxSize /\ MaxSize - 1 \in 0 .. MaxSize
  BY MaxBitsFacts
<1>5. Pow[MaxSize - 1] <= Pow[MaxSize] /\ Pow[MaxSize - 1] \in Nat /\ Pow[MaxSize] \in Nat
  BY <1>4, PowGrows, PowPositive
<1>6. m < Pow[MaxSize]
  BY <1>1, <1>3, <1>5
<1>7. QED
  BY <1>1, <1>3, <1>6 DEF v, m

(* The last place in use.                                                    *)
LEMMA LastUsed ==
    ASSUME WriteArgs, base >= 2, NEW n, NEW rest, NEW out, RoundsWritten(n, rest, out), rest = 0
    PROVE  /\ (CHOOSE k \in 0 .. Len(out) :
                    /\ \A j \in k + 1 .. Len(out) : out[j] = 0
                    /\ k = 0 \/ out[k] # 0) = DigitsIn(Magnitude)
           /\ SubSeq(out, 1, DigitsIn(Magnitude)) = LowDigits(Magnitude, DigitsIn(Magnitude))
<1> DEFINE m == Magnitude  d == DigitsIn(m)  used(k) == (\A j \in k + 1 .. n : out[j] = 0) /\ (k = 0 \/ out[k] # 0)
<1>1. m \in Nat /\ m < Pow[MaxSize] /\ base \in Nat
  BY MagnitudeFacts
<1>2. n \in Nat /\ m \div Exp(base, n) = 0 /\ out = LowDigits(m, n)
  BY Zenon DEF RoundsWritten
<1> HIDE DEF m
<1>3. out \in Seq(Nat) /\ Len(out) = n /\ \A j \in 1 .. n : out[j] = BaseDigit(base, m, j - 1)
  BY <1>1, <1>2, LowDigitsFacts
<1>4. /\ d \in 0 .. n
      /\ d # 0 => BaseDigit(base, m, d - 1) # 0
      /\ \A j \in Nat : j >= d => BaseDigit(base, m, j) = 0
  BY <1>1, <1>2, DigitsUsed
<1> HIDE DEF d
<1>5. used(d)
  <2>1. ASSUME NEW j \in d + 1 .. n PROVE out[j] = 0
    <3>1. j \in 1 .. n /\ j - 1 \in Nat /\ j - 1 >= d
      BY <1>2, <1>4
    <3>2. QED
      BY <3>1, <1>3, <1>4
  <2>2. d = 0 \/ out[d] # 0
    <3>1. d = 0 \/ d \in 1 .. n
      BY <1>2, <1>4
    <3>2. QED
      BY <3>1, <1>3, <1>4, Zenon
  <2>3. QED
    BY <2>1, <2>2
<1>6. ASSUME NEW k \in 0 .. n, used(k) PROVE k = d
  <2>1. CASE k < d
    <3>1. d \in k + 1 .. n /\ d # 0
      BY <2>1, <1>2, <1>4
    <3>2. QED
      BY <3>1, <1>5, <1>6, Zenon
  <2>2. CASE d < k
    <3>1. k \in d + 1 .. n /\ k # 0
      BY <2>2, <1>2, <1>4
    <3>2. QED
      BY <3>1, <1>5, <1>6, Zenon
  <2>3. QED
    BY <2>1, <2>2, <1>2, <1>4
<1>7. (CHOOSE k \in 0 .. n : used(k)) = d
  <2> HIDE DEF used
  <2>1. QED
    BY <1>4, <1>5, <1>6, Zenon
<1>8. SubSeq(out, 1, d) = LowDigits(m, d)
  <2>1. 1 \in Int /\ d \in Int /\ d \in Nat /\ d - 1 + 1 = d
    BY <1>4
  <2>2. \A j \in 1 .. d : out[j] \in Nat /\ 1 + j - 1 = j /\ out[j] = BaseDigit(base, m, j - 1)
    <3> SUFFICES ASSUME NEW j \in 1 .. d PROVE out[j] \in Nat /\ 1 + j - 1 = j /\ out[j] = BaseDigit(base, m, j - 1)
      OBVIOUS
    <3>1. j \in 1 .. n /\ 1 + j - 1 = j
      BY <1>2, <1>4
    <3>2. out[j] \in Nat
      BY <3>1, <1>3, ElementOfSeq
    <3>3. QED
      BY <3>1, <3>2, <1>3, Zenon
  <2> DEFINE s == SubSeq(out, 1, d)  t == LowDigits(m, d)
  <2>3. s \in Seq(Nat) /\ Len(s) = (IF 1 <= d THEN d - 1 + 1 ELSE 0) /\ \A j \in 1 .. d - 1 + 1 : s[j] = out[1 + j - 1]
    BY <2>1, <2>2, SubSeqProperties
  <2>4. t \in Seq(Nat) /\ Len(t) = d /\ \A j \in 1 .. d : t[j] = BaseDigit(base, m, j - 1)
    BY <2>1, <1>1, LowDigitsFacts
  <2> HIDE DEF s, t
  <2>5. Len(s) = d
    BY <2>1, <2>3
  <2>6. \A j \in 1 .. d : s[j] = t[j]
    BY <2>1, <2>2, <2>3, <2>4, Zenon
  <2>7. s = t
    BY <2>1, <2>3, <2>4, <2>5, <2>6, SameSequence
  <2>8. QED
    BY <2>7 DEF s, t
<1>9. QED
  BY <1>3, <1>7, <1>8, Zenon DEF d, m

(* One round of to_string or digit_sum.                                      *)
LEMMA ChunkWritten ==
    ASSUME WriteArgs, base \in 2 .. 64, NEW n, NEW rest, n \in Nat, rest = Magnitude \div Exp(base, n),
           NEW e, e = Exp(base, p)
    PROVE  /\ n + p \in Nat /\ rest \div e = Magnitude \div Exp(base, n + p)
           /\ LowDigits(Magnitude, n) \o LowDigits(rest % e, p) = LowDigits(Magnitude, n + p)
           /\ LowDigits(Magnitude, n) \in Seq(Nat) /\ LowDigits(rest % e, p) \in Seq(Nat)
<1> DEFINE m == Magnitude  w == p
<1>1. m \in Nat /\ base \in Nat
  BY MagnitudeFacts
<1>2. w \in Nat
  <2>1. base_power[base] \in 1 .. W /\ W \in Nat
    BY BasePowerFacts, MaxBitsFacts
  <2>2. QED
    BY <2>1 DEF p
<1>2a. rest = m \div Exp(base, n) /\ e = Exp(base, w) /\ base >= 2
  BY <1>1
<1> HIDE DEF m, w
<1>3. n + w \in Nat
  BY <1>2
<1>4. rest \div e = m \div Exp(base, n + w)
  BY <1>1, <1>2, <1>2a, PlaceSum
<1>5. LowDigits(m, n) \o LowDigits(rest % e, w) = LowDigits(m, n + w)
  <2>1. LowDigits(m, n) \o LowDigits((m \div Exp(base, n)) % Exp(base, w), w) = LowDigits(m, n + w)
    BY <1>1, <1>2, <1>2a, LowDigitsConcat
  <2>2. QED
    BY <2>1, <1>2a, Zenon
<1>6. rest % e \in Nat
  <2>1. rest \in Nat
    BY <1>1, <1>2a, PlaceFacts
  <2>2. e \in Nat /\ e >= 1
    <3>1. base >= 1
      BY <1>1, <1>2a
    <3>2. QED
      BY <3>1, <1>1, <1>2, <1>2a, ExpPositive
  <2>3. QED
    BY <2>1, <2>2
<1>7. LowDigits(m, n) \in Seq(Nat) /\ LowDigits(rest % e, w) \in Seq(Nat)
  BY <1>1, <1>2, <1>2a, <1>6, LowDigitsFacts
<1>8. QED
  BY <1>3, <1>4, <1>5, <1>7, Zenon DEF m, w

LEMMA ExpOfOne ==
    ASSUME NEW n \in Nat
    PROVE  Exp(1, n) = 1
<1> DEFINE T == {k \in Nat : Exp(1, k) = 1}
<1>1. \A k \in Nat : Exp(1, 0) = 1 /\ Exp(1, k + 1) = 1 * Exp(1, k) /\ Exp(1, k) \in Int
  <2>1. 1 \in Int
    OBVIOUS
  <2>2. QED
    BY <2>1, ExpFacts
<1>2. 0 \in T
  BY <1>1
<1>3. \A k \in Nat : k \in T => k + 1 \in T
  BY <1>1
<1> HIDE DEF T
<1>4. Nat \subseteq T
  BY <1>2, <1>3, SetInduction
<1>5. QED
  BY <1>4 DEF T

LEMMA SumOfConcat ==
    ASSUME NEW s \in Seq(Nat), NEW t \in Seq(Nat)
    PROVE  SumOf(s \o t) = SumOf(s) + SumOf(t)
<1> DEFINE a == s \o t  m == Len(s)  n == Len(t)
<1>1. m \in Nat /\ n \in Nat /\ (\A k \in 1 .. m : s[k] \in Nat) /\ \A k \in 1 .. n : t[k] \in Nat
  BY LenProperties, ElementOfSeq
<1>2. a \in Seq(Nat) /\ Len(a) = m + n
      /\ \A k \in 1 .. m + n : a[k] = IF k <= m THEN s[k] ELSE t[k - m]
  BY ConcatProperties
<1>2a. Len(s) = m /\ Len(t) = n
  OBVIOUS
<1> HIDE DEF a, m, n
<1>3. \A k \in 1 .. m + n : a[k] \in Int
  <2> SUFFICES ASSUME NEW k \in 1 .. m + n PROVE a[k] \in Int
    OBVIOUS
  <2>1. CASE k <= m
    BY <2>1, <1>1, <1>2
  <2>2. CASE ~(k <= m)
    <3>1. k - m \in 1 .. n
      BY <2>2, <1>1
    <3>2. QED
      BY <2>2, <3>1, <1>1, <1>2
  <2>3. QED
    BY <2>1, <2>2
<1>4. \A k \in 1 .. n : t[k] = a[m + k]
  <2> SUFFICES ASSUME NEW k \in 1 .. n PROVE t[k] = a[m + k]
    OBVIOUS
  <2>1. m + k \in 1 .. m + n /\ ~(m + k <= m) /\ (m + k) - m = k
    BY <1>1
  <2>2. QED
    BY <2>1, <1>2
<1>5. IntsTo(a, m + n) /\ PartOf(t, n, a, m) /\ 1 \in Int
  BY <1>3, <1>4 DEF IntsTo, PartOf
<1>6. Fold(1, a, m + n) = Fold(1, a, m) * Exp(1, n) + Fold(1, t, n)
  BY <1>1, <1>5, FoldConcat
<1>7. Fold(1, a, m) = Fold(1, s, m)
  <2>1. \A k \in 1 .. m : s[k] \in Int /\ a[k] = s[k]
    BY <1>1, <1>2
  <2>2. QED
    BY <2>1, <1>1, <1>5, FoldSame
<1>8. SumOf(s) = Fold(1, s, m) /\ SumOf(t) = Fold(1, t, n)
  <2>1. (\A k \in 1 .. m : s[k] \in Int) /\ \A k \in 1 .. n : t[k] \in Int
    BY <1>1
  <2>2. QED
    BY <2>1, <1>1, <1>2a, SumIsFold
<1>9. SumOf(a) = Fold(1, a, m + n)
  <2>1. m + n \in Nat
    BY <1>1
  <2>2. QED
    BY <2>1, <1>2, <1>3, SumIsFold
<1>10. Fold(1, s, m) \in Int /\ Fold(1, t, n) \in Int
  <2>1. (\A k \in 1 .. m : s[k] \in Int) /\ \A k \in 1 .. n : t[k] \in Int
    BY <1>1
  <2>2. QED
    BY <2>1, <1>1, <1>5, FoldInt
<1> DEFINE x == Fold(1, s, m)  z == Fold(1, t, n)
<1>11. Fold(1, a, m + n) = x * 1 + z /\ x \in Int /\ z \in Int
  BY <1>1, <1>6, <1>7, <1>10, ExpOfOne
<1> HIDE DEF x, z
<1>12. x * 1 + z = x + z
  BY <1>11
<1>13. QED
  BY <1>8, <1>9, <1>11, <1>12, Zenon DEF x, z, a

(* The digits above those in use add nothing.                                *)
LEMMA ZeroDigits ==
    ASSUME base \in Nat, base >= 2, NEW n \in Nat
    PROVE  SumOf(LowDigits(0, n)) = 0
<1> DEFINE t == LowDigits(0, n)  T == {k \in 0 .. n : Fold(1, t, k) = 0}
<1>1. Len(t) = n /\ \A k \in 1 .. n : t[k] = 0
  <2>1. 0 \in Nat
    OBVIOUS
  <2>2. t \in Seq(Nat) /\ Len(t) = n /\ \A k \in 1 .. n : t[k] = BaseDigit(base, 0, k - 1)
    BY <2>1, LowDigitsFacts
  <2>3. ASSUME NEW k \in 1 .. n PROVE BaseDigit(base, 0, k - 1) = 0
    <3>1. k - 1 \in Nat /\ base >= 1
      OBVIOUS
    <3>2. Exp(base, k - 1) \in Nat /\ Exp(base, k - 1) >= 1
      BY <3>1, ExpPositive
    <3>3. 0 < Exp(base, k - 1)
      BY <3>2
    <3>4. QED
      BY <2>1, <3>1, <3>3, PlaceFacts
  <2> HIDE DEF t
  <2>4. QED
    BY <2>2, <2>3
<1> HIDE DEF t
<1>2. 1 \in Int
  OBVIOUS
<1>3. 0 \in T
  BY <1>2, FoldNone
<1>4. ASSUME NEW k \in 0 .. n - 1, k \in T PROVE k + 1 \in T
  <2>1. k \in Nat /\ k + 1 \in 0 .. n /\ k + 1 \in 1 .. n /\ \A j \in 1 .. k + 1 : t[j] \in Int
    BY <1>1
  <2>2. Fold(1, t, k + 1) = Fold(1, t, k) * 1 + t[k + 1]
    BY <2>1, <1>2, FoldNext
  <2>3. QED
    BY <2>1, <2>2, <1>1, <1>4
<1> HIDE DEF T
<1>5. 0 .. n \subseteq T
  BY <1>3, <1>4, BoundedInduction
<1>6. Fold(1, t, n) = 0
  BY <1>5 DEF T
<1>7. \A k \in 1 .. n : t[k] \in Int
  BY <1>1
<1>8. SumOf(t) = Fold(1, t, n)
  BY <1>1, <1>7, SumIsFold
<1>9. QED
  BY <1>6, <1>8, Zenon DEF t

(* The special bases: the words above place k have been written, the top one *)
(* without leading zeros.                                                    *)
TopWord == DigitAt(Magnitude, arg.n.size - 1)
WordsWritten(k, out) ==
    /\ k \in 0 .. arg.n.size - 1 /\ out \in Seq(Nat)
    /\ ValueOf(out) = Magnitude \div Pow[k]
    /\ Len(out) = DigitsIn(TopWord) + p * (arg.n.size - 1 - k)

LEMMA WriteSizes ==
    ASSUME WriteArgs
    PROVE  LET s == arg.n.size  m == Magnitude
           IN  /\ s \in Nat /\ s >= 1 /\ s - 1 \in 0 .. MaxSize
               /\ Size(m) \in 1 .. MaxSize
               /\ s = Size(m) => s \in 1 .. MaxSize /\ m < Pow[s] /\ (s = 1 \/ m >= Pow[s - 1])
               /\ s # Size(m) => s >= 2 /\ m < Pow[s - 1]
<1> DEFINE s == arg.n.size  m == Magnitude  z == Size(m)
<1>1. m \in Nat /\ m < Pow[MaxSize] /\ MaxSize \in Nat /\ MaxSize >= 1
  BY MagnitudeFacts, MaxBitsFacts
<1>2. s = z \/ s = z + 1
  BY Zenon DEF WriteArgs
<1>3. z \in 1 .. MaxSize /\ m < Pow[z] /\ (z = 1 \/ m >= Pow[z - 1])
  <2> HIDE DEF m
  <2>1. QED
    BY <1>1, SizeFacts
<1> HIDE DEF s, m, z
<1>4. s \in Nat /\ s >= 1 /\ s - 1 \in 0 .. MaxSize
  BY <1>1, <1>2, <1>3
<1>5. s # z => s >= 2 /\ s - 1 = z
  BY <1>2, <1>3
<1>6. QED
  BY <1>3, <1>4, <1>5, Zenon DEF s, m, z

LEMMA TopWordFacts ==
    ASSUME WriteArgs
    PROVE  /\ TopWord = Magnitude \div Pow[arg.n.size - 1] /\ TopWord \in Nat /\ TopWord < Pow[MaxSize]
           /\ arg.n.size # Size(Magnitude) => TopWord = 0
           /\ arg.n.size = Size(Magnitude) /\ Magnitude # 0 => TopWord # 0
           /\ Magnitude = 0 => TopWord = 0
<1> DEFINE s == arg.n.size  m == Magnitude  k == s - 1  u == m \div Pow[k]  e == Pow[k]
<1>1. /\ s \in Nat /\ s >= 1 /\ s - 1 \in 0 .. MaxSize
      /\ s = Size(m) => s \in 1 .. MaxSize /\ m < Pow[s] /\ (s = 1 \/ m >= Pow[s - 1])
      /\ s # Size(m) => s >= 2 /\ m < Pow[s - 1]
  BY WriteSizes
<1>2. m \in Nat /\ B \in Nat /\ B >= 2 /\ MaxSize \in Nat /\ MaxSize >= 1
  BY MagnitudeFacts, MaxBitsFacts
<1>3. TopWord = u % B
  BY Zenon DEF TopWord, DigitAt
<1> HIDE DEF s, m
<1>4. k \in 0 .. MaxSize /\ e \in Nat /\ e > 0
  BY <1>1, PowPositive
<1>5. u = m \div e
  OBVIOUS
<1> HIDE DEF u, e
<1>6. u \in Nat /\ u * e <= m /\ m < (u + 1) * e
  BY <1>2, <1>4, <1>5, QuotientRemainder
<1>7. s # Size(m) => u = 0
  <2> SUFFICES ASSUME s # Size(m) PROVE u = 0
    OBVIOUS
  <2>1. m < e
    BY <1>1 DEF e
  <2>2. 0 * e <= m /\ m < (0 + 1) * e /\ 0 \in Int
    BY <2>1, <1>2, <1>4
  <2>3. QED
    BY <2>2, <1>2, <1>4, <1>5, QuotientUnique
<1>8. s = Size(m) => u < B
  <2> SUFFICES ASSUME s = Size(m) PROVE u < B
    OBVIOUS
  <2>1a. s \in 1 .. MaxSize /\ m < Pow[s]
    BY <1>1, Zenon
  <2>1b. k \in 0 .. MaxSize - 1 /\ k + 1 = s
    BY <2>1a, <1>2
  <2>1. k \in 0 .. MaxSize - 1 /\ m < Pow[s] /\ k + 1 = s
    BY <2>1a, <2>1b, Zenon
  <2>2. Pow[s] = B * e
    BY <2>1, PowAssumption DEF e
  <2>3. u * e <= m /\ m < B * e
    BY <2>1, <2>2, <1>6, Zenon
  <2>4. u * e < B * e
    <3> DEFINE a == u * e  c == B * e
    <3>1. a \in Int /\ c \in Int /\ a <= m /\ m < c
      BY <2>3, <1>2, <1>4, <1>6
    <3> HIDE DEF a, c
    <3>2. a < c
      BY <3>1, <1>2
    <3>3. QED
      BY <3>2 DEF a, c
  <2>5. QED
    BY <2>4, <1>2, <1>4, <1>6, MulCancel
<1>9. u < B
  <2>1. u = 0 => u < B
    BY <1>2
  <2>2. QED
    BY <2>1, <1>7, <1>8, Zenon
<1>10. TopWord = u
  BY <1>2, <1>3, <1>6, <1>9, ModSmall
<1>11. u < Pow[MaxSize]
  <2>1. 1 \in Nat /\ 1 <= MaxSize /\ 0 \in 0 .. MaxSize - 1 /\ 0 + 1 = 1 /\ 1 \in 0 .. MaxSize /\ MaxSize \in 0 .. MaxSize /\ MaxSize <= MaxSize
    BY <1>2
  <2>2. Pow[1] <= Pow[MaxSize] /\ Pow[1] \in Nat /\ Pow[MaxSize] \in Nat
    BY <2>1, <1>2, PowGrows, PowPositive
  <2>3. Pow[1] = B
    <3>1. Pow[0 + 1] = B * Pow[0] /\ Pow[0] = 1
      BY <2>1, PowAssumption, Zenon
    <3>2. QED
      BY <3>1, <2>1, <1>2
  <2>4. QED
    BY <2>2, <2>3, <1>6, <1>9
<1>12. s = Size(m) /\ m # 0 => u # 0
  <2> SUFFICES ASSUME s = Size(m), m # 0, u = 0 PROVE FALSE
    OBVIOUS
  <2>1. m < e
    BY <1>4, <1>6
  <2>2. s = 1
    BY <2>1, <1>1, <1>2, <1>4 DEF e
  <2>3. e = 1
    <3>1. k = 0
      BY <2>2
    <3>2. QED
      BY <3>1, PowAssumption DEF e
  <2>4. QED
    BY <2>1, <2>3, <1>2
<1>13. m = 0 => u = 0
  BY <1>4, <1>5
<1>14. QED
  BY <1>6, <1>7, <1>10, <1>11, <1>12, <1>13, <1>5, Zenon DEF s, m, e, k

(* The top word starts the text, every word below it adds p digits.          *)
LEMMA TopWritten ==
    ASSUME WriteArgs, base \in 2 .. 64, Special(base)
    PROVE  WordsWritten(arg.n.size - 1, Reversed(LowDigits(TopWord, DigitsIn(TopWord))))
<1> DEFINE u == TopWord  d == DigitsIn(u)  k == arg.n.size - 1  out == Reversed(LowDigits(u, d))
<1>1. u = Magnitude \div Pow[k] /\ u \in Nat /\ u < Pow[MaxSize] /\ base \in Nat
  BY TopWordFacts, MagnitudeFacts
<1>2. base >= 2
  BY <1>1
<1>3. arg.n.size \in Nat /\ arg.n.size >= 1
  BY WriteSizes
<1>4. k \in 0 .. k /\ arg.n.size - 1 - k = 0
  BY <1>3
<1>5. p * 0 = 0
  <2>1. base_power[base] \in 1 .. W /\ W \in Nat
    BY BasePowerFacts, MaxBitsFacts
  <2>2. QED
    BY <2>1 DEF p
<1> HIDE DEF u
<1>6. d = DigitsOf(base, u)
  BY Zenon DEF DigitsIn
<1> HIDE DEF d
<1>7. d \in Nat /\ u < Exp(base, d)
  <2>1. d \in 0 .. MaxBits /\ u < Exp(base, d)
    BY <1>1, <1>2, <1>6, DigitsFacts
  <2>2. d \in Nat
    BY <2>1, MaxBitsFacts
  <2>3. QED
    BY <2>1, <2>2
<1>8. out \in Seq(Nat) /\ Len(out) = d
  <2> DEFINE t == LowDigits(u, d)
  <2>1. t \in Seq(Nat) /\ Len(t) = d
    BY <1>1, <1>2, <1>7, LowDigitsFacts
  <2> HIDE DEF t
  <2>2. Reversed(t) \in Seq(Nat) /\ Len(Reversed(t)) = d
    BY <2>1, ReversedFacts
  <2>3. QED
    BY <2>2 DEF t
<1>9. ValueOf(out) = u
  <2>1. ValueOf(out) = u % Exp(base, d)
    BY <1>1, <1>2, <1>7, ValueOfLow
  <2>2. Exp(base, d) \in Nat
    <3>1. base >= 1
      BY <1>1, <1>2
    <3>2. QED
      BY <3>1, <1>1, <1>7, ExpPositive
  <2>3. u % Exp(base, d) = u
    BY <2>2, <1>1, <1>7, ModSmall
  <2>4. QED
    BY <2>1, <2>3, Zenon
<1> HIDE DEF out
<1>10. Len(out) = d + p * (arg.n.size - 1 - k)
  <2>1. d + 0 = d
    BY <1>7
  <2>2. QED
    BY <2>1, <1>4, <1>5, <1>8, Zenon
<1>11. WordsWritten(k, out)
  BY <1>1, <1>4, <1>8, <1>9, <1>10, Zenon DEF WordsWritten, d, u
<1>12. QED
  BY <1>11, Zenon DEF out, d, u

LEMMA WordWritten ==
    ASSUME WriteArgs, base \in 2 .. 64, Special(base), NEW k, NEW out, WordsWritten(k, out), k # 0
    PROVE  WordsWritten(k - 1, out \o Reversed(LowDigits(DigitAt(Magnitude, k - 1), p)))
<1> DEFINE m == Magnitude  s == arg.n.size  w == p  j == k - 1  d == DigitAt(m, j)
           l == DigitsIn(TopWord)  t == Reversed(LowDigits(d, w))
<1>1. m \in Nat /\ base \in Nat /\ s \in Nat /\ s >= 1 /\ s - 1 \in 0 .. MaxSize /\ MaxSize \in Nat
      /\ B \in Nat /\ B >= 2
  BY MagnitudeFacts, WriteSizes, MaxBitsFacts
<1>2. w \in Nat /\ w >= 1 /\ Exp(base, w) = B
  <2>1. base_power[base] \in 1 .. W /\ W \in Nat /\ Exp(base, base_power[base]) = B
    BY BasePowerFacts, MaxBitsFacts
  <2>2. QED
    BY <2>1 DEF p
<1>3. /\ k \in 0 .. s - 1 /\ out \in Seq(Nat)
      /\ ValueOf(out) = m \div Pow[k]
      /\ Len(out) = l + w * (s - 1 - k)
  BY Zenon DEF WordsWritten
<1>3a. Len(out) \in Nat
  BY <1>3, LenProperties
<1> HIDE DEF m, s, w
<1>4. j \in 0 .. s - 1 /\ j \in 0 .. MaxSize - 1 /\ j + 1 = k /\ base >= 2 /\ s - 1 - j = (s - 1 - k) + 1 /\ s - 1 - k \in Nat
  <2>1. k \in 0 .. s - 1
    BY <1>3, Zenon
  <2>2. QED
    BY <2>1, <1>1
<1> HIDE DEF j
<1>5. l \in Nat
  <2>1. TopWord \in Nat /\ TopWord < Pow[MaxSize]
    BY TopWordFacts
  <2>2. DigitsOf(base, TopWord) \in 0 .. MaxBits
    BY <2>1, <1>1, <1>4, DigitsFacts
  <2> DEFINE a == DigitsOf(base, TopWord)
  <2>3. a \in 0 .. MaxBits
    BY <2>2
  <2> HIDE DEF a
  <2>4. a \in Nat
    BY <2>3, MaxBitsFacts
  <2>5. QED
    BY <2>4, Zenon DEF a, DigitsIn
<1>6. d \in Nat /\ d < B
  <2>1. d \in Digit
    BY <1>1, <1>4, RestStep
  <2> HIDE DEF d
  <2>2. QED
    BY <2>1, <1>1 DEF Digit
<1>7. m \div Pow[j] = (m \div Pow[j + 1]) * B + d
  BY <1>1, <1>4, DigitSplit
<1> HIDE DEF d, l
<1>8. t \in Seq(Nat) /\ Len(t) = w
  <2> DEFINE low == LowDigits(d, w)
  <2>1. low \in Seq(Nat) /\ Len(low) = w
    BY <1>1, <1>2, <1>4, <1>6, LowDigitsFacts
  <2> HIDE DEF low
  <2>2. Reversed(low) \in Seq(Nat) /\ Len(Reversed(low)) = w
    BY <2>1, ReversedFacts
  <2>3. QED
    BY <2>2 DEF low
<1>9. ValueOf(t) = d
  <2>1. ValueOf(t) = d % Exp(base, w)
    BY <1>1, <1>2, <1>4, <1>6, ValueOfLow
  <2>2. d % B = d
    BY <1>1, <1>6, ModSmall
  <2>3. QED
    BY <2>1, <2>2, <1>2, Zenon
<1> HIDE DEF t
<1>10. /\ ValueOf(out \o t) = ValueOf(out) * Exp(base, Len(t)) + ValueOf(t)
       /\ out \o t \in Seq(Nat) /\ Len(out \o t) = Len(out) + Len(t)
  <2>1. out \in Seq(Nat)
    BY <1>3, Zenon
  <2>2. QED
    BY <2>1, <1>1, <1>8, ValueOfConcat
<1>11. ValueOf(out \o t) = m \div Pow[j]
  BY <1>2, <1>3, <1>4, <1>7, <1>8, <1>9, <1>10, Zenon
<1>12. Len(out \o t) = l + w * (s - 1 - j)
  <2> DEFINE i == s - 1 - k
  <2>1. Len(out \o t) = Len(out) + w /\ Len(out) = l + w * i /\ s - 1 - j = i + 1 /\ i \in Nat
    BY <1>3, <1>4, <1>8, <1>10, Zenon
  <2> HIDE DEF i
  <2>2. w * (i + 1) = w * i + w /\ w * i \in Int
    BY <2>1, <1>2
  <2> DEFINE a == w * i  o == Len(out)  o2 == Len(out \o t)
  <2>3. o2 = o + w /\ o = l + a /\ a \in Int
    BY <2>1, <2>2
  <2> HIDE DEF a, o, o2
  <2>4. o2 = l + (a + w)
    BY <2>3, <1>2, <1>5
  <2>5. QED
    BY <2>1, <2>2, <2>4, Zenon DEF a, o2
<1>13. WordsWritten(j, out \o t)
  BY <1>4, <1>10, <1>11, <1>12, Zenon DEF WordsWritten, m, s, w, l
<1>14. QED
  BY <1>13, Zenon DEF j, t, d, m, w

(* The digits have the value of the number, and as many places as expected.  *)
TextIs(t) ==
    /\ ValueOf(t) = Magnitude
    /\ Len(t) = IF Special(base) /\ ~Canonical([arg.n EXCEPT !.val = Magnitude]) THEN p * (arg.n.size - 1)
                ELSE IF Magnitude = 0 THEN 1 ELSE DigitsIn(Magnitude)

LEMMA CanonicalFacts ==
    ASSUME WriteArgs
    PROVE  Canonical([arg.n EXCEPT !.val = Magnitude]) <=> arg.n.size = Size(Magnitude)
<1> DEFINE m == Magnitude  x == arg.n  v == x.val  s == x.size  z == [x EXCEPT !.val = m]
<1>1. x = [val |-> v, size |-> s]
  BY Zenon DEF WriteArgs
<1>2. z.val = m /\ z.size = s
  <2> HIDE DEF m, x, v, s
  <2>1. QED
    BY <1>1
<1> HIDE DEF z
<1>3. Canonical(z) <=> s = Size(m)
  BY <1>2, Zenon DEF Canonical
<1>4. QED
  BY <1>3, Zenon DEF z

(* The text of zero is not empty.                                            *)
LEMMA TextFilled ==
    ASSUME WriteArgs, NEW out \in Seq(Nat), ValueOf(out) = Magnitude
    PROVE  LET t == Text(arg.n.val < 0, out)
           IN  /\ t.neg <=> arg.n.val < 0
               /\ ValueOf(t.digits) = Magnitude
               /\ Len(t.digits) = IF Len(out) = 0 THEN 1 ELSE Len(out)
<1> DEFINE neg == arg.n.val < 0  t == Text(neg, out)
<1>1. Magnitude \in Nat /\ (neg => Magnitude # 0) /\ base \in Nat /\ base \in Int
  BY MagnitudeFacts
<1>2. t.neg = neg /\ t.digits = IF out = <<>> /\ ~neg THEN <<0>> ELSE out
  <2>1. t = [neg |-> neg, digits |-> IF out = <<>> /\ ~neg THEN <<0>> ELSE out]
    BY Zenon DEF Text
  <2> HIDE DEF neg, t
  <2>2. QED
    BY <2>1
<1>3. Len(out) = 0 <=> out = <<>>
  BY EmptySeq
<1>4. ValueOf(out) = Fold(base, out, Len(out))
  BY ValueIsFold
<1>5. ASSUME out = <<>> PROVE Magnitude = 0 /\ ~neg
  <2>1. ValueOf(out) = Fold(base, out, 0)
    BY <1>3, <1>4, <1>5, Zenon
  <2>2. Fold(base, out, 0) = 0
    BY <1>1, FoldNone
  <2>3. Magnitude = 0
    BY <2>1, <2>2, Zenon
  <2>4. QED
    BY <2>3, <1>1, Zenon
<1>6. ValueOf(<<0>>) = 0 /\ Len(<<0>>) = 1
  <2> DEFINE u == <<0>>
  <2>1. Len(u) = 1 /\ u[1] = 0
    OBVIOUS
  <2> HIDE DEF u
  <2>2. 0 \in Nat /\ 0 + 1 = 1 /\ \A k \in 1 .. 0 + 1 : u[k] \in Int
    BY <2>1
  <2>3. Fold(base, u, 0 + 1) = Fold(base, u, 0) * base + u[0 + 1]
    BY <2>2, <1>1, FoldNext
  <2>4. Fold(base, u, 0) = 0
    BY <1>1, FoldNone
  <2>5. Fold(base, u, 1) = 0
    BY <2>1, <2>3, <2>4, <2>2, <1>1
  <2>6. ValueOf(u) = Fold(base, u, 1)
    BY <2>1, ValueIsFold, Zenon
  <2>7. QED
    BY <2>1, <2>5, <2>6 DEF u
<1> HIDE DEF neg, t
<1>7. CASE out = <<>>
  BY <1>2, <1>3, <1>5, <1>6, <1>7, Zenon DEF t, neg
<1>8. CASE out # <<>>
  BY <1>2, <1>3, <1>8, Zenon DEF t, neg
<1>9. QED
  BY <1>7, <1>8

LEMMA DigitsOfZero ==
    ASSUME base \in Nat, base >= 2
    PROVE  DigitsIn(0) = 0
<1>1. 0 \in Nat /\ 0 < Pow[MaxSize] /\ base \in Int
  <2>1. MaxSize \in 0 .. MaxSize
    BY MaxBitsFacts
  <2>2. QED
    BY <2>1, PowPositive
<1>2. 0 \div Exp(base, 0) = 0
  <2>1. Exp(base, 0) = 1
    BY <1>1, ExpFacts
  <2>2. QED
    BY <2>1
<1>3. QED
  BY <1>1, <1>2, DigitsUsed

(* All words written.                                                        *)
LEMMA WordsText ==
    ASSUME WriteArgs, base \in 2 .. 64, Special(base), NEW out, WordsWritten(0, out)
    PROVE  LET t == Text(arg.n.val < 0, out) IN (t.neg <=> arg.n.val < 0) /\ TextIs(t.digits)
<1> DEFINE m == Magnitude  s == arg.n.size  w == p  u == TopWord  l == DigitsIn(u)  n == w * (s - 1)  c == (s = Size(m))
<1>1. m \in Nat /\ base \in Nat /\ s \in Nat /\ s >= 1 /\ s - 1 \in 0 .. MaxSize /\ m < Pow[MaxSize]
      /\ (c => (s = 1 \/ m >= Pow[s - 1])) /\ (~c => s >= 2)
  BY MagnitudeFacts, WriteSizes, Zenon
<1>2. w \in Nat /\ w >= 1 /\ Exp(base, w) = B /\ B \in Nat
  <2>1. base_power[base] \in 1 .. W /\ W \in Nat /\ Exp(base, base_power[base]) = B /\ B \in Nat
    BY BasePowerFacts, MaxBitsFacts
  <2>2. QED
    BY <2>1 DEF p
<1>3. /\ u = m \div Pow[s - 1] /\ u \in Nat /\ u < Pow[MaxSize]
      /\ (~c => u = 0) /\ (c /\ m # 0 => u # 0) /\ (m = 0 => u = 0)
  BY TopWordFacts, Zenon
<1>4. base \in Int /\ base >= 2 /\ base >= 1
  BY <1>1
<1>5. out \in Seq(Nat) /\ ValueOf(out) = m \div Pow[0] /\ Len(out) = l + w * (s - 1 - 0)
  BY Zenon DEF WordsWritten
<1>6. Canonical([arg.n EXCEPT !.val = m]) <=> c
  BY CanonicalFacts, Zenon
<1> HIDE DEF m, s, w, u, c
<1>7. ValueOf(out) = m
  <2>1. m \div Pow[0] = m
    BY <1>1, PowAssumption
  <2>2. QED
    BY <2>1, <1>5, Zenon
<1>8. l = DigitsOf(base, u) /\ (u = 0 => l = 0)
  <2>1. l = DigitsOf(base, u)
    BY Zenon DEF DigitsIn
  <2>2. DigitsIn(0) = 0
    BY <1>1, <1>4, DigitsOfZero
  <2>3. QED
    BY <2>1, <2>2, Zenon
<1> HIDE DEF l
<1>9. l \in Nat /\ u < Exp(base, l) /\ (l = 0 \/ u >= Exp(base, l - 1))
  <2>1. l \in 0 .. MaxBits /\ u < Exp(base, l) /\ (l = 0 \/ u >= Exp(base, l - 1))
    BY <1>1, <1>3, <1>4, <1>8, DigitsFacts
  <2>2. l \in Nat
    BY <2>1, MaxBitsFacts
  <2>3. QED
    BY <2>1, <2>2
<1>10. n \in Nat /\ s - 1 - 0 = s - 1 /\ (s >= 2 => n >= 1) /\ (s = 1 => n = 0)
  <2>1. s - 1 \in Nat /\ s - 1 - 0 = s - 1
    BY <1>1
  <2>2. s >= 2 => n >= w * 1
    <3> SUFFICES ASSUME s >= 2 PROVE n >= w * 1
      OBVIOUS
    <3>1. 1 <= s - 1 /\ 1 \in Int /\ s - 1 \in Int
      BY <1>1
    <3>2. QED
      BY <3>1, <1>2, MulMonotone
  <2>3. n \in Nat
    BY <2>1, <1>2, ProductNat
  <2>4. s = 1 => n = 0
    BY <1>2
  <2> HIDE DEF n
  <2>5. QED
    BY <2>1, <2>2, <2>3, <2>4, <1>2
<1>11. Len(out) = l + n
  BY <1>5, <1>10, Zenon
<1>12. Exp(base, n) = Pow[s - 1]
  <2>1. s - 1 \in Nat
    BY <1>1
  <2>2. Exp(base, n) = Exp(B, s - 1)
    BY <2>1, <1>2, <1>4, ExpProduct
  <2>3. Pow[s - 1] = Exp(B, s - 1)
    BY <1>1, PowExp
  <2>4. QED
    BY <2>2, <2>3, Zenon
<1>12a. Exp(base, n) \in Nat /\ Exp(base, n) >= 1
  <2> HIDE DEF n
  <2>1. QED
    BY <1>1, <1>4, <1>10, ExpPositive
<1> HIDE DEF n
<1>13. LET z == IF Len(out) = 0 THEN 1 ELSE Len(out)
       IN  z = IF ~c THEN n ELSE IF m = 0 THEN 1 ELSE DigitsIn(m)
  <2>1. CASE ~c
    <3>1. l = 0 /\ n >= 1
      BY <2>1, <1>1, <1>3, <1>8, <1>10, Zenon
    <3>2. Len(out) = n /\ Len(out) # 0
      BY <3>1, <1>10, <1>11
    <3>3. QED
      BY <3>2, <2>1, Zenon
  <2>2. CASE c /\ m = 0
    <3>1. l = 0
      BY <2>2, <1>3, <1>8, Zenon
    <3>2. s = 1
      <4>1. s = 1 \/ m >= Exp(base, n)
        BY <2>2, <1>1, <1>12, Zenon
      <4>2. ~(m >= Exp(base, n))
        <5>1. m = 0
          BY <2>2
        <5>2. QED
          BY <5>1, <1>12a
      <4>3. QED
        BY <4>1, <4>2, Zenon
    <3>3. Len(out) = 0
      BY <3>1, <3>2, <1>10, <1>11
    <3>4. QED
      BY <3>3, <2>2, Zenon
  <2>3. CASE c /\ m # 0
    <3>1. u # 0
      BY <2>3, <1>3, Zenon
    <3>2. l # 0
      <4>1. Exp(base, 0) = 1
        <5>1. 0 \in Nat
          OBVIOUS
        <5>2. QED
          BY <5>1, <1>4, ExpFacts
      <4>2. u \in Nat /\ u < Exp(base, l)
        BY <1>3, <1>9, Zenon
      <4>3. l = 0 => u < 1
        BY <4>1, <4>2, Zenon
      <4>4. QED
        BY <4>2, <4>3, <3>1
    <3>3. l + n \in Nat /\ l - 1 \in Nat /\ l + n # 0 /\ (l + n) - 1 = (l - 1) + n
      BY <3>2, <1>9, <1>10
    <3> DEFINE e == Exp(base, n)  f == Exp(base, l)  g == Exp(base, l - 1)
    <3>4. e \in Nat /\ e > 0 /\ f \in Nat /\ g \in Nat /\ Exp(base, l + n) = f * e /\ Exp(base, (l + n) - 1) = g * e
      <4>1. e \in Nat /\ e >= 1 /\ f \in Nat /\ g \in Nat
        BY <3>3, <1>1, <1>4, <1>9, <1>10, ExpPositive
      <4>2. Exp(base, l + n) = f * e /\ Exp(base, (l - 1) + n) = g * e
        BY <3>3, <1>4, <1>9, <1>10, ExpSum
      <4> HIDE DEF e, f, g
      <4>3. e > 0
        BY <4>1
      <4>4. QED
        BY <4>1, <4>2, <4>3, <3>3, Zenon
    <3>5. u \in Nat /\ u < f /\ g <= u /\ u = m \div e
      <4>1. u < f /\ u >= g /\ u = m \div e /\ u \in Nat
        BY <3>2, <1>3, <1>9, <1>12, Zenon
      <4> HIDE DEF e, f, g
      <4>2. QED
        BY <4>1, <3>4
    <3> HIDE DEF e, f, g
    <3>6. u * e <= m /\ m < (u + 1) * e
      BY <3>4, <3>5, <1>1, QuotientRemainder
    <3>7. g * e <= u * e /\ (u + 1) * e <= f * e
      <4>1. u + 1 <= f /\ u + 1 \in Int /\ f \in Int /\ g \in Int /\ u \in Int
        BY <3>4, <3>5
      <4>2. QED
        BY <4>1, <3>4, <3>5, MulMonotone
    <3>8. g * e <= m /\ m < f * e
      <4> DEFINE a == g * e  b == u * e  h == (u + 1) * e  i == f * e
      <4>1. a \in Int /\ b \in Int /\ h \in Int /\ i \in Int
        BY <3>4, <3>5
      <4>2. a <= b /\ b <= m /\ m < h /\ h <= i
        BY <3>6, <3>7
      <4> HIDE DEF a, b, h, i
      <4>3. a <= m /\ m < i
        BY <4>1, <4>2, <1>1
      <4>4. QED
        BY <4>3 DEF a, i
    <3>8a. m >= Exp(base, (l + n) - 1) /\ m < Exp(base, l + n)
      <4> DEFINE a == g * e
      <4>1. a \in Int /\ a <= m
        BY <3>4, <3>8
      <4> HIDE DEF a
      <4>2. m >= a
        BY <4>1, <1>1
      <4>3. QED
        BY <4>2, <3>4, <3>8, Zenon DEF a
    <3>9. DigitsOf(base, m) = l + n
      BY <3>3, <3>8a, <1>1, <1>4, DigitsUnique
    <3>10. QED
      BY <3>3, <3>9, <2>3, <1>11, Zenon DEF DigitsIn
  <2>4. QED
    BY <2>1, <2>2, <2>3
<1>14. LET t == Text(arg.n.val < 0, out)
       IN  /\ t.neg <=> arg.n.val < 0
           /\ ValueOf(t.digits) = m
           /\ Len(t.digits) = IF Len(out) = 0 THEN 1 ELSE Len(out)
  BY <1>5, <1>7, TextFilled, Zenon DEF m
<1> DEFINE z == Text(arg.n.val < 0, out).digits
<1>15. TextIs(z)
  <2>1. ValueOf(z) = m /\ Len(z) = (IF Len(out) = 0 THEN 1 ELSE Len(out))
    BY <1>14, Zenon
  <2> HIDE DEF z
  <2>2. Len(z) = IF ~c THEN n ELSE IF m = 0 THEN 1 ELSE DigitsIn(m)
    BY <2>1, <1>13, Zenon
  <2>3. CASE c
    <3>1. Len(z) = IF m = 0 THEN 1 ELSE DigitsIn(m)
      BY <2>2, <2>3, Zenon
    <3>2. ~(Special(base) /\ ~Canonical([arg.n EXCEPT !.val = m]))
      BY <2>3, <1>6, Zenon
    <3>3. QED
      BY <2>1, <3>1, <3>2, Zenon DEF TextIs, m
  <2>4. CASE ~c
    <3>1. Len(z) = n
      BY <2>2, <2>4, Zenon
    <3>2. Special(base) /\ ~Canonical([arg.n EXCEPT !.val = m])
      BY <2>4, <1>6, Zenon
    <3>3. QED
      BY <2>1, <3>1, <3>2, Zenon DEF TextIs, m, n, w, s
  <2>5. QED
    BY <2>3, <2>4
<1>16. QED
  BY <1>14, <1>15, Zenon

(* All rounds made.                                                          *)
LEMMA RoundsText ==
    ASSUME WriteArgs, base \in 2 .. 64, ~Special(base), NEW n, NEW rest, NEW out, RoundsWritten(n, rest, out), rest = 0,
           NEW s, s = Reversed(LowDigits(Magnitude, DigitsIn(Magnitude)))
    PROVE  LET t == Text(arg.n.val < 0, s) IN (t.neg <=> arg.n.val < 0) /\ TextIs(t.digits)
<1> DEFINE m == Magnitude  d == DigitsIn(m)  low == LowDigits(m, d)
<1>1. m \in Nat /\ m < Pow[MaxSize] /\ base \in Nat
  BY MagnitudeFacts
<1>2. base >= 2
  BY <1>1
<1>3. n \in Nat /\ m \div Exp(base, n) = 0
  BY Zenon DEF RoundsWritten
<1> HIDE DEF m
<1>4. d \in 0 .. n /\ m % Exp(base, d) = m /\ (d = 0 <=> m = 0)
  BY <1>1, <1>2, <1>3, DigitsUsed
<1> HIDE DEF d
<1>5. d \in Nat
  BY <1>3, <1>4
<1>6. low \in Seq(Nat) /\ Len(low) = d
  BY <1>1, <1>2, <1>5, LowDigitsFacts
<1>7. ValueOf(Reversed(low)) = m
  <2>1. ValueOf(Reversed(low)) = m % Exp(base, d)
    BY <1>1, <1>2, <1>5, ValueOfLow
  <2>2. QED
    BY <2>1, <1>4, Zenon
<1>7a. s = Reversed(low)
  BY Zenon DEF m, d
<1> HIDE DEF low
<1>8. Reversed(low) \in Seq(Nat) /\ Len(Reversed(low)) = d
  BY <1>6, ReversedFacts
<1>9. s \in Seq(Nat) /\ Len(s) = d /\ ValueOf(s) = m
  BY <1>7, <1>7a, <1>8, Zenon
<1> DEFINE t == Text(arg.n.val < 0, s)
<1>10. /\ t.neg <=> arg.n.val < 0
       /\ ValueOf(t.digits) = m
       /\ Len(t.digits) = IF Len(s) = 0 THEN 1 ELSE Len(s)
  BY <1>9, TextFilled, Zenon DEF m
<1> DEFINE z == t.digits
<1>11. ValueOf(z) = m /\ Len(z) = IF m = 0 THEN 1 ELSE d
  BY <1>4, <1>9, <1>10, Zenon
<1> HIDE DEF z
<1>12. TextIs(z)
  BY <1>11, Zenon DEF TextIs, m, d
<1>13. QED
  BY <1>10, <1>12, Zenon DEF z

LEMMA RoundsSum ==
    ASSUME WriteArgs, base \in 2 .. 64, NEW n, NEW rest, NEW sum, RoundsAdded(n, rest, sum), rest = 0
    PROVE  sum = SumOf(LowDigits(Magnitude, DigitsIn(Magnitude)))
<1> DEFINE m == Magnitude  d == DigitsIn(m)  k == n - d
<1>1. m \in Nat /\ m < Pow[MaxSize] /\ base \in Nat
  BY MagnitudeFacts
<1>2. base >= 2 /\ base >= 1
  BY <1>1
<1>3. n \in Nat /\ m \div Exp(base, n) = 0 /\ sum = SumOf(LowDigits(m, n))
  BY Zenon DEF RoundsAdded
<1> HIDE DEF m
<1>4. d \in 0 .. n /\ m \div Exp(base, d) = 0
  BY <1>1, <1>2, <1>3, DigitsUsed
<1> HIDE DEF d
<1>5. d \in Nat /\ k \in Nat /\ d + k = n
  BY <1>3, <1>4
<1> HIDE DEF k
<1>6. LowDigits(m, d) \o LowDigits((m \div Exp(base, d)) % Exp(base, k), k) = LowDigits(m, d + k)
  BY <1>1, <1>2, <1>5, LowDigitsConcat
<1>7. 0 % Exp(base, k) = 0
  <2>1. Exp(base, k) \in Nat /\ Exp(base, k) >= 1
    BY <1>1, <1>2, <1>5, ExpPositive
  <2>2. QED
    BY <2>1
<1>8. LowDigits(m, d) \o LowDigits(0, k) = LowDigits(m, n)
  BY <1>4, <1>5, <1>6, <1>7, Zenon
<1>9. LowDigits(m, d) \in Seq(Nat) /\ LowDigits(0, k) \in Seq(Nat) /\ Len(LowDigits(m, d)) = d
      /\ \A j \in 1 .. d : LowDigits(m, d)[j] \in Nat
  <2>1. 0 \in Nat
    OBVIOUS
  <2>2. QED
    BY <2>1, <1>1, <1>2, <1>5, LowDigitsFacts
<1> DEFINE s == LowDigits(m, d)  t == LowDigits(0, k)
<1>10. SumOf(s \o t) = SumOf(s) + SumOf(t)
  <2> HIDE DEF s, t
  <2>1. s \in Seq(Nat) /\ t \in Seq(Nat)
    BY <1>9 DEF s, t
  <2>2. QED
    BY <2>1, SumOfConcat
<1>11. SumOf(t) = 0
  BY <1>1, <1>2, <1>5, ZeroDigits
<1>12. SumOf(s) \in Int
  <2>1. 1 \in Int /\ Len(s) = d /\ \A j \in 1 .. d : s[j] \in Int
    BY <1>9
  <2> HIDE DEF s
  <2>2. SumOf(s) = Fold(1, s, d) /\ Fold(1, s, d) \in Int
    BY <2>1, <1>5, SumIsFold, FoldInt
  <2>3. QED
    BY <2>2
<1> DEFINE x == SumOf(s)
<1>13. x + 0 = x
  <2> HIDE DEF x
  <2>1. x \in Int
    BY <1>12 DEF x
  <2>2. QED
    BY <2>1
<1>14. QED
  BY <1>3, <1>8, <1>10, <1>11, <1>13, Zenon DEF m, d

----------------------------------------------------------------------------
(* The calls of to_string and digit_sum.                                     *)
InPrint == fn \in {"to_string", "digit_sum"}

(* to_string returns the digits and the sign, digit_sum the sum of the       *)
(* digits.                                                                   *)
PrintReturned ==
    /\ fn = "to_string" => (result.neg <=> arg.n.val < 0) /\ TextIs(result.digits)
    /\ fn = "digit_sum" => result = SumOf(LowDigits(Magnitude, DigitsIn(Magnitude)))
(* What is refused: a base that is too small or too large.                   *)
PrintThrew == (fn = "to_string" => ~Legal(base)) /\ (fn = "digit_sum" => base \notin 2 .. 64)

(* What holds at each place of to_string and digit_sum.                      *)
PrintInv ==
    InPrint =>
        /\ WriteArgs
        /\ pc \in {"call", "rounds", "words", "sum", "returned", "threw"}
        /\ pc = "rounds" => Legal(base) /\ ~Special(base) /\ \E n : RoundsWritten(n, loc.q, loc.out)
        /\ pc = "words" => Legal(base) /\ Special(base) /\ WordsWritten(loc.k, loc.out)
        /\ pc = "sum" => base \in 2 .. 64 /\ \E n : RoundsAdded(n, loc.q, loc.sum)
        /\ pc = "returned" => PrintReturned
        /\ pc = "threw" => PrintThrew

LEMMA PrintStart == Init => PrintInv
<1>1. CASE WriteInit /\ StringsInit
  <2>1. PICK b \in TextBases, v \in Printed : \E k \in {Size(Abs(v)), Size(Abs(v)) + 1} :
            arg = [base |-> b, n |-> [val |-> v, size |-> k]]
    BY <1>1, Zenon DEF WriteInit
  <2>2. PICK k \in {Size(Abs(v)), Size(Abs(v)) + 1} : arg = [base |-> b, n |-> [val |-> v, size |-> k]]
    BY <2>1
  <2>3. b \in Nat /\ v \in Int /\ Abs(v) < Pow[MaxSize - 1]
    BY StringsAssumption, Zenon
  <2>4. arg.base = b /\ arg.n = [val |-> v, size |-> k] /\ arg.n.val = v /\ arg.n.size = k
    BY <2>2
  <2>5. WriteArgs
    BY <2>2, <2>3, <2>4, Zenon DEF WriteArgs, base, Magnitude
  <2>6. pc = "call"
    BY <1>1 DEF StringsInit
  <2>7. QED
    BY <2>5, <2>6 DEF PrintInv
<1>2. CASE ~(WriteInit /\ StringsInit)
  <2>1. Init => (WriteInit /\ StringsInit) \/ ~InPrint
    <3>1. RootsInit \/ CountingInit => ~InPrint
      BY DEF RootsInit, CountingInit, InPrint
    <3>2. LehmerInit \/ IntDivisionInit \/ PowersInit => ~InPrint
      BY DEF LehmerInit, IntDivisionInit, PowersInit, InPrint
    <3>3. StringsInit => WriteInit \/ ~InPrint
      BY DEF StringsInit, ReadInit, InPrint
    <3>4. QED
      BY <3>1, <3>2, <3>3 DEF Init
  <2>2. QED
    BY <2>1, <1>2 DEF PrintInv
<1>3. QED
  BY <1>1, <1>2

LEMMA RoundsStart ==
    ASSUME WriteArgs, base \in 2 .. 64
    PROVE  RoundsWritten(0, Magnitude, <<>>) /\ RoundsAdded(0, Magnitude, 0)
<1> DEFINE m == Magnitude
<1>1. m \in Nat /\ base \in Nat /\ base \in Int /\ base >= 2 /\ 0 \in Nat
  BY MagnitudeFacts
<1> HIDE DEF m
<1>2. Exp(base, 0) = 1
  BY <1>1, ExpFacts
<1>3. m \div 1 = m
  BY <1>1
<1>4. LowDigits(m, 0) \in Seq(Nat) /\ Len(LowDigits(m, 0)) = 0
  BY <1>1, LowDigitsFacts
<1> DEFINE t == LowDigits(m, 0)
<1>5. t = <<>>
  <2> HIDE DEF t
  <2>1. t \in Seq(Nat) /\ Len(t) = 0
    BY <1>4 DEF t
  <2>2. QED
    BY <2>1, EmptySeq
<1>6. SumOf(t) = 0
  <2>1. 1 \in Int /\ \A k \in 1 .. 0 : t[k] \in Int
    OBVIOUS
  <2> HIDE DEF t
  <2>2. SumOf(t) = Fold(1, t, 0)
    BY <2>1, <1>1, <1>4, SumIsFold DEF t
  <2>3. Fold(1, t, 0) = 0
    BY <2>1, FoldNone
  <2>4. QED
    BY <2>2, <2>3, Zenon
<1>7. QED
  BY <1>1, <1>2, <1>3, <1>5, <1>6, Zenon DEF RoundsWritten, RoundsAdded, m

LEMMA PrintStep == PrintInv /\ [Next]_vars => PrintInv'
<1> SUFFICES ASSUME PrintInv, [Next]_vars, InPrint PROVE PrintInv'
  BY StepsOfOne DEF PrintInv, InPrint
<1>1. fn' = fn /\ arg' = arg /\ (UNCHANGED vars \/ StringsNext)
  BY StepsOfOne DEF InPrint
<1>2. /\ WriteArgs
      /\ pc = "rounds" => Legal(base) /\ ~Special(base) /\ \E n : RoundsWritten(n, loc.q, loc.out)
      /\ pc = "words" => Legal(base) /\ Special(base) /\ WordsWritten(loc.k, loc.out)
      /\ pc = "sum" => base \in 2 .. 64 /\ \E n : RoundsAdded(n, loc.q, loc.sum)
      /\ pc = "returned" => PrintReturned
      /\ pc = "threw" => PrintThrew
      /\ pc \in {"call", "rounds", "words", "sum", "returned", "threw"}
  BY Zenon DEF PrintInv
<1>3. /\ base' = base /\ p' = p /\ Magnitude' = Magnitude /\ arg'.n = arg.n
      /\ (Legal(base))' <=> Legal(base)
      /\ (Special(base))' <=> Special(base)
      /\ \A d : DigitsIn(d)' = DigitsIn(d)
      /\ \A d, k : LowDigits(d, k)' = LowDigits(d, k)
      /\ \A t : ValueOf(t)' = ValueOf(t)
  <2>1. base' = base /\ Magnitude' = Magnitude /\ arg'.n = arg.n
    BY <1>1, Zenon DEF base, Magnitude
  <2>2. p' = p
    BY <2>1, Zenon DEF p, base_power
  <2>3. (Legal(base))' <=> Legal(base)
    BY <2>1, Zenon DEF Legal
  <2>4. (Special(base))' <=> Special(base)
    BY <2>1, Zenon DEF Special, division_base, base_power
  <2>5. (\A d : DigitsIn(d)' = DigitsIn(d)) /\ \A d, k : LowDigits(d, k)' = LowDigits(d, k)
    BY <2>1, Zenon DEF DigitsIn, LowDigits
  <2>6. \A t : ValueOf(t)' = ValueOf(t)
    BY <2>1, Zenon DEF ValueOf
  <2>7. QED
    BY <2>1, <2>2, <2>3, <2>4, <2>5, <2>6, Zenon
<1>4. WriteArgs' /\ TopWord' = TopWord
  BY <1>1, <1>2, <1>3, Zenon DEF WriteArgs, TopWord
<1>5. /\ \A n, rest, out : RoundsWritten(n, rest, out) => RoundsWritten(n, rest, out)'
      /\ \A n, rest, sum : RoundsAdded(n, rest, sum) => RoundsAdded(n, rest, sum)'
  BY <1>3, Zenon DEF RoundsWritten, RoundsAdded
<1>6. /\ \A k, out : WordsWritten(k, out) => WordsWritten(k, out)'
      /\ \A t : TextIs(t) => TextIs(t)'
      /\ PrintThrew => PrintThrew'
  <2>1. \A k, out : WordsWritten(k, out) => WordsWritten(k, out)'
    BY <1>3, <1>4, Zenon DEF WordsWritten
  <2>2. \A t : TextIs(t) => TextIs(t)'
    BY <1>3, Zenon DEF TextIs, Canonical
  <2>3. PrintThrew => PrintThrew'
    BY <1>1, <1>3, Zenon DEF PrintThrew
  <2>4. QED
    BY <2>1, <2>2, <2>3, Zenon
<1>7. (Legal(base) => base \in 2 .. 64) /\ (base \in 2 .. 64 => base' \in 2 .. 64)
  BY <1>3 DEF Legal
<1>8. ASSUME pc' = "rounds", NEW n, NEW rest, NEW k, NEW out, loc' = [q |-> rest, size |-> k, out |-> out],
             Legal(base), ~Special(base), RoundsWritten(n, rest, out)
      PROVE  PrintInv'
  <2>1. loc'.q = rest /\ loc'.out = out
    BY <1>8
  <2>2. pc' # "words" /\ pc' # "sum" /\ pc' # "returned" /\ pc' # "threw"
    BY <1>8
  <2>3. pc' \in {"call", "rounds", "words", "sum", "returned", "threw"}
    BY <1>8
  <2>4. RoundsWritten(n, rest, out)'
    BY <1>5, <1>8, Zenon
  <2>5. QED
    BY <1>3, <1>4, <1>8, <2>1, <2>2, <2>3, <2>4, Zenon DEF PrintInv
<1>9. ASSUME pc' = "words", NEW k, NEW out, loc' = [k |-> k, out |-> out], Legal(base), Special(base), WordsWritten(k, out)
      PROVE  PrintInv'
  <2>1. loc'.k = k /\ loc'.out = out
    BY <1>9
  <2>2. pc' # "rounds" /\ pc' # "sum" /\ pc' # "returned" /\ pc' # "threw"
    BY <1>9
  <2>3. pc' \in {"call", "rounds", "words", "sum", "returned", "threw"}
    BY <1>9
  <2>4. WordsWritten(k, out)'
    BY <1>6, <1>9, Zenon
  <2>5. QED
    BY <1>3, <1>4, <1>9, <2>1, <2>2, <2>3, <2>4, Zenon DEF PrintInv
<1>10. ASSUME pc' = "sum", NEW n, NEW rest, NEW sum, loc' = [q |-> rest, sum |-> sum], base \in 2 .. 64, RoundsAdded(n, rest, sum)
      PROVE  PrintInv'
  <2>1. loc'.q = rest /\ loc'.sum = sum
    BY <1>10
  <2>2. pc' # "rounds" /\ pc' # "words" /\ pc' # "returned" /\ pc' # "threw"
    BY <1>10
  <2>3. pc' \in {"call", "rounds", "words", "sum", "returned", "threw"}
    BY <1>10
  <2>4. RoundsAdded(n, rest, sum)'
    BY <1>5, <1>10, Zenon
  <2>5. QED
    BY <1>4, <1>7, <1>10, <2>1, <2>2, <2>3, <2>4, Zenon DEF PrintInv
<1>11. ASSUME pc' = "returned", NEW x, res' = <<x>>,
              fn = "to_string" => (x.neg <=> arg.n.val < 0) /\ TextIs(x.digits),
              fn = "digit_sum" => x = SumOf(LowDigits(Magnitude, DigitsIn(Magnitude)))
       PROVE  PrintInv'
  <2>1. result' = x
    BY <1>11 DEF result
  <2>2. PrintReturned'
    BY <1>1, <1>3, <1>6, <1>11, <2>1, Zenon DEF PrintReturned
  <2>3. pc' # "rounds" /\ pc' # "words" /\ pc' # "sum" /\ pc' # "threw"
    BY <1>11
  <2>4. pc' \in {"call", "rounds", "words", "sum", "returned", "threw"}
    BY <1>11
  <2>5. QED
    BY <1>4, <2>2, <2>3, <2>4, Zenon DEF PrintInv
<1>12. ASSUME pc' = "threw", PrintThrew PROVE PrintInv'
  <2>1. pc' # "rounds" /\ pc' # "words" /\ pc' # "sum" /\ pc' # "returned"
    BY <1>12
  <2>2. pc' \in {"call", "rounds", "words", "sum", "returned", "threw"}
    BY <1>12
  <2>3. QED
    BY <1>4, <1>6, <1>12, <2>1, <2>2, Zenon DEF PrintInv
<1>13. CASE UNCHANGED vars
  <2>1. fn' = fn /\ pc' = pc /\ loc' = loc /\ res' = res /\ arg' = arg
    BY <1>13, Zenon DEF vars
  <2>2. pc = "rounds" => \E n : RoundsWritten(n, loc.q, loc.out)'
    BY <1>2, <1>5, <2>1, Zenon
  <2>3. pc = "sum" => \E n : RoundsAdded(n, loc.q, loc.sum)'
    BY <1>2, <1>5, <2>1, Zenon
  <2>4. pc = "words" => WordsWritten(loc.k, loc.out)'
    BY <1>2, <1>6, <2>1, Zenon
  <2>5. result' = result
    BY <2>1, Zenon DEF result
  <2>6. PrintReturned => PrintReturned'
    BY <1>1, <1>3, <1>6, <2>1, <2>5, Zenon DEF PrintReturned
  <2>7. QED
    BY <1>2, <1>3, <1>4, <1>6, <1>7, <2>1, <2>2, <2>3, <2>4, <2>6, Zenon DEF PrintInv
<1>14. Magnitude \in Nat /\ base \in Nat /\ base \in Int
  BY <1>2, MagnitudeFacts
<1>15. CASE ToString
  <2>1. fn = "to_string" /\ fn # "digit_sum"
    BY <1>15 DEF ToString, Called
  <2>2. CASE ~Legal(base)
    <3>1. pc' = "threw" /\ PrintThrew
      BY <1>15, <2>1, <2>2, Zenon DEF ToString, Throw, PrintThrew
    <3>2. QED
      BY <3>1, <1>12, Zenon
  <2>3. CASE Legal(base) /\ ~Special(base)
    <3>1. pc' = "rounds" /\ loc' = [q |-> Magnitude, size |-> arg.n.size, out |-> <<>>]
      BY <1>15, <2>3, Zenon DEF ToString, Enter
    <3>2. RoundsWritten(0, Magnitude, <<>>)
      BY <1>2, <1>7, <2>3, RoundsStart, Zenon
    <3>3. QED
      BY <1>8, <2>3, <3>1, <3>2, Zenon
  <2>4. CASE Legal(base) /\ Special(base)
    <3> DEFINE out == Reversed(LowDigits(TopWord, DigitsIn(TopWord)))  k == arg.n.size - 1
    <3>1. pc' = "words" /\ loc' = [k |-> k, out |-> out]
      BY <1>15, <2>4, Zenon DEF ToString, Enter, TopWord
    <3>2. WordsWritten(k, out)
      BY <1>2, <1>7, <2>4, TopWritten, Zenon
    <3> HIDE DEF out, k
    <3>3. QED
      BY <1>9, <2>4, <3>1, <3>2, Zenon
  <2>5. QED
    BY <2>2, <2>3, <2>4
<1>16. CASE PrintRound
  <2> DEFINE e == division_base[base]  quo == loc.q \div e  t == loc.out \o LowDigits(loc.q % e, p)
  <2>1. pc = "rounds" /\ pc' = "rounds" /\ loc' = [q |-> quo, size |-> Size(quo), out |-> t]
    BY <1>16, Zenon DEF PrintRound, Enter
  <2>2. Legal(base) /\ ~Special(base) /\ base \in 2 .. 64
    BY <1>2, <1>7, <2>1, Zenon
  <2>3. PICK n : RoundsWritten(n, loc.q, loc.out)
    BY <1>2, <2>1, Zenon
  <2>4. n \in Nat /\ loc.q = Magnitude \div Exp(base, n) /\ loc.out = LowDigits(Magnitude, n)
    BY <2>3, Zenon DEF RoundsWritten
  <2>5. e = Exp(base, p)
    BY <2>2, BasePowerFacts, Zenon DEF p
  <2> HIDE DEF e
  <2>6. /\ n + p \in Nat /\ quo = Magnitude \div Exp(base, n + p)
        /\ LowDigits(Magnitude, n) \o LowDigits(loc.q % e, p) = LowDigits(Magnitude, n + p)
    <3> DEFINE q0 == loc.q
    <3>1. q0 = Magnitude \div Exp(base, n)
      BY <2>4
    <3> HIDE DEF q0
    <3>2. /\ n + p \in Nat /\ q0 \div e = Magnitude \div Exp(base, n + p)
          /\ LowDigits(Magnitude, n) \o LowDigits(q0 % e, p) = LowDigits(Magnitude, n + p)
      BY <1>2, <2>2, <2>4, <2>5, <3>1, ChunkWritten, Zenon
    <3>3. QED
      BY <3>2, Zenon DEF q0
  <2>7. RoundsWritten(n + p, quo, t)
    BY <2>4, <2>6, Zenon DEF RoundsWritten
  <2> HIDE DEF quo, t
  <2>8. QED
    BY <1>8, <2>1, <2>2, <2>7, Zenon
<1>17. CASE PrintEnd
  <2> DEFINE used == CHOOSE k \in 0 .. Len(loc.out) :
                    /\ \A j \in k + 1 .. Len(loc.out) : loc.out[j] = 0
                    /\ k = 0 \/ loc.out[k] # 0
             t == Text(arg.n.val < 0, Reversed(SubSeq(loc.out, 1, used)))
  <2>1. fn = "to_string" /\ fn # "digit_sum" /\ pc = "rounds" /\ loc.q = 0
    BY <1>17 DEF PrintEnd
  <2>2. pc' = "returned" /\ res' = <<t>>
    BY <1>17, Zenon DEF PrintEnd, Return
  <2>3. Legal(base) /\ ~Special(base) /\ base \in 2 .. 64
    BY <1>2, <1>7, <2>1, Zenon
  <2>4. PICK n : RoundsWritten(n, loc.q, loc.out)
    BY <1>2, <2>1, Zenon
  <2>5. t = Text(arg.n.val < 0, Reversed(LowDigits(Magnitude, DigitsIn(Magnitude))))
    <3> DEFINE d == DigitsIn(Magnitude)
    <3>0. base >= 2
      <4>1. base \in 2 .. 64
        BY <2>3, Zenon
      <4>2. QED
        BY <4>1
    <3>1. used = d /\ SubSeq(loc.out, 1, d) = LowDigits(Magnitude, d)
      BY <3>0, <1>2, <2>1, <2>4, LastUsed, Zenon
    <3> HIDE DEF used, d
    <3>2. QED
      BY <3>1, Zenon DEF d
  <2>6. (t.neg <=> arg.n.val < 0) /\ TextIs(t.digits)
    BY <1>2, <2>1, <2>3, <2>4, <2>5, RoundsText, Zenon
  <2> HIDE DEF t
  <2>7. QED
    BY <1>11, <2>1, <2>2, <2>6, Zenon
<1>18. CASE PrintWord
  <2> DEFINE k == loc.k  out == loc.out  j == k - 1  t == out \o Reversed(LowDigits(DigitAt(Magnitude, j), p))
  <2>1. pc = "words" /\ k > 0 /\ pc' = "words" /\ loc' = [k |-> j, out |-> t]
    BY <1>18, Zenon DEF PrintWord, Enter
  <2>2. Legal(base) /\ Special(base) /\ WordsWritten(k, out) /\ base \in 2 .. 64
    BY <1>2, <1>7, <2>1, Zenon
  <2>3. k # 0
    <3>1. k > 0
      BY <2>1, Zenon
    <3> HIDE DEF k
    <3>2. QED
      BY <3>1
  <2>4. WordsWritten(j, t)
    BY <1>2, <2>2, <2>3, WordWritten, Zenon
  <2> HIDE DEF j, t
  <2>5. QED
    BY <1>9, <2>1, <2>2, <2>4, Zenon
<1>19. CASE PrintWordsEnd
  <2> DEFINE t == Text(arg.n.val < 0, loc.out)
  <2>1. fn = "to_string" /\ fn # "digit_sum" /\ pc = "words" /\ loc.k = 0
    BY <1>19 DEF PrintWordsEnd
  <2>2. pc' = "returned" /\ res' = <<t>>
    BY <1>19, Zenon DEF PrintWordsEnd, Return
  <2>3. Special(base) /\ base \in 2 .. 64 /\ WordsWritten(0, loc.out)
    BY <1>2, <1>7, <2>1, Zenon
  <2>4. (t.neg <=> arg.n.val < 0) /\ TextIs(t.digits)
    BY <1>2, <2>3, WordsText, Zenon
  <2> HIDE DEF t
  <2>5. QED
    BY <1>11, <2>1, <2>2, <2>4, Zenon
<1>20. CASE DigitSum
  <2>1. fn = "digit_sum" /\ fn # "to_string"
    BY <1>20 DEF DigitSum, Called
  <2>2. CASE base \notin 2 .. 64
    <3>1. pc' = "threw" /\ PrintThrew
      BY <1>20, <2>1, <2>2, Zenon DEF DigitSum, Throw, PrintThrew
    <3>2. QED
      BY <3>1, <1>12, Zenon
  <2>3. CASE base \in 2 .. 64
    <3>1. pc' = "sum" /\ loc' = [q |-> Magnitude, sum |-> 0]
      BY <1>20, <2>3, Zenon DEF DigitSum, Enter
    <3>2. RoundsAdded(0, Magnitude, 0)
      BY <1>2, <2>3, RoundsStart, Zenon
    <3>3. QED
      BY <1>10, <2>3, <3>1, <3>2, Zenon
  <2>4. QED
    BY <2>2, <2>3
<1>21. CASE SumRound
  <2> DEFINE q0 == loc.q  s == loc.sum  e == Exp(base, p)  quo == q0 \div e  v == s + SumOf(LowDigits(q0 % e, p))
  <2>1. pc = "sum"
    BY <1>21 DEF SumRound
  <2>2. base \in 2 .. 64
    BY <1>2, <2>1, Zenon
  <2>3. (Special(base) => e = B) /\ (~Special(base) => e = division_base[base])
    BY <2>2, BasePowerFacts, Zenon DEF p
  <2>4. PICK n : RoundsAdded(n, q0, s)
    BY <1>2, <2>1, Zenon
  <2>5. n \in Nat /\ q0 = Magnitude \div Exp(base, n) /\ s = SumOf(LowDigits(Magnitude, n))
    BY <2>4, Zenon DEF RoundsAdded
  <2>6. pc' = "sum" /\ loc' = [q |-> quo, sum |-> v]
    <3>1. pc' = "sum"
      BY <1>21, Zenon DEF SumRound, Enter
    <3>2. loc' = [q |-> IF Special(base) THEN q0 \div B ELSE q0 \div division_base[base],
                  sum |-> s + SumOf(LowDigits(IF Special(base) THEN q0 % B ELSE q0 % division_base[base], p))]
      BY <1>21, Zenon DEF SumRound, Enter
    <3> HIDE DEF q0, s, e
    <3>3. CASE Special(base)
      BY <2>3, <3>1, <3>2, <3>3, Zenon
    <3>4. CASE ~Special(base)
      BY <2>3, <3>1, <3>2, <3>4, Zenon
    <3>5. QED
      BY <3>3, <3>4
  <2> HIDE DEF q0, s, e
  <2>7. /\ n + p \in Nat /\ quo = Magnitude \div Exp(base, n + p)
        /\ LowDigits(Magnitude, n) \o LowDigits(q0 % e, p) = LowDigits(Magnitude, n + p)
        /\ LowDigits(Magnitude, n) \in Seq(Nat) /\ LowDigits(q0 % e, p) \in Seq(Nat)
    <3>1. e = Exp(base, p)
      BY DEF e
    <3>2. QED
      BY <1>2, <2>2, <2>5, <3>1, ChunkWritten, Zenon
  <2>8. v = SumOf(LowDigits(Magnitude, n + p))
    <3> DEFINE x == LowDigits(Magnitude, n)  z == LowDigits(q0 % e, p)
    <3>1. x \in Seq(Nat) /\ z \in Seq(Nat) /\ x \o z = LowDigits(Magnitude, n + p)
      BY <2>7, Zenon
    <3>2. s = SumOf(x) /\ v = s + SumOf(z)
      BY <2>5, Zenon
    <3> HIDE DEF x, z, v
    <3>3. SumOf(x \o z) = SumOf(x) + SumOf(z)
      BY <3>1, SumOfConcat
    <3>4. QED
      BY <3>1, <3>2, <3>3, Zenon
  <2>9. RoundsAdded(n + p, quo, v)
    BY <2>7, <2>8, Zenon DEF RoundsAdded
  <2> HIDE DEF quo, v
  <2>10. QED
    BY <1>10, <2>2, <2>6, <2>9, Zenon
<1>22. CASE SumEnd
  <2>1. fn = "digit_sum" /\ fn # "to_string" /\ pc = "sum" /\ loc.q = 0
    BY <1>22 DEF SumEnd
  <2>2. pc' = "returned" /\ res' = <<loc.sum>>
    BY <1>22, Zenon DEF SumEnd, Return
  <2>3. base \in 2 .. 64 /\ \E n : RoundsAdded(n, loc.q, loc.sum)
    BY <1>2, <2>1, Zenon
  <2>4. loc.sum = SumOf(LowDigits(Magnitude, DigitsIn(Magnitude)))
    BY <1>2, <2>1, <2>3, RoundsSum, Zenon
  <2>5. QED
    BY <1>11, <2>1, <2>2, <2>4, Zenon
<1>23. CASE FromString \/ ReadChunk \/ ReadChunksEnd \/ ReadWindow \/ ReadWindowsEnd
  <2>1. fn = "from_string"
    BY <1>23 DEF FromString, ReadChunk, ReadChunksEnd, ReadWindow, ReadWindowsEnd, Called
  <2>2. QED
    BY <2>1 DEF InPrint
<1>24. QED
  BY <1>1, <1>13, <1>15, <1>16, <1>17, <1>18, <1>19, <1>20, <1>21, <1>22, <1>23, Zenon DEF StringsNext

(* In every reachable state of to_string and digit_sum the invariant holds.  *)
THEOREM PrintInductive == Spec => []PrintInv
<1>1. Init => PrintInv
  BY PrintStart
<1>2. PrintInv /\ [Next]_vars => PrintInv'
  BY PrintStep
<1>3. QED
  BY <1>1, <1>2, PTL DEF Spec

(* The text of a number has its value and its sign, in every base, and       *)
(* digit_sum adds the digits of that text.                                   *)
THEOREM PrintsAlwaysValue == Spec => []PrintsValue
<1>1. PrintInv => PrintsValue
  BY Zenon DEF PrintInv, InPrint, PrintsValue, PrintReturned, PrintThrew, TextIs, Returned, Threw
<1>2. QED
  BY <1>1, PrintInductive, PTL
=============================================================================
