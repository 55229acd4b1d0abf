---------------------------- MODULE Multiply_proofs ----------------------------
(* Proofs about Multiply and, from KInv on, about Karatsuba, for every base, *)
(* every number of digits and every aliasing the asserts of mul allow.       *)
EXTENDS Karatsuba, WordLemmas, SequenceTheorems

----------------------------------------------------------------------------
(* Arithmetic of one step of the inner loops.                                *)

LEMMA DigitQuotient ==
    ASSUME NEW p \in Nat
    PROVE  /\ p % B \in Digit /\ p \div B \in Nat
           /\ p = (p \div B) * B + (p % B)
  BY BAssumption DEF Digit

LEMMA SquareOfBase ==
    ASSUME NEW x \in Digit, NEW k \in Digit
    PROVE  x * k \in Nat /\ x * k <= (B - 2) * B + 1
<1>1. x \in Nat /\ k \in Nat /\ x <= B - 1 /\ k <= B - 1 /\ B - 1 \in Nat
  BY BAssumption DEF Digit
<1>2. x * k <= (B - 1) * k
  BY <1>1
<1>3. (B - 1) * k <= (B - 1) * (B - 1)
  BY <1>1
<1>4. (B - 1) * (B - 1) = (B - 2) * B + 1
  BY BAssumption
<1>5. x * k \in Nat
  BY <1>1
<1>6. (B - 1) * k \in Int /\ (B - 1) * (B - 1) \in Int
  BY <1>1
<1>7. QED
  BY <1>2, <1>3, <1>4, <1>5, <1>6

(* Numbers that differ by less than a digit have ordered quotients.          *)
LEMMA QuotientBound ==
    ASSUME NEW h \in Int, NEW m \in Int, NEW q \in Int, NEW l \in Int,
           h * B + l <= q * B + m, l >= 0, m < B
    PROVE  h <= q
<1> SUFFICES ASSUME h >= q + 1 PROVE FALSE
  OBVIOUS
<1>1. h * B >= (q + 1) * B
  BY BAssumption
<1>2. (q + 1) * B = q * B + B
  BY BAssumption
<1>3. h * B \in Int /\ q * B \in Int
  BY BAssumption
<1>4. QED
  BY <1>1, <1>2, <1>3, BAssumption

(* _mul_naive_ignore_sign: digit and carry hold the product and the carry.   *)
LEMMA MulStepExact ==
    ASSUME NEW x \in Digit, NEW k \in Digit, NEW carry \in Digit
    PROVE  /\ MulDigit(x, k, carry) \in Digit
           /\ MulCarry(x, k, carry) \in Digit
           /\ MulDigit(x, k, carry) + MulCarry(x, k, carry) * B = x * k + carry
<1> DEFINE p == x * k  l == p % B  h == p \div B
           m == WrapAdd(l, carry)
           o == Flag(m < carry)
<1>1. p \in Nat /\ p <= (B - 2) * B + 1
  BY SquareOfBase
<1>2. MulDigit(x, k, carry) = m /\ MulCarry(x, k, carry) = WrapAdd(h, o)
  BY DEF MulDigit, MulCarry, Lo, Hi
<1> HIDE DEF p
<1>3. l \in Digit /\ h \in Nat /\ p = h * B + l
  BY <1>1, DigitQuotient
<1> HIDE DEF l, h
<1>4. h <= B - 2
  BY <1>1, <1>3, BAssumption, QuotientBound DEF Digit
<1>5. m \in Digit /\ m = IF l + carry < B THEN l + carry ELSE l + carry - B
  BY <1>3, WrapAddValue
<1> HIDE DEF m
<1>6. o \in {0, 1} /\ m + o * B = l + carry
  BY <1>3, <1>5, BAssumption DEF Flag, Digit
<1> HIDE DEF o
<1>7. h \in Digit /\ o \in Digit /\ h + o < B
  BY <1>3, <1>4, <1>6, BAssumption DEF Digit
<1>8. WrapAdd(h, o) = h + o /\ h + o \in Digit
  BY <1>7, WrapAddValue, BAssumption DEF Digit
<1>9. (h + o) * B = h * B + o * B
  BY <1>7, BAssumption DEF Digit
<1>10. m + (h + o) * B = p + carry
  <2>1. /\ h * B \in Int /\ o * B \in Int /\ m \in Int /\ l \in Int /\ carry \in Int
        /\ p \in Int /\ h \in Int /\ o \in Int
    BY <1>1, <1>3, <1>5, <1>7, BAssumption DEF Digit
  <2>2. ASSUME NEW u \in Int, NEW v \in Int, p = u + l, m + v = l + carry
        PROVE  m + (u + v) = p + carry
    BY <2>1, <2>2
  <2>3. m + (h * B + o * B) = p + carry
    BY <2>1, <2>2, <1>3, <1>6
  <2>4. QED
    BY <2>3, <1>9
<1>11. QED
  BY <1>2, <1>5, <1>8, <1>10 DEF p

(* _addmul_naive_ignore_sign: the same with a digit added, which cannot      *)
(* overflow the carry either.                                                *)
LEMMA AddMulStepExact ==
    ASSUME NEW old \in Digit, NEW x \in Digit, NEW k \in Digit, NEW carry \in Digit
    PROVE  /\ AddMulDigit(old, x, k, carry) \in Digit
           /\ AddMulCarry(old, x, k, carry) \in Digit
           /\ AddMulDigit(old, x, k, carry) + AddMulCarry(old, x, k, carry) * B
                  = old + x * k + carry
<1> DEFINE p == x * k
           m == MulDigit(x, k, carry)
           h == MulCarry(x, k, carry)
           s == WrapAdd(old, m)
           o == Flag(s < m)
<1>1. p \in Nat /\ p <= (B - 2) * B + 1
  BY SquareOfBase
<1>2. m \in Digit /\ h \in Digit /\ m + h * B = p + carry
  BY MulStepExact
<1>3. AddMulDigit(old, x, k, carry) = s /\ AddMulCarry(old, x, k, carry) = WrapAdd(h, o)
  BY DEF AddMulDigit, AddMulCarry
<1> HIDE DEF p, m, h
<1>4. s \in Digit /\ s = IF old + m < B THEN old + m ELSE old + m - B
  BY <1>2, WrapAddValue
<1> HIDE DEF s
<1>5. o \in {0, 1} /\ s + o * B = old + m
  BY <1>2, <1>4, BAssumption DEF Flag, Digit
<1> HIDE DEF o
<1>6. h * B \in Int /\ o * B \in Int /\ p \in Int /\ carry \in Int /\ old \in Int /\ s \in Int
      /\ m \in Int /\ h \in Int /\ o \in Int
  BY <1>1, <1>2, <1>4, <1>5, BAssumption DEF Digit
<1>7. (h + o) * B = h * B + o * B
  BY <1>6, BAssumption
<1>8. s + (h + o) * B = old + p + carry
  BY <1>2, <1>5, <1>6, <1>7
<1>9. h + o <= B - 1
  <2>1. (B - 2) * B + 1 + (B - 1) + (B - 1) = (B - 1) * B + (B - 1)
    BY BAssumption
  <2>2. old <= B - 1 /\ carry <= B - 1 /\ s >= 0 /\ (B - 2) * B \in Int /\ (B - 1) * B \in Int
        /\ (h + o) * B \in Int
    BY <1>4, <1>6, BAssumption DEF Digit
  <2>3. (h + o) * B + s <= (B - 1) * B + (B - 1)
    BY <1>1, <1>6, <1>8, <2>1, <2>2, BAssumption
  <2>4. QED
    BY <1>6, <2>2, <2>3, BAssumption, QuotientBound
<1>10. o \in Digit
  BY <1>5, BAssumption DEF Digit
<1>11. WrapAdd(h, o) = h + o /\ h + o \in Digit
  BY <1>2, <1>9, <1>10, WrapAddValue, BAssumption DEF Digit
<1>12. QED
  BY <1>3, <1>4, <1>8, <1>11 DEF p

----------------------------------------------------------------------------
(* The inductive invariant.                                                  *)

Working == {"row", "karatsuba", "sign"}

(* The digit of the short operand the row j multiplies by, and what the rows *)
(* before it have multiplied by.                                             *)
RowDigit == IF byWord THEN word ELSE digs[short][j]
Factor(n) == IF byWord THEN (IF n = 0 THEN 0 ELSE word) ELSE Value(digs[short], n)
Whole == IF byWord THEN word ELSE Before(short)

Typed ==
    /\ TypeOK
    /\ digs \in [Objs -> [Index -> Digit]]
    /\ size0 \in [Objs -> 1 .. MaxDigits]
    /\ neg0 \in [Objs -> BOOLEAN]

(* Sizes and counters of every phase.                                        *)
Phase ==
    /\ pc = "call" => digs = cell /\ size0 = size /\ i = 0 /\ j = 0 /\ c = 0 /\ cur = 0 /\ prod = 0 /\ ~swapped
    /\ pc # "done" => neg = neg0
    /\ byWord => ~swapped
    /\ pc \in Working =>
          /\ na = size0[long] /\ nb \in 1 .. na /\ size[result] = na + nb
          /\ nb = IF byWord THEN 1 ELSE size0[short]
    /\ pc = "row" => i \in 0 .. na /\ j \in 0 .. nb - 1 /\ (i = 0 => c = 0)
    /\ pc = "karatsuba" => j = 0 /\ ~byWord
    /\ pc = "sign" => j \in {0, nb}

(* Operands that are not the result keep their digits; one that is keeps     *)
(* those the only row has not read.                                          *)
Operands ==
    /\ ~byWord => cell[alias[2]] = digs[alias[2]] /\ cell[alias[3]] = digs[alias[3]]
    /\ pc = "row" => \A k \in i .. na - 1 : cell[long][k] = digs[long][k]

(* What cur and prod stand for.                                              *)
Totals ==
    pc = "row" =>
        /\ cur = Value(cell[result], IF j = 0 THEN i ELSE na + j)
        /\ prod = Before(long) * Factor(j) + Value(digs[long], i) * (RowDigit * Pow[j])

Kept == pc = "sign" => Value(cell[result], na + nb) = Before(long) * Whole

Answer == ResultExact

IInv == Typed /\ Phase /\ Operands /\ Conservation /\ Totals /\ Kept /\ Answer

----------------------------------------------------------------------------
(* The size cleanup() leaves: no digit above it, and a top digit.            *)
LEMMA CleanSize ==
    ASSUME NEW d \in [Index -> Digit], NEW n \in 1 .. MaxSize, NEW k,
           k = CHOOSE m \in 1 .. n : /\ \A p \in m .. n - 1 : d[p] = 0
                                     /\ m = 1 \/ d[m - 1] # 0
    PROVE  k \in 1 .. n /\ (\A p \in k .. n - 1 : d[p] = 0) /\ (k = 1 \/ d[k - 1] # 0)
<1> DEFINE T == {m \in 1 .. n : \A p \in m .. n - 1 : d[p] = 0}
<1>1. n \in Nat /\ n \in T /\ T \subseteq Nat
  BY PowAssumption
<1>2. PICK m \in T : \A q \in T : m <= q
  BY <1>1, LeastNat
<1>3. m = 1 \/ d[m - 1] # 0
  <2> SUFFICES ASSUME m # 1, d[m - 1] = 0 PROVE FALSE
    OBVIOUS
  <2>1. m - 1 \in 1 .. n /\ ~(m <= m - 1)
    BY <1>1, <1>2
  <2>2. ASSUME NEW p \in m - 1 .. n - 1 PROVE d[p] = 0
    <3>1. p = m - 1 \/ p \in m .. n - 1
      BY <1>1, <1>2
    <3>2. QED
      BY <3>1, <1>2
  <2>3. m - 1 \in T
    BY <2>1, <2>2
  <2>4. QED
    BY <1>2, <2>1, <2>3
<1>4. \E m2 \in 1 .. n : (\A p \in m2 .. n - 1 : d[p] = 0) /\ (m2 = 1 \/ d[m2 - 1] # 0)
  BY <1>2, <1>3
<1>5. QED
  BY <1>4

LEMMA ZeroValue ==
    ASSUME NEW d \in [Index -> Digit], NEW n \in 0 .. MaxSize, IsZero(d, n)
    PROVE  Value(d, n) = 0
<1>1. 0 \in 0 .. n /\ \A k \in 0 .. n - 1 : d[k] = 0
  BY PowAssumption DEF IsZero
<1>2. Value(d, n) = Value(d, 0)
  BY <1>1, ValueTrim
<1>3. QED
  BY <1>2, ValueZero

(* The objects a call names: by an integer only result and a, which may be   *)
(* the same; otherwise result is neither operand.                            *)
LEMMA AliasObjs ==
    ASSUME alias \in Aliasings
    PROVE  /\ result \in Objs /\ alias[2] \in Objs
           /\ byWord \/ (alias[3] \in Objs /\ alias[3] # result /\ alias[2] # result)
<1>1. alias \in Objs \X Objs \X (Objs \cup {NONE})
  BY MultiplyAssumption
<1>2. alias[1] \in Objs /\ alias[2] \in Objs /\ alias[3] \in Objs \cup {NONE}
  BY <1>1
<1>3. alias[3] # NONE => alias[1] # alias[2] /\ alias[1] # alias[3]
  BY MultiplyAssumption
<1>4. QED
  BY <1>2, <1>3 DEF result, byWord

LEMMA InitInv == Init => IInv
<1> SUFFICES ASSUME Init PROVE IInv
  OBVIOUS
<1>1. MaxDigits \in Nat /\ MaxSize \in Nat /\ MaxDigits <= MaxSize
  BY MultiplyAssumption
<1>2. 0 \in Digit /\ 0 \in 0 .. MaxDigits /\ 0 \in 0 .. MaxSize
  BY <1>1, BAssumption DEF Digit
<1>3. size \in [Objs -> 1 .. MaxSize]
  BY <1>1 DEF Init
<1>4. Typed
  <2>1. alias \in Aliasings /\ cell \in [Objs -> [Index -> Digit]] /\ neg \in [Objs -> BOOLEAN]
    BY DEF Init
  <2>2. word \in Digit /\ wordNeg \in BOOLEAN /\ swapped \in BOOLEAN /\ pc = "call"
        /\ entry \in {"mul", "mul_naive", "mul_karatsuba"}
    BY DEF Init
  <2>3. na = 0 /\ nb = 0 /\ i = 0 /\ j = 0 /\ c = 0 /\ cur = 0 /\ prod = 0
    BY DEF Init
  <2>4. TypeOK
    BY <1>2, <1>3, <2>1, <2>2, <2>3 DEF TypeOK
  <2>5. digs = cell /\ size0 = size /\ neg0 = neg /\ size \in [Objs -> 1 .. MaxDigits]
    BY DEF Init
  <2>6. QED
    BY <2>1, <2>4, <2>5 DEF Typed
<1>5. Phase /\ Operands /\ Conservation /\ Totals /\ Kept /\ Answer
  BY DEF Init, Phase, Operands, Conservation, Totals, Kept, Answer, ResultExact, Working
<1>6. QED
  BY <1>4, <1>5 DEF IInv

(* A product of magnitudes with the composed sign.                           *)
LEMMA SignedProduct ==
    ASSUME NEW s \in BOOLEAN, NEW t \in BOOLEAN, NEW x \in Int, NEW y \in Int
    PROVE  Sgn(s # t) * (x * y) = Sgn(s) * x * (Sgn(t) * y)
<1>1. CASE s /\ t
  <2>1. Sgn(s # t) = 1 /\ Sgn(s) = -1 /\ Sgn(t) = -1
    BY <1>1 DEF Sgn
  <2>2. QED
    BY <2>1
<1>2. CASE s /\ ~t
  <2>1. Sgn(s # t) = -1 /\ Sgn(s) = -1 /\ Sgn(t) = 1
    BY <1>2 DEF Sgn
  <2>2. QED
    BY <2>1
<1>3. CASE ~s /\ t
  <2>1. Sgn(s # t) = -1 /\ Sgn(s) = 1 /\ Sgn(t) = -1
    BY <1>3 DEF Sgn
  <2>2. QED
    BY <2>1
<1>4. CASE ~s /\ ~t
  <2>1. Sgn(s # t) = 1 /\ Sgn(s) = 1 /\ Sgn(t) = 1
    BY <1>4 DEF Sgn
  <2>2. QED
    BY <2>1
<1>5. QED
  BY <1>1, <1>2, <1>3, <1>4

LEMMA Bounds ==
    /\ MaxDigits \in Nat /\ MaxDigits >= 1 /\ MaxSize \in Nat /\ MaxSize >= 2 * MaxDigits
    /\ 0 \in Index /\ 0 \in Digit
  BY MultiplyAssumption, BAssumption DEF Index, Digit

(* A zero operand: result becomes the number zero.                           *)
LEMMA ZeroInv == ASSUME IInv, WordZero \/ NamedZero PROVE IInv'
<1>1. /\ pc = "call" /\ pc' = "done"
      /\ size' = [size EXCEPT ![result] = 1]
      /\ cell' = [cell EXCEPT ![result][0] = 0]
      /\ neg' = [neg EXCEPT ![result] = FALSE]
      /\ UNCHANGED <<i, j, c, cur, prod, entry, alias, word, wordNeg, swapped, na, nb, digs,
                     size0, neg0, result, byWord>>
  BY DEF WordZero, NamedZero, call, result, byWord
<1>2. /\ result \in Objs /\ alias[2] \in Objs /\ (~byWord => alias[3] \in Objs)
      /\ (~byWord => alias[2] # result /\ alias[3] # result)
  BY AliasObjs DEF IInv, Typed, TypeOK
<1>3. /\ digs = cell /\ size0 = size /\ (byWord => ~swapped)
      /\ cell \in [Objs -> [Index -> Digit]] /\ size \in [Objs -> 1 .. MaxSize]
      /\ neg0 \in [Objs -> BOOLEAN] /\ word \in Digit /\ wordNeg \in BOOLEAN
  BY <1>1 DEF IInv, Typed, TypeOK, Phase
<1>4. cell' \in [Objs -> [Index -> Digit]] /\ cell'[result][0] = 0
  BY <1>1, <1>2, <1>3, Bounds
<1>5. Typed'
  <2>1. size' \in [Objs -> 1 .. MaxSize] /\ neg' \in [Objs -> BOOLEAN]
    BY <1>1, <1>2, Bounds DEF IInv, Typed, TypeOK
  <2>2. QED
    BY <2>1, <1>1, <1>4 DEF IInv, Typed, TypeOK
<1>6. Phase' /\ Operands' /\ Conservation' /\ Totals' /\ Kept'
  <2>1. ~byWord => cell'[alias[2]] = digs[alias[2]] /\ cell'[alias[3]] = digs[alias[3]]
    BY <1>1, <1>2, <1>3
  <2>2. QED
    BY <2>1, <1>1, <1>3 DEF Phase, Operands, Conservation, Totals, Kept, Working
<1>7. (byWord /\ word = 0) \/ Before(alias[2]) = 0 \/ (~byWord /\ Before(alias[3]) = 0)
  <2>1. ASSUME NEW o \in Objs, IsZero(cell[o], size[o]) PROVE Before(o) = 0
    <3>1. cell[o] \in [Index -> Digit] /\ size[o] \in 0 .. MaxSize
      BY <1>3
    <3>2. Value(cell[o], size[o]) = 0
      BY <2>1, <3>1, ZeroValue
    <3>3. QED
      BY <3>2, <1>3 DEF Before
  <2>2. CASE WordZero
    BY <2>1, <2>2, <1>2 DEF WordZero
  <2>3. CASE NamedZero
    BY <2>1, <2>3, <1>2 DEF NamedZero, AnyZero
  <2>4. QED
    BY <2>2, <2>3
<1>8. Answer'
  <2> DEFINE x == Before(alias[2])
             y == IF byWord THEN Sgn(wordNeg) * word ELSE Sgn(neg0[alias[3]]) * Before(alias[3])
             s == Sgn(neg0[alias[2]])
  <2>1. x' = x /\ y' = y /\ s' = s
    BY <1>1 DEF Before
  <2>2. Value(cell'[result], 1) = 0
    <3>1. cell'[result] \in [Index -> Digit] /\ IsZero(cell'[result], 1) /\ 1 \in 0 .. MaxSize
      BY <1>2, <1>4, Bounds DEF IsZero
    <3>2. QED
      BY <3>1, ZeroValue
  <2>3. size'[result] = 1 /\ neg'[result] = FALSE
    BY <1>1, <1>2 DEF IInv, Typed, TypeOK
  <2>4. Canonical(cell'[result], size'[result], neg'[result])
    BY <2>3 DEF Canonical
  <2>5. Sgn(neg'[result]) * Value(cell'[result], size'[result]) = 0
    BY <2>2, <2>3 DEF Sgn
  <2>6. ASSUME NEW o \in Objs PROVE Before(o) \in Int
    <3>1. digs[o] \in [Index -> Digit] /\ size0[o] \in 0 .. MaxSize
      BY <1>3
    <3>2. QED
      BY <3>1, ValueNat DEF Before
  <2>7. x \in Int /\ s \in Int
    BY <2>6, <1>2 DEF Sgn
  <2>8. y = 0 \/ x = 0
    <3>1. \A n : Sgn(n) * 0 = 0
      BY DEF Sgn
    <3>2. QED
      BY <1>7, <3>1
  <2>9. y \in Int
    <3>1. word \in Int /\ \A n : Sgn(n) \in Int
      BY <1>3, BAssumption DEF Digit, Sgn
    <3>2. ~byWord => Before(alias[3]) \in Int
      BY <2>6, <1>2
    <3>3. QED
      BY <3>1, <3>2
  <2>10. Answer' <=> (pc' = "done" => /\ Sgn(neg'[result]) * Value(cell'[result], size'[result]) = s' * x' * y'
                                      /\ Canonical(cell'[result], size'[result], neg'[result]))
    BY <1>1 DEF Answer, ResultExact
  <2> HIDE DEF x, y, s
  <2>11. s * x * y = 0
    BY <2>7, <2>8, <2>9
  <2>12. QED
    BY <2>1, <2>4, <2>5, <2>10, <2>11
<1>9. QED
  BY <1>5, <1>6, <1>8 DEF IInv

(* Nothing is multiplied yet when the rows begin.                            *)
LEMMA RowsBegin ==
    ASSUME IInv, pc = "call", UNCHANGED <<i, j, c, cur, prod, digs, size0, alias, word>>,
           cell' = cell \/ pc' # "row",
           long' \in Objs, byWord \/ short' \in Objs
    PROVE  Conservation' /\ Totals'
<1>1. /\ i' = 0 /\ j' = 0 /\ c' = 0 /\ cur' = 0 /\ prod' = 0
      /\ result \in Objs /\ result' = result /\ byWord' = byWord
      /\ word' \in Digit
  BY AliasObjs DEF IInv, Typed, TypeOK, Phase, result, byWord
<1>2. SUFFICES ASSUME pc' = "row" PROVE Conservation' /\ Totals'
  BY DEF Conservation, Totals
<1>3. cell' \in [Objs -> [Index -> Digit]] /\ digs' \in [Objs -> [Index -> Digit]] /\ cell' = cell
  BY <1>2 DEF IInv, Typed, TypeOK
<1>4. Value(cell'[result], 0) = 0 /\ Value(digs'[long'], 0) = 0
  BY <1>1, <1>3, ValueZero
<1>5. Factor(0)' = 0
  <2>1. byWord' => Factor(0)' = 0
    BY DEF Factor
  <2>2. ~byWord' => Factor(0)' = Value(digs'[short'], 0)
    BY DEF Factor
  <2>3. QED
    BY <2>1, <2>2, <1>1, <1>3, ValueZero
<1>6. Before(long)' \in Nat
  <2>1. digs'[long'] \in [Index -> Digit] /\ size0'[long'] \in 0 .. MaxSize
    BY <1>3, Bounds DEF IInv, Typed, TypeOK
  <2>2. QED
    BY <2>1, ValueNat DEF Before
<1>7. RowDigit' * Pow[0] \in Int
  <2>1. RowDigit' \in Digit
    BY <1>1, <1>3, Bounds DEF RowDigit
  <2>2. QED
    BY <2>1, Bounds, PowAssumption, BAssumption DEF Digit
<1>8. Totals'
  <2>1. Before(long)' * Factor(0)' + Value(digs'[long'], 0) * (RowDigit' * Pow[0]) = 0
    BY <1>4, <1>5, <1>6, <1>7
  <2>2. QED
    BY <2>1, <1>1, <1>4 DEF Totals
<1>9. Conservation'
  BY <1>1, PowAssumption DEF Conservation
<1>10. QED
  BY <1>8, <1>9

LEMMA CallWordInv == ASSUME IInv, CallWord PROVE IInv'
<1>1. /\ pc = "call" /\ pc' = "row" /\ byWord
      /\ size' = [size EXCEPT ![result] = size[alias[2]] + 1]
      /\ na' = size[alias[2]] /\ nb' = 1
      /\ UNCHANGED <<cell, neg, entry, alias, word, wordNeg, swapped, i, j, c, digs, size0,
                     neg0, cur, prod, result, byWord, long, short>>
  BY DEF CallWord, result, byWord, long, short
<1>2. /\ result \in Objs /\ alias[2] \in Objs /\ ~swapped /\ long = alias[2]
      /\ digs = cell /\ size0 = size /\ neg0 = neg /\ i = 0 /\ j = 0 /\ c = 0
      /\ size[alias[2]] \in 1 .. MaxDigits
  BY <1>1, AliasObjs DEF IInv, Typed, TypeOK, Phase, long
<1>3. Typed'
  <2>1. size' \in [Objs -> 1 .. MaxSize]
    BY <1>1, <1>2, Bounds DEF IInv, Typed, TypeOK
  <2>2. na' \in 0 .. MaxDigits /\ nb' \in 0 .. MaxDigits
    BY <1>1, <1>2, Bounds
  <2>3. QED
    BY <2>1, <2>2, <1>1 DEF IInv, Typed, TypeOK
<1>4. Phase'
  <2>1. size'[result] = na' + nb'
    BY <1>1, <1>2 DEF IInv, Typed, TypeOK
  <2>2. na' \in Nat /\ nb' \in 1 .. na'
    BY <1>1, <1>2, Bounds
  <2>3. QED
    BY <2>1, <2>2, <1>1, <1>2 DEF Phase, Working
<1>5. Operands'
  BY <1>1, <1>2 DEF Operands
<1>6. Conservation' /\ Totals'
  BY <1>1, <1>2, RowsBegin
<1>7. Kept' /\ Answer'
  BY <1>1 DEF Kept, Answer, ResultExact
<1>8. QED
  BY <1>3, <1>4, <1>5, <1>6, <1>7 DEF IInv

LEMMA BeforeNat ==
    ASSUME IInv, NEW o \in Objs
    PROVE  Before(o) \in Nat
<1>1. digs[o] \in [Index -> Digit] /\ size0[o] \in 0 .. MaxSize
  BY Bounds DEF IInv, Typed
<1>2. QED
  BY <1>1, ValueNat DEF Before

LEMMA CallBigInv == ASSUME IInv, CallBig PROVE IInv'
<1> DEFINE sx == size[alias[2]]  sy == size[alias[3]]
           filled == [k \in Index |-> IF k < sx + sy THEN 0 ELSE cell[result][k]]
<1>1. /\ pc = "call" /\ pc' \in Working /\ ~byWord
      /\ size' = [size EXCEPT ![result] = sx + sy]
      /\ cell' = IF AnyZero THEN [cell EXCEPT ![result] = filled] ELSE cell
      /\ swapped' = (sy > sx)
      /\ na' = (IF sy > sx THEN sy ELSE sx) /\ nb' = (IF sy > sx THEN sx ELSE sy)
      /\ AnyZero <=> pc' = "sign"
      /\ UNCHANGED <<neg, entry, alias, word, wordNeg, i, j, c, digs, size0, neg0, cur, prod,
                     result, byWord>>
  BY DEF CallBig, result, byWord, Working
<1>2. /\ result \in Objs /\ alias[2] \in Objs /\ alias[3] \in Objs
      /\ alias[2] # result /\ alias[3] # result
      /\ digs = cell /\ size0 = size /\ neg0 = neg /\ i = 0 /\ j = 0 /\ c = 0
      /\ cell \in [Objs -> [Index -> Digit]] /\ size \in [Objs -> 1 .. MaxSize]
  BY <1>1, AliasObjs DEF IInv, Typed, TypeOK, Phase
<1>3. sx \in 1 .. MaxDigits /\ sy \in 1 .. MaxDigits
  BY <1>1, <1>2 DEF IInv, Typed
<1> HIDE DEF sx, sy
<1>4. /\ na' \in 1 .. MaxDigits /\ nb' \in 1 .. na' /\ sx + sy = na' + nb'
      /\ sx + sy \in 1 .. MaxSize
  BY <1>1, <1>3, Bounds
<1>5. filled \in [Index -> Digit]
  BY <1>2, Bounds
<1> HIDE DEF filled
<1>6. cell' \in [Objs -> [Index -> Digit]]
  BY <1>1, <1>2, <1>5
<1>7. size' \in [Objs -> 1 .. MaxSize] /\ size'[result] = sx + sy
  BY <1>1, <1>2, <1>4
<1>8. Typed'
  <2>1. swapped' \in BOOLEAN /\ na' \in 0 .. MaxDigits /\ nb' \in 0 .. MaxDigits
        /\ pc' \in {"call", "row", "karatsuba", "sign", "done"}
    BY <1>1, <1>4, Bounds DEF Working
  <2>2. QED
    BY <2>1, <1>1, <1>6, <1>7 DEF IInv, Typed, TypeOK
<1>9. long' \in Objs /\ short' \in Objs /\ size0'[long'] = na' /\ size0'[short'] = nb'
  <2>1. CASE sy > sx
    BY <2>1, <1>1, <1>2 DEF long, short, sx, sy
  <2>2. CASE ~(sy > sx)
    BY <2>2, <1>1, <1>2 DEF long, short, sx, sy
  <2>3. QED
    BY <2>1, <2>2
<1>10. Phase'
  <2>1. i' \in 0 .. na' /\ j' \in 0 .. nb' - 1
    BY <1>1, <1>2, <1>4, Bounds
  <2>2. QED
    BY <2>1, <1>1, <1>2, <1>4, <1>7, <1>9 DEF Phase, Working
<1>11. Operands'
  <2>1. cell'[alias[2]] = cell[alias[2]] /\ cell'[alias[3]] = cell[alias[3]]
    BY <1>1, <1>2
  <2>2. long' = alias[2] \/ long' = alias[3]
    BY <1>1 DEF long
  <2>3. QED
    BY <2>1, <2>2, <1>1, <1>2 DEF Operands
<1>12. Conservation' /\ Totals'
  BY <1>1, <1>9, RowsBegin
<1>13. Kept'
  <2> SUFFICES ASSUME AnyZero PROVE Kept'
    BY <1>1 DEF Kept
  <2>1. cell'[result] = filled
    BY <1>1, <1>2
  <2>2. Value(filled, na' + nb') = 0
    <3>1. IsZero(filled, sx + sy)
      BY <1>4, Bounds DEF filled, IsZero, Index
    <3>2. sx + sy \in 0 .. MaxSize
      BY <1>4, Bounds
    <3>3. QED
      BY <3>1, <3>2, <1>4, <1>5, ZeroValue
  <2>3. Before(alias[2]) = 0 \/ Before(alias[3]) = 0
    <3>1. PICK o \in {alias[2], alias[3]} : IsZero(cell[o], size[o])
      BY DEF AnyZero
    <3>2. cell[o] \in [Index -> Digit] /\ size[o] \in 0 .. MaxSize
      BY <3>1, <1>2
    <3>3. Value(cell[o], size[o]) = 0
      BY <3>1, <3>2, ZeroValue
    <3>4. QED
      BY <3>1, <3>3, <1>2 DEF Before
  <2>4. Before(alias[2]) \in Int /\ Before(alias[3]) \in Int
    BY <1>2, BeforeNat
  <2>5. /\ (Before(long)' = Before(alias[2]) /\ Whole' = Before(alias[3]))
           \/ (Before(long)' = Before(alias[3]) /\ Whole' = Before(alias[2]))
    BY <1>1 DEF Before, Whole, long, short
  <2>6. Before(long)' * Whole' = 0
    BY <2>3, <2>4, <2>5
  <2>7. QED
    BY <2>1, <2>2, <2>6, <1>1 DEF Kept
<1>14. Answer'
  BY <1>1 DEF Answer, ResultExact, Working
<1>15. QED
  BY <1>8, <1>10, <1>11, <1>12, <1>13, <1>14 DEF IInv

----------------------------------------------------------------------------
(* The rows.                                                                 *)
LEMMA RowFacts ==
    ASSUME IInv, pc = "row"
    PROVE  /\ na \in 1 .. MaxDigits /\ nb \in 1 .. na /\ na + nb <= MaxSize
           /\ i \in 0 .. na /\ j \in 0 .. nb - 1 /\ i + j \in 0 .. MaxSize /\ na + j \in 0 .. MaxSize - 1
           /\ na + j \in Index
           /\ result \in Objs /\ long \in Objs /\ (byWord \/ short \in Objs)
           /\ ~byWord => long # result /\ short # result
           /\ byWord => j = 0 /\ nb = 1
           /\ cell[result] \in [Index -> Digit] /\ digs[long] \in [Index -> Digit]
           /\ ~byWord => digs[short] \in [Index -> Digit] /\ cell[short] = digs[short] /\ cell[long] = digs[long]
           /\ size0[long] = na /\ (~byWord => size0[short] = nb)
           /\ RowDigit \in Digit /\ K = RowDigit /\ c \in Digit
           /\ cur \in Int /\ prod \in Int
<1>1. /\ na = size0[long] /\ nb \in 1 .. na /\ size[result] = na + nb
      /\ nb = (IF byWord THEN 1 ELSE size0[short]) /\ (byWord => ~swapped)
      /\ i \in 0 .. na /\ j \in 0 .. nb - 1
  BY DEF IInv, Phase, Working
<1>2. /\ result \in Objs /\ long \in Objs /\ (byWord \/ short \in Objs)
      /\ ~byWord => long # result /\ short # result
  BY <1>1, AliasObjs DEF IInv, Typed, TypeOK, long, short
<1>3. /\ cell \in [Objs -> [Index -> Digit]] /\ digs \in [Objs -> [Index -> Digit]]
      /\ size0 \in [Objs -> 1 .. MaxDigits]
      /\ word \in Digit /\ c \in Digit /\ cur \in Int /\ prod \in Int
  BY DEF IInv, Typed, TypeOK
<1>4. /\ na \in 1 .. MaxDigits /\ na + nb <= MaxSize /\ i + j \in 0 .. MaxSize
      /\ na + j \in 0 .. MaxSize - 1 /\ na + j \in Index /\ j \in Index
      /\ (byWord => j = 0 /\ nb = 1)
  <2>1. na \in 1 .. MaxDigits
    BY <1>1, <1>2, <1>3
  <2>2. nb \in 1 .. MaxDigits
    BY <2>1, <1>1, Bounds
  <2>3. QED
    BY <2>1, <2>2, <1>1, Bounds DEF Index
<1>5. ~byWord => cell[short] = digs[short] /\ cell[long] = digs[long]
  BY DEF IInv, Operands, long, short
<1>6. RowDigit \in Digit /\ K = RowDigit
  BY <1>2, <1>3, <1>4, <1>5 DEF RowDigit, K
<1>7. QED
  BY <1>1, <1>2, <1>3, <1>4, <1>5, <1>6

(* One iteration of either inner loop; old is the digit it adds to.          *)
LEMMA RowStep ==
    ASSUME IInv, pc = "row", i < na,
           NEW digit \in Digit, NEW old \in Digit, NEW carry \in Digit,
           digit + carry * B = old + X * K + c,
           (j = 0 /\ old = 0) \/ (j > 0 /\ old = Old),
           Store(digit, old, carry)
    PROVE  IInv'
<1>1. /\ na \in 1 .. MaxDigits /\ nb \in 1 .. na /\ na + nb <= MaxSize
      /\ i \in 0 .. na /\ j \in 0 .. nb - 1
      /\ result \in Objs /\ long \in Objs /\ (byWord \/ short \in Objs)
      /\ ~byWord => long # result /\ short # result
      /\ byWord => j = 0 /\ nb = 1
      /\ cell[result] \in [Index -> Digit] /\ digs[long] \in [Index -> Digit]
      /\ RowDigit \in Digit /\ K = RowDigit /\ c \in Digit
      /\ cur \in Int /\ prod \in Int
      /\ ~byWord => digs[short] \in [Index -> Digit]
  BY RowFacts
<1>2. /\ i \in Index /\ i \in 0 .. MaxSize - 1 /\ i + 1 \in 0 .. na /\ i + 1 # 0
      /\ i + j \in Index /\ i + j \in 0 .. MaxSize - 1 /\ i + j < na + j
      /\ na + j \in 0 .. MaxSize /\ (i + 1) + j = (i + j) + 1
      /\ i + 1 \in 0 .. MaxSize /\ i \in 0 .. MaxSize /\ j \in 0 .. MaxSize
      /\ j \in Nat /\ i \in Nat /\ i + j <= MaxSize /\ i + j \in 0 .. MaxSize
  BY <1>1, Bounds DEF Index
<1>3. /\ cell' = [cell EXCEPT ![result][i + j] = digit]
      /\ c' = carry /\ i' = i + 1
      /\ cur' = cur + (digit - old) * Pow[i + j]
      /\ prod' = prod + X * K * Pow[i + j]
      /\ UNCHANGED <<size, neg, pc, j, entry, alias, word, wordNeg, swapped, na, nb, digs,
                     size0, neg0, result, byWord, long, short, RowDigit>>
  BY DEF Store, call, result, byWord, long, short, RowDigit
<1>4. X = digs[long][i] /\ X \in Digit
  BY <1>1, <1>2 DEF IInv, Operands, X
<1>5. cell \in [Objs -> [Index -> Digit]] /\ cell' \in [Objs -> [Index -> Digit]]
  BY <1>1, <1>2, <1>3 DEF IInv, Typed, TypeOK
<1>6. /\ cell'[result] = [cell[result] EXCEPT ![i + j] = digit]
      /\ \A o \in Objs : o # result => cell'[o] = cell[o]
  BY <1>1, <1>2, <1>3, <1>5
<1>7. Pow[i + j] \in Nat /\ Pow[i] \in Nat /\ Pow[j] \in Nat /\ Pow[(i + j) + 1] = B * Pow[i + j]
  <2>1. Pow \in [0 .. MaxSize -> Nat] /\ \A k \in 0 .. MaxSize - 1 : Pow[k + 1] = B * Pow[k]
    BY PowAssumption
  <2>2. QED
    BY <2>1, <1>2
<1>8. digit \in Int /\ old \in Int /\ carry \in Int /\ X \in Int /\ K \in Int /\ c \in Int /\ X * K \in Int
  BY <1>1, <1>4, BAssumption DEF Digit
<1>9. cur' \in Int /\ prod' \in Int
  <2>1. (digit - old) * Pow[i + j] \in Int /\ X * K * Pow[i + j] \in Int
    BY <1>7, <1>8
  <2>2. QED
    BY <2>1, <1>1, <1>3
<1>10. Typed'
  BY <1>2, <1>3, <1>5, <1>9 DEF IInv, Typed, TypeOK
<1>11. Phase'
  BY <1>1, <1>2, <1>3 DEF IInv, Phase, Working
<1>12. Operands'
  <2>1. ASSUME NEW k \in i + 1 .. na - 1 PROVE cell'[long][k] = digs[long][k]
    <3>1. k \in i .. na - 1 /\ k \in Index /\ k # i
      <4>1. na <= MaxSize /\ na \in Nat /\ i \in Nat
        BY <1>1, <1>2, Bounds
      <4>2. QED
        BY <4>1, Bounds DEF Index
    <3>2. cell[long][k] = digs[long][k]
      BY <3>1 DEF IInv, Operands
    <3>3. CASE byWord
      <4>1. k # i + j
        BY <3>1, <3>3, <1>1, <1>2
      <4>2. QED
        BY <3>1, <3>2, <4>1, <1>1, <1>6
    <3>4. CASE ~byWord
      BY <3>2, <3>4, <1>1, <1>6
    <3>5. QED
      BY <3>3, <3>4
  <2>2. ASSUME ~byWord
        PROVE  cell'[alias[2]] = digs[alias[2]] /\ cell'[alias[3]] = digs[alias[3]]
    <3>1. alias[2] \in Objs /\ alias[3] \in Objs /\ alias[2] # result /\ alias[3] # result
      BY <2>2, AliasObjs DEF IInv, Typed, TypeOK
    <3>2. QED
      BY <2>2, <3>1, <1>6 DEF IInv, Operands
  <2>3. QED
    BY <2>1, <2>2, <1>3 DEF Operands
<1>13. Conservation'
  <2> DEFINE p == Pow[i + j]
             a1 == cur  b1 == (digit - old) * p  c1 == carry * (B * p)  d1 == c * p  e1 == X * K * p
  <2>1. a1 + d1 = prod
    BY DEF IInv, Conservation
  <2>2. \A q \in Int : (digit - old) * q + carry * (B * q) = c * q + X * K * q
    <3> TAKE q \in Int
    <3> DEFINE xk == X * K
    <3>1. xk \in Int /\ digit + carry * B = old + xk + c
      BY <1>8
    <3> HIDE DEF xk
    <3>2. (digit + carry * B) * q = (old + xk + c) * q
      BY <3>1
    <3>3. (digit + carry * B) * q = digit * q + carry * (B * q)
      BY <1>8, BAssumption
    <3>4. (old + xk + c) * q = old * q + xk * q + c * q
      BY <3>1, <1>8
    <3>5. (digit - old) * q = digit * q - old * q
      BY <1>8
    <3>6. digit * q \in Int /\ old * q \in Int /\ carry * (B * q) \in Int /\ xk * q \in Int /\ c * q \in Int
      BY <3>1, <1>8, BAssumption
    <3>7. (digit - old) * q + carry * (B * q) = c * q + xk * q
      BY <3>2, <3>3, <3>4, <3>5, <3>6
    <3>8. QED
      BY <3>7 DEF xk
  <2>3. b1 + c1 = d1 + e1
    BY <2>2, <1>7
  <2>4. a1 \in Int /\ b1 \in Int /\ c1 \in Int /\ d1 \in Int /\ e1 \in Int
    BY <1>1, <1>7, <1>8, BAssumption
  <2>5. cur' = a1 + b1 /\ prod' = prod + e1 /\ c' * Pow[(i + j) + 1] = c1
    BY <1>3, <1>7
  <2> HIDE DEF a1, b1, c1, d1, e1
  <2>6. cur' + c' * Pow[(i + j) + 1] = prod'
    <3>1. (a1 + b1) + c1 = (a1 + d1) + e1
      BY <2>3, <2>4
    <3>2. QED
      BY <3>1, <2>1, <2>5
  <2>7. QED
    BY <2>6, <1>2, <1>3 DEF Conservation
<1>14. cur' = Value(cell'[result], IF j = 0 THEN i + 1 ELSE na + j)
  <2>1. cur = Value(cell[result], IF j = 0 THEN i ELSE na + j)
    BY DEF IInv, Totals
  <2>2. cell'[result] \in [Index -> Digit] /\ cell'[result][i + j] = digit
        /\ \A k \in Index : k # i + j => cell'[result][k] = cell[result][k]
    BY <1>1, <1>2, <1>5, <1>6
  <2>3. CASE j = 0
    <3>1. i + j = i /\ old = 0 /\ cur = Value(cell[result], i)
      BY <2>1, <2>3, <1>2
    <3>2. \A k \in 0 .. i - 1 : cell[result][k] = cell'[result][k]
      <4>1. \A k \in 0 .. i - 1 : k \in Index /\ k # i
        BY <1>2, Bounds DEF Index
      <4>2. QED
        BY <4>1, <2>2, <3>1
    <3>3. Value(cell[result], i) = Value(cell'[result], i)
      BY <3>2, <2>2, <1>1, <1>2, ValueSame
    <3>4. Value(cell'[result], i + 1) = Value(cell'[result], i) + digit * Pow[i]
      BY <2>2, <3>1, <1>2, ValueStep
    <3>5. cur' = cur + digit * Pow[i]
      BY <3>1, <1>3, <1>8
    <3>6. QED
      BY <2>3, <3>1, <3>3, <3>4, <3>5
  <2>4. CASE j > 0
    <3>1. j # 0 /\ old = cell[result][i + j] /\ cur = Value(cell[result], na + j)
      BY <2>1, <2>4, <1>2 DEF Old
    <3>2. i + j \in 0 .. (na + j) - 1 /\ \A k \in 0 .. (na + j) - 1 : k \in Index
      BY <1>1, <1>2, Bounds DEF Index
    <3>3. Value(cell'[result], na + j)
             = Value(cell[result], na + j) + (cell'[result][i + j] - cell[result][i + j]) * Pow[i + j]
      BY <3>2, <2>2, <1>1, <1>2, ValueUpdate
    <3>4. QED
      BY <3>1, <3>3, <2>2, <1>3
  <2>5. QED
    BY <2>3, <2>4, <1>2
<1>15. prod' = Before(long) * Factor(j) + Value(digs[long], i + 1) * (RowDigit * Pow[j])
  <2> DEFINE F == Before(long) * Factor(j)  V == Value(digs[long], i)  R == RowDigit * Pow[j]
             x == digs[long][i] * Pow[i]
  <2>1. prod = F + V * R
    BY DEF IInv, Totals
  <2>2. Value(digs[long], i + 1) = V + x
    BY <1>1, <1>2, ValueStep
  <2>3. X * K * Pow[i + j] = x * R
    <3>1. Pow[i + j] = Pow[i] * Pow[j]
      BY <1>1, <1>2, PowSum
    <3>2. ASSUME NEW p \in Int, NEW q \in Int PROVE X * K * (p * q) = (X * p) * (K * q)
      BY <1>8
    <3>3. X * K * (Pow[i] * Pow[j]) = (X * Pow[i]) * (K * Pow[j])
      <4>1. Pow[i] \in Int /\ Pow[j] \in Int
        BY <1>7
      <4>2. QED
        BY <3>2, <4>1, Zenon
    <3>4. QED
      BY <3>1, <3>3, <1>1, <1>4
  <2>4. V \in Int /\ x \in Int /\ R \in Int /\ F \in Int
    <3>1. V \in Nat
      BY <1>1, <1>2, ValueNat
    <3>2. x \in Int /\ R \in Int
      BY <1>1, <1>4, <1>7, <1>8
    <3>3. F \in Int
      <4>1. Before(long) \in Int
        BY <1>1, BeforeNat
      <4>2. Factor(j) \in Int
        <5>1. word \in Int
          BY BAssumption DEF IInv, Typed, TypeOK, Digit
        <5>2. ~byWord => Value(digs[short], j) \in Nat
          BY <1>1, <1>2, ValueNat
        <5>3. QED
          BY <5>1, <5>2 DEF Factor
      <4>3. QED
        BY <4>1, <4>2
    <3>4. QED
      BY <3>1, <3>2, <3>3
  <2> HIDE DEF F, V, R, x
  <2>5. F + V * R + x * R = F + (V + x) * R
    BY <2>4
  <2>6. prod' = F + V * R + x * R
    BY <2>1, <2>3, <1>3
  <2>7. QED
    BY <2>2, <2>5, <2>6 DEF F, R
<1>16. Totals'
  <2>1. Before(long)' = Before(long) /\ Factor(j)' = Factor(j)
    BY <1>3 DEF Before, Factor
  <2>2. QED
    BY <2>1, <1>3, <1>14, <1>15 DEF Totals
<1>17. Kept' /\ Answer'
  BY <1>3 DEF Kept, Answer, ResultExact
<1>18. QED
  BY <1>10, <1>11, <1>12, <1>13, <1>16, <1>17 DEF IInv

LEMMA RowInv == ASSUME IInv, FirstRow \/ NextRow PROVE IInv'
<1>1. pc = "row" /\ i < na
  BY DEF FirstRow, NextRow
<1>2. /\ i \in 0 .. na /\ j \in 0 .. nb - 1 /\ K \in Digit /\ c \in Digit /\ nb \in 1 .. na
      /\ na \in 1 .. MaxDigits /\ na + nb <= MaxSize
      /\ cell[result] \in [Index -> Digit] /\ digs[long] \in [Index -> Digit]
  BY <1>1, RowFacts
<1>3. i \in Index /\ i + j \in Index
  BY <1>1, <1>2, Bounds DEF Index
<1>4. X \in Digit /\ Old \in Digit
  BY <1>1, <1>2, <1>3 DEF IInv, Operands, X, Old
<1>5. CASE FirstRow
  <2>1. j = 0 /\ Store(MulDigit(X, K, c), 0, MulCarry(X, K, c))
    BY <1>5 DEF FirstRow
  <2>2. MulDigit(X, K, c) + MulCarry(X, K, c) * B = 0 + X * K + c
    <3>1. X * K \in Int
      BY <1>2, <1>4, BAssumption DEF Digit
    <3>2. QED
      BY <3>1, <1>2, <1>4, MulStepExact
  <2>3. QED
    BY <2>1, <2>2, <1>1, <1>2, <1>4, MulStepExact, Bounds, RowStep
<1>6. CASE NextRow
  <2>1. j > 0 /\ Store(AddMulDigit(Old, X, K, c), Old, AddMulCarry(Old, X, K, c))
    BY <1>6 DEF NextRow
  <2>2. QED
    BY <2>1, <1>1, <1>2, <1>4, AddMulStepExact, RowStep
<1>7. QED
  BY <1>5, <1>6

(* The last carry of a row becomes the top digit; the row is complete.       *)
LEMMA RowEndInv == ASSUME IInv, RowEnd PROVE IInv'
<1>1. pc = "row" /\ i = na
  BY DEF RowEnd
<1>2. /\ na \in 1 .. MaxDigits /\ nb \in 1 .. na /\ na + nb <= MaxSize
      /\ j \in 0 .. nb - 1 /\ i + j \in 0 .. MaxSize
      /\ na + j \in 0 .. MaxSize - 1 /\ na + j \in Index
      /\ result \in Objs /\ long \in Objs /\ (byWord \/ short \in Objs)
      /\ ~byWord => long # result /\ short # result
      /\ byWord => j = 0 /\ nb = 1
      /\ cell[result] \in [Index -> Digit] /\ digs[long] \in [Index -> Digit]
      /\ ~byWord => digs[short] \in [Index -> Digit] /\ cell[short] = digs[short] /\ cell[long] = digs[long]
      /\ size0[long] = na /\ (~byWord => size0[short] = nb)
      /\ RowDigit \in Digit /\ c \in Digit /\ cur \in Int /\ prod \in Int
  BY <1>1, RowFacts
<1>3. /\ cell' = [cell EXCEPT ![result][na + j] = c]
      /\ cur' = cur + c * Pow[na + j]
      /\ j' = j + 1 /\ i' = 0 /\ c' = 0
      /\ pc' = (IF j + 1 < nb THEN "row" ELSE "sign")
      /\ UNCHANGED <<size, neg, prod, entry, alias, word, wordNeg, swapped, na, nb, digs,
                     size0, neg0, result, byWord, long, short>>
  BY DEF RowEnd, call, result, byWord, long, short
<1>4. /\ j + 1 \in 0 .. MaxSize /\ na + (j + 1) = (na + j) + 1 /\ j \in Nat /\ j \in 0 .. MaxSize - 1
      /\ (j + 1 < nb => j + 1 \in 0 .. nb - 1 /\ j + 1 # 0) /\ (~(j + 1 < nb) => j + 1 = nb)
      /\ na \in Nat /\ na \in 0 .. MaxSize /\ na + j \in 0 .. MaxSize /\ nb \in 0 .. MaxSize
  BY <1>2, Bounds
<1>5. /\ cell' \in [Objs -> [Index -> Digit]]
      /\ cell'[result] = [cell[result] EXCEPT ![na + j] = c]
      /\ \A o \in Objs : o # result => cell'[o] = cell[o]
  BY <1>2, <1>3 DEF IInv, Typed, TypeOK
<1>6. Pow[na + j] \in Nat /\ Pow[j] \in Nat /\ Pow[0] = 1
  BY <1>4, PowAssumption
<1>7. c * Pow[na + j] \in Nat
  BY <1>2, <1>6, DigitTimesWeight
<1>8. Typed'
  <2>1. cur' \in Int /\ 0 \in Digit /\ 0 \in 0 .. MaxSize /\ pc' \in {"row", "sign"}
    BY <1>2, <1>3, <1>7, Bounds
  <2>2. QED
    BY <2>1, <1>3, <1>4, <1>5 DEF IInv, Typed, TypeOK
<1>9. Phase'
  <2>1. 0 \in 0 .. na
    BY <1>4
  <2>2. QED
    BY <2>1, <1>1, <1>3, <1>4 DEF IInv, Phase, Working
<1>10. ~byWord => cell'[long] = digs[long] /\ cell'[alias[2]] = digs[alias[2]] /\ cell'[alias[3]] = digs[alias[3]]
  <2>1. ASSUME ~byWord
        PROVE  alias[2] \in Objs /\ alias[3] \in Objs /\ alias[2] # result /\ alias[3] # result
    BY <2>1, AliasObjs DEF IInv, Typed, TypeOK
  <2>2. QED
    BY <2>1, <1>2, <1>5 DEF IInv, Operands
<1>11. pc' = "row" => ~byWord
  BY <1>2, <1>3
<1>12. Operands'
  BY <1>3, <1>10, <1>11 DEF Operands
<1>13. cur' = Value(cell'[result], na + (j + 1))
  <2>1. cur = Value(cell[result], na + j)
    <3>1. cur = Value(cell[result], IF j = 0 THEN i ELSE na + j)
      BY <1>1 DEF IInv, Totals
    <3>2. (IF j = 0 THEN i ELSE na + j) = na + j
      BY <1>1, <1>4
    <3>3. QED
      BY <3>1, <3>2
  <2>2. cell'[result] \in [Index -> Digit] /\ cell'[result][na + j] = c
    BY <1>2, <1>5
  <2>3. \A k \in 0 .. (na + j) - 1 : cell[result][k] = cell'[result][k]
    <3>1. \A k \in 0 .. (na + j) - 1 : k \in Index /\ k # na + j
      BY <1>2, Bounds DEF Index
    <3>2. QED
      BY <3>1, <1>2, <1>5
  <2>4. Value(cell[result], na + j) = Value(cell'[result], na + j)
    BY <2>2, <2>3, <1>2, <1>4, ValueSame
  <2>5. Value(cell'[result], (na + j) + 1) = Value(cell'[result], na + j) + c * Pow[na + j]
    BY <2>2, <1>2, ValueStep
  <2>6. QED
    BY <2>1, <2>4, <2>5, <1>3, <1>4
<1>14. cur' = prod
  <2>1. cur + c * Pow[i + j] = prod
    BY <1>1 DEF IInv, Conservation
  <2>2. QED
    BY <2>1, <1>1, <1>3
<1>15. Factor(j + 1) = Factor(j) + RowDigit * Pow[j] /\ Factor(j) \in Int /\ Factor(j + 1) \in Int
       /\ RowDigit * Pow[j] \in Int
  <2>1. RowDigit * Pow[j] \in Nat
    BY <1>2, <1>6, DigitTimesWeight
  <2>2. CASE byWord
    <3>1. j = 0 /\ j + 1 # 0 /\ word \in Int
      BY <2>2, <1>2, BAssumption DEF IInv, Typed, TypeOK, Digit
    <3>2. Factor(j) = 0 /\ Factor(j + 1) = word /\ RowDigit = word
      BY <2>2, <3>1 DEF Factor, RowDigit
    <3>3. QED
      BY <2>1, <3>1, <3>2, <1>6
  <2>3. CASE ~byWord
    <3>1. Value(digs[short], j + 1) = Value(digs[short], j) + digs[short][j] * Pow[j]
      BY <2>3, <1>2, <1>4, ValueStep
    <3>2. Value(digs[short], j + 1) \in Nat /\ Value(digs[short], j) \in Nat
      <4>1. j \in 0 .. MaxSize
        BY <1>4, Bounds
      <4>2. QED
        BY <4>1, <2>3, <1>2, <1>4, ValueNat
    <3>3. Factor(j) = Value(digs[short], j) /\ Factor(j + 1) = Value(digs[short], j + 1)
          /\ RowDigit = digs[short][j]
      BY <2>3 DEF Factor, RowDigit
    <3>4. QED
      BY <2>1, <3>1, <3>2, <3>3
  <2>4. QED
    BY <2>2, <2>3
<1>16. Before(long) \in Int /\ Before(long) = Value(digs[long], na)
  <2>1. Before(long) \in Nat
    BY <1>2, BeforeNat
  <2>2. QED
    BY <2>1, <1>2 DEF Before
<1>17. prod = Before(long) * Factor(j + 1)
  <2>1. prod = Before(long) * Factor(j) + Before(long) * (RowDigit * Pow[j])
    BY <1>1, <1>16 DEF IInv, Totals
  <2>2. ASSUME NEW x \in Int, NEW y \in Int, NEW z \in Int PROVE x * y + x * z = x * (y + z)
    OBVIOUS
  <2>3. Before(long) * Factor(j) + Before(long) * (RowDigit * Pow[j])
            = Before(long) * (Factor(j) + RowDigit * Pow[j])
    BY <2>2, <1>15, <1>16
  <2>4. QED
    BY <2>1, <2>3, <1>15
<1>18. Totals'
  <2> SUFFICES ASSUME pc' = "row" PROVE Totals'
    BY DEF Totals
  <2>1. RowDigit' \in Digit
    <3>1. ~byWord /\ j + 1 \in Index
      BY <1>3, <1>4, <1>11, Bounds DEF Index
    <3>2. QED
      BY <3>1, <1>2, <1>3 DEF RowDigit
  <2>2. Value(digs[long], 0) = 0
    BY <1>2, ValueZero
  <2>3. RowDigit' * Pow[j + 1] \in Nat
    <3>1. Pow[j + 1] \in Nat
      BY <1>4, PowAssumption
    <3>2. QED
      BY <2>1, <3>1, DigitTimesWeight
  <2>4. Before(long) * Factor(j + 1) \in Int
    BY <1>15, <1>16
  <2>5. prod = Before(long) * Factor(j + 1) + Value(digs[long], 0) * (RowDigit' * Pow[j + 1])
    BY <2>2, <2>3, <2>4, <1>17
  <2>6. Before(long)' = Before(long)
    BY <1>3 DEF Before
  <2>7. Factor(j)' = Factor(j + 1) /\ j' # 0
    BY <1>3, <1>4, <1>11 DEF Factor
  <2>8. QED
    BY <2>5, <2>6, <2>7, <1>3, <1>13 DEF Totals
<1>19. Conservation'
  <2> SUFFICES ASSUME pc' = "row" PROVE Conservation'
    BY DEF Conservation
  <2>1. Pow[0 + (j + 1)] \in Nat
    BY <1>4, PowAssumption
  <2>2. cur' \in Int /\ cur' + 0 * Pow[0 + (j + 1)] = cur'
    BY <2>1, <1>2, <1>14
  <2>3. QED
    BY <2>2, <1>3, <1>14 DEF Conservation
<1>20. Kept'
  <2> SUFFICES ASSUME pc' = "sign" PROVE Kept'
    BY DEF Kept
  <2>1. j + 1 = nb
    BY <1>3, <1>4
  <2>2. Whole' = Factor(nb)
    BY <1>2, <1>3 DEF Whole, Factor, Before
  <2>3. Before(long)' = Before(long)
    BY <1>3 DEF Before
  <2>4. QED
    BY <2>1, <2>2, <2>3, <1>3, <1>13, <1>14, <1>17 DEF Kept
<1>21. Answer'
  BY <1>3 DEF Answer, ResultExact
<1>22. QED
  BY <1>8, <1>9, <1>12, <1>18, <1>19, <1>20, <1>21 DEF IInv

(* The sign, and only the zeros above the top digit are dropped.             *)
LEMMA FinishInv == ASSUME IInv, Finish PROVE IInv'
<1> DEFINE k == CHOOSE m \in 1 .. size[result] :
                   /\ \A p \in m .. size[result] - 1 : cell[result][p] = 0
                   /\ m = 1 \/ cell[result][m - 1] # 0
           s == IF byWord THEN neg[alias[2]] # wordNeg ELSE neg[alias[2]] # neg[alias[3]]
<1>1. /\ pc = "sign" /\ pc' = "done"
      /\ size' = [size EXCEPT ![result] = k]
      /\ neg' = [neg EXCEPT ![result] = s /\ ~(k = 1 /\ cell[result][0] = 0)]
      /\ UNCHANGED <<cell, i, j, c, cur, prod, entry, alias, word, wordNeg, swapped, na, nb, digs,
                     size0, neg0, result, byWord, long, short>>
  BY DEF Finish, call, result, byWord, long, short
<1>2. /\ result \in Objs /\ alias[2] \in Objs /\ (~byWord => alias[3] \in Objs)
  BY AliasObjs DEF IInv, Typed, TypeOK
<1>3. /\ cell[result] \in [Index -> Digit] /\ size[result] \in 1 .. MaxSize
      /\ word \in Digit /\ wordNeg \in BOOLEAN /\ neg = neg0 /\ neg0 \in [Objs -> BOOLEAN]
      /\ size[result] = na + nb /\ neg \in [Objs -> BOOLEAN]
  BY <1>1, <1>2 DEF IInv, Typed, TypeOK, Phase, Working
<1>4. k \in 1 .. size[result] /\ (\A p \in k .. size[result] - 1 : cell[result][p] = 0)
      /\ (k = 1 \/ cell[result][k - 1] # 0)
  BY <1>3, CleanSize
<1> HIDE DEF k
<1>5. s \in BOOLEAN
  BY <1>2, <1>3
<1>6. size'[result] = k /\ neg'[result] = (s /\ ~(k = 1 /\ cell[result][0] = 0))
  BY <1>1, <1>2 DEF IInv, Typed, TypeOK
<1>7. k \in 1 .. MaxSize
  BY <1>3, <1>4, Bounds
<1>8. Typed'
  <2>1. size' \in [Objs -> 1 .. MaxSize]
    BY <1>1, <1>7 DEF IInv, Typed, TypeOK
  <2>2. neg' \in [Objs -> BOOLEAN]
    BY <1>1, <1>3, <1>5
  <2>3. QED
    BY <2>1, <2>2, <1>1 DEF IInv, Typed, TypeOK
<1>9. Phase' /\ Operands' /\ Conservation' /\ Totals' /\ Kept'
  BY <1>1 DEF IInv, Phase, Operands, Conservation, Totals, Kept, Working
<1>10. Value(cell[result], k) = Before(long) * Whole
  <2>1. Value(cell[result], size[result]) = Value(cell[result], k)
    <3>1. size[result] \in 0 .. MaxSize /\ k \in 0 .. size[result]
      BY <1>3, <1>4, Bounds
    <3>2. QED
      BY <3>1, <1>3, <1>4, ValueTrim
  <2>2. QED
    BY <2>1, <1>1, <1>3 DEF IInv, Kept
<1> DEFINE x == Before(alias[2])
           y == IF byWord THEN word ELSE Before(alias[3])
           t == IF byWord THEN wordNeg ELSE neg0[alias[3]]
           r == neg0[alias[2]]
           v == Value(cell[result], k)
           n == s /\ ~(k = 1 /\ cell[result][0] = 0)
<1>11. x \in Int /\ y \in Int /\ v \in Int
  <2>1. ASSUME NEW o \in Objs PROVE Before(o) \in Nat
    <3>1. digs[o] \in [Index -> Digit] /\ size0[o] \in 0 .. MaxSize
      BY Bounds DEF IInv, Typed
    <3>2. QED
      BY <3>1, ValueNat DEF Before
  <2>2. v \in Nat
    <3>1. k \in 0 .. MaxSize
      BY <1>7
    <3>2. QED
      BY <3>1, <1>3, ValueNat
  <2>3. QED
    BY <2>1, <2>2, <1>2, <1>3, BAssumption DEF Digit
<1>12. v = x * y
  <2>1. CASE byWord
    BY <2>1, <1>1, <1>10 DEF IInv, Phase, Whole, long
  <2>2. CASE ~byWord /\ swapped
    <3>1. v = y * x
      BY <2>2, <1>10 DEF Whole, long, short
    <3>2. QED
      BY <3>1, <1>11
  <2>3. CASE ~byWord /\ ~swapped
    BY <2>3, <1>10 DEF Whole, long, short
  <2>4. QED
    BY <2>1, <2>2, <2>3
<1>13. Sgn(n) * v = Sgn(r) * x * (Sgn(t) * y)
  <2>1. s = (r # t) /\ r \in BOOLEAN /\ t \in BOOLEAN
    BY <1>2, <1>3
  <2>2. Sgn(s) * (x * y) = Sgn(r) * x * (Sgn(t) * y)
    <3> HIDE DEF x, y, s, r, t
    <3> QED
      BY <2>1, <1>11, SignedProduct
  <2>3. CASE k = 1 /\ cell[result][0] = 0
    <3>1. v = 0
      <4>1. IsZero(cell[result], 1) /\ 1 \in 0 .. MaxSize
        BY <2>3, Bounds DEF IsZero
      <4>2. QED
        BY <4>1, <2>3, <1>3, ZeroValue
    <3>2. Sgn(n) * v = Sgn(s) * v
      BY <3>1 DEF Sgn
    <3>3. QED
      BY <3>2, <2>2, <1>12
  <2>4. CASE ~(k = 1 /\ cell[result][0] = 0)
    <3>1. n = s
      BY <2>4, <1>5
    <3>2. Sgn(n) * v = Sgn(s) * (x * y)
      BY <3>1, <1>12
    <3>3. QED
      BY <3>2, <2>2
  <2>5. QED
    BY <2>3, <2>4
<1>14. Answer'
  <2>1. Sgn(t) * y = IF byWord THEN Sgn(wordNeg) * word ELSE Sgn(neg0[alias[3]]) * Before(alias[3])
    OBVIOUS
  <2>2. Canonical(cell[result], k, n)
    BY <1>4 DEF Canonical
  <2>3. /\ Sgn(n) * Value(cell[result], k)
             = Sgn(neg0[alias[2]]) * Before(alias[2])
               * (IF byWord THEN Sgn(wordNeg) * word
                  ELSE Sgn(neg0[alias[3]]) * Before(alias[3]))
        /\ Canonical(cell[result], k, n)
    BY <2>1, <2>2, <1>13
  <2>4. neg'[result] = n
    BY <1>6
  <2> HIDE DEF n
  <2>5. QED
    BY <2>3, <2>4, <1>1, <1>6 DEF Answer, ResultExact, Before
<1>15. QED
  BY <1>8, <1>9, <1>14 DEF IInv

LEMMA StutterInv == ASSUME IInv, UNCHANGED vars PROVE IInv'
<1>1. /\ UNCHANGED <<cell, size, neg, pc, entry, alias, word, wordNeg, swapped, na, nb, i, j, c,
                     digs, size0, neg0, cur, prod>>
      /\ UNCHANGED <<result, byWord, long, short>>
  BY DEF vars, result, byWord, long, short
<1>2. Typed' /\ Phase' /\ Operands' /\ Conservation' /\ Kept' /\ Answer'
  BY <1>1 DEF IInv, Typed, TypeOK, Phase, Working, Operands, Conservation, Kept, Whole, Before,
              Answer, ResultExact
<1>3. Factor(j)' = Factor(j) /\ RowDigit' = RowDigit /\ Before(long)' = Before(long)
  BY <1>1 DEF Factor, RowDigit, Before
<1>4. Totals'
  BY <1>1, <1>3 DEF IInv, Totals
<1>5. QED
  BY <1>2, <1>4 DEF IInv

LEMMA NextInv == IInv /\ [Next]_vars => IInv'
<1> SUFFICES ASSUME IInv, [Next]_vars PROVE IInv'
  OBVIOUS
<1>1. CASE WordZero \/ NamedZero
  BY <1>1, ZeroInv
<1>2. CASE CallWord
  BY <1>2, CallWordInv
<1>3. CASE CallBig
  BY <1>3, CallBigInv
<1>4. CASE FirstRow \/ NextRow
  BY <1>4, RowInv
<1>5. CASE RowEnd
  BY <1>5, RowEndInv
<1>6. CASE Finish
  BY <1>6, FinishInv
<1>7. CASE Return \/ UNCHANGED vars
  BY <1>7, StutterInv DEF Return
<1>8. QED
  BY <1>1, <1>2, <1>3, <1>4, <1>5, <1>6, <1>7 DEF Next

----------------------------------------------------------------------------
(* The invariant says what a row reads.                                      *)
LEMMA RowsUnread == IInv => UnreadIntact
<1> SUFFICES ASSUME IInv, pc = "row"
             PROVE  /\ nb <= na /\ size[result] = na + nb
                    /\ \A k \in i .. na - 1 : k < size0[long] /\ cell[long][k] = digs[long][k]
                    /\ ~byWord => \A k \in 0 .. nb - 1 : cell[short][k] = digs[short][k]
  BY DEF UnreadIntact
<1>1. na = size0[long] /\ nb <= na /\ size[result] = na + nb /\ na \in Int
  BY DEF IInv, Phase, Working, Typed, TypeOK
<1>2. i \in Nat
  BY DEF IInv, Typed, TypeOK
<1>3. \A k \in i .. na - 1 : k < size0[long] /\ cell[long][k] = digs[long][k]
  BY <1>1, <1>2 DEF IInv, Operands
<1>4. ~byWord => cell[short] = digs[short]
  BY DEF IInv, Operands, short
<1>5. QED
  BY <1>1, <1>3, <1>4

(* The invariant says what the rows add up to.                              *)
LEMMA RowsTotal == IInv => RowsConserve
<1> SUFFICES ASSUME IInv, pc \in {"row", "sign"}, j > 0, i = 0
             PROVE  Value(cell[result], na + j)
                      = Before(long) * (IF byWord THEN word ELSE Value(digs[short], j))
  BY DEF RowsConserve, RowsExact, IInv
<1>1. CASE pc = "row"
  <2>1. /\ na \in 1 .. MaxDigits /\ nb \in 1 .. na /\ na + nb <= MaxSize /\ j \in 0 .. nb - 1
        /\ i + j \in 0 .. MaxSize
        /\ digs[long] \in [Index -> Digit] /\ RowDigit \in Digit /\ cur \in Int
        /\ (~byWord => digs[short] \in [Index -> Digit]) /\ long \in Objs
        /\ i \in 0 .. na
    BY <1>1, RowFacts
  <2>2. c = 0 /\ j # 0
    BY <1>1 DEF IInv, Phase
  <2>3. Pow[i + j] \in Nat /\ Pow[j] \in Nat
    <3>1. j \in 0 .. MaxSize
      BY <2>1, Bounds
    <3>2. QED
      BY <3>1, <2>1, PowAssumption
  <2>4. cur = prod
    BY <1>1, <2>1, <2>2, <2>3 DEF IInv, Conservation
  <2>5. Value(digs[long], i) = 0
    BY <2>1, ValueZero
  <2>6. RowDigit * Pow[j] \in Nat
    BY <2>1, <2>3, DigitTimesWeight
  <2>7. Before(long) \in Nat
    BY <2>1, BeforeNat
  <2>8. Factor(j) = (IF byWord THEN word ELSE Value(digs[short], j)) /\ Factor(j) \in Int
    <3>1. word \in Int
      BY BAssumption DEF IInv, Typed, TypeOK, Digit
    <3>2. j \in 0 .. MaxSize
      BY <2>1, Bounds
    <3>3. ~byWord => Value(digs[short], j) \in Nat
      BY <3>2, <2>1, ValueNat
    <3>4. QED
      BY <3>1, <3>3, <2>2 DEF Factor
  <2>9. Before(long) * Factor(j) \in Int
    BY <2>7, <2>8
  <2>10. prod = Before(long) * Factor(j)
    <3>1. prod = Before(long) * Factor(j) + Value(digs[long], i) * (RowDigit * Pow[j])
      BY <1>1 DEF IInv, Totals
    <3>2. QED
      BY <3>1, <2>5, <2>6, <2>9
  <2>11. cur = Value(cell[result], na + j)
    BY <1>1, <2>2 DEF IInv, Totals
  <2>12. QED
    BY <2>4, <2>8, <2>10, <2>11
<1>2. CASE pc = "sign"
  <2>1. j = nb /\ (byWord => nb = 1) /\ (~byWord => nb = size0[short])
    BY <1>2 DEF IInv, Phase, Working
  <2>2. Whole = IF byWord THEN word ELSE Value(digs[short], j)
    BY <2>1 DEF Whole, Before
  <2>3. QED
    BY <1>2, <2>1, <2>2 DEF IInv, Kept
<1>3. QED
  BY <1>1, <1>2

----------------------------------------------------------------------------
(* The strengthened invariant holds in every behaviour.                      *)
THEOREM Inductive == Spec => []IInv
<1>1. QED
  BY InitInv, NextInv, PTL DEF Spec

(* Every variable of mul keeps its type, above all: the size never leaves    *)
(* the storage.                                                              *)
THEOREM TypeCorrect == Spec => []TypeOK
<1>1. IInv => TypeOK
  BY DEF IInv, Typed
<1>2. QED
  BY <1>1, Inductive, PTL

(* In place or not, a row reads only digits of the operands of the call      *)
(* (the loops of _mul_naive_ignore_sign and _addmul_naive_ignore_sign).      *)
THEOREM InPlaceSafe == Spec => []UnreadIntact
<1>1. QED
  BY RowsUnread, Inductive, PTL

(* The one word that carries from digit to digit loses nothing, and after    *)
(* each row result holds exactly a times the digits of b used so far.        *)
THEOREM RowsKeepProduct == Spec => []RowsConserve
<1>1. QED
  BY RowsTotal, Inductive, PTL

(* Every multiplication below the Karatsuba threshold, by an integer or by a *)
(* BigInt, in place or not, leaves the exact signed product in canonical     *)
(* form, for every base and every number of digits.                          *)
THEOREM ProductExact == Spec => []ResultExact
<1>1. IInv => ResultExact
  BY DEF IInv, Answer
<1>2. QED
  BY <1>1, Inductive, PTL

----------------------------------------------------------------------------
(* KARATSUBA *)

Span == [v : Nat, n : Nat]
Proper(s) == s \in Span /\ s.n <= MaxSize /\ s.v < Pow[s.n]

LEMMA PowOne ==
    MaxSize >= 1 => Pow[1] = B
<1>1. MaxSize >= 1 => 0 \in 0 .. MaxSize - 1 /\ 0 + 1 = 1
  BY PowAssumption
<1>2. QED
  BY <1>1, PowAssumption, BAssumption

(* Cutting a span at m leaves two spans whose sum is no larger.              *)
LEMMA SplitFacts ==
    ASSUME NEW s, Proper(s), NEW m \in 0 .. MaxSize
    PROVE  /\ Proper(upper(s, m)) /\ Proper(rmasked(s, m))
           /\ upper(s, m).n = IF s.n > m THEN s.n - m ELSE 0
           /\ rmasked(s, m).n = IF s.n > m THEN m ELSE s.n
           /\ upper(s, m).v \in Nat /\ rmasked(s, m).v \in Nat
           /\ s.v = upper(s, m).v * Pow[m] + rmasked(s, m).v
           /\ upper(s, m).v + rmasked(s, m).v <= s.v
<1> DEFINE v == s.v  n == s.n  p == Pow[m]
<1>1. v \in Nat /\ n \in 0 .. MaxSize /\ v < Pow[n] /\ MaxSize \in Nat /\ m \in Nat
      /\ p \in Nat /\ p > 0 /\ Pow[n] \in Nat /\ Pow[n] > 0
  BY PowAssumption, PowPositive DEF Proper, Span
<1>2. CASE n > m
  <2> DEFINE h == v \div p  l == v % p
  <2>1. upper(s, m) = [v |-> h, n |-> n - m] /\ rmasked(s, m) = [v |-> l, n |-> m]
    BY <1>1, <1>2 DEF upper, rmasked, Least
  <2>2. h \in Nat /\ l \in Nat /\ l < p /\ v = h * p + l /\ h * p <= v
    BY <1>1, QuotientRemainder
  <2> HIDE DEF h, l
  <2>3. n - m \in 0 .. MaxSize /\ n - m \in Nat /\ m + (n - m) = n
    BY <1>1, <1>2
  <2>4. Pow[n - m] \in Nat /\ Pow[n] = p * Pow[n - m]
    BY <2>3, <1>1, PowSum, PowPositive
  <2>5. h < Pow[n - m]
    <3>1. h * p < Pow[n - m] * p
      <4>1. p * Pow[n - m] = Pow[n - m] * p /\ h * p \in Int
        BY <2>2, <2>4, <1>1
      <4>2. QED
        BY <4>1, <2>2, <2>4, <1>1
    <3>2. QED
      BY <3>1, <2>2, <2>4, <1>1, MulCancel
  <2>6. h <= h * p
    <3>1. h * 1 <= h * p
      <4>1. 1 <= p /\ 1 \in Int
        BY <1>1
      <4>2. QED
        BY <4>1, <1>1, <2>2, MulMonotone
    <3>2. h * 1 = h
      BY <2>2
    <3>3. QED
      BY <3>1, <3>2
  <2>7. h + l <= v
    <3>1. h * p \in Int
      BY <1>1, <2>2
    <3>2. QED
      BY <3>1, <2>2, <2>6
  <2>8. Proper(upper(s, m)) /\ Proper(rmasked(s, m))
    BY <1>1, <2>1, <2>2, <2>3, <2>5 DEF Proper, Span
  <2>9. QED
    BY <1>2, <2>1, <2>2, <2>7, <2>8
<1>3. CASE ~(n > m)
  <2>1. upper(s, m) = [v |-> 0, n |-> 0]
    BY <1>3 DEF upper
  <2>2. Least(m, n) = n
    BY <1>1, <1>3 DEF Least
  <2>3. v % Pow[n] = v
    <3>1. 0 * Pow[n] <= v /\ v < (0 + 1) * Pow[n] /\ v - 0 * Pow[n] = v /\ 0 \in Int
      BY <1>1
    <3>2. v % Pow[n] = v - 0 * Pow[n]
      BY <3>1, <1>1, QuotientUnique
    <3>3. QED
      BY <3>1, <3>2
  <2>4. rmasked(s, m) = [v |-> v, n |-> n]
    BY <2>2, <2>3 DEF rmasked
  <2>5. 0 * p + v = v /\ 0 + v <= v
    BY <1>1
  <2>6. 0 \in Nat /\ 0 <= MaxSize /\ 0 < Pow[0]
    BY <1>1, PowAssumption
  <2>7. Proper(upper(s, m)) /\ Proper(rmasked(s, m))
    BY <1>1, <2>1, <2>4, <2>6 DEF Proper, Span
  <2>8. QED
    BY <1>1, <1>3, <2>1, <2>4, <2>5, <2>6, <2>7
<1>4. QED
  BY <1>2, <1>3

(* A vector after cleanup holds its value in the fewest digits.              *)
LEMMA CleanedFacts ==
    ASSUME NEW x \in Nat, NEW m \in 1 .. MaxSize, x < Pow[m]
    PROVE  /\ Proper(cleaned(x)) /\ cleaned(x).v = x /\ cleaned(x).n \in 1 .. m
<1>1. Size(x) \in 1 .. m /\ x < Pow[Size(x)] /\ MaxSize \in Nat
  BY SizeLeast, PowAssumption
<1>2. cleaned(x) = [v |-> x, n |-> Size(x)]
  BY DEF cleaned
<1>3. QED
  BY <1>1, <1>2 DEF Proper, Span

----------------------------------------------------------------------------
(* The frames.                                                               *)
Steps == {"ac", "bd", "sums", "ab_cd", "combine"}
Products == {"ac", "bd", "ab_cd"}
Frames == [lhs : Span, rhs : Span, to : Temps \cup {"result"}, step : Steps]

WellFormed(f) ==
    /\ f \in Frames
    /\ Proper(f.lhs) /\ Proper(f.rhs)
    /\ f.lhs.n >= f.rhs.n /\ f.rhs.n >= 1
    /\ Room(f) <= MaxSize

SumL(f) == PartA(f).v + PartB(f).v
SumR(f) == PartC(f).v + PartD(f).v

(* The parts of the operands, and their sums, whose digits never exceed      *)
(* those of the operand they come from.                                      *)
LEMMA PartFacts ==
    ASSUME NEW f, WellFormed(f)
    PROVE  /\ Mid(f) \in 0 .. MaxSize /\ 2 * Mid(f) <= f.lhs.n /\ f.lhs.n <= 2 * Mid(f) + 1
           /\ f.lhs.n \in 1 .. MaxSize /\ f.rhs.n \in 1 .. f.lhs.n
           /\ f.lhs.v \in Nat /\ f.rhs.v \in Nat
           /\ Proper(PartA(f)) /\ Proper(PartB(f)) /\ Proper(PartC(f)) /\ Proper(PartD(f))
           /\ PartA(f).n = f.lhs.n - Mid(f) /\ PartB(f).n = Mid(f)
           /\ PartC(f).n = (IF f.rhs.n > Mid(f) THEN f.rhs.n - Mid(f) ELSE 0)
           /\ PartD(f).n = (IF f.rhs.n > Mid(f) THEN Mid(f) ELSE f.rhs.n)
           /\ PartA(f).v \in Nat /\ PartB(f).v \in Nat /\ PartC(f).v \in Nat /\ PartD(f).v \in Nat
           /\ f.lhs.v = PartA(f).v * Pow[Mid(f)] + PartB(f).v
           /\ f.rhs.v = PartC(f).v * Pow[Mid(f)] + PartD(f).v
           /\ SumL(f) \in Nat /\ SumL(f) <= f.lhs.v /\ SumL(f) < Pow[f.lhs.n]
           /\ SumR(f) \in Nat /\ SumR(f) <= f.rhs.v /\ SumR(f) < Pow[f.rhs.n]
<1>1. /\ Proper(f.lhs) /\ Proper(f.rhs) /\ f.lhs.n >= f.rhs.n /\ f.rhs.n >= 1
      /\ f.lhs.n \in Nat /\ f.rhs.n \in Nat /\ f.lhs.n <= MaxSize /\ f.rhs.n <= MaxSize
      /\ f.lhs.v \in Nat /\ f.rhs.v \in Nat /\ MaxSize \in Nat
      /\ f.lhs.v < Pow[f.lhs.n] /\ f.rhs.v < Pow[f.rhs.n]
  BY PowAssumption DEF WellFormed, Proper, Span
<1>2. Mid(f) \in Nat /\ 2 * Mid(f) <= f.lhs.n /\ f.lhs.n <= 2 * Mid(f) + 1
  BY <1>1 DEF Mid
<1>3. Mid(f) \in 0 .. MaxSize /\ f.lhs.n > Mid(f)
  BY <1>1, <1>2
<1>4. /\ Proper(PartA(f)) /\ Proper(PartB(f))
      /\ PartA(f).n = f.lhs.n - Mid(f) /\ PartB(f).n = Mid(f)
      /\ PartA(f).v \in Nat /\ PartB(f).v \in Nat
      /\ f.lhs.v = PartA(f).v * Pow[Mid(f)] + PartB(f).v
      /\ SumL(f) <= f.lhs.v
  BY <1>1, <1>3, SplitFacts DEF PartA, PartB, SumL
<1>5. /\ Proper(PartC(f)) /\ Proper(PartD(f))
      /\ PartC(f).n = (IF f.rhs.n > Mid(f) THEN f.rhs.n - Mid(f) ELSE 0)
      /\ PartD(f).n = (IF f.rhs.n > Mid(f) THEN Mid(f) ELSE f.rhs.n)
      /\ PartC(f).v \in Nat /\ PartD(f).v \in Nat
      /\ f.rhs.v = PartC(f).v * Pow[Mid(f)] + PartD(f).v
      /\ SumR(f) <= f.rhs.v
  BY <1>1, <1>3, SplitFacts DEF PartC, PartD, SumR
<1>6. SumL(f) \in Nat /\ SumR(f) \in Nat
  BY <1>4, <1>5 DEF SumL, SumR
<1>7. Pow[f.lhs.n] \in Nat /\ Pow[f.rhs.n] \in Nat
  BY <1>1, PowAssumption
<1>8. SumL(f) < Pow[f.lhs.n] /\ SumR(f) < Pow[f.rhs.n]
  BY <1>1, <1>4, <1>5, <1>6, <1>7
<1>9. f.lhs.n \in 1 .. MaxSize /\ f.rhs.n \in 1 .. f.lhs.n
  BY <1>1
<1>10. QED
  BY <1>1, <1>2, <1>3, <1>4, <1>5, <1>6, <1>8, <1>9

----------------------------------------------------------------------------
(* The recursion ends: the parts have about half the digits and the sums one *)
(* more, except that the sums of three digits may have three digits again;   *)
(* these are small, and their sums have two.                                 *)
Small(f) == f.lhs.v < B * B + B /\ f.rhs.v < B * B + B
Weight(f) ==
    IF f.lhs.n >= 4 THEN f.lhs.n - 1 ELSE IF f.lhs.n = 3 /\ ~Small(f) THEN 2 ELSE 1

LEMMA WeightFacts ==
    ASSUME NEW f, f.lhs.n \in Nat
    PROVE  /\ Weight(f) \in Nat /\ Weight(f) >= 1
           /\ f.lhs.n >= 1 => Weight(f) <= f.lhs.n
           /\ f.lhs.n >= 3 => Weight(f) <= f.lhs.n - 1
<1> DEFINE small == f.lhs.n = 3 /\ ~Small(f)
<1>1. small => f.lhs.n = 3
  OBVIOUS
<1>2. Weight(f) = IF f.lhs.n >= 4 THEN f.lhs.n - 1 ELSE IF small THEN 2 ELSE 1
  BY DEF Weight
<1> HIDE DEF small
<1>3. QED
  BY <1>1, <1>2

(* Two numbers of at most k digits have a sum of at most k + 1.              *)
LEMMA SumSize ==
    ASSUME NEW s, NEW t, Proper(s), Proper(t), NEW k \in Nat, k + 1 <= MaxSize,
           s.n <= k, t.n <= k
    PROVE  s.v + t.v < Pow[k + 1]
<1>1. /\ s.n \in Nat /\ t.n \in Nat /\ s.v \in Nat /\ t.v \in Nat
      /\ s.v < Pow[s.n] /\ t.v < Pow[t.n] /\ k \in 0 .. MaxSize - 1 /\ k <= MaxSize
      /\ k \in 0 .. MaxSize /\ s.n \in 0 .. MaxSize /\ t.n \in 0 .. MaxSize
  BY PowAssumption DEF Proper, Span
<1>2. Pow[s.n] <= Pow[k] /\ Pow[t.n] <= Pow[k]
  BY <1>1, PowGrows
<1>3. Pow[k + 1] = B * Pow[k] /\ Pow[k] \in Nat /\ Pow[s.n] \in Nat /\ Pow[t.n] \in Nat
  BY <1>1, PowAssumption
<1>4. 2 * Pow[k] <= B * Pow[k] /\ 2 * Pow[k] \in Int /\ B * Pow[k] \in Int
  BY <1>3, BAssumption, MulMonotone
<1>5. s.v + t.v < 2 * Pow[k]
  BY <1>1, <1>2, <1>3
<1>6. QED
  BY <1>1, <1>3, <1>4, <1>5

(* Three digits: what their sums are smaller than.                           *)
LEMMA ThreeDigits ==
    ASSUME NEW s, Proper(s), s.n <= 3, MaxSize >= 3
    PROVE  /\ upper(s, 1).v + rmasked(s, 1).v < B * B + B
           /\ s.v < B * B + B => upper(s, 1).v + rmasked(s, 1).v < Pow[2]
<1> DEFINE h == upper(s, 1)  l == rmasked(s, 1)
<1>1. B \in Nat /\ B >= 2 /\ B * B \in Nat /\ 2 * B <= B * B
  <2>1. B \in Nat /\ B >= 2
    BY BAssumption
  <2>2. QED
    BY <2>1, MulMonotone
<1>2. MaxSize \in Nat /\ Pow[0] = 1 /\ Pow[1] = B /\ Pow[2] = B * B
  <2>1. 0 \in 0 .. MaxSize - 1 /\ 1 \in 0 .. MaxSize - 1 /\ 0 + 1 = 1 /\ 1 + 1 = 2
    BY PowAssumption
  <2>2. QED
    BY <2>1, <1>1, PowAssumption
<1>3. 1 \in 0 .. MaxSize
  BY <1>2
<1>4. /\ Proper(h) /\ Proper(l) /\ h.v \in Nat /\ l.v \in Nat /\ s.n \in Nat /\ s.v \in Nat
      /\ h.n = (IF s.n > 1 THEN s.n - 1 ELSE 0) /\ l.n = (IF s.n > 1 THEN 1 ELSE s.n)
      /\ s.v = h.v * Pow[1] + l.v
  BY <1>3, SplitFacts DEF Proper, Span
<1> HIDE DEF h, l
<1>5. h.n \in 0 .. 2 /\ l.n \in 0 .. 1
  BY <1>4
<1>6. h.v < B * B
  <2>1. h.v < Pow[h.n] /\ h.n \in Nat
    BY <1>4 DEF Proper, Span
  <2>2. h.n = 0 \/ h.n = 1 \/ h.n = 2
    BY <1>5
  <2>3. QED
    BY <2>1, <2>2, <1>1, <1>2, <1>4
<1>7. l.v < B
  <2>1. l.v < Pow[l.n]
    BY <1>4 DEF Proper
  <2>2. l.n = 0 \/ l.n = 1
    BY <1>5
  <2>3. QED
    BY <2>1, <2>2, <1>1, <1>2, <1>4
<1>8. h.v + l.v < B * B + B
  BY <1>1, <1>4, <1>6, <1>7
<1>9. ASSUME s.v < B * B + B PROVE h.v + l.v < Pow[2]
  <2>1. h.v < B + 1
    <3>1. h.v * B < (B + 1) * B
      <4>1. (B + 1) * B = B * B + B /\ h.v * B \in Nat /\ h.v * B <= s.v
        BY <1>1, <1>2, <1>4
      <4>2. QED
        BY <4>1, <1>1, <1>4, <1>9
    <3>2. QED
      BY <3>1, <1>1, <1>4, MulCancel
  <2>2. h.v + l.v < 2 * B
    BY <2>1, <1>1, <1>4, <1>7
  <2>3. QED
    BY <2>2, <1>1, <1>2, <1>4
<1>10. QED
  BY <1>8, <1>9 DEF h, l

(* The operands of the three products.                                       *)
Operands3(f, x, y) ==
    \/ x = PartA(f) /\ y = PartC(f)
    \/ x = PartB(f) /\ y = PartD(f)
    \/ x = cleaned(SumL(f)) /\ y = cleaned(SumR(f))

LEMMA OperandFacts ==
    ASSUME NEW f, WellFormed(f), NEW x, NEW y, Operands3(f, x, y)
    PROVE  /\ Proper(x) /\ Proper(y) /\ x.n \in 0 .. f.lhs.n /\ y.n \in 0 .. f.rhs.n
           /\ x.v \in Nat /\ y.v \in Nat
           /\ x.v * y.v \in Nat /\ x.v * y.v < Pow[Room(f)]
           /\ Room(f) \in 1 .. MaxSize
<1>1. /\ Mid(f) \in 0 .. MaxSize /\ 2 * Mid(f) <= f.lhs.n /\ f.lhs.n <= 2 * Mid(f) + 1
      /\ f.lhs.n \in 1 .. MaxSize /\ f.rhs.n \in 1 .. f.lhs.n
      /\ Proper(PartA(f)) /\ Proper(PartB(f)) /\ Proper(PartC(f)) /\ Proper(PartD(f))
      /\ PartA(f).n = f.lhs.n - Mid(f) /\ PartB(f).n = Mid(f)
      /\ PartC(f).n = (IF f.rhs.n > Mid(f) THEN f.rhs.n - Mid(f) ELSE 0)
      /\ PartD(f).n = (IF f.rhs.n > Mid(f) THEN Mid(f) ELSE f.rhs.n)
      /\ SumL(f) \in Nat /\ SumL(f) < Pow[f.lhs.n]
      /\ SumR(f) \in Nat /\ SumR(f) < Pow[f.rhs.n]
  BY PartFacts
<1>2. MaxSize \in Nat /\ f.rhs.n \in 1 .. MaxSize
  BY <1>1, PowAssumption
<1>3. Proper(x) /\ Proper(y) /\ x.n \in 0 .. f.lhs.n /\ y.n \in 0 .. f.rhs.n
  <2>1. CASE x = PartA(f) /\ y = PartC(f)
    BY <2>1, <1>1, <1>2
  <2>2. CASE x = PartB(f) /\ y = PartD(f)
    BY <2>2, <1>1, <1>2
  <2>3. CASE x = cleaned(SumL(f)) /\ y = cleaned(SumR(f))
    <3>1. /\ Proper(cleaned(SumL(f))) /\ cleaned(SumL(f)).n \in 1 .. f.lhs.n
          /\ Proper(cleaned(SumR(f))) /\ cleaned(SumR(f)).n \in 1 .. f.rhs.n
      BY <1>1, <1>2, CleanedFacts
    <3>2. QED
      BY <2>3, <3>1, <1>1, <1>2
  <2>4. QED
    BY <2>1, <2>2, <2>3 DEF Operands3
<1>4. x.v \in Nat /\ y.v \in Nat /\ x.v < Pow[x.n] /\ y.v < Pow[y.n] /\ x.n <= MaxSize /\ y.n <= MaxSize
  BY <1>3 DEF Proper, Span
<1>5. Room(f) \in 1 .. MaxSize /\ Room(f) = f.lhs.n + f.rhs.n
  BY <1>1, <1>2 DEF WellFormed, Room
<1> DEFINE p == Pow[f.lhs.n]  q == Pow[f.rhs.n]
<1>6. p \in Nat /\ q \in Nat /\ Pow[Room(f)] = p * q /\ x.v < p /\ y.v < q
  <2>1. Pow[x.n] <= p /\ Pow[y.n] <= q
    BY <1>1, <1>2, <1>3, PowGrows
  <2>2. p \in Nat /\ q \in Nat /\ Pow[x.n] \in Nat /\ Pow[y.n] \in Nat
    <3>1. x.n \in 0 .. MaxSize /\ y.n \in 0 .. MaxSize /\ f.lhs.n \in 0 .. MaxSize
          /\ f.rhs.n \in 0 .. MaxSize
      BY <1>1, <1>2, <1>3
    <3>2. QED
      BY <3>1, PowAssumption
  <2>3. Pow[Room(f)] = p * q
    BY <1>1, <1>2, <1>5, PowSum
  <2>4. QED
    BY <1>4, <2>1, <2>2, <2>3
<1> HIDE DEF p, q
<1>7. x.v * y.v \in Nat /\ x.v * y.v < p * q
  <2>1. x.v * y.v <= x.v * q /\ x.v * q < p * q
    BY <1>4, <1>6, MulMonotone, MulStrict
  <2>2. x.v * y.v \in Nat /\ x.v * q \in Nat /\ p * q \in Nat
    BY <1>4, <1>6
  <2>3. QED
    BY <2>1, <2>2
<1>8. QED
  BY <1>3, <1>4, <1>5, <1>6, <1>7

LEMMA Descends ==
    ASSUME NEW f, WellFormed(f), NEW x, NEW y, Operands3(f, x, y), NEW to,
           NEW max, max = (IF x.n > y.n THEN x.n ELSE y.n), max >= 3
    PROVE  Weight(Frame(x, y, to)) + 1 <= Weight(f)
<1> DEFINE n == f.lhs.n  m == Mid(f)  k == n - m  g == Frame(x, y, to)
<1>1. /\ m \in 0 .. MaxSize /\ 2 * m <= n /\ n <= 2 * m + 1
      /\ n \in 1 .. MaxSize /\ f.rhs.n \in 1 .. n
      /\ Proper(PartA(f)) /\ Proper(PartB(f)) /\ Proper(PartC(f)) /\ Proper(PartD(f))
      /\ PartA(f).n = n - m /\ PartB(f).n = m
      /\ PartC(f).n = (IF f.rhs.n > m THEN f.rhs.n - m ELSE 0)
      /\ PartD(f).n = (IF f.rhs.n > m THEN m ELSE f.rhs.n)
      /\ SumL(f) \in Nat /\ SumL(f) < Pow[n]
      /\ SumR(f) \in Nat /\ SumR(f) < Pow[f.rhs.n]
  BY PartFacts
<1>2. x.n \in 0 .. n /\ y.n \in 0 .. f.rhs.n /\ MaxSize \in Nat
  BY OperandFacts, PowAssumption
<1>3. max \in Nat /\ max <= n /\ n >= 3 /\ m >= 1 /\ m \in Nat /\ n \in Nat /\ f.rhs.n \in Nat
      /\ x.n \in Nat /\ y.n \in Nat
  BY <1>1, <1>2
<1>4. g.lhs.n = max /\ ((g.lhs = x /\ g.rhs = y) \/ (g.lhs = y /\ g.rhs = x))
  BY <1>3 DEF Frame
<1>5. /\ Weight(g) \in Nat /\ Weight(g) <= max - 1
      /\ Weight(f) \in Nat /\ Weight(f) >= 1
  BY <1>3, <1>4, WeightFacts
<1>6. n >= 4 => Weight(f) = n - 1
  BY <1>3 DEF Weight
<1>7. ASSUME NEW s, NEW t, Proper(s), Proper(t), s.n <= k, t.n <= k, s.v + t.v \in Nat
      PROVE  cleaned(s.v + t.v).n <= k + 1
  <2>1. k \in Nat /\ k + 1 <= MaxSize /\ k + 1 \in 1 .. MaxSize
    BY <1>1, <1>2, <1>3
  <2>2. s.v + t.v < Pow[k + 1]
    BY <1>7, <2>1, SumSize
  <2>3. cleaned(s.v + t.v).n \in 1 .. k + 1
    BY <1>7, <2>1, <2>2, CleanedFacts
  <2>4. QED
    BY <2>1, <2>3
<1>8. max <= k + 1
  <2>1. k \in Nat /\ m <= k /\ PartC(f).n <= k /\ PartD(f).n <= k
    BY <1>1, <1>3
  <2>2. CASE x = PartA(f) /\ y = PartC(f)
    BY <2>1, <2>2, <1>1, <1>3
  <2>3. CASE x = PartB(f) /\ y = PartD(f)
    BY <2>1, <2>3, <1>1, <1>3
  <2>4. CASE x = cleaned(SumL(f)) /\ y = cleaned(SumR(f))
    <3>1. x.n <= k + 1
      BY <2>1, <2>4, <1>1, <1>7 DEF SumL
    <3>2. y.n <= k + 1
      BY <2>1, <2>4, <1>1, <1>7 DEF SumR
    <3>3. QED
      BY <3>1, <3>2
  <2>5. QED
    BY <2>2, <2>3, <2>4 DEF Operands3
<1>9. CASE n >= 4
  BY <1>1, <1>3, <1>5, <1>6, <1>8, <1>9
<1>10. CASE n = 3
  <2>1. m = 1 /\ k = 2 /\ max = 3
    BY <1>1, <1>3, <1>8, <1>10
  <2>2. x = cleaned(SumL(f)) /\ y = cleaned(SumR(f))
    <3>1. PartA(f).n <= 2 /\ PartB(f).n <= 2 /\ PartC(f).n <= 2 /\ PartD(f).n <= 2
      BY <2>1, <1>1, <1>3, <1>10
    <3>2. QED
      BY <3>1, <2>1 DEF Operands3
  <2>3. /\ Proper(f.lhs) /\ Proper(f.rhs) /\ f.lhs.n <= 3 /\ f.rhs.n <= 3 /\ MaxSize >= 3
    BY <1>1, <1>3, <1>10 DEF WellFormed
  <2>4. /\ SumL(f) < B * B + B /\ (f.lhs.v < B * B + B => SumL(f) < Pow[2])
        /\ SumR(f) < B * B + B /\ (f.rhs.v < B * B + B => SumR(f) < Pow[2])
    BY <2>1, <2>3, ThreeDigits DEF SumL, SumR, PartA, PartB, PartC, PartD
  <2>5. ~Small(f)
    <3> SUFFICES ASSUME Small(f) PROVE FALSE
      OBVIOUS
    <3>1. 2 \in 1 .. MaxSize
      BY <2>3, <1>2
    <3>2. cleaned(SumL(f)).n \in 1 .. 2 /\ cleaned(SumR(f)).n \in 1 .. 2
      BY <3>1, <2>4, <1>1, CleanedFacts DEF Small
    <3>3. QED
      BY <3>2, <2>1, <2>2
  <2>6. Small(g)
    <3>1. x.v = SumL(f) /\ y.v = SumR(f)
      BY <2>2 DEF cleaned
    <3>2. QED
      BY <3>1, <2>4, <1>4 DEF Small
  <2>7. Weight(f) = 2 /\ Weight(g) = 1
    BY <2>1, <2>5, <2>6, <1>4, <1>10 DEF Weight
  <2>8. QED
    BY <2>7
<1>11. QED
  BY <1>3, <1>9, <1>10

----------------------------------------------------------------------------
(* The products put together.                                                *)
LEMMA MinusFacts ==
    ASSUME NEW s, Proper(s), s.n >= 1, NEW x \in Nat, x <= s.v
    PROVE  /\ Minus(s, x) = cleaned(s.v - x)
           /\ Proper(Minus(s, x)) /\ Minus(s, x).n >= 1 /\ Minus(s, x).v = s.v - x
<1>1. s.v \in Nat /\ s.n \in 1 .. MaxSize /\ s.v < Pow[s.n] /\ Pow[s.n] \in Nat
  BY PowAssumption DEF Proper, Span
<1>2. s.v - x \in Nat /\ s.v - x < Pow[s.n]
  BY <1>1
<1>3. Minus(s, x) = cleaned(s.v - x)
  BY <1>1, <1>2, ModSmall DEF Minus
<1>4. /\ Proper(cleaned(s.v - x)) /\ cleaned(s.v - x).v = s.v - x
      /\ cleaned(s.v - x).n \in 1 .. s.n
  BY <1>1, <1>2, CleanedFacts
<1>5. QED
  BY <1>1, <1>3, <1>4

(* What fits the result is added without loss.                               *)
LEMMA AddedFacts ==
    ASSUME NEW r \in Nat, NEW room \in 1 .. MaxSize, NEW shift \in Nat, shift < room,
           NEW s, Proper(s), r + s.v * Pow[shift] < Pow[room]
    PROVE  AddedAt(r, room, shift, s) = r + s.v * Pow[shift]
<1> DEFINE m == room - shift  p == Pow[shift]  q == Pow[m]
<1>1. m \in 0 .. MaxSize /\ m \in Nat /\ shift + m = room /\ shift \in 0 .. MaxSize /\ room <= MaxSize
  BY PowAssumption
<1>2. p \in Nat /\ p > 0 /\ q \in Nat /\ q > 0 /\ Pow[room] = p * q /\ s.v \in Nat
  BY <1>1, PowPositive, PowSum DEF Proper, Span
<1>3. rmasked(s, m).v = s.v
  <2> DEFINE h == upper(s, m).v  l == rmasked(s, m).v
  <2>1. h \in Nat /\ l \in Nat /\ s.v = h * q + l
    BY <1>1, SplitFacts
  <2> HIDE DEF h, l
  <2>2. s.v < q
    <3>1. s.v * p < q * p
      <4>1. p * q = q * p /\ s.v * p \in Nat
        BY <1>2
      <4>2. QED
        BY <4>1, <1>2
    <3>2. QED
      BY <3>1, <1>2, MulCancel
  <2>3. h = 0
    <3> SUFFICES ASSUME h >= 1 PROVE FALSE
      BY <2>1
    <3>1. 1 * q <= h * q /\ 1 * q = q /\ h * q \in Nat
      BY <1>2, <2>1, MulMonotone
    <3>2. QED
      BY <3>1, <2>1, <2>2, <1>2
  <2>4. h * q = 0
    BY <2>3, <1>2
  <2>5. QED
    BY <2>1, <2>4 DEF l
<1>4. (r + s.v * p) % Pow[room] = r + s.v * p
  <2>1. r + s.v * p \in Nat /\ Pow[room] \in Nat
    BY <1>2
  <2>2. QED
    BY <2>1, ModSmall
<1>5. QED
  BY <1>3, <1>4 DEF AddedAt

(* lhs * rhs = ac:0:0 + (ad + bc):0 + bd                                     *)
LEMMA Halves ==
    ASSUME NEW a \in Nat, NEW b \in Nat, NEW u \in Nat, NEW d \in Nat, NEW p \in Nat
    PROVE  /\ (a + b) * (u + d) = a * u + b * d + (a * d + b * u)
           /\ (a * p + b) * (u * p + d) = (b * d + (a * d + b * u) * p) + a * u * (p * p)
           /\ a * u \in Nat /\ b * d \in Nat /\ a * d + b * u \in Nat
           /\ (a * d + b * u) * p \in Nat /\ a * u * (p * p) \in Nat
<1>1. (a + b) * (u + d) = a * u + b * d + (a * d + b * u)
  OBVIOUS
<1>2. (a * p + b) * (u * p + d) = (b * d + (a * d + b * u) * p) + a * u * (p * p)
  <2> DEFINE x == a * p  y == u * p
  <2>1. x \in Nat /\ y \in Nat
    OBVIOUS
  <2>2. (x + b) * (y + d) = x * y + b * d + (x * d + b * y)
    <3> HIDE DEF x, y
    <3> QED
      BY <2>1
  <2>3. x * y = a * u * (p * p) /\ x * d = a * d * p /\ b * y = b * u * p
    OBVIOUS
  <2>4. (a * d + b * u) * p = a * d * p + b * u * p
    OBVIOUS
  <2>5. a * u * (p * p) \in Int /\ b * d \in Int /\ a * d * p \in Int /\ b * u * p \in Int
    OBVIOUS
  <2>6. ASSUME NEW i1 \in Int, NEW i2 \in Int, NEW i3 \in Int, NEW i4 \in Int
        PROVE  i1 + i2 + (i3 + i4) = (i2 + (i3 + i4)) + i1
    OBVIOUS
  <2>7. a * u * (p * p) + b * d + (a * d * p + b * u * p)
            = (b * d + (a * d * p + b * u * p)) + a * u * (p * p)
    BY <2>5, <2>6
  <2>8. QED
    BY <2>2, <2>3, <2>4, <2>7
<1>3. a * u \in Nat /\ b * d \in Nat /\ a * d \in Nat /\ b * u \in Nat /\ p * p \in Nat
  OBVIOUS
<1>4. a * d + b * u \in Nat
  BY <1>3
<1>5. (a * d + b * u) * p \in Nat /\ a * u * (p * p) \in Nat
  BY <1>3, <1>4
<1>6. QED
  BY <1>1, <1>2, <1>3, <1>4, <1>5

LEMMA CombinedFacts ==
    ASSUME NEW f, WellFormed(f), NEW t,
           t["ac"] = cleaned(PartA(f).v * PartC(f).v),
           t["bd"] = cleaned(PartB(f).v * PartD(f).v),
           t["ab_cd"] = cleaned(SumL(f) * SumR(f))
    PROVE  /\ Combined(f, t) = f.lhs.v * f.rhs.v
           /\ t["ab_cd"].v >= t["ac"].v + t["bd"].v
           /\ t["bd"].n <= Room(f)
           /\ Combined(f, t) \in Nat /\ Combined(f, t) < Pow[Room(f)]
<1> DEFINE a == PartA(f).v  b == PartB(f).v  u == PartC(f).v  d == PartD(f).v
           m == Mid(f)  p == Pow[m]  room == Room(f)
           low == b * d  high == a * u  middle == a * d + b * u
<1>1. /\ m \in Nat /\ m \in 0 .. MaxSize /\ 2 * m <= f.lhs.n /\ f.lhs.n \in 1 .. MaxSize
      /\ f.rhs.n \in 1 .. f.lhs.n
      /\ a \in Nat /\ b \in Nat /\ u \in Nat /\ d \in Nat
      /\ f.lhs.v = a * p + b /\ f.rhs.v = u * p + d
      /\ f.lhs.v \in Nat /\ f.rhs.v \in Nat
  BY PartFacts
<1>2. p \in Nat /\ Pow[2 * m] = p * p /\ MaxSize \in Nat
  <2> HIDE DEF a, b, u, d, m
  <2>1. MaxSize \in Nat /\ m \in Nat /\ m \in 0 .. MaxSize /\ 2 * m <= f.lhs.n /\ f.lhs.n \in 1 .. MaxSize
    BY <1>1, PowAssumption
  <2>2. m + m = 2 * m /\ m + m <= MaxSize
    BY <2>1
  <2>3. Pow[m + m] = Pow[m] * Pow[m] /\ Pow[m] \in Nat
    BY <2>1, <2>2, PowSum, PowAssumption
  <2>4. QED
    BY <2>1, <2>2, <2>3
<1>3. /\ room \in 1 .. MaxSize /\ room \in Nat /\ m < room /\ 2 * m < room /\ 2 * m \in Nat
  BY <1>1, <1>2 DEF WellFormed, Room
<1> DEFINE top1 == Pow[room]
<1>4. top1 \in Nat
  BY <1>3, PowAssumption
<1>5. /\ f.lhs.v * f.rhs.v \in Nat /\ f.lhs.v * f.rhs.v < top1
  <2> DEFINE e == Pow[f.lhs.n]  g == Pow[f.rhs.n]
  <2>1. /\ f.lhs.v < e /\ f.rhs.v < g /\ e \in Nat /\ g \in Nat /\ top1 = e * g
    <3>1. f.lhs.n + f.rhs.n <= MaxSize /\ room = f.lhs.n + f.rhs.n
      BY DEF Room, WellFormed
    <3>2. f.lhs.n \in Nat /\ f.rhs.n \in Nat /\ f.lhs.n \in 0 .. MaxSize /\ f.rhs.n \in 0 .. MaxSize
      BY <1>1, <1>2
    <3>3. QED
      BY <3>1, <3>2, PowSum, PowAssumption DEF WellFormed, Proper
  <2> HIDE DEF e, g, top1
  <2> DEFINE x == f.lhs.v  y == f.rhs.v
  <2>2. x \in Nat /\ y \in Nat /\ x < e /\ y < g
    BY <2>1, <1>1
  <2> HIDE DEF x, y
  <2>3. x * y <= x * g /\ x * g < e * g /\ x * y \in Nat /\ x * g \in Nat /\ e * g \in Nat
    BY <2>1, <2>2, MulMonotone, MulStrict
  <2>4. QED
    BY <2>1, <2>3 DEF x, y
<1>6. /\ SumL(f) * SumR(f) = high + low + middle
      /\ f.lhs.v * f.rhs.v = (low + middle * p) + high * (p * p)
      /\ high \in Nat /\ low \in Nat /\ middle \in Nat /\ middle * p \in Nat /\ high * (p * p) \in Nat
  <2>1. SumL(f) = a + b /\ SumR(f) = u + d
    BY DEF SumL, SumR
  <2> HIDE DEF a, b, u, d, p
  <2>2. a \in Nat /\ b \in Nat /\ u \in Nat /\ d \in Nat /\ p \in Nat
    BY <1>1, <1>2
  <2>3. /\ (a + b) * (u + d) = high + low + middle
        /\ (a * p + b) * (u * p + d) = (low + middle * p) + high * (p * p)
        /\ high \in Nat /\ low \in Nat /\ middle \in Nat /\ middle * p \in Nat /\ high * (p * p) \in Nat
    BY <2>2, Halves
  <2>4. QED
    BY <2>1, <2>3, <1>1
<1>7. ASSUME NEW x, NEW y, Operands3(f, x, y)
      PROVE  /\ Proper(cleaned(x.v * y.v)) /\ cleaned(x.v * y.v).v = x.v * y.v
             /\ cleaned(x.v * y.v).n \in 1 .. room
  BY <1>3, <1>7, OperandFacts, CleanedFacts
<1>8. /\ Proper(t["ac"]) /\ t["ac"].v = high
      /\ Proper(t["bd"]) /\ t["bd"].v = low /\ t["bd"].n \in 1 .. room
  BY <1>7 DEF Operands3
<1>9. /\ Proper(t["ab_cd"]) /\ t["ab_cd"].v = high + low + middle /\ t["ab_cd"].n \in 1 .. room
  <2>1. /\ Operands3(f, cleaned(SumL(f)), cleaned(SumR(f)))
        /\ cleaned(SumL(f)).v = SumL(f) /\ cleaned(SumR(f)).v = SumR(f)
    BY DEF Operands3, cleaned
  <2>2. /\ Proper(cleaned(SumL(f) * SumR(f))) /\ cleaned(SumL(f) * SumR(f)).v = SumL(f) * SumR(f)
        /\ cleaned(SumL(f) * SumR(f)).n \in 1 .. room
    BY <2>1, <1>7
  <2>3. QED
    BY <2>2, <1>6
<1> HIDE DEF low, high, middle, p, room, top1
<1>10. Proper(Middle(t)) /\ Middle(t).v = middle
  <2> DEFINE s == Minus(t["ab_cd"], t["ac"].v)
  <2>1. Proper(s) /\ s.n >= 1 /\ s.v = low + middle
    <3>1. t["ac"].v \in Nat /\ t["ac"].v <= t["ab_cd"].v /\ t["ab_cd"].n >= 1
          /\ t["ab_cd"].v - t["ac"].v = low + middle
      BY <1>6, <1>8, <1>9
    <3>2. QED
      BY <3>1, <1>9, MinusFacts
  <2> HIDE DEF s
  <2>2. t["bd"].v \in Nat /\ t["bd"].v <= s.v /\ s.v - t["bd"].v = middle
    BY <2>1, <1>6, <1>8
  <2>3. Proper(Minus(s, t["bd"].v)) /\ Minus(s, t["bd"].v).v = middle
    BY <2>1, <2>2, MinusFacts
  <2>4. QED
    BY <2>3 DEF Middle, s
<1>11. low + middle * p < top1 /\ (low + middle * p) + high * (p * p) < top1
  BY <1>4, <1>5, <1>6
<1> DEFINE r == AddedAt(t["bd"].v, room, m, Middle(t))
<1>12. r = low + middle * p
  <2>1. t["bd"].v \in Nat /\ t["bd"].v + Middle(t).v * Pow[m] < Pow[room]
    BY <1>6, <1>8, <1>10, <1>11 DEF p, top1
  <2>2. r = t["bd"].v + Middle(t).v * Pow[m]
    BY <2>1, <1>1, <1>3, <1>10, AddedFacts
  <2>3. QED
    BY <2>2, <1>8, <1>10 DEF p
<1>13. AddedAt(r, room, 2 * m, t["ac"]) = r + high * (p * p)
  <2> DEFINE q == Pow[2 * m]
  <2>1. r \in Nat /\ r + t["ac"].v * q < Pow[room]
    BY <1>2, <1>6, <1>8, <1>11, <1>12 DEF top1
  <2> HIDE DEF r
  <2>2. AddedAt(r, room, 2 * m, t["ac"]) = r + t["ac"].v * q
    BY <2>1, <1>3, <1>8, AddedFacts
  <2>3. QED
    BY <2>2, <1>2, <1>8
<1>14. Combined(f, t) = (low + middle * p) + high * (p * p)
  BY <1>12, <1>13 DEF Combined, room
<1>15. Combined(f, t) = f.lhs.v * f.rhs.v
  BY <1>6, <1>14
<1>16. t["ab_cd"].v >= t["ac"].v + t["bd"].v
  BY <1>6, <1>8, <1>9
<1>17. t["bd"].n <= Room(f)
  BY <1>3, <1>8 DEF room
<1>18. QED
  BY <1>5, <1>15, <1>16, <1>17 DEF top1, room

----------------------------------------------------------------------------
(* The inductive invariant: that of Multiply, and about every active level   *)
(* what it has computed, how deep it may still go and that its caller waits  *)
(* for its product.                                                          *)
Wanted(f) ==
    CASE f.step = "ac" -> PartA(f).v * PartC(f).v
      [] f.step = "bd" -> PartB(f).v * PartD(f).v
      [] OTHER -> SumL(f) * SumR(f)

Done(f, t) ==
    /\ f.step # "ac" => t["ac"] = cleaned(PartA(f).v * PartC(f).v)
    /\ f.step \notin {"ac", "bd"} => t["bd"] = cleaned(PartB(f).v * PartD(f).v)
    /\ f.step \in {"ab_cd", "combine"} => t["a_b"] = cleaned(SumL(f)) /\ t["c_d"] = cleaned(SumR(f))
    /\ f.step = "combine" => t["ab_cd"] = cleaned(SumL(f) * SumR(f))

Shape ==
    /\ frames \in Seq(Frames)
    /\ temps \in [1 .. MaxDepth -> [Temps -> Span]]
    /\ frames # <<>> => pc = "karatsuba"

Levels ==
    \A l \in 1 .. Len(frames) :
        WellFormed(frames[l]) /\ l + Weight(frames[l]) <= MaxDigits + 1 /\ Done(frames[l], temps[l])

Outer ==
    frames # <<>> =>
        /\ frames[1].lhs.v * frames[1].rhs.v = Before(long) * Whole
        /\ Room(frames[1]) = na + nb

Waiting ==
    \A l \in 1 .. Len(frames) : l > 1 =>
        /\ frames[l - 1].step \in Products /\ frames[l].to = frames[l - 1].step
        /\ frames[l].lhs.v * frames[l].rhs.v = Wanted(frames[l - 1])

(* The operands of a multiplication of BigInts keep their sizes.             *)
SizesKept == ~byWord => \A k \in 2 .. 3 : size[alias[k]] = size0[alias[k]]

KInv == IInv /\ Shape /\ Levels /\ Outer /\ Waiting /\ SizesKept

----------------------------------------------------------------------------
LEMMA KInitInv == KInit => KInv
<1> SUFFICES ASSUME KInit PROVE KInv
  OBVIOUS
<1>1. Init /\ frames = <<>>
  BY DEF KInit
<1>2. PICK s \in Stale : temps = [l \in 1 .. MaxDepth |-> [t \in Temps |-> s]]
  BY DEF KInit
<1>3. s \in Span
  BY KaratsubaAssumption DEF Span
<1>4. temps \in [1 .. MaxDepth -> [Temps -> Span]]
  BY <1>2, <1>3
<1>5. Shape /\ Levels /\ Outer /\ Waiting
  BY <1>1, <1>4 DEF Shape, Levels, Outer, Waiting
<1>6. SizesKept
  BY <1>1 DEF Init, SizesKept
<1>7. QED
  BY <1>1, <1>5, <1>6, InitInv DEF KInv

(* Steps that keep the frames are steps of Multiply, between the levels.     *)
LEMMA IdleInv ==
    ASSUME KInv, frames = <<>>, [Next]_vars, UNCHANGED <<frames, temps>>
    PROVE  KInv'
<1>1. IInv'
  BY NextInv DEF KInv
<1>2. Shape' /\ Levels' /\ Outer' /\ Waiting'
  BY DEF KInv, Shape, Levels, Outer, Waiting
<1>3. SizesKept'
  <2> SUFFICES ASSUME ~byWord', NEW k \in 2 .. 3
               PROVE  size'[alias'[k]] = size0'[alias'[k]]
    BY DEF SizesKept
  <2>1. alias' = alias /\ size0' = size0 /\ byWord' = byWord
    BY DEF Next, WordZero, CallWord, NamedZero, CallBig, FirstRow, NextRow, Store, RowEnd, Finish,
           Return, vars, call, byWord
  <2>2. alias[k] # result /\ alias[k] \in Objs /\ size[alias[k]] = size0[alias[k]]
    <3>1. k = 2 \/ k = 3
      OBVIOUS
    <3>2. QED
      BY <2>1, <3>1, AliasObjs DEF KInv, SizesKept, IInv, Typed, TypeOK
  <2>3. size' = size \/ \E v : size' = [size EXCEPT ![result] = v]
    BY Zenon DEF Next, WordZero, CallWord, NamedZero, CallBig, FirstRow, NextRow, Store, RowEnd,
             Finish, Return, vars, call
  <2>4. size'[alias[k]] = size[alias[k]]
    BY <2>2, <2>3 DEF KInv, IInv, Typed, TypeOK
  <2>5. QED
    BY <2>1, <2>2, <2>4
<1>4. QED
  BY <1>1, <1>2, <1>3 DEF KInv

----------------------------------------------------------------------------
(* The operands of the call, when the levels begin and end.                  *)
LEMMA CallFacts ==
    ASSUME KInv, pc = "karatsuba"
    PROVE  /\ ~byWord /\ result \in Objs /\ long \in Objs /\ short \in Objs
           /\ result # alias[2] /\ result # alias[3]
           /\ SpanOf(long) = [v |-> Before(long), n |-> na] /\ SpanOf(short) = [v |-> Whole, n |-> nb]
           /\ na \in 1 .. MaxDigits /\ nb \in 1 .. na /\ na + nb \in 1 .. MaxSize
           /\ Proper(SpanOf(long)) /\ Proper(SpanOf(short))
<1>1. ~byWord /\ na = size0[long] /\ nb \in 1 .. na /\ size[result] = na + nb /\ nb = size0[short]
  BY DEF KInv, IInv, Phase, Working
<1>2. /\ alias[2] \in Objs /\ alias[3] \in Objs /\ result \in Objs
      /\ result # alias[2] /\ result # alias[3]
  BY <1>1, AliasObjs DEF KInv, IInv, Typed, TypeOK
<1>3. long \in Objs /\ short \in Objs /\ long \in {alias[2], alias[3]} /\ short \in {alias[2], alias[3]}
  BY <1>2 DEF long, short
<1>4. ASSUME NEW o \in {alias[2], alias[3]}
      PROVE  cell[o] = digs[o] /\ size[o] = size0[o] /\ size0[o] \in 1 .. MaxDigits
             /\ digs[o] \in [Index -> Digit] /\ size0[o] \in 0 .. MaxSize
             /\ SpanOf(o) = [v |-> Before(o), n |-> size0[o]] /\ Proper(SpanOf(o))
  <2>1. cell[o] = digs[o]
    BY <1>1 DEF KInv, IInv, Operands
  <2>2. size[o] = size0[o]
    BY <1>1 DEF KInv, SizesKept
  <2>3. digs[o] \in [Index -> Digit] /\ size0[o] \in 1 .. MaxDigits
    BY <1>2 DEF KInv, IInv, Typed
  <2>4. size0[o] \in 0 .. MaxSize /\ size0[o] <= MaxSize /\ size0[o] \in Nat
    BY <2>3, Bounds
  <2>5. SpanOf(o) = [v |-> Before(o), n |-> size0[o]]
    BY <2>1, <2>2 DEF SpanOf, Before
  <2>6. Before(o) \in Nat /\ Before(o) < Pow[size0[o]]
    BY <2>3, <2>4, ValueNat, ValueBound DEF Before
  <2>7. Proper(SpanOf(o))
    BY <2>4, <2>5, <2>6 DEF Proper, Span
  <2>8. QED
    BY <2>1, <2>2, <2>3, <2>4, <2>5, <2>7
<1>5. Whole = Before(short)
  BY <1>1 DEF Whole
<1>6. na + nb \in 1 .. MaxSize
  <2>1. na \in 1 .. MaxDigits
    BY <1>1, <1>3, <1>4
  <2>2. QED
    BY <2>1, <1>1, Bounds
<1>7. QED
  BY <1>1, <1>2, <1>3, <1>4, <1>5, <1>6

(* No step of the levels changes what mul knows, but the last.               *)
LEMMA CallKept ==
    ASSUME KInv, UNCHANGED vars
    PROVE  /\ IInv' /\ SizesKept'
           /\ Before(long)' = Before(long) /\ Whole' = Whole
           /\ pc' = pc /\ na' = na /\ nb' = nb
<1>1. IInv'
  BY StutterInv DEF KInv
<1>2. UNCHANGED <<pc, na, nb, alias, digs, size, size0, word, swapped>>
  BY DEF vars
<1>3. QED
  BY <1>1, <1>2 DEF KInv, SizesKept, byWord, Before, Whole, long, short

LEMMA CallKaratsubaInv == ASSUME KInv, CallKaratsuba PROVE KInv'
<1> DEFINE f == Frame(SpanOf(long), SpanOf(short), "result")
<1>1. pc = "karatsuba" /\ frames' = <<f>> /\ UNCHANGED vars /\ temps' = temps
  BY DEF CallKaratsuba
<1>2. /\ ~byWord /\ SpanOf(long) = [v |-> Before(long), n |-> na] /\ SpanOf(short) = [v |-> Whole, n |-> nb]
      /\ na \in 1 .. MaxDigits /\ nb \in 1 .. na /\ na + nb \in 1 .. MaxSize
      /\ Proper(SpanOf(long)) /\ Proper(SpanOf(short))
  BY <1>1, CallFacts
<1>3. f = [lhs |-> SpanOf(long), rhs |-> SpanOf(short), to |-> "result", step |-> "ac"]
  <2>1. ~(SpanOf(short).n > SpanOf(long).n)
    BY <1>2, MultiplyAssumption
  <2>2. QED
    BY <2>1 DEF Frame
<1>4. f \in Frames
  BY <1>2, <1>3 DEF Frames, Proper, Steps
<1>5. WellFormed(f)
  BY <1>2, <1>3, <1>4, MultiplyAssumption DEF WellFormed, Room
<1>6. 1 + Weight(f) <= MaxDigits + 1
  <2>1. f.lhs.n = na /\ na \in Nat /\ na >= 1 /\ na <= MaxDigits /\ MaxDigits \in Nat
    BY <1>2, <1>3, MultiplyAssumption
  <2>2. Weight(f) \in Nat /\ Weight(f) <= na
    BY <2>1, WeightFacts
  <2>3. QED
    BY <2>1, <2>2
<1>7. Done(f, temps[1])
  BY <1>3 DEF Done
<1>8. frames' \in Seq(Frames) /\ Len(frames') = 1 /\ frames'[1] = f
  BY <1>1, <1>4
<1>9. Shape' /\ Levels' /\ Outer' /\ Waiting'
  <2>1. Shape'
    BY <1>1, <1>8, CallKept DEF KInv, Shape
  <2>2. Levels'
    BY <1>1, <1>5, <1>6, <1>7, <1>8 DEF Levels
  <2>3. Outer'
    BY <1>1, <1>2, <1>3, <1>8, CallKept DEF Outer, Room
  <2>4. Waiting'
    BY <1>8 DEF Waiting
  <2>5. QED
    BY <2>1, <2>2, <2>3, <2>4
<1>10. QED
  BY <1>1, <1>9, CallKept DEF KInv

----------------------------------------------------------------------------
(* Going on with a level changes nothing but its step.                       *)
LEMMA AdvancedFacts ==
    ASSUME NEW f, WellFormed(f), f.step # "combine"
    PROVE  /\ WellFormed(Advanced(f)) /\ Advanced(f).step = Following(f.step)
           /\ Advanced(f).lhs = f.lhs /\ Advanced(f).rhs = f.rhs /\ Advanced(f).to = f.to
           /\ Weight(Advanced(f)) = Weight(f) /\ Room(Advanced(f)) = Room(f)
           /\ PartA(Advanced(f)) = PartA(f) /\ PartB(Advanced(f)) = PartB(f)
           /\ PartC(Advanced(f)) = PartC(f) /\ PartD(Advanced(f)) = PartD(f)
           /\ SumL(Advanced(f)) = SumL(f) /\ SumR(Advanced(f)) = SumR(f)
<1> DEFINE g == Advanced(f)
<1>1. f \in Frames
  BY DEF WellFormed
<1>2. Following(f.step) \in Steps
  BY <1>1 DEF Frames, Steps, Following
<1>3. /\ g \in Frames /\ g.step = Following(f.step)
      /\ g.lhs = f.lhs /\ g.rhs = f.rhs /\ g.to = f.to
  BY <1>1, <1>2 DEF Frames, Advanced
<1> HIDE DEF g
<1>4. Room(g) = Room(f) /\ Mid(g) = Mid(f)
  BY <1>3 DEF Room, Mid
<1>5. Weight(g) = Weight(f)
  BY <1>3 DEF Weight, Small
<1>6. PartA(g) = PartA(f) /\ PartB(g) = PartB(f) /\ PartC(g) = PartC(f) /\ PartD(g) = PartD(f)
  BY <1>3, <1>4 DEF PartA, PartB, PartC, PartD
<1>7. SumL(g) = SumL(f) /\ SumR(g) = SumR(f)
  BY <1>6 DEF SumL, SumR
<1>8. WellFormed(g)
  BY <1>3, <1>4 DEF WellFormed
<1>9. QED
  BY <1>3, <1>4, <1>5, <1>6, <1>7, <1>8 DEF g

(* No level is deeper than the operands of the call have digits.             *)
LEMMA DepthBound ==
    ASSUME KInv
    PROVE  /\ Len(frames) \in Nat /\ Len(frames) <= MaxDepth
           /\ \A l \in 1 .. Len(frames) : l \in 1 .. MaxDepth /\ frames[l] \in Frames
<1>1. Len(frames) \in Nat /\ frames \in Seq(Frames) /\ MaxDigits \in Nat
      /\ MaxDepth \in Nat /\ MaxDepth >= MaxDigits
  BY MultiplyAssumption, KaratsubaAssumption DEF KInv, Shape
<1>2. ASSUME NEW l \in 1 .. Len(frames) PROVE l <= MaxDepth
  <2>1. WellFormed(frames[l]) /\ l + Weight(frames[l]) <= MaxDigits + 1
    BY DEF KInv, Levels
  <2>2. frames[l].lhs.n \in Nat
    BY <2>1 DEF WellFormed, Proper, Span
  <2>3. Weight(frames[l]) \in Nat /\ Weight(frames[l]) >= 1
    BY <2>2, WeightFacts
  <2>4. QED
    BY <2>1, <2>3, <1>1
<1>3. Len(frames) <= MaxDepth
  <2>1. CASE Len(frames) = 0
    BY <2>1, <1>1
  <2>2. CASE Len(frames) # 0
    BY <2>2, <1>1, <1>2
  <2>3. QED
    BY <2>1, <2>2
<1>4. QED
  BY <1>1, <1>2, <1>3

(* The operands a step multiplies, and its product in a temporary.           *)
LeftOf(f, t) == CASE f.step = "ac" -> PartA(f) [] f.step = "bd" -> PartB(f) [] OTHER -> t["a_b"]
RightOf(f, t) == CASE f.step = "ac" -> PartC(f) [] f.step = "bd" -> PartD(f) [] OTHER -> t["c_d"]

LEMMA ProductFacts ==
    ASSUME NEW f, WellFormed(f), f.step \in Products, NEW t \in [Temps -> Span], Done(f, t)
    PROVE  /\ Operands3(f, LeftOf(f, t), RightOf(f, t))
           /\ LeftOf(f, t).v * RightOf(f, t).v = Wanted(f)
           /\ Wanted(f) \in Nat /\ cleaned(Wanted(f)) \in Span
<1> DEFINE x == LeftOf(f, t)  y == RightOf(f, t)
<1>1. Operands3(f, x, y) /\ x.v * y.v = Wanted(f)
  <2>1. CASE f.step = "ac"
    BY <2>1 DEF LeftOf, RightOf, Operands3, Wanted
  <2>2. CASE f.step = "bd"
    BY <2>2 DEF LeftOf, RightOf, Operands3, Wanted
  <2>3. CASE f.step = "ab_cd"
    <3>1. x = cleaned(SumL(f)) /\ y = cleaned(SumR(f))
      BY <2>3 DEF LeftOf, RightOf, Done
    <3>2. Wanted(f) = SumL(f) * SumR(f)
      BY <2>3 DEF Wanted
    <3>3. QED
      BY <3>1, <3>2 DEF Operands3, cleaned
  <2>4. QED
    BY <2>1, <2>2, <2>3 DEF Products
<1> HIDE DEF x, y
<1>2. x.v * y.v \in Nat /\ x.v * y.v < Pow[Room(f)] /\ Room(f) \in 1 .. MaxSize
  BY <1>1, OperandFacts
<1>3. Wanted(f) \in Nat /\ Wanted(f) < Pow[Room(f)]
  BY <1>1, <1>2
<1>4. cleaned(Wanted(f)) \in Span
  BY <1>2, <1>3, CleanedFacts DEF Proper
<1>5. QED
  BY <1>1, <1>3, <1>4 DEF x, y

LEMMA DoneProduct ==
    ASSUME NEW f, WellFormed(f), f.step \in Products, NEW t \in [Temps -> Span], Done(f, t)
    PROVE  /\ [t EXCEPT ![f.step] = cleaned(Wanted(f))] \in [Temps -> Span]
           /\ Done(Advanced(f), [t EXCEPT ![f.step] = cleaned(Wanted(f))])
<1> DEFINE w == cleaned(Wanted(f))  t2 == [t EXCEPT ![f.step] = w]  g == Advanced(f)
<1>1. w \in Span
  BY ProductFacts
<1>2. f.step # "combine" /\ f.step \in Temps
  BY DEF Products, Temps
<1>3. /\ g.step = Following(f.step)
      /\ PartA(g) = PartA(f) /\ PartB(g) = PartB(f) /\ PartC(g) = PartC(f) /\ PartD(g) = PartD(f)
      /\ SumL(g) = SumL(f) /\ SumR(g) = SumR(f)
  BY <1>2, AdvancedFacts
<1> HIDE DEF g
<1>4. t2 \in [Temps -> Span] /\ t2[f.step] = w /\ \A u \in Temps : u # f.step => t2[u] = t[u]
  BY <1>1, <1>2
<1> HIDE DEF t2
<1>5. Done(g, t2)
  <2>1. CASE f.step = "ac"
    <3>1. g.step = "bd" /\ w = cleaned(PartA(f).v * PartC(f).v)
      BY <2>1, <1>3 DEF Following, Wanted
    <3>2. QED
      BY <2>1, <3>1, <1>3, <1>4 DEF Done
  <2>2. CASE f.step = "bd"
    <3>1. g.step = "sums" /\ w = cleaned(PartB(f).v * PartD(f).v)
      BY <2>2, <1>3 DEF Following, Wanted
    <3>2. t2["ac"] = t["ac"]
      BY <2>2, <1>4 DEF Temps
    <3>3. QED
      BY <2>2, <3>1, <3>2, <1>3, <1>4 DEF Done
  <2>3. CASE f.step = "ab_cd"
    <3>1. g.step = "combine" /\ w = cleaned(SumL(f) * SumR(f))
      BY <2>3, <1>3 DEF Following, Wanted
    <3>2. t2["ac"] = t["ac"] /\ t2["bd"] = t["bd"] /\ t2["a_b"] = t["a_b"] /\ t2["c_d"] = t["c_d"]
      BY <2>3, <1>4 DEF Temps
    <3>3. QED
      BY <2>3, <3>1, <3>2, <1>3, <1>4 DEF Done
  <2>4. QED
    BY <2>1, <2>2, <2>3 DEF Products
<1>6. QED
  BY <1>4, <1>5 DEF t2, g

(* A level goes on, after a step of its own or with the product of the level *)
(* below it, which ends.                                                     *)
LEMMA ResumeInv ==
    ASSUME KInv, pc = "karatsuba", UNCHANGED vars,
           NEW n \in 1 .. Len(frames), frames[n].step # "combine",
           NEW t \in [Temps -> Span], Done(Advanced(frames[n]), t),
           temps' = [temps EXCEPT ![n] = t],
           frames' \in Seq(Frames), Len(frames') = n,
           frames'[n] = Advanced(frames[n]),
           \A l \in 1 .. n - 1 : frames'[l] = frames[l]
    PROVE  KInv'
<1>1. Len(frames) \in Nat /\ n \in 1 .. MaxDepth /\ frames # <<>>
  BY DepthBound
<1>2. ASSUME NEW l \in 1 .. n
      PROVE  /\ WellFormed(frames[l]) /\ l + Weight(frames[l]) <= MaxDigits + 1
             /\ l \in 1 .. Len(frames) /\ l \in 1 .. MaxDepth /\ Done(frames[l], temps[l])
  BY <1>1, DepthBound DEF KInv, Levels
<1>3. temps \in [1 .. MaxDepth -> [Temps -> Span]]
  BY DEF KInv, Shape
<1>4. n \in 1 .. n
  BY <1>1
<1>5. /\ WellFormed(frames'[n]) /\ frames'[n].lhs = frames[n].lhs /\ frames'[n].rhs = frames[n].rhs
      /\ frames'[n].to = frames[n].to /\ Weight(frames'[n]) = Weight(frames[n])
      /\ Room(frames'[n]) = Room(frames[n])
  BY <1>2, <1>4, AdvancedFacts
<1>6. Shape'
  <2>1. pc' = "karatsuba"
    BY CallKept
  <2>2. temps' \in [1 .. MaxDepth -> [Temps -> Span]]
    BY <1>3
  <2>3. QED
    BY <2>1, <2>2 DEF Shape
<1>7. Levels'
  <2> SUFFICES ASSUME NEW l \in 1 .. n
               PROVE  /\ WellFormed(frames'[l]) /\ l + Weight(frames'[l]) <= MaxDigits + 1
                      /\ Done(frames'[l], temps'[l])
    BY DEF Levels
  <2>1. CASE l = n
    <3>1. temps'[n] = t
      BY <1>1, <1>3
    <3>2. QED
      BY <2>1, <3>1, <1>2, <1>5
  <2>2. CASE l # n
    <3>1. frames'[l] = frames[l] /\ temps'[l] = temps[l]
      <4>1. l \in 1 .. n - 1 /\ l \in 1 .. MaxDepth
        BY <2>2, <1>1, <1>2
      <4>2. QED
        BY <4>1, <2>2, <1>3
    <3>2. QED
      BY <3>1, <1>2
  <2>3. QED
    BY <2>1, <2>2
<1>8. Outer'
  <2>1. 1 \in 1 .. n
    BY <1>1
  <2>2. /\ frames'[1].lhs = frames[1].lhs /\ frames'[1].rhs = frames[1].rhs
        /\ Room(frames'[1]) = Room(frames[1])
    <3>1. n = 1 \/ 1 \in 1 .. n - 1
      BY <1>1
    <3>2. QED
      BY <3>1, <1>5
  <2>3. QED
    BY <2>2, <1>1, CallKept DEF KInv, Outer
<1>9. Waiting'
  <2> SUFFICES ASSUME NEW l \in 1 .. n, l > 1
               PROVE  /\ frames'[l - 1].step \in Products /\ frames'[l].to = frames'[l - 1].step
                      /\ frames'[l].lhs.v * frames'[l].rhs.v = Wanted(frames'[l - 1])
    BY DEF Waiting
  <2>1. l - 1 \in 1 .. n - 1 /\ l \in 1 .. Len(frames)
    BY <1>1
  <2>2. frames'[l - 1] = frames[l - 1]
    BY <2>1
  <2>3. frames'[l].to = frames[l].to /\ frames'[l].lhs = frames[l].lhs /\ frames'[l].rhs = frames[l].rhs
    <3>1. l = n \/ l \in 1 .. n - 1
      BY <1>1
    <3>2. QED
      BY <3>1, <1>5
  <2>4. QED
    BY <2>1, <2>2, <2>3 DEF KInv, Waiting
<1>10. QED
  BY <1>6, <1>7, <1>8, <1>9, CallKept DEF KInv

(* A level that goes on by itself.                                           *)
LEMMA AdvanceInv ==
    ASSUME KInv, pc = "karatsuba", UNCHANGED vars, frames # <<>>, top.step # "combine",
           NEW t \in [Temps -> Span], Done(Advanced(top), t),
           temps' = [temps EXCEPT ![level] = t], frames' = Replaced(Advanced(top))
    PROVE  KInv'
<1>1. level \in 1 .. Len(frames) /\ frames \in Seq(Frames) /\ level \in Nat
  BY DEF KInv, Shape, level
<1>2. WellFormed(top)
  BY <1>1 DEF KInv, Levels, top
<1>3. Advanced(top) \in Frames
  BY <1>2, AdvancedFacts DEF WellFormed
<1>4. /\ frames' \in Seq(Frames) /\ Len(frames') = level /\ frames'[level] = Advanced(frames[level])
      /\ \A l \in 1 .. level - 1 : frames'[l] = frames[l]
  BY <1>1, <1>3 DEF Replaced, level, top
<1>5. QED
  BY <1>1, <1>4, ResumeInv DEF top

LEMMA TopFacts ==
    ASSUME KInv, frames # <<>>
    PROVE  /\ level \in 1 .. Len(frames) /\ level \in 1 .. MaxDepth /\ level = Len(frames)
           /\ WellFormed(top) /\ Done(top, temps[level]) /\ top = frames[level]
           /\ temps[level] \in [Temps -> Span] /\ temps \in [1 .. MaxDepth -> [Temps -> Span]]
           /\ level + Weight(top) <= MaxDigits + 1 /\ frames \in Seq(Frames)
<1>1. level \in 1 .. Len(frames) /\ frames \in Seq(Frames)
  BY DEF KInv, Shape, level
<1>2. level \in 1 .. MaxDepth
  BY <1>1, DepthBound
<1>3. QED
  BY <1>1, <1>2 DEF KInv, Shape, Levels, top, level

LEMMA SumsInv == ASSUME KInv, Sums PROVE KInv'
<1> DEFINE f == top  l == cleaned(SumL(f))  r == cleaned(SumR(f))
           t == [temps[level] EXCEPT !["a_b"] = l, !["c_d"] = r]
<1>1. /\ pc = "karatsuba" /\ frames # <<>> /\ f.step = "sums" /\ UNCHANGED vars
      /\ temps' = [temps EXCEPT ![level]["a_b"] = l, ![level]["c_d"] = r]
      /\ frames' = Replaced(Advanced(f))
  BY Zenon DEF Sums, SumL, SumR
<1>2. /\ level \in 1 .. MaxDepth /\ WellFormed(f) /\ Done(f, temps[level])
      /\ temps[level] \in [Temps -> Span] /\ temps \in [1 .. MaxDepth -> [Temps -> Span]]
  BY <1>1, TopFacts
<1>3. l \in Span /\ r \in Span
  <2>1. /\ SumL(f) \in Nat /\ SumL(f) < Pow[f.lhs.n] /\ SumR(f) \in Nat /\ SumR(f) < Pow[f.rhs.n]
        /\ f.lhs.n \in 1 .. MaxSize /\ f.rhs.n \in 1 .. f.lhs.n
    BY <1>2, PartFacts
  <2>2. f.rhs.n \in 1 .. MaxSize
    BY <2>1, PowAssumption
  <2>3. QED
    BY <2>1, <2>2, CleanedFacts DEF Proper
<1>4. /\ Advanced(f).step = "ab_cd"
      /\ PartA(Advanced(f)) = PartA(f) /\ PartB(Advanced(f)) = PartB(f)
      /\ PartC(Advanced(f)) = PartC(f) /\ PartD(Advanced(f)) = PartD(f)
      /\ SumL(Advanced(f)) = SumL(f) /\ SumR(Advanced(f)) = SumR(f)
  BY <1>1, <1>2, AdvancedFacts DEF Following
<1> HIDE DEF f, l, r
<1>5. t \in [Temps -> Span] /\ t["a_b"] = l /\ t["c_d"] = r
      /\ t["ac"] = temps[level]["ac"] /\ t["bd"] = temps[level]["bd"]
  BY <1>2, <1>3 DEF Temps
<1>6. temps' = [temps EXCEPT ![level] = t]
  BY <1>1, <1>2
<1> HIDE DEF t
<1>7. Done(Advanced(f), t)
  BY <1>1, <1>2, <1>4, <1>5 DEF Done, l, r
<1>8. QED
  BY <1>1, <1>5, <1>6, <1>7, AdvanceInv DEF f

(* The recursive call has operands of its own, fits its temporary and is one *)
(* level nearer to the end.                                                  *)
LEMMA CallInv ==
    ASSUME KInv, pc = "karatsuba", UNCHANGED vars, frames # <<>>, top.step \in Products,
           NEW x, NEW y, x = LeftOf(top, temps[level]), y = RightOf(top, temps[level]),
           x.v # 0, y.v # 0, karatsuba(IF x.n > y.n THEN x.n ELSE y.n, Least(x.n, y.n)),
           temps' = [temps EXCEPT ![level][top.step].n = x.n + y.n],
           frames' = Append(frames, Frame(x, y, top.step))
    PROVE  KInv'
<1> DEFINE f == top  g == Frame(x, y, f.step)  n == level
<1>1. /\ n \in 1 .. Len(frames) /\ n \in 1 .. MaxDepth /\ n = Len(frames)
      /\ WellFormed(f) /\ Done(f, temps[n]) /\ f = frames[n]
      /\ temps[n] \in [Temps -> Span] /\ temps \in [1 .. MaxDepth -> [Temps -> Span]]
      /\ n + Weight(f) <= MaxDigits + 1 /\ frames \in Seq(Frames)
  BY TopFacts
<1>2. Operands3(f, x, y) /\ x.v * y.v = Wanted(f)
  BY <1>1, ProductFacts
<1>3. /\ Proper(x) /\ Proper(y) /\ x.n \in 0 .. f.lhs.n /\ y.n \in 0 .. f.rhs.n
      /\ x.v \in Nat /\ y.v \in Nat /\ Room(f) \in 1 .. MaxSize
      /\ f.lhs.n \in Nat /\ f.rhs.n \in Nat
  BY <1>1, <1>2, OperandFacts, PartFacts
<1>4. x.n \in Nat /\ y.n \in Nat /\ x.n >= 1 /\ y.n >= 1 /\ x.n + y.n <= MaxSize /\ x.n + y.n \in Nat
  <2>1. ASSUME NEW s, Proper(s), s.v # 0 PROVE s.n # 0
    BY <2>1, PowAssumption DEF Proper, Span
  <2>2. x.n # 0 /\ y.n # 0
    BY <2>1, <1>3
  <2>3. MaxSize \in Nat /\ f.lhs.n + f.rhs.n <= MaxSize
    BY <1>3, PowAssumption DEF Room
  <2>4. QED
    BY <2>2, <2>3, <1>3
<1>5. f.step \in Temps /\ f.step \in Temps \cup {"result"}
  BY DEF Products, Temps
<1>6. /\ (g.lhs = x /\ g.rhs = y) \/ (g.lhs = y /\ g.rhs = x)
      /\ g.lhs.n >= g.rhs.n /\ g.to = f.step /\ g.step = "ac"
  BY <1>4 DEF Frame
<1>7. WellFormed(g)
  <2>1. g \in Frames
    BY <1>3, <1>5 DEF Frame, Frames, Proper, Steps
  <2>2. QED
    BY <2>1, <1>3, <1>4, <1>6 DEF WellFormed, Room
<1>8. (n + 1) + Weight(g) <= MaxDigits + 1
  <2> DEFINE max == IF x.n > y.n THEN x.n ELSE y.n
  <2>1. max >= 3
    <3>1. max >= MinKaratsuba
      BY DEF karatsuba
    <3>2. MinKaratsuba >= 3 /\ MinKaratsuba \in Nat /\ max \in Nat
      BY KaratsubaAssumption, MultiplyAssumption, <1>4
    <3>3. QED
      BY <3>1, <3>2
  <2>2. Weight(g) + 1 <= Weight(f)
    <3> HIDE DEF f, max
    <3> QED
      BY <1>1, <1>2, <2>1, Descends DEF max
  <2>3. Weight(f) \in Nat /\ Weight(g) \in Nat /\ MaxDigits \in Nat
    <3>1. g.lhs.n \in Nat
      BY <1>7 DEF WellFormed, Proper, Span
    <3>2. QED
      BY <3>1, <1>3, WeightFacts, MultiplyAssumption
  <2>4. QED
    BY <2>2, <2>3, <1>1
<1> HIDE DEF f, g, n
<1>9. g \in Frames
  BY <1>7 DEF WellFormed
<1>10. /\ frames' \in Seq(Frames) /\ Len(frames') = n + 1 /\ frames'[n + 1] = g
       /\ (\A l \in 1 .. n : frames'[l] = frames[l]) /\ n \in Nat /\ n >= 1
  BY <1>1, <1>9 DEF f, g, n
<1>11. /\ temps' \in [1 .. MaxDepth -> [Temps -> Span]]
       /\ \A l \in 1 .. MaxDepth : l # n => temps'[l] = temps[l]
       /\ \A u \in Temps : u # f.step => temps'[n][u] = temps[n][u]
  <2> DEFINE s == [temps[n][f.step] EXCEPT !.n = x.n + y.n]
  <2>1. s \in Span
    BY <1>1, <1>4, <1>5 DEF Span
  <2>2. temps' = [temps EXCEPT ![n] = [temps[n] EXCEPT ![f.step] = s]]
    BY <1>1, <1>5 DEF f, n
  <2> HIDE DEF s
  <2> DEFINE t == [temps[n] EXCEPT ![f.step] = s]
  <2>3. t \in [Temps -> Span] /\ \A u \in Temps : u # f.step => t[u] = temps[n][u]
    BY <2>1, <1>1, <1>5
  <2>4. temps' = [temps EXCEPT ![n] = t]
    BY <2>2
  <2> HIDE DEF t
  <2>5. temps' \in [1 .. MaxDepth -> [Temps -> Span]] /\ temps'[n] = t
    BY <2>3, <2>4, <1>1
  <2>6. \A l \in 1 .. MaxDepth : l # n => temps'[l] = temps[l]
    BY <2>4, <1>1
  <2>7. QED
    BY <2>3, <2>5, <2>6
<1>12. Shape'
  BY <1>10, <1>11, CallKept DEF Shape
<1>13. Done(f, temps'[n])
  <2>1. f.step # "ac" => temps'[n]["ac"] = temps[n]["ac"]
    BY <1>11 DEF Temps
  <2>2. f.step # "bd" => temps'[n]["bd"] = temps[n]["bd"]
    BY <1>11 DEF Temps
  <2>3. temps'[n]["a_b"] = temps[n]["a_b"] /\ temps'[n]["c_d"] = temps[n]["c_d"]
    BY <1>11 DEF Temps, Products, f
  <2>4. f.step # "combine"
    BY DEF Products, f
  <2>5. QED
    BY <2>1, <2>2, <2>3, <2>4, <1>1 DEF Done
<1>14. Levels'
  <2> SUFFICES ASSUME NEW l \in 1 .. n + 1
               PROVE  /\ WellFormed(frames'[l]) /\ l + Weight(frames'[l]) <= MaxDigits + 1
                      /\ Done(frames'[l], temps'[l])
    BY <1>10 DEF Levels
  <2>1. CASE l = n + 1
    BY <2>1, <1>6, <1>7, <1>8, <1>10 DEF Done
  <2>2. CASE l = n
    BY <2>2, <1>1, <1>10, <1>13
  <2>3. CASE l \in 1 .. n - 1
    <3>1. l \in 1 .. n /\ l \in 1 .. MaxDepth /\ l # n /\ l \in 1 .. Len(frames)
      BY <2>3, <1>1, <1>10, KaratsubaAssumption
    <3>2. frames'[l] = frames[l] /\ temps'[l] = temps[l]
      BY <3>1, <1>10, <1>11
    <3>3. QED
      BY <3>1, <3>2 DEF KInv, Levels
  <2>4. QED
    BY <2>1, <2>2, <2>3, <1>10
<1>15. Outer'
  <2>1. 1 \in 1 .. n
    BY <1>10
  <2>2. QED
    BY <2>1, <1>10, CallKept DEF KInv, Outer
<1>16. Waiting'
  <2> SUFFICES ASSUME NEW l \in 1 .. n + 1, l > 1
               PROVE  /\ frames'[l - 1].step \in Products /\ frames'[l].to = frames'[l - 1].step
                      /\ frames'[l].lhs.v * frames'[l].rhs.v = Wanted(frames'[l - 1])
    BY <1>10 DEF Waiting
  <2>1. CASE l = n + 1
    <3>1. frames'[l - 1] = f /\ frames'[l] = g
      BY <2>1, <1>1, <1>10
    <3>2. g.lhs.v * g.rhs.v = x.v * y.v
      BY <1>3, <1>6
    <3>3. QED
      BY <3>1, <3>2, <1>2, <1>6 DEF f
  <2>2. CASE l \in 2 .. n
    <3>1. l \in 1 .. n /\ l - 1 \in 1 .. n /\ l \in 1 .. Len(frames)
      BY <2>2, <1>1, <1>10
    <3>2. frames'[l] = frames[l] /\ frames'[l - 1] = frames[l - 1]
      BY <3>1, <1>10
    <3>3. QED
      BY <3>1, <3>2 DEF KInv, Waiting
  <2>3. QED
    BY <2>1, <2>2, <1>10
<1>17. QED
  BY <1>12, <1>14, <1>15, <1>16, CallKept DEF KInv

LEMMA ProductInv == ASSUME KInv, Product PROVE KInv'
<1> DEFINE x == LeftOf(top, temps[level])  y == RightOf(top, temps[level])
           max == IF x.n > y.n THEN x.n ELSE y.n
           small == x.v = 0 \/ y.v = 0 \/ ~karatsuba(max, Least(x.n, y.n))
<1>1. /\ pc = "karatsuba" /\ frames # <<>> /\ top.step \in Products /\ UNCHANGED vars
      /\ IF small
         THEN /\ temps' = [temps EXCEPT ![level][top.step] = cleaned(x.v * y.v)]
              /\ frames' = Replaced(Advanced(top))
         ELSE /\ temps' = [temps EXCEPT ![level][top.step].n = x.n + y.n]
              /\ frames' = Append(frames, Frame(x, y, top.step))
  BY Zenon DEF Product, LeftOf, RightOf, Products
<1>2. CASE small
  <2> DEFINE w == cleaned(Wanted(top))  t == [temps[level] EXCEPT ![top.step] = w]
  <2>1. /\ WellFormed(top) /\ Done(top, temps[level]) /\ temps[level] \in [Temps -> Span]
        /\ level \in 1 .. MaxDepth /\ temps \in [1 .. MaxDepth -> [Temps -> Span]]
    BY <1>1, TopFacts
  <2>2. x.v * y.v = Wanted(top)
    BY <2>1, <1>1, ProductFacts
  <2>3. temps' = [temps EXCEPT ![level][top.step] = w] /\ frames' = Replaced(Advanced(top))
    BY <2>2, <1>1, <1>2
  <2>4. t \in [Temps -> Span] /\ Done(Advanced(top), t) /\ top.step # "combine"
    BY <2>1, <1>1, DoneProduct DEF Products
  <2> HIDE DEF w
  <2>5. temps' = [temps EXCEPT ![level] = t]
    BY <2>1, <2>3
  <2> HIDE DEF t
  <2>6. QED
    BY <2>3, <2>4, <2>5, <1>1, AdvanceInv
<1>3. CASE ~small
  <2>1. /\ x.v # 0 /\ y.v # 0 /\ karatsuba(max, Least(x.n, y.n))
        /\ temps' = [temps EXCEPT ![level][top.step].n = x.n + y.n]
        /\ frames' = Append(frames, Frame(x, y, top.step))
    BY <1>1, <1>3
  <2> HIDE DEF x, y
  <2>2. QED
    BY <2>1, <1>1, CallInv DEF x, y
<1>4. QED
  BY <1>2, <1>3

(* A level that ends with the product its caller waits for.                  *)
LEMMA LevelProduct ==
    ASSUME KInv, frames # <<>>, top.step = "combine"
    PROVE  /\ Combined(top, temps[level]) = top.lhs.v * top.rhs.v
           /\ Combined(top, temps[level]) \in Nat /\ Combined(top, temps[level]) < Pow[Room(top)]
<1>1. WellFormed(top) /\ Done(top, temps[level])
  BY TopFacts
<1>2. /\ temps[level]["ac"] = cleaned(PartA(top).v * PartC(top).v)
      /\ temps[level]["bd"] = cleaned(PartB(top).v * PartD(top).v)
      /\ temps[level]["ab_cd"] = cleaned(SumL(top) * SumR(top))
  BY <1>1 DEF Done
<1>3. QED
  BY <1>1, <1>2, CombinedFacts

LEMMA CombineInnerInv == ASSUME KInv, CombineInner PROVE KInv'
<1> DEFINE n == level - 1  w == Combined(top, temps[level])
<1>1. /\ pc = "karatsuba" /\ level > 1 /\ top.step = "combine" /\ UNCHANGED vars
      /\ temps' = [temps EXCEPT ![n][top.to] = cleaned(w)]
      /\ frames' = [SubSeq(frames, 1, n) EXCEPT ![n] = Advanced(@)]
  BY Zenon DEF CombineInner
<1>2. frames # <<>> /\ level = Len(frames) /\ level \in Nat /\ frames \in Seq(Frames)
  BY <1>1 DEF KInv, Shape, level
<1>3. n \in 1 .. Len(frames) /\ n \in Nat /\ level \in 1 .. Len(frames)
  BY <1>1, <1>2
<1>4. /\ w = top.lhs.v * top.rhs.v
  BY <1>1, <1>2, LevelProduct
<1> HIDE DEF w
<1>5. /\ frames[n].step \in Products /\ top.to = frames[n].step
      /\ w = Wanted(frames[n])
  BY <1>1, <1>2, <1>3, <1>4 DEF KInv, Waiting, top
<1>6. /\ WellFormed(frames[n]) /\ Done(frames[n], temps[n]) /\ n \in 1 .. MaxDepth
      /\ temps \in [1 .. MaxDepth -> [Temps -> Span]] /\ temps[n] \in [Temps -> Span]
  BY <1>3, DepthBound DEF KInv, Levels, Shape
<1> DEFINE c1 == cleaned(Wanted(frames[n]))  t == [temps[n] EXCEPT ![frames[n].step] = c1]
<1>7. t \in [Temps -> Span] /\ Done(Advanced(frames[n]), t) /\ frames[n].step # "combine"
  BY <1>5, <1>6, DoneProduct DEF Products
<1> HIDE DEF c1
<1>8. temps' = [temps EXCEPT ![n] = t]
  BY <1>1, <1>5, <1>6 DEF c1
<1> HIDE DEF t
<1>9. Advanced(frames[n]) \in Frames
  BY <1>6, <1>7, AdvancedFacts DEF WellFormed
<1> DEFINE s == SubSeq(frames, 1, n)
<1>10. s \in Seq(Frames) /\ Len(s) = n /\ \A l \in 1 .. n : s[l] = frames[l]
  <2> HIDE DEF n
  <2>1. n \in 1 .. Len(frames) /\ n \in Nat /\ Len(frames) \in Nat
    BY <1>3, <1>2
  <2>2. QED
    BY <2>1, <1>2, SubSeqProperties
<1> HIDE DEF n, s
<1>11. frames' = [s EXCEPT ![n] = Advanced(frames[n])]
  <2>1. s[n] = frames[n]
    BY <1>3, <1>10
  <2>2. QED
    BY <2>1, <1>1 DEF s
<1>12. /\ frames' \in Seq(Frames) /\ Len(frames') = n /\ frames'[n] = Advanced(frames[n])
       /\ \A l \in 1 .. n - 1 : frames'[l] = frames[l]
  BY <1>3, <1>9, <1>10, <1>11
<1>13. QED
  BY <1>1, <1>3, <1>7, <1>8, <1>12, ResumeInv

(* The outermost level writes its product into the digits of result.         *)
LEMMA CombineOuterInv == ASSUME KInv, CombineOuter PROVE KInv'
<1> DEFINE v == Combined(top, temps[1])
           d == [k \in Index |-> IF k < Room(top) THEN DigitAt(v, k) ELSE cell[result][k]]
<1>1. /\ pc = "karatsuba" /\ level = 1 /\ top.step = "combine"
      /\ cell' = [cell EXCEPT ![result] = [k \in Index |-> IF k < Room(top) THEN DigitAt(v, k) ELSE @[k]]]
      /\ pc' = "sign" /\ frames' = <<>>
      /\ UNCHANGED <<temps, size, neg, i, j, c, cur, prod>> /\ UNCHANGED call
  BY Zenon DEF CombineOuter
<1>2. /\ UNCHANGED <<entry, alias, word, wordNeg, swapped, na, nb, digs, size0, neg0,
                     result, byWord, long, short>>
  BY <1>1 DEF call, result, byWord, long, short
<1>3. frames # <<>> /\ top = frames[1]
  BY <1>1 DEF KInv, Shape, level, top
<1>4. /\ v = top.lhs.v * top.rhs.v /\ v \in Nat /\ v < Pow[Room(top)]
  BY <1>1, <1>3, LevelProduct
<1>5. v = Before(long) * Whole /\ Room(top) = na + nb
  BY <1>3, <1>4 DEF KInv, Outer
<1> HIDE DEF v
<1>6. /\ ~byWord /\ result \in Objs /\ result # alias[2] /\ result # alias[3]
      /\ na + nb \in 1 .. MaxSize
  BY <1>1, CallFacts
<1>7. /\ cell \in [Objs -> [Index -> Digit]] /\ cell' = [cell EXCEPT ![result] = d]
  BY <1>1, <1>6 DEF KInv, IInv, Typed, TypeOK
<1>8. d \in [Index -> Digit]
  <2>1. ASSUME NEW k \in Index PROVE DigitAt(v, k) \in Digit /\ cell[result][k] \in Digit
    <3>1. DigitAt(v, k) \in Digit
      BY <1>4, RestStep DEF Index
    <3>2. QED
      BY <3>1, <1>6, <1>7
  <2>2. QED
    BY <2>1
<1>9. Value(d, na + nb) = v
  <2>1. na + nb \in 0 .. MaxSize /\ na + nb \in Nat /\ MaxSize \in Nat
    BY <1>6, PowAssumption
  <2>2. ASSUME NEW k \in 0 .. (na + nb) - 1 PROVE d[k] = DigitAt(v, k)
    <3>1. k \in Index /\ k < na + nb
      BY <2>1, <1>6 DEF Index
    <3>2. QED
      BY <3>1, <1>5
  <2> HIDE DEF d
  <2>3. Value(d, na + nb) = v % Pow[na + nb]
    BY <2>1, <2>2, <1>4, <1>8, DigitsValue
  <2>4. v % Pow[na + nb] = v
    BY <2>1, <1>4, <1>5, ModSmall, PowAssumption
  <2>5. QED
    BY <2>3, <2>4
<1> HIDE DEF d
<1>10. cell'[result] = d /\ \A o \in Objs : o # result => cell'[o] = cell[o]
  BY <1>6, <1>7
<1>11. Typed'
  <2>1. cell' \in [Objs -> [Index -> Digit]]
    BY <1>7, <1>8
  <2>2. QED
    BY <2>1, <1>1, <1>2 DEF KInv, IInv, Typed, TypeOK
<1>12. Phase'
  BY <1>1, <1>2 DEF KInv, IInv, Phase, Working
<1>13. Operands'
  <2>1. alias[2] \in Objs /\ alias[3] \in Objs
    BY <1>6, AliasObjs DEF KInv, IInv, Typed, TypeOK
  <2>2. QED
    BY <2>1, <1>1, <1>2, <1>6, <1>10 DEF KInv, IInv, Operands
<1>14. Conservation' /\ Totals' /\ Answer'
  BY <1>1 DEF Conservation, Totals, Answer, ResultExact
<1>15. Kept'
  <2>1. Whole' = Whole /\ Before(long)' = Before(long)
    BY <1>2 DEF Whole, Before
  <2>2. QED
    BY <2>1, <1>2, <1>5, <1>9, <1>10 DEF Kept
<1>16. SizesKept'
  BY <1>1, <1>2 DEF KInv, SizesKept
<1>17. Shape' /\ Levels' /\ Outer' /\ Waiting'
  <2>1. Shape'
    BY <1>1 DEF KInv, Shape
  <2>2. QED
    BY <2>1, <1>1 DEF Levels, Outer, Waiting
<1>18. QED
  BY <1>11, <1>12, <1>13, <1>14, <1>15, <1>16, <1>17 DEF KInv, IInv

LEMMA KStutterInv == ASSUME KInv, UNCHANGED kvars PROVE KInv'
<1>1. UNCHANGED vars /\ frames' = frames /\ temps' = temps
  BY DEF kvars
<1>2. Shape' /\ Levels' /\ Outer' /\ Waiting'
  BY <1>1, CallKept DEF KInv, Shape, Levels, Outer, Waiting
<1>3. QED
  BY <1>1, <1>2, CallKept DEF KInv

LEMMA KNextInv == KInv /\ [KNext]_kvars => KInv'
<1> SUFFICES ASSUME KInv, [KNext]_kvars PROVE KInv'
  OBVIOUS
<1>1. CASE Next /\ UNCHANGED <<frames, temps>>
  <2>1. CASE frames = <<>>
    BY <1>1, <2>1, IdleInv
  <2>2. CASE frames # <<>>
    <3>1. pc = "karatsuba"
      BY <2>2 DEF KInv, Shape
    <3>2. ~Next
      BY <3>1 DEF Next, WordZero, CallWord, NamedZero, CallBig, FirstRow, NextRow, RowEnd, Finish, Return
    <3>3. QED
      BY <1>1, <3>2
  <2>3. QED
    BY <2>1, <2>2
<1>2. CASE CallKaratsuba
  BY <1>2, CallKaratsubaInv
<1>3. CASE Product
  BY <1>3, ProductInv
<1>4. CASE Sums
  BY <1>4, SumsInv
<1>5. CASE CombineInner
  BY <1>5, CombineInnerInv
<1>6. CASE CombineOuter
  BY <1>6, CombineOuterInv
<1>7. CASE UNCHANGED kvars
  BY <1>7, KStutterInv
<1>8. QED
  BY <1>1, <1>2, <1>3, <1>4, <1>5, <1>6, <1>7 DEF KNext

----------------------------------------------------------------------------
(* The invariant of all multiplications, the rows and the recursion.         *)
THEOREM KInductive == KSpec => []KInv
<1>1. QED
  BY KInitInv, KNextInv, PTL DEF KSpec

(* The recursion is never deeper than the operands have digits, so that each *)
(* level has its temporaries, and every operand of a level fits its digits.  *)
THEOREM KTypeCorrect == KSpec => []KTypeOK
<1>1. KInv => KTypeOK
  <2> SUFFICES ASSUME KInv PROVE KTypeOK
    OBVIOUS
  <2>1. TypeOK /\ Len(frames) <= MaxDepth
    BY DepthBound DEF KInv, IInv, Typed
  <2>2. ASSUME NEW k \in 1 .. Len(frames)
        PROVE  frames[k].lhs.n >= frames[k].rhs.n /\ frames[k].lhs.v < Pow[frames[k].lhs.n]
    BY DEF KInv, Levels, WellFormed, Proper
  <2>3. temps \in [1 .. MaxDepth -> [Temps -> [v : Nat, n : Nat]]]
    BY DEF KInv, Shape, Span
  <2>4. QED
    BY <2>1, <2>2, <2>3 DEF KTypeOK
<1>2. QED
  BY <1>1, KInductive, PTL

(* Each level keeps what it has computed while the levels below it run, its  *)
(* two differences are never negative, and its result is the product of its  *)
(* operands: _mul_karatsuba_ignore_sign.                                     *)
THEOREM EveryLevelExact == KSpec => []LevelsExact
<1>1. KInv => LevelsExact
  <2> SUFFICES ASSUME KInv, NEW l \in 1 .. Len(frames) PROVE LevelExact(frames[l], temps[l])
    BY DEF LevelsExact
  <2> DEFINE f == frames[l]  t == temps[l]
  <2>1. WellFormed(f) /\ Done(f, t)
    BY DEF KInv, Levels
  <2> HIDE DEF f, t
  <2>2. f.step \in {"bd", "sums", "ab_cd", "combine"} => t["ac"].v = PartA(f).v * PartC(f).v
    BY <2>1 DEF Done, cleaned
  <2>3. f.step \in {"sums", "ab_cd", "combine"} => t["bd"].v = PartB(f).v * PartD(f).v
    BY <2>1 DEF Done, cleaned
  <2>4. f.step \in {"ab_cd", "combine"} => t["a_b"] = cleaned(SumL(f)) /\ t["c_d"] = cleaned(SumR(f))
    BY <2>1 DEF Done
  <2>5. ASSUME f.step = "combine"
        PROVE  /\ t["ab_cd"].v = SumL(f) * SumR(f) /\ t["ab_cd"].v >= t["ac"].v + t["bd"].v
               /\ t["bd"].n <= Room(f) /\ Combined(f, t) = f.lhs.v * f.rhs.v
    <3>1. /\ t["ac"] = cleaned(PartA(f).v * PartC(f).v)
          /\ t["bd"] = cleaned(PartB(f).v * PartD(f).v)
          /\ t["ab_cd"] = cleaned(SumL(f) * SumR(f))
      BY <2>1, <2>5 DEF Done
    <3>2. t["ab_cd"].v = SumL(f) * SumR(f)
      BY <3>1 DEF cleaned
    <3>3. QED
      BY <2>1, <3>1, <3>2, CombinedFacts
  <2>6. LevelExact(f, t)
    BY <2>2, <2>3, <2>4, <2>5 DEF LevelExact, SumL, SumR
  <2>7. QED
    BY <2>6 DEF f, t
<1>2. QED
  BY <1>1, KInductive, PTL

(* In place or not, a row reads only digits of the operands of the call.     *)
THEOREM KInPlaceSafe == KSpec => []UnreadIntact
<1>1. KInv => UnreadIntact
  BY RowsUnread DEF KInv
<1>2. QED
  BY <1>1, KInductive, PTL

(* The rows lose nothing, with the recursion in the program or not.          *)
THEOREM KRowsKeepProduct == KSpec => []RowsConserve
<1>1. KInv => RowsConserve
  BY RowsTotal DEF KInv
<1>2. QED
  BY <1>1, KInductive, PTL

(* Every multiplication, by rows or by Karatsuba's recursion, leaves the     *)
(* exact signed product in canonical form: for every base, threshold, number *)
(* of digits and content of the temporaries.                                 *)
THEOREM KProductExact == KSpec => []ResultExact
<1>1. KInv => ResultExact
  BY DEF KInv, IInv, Answer
<1>2. QED
  BY <1>1, KInductive, PTL
=============================================================================
