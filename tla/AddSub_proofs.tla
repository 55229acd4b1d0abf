---------------------------- MODULE AddSub_proofs ----------------------------
(* Proofs about AddSub for every base, every size and every aliasing that    *)
(* does not pass the result object as the second operand b.  That condition  *)
(* is needed: add(a, a, a) reads a top digit nobody wrote.                   *)
EXTENDS AddSub, WordLemmas

ResultIsNotB == \A t \in Aliasings : t[1] # t[3]

----------------------------------------------------------------------------
(* Arithmetic of one loop step: p is the weight B^i of the digit.            *)

(* A number of k digits stays below B^k.                                     *)
LEMMA DigitBound ==
    ASSUME NEW p \in Nat, NEW s \in Int, s < p, NEW d \in Digit
    PROVE  s + d * p < B * p
  BY BAssumption DEF Digit

LEMMA WeightGrows ==
    ASSUME NEW p \in Nat
    PROVE  p <= B * p
  BY BAssumption

(* Closed index arithmetic of the weights.                                   *)
LEMMA PowStep ==
    ASSUME NEW k \in 0 .. MaxSize - 1
    PROVE  /\ Pow[k] \in Nat /\ Pow[k + 1] \in Nat
           /\ Pow[k + 1] = B * Pow[k]
  BY PowAssumption, SizeAssumption

----------------------------------------------------------------------------
(* The inductive invariant.                                                  *)

Loop == {"add", "sub"}
Busy == {"add", "sub", "negate", "sign"}

(* Where the call is: sizes, signs and counters of every phase.              *)
Phase ==
    /\ pc = "call" =>
          /\ \A o \in Objs : size[o] <= MaxSize - 1
          /\ digs = cell /\ size0 = size
          /\ i = 0 /\ c = 0 /\ sumL = 0 /\ sumS = 0 /\ pos = 0 /\ ~inverted
          /\ part[0] = 0
    /\ pc \in Busy =>
          /\ ns <= nl /\ nl <= MaxSize - 1
          /\ size[result] = nl + 1
          /\ i <= nl
    /\ pc = "add" => negA = negB
    /\ pc \in {"sub", "negate", "sign"} => negA # negB
    /\ pc \in Loop => ~inverted /\ pos = 0
    /\ pc = "negate" => inverted
    /\ part[0] = 0

(* The loops do not change a digit before they have read it.                 *)
Unread == UnreadIntact

(* part[k] is the value of the k low digits the subtraction wrote, as long   *)
(* as the negation has not replaced them.                                    *)
Written ==
    /\ pc = "sub" => \A j \in 0 .. i - 1 : part[j + 1] = part[j] + cell[result][j] * Pow[j]
    /\ pc = "negate" => \A j \in i .. nl - 1 : part[j + 1] = part[j] + cell[result][j] * Pow[j]

(* The short operand never reaches the weight of the next digit, so that the *)
(* two's complement of an underflowed difference is not zero.                *)
Bounds ==
    /\ pc \in Loop => sumL >= 0 /\ sumS >= 0 /\ sumS < Pow[i]
    /\ pc = "negate" => /\ sumL >= 0 /\ sumS >= 0 /\ sumS < Pow[nl] /\ pos >= 0
                        /\ part[nl] - Pow[nl] = sumL - sumS

(* What the loops have computed when they end.                               *)
Outcome ==
    pc = "sign" => (IF inverted THEN 0 - pos ELSE part[nl]) = sumL - sumS

IInv == TypeOK /\ Phase /\ Unread /\ Written /\ Conservation /\ Bounds /\ Outcome
        /\ LoopsExact

----------------------------------------------------------------------------
LEMMA AliasObjs ==
    ASSUME alias \in Aliasings
    PROVE  alias[1] \in Objs /\ alias[2] \in Objs /\ alias[3] \in Objs
  BY AliasAssumption

LEMMA InitInv == Init => IInv
<1> SUFFICES ASSUME Init PROVE IInv
  OBVIOUS
<1>1. TypeOK
  <2>1. size \in [Objs -> 1 .. MaxSize] /\ size0 \in [Objs -> 1 .. MaxSize]
    BY SizeAssumption DEF Init
  <2>2. part \in [0 .. MaxSize -> Int]
    BY DEF Init
  <2>3. nl \in 0 .. MaxSize /\ ns \in 0 .. MaxSize /\ i \in 0 .. MaxSize /\ c \in Carry
    BY SizeAssumption DEF Init, Carry
  <2>4. QED
    BY <2>1, <2>2, <2>3 DEF Init, TypeOK
<1>2. Phase
  BY SizeAssumption DEF Init, Phase, Busy, Loop
<1>3. QED
  BY <1>1, <1>2 DEF Init, IInv, Unread, UnreadIntact, Written, Conservation, Bounds,
     Outcome, LoopsExact, Loop

LEMMA CallInv ==
    ASSUME IInv, ResultIsNotB, NEW isSub \in BOOLEAN, Call(isSub)
    PROVE  IInv'
<1> DEFINE r == alias[1]  a == alias[2]  b == alias[3]
           grown == [size EXCEPT ![r] = MaxOf(size[a], size[b]) + 1]
<1>1. r \in Objs /\ a \in Objs /\ b \in Objs /\ r # b
  BY AliasObjs DEF IInv, TypeOK, ResultIsNotB
<1>2. /\ size[a] \in 1 .. MaxSize - 1 /\ size[b] \in 1 .. MaxSize - 1
      /\ grown[b] = size[b]
      /\ MaxOf(size[a], size[b]) \in 1 .. MaxSize - 1
  BY <1>1, SizeAssumption DEF IInv, TypeOK, Phase, Call, MaxOf
<1>3. /\ size' = grown /\ nl' = MaxOf(size[a], size[b])
      /\ ns' = (IF size[b] > size[a] THEN size[a] ELSE size[b])
      /\ swapped' = (size[b] > size[a])
      /\ negA' = neg[a] /\ negB' \in BOOLEAN
      /\ pc' = IF negA' = negB' THEN "add" ELSE "sub"
      /\ UNCHANGED <<cell, neg, alias, i, c, inverted>> /\ UNCHANGED ghosts
  BY <1>1, <1>2 DEF Call, IInv, TypeOK
<1>4. TypeOK'
  <2>1. size' \in [Objs -> 1 .. MaxSize]
    <3>1. MaxOf(size[a], size[b]) + 1 \in 1 .. MaxSize
      BY <1>2, SizeAssumption
    <3>2. size \in [Objs -> 1 .. MaxSize] /\ size' = [size EXCEPT ![r] = MaxOf(size[a], size[b]) + 1]
      BY <1>3 DEF IInv, TypeOK
    <3>3. QED
      BY <1>1, <3>1, <3>2
  <2>2. nl' \in 0 .. MaxSize /\ ns' \in 0 .. MaxSize
    BY <1>2, <1>3, SizeAssumption
  <2>3. negA' \in BOOLEAN /\ negB' \in BOOLEAN /\ swapped' \in BOOLEAN /\ pc' \in {"add", "sub"}
    BY <1>1, <1>3 DEF IInv, TypeOK
  <2>4. UNCHANGED <<cell, neg, alias, i, c, inverted, digs, size0, sumL, sumS, part, pos>>
    BY <1>3 DEF ghosts
  <2>5. QED
    BY <2>1, <2>2, <2>3, <2>4 DEF IInv, TypeOK
<1>5. /\ i' = 0 /\ c' = 0 /\ sumL' = 0 /\ sumS' = 0 /\ pos' = 0 /\ part'[0] = 0 /\ ~inverted'
      /\ digs' = cell'
  BY <1>3 DEF IInv, Phase, Call, ghosts
<1>6. pc' \in Loop
  BY <1>3 DEF Loop
<1>7. Phase'
  <2>1. ns' <= nl' /\ nl' <= MaxSize - 1 /\ size'[r] = nl' + 1
    <3>1. size'[r] = MaxOf(size[a], size[b]) + 1
      BY <1>1, <1>3 DEF IInv, TypeOK
    <3>2. QED
      BY <3>1, <1>2, <1>3, SizeAssumption DEF MaxOf
  <2>2. QED
    BY <2>1, <1>3, <1>5, <1>2, <1>6 DEF Phase, Loop, Busy, result
<1>8. Bounds'
  BY <1>5, <1>6, PowAssumption DEF Bounds, Loop
<1>9. Conservation'
  BY <1>5, <1>6, PowAssumption DEF Conservation, Loop
<1>10. Unread' /\ Written' /\ Outcome' /\ LoopsExact'
  BY <1>5, <1>6 DEF Unread, UnreadIntact, Written, Outcome, LoopsExact, Loop, long, short
<1>11. QED
  BY <1>4, <1>7, <1>8, <1>9, <1>10 DEF IInv

----------------------------------------------------------------------------
(* What every loop step of the addition and subtraction does, but for the    *)
(* value of the digit and of the carry it stores.                            *)
LEMMA StoreStep ==
    ASSUME IInv, pc \in Loop, i < nl, NEW d \in Digit, NEW k \in Carry, Store(d, k),
           sumS' \in Int
    PROVE  /\ TypeOK' /\ Phase' /\ Unread' /\ pc' = pc
           /\ i \in 0 .. MaxSize - 1
           /\ long \in Objs /\ short \in Objs /\ result \in Objs
           /\ L \in Digit /\ S \in Digit
           /\ i' = i + 1 /\ c' = k
           /\ part' = [part EXCEPT ![i + 1] = part[i] + d * Pow[i]]
           /\ part'[i + 1] = part[i] + d * Pow[i]
           /\ sumL' = sumL + L * Pow[i]
           /\ cell'[result][i] = d
           /\ \A o \in Objs, j \in Index : j # i => cell'[o][j] = cell[o][j]
           /\ UNCHANGED <<result, long, short, nl, ns, negA, negB, swapped, inverted, pos>>
<1>1. /\ i \in 0 .. MaxSize - 1 /\ i \in Index /\ i + 1 \in 0 .. MaxSize
      /\ nl \in 0 .. MaxSize - 1 /\ ns \in 0 .. MaxSize - 1 /\ ns <= nl
  BY SizeAssumption DEF IInv, TypeOK, Phase, Loop, Busy, Index
<1>2. result \in Objs /\ long \in Objs /\ short \in Objs
  BY AliasObjs DEF IInv, TypeOK, result, long, short
<1>3. L \in Digit /\ S \in Digit
  BY <1>1, <1>2 DEF IInv, TypeOK, L, S
<1>4. UNCHANGED <<result, long, short, nl, ns, negA, negB, swapped, inverted, pos, alias,
                  size, neg, pc, digs, size0>>
  BY DEF Store, call, result, long, short
<1>5. /\ i' = i + 1 /\ c' = k /\ sumL' = sumL + L * Pow[i]
      /\ part' = [part EXCEPT ![i + 1] = part[i] + d * Pow[i]]
      /\ cell' = [cell EXCEPT ![result][i] = d]
  BY DEF Store
<1>6. cell' \in [Objs -> [Index -> Digit]]
  BY <1>1, <1>2, <1>5 DEF IInv, TypeOK
<1>7. /\ cell'[result][i] = d
      /\ \A o \in Objs, j \in Index : j # i => cell'[o][j] = cell[o][j]
  BY <1>1, <1>2, <1>5 DEF IInv, TypeOK
<1>8. Pow[i] \in Nat
  BY <1>1, PowStep
<1>9. part' \in [0 .. MaxSize -> Int] /\ part'[i + 1] = part[i] + d * Pow[i] /\ part'[0] = 0
  <2>1. part[i] + d * Pow[i] \in Int
    <3>1. part[i] \in Int /\ d \in Int
      BY <1>1, SizeAssumption, BAssumption DEF IInv, TypeOK, Digit
    <3>2. QED
      BY <3>1, <1>8
  <2>2. QED
    BY <2>1, <1>1, <1>5 DEF IInv, TypeOK, Phase
<1>10. sumL' \in Int
  <2>1. L * Pow[i] \in Nat
    BY <1>3, <1>8, DigitTimesWeight
  <2>2. sumL \in Int
    BY DEF IInv, TypeOK
  <2>3. QED
    BY <2>1, <2>2, <1>5
<1>11. TypeOK'
  BY <1>1, <1>4, <1>5, <1>6, <1>9, <1>10 DEF IInv, TypeOK
<1>12. Phase'
  BY <1>1, <1>4, <1>5, <1>9 DEF IInv, TypeOK, Phase, Loop, Busy
<1>13. Unread'
  <2>1. pc \in {"add", "sub"}
    BY DEF Loop
  <2>2. ASSUME NEW j \in Index, j >= i + 1
        PROVE  /\ j < nl => cell'[long][j] = digs[long][j]
               /\ j < ns => cell'[short][j] = digs[short][j]
    BY <2>1, <2>2, <1>1, <1>2, <1>7 DEF IInv, Unread, UnreadIntact, Index
  <2>3. QED
    BY <2>2, <1>4, <1>5 DEF Unread, UnreadIntact
<1>14. QED
  BY <1>1, <1>2, <1>3, <1>4, <1>5, <1>7, <1>9, <1>11, <1>12, <1>13

(* The bounds after a step that consumes the digits L and s (s = 0 where the *)
(* short operand has ended).                                                 *)
LEMMA BoundsStep ==
    ASSUME IInv, pc \in Loop, i \in 0 .. MaxSize - 1, i' = i + 1, pc' = pc,
           L \in Digit, NEW s \in Digit,
           sumL' = sumL + L * Pow[i], sumS' = sumS + s * Pow[i]
    PROVE  Bounds'
<1>1. Pow[i] \in Nat /\ Pow[i + 1] = B * Pow[i]
  BY PowStep
<1>2. sumL \in Int /\ sumS \in Int /\ sumL >= 0 /\ sumS >= 0 /\ sumS < Pow[i]
  BY DEF IInv, TypeOK, Bounds
<1>3. L * Pow[i] \in Nat /\ s * Pow[i] \in Nat
  BY <1>1, DigitTimesWeight
<1>4. sumS + s * Pow[i] < B * Pow[i]
  BY <1>1, <1>2, DigitBound
<1>5. sumL' >= 0 /\ sumS' >= 0 /\ sumS' < Pow[i']
  BY <1>1, <1>2, <1>3, <1>4
<1>6. QED
  BY <1>5 DEF Bounds, Loop

LEMMA WrittenStep ==
    ASSUME IInv, pc \in Loop, i \in 0 .. MaxSize - 1, i' = i + 1, pc' = pc,
           result' = result, result \in Objs, NEW d \in Int,
           part' = [part EXCEPT ![i + 1] = part[i] + d * Pow[i]],
           cell'[result][i] = d,
           \A o \in Objs, j \in Index : j # i => cell'[o][j] = cell[o][j]
    PROVE  Written'
<1> SUFFICES ASSUME pc = "sub", NEW j \in 0 .. i
             PROVE  part'[j + 1] = part'[j] + cell'[result][j] * Pow[j]
  BY DEF Written, Loop
<1>1. part \in [0 .. MaxSize -> Int]
  BY DEF IInv, TypeOK
<1>2. CASE j = i
  BY <1>1, <1>2, SizeAssumption
<1>3. CASE j < i
  <2>1. j \in 0 .. i - 1 /\ j \in Index /\ j + 1 # i + 1 /\ j # i + 1
    BY <1>3, SizeAssumption DEF Index
  <2>2. part[j + 1] = part[j] + cell[result][j] * Pow[j]
    BY <2>1 DEF IInv, Written
  <2>3. part'[j + 1] = part[j + 1] /\ part'[j] = part[j]
    BY <1>1, <2>1
  <2>4. QED
    BY <2>1, <2>2, <2>3
<1>4. QED
  BY <1>2, <1>3

LEMMA LoopDigits ==
    ASSUME IInv, pc \in Loop, i < nl
    PROVE  i \in 0 .. MaxSize - 1 /\ L \in Digit /\ S \in Digit
<1>1. i \in 0 .. MaxSize /\ nl <= MaxSize - 1 /\ nl \in 0 .. MaxSize
  BY DEF IInv, TypeOK, Phase, Loop, Busy
<1>2. i \in 0 .. MaxSize - 1 /\ i \in Index
  BY <1>1, SizeAssumption DEF Index
<1>3. long \in Objs /\ short \in Objs
  BY AliasObjs DEF IInv, TypeOK, long, short
<1>4. QED
  BY <1>2, <1>3 DEF IInv, TypeOK, L, S

(* One iteration of either loop of _add_ignore_sign; s is the digit of the    *)
(* short operand, 0 once it has ended.                                        *)
LEMMA AddLoopInv ==
    ASSUME IInv, pc = "add", i < nl, NEW s \in Digit, NEW d \in Digit, NEW k \in Carry,
           d + k * B = L + s + c, Store(d, k), sumS' = sumS + s * Pow[i]
    PROVE  IInv'
<1>1. pc \in Loop /\ c \in Carry
  BY DEF Loop, IInv, TypeOK
<1>2. i \in 0 .. MaxSize - 1 /\ L \in Digit
  BY <1>1, LoopDigits
<1>3. Pow[i] \in Nat /\ Pow[i + 1] = B * Pow[i]
  BY <1>2, PowStep
<1>4. d \in Int /\ k \in Int /\ L \in Int /\ s \in Int /\ c \in Int
  BY <1>1, <1>2, BAssumption DEF Digit, Carry
<1>5. sumS' \in Int
  <2>1. s * Pow[i] \in Nat
    BY <1>3, DigitTimesWeight
  <2>2. sumS \in Int
    BY DEF IInv, TypeOK
  <2>3. QED
    BY <2>1, <2>2
<1>6. /\ TypeOK' /\ Phase' /\ Unread' /\ pc' = pc /\ i' = i + 1 /\ c' = k
      /\ part'[i + 1] = part[i] + d * Pow[i]
      /\ part' = [part EXCEPT ![i + 1] = part[i] + d * Pow[i]]
      /\ sumL' = sumL + L * Pow[i]
      /\ cell'[result][i] = d /\ result' = result /\ result \in Objs
      /\ \A o \in Objs, j \in Index : j # i => cell'[o][j] = cell[o][j]
  BY <1>1, <1>5, StoreStep
<1>7. Bounds'
  BY <1>1, <1>2, <1>6, BoundsStep
<1>8. Written'
  BY <1>1, <1>2, <1>4, <1>6, WrittenStep
<1>9. Conservation'
  <2> DEFINE D == d * Pow[i]  K == k * Pow[i + 1]
             X == L * Pow[i]  Y == s * Pow[i]  Z == c * Pow[i]
  <2>1. part[i] + Z = sumL + sumS
    BY DEF IInv, Conservation
  <2>2. \A p \in Int : d * p + k * (B * p) = L * p + s * p + c * p
    <3> TAKE p \in Int
    <3>1. (d + k * B) * p = (L + s + c) * p
      OBVIOUS
    <3>2. (d + k * B) * p = d * p + k * (B * p)
      BY <1>4, BAssumption
    <3>3. (L + s + c) * p = L * p + s * p + c * p
      BY <1>4
    <3>4. QED
      BY <3>1, <3>2, <3>3
  <2>3. D + K = X + Y + Z
    BY <2>2, <1>3
  <2>4. part[i] \in Int /\ sumL \in Int /\ sumS \in Int
    BY <1>2, SizeAssumption DEF IInv, TypeOK
  <2>5. D \in Int /\ K \in Int /\ X \in Int /\ Y \in Int /\ Z \in Int
    BY <1>3, <1>4, <1>2, PowStep
  <2>6. part'[i + 1] + c' * Pow[i + 1] = sumL' + sumS'
    <3>1. part'[i + 1] + c' * Pow[i + 1] = (part[i] + D) + K
      BY <1>6
    <3>2. sumL' + sumS' = (sumL + X) + (sumS + Y)
      BY <1>6
    <3> HIDE DEF D, K, X, Y, Z
    <3>3. QED
      BY <2>1, <2>3, <2>4, <2>5, <3>1, <3>2
  <2>7. QED
    BY <2>6, <1>6 DEF Conservation
<1>10. Outcome' /\ LoopsExact'
  BY <1>6 DEF Outcome, LoopsExact
<1>11. QED
  BY <1>6, <1>7, <1>8, <1>9, <1>10 DEF IInv

LEMMA AddBothInv == ASSUME IInv, AddBoth PROVE IInv'
<1>1. pc = "add" /\ pc \in Loop /\ c \in Carry /\ i < ns /\ ns <= nl
      /\ i \in 0 .. MaxSize /\ ns \in 0 .. MaxSize /\ nl \in 0 .. MaxSize
  BY DEF AddBoth, Loop, Busy, IInv, Phase, TypeOK
<1>2. i < nl
  BY <1>1, SizeAssumption
<1>3. L \in Digit /\ S \in Digit
  BY <1>1, <1>2, LoopDigits
<1>4. QED
  BY <1>1, <1>2, <1>3, AddStepExact, AddLoopInv DEF AddBoth

LEMMA AddRestInv == ASSUME IInv, AddRest PROVE IInv'
<1>1. pc = "add" /\ pc \in Loop /\ c \in Carry /\ i < nl /\ i \in 0 .. MaxSize
      /\ sumS' = sumS /\ sumS \in Int /\ 0 \in Digit
  BY BAssumption DEF AddRest, Loop, IInv, TypeOK, Digit
<1>2. L \in Digit /\ i \in 0 .. MaxSize - 1
  BY <1>1, LoopDigits
<1>3. sumS' = sumS + 0 * Pow[i]
  BY <1>1, <1>2, PowStep
<1>4. IncDigit(L, c) + IncCarry(L, c) * B = L + 0 + c
  <2>1. IncDigit(L, c) + IncCarry(L, c) * B = L + c
    BY <1>1, <1>2, IncStepExact
  <2>2. L \in Int /\ c \in Int
    BY <1>1, <1>2, BAssumption DEF Digit, Carry
  <2>3. QED
    BY <2>1, <2>2
<1>5. IncDigit(L, c) \in Digit /\ IncCarry(L, c) \in Carry
  BY <1>1, <1>2, IncStepExact
<1>6. QED
  BY <1>1, <1>3, <1>4, <1>5, AddLoopInv DEF AddRest

(* The same for _sub_ignore_sign.                                            *)
LEMMA SubLoopInv ==
    ASSUME IInv, pc = "sub", i < nl, NEW s \in Digit, NEW d \in Digit, NEW k \in Carry,
           d - k * B = L - s - c, Store(d, k), sumS' = sumS + s * Pow[i]
    PROVE  IInv'
<1>1. pc \in Loop /\ c \in Carry
  BY DEF Loop, IInv, TypeOK
<1>2. i \in 0 .. MaxSize - 1 /\ L \in Digit
  BY <1>1, LoopDigits
<1>3. Pow[i] \in Nat /\ Pow[i + 1] = B * Pow[i]
  BY <1>2, PowStep
<1>4. d \in Int /\ k \in Int /\ L \in Int /\ s \in Int /\ c \in Int
  BY <1>1, <1>2, BAssumption DEF Digit, Carry
<1>5. sumS' \in Int
  <2>1. s * Pow[i] \in Nat
    BY <1>3, DigitTimesWeight
  <2>2. sumS \in Int
    BY DEF IInv, TypeOK
  <2>3. QED
    BY <2>1, <2>2
<1>6. /\ TypeOK' /\ Phase' /\ Unread' /\ pc' = pc /\ i' = i + 1 /\ c' = k
      /\ part'[i + 1] = part[i] + d * Pow[i]
      /\ part' = [part EXCEPT ![i + 1] = part[i] + d * Pow[i]]
      /\ sumL' = sumL + L * Pow[i]
      /\ cell'[result][i] = d /\ result' = result /\ result \in Objs
      /\ \A o \in Objs, j \in Index : j # i => cell'[o][j] = cell[o][j]
  BY <1>1, <1>5, StoreStep
<1>7. Bounds'
  BY <1>1, <1>2, <1>6, BoundsStep
<1>8. Written'
  BY <1>1, <1>2, <1>4, <1>6, WrittenStep
<1>9. Conservation'
  <2> DEFINE D == d * Pow[i]  K == k * Pow[i + 1]
             X == L * Pow[i]  Y == s * Pow[i]  Z == c * Pow[i]
  <2>1. part[i] - Z = sumL - sumS
    BY DEF IInv, Conservation
  <2>2. \A p \in Int : d * p - k * (B * p) = L * p - s * p - c * p
    <3> TAKE p \in Int
    <3>1. (d - k * B) * p = (L - s - c) * p
      OBVIOUS
    <3>2. (d - k * B) * p = d * p - k * (B * p)
      BY <1>4, BAssumption
    <3>3. (L - s - c) * p = L * p - s * p - c * p
      BY <1>4
    <3>4. QED
      BY <3>1, <3>2, <3>3
  <2>3. D - K = X - Y - Z
    BY <2>2, <1>3
  <2>4. part[i] \in Int /\ sumL \in Int /\ sumS \in Int
    BY <1>2, SizeAssumption DEF IInv, TypeOK
  <2>5. D \in Int /\ K \in Int /\ X \in Int /\ Y \in Int /\ Z \in Int
    BY <1>3, <1>4, <1>2, PowStep
  <2>6. part'[i + 1] - c' * Pow[i + 1] = sumL' - sumS'
    <3>1. part'[i + 1] - c' * Pow[i + 1] = (part[i] + D) - K
      BY <1>6
    <3>2. sumL' - sumS' = (sumL + X) - (sumS + Y)
      BY <1>6
    <3> HIDE DEF D, K, X, Y, Z
    <3>3. QED
      BY <2>1, <2>3, <2>4, <2>5, <3>1, <3>2
  <2>7. QED
    BY <2>6, <1>6 DEF Conservation
<1>10. Outcome' /\ LoopsExact'
  BY <1>6 DEF Outcome, LoopsExact
<1>11. QED
  BY <1>6, <1>7, <1>8, <1>9, <1>10 DEF IInv

LEMMA SubBothInv == ASSUME IInv, SubBoth PROVE IInv'
<1>1. pc = "sub" /\ pc \in Loop /\ c \in Carry /\ i < ns /\ ns <= nl
      /\ i \in 0 .. MaxSize /\ ns \in 0 .. MaxSize /\ nl \in 0 .. MaxSize
  BY DEF SubBoth, Loop, Busy, IInv, Phase, TypeOK
<1>2. i < nl
  BY <1>1, SizeAssumption
<1>3. L \in Digit /\ S \in Digit
  BY <1>1, <1>2, LoopDigits
<1>4. QED
  BY <1>1, <1>2, <1>3, SubStepExact, SubLoopInv DEF SubBoth

LEMMA SubRestInv == ASSUME IInv, SubRest PROVE IInv'
<1>1. pc = "sub" /\ pc \in Loop /\ c \in Carry /\ i < nl /\ i \in 0 .. MaxSize
      /\ sumS' = sumS /\ sumS \in Int /\ 0 \in Digit
  BY BAssumption DEF SubRest, Loop, IInv, TypeOK, Digit
<1>2. L \in Digit /\ i \in 0 .. MaxSize - 1
  BY <1>1, LoopDigits
<1>3. sumS' = sumS + 0 * Pow[i]
  BY <1>1, <1>2, PowStep
<1>4. DecDigit(L, c) - DecBorrow(L, c) * B = L - 0 - c
  <2>1. DecDigit(L, c) - DecBorrow(L, c) * B = L - c
    BY <1>1, <1>2, DecStepExact
  <2>2. L \in Int /\ c \in Int
    BY <1>1, <1>2, BAssumption DEF Digit, Carry
  <2>3. QED
    BY <2>1, <2>2
<1>5. DecDigit(L, c) \in Digit /\ DecBorrow(L, c) \in Carry
  BY <1>1, <1>2, DecStepExact
<1>6. QED
  BY <1>1, <1>3, <1>4, <1>5, SubLoopInv DEF SubRest


----------------------------------------------------------------------------
LEMMA AddEndInv == ASSUME IInv, AddEnd PROVE IInv'
<1>1. /\ result \in Objs /\ size[result] = nl + 1 /\ nl \in 0 .. MaxSize - 1 /\ i = nl
      /\ c \in Carry /\ c \in Digit /\ nl \in Index /\ negA = negB
  BY AliasObjs, CarryIsDigit, SizeAssumption
  DEF IInv, TypeOK, Phase, Busy, AddEnd, result, Index
<1>2. Pow[nl] \in Nat /\ part[nl] \in Int /\ c \in Int
  BY <1>1, PowStep, SizeAssumption DEF IInv, TypeOK, Carry
<1>3. /\ cell' = [cell EXCEPT ![result][nl] = c]
      /\ part' = [part EXCEPT ![nl + 1] = part[nl] + c * Pow[nl]]
      /\ neg' = [neg EXCEPT ![result] = negA]
      /\ pc' = "cleanup"
      /\ UNCHANGED <<size, i, c, inverted, digs, size0, sumL, sumS, pos, alias, negA, negB,
                     swapped, nl, ns>>
  <2>1. size[result] - 1 = nl
    BY <1>1
  <2>2. QED
    BY <2>1, <1>1 DEF AddEnd, call
<1>4. /\ part' \in [0 .. MaxSize -> Int] /\ part'[nl + 1] = part[nl] + c * Pow[nl]
      /\ part'[0] = 0
  BY <1>1, <1>2, <1>3, SizeAssumption DEF IInv, TypeOK, Phase
<1>5. cell' \in [Objs -> [Index -> Digit]] /\ neg' \in [Objs -> BOOLEAN]
  BY <1>1, <1>3 DEF IInv, TypeOK
<1>6. TypeOK'
  BY <1>3, <1>4, <1>5 DEF IInv, TypeOK
<1>7. Phase' /\ Unread' /\ Written' /\ Conservation' /\ Bounds' /\ Outcome'
  BY <1>3, <1>4 DEF Phase, Unread, UnreadIntact, Written, Conservation, Bounds, Outcome,
     Loop, Busy
<1>8. LoopsExact'
  <2>1. part[nl] + c * Pow[nl] = sumL + sumS
    BY <1>1 DEF IInv, Conservation, AddEnd
  <2>2. sumL \in Int /\ sumS \in Int
    BY DEF IInv, TypeOK
  <2>3. part'[nl'+ 1] = sumA' + sumB'
    BY <2>1, <2>2, <1>3, <1>4 DEF sumA, sumB
  <2>4. QED
    BY <2>3, <1>3 DEF LoopsExact
<1>9. QED
  BY <1>6, <1>7, <1>8 DEF IInv

(* The sign rule of sub_ignore_sign: c != swapped.                           *)
LEMMA SignRule ==
    ASSUME TypeOK, nl \in 0 .. MaxSize,
           (IF inverted THEN 0 - pos ELSE part[nl]) = sumL - sumS
    PROVE  Sgn(inverted # swapped) * (IF inverted THEN pos ELSE part[nl]) = sumA - sumB
<1> DEFINE m == IF inverted THEN pos ELSE part[nl]
<1>1. /\ pos \in Int /\ sumL \in Int /\ sumS \in Int /\ part[nl] \in Int
      /\ inverted \in BOOLEAN /\ swapped \in BOOLEAN
  BY DEF TypeOK
<1>2. m \in Int /\ (inverted => 0 - m = sumL - sumS) /\ (~inverted => m = sumL - sumS)
  BY <1>1
<1> HIDE DEF m
<1>3. /\ inverted # swapped => Sgn(inverted # swapped) = 0 - 1
      /\ ~(inverted # swapped) => Sgn(inverted # swapped) = 1
  BY DEF Sgn
<1>4. sumA - sumB = IF swapped THEN sumS - sumL ELSE sumL - sumS
  BY DEF sumA, sumB
<1>5. ASSUME inverted # swapped
      PROVE  (0 - 1) * m = sumA - sumB
  <2>1. CASE inverted
    <3>1. ~swapped
      BY <2>1, <1>1, <1>5
    <3>2. QED
      BY <2>1, <3>1, <1>1, <1>2, <1>4
  <2>2. CASE ~inverted
    <3>1. swapped
      BY <2>2, <1>1, <1>5
    <3>2. QED
      BY <2>2, <3>1, <1>1, <1>2, <1>4
  <2>3. QED
    BY <2>1, <2>2
<1>6. ASSUME ~(inverted # swapped)
      PROVE  1 * m = sumA - sumB
  <2>1. CASE inverted
    <3>1. swapped
      BY <2>1, <1>1, <1>6
    <3>2. QED
      BY <2>1, <3>1, <1>1, <1>2, <1>4
  <2>2. CASE ~inverted
    <3>1. ~swapped
      BY <2>2, <1>1, <1>6
    <3>2. QED
      BY <2>2, <3>1, <1>1, <1>2, <1>4
  <2>3. QED
    BY <2>1, <2>2
<1>7. Sgn(inverted # swapped) * m = sumA - sumB
  BY <1>3, <1>5, <1>6
<1>8. QED
  BY <1>7 DEF m

LEMMA SubEndInv == ASSUME IInv, SubEnd PROVE IInv'
<1>1. /\ nl \in 0 .. MaxSize - 1 /\ i = nl /\ c \in Carry /\ c \in Int /\ part[0] = 0
      /\ pos = 0 /\ pc = "sub" /\ negA # negB
  BY SizeAssumption DEF IInv, TypeOK, Phase, Busy, Loop, SubEnd, Carry
<1>2. Pow[nl] \in Nat /\ part[nl] \in Int /\ Pow[0] \in Nat
  BY <1>1, PowStep, SizeAssumption DEF IInv, TypeOK
<1>3. /\ inverted' = (c = 1) /\ pc' = IF c = 1 THEN "negate" ELSE "sign"
      /\ i' = 0 /\ c' = 0
      /\ UNCHANGED <<cell, size, neg, digs, size0, sumL, sumS, part, pos, alias, negA, negB,
                     swapped, nl, ns, result>>
  BY DEF SubEnd, call, ghosts, result
<1>4. TypeOK'
  BY <1>3, SizeAssumption DEF IInv, TypeOK, Carry
<1>5. Phase'
  <2>1. pc' \in {"negate", "sign"} /\ (pc' = "negate" => inverted')
    BY <1>3
  <2>2. ns <= nl /\ nl <= MaxSize - 1 /\ size[result] = nl + 1
    BY <1>1 DEF IInv, Phase, Busy
  <2>3. 0 <= nl
    BY <1>1
  <2>4. QED
    BY <2>1, <2>2, <2>3, <1>1, <1>3 DEF Phase, Busy, Loop
<1>6. Unread' /\ Written'
  BY <1>1, <1>3 DEF IInv, Unread, UnreadIntact, Written
<1>7. Conservation'
  BY <1>1, <1>2, <1>3 DEF Conservation
<1>8. part[nl] - c * Pow[nl] = sumL - sumS
  BY <1>1 DEF IInv, Conservation
<1>9. Bounds'
  BY <1>1, <1>2, <1>3, <1>8 DEF IInv, Bounds, Loop
<1>10. Outcome'
  <2>1. CASE c = 1
    BY <2>1, <1>3 DEF Outcome
  <2>2. CASE c = 0
    <3>1. ~inverted' /\ c * Pow[nl] = 0
      <4>1. c # 1
        BY <2>2
      <4>2. ~inverted'
        BY <4>1, <1>3
      <4>3. QED
        BY <4>2, <2>2, <1>2
    <3>2. part[nl] = sumL - sumS
      BY <3>1, <1>2, <1>8
    <3>3. QED
      BY <3>1, <3>2, <1>3 DEF Outcome
  <2>3. QED
    BY <2>1, <2>2, <1>1 DEF Carry
<1>11. LoopsExact'
  <2>1. TypeOK /\ ~inverted /\ nl \in 0 .. MaxSize
    BY <1>1, SizeAssumption DEF IInv, Phase, Loop
  <2>2. ASSUME pc' = "sign"
        PROVE  /\ inverted' = inverted
               /\ Sgn(inverted # swapped) * (IF inverted THEN pos ELSE part[nl]) = sumA - sumB
    <3>1. ~inverted' /\ inverted' \in BOOLEAN /\ inverted \in BOOLEAN
      BY <2>2, <1>3 DEF IInv, TypeOK
    <3>2. part[nl] = sumL - sumS
      BY <2>2, <3>1, <1>3, <1>10 DEF Outcome
    <3>3. (IF inverted THEN 0 - pos ELSE part[nl]) = sumL - sumS
      BY <3>2, <2>1
    <3>4. QED
      BY <2>1, <3>1, <3>3, SignRule
  <2>3. pc' # "cleanup"
    BY <1>3
  <2>4. UNCHANGED <<swapped, pos, part, nl, sumA, sumB>>
    BY <1>3 DEF sumA, sumB
  <2>5. QED
    BY <2>2, <2>3, <2>4 DEF LoopsExact
<1>12. QED
  BY <1>4, <1>5, <1>6, <1>7, <1>9, <1>10, <1>11 DEF IInv

LEMMA NegateInv == ASSUME IInv, Negate PROVE IInv'
<1> DEFINE ai == cell[result][i]  d == NegDigit(ai, c)  k == NegCarry(ai, c)
<1>1. /\ nl \in 0 .. MaxSize - 1 /\ i \in 0 .. nl - 1 /\ c \in Carry /\ pc = "negate"
      /\ size[result] = nl + 1 /\ result \in Objs /\ i \in 0 .. MaxSize - 1 /\ i \in Index
      /\ i + 1 \in 0 .. MaxSize
  <2>1. /\ nl \in 0 .. MaxSize /\ nl <= MaxSize - 1 /\ i \in 0 .. MaxSize /\ c \in Carry
        /\ pc = "negate" /\ size[result] = nl + 1 /\ i < size[result] - 1
    BY DEF IInv, TypeOK, Phase, Busy, Negate
  <2>2. result \in Objs
    BY AliasObjs DEF IInv, TypeOK, result
  <2>3. QED
    BY <2>1, <2>2, SizeAssumption DEF Index
<1>2. ai \in Digit
  BY <1>1 DEF IInv, TypeOK
<1>3. d \in Digit /\ k \in Carry /\ d + ai + c = k * B
  BY <1>1, <1>2, NegStepExact
<1>4. /\ cell' = [cell EXCEPT ![result][i] = d] /\ c' = k /\ i' = i + 1
      /\ pos' = pos + d * Pow[i]
      /\ UNCHANGED <<size, neg, pc, inverted, digs, size0, sumL, sumS, part, alias, negA,
                     negB, swapped, nl, ns, result>>
  BY DEF Negate, call, result
<1>5. part[i + 1] = part[i] + ai * Pow[i]
  BY <1>1 DEF IInv, Written
<1> HIDE DEF ai, d, k
<1>6. Pow[i] \in Nat /\ Pow[i + 1] = B * Pow[i] /\ Pow[i + 1] \in Nat
  BY <1>1, PowStep
<1>7. d * Pow[i] \in Nat
  BY <1>3, <1>6, DigitTimesWeight
<1>8. pos \in Int /\ pos' \in Int /\ pos >= 0 /\ pos' >= 0
  <2>1. pos \in Int /\ pos >= 0
    BY <1>1 DEF IInv, TypeOK, Bounds
  <2>2. QED
    BY <2>1, <1>4, <1>7
<1>9. cell' \in [Objs -> [Index -> Digit]]
  BY <1>1, <1>3, <1>4 DEF IInv, TypeOK
<1>10. TypeOK'
  BY <1>1, <1>3, <1>4, <1>8, <1>9 DEF IInv, TypeOK
<1>11. Phase'
  BY <1>1, <1>4, SizeAssumption DEF IInv, Phase, Busy, Loop
<1>12. Written'
  <2>1. ASSUME NEW j \in i + 1 .. nl - 1
        PROVE  part[j + 1] = part[j] + cell'[result][j] * Pow[j]
    <3>1. j \in i .. nl - 1 /\ j \in Index /\ j # i
      BY <1>1, SizeAssumption DEF Index
    <3>2. part[j + 1] = part[j] + cell[result][j] * Pow[j]
      BY <3>1, <1>1 DEF IInv, Written
    <3>3. cell'[result][j] = cell[result][j]
      BY <3>1, <1>1, <1>4 DEF IInv, TypeOK
    <3>4. QED
      BY <3>2, <3>3
  <2>2. QED
    BY <2>1, <1>1, <1>4 DEF Written
<1>13. Conservation'
  <2> DEFINE D == d * Pow[i]  A == ai * Pow[i]  Z == c * Pow[i]  K == k * Pow[i + 1]
  <2>1. d \in Int /\ ai \in Int /\ c \in Int /\ k \in Int
    BY <1>1, <1>2, <1>3, BAssumption DEF Digit, Carry
  <2>2. \A p \in Int : d * p + ai * p + c * p = k * (B * p)
    <3> TAKE p \in Int
    <3>1. (d + ai + c) * p = (k * B) * p
      BY <1>3
    <3>2. (d + ai + c) * p = d * p + ai * p + c * p
      BY <2>1
    <3>3. (k * B) * p = k * (B * p)
      BY <2>1, BAssumption
    <3>4. QED
      BY <3>1, <3>2, <3>3
  <2>3. D + A + Z = K
    BY <2>2, <1>6
  <2>4. pos + part[i] = Z
    BY <1>1 DEF IInv, Conservation
  <2>5. D \in Int /\ A \in Int /\ Z \in Int /\ K \in Int /\ part[i] \in Int
    <3>1. part[i] \in Int
      BY <1>1, SizeAssumption DEF IInv, TypeOK
    <3>2. QED
      BY <3>1, <2>1, <1>6
  <2>6. pos' = pos + D /\ part'[i + 1] = part[i] + A /\ c' * Pow[i + 1] = K
    BY <1>4, <1>5
  <2> HIDE DEF D, A, Z, K
  <2>7. pos' + part'[i + 1] = c' * Pow[i + 1]
    <3>1. (pos + D) + (part[i] + A) = K
      BY <2>3, <2>4, <2>5, <1>8
    <3>2. QED
      BY <3>1, <2>6
  <2>8. QED
    BY <2>7, <1>1, <1>4 DEF Conservation
<1>14. Bounds'
  BY <1>1, <1>4, <1>8 DEF IInv, Bounds, Loop
<1>15. Unread' /\ Outcome' /\ LoopsExact'
  BY <1>1, <1>4 DEF Unread, UnreadIntact, Outcome, LoopsExact
<1>16. QED
  BY <1>10, <1>11, <1>12, <1>13, <1>14, <1>15 DEF IInv

(* assert(c) of _negate_twos_complement: the negated difference is not zero, *)
(* since the short operand stays below the weight of the borrow.             *)
LEMMA NegateCarry ==
    ASSUME IInv, pc = "negate", i = nl
    PROVE  c = 1 /\ 0 - pos = sumL - sumS
<1>1. nl \in 0 .. MaxSize - 1 /\ c \in Carry
  BY SizeAssumption DEF IInv, TypeOK, Phase, Busy
<1>2. Pow[nl] \in Nat /\ part[nl] \in Int /\ pos \in Int /\ sumL \in Int /\ sumS \in Int
  BY <1>1, PowStep, SizeAssumption DEF IInv, TypeOK
<1>3. pos + part[nl] = c * Pow[nl]
  BY DEF IInv, Conservation
<1>4. sumL >= 0 /\ sumS < Pow[nl] /\ pos >= 0 /\ part[nl] - Pow[nl] = sumL - sumS
  BY DEF IInv, Bounds
<1>5. c # 0
  BY <1>2, <1>3, <1>4
<1>6. c = 1
  BY <1>1, <1>5 DEF Carry
<1>7. QED
  BY <1>2, <1>3, <1>4, <1>6

LEMMA NegateEndInv == ASSUME IInv, NegateEnd PROVE IInv'
<1>1. /\ nl \in 0 .. MaxSize - 1 /\ i = nl /\ pc = "negate" /\ inverted /\ negA # negB
  BY SizeAssumption DEF IInv, TypeOK, Phase, Busy, NegateEnd
<1>2. /\ pc' = "sign"
      /\ UNCHANGED <<cell, size, neg, i, c, inverted, digs, size0, sumL, sumS, part, pos,
                     alias, negA, negB, swapped, nl, ns, result>>
  BY DEF NegateEnd, call, ghosts, result
<1>3. TypeOK'
  BY <1>2 DEF IInv, TypeOK
<1>4. Phase'
  BY <1>1, <1>2 DEF IInv, Phase, Busy, Loop
<1>5. Outcome'
  BY <1>1, <1>2, NegateCarry DEF Outcome
<1>6. Unread' /\ Written' /\ Conservation' /\ Bounds'
  BY <1>2 DEF Unread, UnreadIntact, Written, Conservation, Bounds, Loop
<1>7. LoopsExact'
  <2>1. TypeOK /\ nl \in 0 .. MaxSize
    BY <1>1, SizeAssumption DEF IInv
  <2>2. (IF inverted THEN 0 - pos ELSE part[nl]) = sumL - sumS
    BY <1>1, NegateCarry
  <2>3. Sgn(inverted # swapped) * (IF inverted THEN pos ELSE part[nl]) = sumA - sumB
    BY <2>1, <2>2, SignRule
  <2>4. UNCHANGED <<swapped, inverted, pos, part, nl, sumA, sumB>>
    BY <1>2 DEF sumA, sumB
  <2>5. QED
    BY <2>3, <2>4, <1>2 DEF LoopsExact
<1>8. QED
  BY <1>3, <1>4, <1>5, <1>6, <1>7 DEF IInv

LEMMA SubSignInv == ASSUME IInv, SubSign PROVE IInv'
<1>1. /\ result \in Objs /\ size[result] = nl + 1 /\ nl \in 0 .. MaxSize - 1 /\ nl \in Index
      /\ negA # negB /\ part[0] = 0
  BY AliasObjs, SizeAssumption DEF IInv, TypeOK, Phase, Busy, SubSign, result, Index
<1>2. size[result] - 1 = nl
  BY <1>1
<1>3. /\ cell' = [cell EXCEPT ![result][nl] = 0]
      /\ neg' = [neg EXCEPT ![result] = (negA # (inverted # swapped))]
      /\ pc' = "cleanup"
      /\ UNCHANGED <<size, i, c, inverted, digs, size0, sumL, sumS, part, pos, alias, negA,
                     negB, swapped, nl, ns>>
  BY <1>2 DEF SubSign, call, ghosts
<1>4. 0 \in Digit
  BY BAssumption DEF Digit
<1>5. cell' \in [Objs -> [Index -> Digit]]
  BY <1>1, <1>3, <1>4 DEF IInv, TypeOK
<1>6. neg' \in [Objs -> BOOLEAN]
  BY <1>1, <1>3 DEF IInv, TypeOK
<1>7. TypeOK'
  BY <1>3, <1>5, <1>6 DEF IInv, TypeOK
<1>8. Phase' /\ Unread' /\ Written' /\ Conservation' /\ Bounds' /\ Outcome' /\ LoopsExact'
  BY <1>1, <1>3 DEF Phase, Unread, UnreadIntact, Written, Conservation, Bounds, Outcome,
     LoopsExact, Loop, Busy
<1>9. QED
  BY <1>7, <1>8 DEF IInv

LEMMA CleanInv == ASSUME IInv, CleanPop \/ CleanEnd PROVE IInv'
<1>1. result \in Objs /\ size[result] \in 1 .. MaxSize /\ part[0] = 0
  BY AliasObjs DEF IInv, TypeOK, Phase, result
<1>2. UNCHANGED <<cell, i, c, inverted, digs, size0, sumL, sumS, part, pos, alias, negA, negB,
                  swapped, nl, ns, sumA, sumB>>
  BY DEF CleanPop, CleanEnd, call, ghosts, sumA, sumB
<1>3. CASE CleanPop
  <2>1. size' \in [Objs -> 1 .. MaxSize]
    <3>1. size[result] - 1 \in 1 .. MaxSize
      BY <1>1, <1>3, SizeAssumption DEF CleanPop
    <3>2. QED
      BY <3>1, <1>1, <1>3 DEF CleanPop, IInv, TypeOK
  <2>2. pc = "cleanup" /\ pc' = "cleanup" /\ neg' = neg
    BY <1>3 DEF CleanPop
  <2>3. TypeOK'
    BY <1>2, <2>1, <2>2 DEF IInv, TypeOK
  <2>4. Phase' /\ Unread' /\ Written' /\ Conservation' /\ Bounds' /\ Outcome'
    BY <1>1, <1>2, <2>2 DEF Phase, Unread, UnreadIntact, Written, Conservation, Bounds,
       Outcome, Loop, Busy
  <2>5. LoopsExact'
    BY <1>2, <2>2 DEF IInv, LoopsExact
  <2>6. QED
    BY <2>3, <2>4, <2>5 DEF IInv
<1>4. CASE CleanEnd
  <2>1. neg' \in [Objs -> BOOLEAN]
    BY <1>1, <1>4 DEF CleanEnd, IInv, TypeOK
  <2>2. pc' = "done" /\ size' = size
    BY <1>4 DEF CleanEnd
  <2>3. TypeOK'
    BY <1>2, <2>1, <2>2 DEF IInv, TypeOK
  <2>4. QED
    BY <1>1, <1>2, <2>2, <2>3 DEF IInv, Phase, Unread, UnreadIntact, Written, Conservation,
       Bounds, Outcome, LoopsExact, Loop, Busy
<1>5. QED
  BY <1>3, <1>4

LEMMA StutterInv == ASSUME IInv, UNCHANGED vars PROVE IInv'
  BY DEF IInv, vars, TypeOK, Phase, Unread, UnreadIntact, Written, Conservation, Bounds,
     Outcome, LoopsExact, Loop, Busy, result, long, short, sumA, sumB

LEMMA NextInv == ASSUME ResultIsNotB, IInv, [Next]_vars PROVE IInv'
<1>1. ASSUME NEW isSub \in BOOLEAN, Call(isSub) PROVE IInv'
  BY <1>1, CallInv
<1>2. CASE AddBoth \/ AddRest \/ AddEnd
  BY <1>2, AddBothInv, AddRestInv, AddEndInv
<1>3. CASE SubBoth \/ SubRest \/ SubEnd
  BY <1>3, SubBothInv, SubRestInv, SubEndInv
<1>4. CASE Negate \/ NegateEnd \/ SubSign
  BY <1>4, NegateInv, NegateEndInv, SubSignInv
<1>5. CASE CleanPop \/ CleanEnd
  BY <1>5, CleanInv
<1>6. CASE Return \/ UNCHANGED vars
  BY <1>6, StutterInv DEF Return
<1>7. QED
  BY <1>1, <1>2, <1>3, <1>4, <1>5, <1>6 DEF Next

----------------------------------------------------------------------------
(* The whole inductive invariant holds in every reachable state, for every   *)
(* base, storage size and aliasing that keeps the result apart from b.       *)
THEOREM Inductive == ASSUME ResultIsNotB PROVE Spec => []IInv
<1>1. IInv /\ [Next]_vars => IInv'
  BY NextInv
<1>2. QED
  BY <1>1, InitInv, PTL DEF Spec

(* Type correctness: in particular the loops never leave the storage, a      *)
(* result never has size zero and the carry is never more than one.          *)
THEOREM TypeCorrect == ASSUME ResultIsNotB PROVE Spec => []TypeOK
<1>1. IInv => TypeOK
  BY DEF IInv
<1>2. QED
  BY <1>1, Inductive, PTL

(* No operand digit is overwritten before it is read, so add(a, a, b),       *)
(* sub(a, a, b), add(r, a, a) and sub(r, a, a) may work in place.            *)
THEOREM InPlaceSafe == ASSUME ResultIsNotB PROVE Spec => []UnreadIntact
<1>1. IInv => UnreadIntact
  BY DEF IInv, Unread
<1>2. QED
  BY <1>1, Inductive, PTL

(* The assert() calls of the addition and subtraction code never fail, the   *)
(* one that expects a carry out of _negate_twos_complement included.         *)
THEOREM AssertionsHold == ASSUME ResultIsNotB PROVE Spec => []AssertsHold
<1>1. IInv => AssertsHold
  <2> SUFFICES ASSUME IInv PROVE AssertsHold
    OBVIOUS
  <2>1. pc \in Busy => ns <= nl /\ size[result] = nl + 1 /\ nl \in 0 .. MaxSize
    BY DEF IInv, TypeOK, Phase
  <2>2. pc = "negate" /\ i = size[result] - 1 => c = 1
    BY <2>1, NegateCarry DEF Busy
  <2>3. QED
    BY <2>1, <2>2 DEF AssertsHold, Busy
<1>2. QED
  BY <1>1, Inductive, PTL

(* Every loop iteration conserves the sum or difference of the operands.     *)
THEOREM LoopsConserve == ASSUME ResultIsNotB PROVE Spec => []Conservation
<1>1. IInv => Conservation
  BY DEF IInv
<1>2. QED
  BY <1>1, Inductive, PTL

(* When the loops have ended, the digits they wrote, with the sign computed  *)
(* from underflow and swap, stand exactly for |a| + |b| or |a| - |b|.        *)
THEOREM LoopsCorrect == ASSUME ResultIsNotB PROVE Spec => []LoopsExact
<1>1. IInv => LoopsExact
  BY DEF IInv
<1>2. QED
  BY <1>1, Inductive, PTL

----------------------------------------------------------------------------
(* Second part: what the digits stand for.  IInv speaks of the history        *)
(* variables only; VInv, inductive relative to it, ties them to the digits    *)
(* of the operands at the call and to those of result.                        *)

(* Which digits the sums stand for, and what the call has put into result.   *)
Called ==
    pc # "call" =>
        /\ size0[long] = nl /\ size0[short] = ns
        /\ nl \in 1 .. MaxSize - 1 /\ ns \in 1 .. nl

SumsRead ==
    /\ pc \in Loop => /\ sumL = Value(digs[long], i)
                      /\ sumS = Value(digs[short], IF i <= ns THEN i ELSE ns)
    /\ pc \in {"negate", "sign"} => sumL = Before(long) /\ sumS = Before(short)

DigitsWritten ==
    /\ pc \in Loop => part[i] = Value(cell[result], i)
    /\ pc = "negate" => pos = Value(cell[result], i)
    /\ pc = "sign" => (IF inverted THEN pos ELSE part[nl]) = Value(cell[result], nl)

Held ==
    pc \in {"cleanup", "done"} =>
        Sgn(neg[result]) * Value(cell[result], size[result])
            = Sgn(negA) * Before(alias[2]) + Sgn(negB) * Before(alias[3])

Clean == pc = "done" => Canonical(cell[result], size[result], neg[result])

VInv == Called /\ SumsRead /\ DigitsWritten /\ Held /\ Clean

LEMMA CallValue ==
    ASSUME IInv, ResultIsNotB, NEW isSub \in BOOLEAN, Call(isSub)
    PROVE  VInv'
<1> DEFINE r == alias[1]  a == alias[2]  b == alias[3]
<1>1. r \in Objs /\ a \in Objs /\ b \in Objs /\ r # b
  BY AliasObjs DEF IInv, TypeOK, ResultIsNotB
<1>2. /\ size[a] \in 1 .. MaxSize - 1 /\ size[b] \in 1 .. MaxSize - 1
      /\ digs = cell /\ size0 = size /\ i = 0 /\ sumL = 0 /\ sumS = 0 /\ part[0] = 0
  BY <1>1, SizeAssumption DEF IInv, TypeOK, Phase, Call
<1>3. [size EXCEPT ![r] = MaxOf(size[a], size[b]) + 1][b] = size[b]
  BY <1>1 DEF IInv, TypeOK
<1>4. /\ nl' = MaxOf(size[a], size[b])
      /\ ns' = (IF size[b] > size[a] THEN size[a] ELSE size[b])
      /\ swapped' = (size[b] > size[a])
      /\ pc' \in Loop
      /\ UNCHANGED <<cell, alias, i, digs, size0, sumL, sumS, part>>
  BY <1>3 DEF Call, ghosts, Loop
<1>5. Called'
  <2>1. CASE size[b] > size[a]
    <3>1. nl' = size[b] /\ ns' = size[a]
      BY <2>1, <1>2, <1>4, SizeAssumption DEF MaxOf
    <3>2. swapped'
      BY <2>1, <1>4
    <3>3. size0'[long'] = size[b] /\ size0'[short'] = size[a]
      BY <3>2, <1>2, <1>4 DEF long, short
    <3>4. QED
      BY <2>1, <3>1, <3>3, <1>2, SizeAssumption DEF Called
  <2>2. CASE ~(size[b] > size[a])
    <3>1. nl' = size[a] /\ ns' = size[b]
      BY <2>2, <1>2, <1>4, SizeAssumption DEF MaxOf
    <3>2. ~swapped'
      BY <2>2, <1>4
    <3>3. size0'[long'] = size[a] /\ size0'[short'] = size[b]
      BY <3>2, <1>2, <1>4 DEF long, short
    <3>4. QED
      BY <2>2, <3>1, <3>3, <1>2, SizeAssumption DEF Called
  <2>3. QED
    BY <2>1, <2>2
<1>6. /\ digs'[long'] \in [Index -> Digit] /\ digs'[short'] \in [Index -> Digit]
      /\ cell'[result'] \in [Index -> Digit]
  BY <1>1, <1>4 DEF IInv, TypeOK, long, short, result
<1>7. i' <= ns'
  BY <1>2, <1>4
<1>8. SumsRead' /\ DigitsWritten'
  <2>1. Value(digs'[long'], 0) = 0 /\ Value(digs'[short'], 0) = 0 /\ Value(cell'[result'], 0) = 0
    BY <1>6, ValueZero
  <2>2. i' = 0 /\ sumL' = 0 /\ sumS' = 0 /\ part'[i'] = 0 /\ pc' \notin {"negate", "sign"}
    BY <1>2, <1>4 DEF Loop
  <2>3. QED
    BY <2>1, <2>2, <1>7 DEF SumsRead, DigitsWritten
<1>9. Held' /\ Clean'
  BY <1>4 DEF Held, Clean, Loop
<1>10. QED
  BY <1>5, <1>8, <1>9 DEF VInv

(* Every loop step reads the digit i of the operands of the call and extends *)
(* the value of result by the digit it stores.                               *)
LEMMA LoopValue ==
    ASSUME IInv, VInv, pc \in Loop, i < nl, NEW d \in Digit, NEW k \in Carry, Store(d, k),
           sumS' \in Int,
           sumS' = IF i < ns THEN sumS + S * Pow[i] ELSE sumS
    PROVE  VInv'
<1>1. /\ TypeOK' /\ pc' = pc
      /\ i \in 0 .. MaxSize - 1
      /\ long \in Objs /\ short \in Objs /\ result \in Objs
      /\ L \in Digit /\ S \in Digit
      /\ i' = i + 1
      /\ part'[i + 1] = part[i] + d * Pow[i]
      /\ sumL' = sumL + L * Pow[i]
      /\ cell'[result][i] = d
      /\ \A o \in Objs, j \in Index : j # i => cell'[o][j] = cell[o][j]
      /\ UNCHANGED <<result, long, short, nl, ns>>
  BY StoreStep
<1>2. UNCHANGED <<digs, size0>>
  BY DEF Store
<1>3. /\ cell \in [Objs -> [Index -> Digit]] /\ cell' \in [Objs -> [Index -> Digit]]
      /\ digs \in [Objs -> [Index -> Digit]]
  BY <1>1 DEF IInv, TypeOK
<1>4. pc # "call" /\ pc \notin {"negate", "sign", "cleanup", "done"} /\ pc \in {"add", "sub"}
  BY DEF Loop
<1>5. Called /\ nl \in 1 .. MaxSize - 1 /\ ns \in 1 .. nl
  BY <1>4 DEF VInv, Called
<1>6. Called'
  BY <1>1, <1>2, <1>5 DEF Called
<1>7. i \in Index /\ cell[long][i] = digs[long][i] /\ (i < ns => cell[short][i] = digs[short][i])
  BY <1>1, <1>4, SizeAssumption DEF IInv, Unread, UnreadIntact, Index
<1>8. sumL' = Value(digs[long], i + 1)
  <2>1. sumL = Value(digs[long], i)
    BY DEF VInv, SumsRead
  <2>2. Value(digs[long], i + 1) = Value(digs[long], i) + digs[long][i] * Pow[i]
    BY <1>1, <1>3, ValueStep
  <2>3. QED
    BY <2>1, <2>2, <1>1, <1>7 DEF L
<1>9. sumS' = Value(digs[short], IF i + 1 <= ns THEN i + 1 ELSE ns)
  <2>1. sumS = Value(digs[short], IF i <= ns THEN i ELSE ns)
    BY DEF VInv, SumsRead
  <2>2. CASE i < ns
    <3>1. Value(digs[short], i + 1) = Value(digs[short], i) + digs[short][i] * Pow[i]
      BY <1>1, <1>3, ValueStep
    <3>2. sumS' = sumS + S * Pow[i] /\ S = digs[short][i]
      BY <2>2, <1>7 DEF S
    <3>3. i <= ns /\ i + 1 <= ns
      BY <2>2, <1>1, <1>5
    <3>4. QED
      BY <2>1, <3>1, <3>2, <3>3
  <2>3. CASE ~(i < ns)
    <3>1. (IF i <= ns THEN i ELSE ns) = ns /\ ~(i + 1 <= ns)
      BY <2>3, <1>1, <1>5
    <3>2. QED
      BY <2>1, <2>3, <3>1
  <2>4. QED
    BY <2>2, <2>3
<1>10. SumsRead'
  BY <1>1, <1>2, <1>4, <1>8, <1>9 DEF SumsRead
<1>11. part'[i + 1] = Value(cell'[result], i + 1)
  <2>1. part[i] = Value(cell[result], i)
    BY DEF VInv, DigitsWritten
  <2>2. Value(cell'[result], i + 1) = Value(cell'[result], i) + d * Pow[i]
    BY <1>1, <1>3, ValueStep
  <2>3. \A j \in 0 .. i - 1 : cell[result][j] = cell'[result][j]
    BY <1>1, SizeAssumption DEF Index
  <2>4. Value(cell[result], i) = Value(cell'[result], i)
    <3>1. cell[result] \in [Index -> Digit] /\ cell'[result] \in [Index -> Digit] /\ i \in 0 .. MaxSize
      BY <1>1, <1>3, SizeAssumption
    <3>2. QED
      BY <2>3, <3>1, ValueSame
  <2>5. QED
    BY <2>1, <2>2, <2>4, <1>1
<1>12. DigitsWritten'
  BY <1>1, <1>4, <1>11 DEF DigitsWritten
<1>13. Held' /\ Clean'
  BY <1>1, <1>4 DEF Held, Clean
<1>14. QED
  BY <1>6, <1>10, <1>12, <1>13 DEF VInv

LEMMA LoopsValue ==
    ASSUME IInv, VInv, AddBoth \/ AddRest \/ SubBoth \/ SubRest
    PROVE  VInv'
<1>1. /\ pc \in Loop /\ c \in Carry /\ i \in 0 .. MaxSize /\ ns \in 0 .. MaxSize
      /\ nl \in 0 .. MaxSize /\ ns <= nl /\ sumS \in Int
  BY DEF IInv, TypeOK, Phase, Busy, Loop, AddBoth, AddRest, SubBoth, SubRest
<1>2. i < nl
  BY <1>1 DEF AddBoth, AddRest, SubBoth, SubRest
<1>3. L \in Digit /\ S \in Digit /\ i \in 0 .. MaxSize - 1
  BY <1>1, <1>2, LoopDigits
<1>4. S * Pow[i] \in Int
  BY <1>3, PowStep, DigitTimesWeight
<1>5. CASE AddBoth
  <2>1. i < ns /\ sumS' = sumS + S * Pow[i] /\ Store(AddDigit(L, S, c), AddCarry(L, S, c))
    BY <1>5 DEF AddBoth
  <2>2. sumS' \in Int
    BY <2>1, <1>1, <1>4
  <2>3. QED
    BY <2>1, <2>2, <1>1, <1>2, <1>3, AddStepExact, LoopValue
<1>6. CASE SubBoth
  <2>1. i < ns /\ sumS' = sumS + S * Pow[i] /\ Store(SubDigit(L, S, c), SubBorrow(L, S, c))
    BY <1>6 DEF SubBoth
  <2>2. sumS' \in Int
    BY <2>1, <1>1, <1>4
  <2>3. QED
    BY <2>1, <2>2, <1>1, <1>2, <1>3, SubStepExact, LoopValue
<1>7. CASE AddRest
  <2>1. ~(i < ns) /\ sumS' = sumS /\ Store(IncDigit(L, c), IncCarry(L, c))
    BY <1>7, <1>1 DEF AddRest
  <2>2. QED
    BY <2>1, <1>1, <1>2, <1>3, IncStepExact, LoopValue
<1>8. CASE SubRest
  <2>1. ~(i < ns) /\ sumS' = sumS /\ Store(DecDigit(L, c), DecBorrow(L, c))
    BY <1>8, <1>1 DEF SubRest
  <2>2. QED
    BY <2>1, <1>1, <1>2, <1>3, DecStepExact, LoopValue
<1>9. QED
  BY <1>5, <1>6, <1>7, <1>8

(* What both sums are when a loop has ended.                                 *)
LEMMA SumsAtEnd ==
    ASSUME IInv, VInv, pc \in Loop, i = nl
    PROVE  sumL = Before(long) /\ sumS = Before(short)
<1>1. size0[long] = nl /\ size0[short] = ns /\ nl \in 1 .. MaxSize - 1 /\ ns \in 1 .. nl
  BY DEF VInv, Called, Loop
<1>2. (IF i <= ns THEN i ELSE ns) = ns
  BY <1>1, SizeAssumption
<1>3. sumL = Value(digs[long], nl) /\ sumS = Value(digs[short], ns)
  BY <1>2 DEF VInv, SumsRead
<1>4. QED
  BY <1>1, <1>3 DEF Before

(* The top digit v that is stored last.                                      *)
LEMMA TopValue ==
    ASSUME IInv, nl \in 0 .. MaxSize - 1, result \in Objs, size[result] = nl + 1,
           NEW v \in Digit, cell' = [cell EXCEPT ![result][nl] = v]
    PROVE  Value(cell'[result], size[result]) = Value(cell[result], nl) + v * Pow[nl]
<1>1. nl \in Index /\ nl \in 0 .. MaxSize
  BY SizeAssumption DEF Index
<1>2. cell[result] \in [Index -> Digit] /\ cell'[result] = [cell[result] EXCEPT ![nl] = v]
  BY DEF IInv, TypeOK
<1>3. cell'[result] \in [Index -> Digit] /\ cell'[result][nl] = v
  BY <1>1, <1>2
<1>4. \A j \in 0 .. nl - 1 : cell[result][j] = cell'[result][j]
  BY <1>1, <1>2, SizeAssumption DEF Index
<1>5. Value(cell[result], nl) = Value(cell'[result], nl)
  BY <1>1, <1>2, <1>3, <1>4, ValueSame
<1>6. QED
  BY <1>3, <1>5, ValueStep

LEMMA BeforeInt ==
    ASSUME IInv, NEW o \in Objs
    PROVE  Before(o) \in Nat
  BY ValueNat, SizeAssumption DEF IInv, TypeOK, Before

LEMMA AddEndValue == ASSUME IInv, VInv, AddEnd PROVE VInv'
<1>1. pc = "add" /\ pc \in Loop /\ pc # "call" /\ i = nl /\ negA = negB
  BY DEF AddEnd, Loop, IInv, Phase
<1>2. /\ nl \in 1 .. MaxSize - 1 /\ nl \in 0 .. MaxSize - 1 /\ size[result] = nl + 1
      /\ result \in Objs /\ c \in Carry /\ c \in Digit
      /\ alias[2] \in Objs /\ alias[3] \in Objs /\ negA \in BOOLEAN
  BY <1>1, AliasObjs, CarryIsDigit, SizeAssumption
     DEF IInv, TypeOK, Phase, Busy, VInv, Called, result
<1>3. size[result] - 1 = nl
  BY <1>2
<1>4. /\ cell' = [cell EXCEPT ![result][nl] = c]
      /\ neg' = [neg EXCEPT ![result] = negA]
      /\ pc' = "cleanup"
      /\ UNCHANGED <<size, digs, size0, alias, negA, negB, swapped, nl, ns, result, long, short>>
  BY <1>3 DEF AddEnd, call, result, long, short
<1>5. Value(cell'[result], size[result]) = Before(long) + Before(short)
  <2>1. Value(cell'[result], size[result]) = Value(cell[result], nl) + c * Pow[nl]
    BY <1>2, <1>4, TopValue
  <2>2. part[nl] = Value(cell[result], nl)
    BY <1>1 DEF VInv, DigitsWritten
  <2>3. part[nl] + c * Pow[nl] = sumL + sumS
    BY <1>1 DEF IInv, Conservation
  <2>4. QED
    BY <2>1, <2>2, <2>3, <1>1, SumsAtEnd
<1>6. Before(long) + Before(short) = Before(alias[2]) + Before(alias[3])
  BY <1>2, BeforeInt DEF long, short
<1>7. neg'[result] = negA
  BY <1>2, <1>4 DEF IInv, TypeOK
<1>8. Held'
  <2>1. ASSUME NEW s \in {1, 0 - 1}, NEW m \in Int, NEW n \in Int PROVE s * (m + n) = s * m + s * n
    OBVIOUS
  <2>2. Before(alias[2]) \in Int /\ Before(alias[3]) \in Int /\ Sgn(negA) \in {1, 0 - 1}
    BY <1>2, BeforeInt DEF Sgn
  <2>3. Sgn(negA) * (Before(alias[2]) + Before(alias[3]))
            = Sgn(negA) * Before(alias[2]) + Sgn(negB) * Before(alias[3])
    BY <2>1, <2>2, <1>1
  <2>4. Before(alias[2])' = Before(alias[2]) /\ Before(alias[3])' = Before(alias[3])
    BY <1>4 DEF Before
  <2>5. QED
    BY <2>3, <2>4, <1>4, <1>5, <1>6, <1>7 DEF Held
<1>9. Called'
  BY <1>1, <1>4 DEF VInv, Called
<1>10. SumsRead' /\ DigitsWritten' /\ Clean'
  BY <1>4 DEF SumsRead, DigitsWritten, Clean, Loop
<1>11. QED
  BY <1>8, <1>9, <1>10 DEF VInv

LEMMA SubEndValue == ASSUME IInv, VInv, SubEnd PROVE VInv'
<1>1. pc = "sub" /\ pc \in Loop /\ pc # "call" /\ i = nl /\ c \in Carry
  BY DEF SubEnd, Loop, IInv, TypeOK
<1>2. /\ inverted' = (c = 1) /\ pc' = IF c = 1 THEN "negate" ELSE "sign"
      /\ i' = 0
      /\ UNCHANGED <<cell, digs, size0, sumL, sumS, part, pos, nl, ns, result, long, short, alias>>
  BY DEF SubEnd, call, ghosts, result, long, short
<1>3. result \in Objs /\ cell[result] \in [Index -> Digit] /\ pos = 0
  BY <1>1, AliasObjs DEF IInv, TypeOK, Phase, result
<1>4. Called'
  BY <1>1, <1>2 DEF VInv, Called
<1>5. SumsRead'
  <2>1. sumL = Before(long) /\ sumS = Before(short)
    BY <1>1, SumsAtEnd
  <2>2. QED
    BY <2>1, <1>2 DEF SumsRead, Before, Loop
<1>6. DigitsWritten'
  <2>1. part[nl] = Value(cell[result], nl)
    BY <1>1 DEF VInv, DigitsWritten
  <2>2. Value(cell[result], 0) = 0
    BY <1>3, ValueZero
  <2>3. QED
    BY <2>1, <2>2, <1>2, <1>3 DEF DigitsWritten, Loop
<1>7. Held' /\ Clean'
  BY <1>2 DEF Held, Clean
<1>8. QED
  BY <1>4, <1>5, <1>6, <1>7 DEF VInv

LEMMA NegateValue == ASSUME IInv, VInv, Negate PROVE VInv'
<1> DEFINE d == NegDigit(cell[result][i], c)
<1>1. /\ pc = "negate" /\ i \in 0 .. MaxSize - 1 /\ i \in Index /\ result \in Objs /\ c \in Carry
      /\ i \in 0 .. MaxSize
  <2>1. nl \in 0 .. MaxSize /\ nl <= MaxSize - 1 /\ i \in 0 .. MaxSize /\ c \in Carry
        /\ pc = "negate" /\ size[result] = nl + 1 /\ i < size[result] - 1 /\ result \in Objs
    BY AliasObjs DEF IInv, TypeOK, Phase, Busy, Negate, result
  <2>2. QED
    BY <2>1, SizeAssumption DEF Index
<1>2. cell[result] \in [Index -> Digit] /\ cell[result][i] \in Digit
  BY <1>1 DEF IInv, TypeOK
<1>3. d \in Digit
  BY <1>1, <1>2, NegStepExact
<1>4. /\ cell' = [cell EXCEPT ![result][i] = d] /\ i' = i + 1
      /\ pos' = pos + d * Pow[i]
      /\ UNCHANGED <<pc, digs, size0, sumL, sumS, nl, ns, result, long, short, alias>>
  BY DEF Negate, call, result, long, short
<1> HIDE DEF d
<1>5. cell'[result] = [cell[result] EXCEPT ![i] = d]
  BY <1>1, <1>4 DEF IInv, TypeOK
<1>6. cell'[result] \in [Index -> Digit] /\ cell'[result][i] = d
  BY <1>1, <1>2, <1>3, <1>5
<1>7. \A j \in 0 .. i - 1 : cell[result][j] = cell'[result][j]
  BY <1>1, <1>2, <1>5, SizeAssumption DEF Index
<1>8. Value(cell[result], i) = Value(cell'[result], i)
  BY <1>1, <1>2, <1>6, <1>7, ValueSame
<1>9. Value(cell'[result], i + 1) = Value(cell'[result], i) + d * Pow[i]
  BY <1>1, <1>6, ValueStep
<1>10. pos = Value(cell[result], i)
  BY <1>1 DEF VInv, DigitsWritten
<1>11. DigitsWritten'
  BY <1>1, <1>4, <1>8, <1>9, <1>10 DEF DigitsWritten, Loop
<1>12. Called' /\ SumsRead'
  BY <1>1, <1>4 DEF VInv, Called, SumsRead, Before, Loop
<1>13. Held' /\ Clean'
  BY <1>1, <1>4 DEF Held, Clean
<1>14. QED
  BY <1>11, <1>12, <1>13 DEF VInv

LEMMA NegateEndValue == ASSUME IInv, VInv, NegateEnd PROVE VInv'
<1>1. pc = "negate" /\ i = nl /\ inverted
  BY DEF NegateEnd, IInv, TypeOK, Phase, Busy
<1>2. /\ pc' = "sign"
      /\ UNCHANGED <<cell, inverted, digs, size0, sumL, sumS, part, pos, nl, ns, result, long, short, alias>>
  BY DEF NegateEnd, call, ghosts, result, long, short
<1>3. Called' /\ SumsRead' /\ DigitsWritten'
  BY <1>1, <1>2 DEF VInv, Called, SumsRead, DigitsWritten, Before, Loop
<1>4. Held' /\ Clean'
  BY <1>2 DEF Held, Clean
<1>5. QED
  BY <1>3, <1>4 DEF VInv

(* How _private::add composes the signs of a difference.                     *)
LEMMA SignsCompose ==
    ASSUME NEW s \in BOOLEAN, NEW t \in BOOLEAN, NEW m \in Int, NEW x \in Int, NEW y \in Int,
           Sgn(t) * m = x - y
    PROVE  Sgn(s # t) * m = Sgn(s) * x + Sgn(~s) * y
<1>1. CASE s /\ t
  <2>1. Sgn(s # t) = 1 /\ Sgn(s) = 0 - 1 /\ Sgn(~s) = 1 /\ Sgn(t) = 0 - 1
    BY <1>1 DEF Sgn
  <2>2. QED
    BY <2>1
<1>2. CASE s /\ ~t
  <2>1. Sgn(s # t) = 0 - 1 /\ Sgn(s) = 0 - 1 /\ Sgn(~s) = 1 /\ Sgn(t) = 1
    BY <1>2 DEF Sgn
  <2>2. QED
    BY <2>1
<1>3. CASE ~s /\ t
  <2>1. Sgn(s # t) = 0 - 1 /\ Sgn(s) = 1 /\ Sgn(~s) = 0 - 1 /\ Sgn(t) = 0 - 1
    BY <1>3 DEF Sgn
  <2>2. QED
    BY <2>1
<1>4. CASE ~s /\ ~t
  <2>1. Sgn(s # t) = 1 /\ Sgn(s) = 1 /\ Sgn(~s) = 0 - 1 /\ Sgn(t) = 1
    BY <1>4 DEF Sgn
  <2>2. QED
    BY <2>1
<1>5. QED
  BY <1>1, <1>2, <1>3, <1>4

LEMMA SubSignValue == ASSUME IInv, VInv, SubSign PROVE VInv'
<1> DEFINE m == Value(cell[result], nl)
<1>1. /\ pc = "sign" /\ pc # "call" /\ nl \in 0 .. MaxSize - 1 /\ size[result] = nl + 1
      /\ result \in Objs /\ alias[2] \in Objs /\ alias[3] \in Objs
      /\ negA \in BOOLEAN /\ negB \in BOOLEAN /\ negA # negB
      /\ inverted \in BOOLEAN /\ swapped \in BOOLEAN /\ 0 \in Digit
  BY AliasObjs, SizeAssumption, BAssumption DEF IInv, TypeOK, Phase, Busy, SubSign, result, Digit
<1>2. size[result] - 1 = nl
  BY <1>1
<1>3. /\ cell' = [cell EXCEPT ![result][nl] = 0]
      /\ neg' = [neg EXCEPT ![result] = (negA # (inverted # swapped))]
      /\ pc' = "cleanup"
      /\ UNCHANGED <<size, digs, size0, alias, negA, negB, swapped, nl, ns, result, long, short>>
  BY <1>2 DEF SubSign, call, ghosts, result, long, short
<1>4. m \in Int
  <2>1. cell[result] \in [Index -> Digit] /\ nl \in 0 .. MaxSize
    BY <1>1, SizeAssumption DEF IInv, TypeOK
  <2>2. QED
    BY <2>1, ValueNat
<1>5. Value(cell'[result], size[result]) = m
  <2>1. Value(cell'[result], size[result]) = m + 0 * Pow[nl]
    BY <1>1, <1>3, TopValue
  <2>2. 0 * Pow[nl] = 0
    BY <1>1, PowStep
  <2> HIDE DEF m
  <2>3. QED
    BY <2>1, <2>2, <1>4
<1>6. Sgn(inverted # swapped) * m = Before(alias[2]) - Before(alias[3])
  <2>1. Sgn(inverted # swapped) * (IF inverted THEN pos ELSE part[nl]) = sumA - sumB
    BY <1>1 DEF IInv, LoopsExact
  <2>2. (IF inverted THEN pos ELSE part[nl]) = m
    BY <1>1 DEF VInv, DigitsWritten
  <2>3. sumL = Before(long) /\ sumS = Before(short)
    BY <1>1 DEF VInv, SumsRead
  <2>4. sumA = Before(alias[2]) /\ sumB = Before(alias[3])
    BY <2>3 DEF sumA, sumB, long, short
  <2> HIDE DEF m
  <2>5. QED
    BY <2>1, <2>2, <2>4
<1> HIDE DEF m
<1>7. Before(alias[2]) \in Int /\ Before(alias[3]) \in Int
  BY <1>1, BeforeInt
<1>8. Sgn(negA # (inverted # swapped)) * m
         = Sgn(negA) * Before(alias[2]) + Sgn(negB) * Before(alias[3])
  <2>1. (inverted # swapped) \in BOOLEAN /\ negB = ~negA
    BY <1>1
  <2>2. Sgn(negA # (inverted # swapped)) * m
           = Sgn(negA) * Before(alias[2]) + Sgn(~negA) * Before(alias[3])
    <3> DEFINE t == inverted # swapped
    <3>1. Sgn(t) * m = Before(alias[2]) - Before(alias[3])
      BY <1>6
    <3> HIDE DEF t
    <3>2. t \in BOOLEAN
      BY <2>1 DEF t
    <3>3. Sgn(negA # t) * m = Sgn(negA) * Before(alias[2]) + Sgn(~negA) * Before(alias[3])
      BY <3>1, <3>2, <1>1, <1>4, <1>7, SignsCompose
    <3>4. QED
      BY <3>3 DEF t
  <2>3. QED
    BY <2>1, <2>2
<1>9. neg'[result] = (negA # (inverted # swapped))
  BY <1>1, <1>3 DEF IInv, TypeOK
<1>10. Held'
  <2>1. Before(alias[2])' = Before(alias[2]) /\ Before(alias[3])' = Before(alias[3])
    BY <1>3 DEF Before
  <2>2. QED
    BY <2>1, <1>3, <1>5, <1>8, <1>9 DEF Held
<1>11. Called'
  BY <1>1, <1>3 DEF VInv, Called
<1>12. SumsRead' /\ DigitsWritten' /\ Clean'
  BY <1>3 DEF SumsRead, DigitsWritten, Clean, Loop
<1>13. QED
  BY <1>10, <1>11, <1>12 DEF VInv

LEMMA CleanPopValue == ASSUME IInv, VInv, CleanPop PROVE VInv'
<1> DEFINE n == size[result]
<1>1. /\ pc = "cleanup" /\ pc' = "cleanup" /\ n > 1 /\ n \in 1 .. MaxSize /\ result \in Objs
      /\ cell[result][n - 1] = 0 /\ cell[result] \in [Index -> Digit]
      /\ size' = [size EXCEPT ![result] = n - 1]
      /\ UNCHANGED <<cell, neg, digs, size0, alias, negA, negB, nl, ns, result, long, short>>
  BY AliasObjs DEF CleanPop, IInv, TypeOK, result, call, ghosts, long, short
<1>2. size'[result] = n - 1
  BY <1>1 DEF IInv, TypeOK
<1>3. Value(cell[result], n) = Value(cell[result], n - 1)
  <2>1. n - 1 \in 0 .. MaxSize - 1 /\ (n - 1) + 1 = n /\ n - 1 \in 0 .. MaxSize
    BY <1>1, SizeAssumption
  <2>2. Value(cell[result], n) = Value(cell[result], n - 1) + 0 * Pow[n - 1]
    BY <1>1, <2>1, ValueStep
  <2>3. 0 * Pow[n - 1] = 0 /\ Value(cell[result], n - 1) \in Int
    BY <1>1, <2>1, PowStep, ValueNat
  <2>4. QED
    BY <2>2, <2>3
<1>4. Held'
  <2>1. Before(alias[2])' = Before(alias[2]) /\ Before(alias[3])' = Before(alias[3])
    BY <1>1 DEF Before
  <2>2. QED
    BY <2>1, <1>1, <1>2, <1>3 DEF VInv, Held
<1>5. Called' /\ SumsRead' /\ DigitsWritten' /\ Clean'
  BY <1>1 DEF VInv, Called, SumsRead, DigitsWritten, Clean, Loop
<1>6. QED
  BY <1>4, <1>5 DEF VInv

LEMMA CleanEndValue == ASSUME IInv, VInv, CleanEnd PROVE VInv'
<1> DEFINE n == size[result]
           zero == n = 1 /\ cell[result][0] = 0
<1>1. /\ pc = "cleanup" /\ pc' = "done" /\ n \in 1 .. MaxSize /\ result \in Objs
      /\ n = 1 \/ cell[result][n - 1] # 0
      /\ cell[result] \in [Index -> Digit] /\ neg[result] \in BOOLEAN
      /\ neg' = [neg EXCEPT ![result] = @ /\ ~zero]
      /\ UNCHANGED <<cell, size, digs, size0, alias, negA, negB, nl, ns, result, long, short>>
  BY AliasObjs DEF CleanEnd, IInv, TypeOK, result, call, ghosts, long, short
<1>2. neg'[result] = (neg[result] /\ ~zero)
  BY <1>1 DEF IInv, TypeOK
<1>3. Sgn(neg'[result]) * Value(cell[result], n) = Sgn(neg[result]) * Value(cell[result], n)
  <2>1. CASE zero
    <3>1. Value(cell[result], 0 + 1) = Value(cell[result], 0) + cell[result][0] * Pow[0]
      BY <1>1, ValueStep, SizeAssumption
    <3>2. Value(cell[result], n) = 0
      BY <3>1, <2>1, <1>1, ValueZero, PowAssumption
    <3>3. QED
      BY <3>2 DEF Sgn
  <2>2. CASE ~zero
    BY <2>2, <1>1, <1>2
  <2>3. QED
    BY <2>1, <2>2
<1>4. Held'
  <2>1. Before(alias[2])' = Before(alias[2]) /\ Before(alias[3])' = Before(alias[3])
    BY <1>1 DEF Before
  <2>2. QED
    BY <2>1, <1>1, <1>3 DEF VInv, Held
<1>5. Clean'
  <2>1. n > 1 => cell[result][n - 1] # 0
    BY <1>1
  <2>2. zero => ~neg'[result]
    BY <1>2
  <2>3. Canonical(cell[result], n, neg'[result])
    BY <2>1, <2>2 DEF Canonical
  <2>4. QED
    BY <2>3, <1>1 DEF Clean
<1>6. Called' /\ SumsRead' /\ DigitsWritten'
  BY <1>1 DEF VInv, Called, SumsRead, DigitsWritten, Loop
<1>7. QED
  BY <1>4, <1>5, <1>6 DEF VInv

LEMMA StutterValue == ASSUME VInv, UNCHANGED vars PROVE VInv'
  BY DEF vars, VInv, Called, SumsRead, DigitsWritten, Held, Clean, Loop, Before, result, long, short

LEMMA InitValue == Init => VInv
  BY DEF Init, VInv, Called, SumsRead, DigitsWritten, Held, Clean, Loop

LEMMA NextValue == ASSUME ResultIsNotB, IInv, VInv, [Next]_vars PROVE VInv'
<1>1. ASSUME NEW isSub \in BOOLEAN, Call(isSub) PROVE VInv'
  BY <1>1, CallValue
<1>2. CASE AddBoth \/ AddRest \/ SubBoth \/ SubRest
  BY <1>2, LoopsValue
<1>3. CASE AddEnd \/ SubEnd
  BY <1>3, AddEndValue, SubEndValue
<1>4. CASE Negate \/ NegateEnd \/ SubSign
  BY <1>4, NegateValue, NegateEndValue, SubSignValue
<1>5. CASE CleanPop \/ CleanEnd
  BY <1>5, CleanPopValue, CleanEndValue
<1>6. CASE Return \/ UNCHANGED vars
  BY <1>6, StutterValue DEF Return
<1>7. QED
  BY <1>1, <1>2, <1>3, <1>4, <1>5, <1>6 DEF Next

(* What add and sub promise: the canonical sum or difference of the values   *)
(* the operands had at the call, in place or not.                            *)
THEOREM SumExact == ASSUME ResultIsNotB PROVE Spec => []ResultExact
<1>1. IInv /\ VInv /\ [Next]_vars => VInv'
  BY NextValue
<1>2. VInv => ResultExact
  BY DEF VInv, Held, Clean, ResultExact
<1>3. QED
  BY <1>1, <1>2, InitValue, Inductive, PTL DEF Spec
=============================================================================
