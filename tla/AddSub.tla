------------------------------- MODULE AddSub -------------------------------
(* One call of add(result, a, b) or sub(result, a, b) of bigInt.h, one loop *)
(* iteration per step.  The three parameters are C++ references, so they    *)
(* may name the same object: "alias" says which objects they name, and the  *)
(* loops read and write the storage of those objects in place.              *)
(*                                                                          *)
(* cell[o] is the storage of object o, the cells past its size included:    *)
(* fast_vector::resize does not initialise what it adds, and pop_back       *)
(* leaves the old digit behind.  MaxSize bounds the storage.                *)
(*                                                                          *)
(* History variables, read by no guard: digs, size0 (cells and sizes at the *)
(* call), sumL, sumS (value of the digits read so far), part (part[k] =     *)
(* value of the k low digits written by the add or subtract loop), pos      *)
(* (value of the digits negated so far).                                    *)
EXTENDS Places, FiniteSets

CONSTANTS Objs,         \* BigInt objects
          Aliasings     \* <<result, a, b>> triples the callers use

ASSUME SizeAssumption == MaxSize \in Nat /\ MaxSize >= 2
ASSUME AliasAssumption == Aliasings \subseteq Objs \X Objs \X Objs

VARIABLES
    cell,     \* [Objs -> [cell index -> Digit]]
    size,     \* [Objs -> size]
    neg,      \* [Objs -> BOOLEAN], the _sign members
    pc,
    alias,    \* the objects result, a and b name
    negA, negB,       \* a_sign, b_sign (b_sign negated by sub)
    swapped,          \* the span swap of add_ignore_sign, sub_ignore_sign
    nl, ns,           \* sizes of the longer and the shorter span
    i, c,             \* loop counter and carry
    inverted,         \* result of _sub_ignore_sign: it underflowed
    digs, size0, sumL, sumS, part, pos

vars == <<cell, size, neg, pc, alias, negA, negB, swapped, nl, ns, i, c,
          inverted, digs, size0, sumL, sumS, part, pos>>

call    == <<alias, negA, negB, swapped, nl, ns>>
ghosts  == <<digs, size0, sumL, sumS, part, pos>>

result == alias[1]
long   == IF swapped THEN alias[3] ELSE alias[2]
short  == IF swapped THEN alias[2] ELSE alias[3]

L == cell[long][i]
S == cell[short][i]

MaxOf(x, y) == IF x >= y THEN x ELSE y

----------------------------------------------------------------------------
(* Canonical objects: what cleanup() leaves behind.                         *)
Canonical(d, n, s) ==
    /\ n > 1 => d[n - 1] # 0
    /\ n = 1 /\ d[0] = 0 => ~s

Init ==
    /\ alias \in Aliasings
    /\ cell \in [Objs -> [Index -> Digit]]
    /\ size \in [Objs -> 1 .. MaxSize - 1]
    /\ neg \in [Objs -> BOOLEAN]
    /\ \A o \in Objs : Canonical(cell[o], size[o], neg[o])
    /\ pc = "call"
    /\ negA = FALSE /\ negB = FALSE /\ swapped = FALSE /\ inverted = FALSE
    /\ nl = 0 /\ ns = 0 /\ i = 0 /\ c = 0
    /\ digs = cell /\ size0 = size
    /\ sumL = 0 /\ sumS = 0 /\ pos = 0
    /\ part = [k \in 0 .. MaxSize |-> 0]

(* add(BigInt&, a, b), sub(BigInt&, a, b) and the dispatch of               *)
(* _private::add: result.resize comes first, then a is cut back to its old  *)
(* size and b is taken as it is after the resize.                           *)
Call(isSub) ==
    LET r == alias[1]  a == alias[2]  b == alias[3]
        na == size[a]
        grown == [size EXCEPT ![r] = MaxOf(size[a], size[b]) + 1]
        nb == grown[b]
        signB == IF isSub THEN ~neg[b] ELSE neg[b]
    IN  /\ pc = "call"
        /\ size' = grown
        /\ negA' = neg[a]
        /\ negB' = signB
        /\ swapped' = (nb > na)
        /\ nl' = MaxOf(na, nb)
        /\ ns' = IF nb > na THEN na ELSE nb
        /\ pc' = IF neg[a] = signB THEN "add" ELSE "sub"
        /\ UNCHANGED <<cell, neg, alias, i, c, inverted>> /\ UNCHANGED ghosts

(* Mutated forms, used by no specification: Store one cell too high; SubEnd  *)
(* that never negates; SubSign that ignores the swap; CleanPop that pops the *)
(* last digit as well.                                                       *)
Store_shifted(digit, carry) ==
    /\ cell' = [cell EXCEPT ![result][(i + 1) % MaxSize] = digit]
    /\ c' = carry
    /\ i' = i + 1
    /\ part' = [part EXCEPT ![i + 1] = part[i] + digit * Pow[i]]
    /\ sumL' = sumL + L * Pow[i]
    /\ UNCHANGED <<size, neg, pc, inverted, digs, size0, pos>> /\ UNCHANGED call

SubEnd_unrepaired ==
    /\ pc = "sub" /\ i = nl
    /\ inverted' = (c = 1)
    /\ pc' = "sign"
    /\ i' = 0 /\ c' = 0
    /\ UNCHANGED <<cell, size, neg>> /\ UNCHANGED call /\ UNCHANGED ghosts

SubSign_unswapped ==
    /\ pc = "sign"
    /\ cell' = [cell EXCEPT ![result][size[result] - 1] = 0]
    /\ neg' = [neg EXCEPT ![result] = (negA # inverted)]
    /\ pc' = "cleanup"
    /\ UNCHANGED <<size, i, c, inverted>> /\ UNCHANGED call /\ UNCHANGED ghosts

CleanPop_all ==
    LET n == size[result]
    IN  /\ pc = "cleanup" /\ cell[result][n - 1] = 0
        /\ size' = [size EXCEPT ![result] = n - 1]
        /\ UNCHANGED <<cell, neg, pc, i, c, inverted>> /\ UNCHANGED call /\ UNCHANGED ghosts

(* Common part of the loop steps: store one digit, go to the next.          *)
Store(digit, carry) ==
    /\ cell' = [cell EXCEPT ![result][i] = digit]
    /\ c' = carry
    /\ i' = i + 1
    /\ part' = [part EXCEPT ![i + 1] = part[i] + digit * Pow[i]]
    /\ sumL' = sumL + L * Pow[i]
    /\ UNCHANGED <<size, neg, pc, inverted, digs, size0, pos>> /\ UNCHANGED call

(* _add_ignore_sign                                                         *)
AddBoth ==
    /\ pc = "add" /\ i < ns
    /\ Store(AddDigit(L, S, c), AddCarry(L, S, c))
    /\ sumS' = sumS + S * Pow[i]

AddRest ==
    /\ pc = "add" /\ ns <= i /\ i < nl
    /\ Store(IncDigit(L, c), IncCarry(L, c))
    /\ UNCHANGED sumS

(* add_ignore_sign: result.back() = c                                       *)
AddEnd ==
    /\ pc = "add" /\ i = nl
    /\ cell' = [cell EXCEPT ![result][size[result] - 1] = c]
    /\ part' = [part EXCEPT ![size[result]] = part[size[result] - 1] + c * Pow[size[result] - 1]]
    /\ neg' = [neg EXCEPT ![result] = negA]
    /\ pc' = "cleanup"
    /\ UNCHANGED <<size, i, c, inverted, digs, size0, sumL, sumS, pos>> /\ UNCHANGED call

(* _sub_ignore_sign                                                         *)
SubBoth ==
    /\ pc = "sub" /\ i < ns
    /\ Store(SubDigit(L, S, c), SubBorrow(L, S, c))
    /\ sumS' = sumS + S * Pow[i]

SubRest ==
    /\ pc = "sub" /\ ns <= i /\ i < nl
    /\ Store(DecDigit(L, c), DecBorrow(L, c))
    /\ UNCHANGED sumS

(* sub_ignore_sign: an underflow is repaired by negating the result.        *)
SubEnd ==
    /\ pc = "sub" /\ i = nl
    /\ inverted' = (c = 1)
    /\ pc' = IF c = 1 THEN "negate" ELSE "sign"
    /\ i' = 0 /\ c' = 0
    /\ UNCHANGED <<cell, size, neg>> /\ UNCHANGED call /\ UNCHANGED ghosts

(* _negate_twos_complement on the span result.first(size - 1)               *)
Negate ==
    LET ai == cell[result][i]
    IN  /\ pc = "negate" /\ i < size[result] - 1
        /\ cell' = [cell EXCEPT ![result][i] = NegDigit(ai, c)]
        /\ c' = NegCarry(ai, c)
        /\ i' = i + 1
        /\ pos' = pos + NegDigit(ai, c) * Pow[i]
        /\ UNCHANGED <<size, neg, pc, inverted, digs, size0, sumL, sumS, part>> /\ UNCHANGED call

NegateEnd ==
    /\ pc = "negate" /\ i = size[result] - 1
    /\ pc' = "sign"
    /\ UNCHANGED <<cell, size, neg, i, c, inverted>> /\ UNCHANGED call /\ UNCHANGED ghosts

(* _private::add after sub_ignore_sign: clear the top digit, compose signs. *)
SubSign ==
    /\ pc = "sign"
    /\ cell' = [cell EXCEPT ![result][size[result] - 1] = 0]
    /\ neg' = [neg EXCEPT ![result] = (negA # (inverted # swapped))]
    /\ pc' = "cleanup"
    /\ UNCHANGED <<size, i, c, inverted>> /\ UNCHANGED call /\ UNCHANGED ghosts

(* BigInt::cleanup pops leading zeros but keeps one digit; zero is positive.*)
CleanPop ==
    LET n == size[result]
    IN  /\ pc = "cleanup" /\ n > 1 /\ cell[result][n - 1] = 0
        /\ size' = [size EXCEPT ![result] = n - 1]
        /\ UNCHANGED <<cell, neg, pc, i, c, inverted>> /\ UNCHANGED call /\ UNCHANGED ghosts

CleanEnd ==
    LET n == size[result]
    IN  /\ pc = "cleanup" /\ (n = 1 \/ cell[result][n - 1] # 0)
        /\ neg' = [neg EXCEPT ![result] = @ /\ ~(n = 1 /\ cell[result][0] = 0)]
        /\ pc' = "done"
        /\ UNCHANGED <<cell, size, i, c, inverted>> /\ UNCHANGED call /\ UNCHANGED ghosts

Return == pc = "done" /\ UNCHANGED vars

Next ==
    \/ \E isSub \in BOOLEAN : Call(isSub)
    \/ AddBoth \/ AddRest \/ AddEnd
    \/ SubBoth \/ SubRest \/ SubEnd \/ Negate \/ NegateEnd \/ SubSign
    \/ CleanPop \/ CleanEnd \/ Return

Spec == Init /\ [][Next]_vars

----------------------------------------------------------------------------
TypeOK ==
    /\ alias \in Aliasings
    /\ cell \in [Objs -> [Index -> Digit]]
    /\ size \in [Objs -> 1 .. MaxSize]
    /\ neg \in [Objs -> BOOLEAN]
    /\ pc \in {"call", "add", "sub", "negate", "sign", "cleanup", "done"}
    /\ negA \in BOOLEAN /\ negB \in BOOLEAN
    /\ swapped \in BOOLEAN /\ inverted \in BOOLEAN
    /\ nl \in 0 .. MaxSize /\ ns \in 0 .. MaxSize
    /\ i \in 0 .. MaxSize /\ c \in Carry
    /\ digs \in [Objs -> [Index -> Digit]]
    /\ size0 \in [Objs -> 1 .. MaxSize]
    /\ sumL \in Int /\ sumS \in Int /\ pos \in Int
    /\ part \in [0 .. MaxSize -> Int]

(* The digits of both operands that the loop has not read yet are those of  *)
(* the call, however result, a and b are aliased.                           *)
UnreadIntact ==
    pc \in {"add", "sub"} =>
        \A j \in Index : j >= i => /\ j < nl => cell[long][j] = digs[long][j]
                                   /\ j < ns => cell[short][j] = digs[short][j]

(* The debug assertions: the sizes _private::add, add_ignore_sign and       *)
(* sub_ignore_sign expect of their spans, and the carry that must leave     *)
(* _negate_twos_complement.                                                 *)
AssertsHold ==
    /\ pc \in {"add", "sub"} => ns <= nl /\ size[result] = nl + 1
    /\ pc = "negate" /\ i = size[result] - 1 => c = 1

(* What the loops conserve: after each iteration the digits written and the *)
(* pending carry (borrow) stand for the sum (difference) of the digits read;*)
(* the digits negated and those they replace add up to the pending carry.   *)
Conservation ==
    /\ pc = "add" => part[i] + c * Pow[i] = sumL + sumS
    /\ pc = "sub" => part[i] - c * Pow[i] = sumL - sumS
    /\ pc = "negate" => pos + part[i] = c * Pow[i]

Sgn(s) == IF s THEN 0 - 1 ELSE 1
sumA == IF swapped THEN sumS ELSE sumL
sumB == IF swapped THEN sumL ELSE sumS

(* When the loops have ended, the digits written stand for |a| + |b|, or    *)
(* with the sign sub_ignore_sign returns for |a| - |b|.                     *)
LoopsExact ==
    /\ pc = "cleanup" /\ negA = negB => part[nl + 1] = sumA + sumB
    /\ pc = "sign" => Sgn(inverted # swapped) * (IF inverted THEN pos ELSE part[nl])
                        = sumA - sumB

Before(o) == Value(digs[o], size0[o])

(* The call leaves a + b (for sub a - b) of the operands' values before the *)
(* call in result, in canonical form.                                       *)
ResultExact ==
    pc = "done" =>
        /\ Sgn(neg[result]) * Value(cell[result], size[result])
             = Sgn(negA) * Before(alias[2]) + Sgn(negB) * Before(alias[3])
        /\ Canonical(cell[result], size[result], neg[result])
=============================================================================
