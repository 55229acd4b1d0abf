------------------------------ MODULE Multiply ------------------------------
(* One call of mul(result, a, k) with an integer k, where result may be a,   *)
(* or of mul, mul_naive or mul_karatsuba(result, a, b), where it may not: the *)
(* asserts demand it and *= makes a new object.  By an integer, below the    *)
(* threshold and in mul_naive the naive loops run: row j adds a times digit  *)
(* j of b to the digits from j up; one iteration of an inner loop is one     *)
(* step.  The other multiplications go on in module Karatsuba.               *)
(*                                                                           *)
(* History variables, read by no guard: digs, size0, neg0 (the objects at    *)
(* the call), cur (value of the digits of result written so far), prod (sum  *)
(* of the products of digits computed so far).                               *)
EXTENDS Places

CONSTANTS MaxDigits,    \* digits of an operand
          Objs,
          Aliasings,    \* <<result, a, b>> triples, b = NONE for an integer
          NONE,
          MinKaratsuba  \* MIN_DIGITS_FOR_MULT_KARATSUBA, 32

ASSUME MultiplyAssumption ==
    /\ MinKaratsuba \in Nat
    /\ MaxDigits \in Nat /\ MaxDigits >= 1
    /\ MaxSize \in Nat /\ MaxSize >= 2 * MaxDigits
    /\ NONE \notin Objs
    /\ Aliasings \subseteq Objs \X Objs \X (Objs \cup {NONE})
    /\ \A t \in Aliasings : t[3] # NONE => t[1] \notin {t[2], t[3]}

VARIABLES
    cell, size, neg,    \* storage, size and sign of each object
    pc,
    entry,              \* the function called
    alias,
    word, wordNeg,      \* the integer k: magnitude and sign
    swapped,            \* b has more digits and is put first
    na, nb,             \* sizes of the longer and the shorter operand
    i, j, c,            \* counters of the inner and the outer loop, carry
    digs, size0, neg0, cur, prod

vars == <<cell, size, neg, pc, entry, alias, word, wordNeg, swapped, na, nb, i, j, c,
          digs, size0, neg0, cur, prod>>
call == <<entry, alias, word, wordNeg, swapped, na, nb, digs, size0, neg0>>

result == alias[1]
byWord == alias[3] = NONE
long  == IF swapped THEN alias[3] ELSE alias[2]
short == IF swapped THEN alias[2] ELSE alias[3]

IsZero(d, n) == \A k \in 0 .. n - 1 : d[k] = 0
Canonical(d, n, s) ==
    /\ n > 1 => d[n - 1] # 0
    /\ n = 1 /\ d[0] = 0 => ~s

Init ==
    /\ alias \in Aliasings
    /\ entry \in {"mul", "mul_naive", "mul_karatsuba"}
    /\ byWord => entry = "mul"
    /\ cell \in [Objs -> [Index -> Digit]]
    /\ size \in [Objs -> 1 .. MaxDigits]
    /\ neg \in [Objs -> BOOLEAN]
    /\ \A o \in Objs : Canonical(cell[o], size[o], neg[o])
    /\ word \in Digit /\ wordNeg \in BOOLEAN
    /\ ~byWord \/ word = 0 => ~wordNeg
    /\ ~byWord => word = 0
    /\ pc = "call" /\ swapped = FALSE
    /\ na = 0 /\ nb = 0 /\ i = 0 /\ j = 0 /\ c = 0
    /\ digs = cell /\ size0 = size /\ neg0 = neg
    /\ cur = 0 /\ prod = 0

----------------------------------------------------------------------------
(* utils::mul_u128                                                           *)
Lo(x, y) == (x * y) % B
Hi(x, y) == (x * y) \div B

(* Body of _mul_naive_ignore_sign(result, a, digit).                         *)
MulDigit(x, k, carry) == WrapAdd(Lo(x, k), carry)
MulCarry(x, k, carry) == WrapAdd(Hi(x, k), Flag(MulDigit(x, k, carry) < carry))

(* Body of _addmul_naive_ignore_sign(result, a, digit), and a mutated form   *)
(* of it, used by no specification, that looks at the first addition only.   *)
AddMulDigit(old, x, k, carry) == WrapAdd(old, MulDigit(x, k, carry))
AddMulCarry_once(old, x, k, carry) == MulCarry(x, k, carry)
AddMulCarry(old, x, k, carry) ==
    LET m == MulDigit(x, k, carry)
    IN  WrapAdd(MulCarry(x, k, carry), Flag(WrapAdd(old, m) < m))

----------------------------------------------------------------------------
(* Mutated forms here and below, used by no specification: the size of a is  *)
(* read after the resize; every zero digit is popped; cleanup comes before   *)
(* the sign.                                                                 *)
CallWord_resized ==
    /\ pc = "call" /\ byWord /\ word # 0 /\ ~IsZero(cell[alias[2]], size[alias[2]])
    /\ size' = [size EXCEPT ![result] = size[alias[2]] + 1]
    /\ na' = size'[alias[2]] /\ nb' = 1
    /\ pc' = "row"
    /\ UNCHANGED <<cell, neg, entry, alias, word, wordNeg, swapped, i, j, c, digs, size0, neg0, cur, prod>>

(* mul(result, a, k) with k = 0 or a = 0: result.resize(0).                  *)
WordZero ==
    /\ pc = "call" /\ byWord /\ (word = 0 \/ IsZero(cell[alias[2]], size[alias[2]]))
    /\ size' = [size EXCEPT ![result] = 1]
    /\ cell' = [cell EXCEPT ![result][0] = 0]
    /\ neg' = [neg EXCEPT ![result] = FALSE]
    /\ pc' = "done"
    /\ UNCHANGED <<i, j, c, cur, prod>> /\ UNCHANGED call

(* mul(result, a, k): the size of a is kept before result, maybe a, grows.   *)
CallWord ==
    /\ pc = "call" /\ byWord /\ word # 0 /\ ~IsZero(cell[alias[2]], size[alias[2]])
    /\ size' = [size EXCEPT ![result] = size[alias[2]] + 1]
    /\ na' = size[alias[2]] /\ nb' = 1
    /\ pc' = "row"
    /\ UNCHANGED <<cell, neg, entry, alias, word, wordNeg, swapped, i, j, c, digs, size0, neg0, cur, prod>>

(* _mul_ignore_sign_shortcuts: mul_naive and mul_karatsuba reset result, mul *)
(* fills the digits it has made room for with 0.                             *)
AnyZero == \E k \in 2 .. 3 : IsZero(cell[alias[k]], size[alias[k]])

NamedZero ==
    /\ pc = "call" /\ ~byWord /\ entry # "mul" /\ AnyZero
    /\ size' = [size EXCEPT ![result] = 1]
    /\ cell' = [cell EXCEPT ![result][0] = 0]
    /\ neg' = [neg EXCEPT ![result] = FALSE]
    /\ pc' = "done"
    /\ UNCHANGED <<i, j, c, cur, prod>> /\ UNCHANGED call

(* determine_multiplication_algorithm, of the larger and the smaller size.   *)
karatsuba(max, min) == max >= MinKaratsuba /\ (min >= MinKaratsuba \/ min > max \div 2)

CallBig ==
    LET sx == size[alias[2]]  sy == size[alias[3]]
        max == IF sy > sx THEN sy ELSE sx
        min == IF sy > sx THEN sx ELSE sy
    IN  /\ pc = "call" /\ ~byWord /\ (entry = "mul" \/ ~AnyZero)
        /\ size' = [size EXCEPT ![result] = sx + sy]
        /\ cell' = IF AnyZero THEN [cell EXCEPT ![result] = [k \in Index |-> IF k < sx + sy THEN 0 ELSE @[k]]]
                   ELSE cell
        /\ swapped' = (sy > sx)
        /\ na' = max /\ nb' = min
        /\ pc' = IF AnyZero THEN "sign"
                 ELSE IF entry = "mul_karatsuba" \/ (entry = "mul" /\ karatsuba(max, min)) THEN "karatsuba"
                 ELSE "row"
        /\ UNCHANGED <<neg, entry, alias, word, wordNeg, i, j, c, digs, size0, neg0, cur, prod>>

X == cell[long][i]
K == IF byWord THEN word ELSE cell[short][j]
Old == cell[result][i + j]

Store(digit, old, carry) ==
    /\ cell' = [cell EXCEPT ![result][i + j] = digit]
    /\ c' = carry
    /\ i' = i + 1
    /\ cur' = cur + (digit - old) * Pow[i + j]
    /\ prod' = prod + X * K * Pow[i + j]
    /\ UNCHANGED <<size, neg, pc, j>> /\ UNCHANGED call

(* The first row writes its digits without reading the uninitialised ones.   *)
FirstRow ==
    /\ pc = "row" /\ j = 0 /\ i < na
    /\ Store(MulDigit(X, K, c), 0, MulCarry(X, K, c))

NextRow ==
    /\ pc = "row" /\ j > 0 /\ i < na
    /\ Store(AddMulDigit(Old, X, K, c), Old, AddMulCarry(Old, X, K, c))

(* Each row assigns its last carry to a digit no row has written before.     *)
RowEnd ==
    /\ pc = "row" /\ i = na
    /\ cell' = [cell EXCEPT ![result][na + j] = c]
    /\ cur' = cur + c * Pow[na + j]
    /\ j' = j + 1 /\ i' = 0 /\ c' = 0
    /\ pc' = IF j + 1 < nb THEN "row" ELSE "sign"
    /\ UNCHANGED <<size, neg, prod>> /\ UNCHANGED call

Finish_all ==
    LET d == cell[result]
        k == CHOOSE k \in 0 .. size[result] :
                 /\ \A p \in k .. size[result] - 1 : d[p] = 0
                 /\ k = 0 \/ d[k - 1] # 0
        s == IF byWord THEN neg[alias[2]] # wordNeg ELSE neg[alias[2]] # neg[alias[3]]
    IN  /\ pc = "sign"
        /\ size' = [size EXCEPT ![result] = k]
        /\ neg' = [neg EXCEPT ![result] = s /\ ~(k = 1 /\ d[0] = 0)]
        /\ pc' = "done"
        /\ UNCHANGED <<cell, i, j, c, cur, prod>> /\ UNCHANGED call

Finish_signLast ==
    LET d == cell[result]
        k == CHOOSE k \in 1 .. size[result] :
                 /\ \A p \in k .. size[result] - 1 : d[p] = 0
                 /\ k = 1 \/ d[k - 1] # 0
        s == IF byWord THEN neg[alias[2]] # wordNeg ELSE neg[alias[2]] # neg[alias[3]]
    IN  /\ pc = "sign"
        /\ size' = [size EXCEPT ![result] = k]
        /\ neg' = [neg EXCEPT ![result] = s]
        /\ pc' = "done"
        /\ UNCHANGED <<cell, i, j, c, cur, prod>> /\ UNCHANGED call

(* The sign of result, cleanup, and for a negative k the sign once more,     *)
(* unless the product is zero.                                               *)
Finish ==
    LET d == cell[result]
        k == CHOOSE k \in 1 .. size[result] :
                 /\ \A p \in k .. size[result] - 1 : d[p] = 0
                 /\ k = 1 \/ d[k - 1] # 0
        s == IF byWord THEN neg[alias[2]] # wordNeg ELSE neg[alias[2]] # neg[alias[3]]
    IN  /\ pc = "sign"
        /\ size' = [size EXCEPT ![result] = k]
        /\ neg' = [neg EXCEPT ![result] = s /\ ~(k = 1 /\ d[0] = 0)]
        /\ pc' = "done"
        /\ UNCHANGED <<cell, i, j, c, cur, prod>> /\ UNCHANGED call

Return == pc = "done" /\ UNCHANGED vars

Next == WordZero \/ CallWord \/ NamedZero \/ CallBig \/ FirstRow \/ NextRow \/ RowEnd \/ Finish \/ Return
Spec == Init /\ [][Next]_vars

----------------------------------------------------------------------------
TypeOK ==
    /\ alias \in Aliasings
    /\ cell \in [Objs -> [Index -> Digit]]
    /\ size \in [Objs -> 1 .. MaxSize]
    /\ neg \in [Objs -> BOOLEAN]
    /\ pc \in {"call", "row", "karatsuba", "sign", "done"}
    /\ entry \in {"mul", "mul_naive", "mul_karatsuba"}
    /\ word \in Digit /\ wordNeg \in BOOLEAN /\ swapped \in BOOLEAN
    /\ na \in 0 .. MaxDigits /\ nb \in 0 .. MaxDigits
    /\ i \in 0 .. MaxSize /\ j \in 0 .. MaxSize /\ c \in Digit
    /\ cur \in Int /\ prod \in Int

(* The rows read the operands of the call: a in place up to the digit        *)
(* reached, b throughout, and the rows never leave the storage of result.    *)
UnreadIntact ==
    pc = "row" =>
        /\ nb <= na /\ size[result] = na + nb
        /\ \A k \in i .. na - 1 : k < size0[long] /\ cell[long][k] = digs[long][k]
        /\ ~byWord => \A k \in 0 .. nb - 1 : cell[short][k] = digs[short][k]

(* No carry of the multiply-add is lost although it is kept in one word: the *)
(* digits written and the carry stand for all products computed so far.      *)
Conservation == pc = "row" => cur + c * Pow[i + j] = prod

Before(o) == Value(digs[o], size0[o])

(* After each row result holds a times the digits of b used so far: what the *)
(* storage held before never enters.                                         *)
RowsExact ==
    pc \in {"row", "sign"} /\ j > 0 /\ i = 0 =>
        Value(cell[result], na + j)
            = Before(long) * (IF byWord THEN word ELSE Value(digs[short], j))

(* A row at a time and within a row, the naive loops keep the product exact. *)
RowsConserve == Conservation /\ RowsExact

(* The call leaves the product of the operands of the call in result, with   *)
(* its sign and in canonical form, in place or not.                          *)
Sgn(s) == IF s THEN -1 ELSE 1
ResultExact ==
    pc = "done" =>
        /\ Sgn(neg[result]) * Value(cell[result], size[result])
             = Sgn(neg0[alias[2]]) * Before(alias[2])
               * (IF byWord THEN Sgn(wordNeg) * word
                  ELSE Sgn(neg0[alias[3]]) * Before(alias[3]))
        /\ Canonical(cell[result], size[result], neg[result])
=============================================================================
