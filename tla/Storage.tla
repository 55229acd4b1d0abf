------------------------------- MODULE Storage -------------------------------
(* The objects one call of a bit operation works on in place, with what the  *)
(* operations share.  cell[o] is the storage of object o with the cells past *)
(* its size, which resize(count) leaves as they are.                         *)
(*                                                                           *)
(* digs, size0, neg0 are history variables: the objects at the call.         *)
EXTENDS Bits, Places

CONSTANTS MaxDigits,    \* digits of an operand
          Objs,
          Aliasings     \* <<result, a, b>> triples the callers use

ASSUME StorageAssumption ==
    /\ MaxDigits \in Nat /\ MaxDigits >= 1
    /\ MaxSize \in Nat /\ MaxSize >= MaxDigits
    /\ Aliasings \subseteq Objs \X Objs \X Objs

VARIABLES
    cell, size, neg,    \* storage, size and sign of each object
    pc,
    alias,              \* the objects result, a and b name
    i,                  \* loop counter
    digs, size0, neg0

objects == <<cell, size, neg>>
atCall == <<alias, digs, size0, neg0>>

result == alias[1]
a == alias[2]
b == alias[3]

IsZero(d, k) == \A j \in 0 .. k - 1 : d[j] = 0
IsNeg(o) == neg[o] /\ ~IsZero(cell[o], size[o])
Canonical(d, k, s) ==
    /\ k > 1 => d[k - 1] # 0
    /\ k = 1 /\ d[0] = 0 => ~s

StorageInit ==
    /\ alias \in Aliasings
    /\ cell \in [Objs -> [Index -> Digit]]
    /\ size \in [Objs -> 1 .. MaxDigits]
    /\ neg \in [Objs -> BOOLEAN]
    /\ \A o \in Objs : Canonical(cell[o], size[o], neg[o])
    /\ pc = "call" /\ i = 0
    /\ digs = cell /\ size0 = size /\ neg0 = neg

(* BigInt::cleanup on the digits d of result; a mutated form, used by no     *)
(* specification, pops every zero digit.                                     *)
Cleaned_all(d) ==
    LET k == CHOOSE k \in 0 .. size[result] :
                 /\ \A j \in k .. size[result] - 1 : d[j] = 0
                 /\ k = 0 \/ d[k - 1] # 0
    IN  /\ cell' = [cell EXCEPT ![result] = d]
        /\ size' = [size EXCEPT ![result] = k]
        /\ neg' = [neg EXCEPT ![result] = @ /\ k # 0]

Cleaned(d) ==
    LET k == CHOOSE k \in 1 .. size[result] :
                 /\ \A j \in k .. size[result] - 1 : d[j] = 0
                 /\ k = 1 \/ d[k - 1] # 0
    IN  /\ cell' = [cell EXCEPT ![result] = d]
        /\ size' = [size EXCEPT ![result] = k]
        /\ neg' = [neg EXCEPT ![result] = @ /\ ~(k = 1 /\ d[0] = 0)]

(* The digit j and the bit p of the value an object with the digits d and    *)
(* the size k has.                                                           *)
DigitOf(d, k, j) == IF 0 <= j /\ j < k THEN d[j] ELSE 0
BitOf(d, k, p) == IF p < 0 THEN 0 ELSE Bit(DigitOf(d, k, p \div W), p % W)
=============================================================================
