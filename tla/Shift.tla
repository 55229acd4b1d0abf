-------------------------------- MODULE Shift --------------------------------
(* One call of lshift(result, a, n) or rshift(result, a, n), of the          *)
(* operators << and >>, or of <<= and >>=, where result is a itself: one     *)
(* digit written per step.  The first two entries of "alias" are its         *)
(* parameters.                                                               *)
EXTENDS Storage

CONSTANT MaxShift       \* largest n

ASSUME ShiftAssumption ==
    MaxShift \in Nat /\ MaxSize > MaxDigits + MaxShift \div W

VARIABLES
    n,                  \* number of bits
    na                  \* asize: the digits of a

shiftCall == <<atCall, n, na>>

start == n \div W
bits == n % W

ShiftInit == StorageInit /\ n \in 0 .. MaxShift /\ na = 0

(* result.resize(0): the value zero.                                         *)
Clear ==
    /\ size' = [size EXCEPT ![result] = 1]
    /\ cell' = [cell EXCEPT ![result][0] = 0]
    /\ neg' = [neg EXCEPT ![result] = FALSE]
    /\ pc' = "done"
    /\ UNCHANGED i /\ UNCHANGED shiftCall

----------------------------------------------------------------------------
(* lshift(BigInt&, a, n)                                                     *)
LShiftZero == pc = "call" /\ IsZero(cell[a], size[a]) /\ Clear

LShift ==
    LET room == size[a] + start + 1
    IN  /\ pc = "call" /\ ~IsZero(cell[a], size[a])
        /\ neg' = [neg EXCEPT ![result] = neg[a]]
        /\ na' = size[a]
        /\ size' = [size EXCEPT ![result] = room]
        /\ cell' = [cell EXCEPT ![result] =
                       [j \in Index |-> IF size[result] <= j /\ j < room THEN 0 ELSE @[j]]]
        /\ pc' = "lshift-top"
        /\ UNCHANGED <<atCall, n, i>>

(* _private::lshift: the bits that leave the most significant digit.         *)
LShiftTop ==
    LET last == rshift_safe(cell[a][na - 1], W - bits)
    IN  /\ pc = "lshift-top"
        /\ cell' = IF bits > 0 /\ last # 0 THEN [cell EXCEPT ![result][na + start] = last]
                   ELSE cell
        /\ i' = na - 1
        /\ pc' = "lshift"
        /\ UNCHANGED <<size, neg>> /\ UNCHANGED shiftCall

LShiftStep ==
    LET lo == rshift_safe(cell[a][i - 1], W - bits)
        hi == lshift_safe(cell[a][i], bits)
    IN  /\ pc = "lshift" /\ i >= 1
        /\ cell' = [cell EXCEPT ![result][i + start] = WordOr(lo, hi)]
        /\ i' = i - 1
        /\ UNCHANGED <<size, neg, pc>> /\ UNCHANGED shiftCall

(* Its least significant digit, then the zeros below it.                     *)
LShiftEnd ==
    LET low == lshift_safe(cell[a][0], bits)
    IN  /\ pc = "lshift" /\ i = 0
        /\ cell' = [cell EXCEPT ![result] =
                       [j \in Index |-> IF j < start THEN 0 ELSE IF j = start THEN low ELSE @[j]]]
        /\ pc' = "cleanup"
        /\ UNCHANGED <<size, neg, i>> /\ UNCHANGED shiftCall

----------------------------------------------------------------------------
(* rshift(BigInt&, a, n)                                                     *)
RShiftZero ==
    /\ pc = "call" /\ (IsZero(cell[a], size[a]) \/ size[a] <= start)
    /\ Clear

RShift ==
    LET room == size[a] - start
    IN  /\ pc = "call" /\ ~IsZero(cell[a], size[a]) /\ size[a] > start
        /\ neg' = [neg EXCEPT ![result] = neg[a]]
        /\ na' = size[a]
        /\ size' = [size EXCEPT ![result] = IF @ >= room THEN @ ELSE room]
        /\ i' = start
        /\ pc' = "rshift"
        /\ UNCHANGED <<cell, atCall, n>>

(* operator>>= by 0 bits returns at once.                                    *)
RShiftNothing ==
    /\ pc = "call" /\ n = 0 /\ result = a
    /\ pc' = "done"
    /\ UNCHANGED <<objects, i>> /\ UNCHANGED shiftCall

RShiftStep ==
    LET lo == rshift_safe(cell[a][i], bits)
        hi == lshift_safe(cell[a][i + 1], W - bits)
    IN  /\ pc = "rshift" /\ i < na - 1
        /\ cell' = [cell EXCEPT ![result][i - start] = WordOr(lo, hi)]
        /\ i' = i + 1
        /\ UNCHANGED <<size, neg, pc>> /\ UNCHANGED shiftCall

RShiftEnd ==
    /\ pc = "rshift" /\ i = na - 1
    /\ cell' = [cell EXCEPT ![result][na - start - 1] = rshift_safe(cell[a][na - 1], bits)]
    /\ size' = [size EXCEPT ![result] = na - start]
    /\ pc' = "cleanup"
    /\ UNCHANGED <<neg, i>> /\ UNCHANGED shiftCall

----------------------------------------------------------------------------
ShiftCleanup ==
    /\ pc = "cleanup"
    /\ Cleaned(cell[result])
    /\ pc' = "done"
    /\ UNCHANGED i /\ UNCHANGED shiftCall

LShiftNext == LShiftZero \/ LShift \/ LShiftTop \/ LShiftStep \/ LShiftEnd
RShiftNext == RShiftZero \/ RShift \/ RShiftNothing \/ RShiftStep \/ RShiftEnd

----------------------------------------------------------------------------
(* Shifting in place goes downwards to the left and upwards to the right:    *)
(* the digits of a that are still to be read are those of the call.          *)
ShiftUnreadIntact ==
    /\ pc \in {"lshift-top", "lshift"} =>
           \A j \in 0 .. IF pc = "lshift" THEN i ELSE na - 1 : cell[a][j] = digs[a][j]
    /\ pc = "rshift" => \A j \in i .. na - 1 : cell[a][j] = digs[a][j]

(* result holds a shifted by m bits down: every bit below the size of result *)
(* is the one its position says and none comes from the storage, in          *)
(* canonical form and with the sign of a.                                    *)
ShiftedBy(m) ==
    /\ \A p \in 0 .. MaxSize * W - 1 :
           BitOf(cell[result], size[result], p) = BitOf(digs[a], size0[a], p + m)
    /\ Canonical(cell[result], size[result], neg[result])
    /\ neg[result] = (neg0[a] /\ ~IsZero(cell[result], size[result]))
=============================================================================
