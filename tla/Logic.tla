-------------------------------- MODULE Logic --------------------------------
(* One call of bitwise_and, bitwise_or or bitwise_xor (operators &, |, ^ and *)
(* their assignment forms), one digit per step.  Magnitudes and signs are    *)
(* combined apart.                                                           *)
EXTENDS Storage

VARIABLES
    op,                 \* "and", "or", "xor"
    swapped,            \* b has more digits and is put first
    nl, ns              \* sizes of the longer and the shorter span

logicCall == <<atCall, op, swapped, nl, ns>>

long  == IF swapped THEN b ELSE a
short == IF swapped THEN a ELSE b

WordOp(x, y) ==
    CASE op = "and" -> WordAnd(x, y)
      [] op = "or"  -> WordOr(x, y)
      [] op = "xor" -> WordXor(x, y)

SignOp(p, q) ==
    CASE op = "and" -> p /\ q
      [] op = "or"  -> p \/ q
      [] op = "xor" -> p # q

(* result is a, in the assignments, or new.                                  *)
LogicInit ==
    /\ StorageInit
    /\ result = b => result = a
    /\ op \in {"and", "or", "xor"} /\ swapped = FALSE /\ nl = 0 /\ ns = 0

----------------------------------------------------------------------------
MinOf(x, y) == IF x <= y THEN x ELSE y
MaxOf(x, y) == IF x >= y THEN x ELSE y

(* Mutated form, used by no specification: the old size of a is not kept.    *)
Call_resized ==
    LET na == size[a]
        room == IF op = "and" THEN MinOf(na, size[b]) ELSE MaxOf(na, size[b])
        sized == [size EXCEPT ![result] = room]
        a2 == sized[a]
        b2 == sized[b]
    IN  /\ pc = "call"
        /\ neg' = [neg EXCEPT ![result] = SignOp(IsNeg(a), IsNeg(b))]
        /\ size' = sized
        /\ swapped' = (b2 > a2)
        /\ nl' = MaxOf(a2, b2) /\ ns' = MinOf(a2, b2)
        /\ pc' = "loop"
        /\ UNCHANGED <<cell, atCall, op, i>>

(* bitwise_and, bitwise_or, bitwise_xor: the sign and the size of result     *)
(* first, then which span is longer.  For "and" both sizes are read after    *)
(* the resize; otherwise a keeps its old size.                               *)
Call ==
    LET na == size[a]
        room == IF op = "and" THEN MinOf(na, size[b]) ELSE MaxOf(na, size[b])
        sized == [size EXCEPT ![result] = room]
        a2 == IF op = "and" THEN sized[a] ELSE na
        b2 == sized[b]
    IN  /\ pc = "call"
        /\ neg' = [neg EXCEPT ![result] = SignOp(IsNeg(a), IsNeg(b))]
        /\ size' = sized
        /\ swapped' = (b2 > a2)
        /\ nl' = MaxOf(a2, b2) /\ ns' = MinOf(a2, b2)
        /\ pc' = "loop"
        /\ UNCHANGED <<cell, atCall, op, i>>

(* First loops of bitwise_and_ignore_sign and its two siblings.              *)
Both ==
    /\ pc = "loop" /\ i < ns
    /\ cell' = [cell EXCEPT ![result][i] = WordOp(cell[long][i], cell[short][i])]
    /\ i' = i + 1
    /\ UNCHANGED <<size, neg, pc>> /\ UNCHANGED logicCall

(* Their second loops copy the rest of the longer operand; "and" has none.   *)
Rest ==
    /\ pc = "loop" /\ op # "and" /\ ns <= i /\ i < nl
    /\ cell' = [cell EXCEPT ![result][i] = cell[long][i]]
    /\ i' = i + 1
    /\ UNCHANGED <<size, neg, pc>> /\ UNCHANGED logicCall

(* Their last loops clear what is left of result; then BigInt::cleanup.      *)
LogicCleanup ==
    LET d == [j \in Index |-> IF i <= j /\ j < size[result] THEN 0 ELSE cell[result][j]]
    IN  /\ pc = "loop" /\ i >= ns /\ (op = "and" \/ i >= nl)
        /\ Cleaned(d)
        /\ pc' = "done"
        /\ UNCHANGED i /\ UNCHANGED logicCall

LogicNext == Call \/ Both \/ Rest \/ LogicCleanup

----------------------------------------------------------------------------
(* The digits of both operands that the loops have not read are those of the *)
(* call: resize neither drops digits an in-place operation still reads nor   *)
(* shows it digits that were not there.                                      *)
LogicUnreadIntact ==
    pc = "loop" =>
        /\ ns <= nl
        /\ \A j \in i .. ns - 1 :
               /\ j < size0[short] /\ cell[short][j] = digs[short][j]
               /\ j < size0[long] /\ cell[long][j] = digs[long][j]
        /\ op # "and" => \A j \in i .. nl - 1 :
                             j < size0[long] /\ cell[long][j] = digs[long][j]

(* Bit by bit, the magnitude of result is the operation applied to the       *)
(* magnitudes of the call, zeros above their sizes, and its sign the         *)
(* operation applied to the signs; the result is canonical.                  *)
LogicDone ==
    /\ \A j \in Index :
           DigitOf(cell[result], size[result], j)
               = WordOp(DigitOf(digs[a], size0[a], j), DigitOf(digs[b], size0[b], j))
    /\ neg[result] = (SignOp(neg0[a], neg0[b]) /\ ~IsZero(cell[result], size[result]))
    /\ Canonical(cell[result], size[result], neg[result])
=============================================================================
