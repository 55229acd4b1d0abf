------------------------------ MODULE DigitSeq ------------------------------
(* What a fast_vector promises its users: a finite sequence of digits.  The  *)
(* digits that resize(count) adds are not specified, all others are.         *)
EXTENDS Integers, Sequences

CONSTANTS Vecs, Digits, MaxLen

VARIABLES
    seq,
    op      \* the operation called last

Init == seq = [v \in Vecs |-> <<>>] /\ op = "memory"

Set(name, v, s) == op' = name /\ seq' = [seq EXCEPT ![v] = s]

PushBack(v) == \E x \in Digits : Set("push_back", v, Append(seq[v], x))
PopBack(v)  == seq[v] # <<>> /\ Set("pop_back", v, SubSeq(seq[v], 1, Len(seq[v]) - 1))
Write(v) ==
    \E k \in DOMAIN seq[v], x \in Digits : Set("write", v, [seq[v] EXCEPT ![k] = x])

(* resize(count), also for a new vector: any digits may come after the old.  *)
Resize(v) ==
    \E n \in 0 .. MaxLen : \E s \in [1 .. n -> Digits] :
        /\ \A k \in 1 .. n : k <= Len(seq[v]) => s[k] = seq[v][k]
        /\ Set("resize", v, s)

(* resize(count, default)                                                    *)
ResizeWith(v) ==
    \E n \in 0 .. MaxLen, x \in Digits :
        Set("fill", v, [k \in 1 .. n |-> IF k <= Len(seq[v]) THEN seq[v][k] ELSE x])

(* A vector made of a list of digits.                                        *)
List(v) == \E n \in 0 .. MaxLen : \E s \in [1 .. n -> Digits] : Set("list", v, s)

Empty(v) == Set("empty", v, <<>>)
Copy(v, w) == Set("copy", v, seq[w])
Swap(v, w) == op' = "swap" /\ seq' = [seq EXCEPT ![v] = seq[w], ![w] = seq[v]]

(* reserve, shrink_to_fit                                                    *)
Memory == op' = "memory" /\ UNCHANGED seq

Next ==
    \/ \E v \in Vecs : \/ PushBack(v) \/ PopBack(v) \/ Write(v) \/ List(v)
                       \/ Resize(v) \/ ResizeWith(v) \/ Empty(v)
    \/ \E v, w \in Vecs : Copy(v, w) \/ Swap(v, w)
    \/ Memory

Spec == Init /\ [][Next]_<<seq, op>>
=============================================================================
