----------------------------- MODULE FastVector -----------------------------
(* fast_vector<uint64_t>, the storage of every BigInt, on a heap of blocks:  *)
(* three pointers per vector, realloc'ed when it grows, whose new cells hold *)
(* whatever the heap has there.  Blocks stand for addresses; a pointer into  *)
(* a block is its distance from _data.                                       *)
(*                                                                           *)
(* The move constructor is instantiated by no caller (pooled_ptr moves the   *)
(* pointer to the vector) and is left out.                                   *)
EXTENDS Integers, Sequences

CONSTANTS
    Vecs,
    Blocks,         \* addresses the allocator can return
    NULL,
    Digits,
    MaxCap,         \* bound: cells of a block, PTRDIFF_MAX in reallocate
    min_alloc_size,
    grow_factor

ASSUME FastVectorAssumption ==
    /\ NULL \notin Blocks
    /\ MaxCap \in Nat /\ grow_factor \in Nat /\ grow_factor >= 2
    /\ min_alloc_size \in 1 .. MaxCap

VARIABLES
    alive,          \* constructed and not yet destroyed
    data,           \* _data
    len,            \* _data_end - _data
    cap,            \* _storage_end - _data
    heap,           \* the cells of each allocated block, <<>> when free
    op              \* history: the operation called last, as in DigitSeq

vectorVars == <<alive, data, len, cap, heap, op>>

Operations == {"memory", "empty", "resize", "list", "copy", "swap", "write",
               "push_back", "pop_back", "fill"}

Live == {v \in Vecs : alive[v]}
FreeBlocks == {k \in Blocks : heap[k] = <<>>}
Cells(v) == IF data[v] = NULL THEN <<>> ELSE heap[data[v]]
Contents(v) == SubSeq(Cells(v), 1, len[v])

VectorInit ==
    /\ alive = [v \in Vecs |-> FALSE]
    /\ data = [v \in Vecs |-> NULL]
    /\ len = [v \in Vecs |-> 0]
    /\ cap = [v \in Vecs |-> 0]
    /\ heap = [k \in Blocks |-> <<>>]
    /\ op = "memory"

----------------------------------------------------------------------------
(* realloc(_data, n): the block stays or moves, keeps the cells that fit,    *)
(* and what lies above them is arbitrary.  No cells at all is no block.      *)
Grown(v, n) == {s \in [1 .. n -> Digits] : \A k \in 1 .. n : k <= cap[v] => s[k] = Cells(v)[k]}

(* Mutated forms here and below, used by no specification: a block that      *)
(* moves is not freed, one that is exactly large enough is exchanged, an     *)
(* empty vector doubles its capacity, new cells are not filled.              *)
Reallocated_leaking(v, n) ==
    {[data |-> p, cap |-> n, heap |-> [heap EXCEPT ![p] = s]] :
        p \in FreeBlocks, s \in Grown(v, n)}

Reallocated(v, n) ==
    IF n = 0
    THEN {[data |-> NULL, cap |-> 0,
           heap |-> [k \in Blocks |-> IF k = data[v] THEN <<>> ELSE heap[k]]]}
    ELSE {[data |-> p, cap |-> n,
           heap |-> [k \in Blocks |-> IF k = p THEN s ELSE IF k = data[v] THEN <<>> ELSE heap[k]]] :
              p \in FreeBlocks \cup ({data[v]} \ {NULL}), s \in Grown(v, n)}

Now(v) == [data |-> data[v], cap |-> cap[v], heap |-> heap]
Reserved_eagerly(v, n) == IF n >= cap[v] /\ n > 0 THEN Reallocated(v, n) ELSE {Now(v)}

Reserved(v, n) == IF n > cap[v] THEN Reallocated(v, n) ELSE {Now(v)}

(* Vector v owns the block of r and has n elements, of which those in the    *)
(* domain of new are assigned.                                               *)
Install(v, r, n, new) ==
    /\ data' = [data EXCEPT ![v] = r.data]
    /\ cap' = [cap EXCEPT ![v] = r.cap]
    /\ len' = [len EXCEPT ![v] = n]
    /\ heap' = [k \in Blocks |->
                   IF k = r.data
                   THEN [j \in DOMAIN r.heap[k] |-> IF j \in DOMAIN new THEN new[j] ELSE r.heap[k][j]]
                   ELSE r.heap[k]]

----------------------------------------------------------------------------
(* Constructors.  v holds no block before, so that the size and the list     *)
(* constructor are a resize and a sequence of push_back into reserved cells. *)
Construct(v) ==
    /\ op' = "empty" /\ ~alive[v] /\ alive' = [alive EXCEPT ![v] = TRUE]
    /\ UNCHANGED <<data, len, cap, heap>>

ConstructSized(v) ==
    /\ op' = "resize" /\ ~alive[v] /\ alive' = [alive EXCEPT ![v] = TRUE]
    /\ \E n \in 0 .. MaxCap : \E r \in Reserved(v, n) : Install(v, r, n, <<>>)

ConstructList(v) ==
    /\ op' = "list" /\ ~alive[v] /\ alive' = [alive EXCEPT ![v] = TRUE]
    /\ \E n \in 0 .. MaxCap : \E init \in [1 .. n -> Digits], r \in Reserved(v, n) :
           Install(v, r, n, init)

CopyConstruct(v, w) ==
    /\ op' = "copy" /\ ~alive[v] /\ alive[w] /\ alive' = [alive EXCEPT ![v] = TRUE]
    /\ IF data[w] = NULL THEN UNCHANGED <<data, len, cap, heap>>
       ELSE \E r \in Reserved(v, len[w]) : Install(v, r, len[w], Contents(w))

Destroy(v) ==
    /\ op' = "empty" /\ alive[v]
    /\ alive' = [alive EXCEPT ![v] = FALSE]
    /\ data' = [data EXCEPT ![v] = NULL]
    /\ len' = [len EXCEPT ![v] = 0]
    /\ cap' = [cap EXCEPT ![v] = 0]
    /\ heap' = [k \in Blocks |-> IF k = data[v] THEN <<>> ELSE heap[k]]

----------------------------------------------------------------------------
(* operator=(const fast_vector&)                                             *)
CopyAssign(v, w) ==
    /\ op' = "copy" /\ alive[v] /\ alive[w] /\ v # w
    /\ \E r \in Reserved(v, len[w]) : Install(v, r, len[w], Contents(w))
    /\ UNCHANGED alive

(* swap, and operator=(fast_vector&&), which calls it.                       *)
Swap(v, w) ==
    /\ op' = "swap" /\ alive[v] /\ alive[w] /\ v # w
    /\ data' = [data EXCEPT ![v] = data[w], ![w] = data[v]]
    /\ len' = [len EXCEPT ![v] = len[w], ![w] = len[v]]
    /\ cap' = [cap EXCEPT ![v] = cap[w], ![w] = cap[v]]
    /\ UNCHANGED <<alive, heap>>

(* operator[], at, front, back as a place to assign to.                      *)
Write(v) ==
    /\ op' = "write" /\ alive[v]
    /\ \E k \in 1 .. len[v], x \in Digits : heap' = [heap EXCEPT ![data[v]][k] = x]
    /\ UNCHANGED <<alive, data, len, cap>>

----------------------------------------------------------------------------
reserve(v) ==
    /\ op' = "memory" /\ alive[v]
    /\ \E n \in 0 .. MaxCap : \E r \in Reserved(v, n) : Install(v, r, len[v], <<>>)
    /\ UNCHANGED alive

shrink_to_fit(v) ==
    /\ op' = "memory" /\ alive[v] /\ len[v] < cap[v]
    /\ \E r \in Reallocated(v, len[v]) : Install(v, r, len[v], <<>>)
    /\ UNCHANGED alive

clear(v) ==
    /\ op' = "empty" /\ alive[v]
    /\ len' = [len EXCEPT ![v] = 0]
    /\ UNCHANGED <<alive, data, cap, heap>>

LargerOf(x, y) == IF x >= y THEN x ELSE y
push_back_doubling(v) ==
    /\ op' = "push_back" /\ alive[v]
    /\ LET room == IF len[v] = cap[v] THEN cap[v] * grow_factor ELSE cap[v]
       IN  /\ room <= MaxCap
           /\ \E r \in Reserved(v, room), x \in Digits :
                  Install(v, r, len[v] + 1, [k \in {len[v] + 1} |-> x])
    /\ UNCHANGED alive

push_back(v) ==
    /\ op' = "push_back" /\ alive[v]
    /\ LET room == IF len[v] = cap[v] THEN LargerOf(cap[v] * grow_factor, min_alloc_size)
                   ELSE cap[v]
       IN  /\ room <= MaxCap
           /\ \E r \in Reserved(v, room), x \in Digits :
                  Install(v, r, len[v] + 1, [k \in {len[v] + 1} |-> x])
    /\ UNCHANGED alive

pop_back(v) ==
    /\ op' = "pop_back" /\ alive[v] /\ len[v] > 0
    /\ len' = [len EXCEPT ![v] = @ - 1]
    /\ UNCHANGED <<alive, data, cap, heap>>

resize(v) ==
    /\ op' = "resize" /\ alive[v]
    /\ \E n \in 0 .. MaxCap : \E r \in Reserved(v, n) : Install(v, r, n, <<>>)
    /\ UNCHANGED alive

(* resize(count, default) fills from the old end to the new one.             *)
resize_filled_capacity(v) ==
    /\ op' = "fill" /\ alive[v]
    /\ \E n \in 0 .. MaxCap, x \in Digits : \E r \in Reserved(v, n) :
           Install(v, r, n, [k \in cap[v] + 1 .. n |-> x])
    /\ UNCHANGED alive

resize_filled(v) ==
    /\ op' = "fill" /\ alive[v]
    /\ \E n \in 0 .. MaxCap, x \in Digits : \E r \in Reserved(v, n) :
           Install(v, r, n, [k \in len[v] + 1 .. n |-> x])
    /\ UNCHANGED alive

VectorNext ==
    \/ \E v \in Vecs :
           \/ Construct(v) \/ ConstructSized(v) \/ ConstructList(v) \/ Destroy(v)
           \/ Write(v) \/ reserve(v) \/ shrink_to_fit(v) \/ clear(v)
           \/ push_back(v) \/ pop_back(v) \/ resize(v) \/ resize_filled(v)
    \/ \E v, w \in Vecs : CopyConstruct(v, w) \/ CopyAssign(v, w) \/ Swap(v, w)

VectorSpec == VectorInit /\ [][VectorNext]_vectorVars

----------------------------------------------------------------------------
VectorTypeOK ==
    /\ alive \in [Vecs -> BOOLEAN]
    /\ data \in [Vecs -> Blocks \cup {NULL}]
    /\ op \in Operations
    /\ len \in [Vecs -> 0 .. MaxCap] /\ cap \in [Vecs -> 0 .. MaxCap]
    /\ DOMAIN heap = Blocks
    /\ \A k \in Blocks : heap[k] \in Seq(Digits) /\ Len(heap[k]) <= MaxCap
    /\ \A v \in Vecs : len[v] <= cap[v]

(* However vectors grow, are copied, swapped and destroyed, each block the   *)
(* allocator gave out belongs to one live vector that knows its size, and no *)
(* vector points to a freed one.                                             *)
BlocksOwned ==
    /\ \A v \in Vecs : data[v] # NULL => alive[v]
    /\ \A v, w \in Vecs : data[v] = data[w] /\ data[v] # NULL => v = w
    /\ \A v \in Vecs : cap[v] = Len(Cells(v))
    /\ Blocks \ FreeBlocks \subseteq {data[v] : v \in Vecs}

(* A span stays valid while its vector does not outgrow its capacity: the    *)
(* block changes only when it gets larger, shrinks to the size, is swapped   *)
(* or is freed.  Functions such as _divide_loop take a span, resize the      *)
(* vector within what they reserved, and go on using the span.               *)
SpanKept(v) ==
    data'[v] # data[v] =>
        \/ cap'[v] > cap[v]
        \/ cap'[v] = len[v] /\ len[v] < cap[v]
        \/ \E w \in Live : data'[v] = data[w] /\ data'[w] = data[v]
        \/ ~alive'[v]
SpansStable == [][\A v \in Live : SpanKept(v)]_vectorVars

(* The vectors are sequences of digits that only the operations named for it *)
(* change; all memory management is invisible.                               *)
Sequences == INSTANCE DigitSeq WITH
    seq <- [v \in Vecs |-> Contents(v)], MaxLen <- MaxCap
ImplementsSequences == Sequences!Spec
=============================================================================
