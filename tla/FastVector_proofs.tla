------------------------- MODULE FastVector_proofs --------------------------
(* Proofs about fast_vector, for any vectors, addresses, digits, capacity    *)
(* and growth policy: each block has one owner that knows its size, spans    *)
(* survive whatever does not outgrow them, and the vectors are sequences.    *)
(*                                                                           *)
(* A result of realloc is Good for a vector when it holds the cells that     *)
(* fit and takes no block of another vector; Install keeps the invariant for *)
(* every good result, so that each operation needs no more than the bounds   *)
(* of what it asks for.                                                      *)
EXTENDS FastVector, SequenceTheorems, TLAPS

(* A block that a vector points to is not one that the allocator may return. *)
Held == \A v \in Vecs : data[v] # NULL => heap[data[v]] # <<>>

IInv == VectorTypeOK /\ BlocksOwned /\ Held

----------------------------------------------------------------------------
(* Sequences as functions.                                                   *)
LEMMA FunctionSeq ==
    ASSUME NEW n \in Nat, NEW s \in [1 .. n -> Digits]
    PROVE  s \in Seq(Digits) /\ Len(s) = n /\ DOMAIN s = 1 .. n /\ (s = <<>> <=> n = 0)
<1>1. s \in Seq(Digits)
  BY SeqDef
<1>2. Len(s) \in Nat /\ DOMAIN s = 1 .. Len(s)
  BY <1>1, LenProperties
<1>3. DOMAIN s = 1 .. n
  OBVIOUS
<1>4. Len(s) = n
  <2>1. 1 .. n = 1 .. Len(s)
    BY <1>2, <1>3
  <2>2. \A k \in Int : k \in 1 .. n <=> k \in 1 .. Len(s)
    BY <2>1
  <2>3. n <= Len(s) /\ Len(s) <= n
    BY <2>2, <1>2
  <2>4. QED
    BY <2>3, <1>2
<1>5. s = <<>> <=> n = 0
  BY <1>1, <1>4, EmptySeq
<1>6. QED
  BY <1>1, <1>3, <1>4, <1>5

LEMMA SeqFunction ==
    ASSUME NEW s \in Seq(Digits)
    PROVE  /\ Len(s) \in Nat /\ s \in [1 .. Len(s) -> Digits] /\ DOMAIN s = 1 .. Len(s)
           /\ s = <<>> <=> Len(s) = 0
BY LenProperties, EmptySeq

(* The first n cells.                                                        *)
LEMMA Prefix ==
    ASSUME NEW s, NEW n \in Nat, \A j \in 1 .. n : s[j] \in Digits
    PROVE  /\ SubSeq(s, 1, n) \in [1 .. n -> Digits]
           /\ SubSeq(s, 1, n) = [j \in 1 .. n |-> s[j]]
<1>1. /\ SubSeq(s, 1, n) \in Seq(Digits)
      /\ Len(SubSeq(s, 1, n)) = n
      /\ \A j \in 1 .. n : SubSeq(s, 1, n)[j] = s[j]
  <2>1. /\ SubSeq(s, 1, n) \in Seq(Digits)
        /\ Len(SubSeq(s, 1, n)) = IF 1 <= n THEN n - 1 + 1 ELSE 0
        /\ \A j \in 1 .. n - 1 + 1 : SubSeq(s, 1, n)[j] = s[1 + j - 1]
    BY SubSeqProperties
  <2>2. n - 1 + 1 = n /\ (~(1 <= n) => n = 0) /\ \A j \in 1 .. n : 1 + j - 1 = j
    OBVIOUS
  <2>3. QED
    BY <2>1, <2>2
<1>2. SubSeq(s, 1, n) \in [1 .. n -> Digits]
  BY <1>1, LenProperties
<1>3. QED
  BY <1>1, <1>2

----------------------------------------------------------------------------
(* Facts about one vector.                                                   *)
LEMMA CellsFacts ==
    ASSUME IInv, NEW v \in Vecs
    PROVE  /\ Cells(v) \in [1 .. cap[v] -> Digits]
           /\ cap[v] \in 0 .. MaxCap /\ len[v] \in 0 .. MaxCap /\ len[v] <= cap[v]
           /\ data[v] = NULL <=> cap[v] = 0
           /\ data[v] = NULL => len[v] = 0
<1>1. cap[v] \in 0 .. MaxCap /\ len[v] \in 0 .. MaxCap /\ len[v] <= cap[v]
  BY DEF IInv, VectorTypeOK
<1>2. Cells(v) \in Seq(Digits)
  BY EmptySeq DEF IInv, VectorTypeOK, Cells
<1>3. Cells(v) \in [1 .. cap[v] -> Digits]
  BY <1>2, SeqFunction DEF IInv, BlocksOwned
<1>4. data[v] = NULL <=> cap[v] = 0
  <2>1. cap[v] = Len(Cells(v))
    BY DEF IInv, BlocksOwned
  <2>2. data[v] = NULL <=> Cells(v) = <<>>
    BY DEF Cells, IInv, Held
  <2>3. QED
    BY <2>1, <2>2, <1>2, SeqFunction
<1>5. data[v] = NULL => len[v] = 0
  BY <1>1, <1>4, FastVectorAssumption
<1>6. QED
  BY <1>1, <1>3, <1>4, <1>5

LEMMA ContentsFacts ==
    ASSUME IInv, NEW v \in Vecs
    PROVE  /\ Contents(v) = [j \in 1 .. len[v] |-> Cells(v)[j]]
           /\ Contents(v) \in [1 .. len[v] -> Digits]
           /\ Contents(v) \in Seq(Digits) /\ Len(Contents(v)) = len[v]
           /\ DOMAIN Contents(v) = 1 .. len[v]
           /\ Contents(v) = <<>> <=> len[v] = 0
<1>1. len[v] \in Nat
  BY CellsFacts, FastVectorAssumption
<1>2. \A j \in 1 .. len[v] : Cells(v)[j] \in Digits
  BY CellsFacts, FastVectorAssumption
<1>3. /\ Contents(v) \in [1 .. len[v] -> Digits]
      /\ Contents(v) = [j \in 1 .. len[v] |-> Cells(v)[j]]
  BY <1>1, <1>2, Prefix DEF Contents
<1>4. QED
  BY <1>1, <1>3, FunctionSeq

----------------------------------------------------------------------------
(* What realloc and reserve return.                                          *)
Good(v, r) ==
    /\ r.data \in Blocks \cup {NULL} /\ r.cap \in 0 .. MaxCap
    /\ DOMAIN r.heap = Blocks
    /\ r.data = NULL => r.cap = 0
    /\ r.data # NULL => r.cap > 0 /\ r.heap[r.data] \in [1 .. r.cap -> Digits]
    /\ \A w \in Vecs \ {v} :
           data[w] # NULL => data[w] # r.data /\ r.heap[data[w]] = heap[data[w]]
    /\ \A k \in Blocks :
           k = r.data \/ (\E w \in Vecs \ {v} : data[w] = k) \/ r.heap[k] = <<>>
    /\ \A j \in 1 .. r.cap : j <= cap[v] => r.heap[r.data][j] = Cells(v)[j]

LEMMA ReallocatedGood ==
    ASSUME IInv, NEW v \in Vecs, NEW n \in 0 .. MaxCap, NEW r \in Reallocated(v, n)
    PROVE  Good(v, r) /\ r.cap = n
<1> n \in Nat
  BY FastVectorAssumption
<1>a. \A w \in Vecs \ {v} : data[w] # NULL => data[w] \in Blocks /\ data[w] # data[v]
  BY DEF IInv, VectorTypeOK, BlocksOwned
<1>b. \A k \in Blocks : heap[k] # <<>> => \E w \in Vecs : data[w] = k
  BY DEF IInv, BlocksOwned, FreeBlocks
<1>1. CASE n = 0
  <2>1. /\ r.data = NULL /\ r.cap = 0
        /\ r.heap = [k \in Blocks |-> IF k = data[v] THEN <<>> ELSE heap[k]]
    BY <1>1 DEF Reallocated
  <2>2. \A k \in Blocks : (\E w \in Vecs \ {v} : data[w] = k) \/ r.heap[k] = <<>>
    BY <2>1, <1>b
  <2>3. \A w \in Vecs \ {v} :
           data[w] # NULL => data[w] # r.data /\ r.heap[data[w]] = heap[data[w]]
    BY <2>1, <1>a
  <2>4. \A j \in 1 .. r.cap : FALSE
    BY <2>1
  <2>5. QED
    BY <1>1, <2>1, <2>2, <2>3, <2>4, FastVectorAssumption DEF Good
<1>2. CASE n # 0
  <2>1. PICK p \in FreeBlocks \cup ({data[v]} \ {NULL}), s \in Grown(v, n) :
           r = [data |-> p, cap |-> n,
                heap |-> [k \in Blocks |->
                             IF k = p THEN s ELSE IF k = data[v] THEN <<>> ELSE heap[k]]]
    BY <1>2 DEF Reallocated
  <2>2. /\ r.data = p /\ r.cap = n
        /\ r.heap = [k \in Blocks |->
                        IF k = p THEN s ELSE IF k = data[v] THEN <<>> ELSE heap[k]]
    BY <2>1
  <2>3. p \in Blocks /\ p # NULL
    BY FastVectorAssumption DEF FreeBlocks, IInv, VectorTypeOK
  <2>4. s \in [1 .. n -> Digits] /\ \A j \in 1 .. n : j <= cap[v] => s[j] = Cells(v)[j]
    BY DEF Grown
  <2>5. \A w \in Vecs \ {v} : data[w] # NULL => data[w] # p
    <3>1. CASE p \in FreeBlocks
      BY <3>1 DEF FreeBlocks, IInv, Held
    <3>2. CASE p = data[v]
      BY <3>2, <1>a
    <3>3. QED
      BY <3>1, <3>2
  <2>6. \A w \in Vecs \ {v} :
           data[w] # NULL => data[w] # r.data /\ r.heap[data[w]] = heap[data[w]]
    BY <2>2, <2>5, <1>a
  <2>7. \A k \in Blocks :
           k = r.data \/ (\E w \in Vecs \ {v} : data[w] = k) \/ r.heap[k] = <<>>
    BY <2>2, <1>b
  <2>8. r.heap[r.data] = s
    BY <2>2, <2>3
  <2>9. QED
    BY <1>2, <2>2, <2>3, <2>4, <2>6, <2>7, <2>8 DEF Good
<1>3. QED
  BY <1>1, <1>2

LEMMA NowGood ==
    ASSUME IInv, NEW v \in Vecs
    PROVE  Good(v, Now(v))
<1>1. /\ data[v] \in Blocks \cup {NULL} /\ DOMAIN heap = Blocks
      /\ data[v] # NULL => Cells(v) = heap[data[v]]
  BY DEF IInv, VectorTypeOK, Cells
<1>2. \A w \in Vecs \ {v} : data[w] # NULL => data[w] # data[v]
  BY DEF IInv, BlocksOwned
<1>3. \A k \in Blocks : k = data[v] \/ (\E w \in Vecs \ {v} : data[w] = k) \/ heap[k] = <<>>
  BY DEF IInv, BlocksOwned, FreeBlocks
<1>4. /\ Cells(v) \in [1 .. cap[v] -> Digits] /\ cap[v] \in 0 .. MaxCap
      /\ data[v] = NULL <=> cap[v] = 0
  BY CellsFacts
<1>5. data[v] # NULL => cap[v] > 0
  BY <1>4, FastVectorAssumption
<1>6. \A j \in 1 .. cap[v] : heap[data[v]][j] = Cells(v)[j]
  <2>1. CASE data[v] = NULL
    BY <2>1, <1>4
  <2>2. CASE data[v] # NULL
    BY <2>2, <1>1
  <2>3. QED
    BY <2>1, <2>2
<1>7. QED
  BY <1>1, <1>2, <1>3, <1>4, <1>5, <1>6 DEF Good, Now

LEMMA ReservedGood ==
    ASSUME IInv, NEW v \in Vecs, NEW n \in 0 .. MaxCap, NEW r \in Reserved(v, n)
    PROVE  /\ Good(v, r) /\ r.cap >= n /\ r.cap >= cap[v]
           /\ r.data # data[v] => r.cap > cap[v]
<1>1. cap[v] \in 0 .. MaxCap /\ n \in Nat
  BY CellsFacts, FastVectorAssumption
<1>2. CASE n > cap[v]
  BY <1>1, <1>2, ReallocatedGood DEF Reserved
<1>3. CASE ~(n > cap[v])
  <2>1. r = Now(v)
    BY <1>3 DEF Reserved
  <2>2. r.data = data[v] /\ r.cap = cap[v]
    BY <2>1 DEF Now
  <2>3. QED
    BY <1>1, <1>3, <2>1, <2>2, NowGood
<1>4. QED
  BY <1>2, <1>3

----------------------------------------------------------------------------
(* Install.                                                                  *)
Merged(r, n, new) ==
    [j \in 1 .. n |-> IF j \in DOMAIN new THEN new[j] ELSE r.heap[r.data][j]]

LEMMA InstallFacts ==
    ASSUME IInv, NEW v \in Vecs, NEW r, Good(v, r), NEW n \in 0 .. r.cap, NEW new,
           \A j \in 1 .. r.cap : j \in DOMAIN new => new[j] \in Digits,
           alive' \in [Vecs -> BOOLEAN], alive'[v], \A w \in Vecs : alive[w] => alive'[w],
           op' \in Operations, Install(v, r, n, new)
    PROVE  /\ IInv'
           /\ \A w \in Vecs \ {v} : Contents(w)' = Contents(w)
           /\ Contents(v)' = Merged(r, n, new)
<1> DEFINE filled == [j \in 1 .. r.cap |->
                         IF j \in DOMAIN new THEN new[j] ELSE r.heap[r.data][j]]
<1>1. r.cap \in 0 .. MaxCap /\ r.cap \in Nat /\ n \in 0 .. MaxCap /\ n <= r.cap /\ n \in Nat
  BY FastVectorAssumption DEF Good
<1>2. /\ data' = [data EXCEPT ![v] = r.data]
      /\ cap' = [cap EXCEPT ![v] = r.cap]
      /\ len' = [len EXCEPT ![v] = n]
      /\ heap' = [k \in Blocks |->
                     IF k = r.data
                     THEN [j \in DOMAIN r.heap[k] |->
                              IF j \in DOMAIN new THEN new[j] ELSE r.heap[k][j]]
                     ELSE r.heap[k]]
  BY DEF Install
<1>3. /\ data \in [Vecs -> Blocks \cup {NULL}] /\ DOMAIN heap = Blocks
      /\ len \in [Vecs -> 0 .. MaxCap] /\ cap \in [Vecs -> 0 .. MaxCap]
      /\ \A k \in Blocks : heap[k] \in Seq(Digits) /\ Len(heap[k]) <= MaxCap
      /\ \A w \in Vecs : len[w] <= cap[w]
  BY DEF IInv, VectorTypeOK
<1>4. /\ data' \in [Vecs -> Blocks \cup {NULL}]
      /\ len' \in [Vecs -> 0 .. MaxCap] /\ cap' \in [Vecs -> 0 .. MaxCap]
      /\ DOMAIN heap' = Blocks
      /\ data'[v] = r.data /\ len'[v] = n /\ cap'[v] = r.cap
  BY <1>1, <1>2, <1>3 DEF Good
<1>5. ASSUME NEW w \in Vecs \ {v}
      PROVE  /\ data'[w] = data[w] /\ len'[w] = len[w] /\ cap'[w] = cap[w]
             /\ data[w] # NULL => data[w] # r.data /\ heap'[data[w]] = heap[data[w]]
             /\ Cells(w)' = Cells(w)
  <2>1. data'[w] = data[w] /\ len'[w] = len[w] /\ cap'[w] = cap[w]
    BY <1>2, <1>3
  <2>2. data[w] # NULL => data[w] # r.data /\ heap'[data[w]] = heap[data[w]]
    BY <1>2, <1>3 DEF Good
  <2>3. QED
    BY <2>1, <2>2 DEF Cells
<1>6. ASSUME r.data # NULL
      PROVE  /\ heap'[r.data] = filled /\ filled \in [1 .. r.cap -> Digits]
             /\ filled \in Seq(Digits) /\ Len(filled) = r.cap /\ filled # <<>>
  <2>1. r.data \in Blocks /\ r.cap > 0 /\ r.heap[r.data] \in [1 .. r.cap -> Digits]
    BY <1>6 DEF Good
  <2>2. heap'[r.data] = filled
    BY <1>2, <2>1
  <2>3. filled \in [1 .. r.cap -> Digits]
    BY <2>1
  <2> HIDE DEF filled
  <2>4. QED
    BY <1>1, <2>1, <2>2, <2>3, FunctionSeq
<1>7. ASSUME NEW k \in Blocks
      PROVE  /\ heap'[k] \in Seq(Digits) /\ Len(heap'[k]) <= MaxCap
             /\ heap'[k] = <<>> \/ \E w \in Vecs : data'[w] = k
  <2>1. CASE k = r.data
    BY <2>1, <1>1, <1>4, <1>6, FastVectorAssumption
  <2>2. CASE k # r.data /\ \E w \in Vecs \ {v} : data[w] = k
    <3>1. PICK w \in Vecs \ {v} : data[w] = k
      BY <2>2
    <3>2. data[w] # NULL
      BY <3>1, FastVectorAssumption
    <3>3. heap'[k] = heap[k] /\ data'[w] = k
      BY <3>1, <3>2, <1>5
    <3>4. QED
      BY <3>3, <1>3
  <2>3. CASE k # r.data /\ r.heap[k] = <<>>
    <3>1. heap'[k] = <<>>
      BY <2>3, <1>2
    <3>2. QED
      BY <3>1, EmptySeq, FastVectorAssumption
  <2>4. QED
    BY <2>1, <2>2, <2>3 DEF Good
<1>8. VectorTypeOK'
  <2>1. \A w \in Vecs : len'[w] <= cap'[w]
    BY <1>1, <1>3, <1>4, <1>5
  <2>2. QED
    BY <1>4, <1>7, <2>1 DEF VectorTypeOK
<1>9. Cells(v)' = IF r.data = NULL THEN <<>> ELSE filled
  BY <1>4, <1>6 DEF Cells
<1>10. BlocksOwned'
  <2>1. \A w \in Vecs : data'[w] # NULL => alive'[w]
    BY <1>5 DEF IInv, BlocksOwned
  <2>2. ASSUME NEW u \in Vecs, NEW w \in Vecs, data'[u] = data'[w], data'[u] # NULL
        PROVE  u = w
    <3>1. u = v => w = v
      BY <2>2, <1>4, <1>5
    <3>2. w = v => u = v
      BY <2>2, <1>4, <1>5
    <3>3. u # v /\ w # v => data[u] = data[w] /\ data[u] # NULL
      BY <2>2, <1>5
    <3>4. QED
      BY <3>1, <3>2, <3>3 DEF IInv, BlocksOwned
  <2>3. cap'[v] = Len(Cells(v)')
    <3>1. CASE r.data = NULL
      BY <3>1, <1>4, <1>9, EmptySeq DEF Good
    <3>2. CASE r.data # NULL
      BY <3>2, <1>4, <1>6, <1>9
    <3>3. QED
      BY <3>1, <3>2
  <2>4. \A w \in Vecs : cap'[w] = Len(Cells(w)')
    BY <2>3, <1>5 DEF IInv, BlocksOwned
  <2>5. (Blocks \ FreeBlocks \subseteq {data[w] : w \in Vecs})'
    BY <1>7 DEF FreeBlocks
  <2>6. QED
    BY <2>1, <2>2, <2>4, <2>5 DEF BlocksOwned
<1>11. Held'
  <2>1. ASSUME NEW w \in Vecs, data'[w] # NULL
        PROVE  heap'[data'[w]] # <<>>
    <3>1. CASE w = v
      BY <3>1, <2>1, <1>4, <1>6
    <3>2. CASE w # v
      <4>1. data'[w] = data[w] /\ heap'[data[w]] = heap[data[w]]
        BY <3>2, <2>1, <1>5
      <4>2. QED
        BY <4>1, <2>1 DEF IInv, Held
    <3>3. QED
      BY <3>1, <3>2
  <2>2. QED
    BY <2>1 DEF Held
<1>12. \A w \in Vecs \ {v} : Contents(w)' = Contents(w)
  BY <1>5 DEF Contents
<1>13. Contents(v)' = Merged(r, n, new)
  <2> DEFINE cells == Cells(v)'
  <2>1. Contents(v)' = SubSeq(cells, 1, n)
    BY <1>4 DEF Contents
  <2>2. ASSUME NEW j \in 1 .. n
        PROVE  /\ cells[j] \in Digits
               /\ cells[j] = IF j \in DOMAIN new THEN new[j] ELSE r.heap[r.data][j]
    <3>1. r.data # NULL /\ j \in 1 .. r.cap
      BY <1>1 DEF Good
    <3>2. cells = filled
      BY <3>1, <1>9
    <3>3. filled[j] \in Digits
      BY <3>1, <1>6
    <3>4. filled[j] = IF j \in DOMAIN new THEN new[j] ELSE r.heap[r.data][j]
      BY <3>1
    <3>5. QED
      BY <3>2, <3>3, <3>4
  <2> HIDE DEF cells
  <2>3. SubSeq(cells, 1, n) = [j \in 1 .. n |-> cells[j]]
    BY <2>2, <1>1, Prefix
  <2>4. [j \in 1 .. n |-> cells[j]] =
            [j \in 1 .. n |-> IF j \in DOMAIN new THEN new[j] ELSE r.heap[r.data][j]]
    BY <2>2
  <2>5. QED
    BY <2>1, <2>3, <2>4 DEF Merged
<1>14. QED
  BY <1>8, <1>10, <1>11, <1>12, <1>13 DEF IInv

----------------------------------------------------------------------------
(* The two kinds of steps: one vector becomes s, or none changes.            *)
LEMMA SetStep ==
    ASSUME NEW v \in Vecs, NEW s, NEW name, op' = name, Contents(v)' = s,
           \A w \in Vecs \ {v} : Contents(w)' = Contents(w)
    PROVE  Sequences!Set(name, v, s)
<1>1. [w \in Vecs |-> Contents(w)'] = [[w \in Vecs |-> Contents(w)] EXCEPT ![v] = s]
  OBVIOUS
<1>2. QED
  BY <1>1 DEF Sequences!Set

LEMMA NoneNew == \A j \in Int : j \notin DOMAIN <<>>
<1>1. DOMAIN <<>> = 1 .. 0
  BY EmptySeq, LenProperties
<1>2. QED
  BY <1>1

(* The result that an operation installs keeps the elements that fit.        *)
LEMMA KeptCells ==
    ASSUME IInv, NEW v \in Vecs, NEW r, Good(v, r), NEW n \in 0 .. r.cap
    PROVE  /\ \A j \in 1 .. n : j <= len[v] => r.heap[r.data][j] = Contents(v)[j]
           /\ \A j \in 1 .. n : r.heap[r.data][j] \in Digits
<1>1. len[v] \in Nat /\ cap[v] \in Nat /\ len[v] <= cap[v] /\ r.cap \in Nat
  BY CellsFacts, FastVectorAssumption DEF Good
<1>2. Contents(v) = [j \in 1 .. len[v] |-> Cells(v)[j]]
  BY ContentsFacts
<1>3. \A j \in 1 .. n : j <= len[v] => r.heap[r.data][j] = Contents(v)[j]
  BY <1>1, <1>2 DEF Good
<1>4. \A j \in 1 .. n : r.heap[r.data][j] \in Digits
  BY <1>1 DEF Good
<1>5. QED
  BY <1>3, <1>4

----------------------------------------------------------------------------
(* Every operation keeps the invariant, acts on the sequences as its         *)
(* abstract counterpart and keeps the spans that it may not invalidate.      *)
Span == \A v \in Live : SpanKept(v)

LEMMA ConstructStep ==
    ASSUME IInv, NEW v \in Vecs, Construct(v)
    PROVE  IInv' /\ Span /\ Sequences!Empty(v)
<1>1. alive \in [Vecs -> BOOLEAN] /\ alive' = [alive EXCEPT ![v] = TRUE]
      /\ ~alive[v] /\ op' = "empty" /\ UNCHANGED <<data, len, cap, heap>>
  BY DEF Construct, IInv, VectorTypeOK
<1>2. \A w \in Vecs : Cells(w)' = Cells(w) /\ Contents(w)' = Contents(w)
  BY <1>1 DEF Cells, Contents
<1>3. VectorTypeOK'
  <2>1. op' \in Operations
    BY <1>1 DEF Operations
  <2>2. alive' \in [Vecs -> BOOLEAN]
    BY <1>1
  <2>3. QED
    BY <1>1, <2>1, <2>2, Zenon DEF VectorTypeOK, IInv
<1>4. BlocksOwned'
  BY <1>1, <1>2 DEF BlocksOwned, IInv, FreeBlocks
<1>5. Held'
  BY <1>1 DEF Held, IInv
<1>6. Contents(v) = <<>>
  <2>1. data[v] = NULL
    BY <1>1 DEF IInv, BlocksOwned
  <2>2. QED
    BY <2>1, CellsFacts, ContentsFacts
<1>7. Sequences!Empty(v)
  BY <1>1, <1>2, <1>6, SetStep DEF Sequences!Empty
<1>8. Span
  BY <1>1 DEF Span, SpanKept, Live
<1>9. QED
  BY <1>3, <1>4, <1>5, <1>7, <1>8 DEF IInv

(* Construction from a size, a list or a vector: v had no block.             *)
LEMMA FreshStep ==
    ASSUME IInv, NEW v \in Vecs, ~alive[v], alive' = [alive EXCEPT ![v] = TRUE],
           NEW n \in 0 .. MaxCap, NEW r \in Reserved(v, n), NEW new,
           \A j \in 1 .. r.cap : j \in DOMAIN new => new[j] \in Digits,
           op' \in Operations, Install(v, r, n, new)
    PROVE  /\ IInv' /\ Span
           /\ \A w \in Vecs \ {v} : Contents(w)' = Contents(w)
           /\ Contents(v)' = Merged(r, n, new)
<1>1. Good(v, r) /\ r.cap >= n /\ r.cap \in 0 .. MaxCap
  BY ReservedGood DEF Good
<1>2. n \in 0 .. r.cap
  BY <1>1, FastVectorAssumption
<1>3. alive' \in [Vecs -> BOOLEAN] /\ alive'[v] /\ \A w \in Vecs : alive[w] => alive'[w]
  BY DEF IInv, VectorTypeOK
<1>4. data' = [data EXCEPT ![v] = r.data] /\ data \in [Vecs -> Blocks \cup {NULL}]
  BY DEF Install, IInv, VectorTypeOK
<1>5. Span
  BY <1>4 DEF Span, SpanKept, Live
<1>6. QED
  BY <1>1, <1>2, <1>3, <1>5, InstallFacts

(* A live vector after reserve(n).                                           *)
LEMMA LiveStep ==
    ASSUME IInv, NEW v \in Vecs, alive[v], UNCHANGED alive,
           NEW m \in 0 .. MaxCap, NEW r \in Reserved(v, m), NEW n \in 0 .. r.cap, NEW new,
           \A j \in 1 .. r.cap : j \in DOMAIN new => new[j] \in Digits,
           op' \in Operations, Install(v, r, n, new)
    PROVE  /\ IInv' /\ Span
           /\ \A w \in Vecs \ {v} : Contents(w)' = Contents(w)
           /\ Contents(v)' = Merged(r, n, new)
<1>1. Good(v, r) /\ r.data # data[v] => r.cap > cap[v]
  BY ReservedGood
<1>2. Good(v, r)
  BY ReservedGood
<1>3. alive' \in [Vecs -> BOOLEAN] /\ alive'[v] /\ \A w \in Vecs : alive[w] => alive'[w]
  BY DEF IInv, VectorTypeOK
<1>4. /\ data' = [data EXCEPT ![v] = r.data] /\ data \in [Vecs -> Blocks \cup {NULL}]
      /\ cap' = [cap EXCEPT ![v] = r.cap] /\ cap \in [Vecs -> 0 .. MaxCap]
  BY DEF Install, IInv, VectorTypeOK
<1>5. Span
  BY <1>1, <1>2, <1>4 DEF Span, SpanKept, Live
<1>6. QED
  BY <1>2, <1>3, <1>5, InstallFacts

----------------------------------------------------------------------------
LEMMA ConstructSizedStep ==
    ASSUME IInv, NEW v \in Vecs, ConstructSized(v)
    PROVE  IInv' /\ Span /\ Sequences!Resize(v)
<1>1. ~alive[v] /\ alive' = [alive EXCEPT ![v] = TRUE] /\ op' = "resize"
  BY DEF ConstructSized
<1>2. PICK n \in 0 .. MaxCap : \E r \in Reserved(v, n) : Install(v, r, n, <<>>)
  BY DEF ConstructSized
<1>3. PICK r \in Reserved(v, n) : Install(v, r, n, <<>>)
  BY <1>2
<1> DEFINE none == <<>>
           s == Merged(r, n, none)
<1>n. \A j \in Int : j \notin DOMAIN none
  BY NoneNew
<1>i. Install(v, r, n, none)
  BY <1>3
<1> HIDE DEF none
<1>4. Good(v, r) /\ n \in 0 .. r.cap
  BY ReservedGood, FastVectorAssumption DEF Good
<1>5. /\ IInv' /\ Span /\ Contents(v)' = s
      /\ \A w \in Vecs \ {v} : Contents(w)' = Contents(w)
  <2>1. \A j \in 1 .. r.cap : j \in DOMAIN none => none[j] \in Digits
    BY <1>n, <1>4 DEF Good
  <2>2. op' \in Operations
    BY <1>1 DEF Operations
  <2>3. QED
    BY <1>1, <1>i, <2>1, <2>2, FreshStep
<1>6. s \in [1 .. n -> Digits]
  BY <1>4, <1>n, KeptCells DEF Merged
<1>7. Len(Contents(v)) = 0
  <2>1. data[v] = NULL
    BY <1>1 DEF IInv, BlocksOwned
  <2>2. QED
    BY <2>1, CellsFacts, ContentsFacts
<1>8. \A j \in 1 .. n : j <= Len(Contents(v)) => s[j] = Contents(v)[j]
  BY <1>7
<1>9. Sequences!Set("resize", v, s)
  BY <1>1, <1>5, SetStep
<1> HIDE DEF s
<1>10. Sequences!Resize(v)
  BY <1>6, <1>8, <1>9 DEF Sequences!Resize
<1>11. QED
  BY <1>5, <1>10

LEMMA ConstructListStep ==
    ASSUME IInv, NEW v \in Vecs, ConstructList(v)
    PROVE  IInv' /\ Span /\ Sequences!List(v)
<1>1. ~alive[v] /\ alive' = [alive EXCEPT ![v] = TRUE] /\ op' = "list"
  BY DEF ConstructList
<1>2. PICK n \in 0 .. MaxCap :
         \E init \in [1 .. n -> Digits], r \in Reserved(v, n) : Install(v, r, n, init)
  BY DEF ConstructList
<1>3. PICK init \in [1 .. n -> Digits], r \in Reserved(v, n) : Install(v, r, n, init)
  BY <1>2
<1> DEFINE s == Merged(r, n, init)
<1>4. /\ IInv' /\ Span /\ Contents(v)' = s
      /\ \A w \in Vecs \ {v} : Contents(w)' = Contents(w)
  <2>1. op' \in Operations
    BY <1>1 DEF Operations
  <2>2. \A j \in 1 .. r.cap : j \in DOMAIN init => init[j] \in Digits
    OBVIOUS
  <2>3. QED
    BY <1>1, <1>3, <2>1, <2>2, FreshStep
<1>5. s = init
  BY DEF Merged
<1>6. Sequences!Set("list", v, init)
  BY <1>1, <1>4, <1>5, SetStep
<1>7. QED
  BY <1>4, <1>6 DEF Sequences!List

LEMMA CopyConstructStep ==
    ASSUME IInv, NEW v \in Vecs, NEW w \in Vecs, CopyConstruct(v, w)
    PROVE  IInv' /\ Span /\ Sequences!Copy(v, w)
<1>1. /\ ~alive[v] /\ alive[w] /\ alive' = [alive EXCEPT ![v] = TRUE] /\ op' = "copy"
      /\ data[v] = NULL
  BY DEF CopyConstruct, IInv, BlocksOwned
<1>2. CASE data[w] = NULL
  <2>1. UNCHANGED <<data, len, cap, heap>>
    BY <1>2 DEF CopyConstruct
  <2>2. \A u \in Vecs : Cells(u)' = Cells(u) /\ Contents(u)' = Contents(u)
    BY <2>1 DEF Cells, Contents
  <2>3. VectorTypeOK'
    <3>1. op' \in Operations
      BY <1>1 DEF Operations
    <3>2. alive' \in [Vecs -> BOOLEAN]
      BY <1>1 DEF IInv, VectorTypeOK
    <3>3. QED
      BY <2>1, <3>1, <3>2, Zenon DEF VectorTypeOK, IInv
  <2>4. BlocksOwned'
    <3>1. \A u \in Vecs : alive[u] => alive'[u]
      BY <1>1 DEF IInv, VectorTypeOK
    <3>2. QED
      BY <2>1, <2>2, <3>1 DEF BlocksOwned, IInv, FreeBlocks
  <2>5. Held'
    BY <2>1 DEF Held, IInv
  <2>6. Contents(v) = <<>> /\ Contents(w) = <<>>
    BY <1>1, <1>2, CellsFacts, ContentsFacts
  <2>7. Sequences!Copy(v, w)
    BY <1>1, <2>2, <2>6, SetStep DEF Sequences!Copy
  <2>8. Span
    BY <2>1 DEF Span, SpanKept, Live
  <2>9. QED
    BY <2>3, <2>4, <2>5, <2>7, <2>8 DEF IInv
<1>3. CASE data[w] # NULL
  <2>1. PICK r \in Reserved(v, len[w]) : Install(v, r, len[w], Contents(w))
    BY <1>3 DEF CopyConstruct
  <2>2. /\ len[w] \in 0 .. MaxCap /\ Contents(w) \in [1 .. len[w] -> Digits]
        /\ DOMAIN Contents(w) = 1 .. len[w]
    BY CellsFacts, ContentsFacts
  <2> DEFINE s == Merged(r, len[w], Contents(w))
  <2>3. /\ IInv' /\ Span /\ Contents(v)' = s
        /\ \A u \in Vecs \ {v} : Contents(u)' = Contents(u)
    <3>1. op' \in Operations
      BY <1>1 DEF Operations
    <3>2. \A j \in 1 .. r.cap : j \in DOMAIN Contents(w) => Contents(w)[j] \in Digits
      BY <2>2
    <3>3. QED
      BY <1>1, <2>1, <2>2, <3>1, <3>2, FreshStep
  <2>4. s = Contents(w)
    BY <2>2 DEF Merged
  <2>5. QED
    BY <1>1, <2>3, <2>4, SetStep DEF Sequences!Copy
<1>4. QED
  BY <1>2, <1>3

LEMMA CopyAssignStep ==
    ASSUME IInv, NEW v \in Vecs, NEW w \in Vecs, CopyAssign(v, w)
    PROVE  IInv' /\ Span /\ Sequences!Copy(v, w)
<1>1. alive[v] /\ alive[w] /\ v # w /\ UNCHANGED alive /\ op' = "copy"
  BY DEF CopyAssign
<1>2. PICK r \in Reserved(v, len[w]) : Install(v, r, len[w], Contents(w))
  BY DEF CopyAssign
<1>3. /\ len[w] \in 0 .. MaxCap /\ Contents(w) \in [1 .. len[w] -> Digits]
      /\ DOMAIN Contents(w) = 1 .. len[w]
  BY CellsFacts, ContentsFacts
<1>4. len[w] \in 0 .. r.cap
  BY <1>3, ReservedGood, FastVectorAssumption DEF Good
<1> DEFINE s == Merged(r, len[w], Contents(w))
<1>5. /\ IInv' /\ Span /\ Contents(v)' = s
      /\ \A u \in Vecs \ {v} : Contents(u)' = Contents(u)
  <2>1. op' \in Operations
    BY <1>1 DEF Operations
  <2>2. \A j \in 1 .. r.cap : j \in DOMAIN Contents(w) => Contents(w)[j] \in Digits
    BY <1>3
  <2>3. QED
    BY <1>1, <1>2, <1>3, <1>4, <2>1, <2>2, LiveStep
<1>6. s = Contents(w)
  BY <1>3 DEF Merged
<1>7. QED
  BY <1>1, <1>5, <1>6, SetStep DEF Sequences!Copy

LEMMA DestroyStep ==
    ASSUME IInv, NEW v \in Vecs, Destroy(v)
    PROVE  IInv' /\ Span /\ Sequences!Empty(v)
<1>1. /\ alive' = [alive EXCEPT ![v] = FALSE] /\ op' = "empty"
      /\ data' = [data EXCEPT ![v] = NULL]
      /\ len' = [len EXCEPT ![v] = 0] /\ cap' = [cap EXCEPT ![v] = 0]
      /\ heap' = [k \in Blocks |-> IF k = data[v] THEN <<>> ELSE heap[k]]
  BY DEF Destroy
<1>2. /\ alive \in [Vecs -> BOOLEAN]
      /\ data \in [Vecs -> Blocks \cup {NULL}] /\ DOMAIN heap = Blocks
      /\ len \in [Vecs -> 0 .. MaxCap] /\ cap \in [Vecs -> 0 .. MaxCap]
      /\ \A k \in Blocks : heap[k] \in Seq(Digits) /\ Len(heap[k]) <= MaxCap
      /\ \A w \in Vecs : len[w] <= cap[w]
  BY DEF IInv, VectorTypeOK
<1>3. ASSUME NEW w \in Vecs \ {v}
      PROVE  /\ data'[w] = data[w] /\ len'[w] = len[w] /\ cap'[w] = cap[w]
             /\ alive'[w] = alive[w]
             /\ data[w] # NULL => heap'[data[w]] = heap[data[w]]
             /\ Cells(w)' = Cells(w) /\ Contents(w)' = Contents(w)
  <2>1. data'[w] = data[w] /\ len'[w] = len[w] /\ cap'[w] = cap[w] /\ alive'[w] = alive[w]
    BY <1>1, <1>2
  <2>2. data[w] # NULL => heap'[data[w]] = heap[data[w]]
    BY <1>1, <1>2 DEF IInv, BlocksOwned
  <2>3. Cells(w)' = Cells(w)
    BY <2>1, <2>2 DEF Cells
  <2>4. QED
    BY <2>1, <2>2, <2>3 DEF Contents
<1>4. data'[v] = NULL /\ len'[v] = 0 /\ cap'[v] = 0 /\ ~alive'[v]
  BY <1>1, <1>2
<1>5. VectorTypeOK'
  <2>1. op' \in Operations
    BY <1>1 DEF Operations
  <2>2. alive' \in [Vecs -> BOOLEAN]
    BY <1>1, <1>2
  <2>3. /\ data' \in [Vecs -> Blocks \cup {NULL}] /\ DOMAIN heap' = Blocks
        /\ len' \in [Vecs -> 0 .. MaxCap] /\ cap' \in [Vecs -> 0 .. MaxCap]
    BY <1>1, <1>2, FastVectorAssumption
  <2>4. \A k \in Blocks : heap'[k] \in Seq(Digits) /\ Len(heap'[k]) <= MaxCap
    BY <1>1, <1>2, EmptySeq, FastVectorAssumption
  <2>5. \A w \in Vecs : len'[w] <= cap'[w]
    BY <1>2, <1>3, <1>4
  <2>6. QED
    BY <2>1, <2>2, <2>3, <2>4, <2>5 DEF VectorTypeOK
<1>6. BlocksOwned'
  <2>1. \A w \in Vecs : data'[w] # NULL => alive'[w]
    BY <1>3, <1>4 DEF IInv, BlocksOwned
  <2>2. ASSUME NEW u \in Vecs, NEW w \in Vecs, data'[u] = data'[w], data'[u] # NULL
        PROVE  u = w
    <3>1. u # v /\ w # v
      BY <2>2, <1>4
    <3>2. QED
      BY <3>1, <2>2, <1>3 DEF IInv, BlocksOwned
  <2>3. Cells(v)' = <<>>
    BY <1>4 DEF Cells
  <2>4. cap'[v] = Len(Cells(v)')
    BY <2>3, <1>4, EmptySeq
  <2>5. \A w \in Vecs : cap'[w] = Len(Cells(w)')
    BY <2>4, <1>3 DEF IInv, BlocksOwned
  <2>6. (Blocks \ FreeBlocks \subseteq {data[w] : w \in Vecs})'
    <3>1. ASSUME NEW k \in Blocks, heap'[k] # <<>>
          PROVE  \E w \in Vecs : data'[w] = k
      <4>1. k # data[v] /\ heap[k] # <<>>
        BY <3>1, <1>1
      <4>2. PICK w \in Vecs : data[w] = k
        BY <4>1 DEF IInv, BlocksOwned, FreeBlocks
      <4>3. QED
        BY <4>1, <4>2, <1>3
    <3>2. QED
      BY <3>1 DEF FreeBlocks
  <2>7. QED
    BY <2>1, <2>2, <2>5, <2>6 DEF BlocksOwned
<1>7. Held'
  BY <1>3, <1>4 DEF IInv, Held
<1>8. Contents(v)' = <<>>
  BY <1>4, SubSeqEmpty DEF Contents
<1>9. Sequences!Empty(v)
  BY <1>1, <1>3, <1>8, SetStep DEF Sequences!Empty
<1>10. Span
  BY <1>3, <1>4 DEF Span, SpanKept, Live
<1>11. QED
  BY <1>5, <1>6, <1>7, <1>9, <1>10 DEF IInv

LEMMA SwapStep ==
    ASSUME IInv, NEW v \in Vecs, NEW w \in Vecs, Swap(v, w)
    PROVE  IInv' /\ Span /\ Sequences!Swap(v, w)
<1>1. /\ alive[v] /\ alive[w] /\ v # w /\ op' = "swap" /\ UNCHANGED <<alive, heap>>
      /\ data' = [data EXCEPT ![v] = data[w], ![w] = data[v]]
      /\ len' = [len EXCEPT ![v] = len[w], ![w] = len[v]]
      /\ cap' = [cap EXCEPT ![v] = cap[w], ![w] = cap[v]]
  BY DEF Swap
<1>2. /\ data \in [Vecs -> Blocks \cup {NULL}]
      /\ len \in [Vecs -> 0 .. MaxCap] /\ cap \in [Vecs -> 0 .. MaxCap]
      /\ \A u \in Vecs : len[u] <= cap[u]
  BY DEF IInv, VectorTypeOK
<1> DEFINE of(u) == IF u = v THEN w ELSE IF u = w THEN v ELSE u
<1>3. ASSUME NEW u \in Vecs
      PROVE  /\ of(u) \in Vecs /\ of(of(u)) = u /\ alive[u] = alive[of(u)]
             /\ data'[u] = data[of(u)] /\ len'[u] = len[of(u)] /\ cap'[u] = cap[of(u)]
             /\ Cells(u)' = Cells(of(u)) /\ Contents(u)' = Contents(of(u))
  <2>1. of(u) \in Vecs /\ of(of(u)) = u
    BY <1>1
  <2>2. alive[u] = alive[of(u)]
    <3>1. alive \in [Vecs -> BOOLEAN] /\ alive[v] = TRUE /\ alive[w] = TRUE
      BY <1>1 DEF IInv, VectorTypeOK
    <3>2. QED
      BY <3>1
  <2>3. data'[u] = data[of(u)] /\ len'[u] = len[of(u)] /\ cap'[u] = cap[of(u)]
    BY <1>1, <1>2
  <2> HIDE DEF of
  <2>4. Cells(u)' = Cells(of(u))
    BY <1>1, <2>3 DEF Cells
  <2>5. QED
    BY <2>1, <2>2, <2>3, <2>4 DEF Contents
<1> HIDE DEF of
<1>4. VectorTypeOK'
  <2>1. op' \in Operations
    BY <1>1 DEF Operations
  <2>2. /\ data' \in [Vecs -> Blocks \cup {NULL}]
        /\ len' \in [Vecs -> 0 .. MaxCap] /\ cap' \in [Vecs -> 0 .. MaxCap]
    BY <1>1, <1>2
  <2>3. \A u \in Vecs : len'[u] <= cap'[u]
    BY <1>2, <1>3
  <2>4. QED
    BY <1>1, <2>1, <2>2, <2>3, Zenon DEF VectorTypeOK, IInv
<1>5. BlocksOwned'
  <2>1. \A u \in Vecs : data'[u] # NULL => alive'[u]
    BY <1>1, <1>3 DEF IInv, BlocksOwned
  <2>2. ASSUME NEW u \in Vecs, NEW t \in Vecs, data'[u] = data'[t], data'[u] # NULL
        PROVE  u = t
    <3>1. of(u) = of(t)
      BY <2>2, <1>3 DEF IInv, BlocksOwned
    <3>2. QED
      BY <3>1, <1>3
  <2>3. \A u \in Vecs : cap'[u] = Len(Cells(u)')
    BY <1>3 DEF IInv, BlocksOwned
  <2>4. (Blocks \ FreeBlocks \subseteq {data[u] : u \in Vecs})'
    <3>1. ASSUME NEW k \in Blocks, heap'[k] # <<>>
          PROVE  \E u \in Vecs : data'[u] = k
      <4>1. PICK u \in Vecs : data[u] = k
        BY <3>1, <1>1 DEF IInv, BlocksOwned, FreeBlocks
      <4>2. of(u) \in Vecs /\ data'[of(u)] = k
        BY <4>1, <1>3
      <4>3. QED
        BY <4>2
    <3>2. QED
      BY <3>1 DEF FreeBlocks
  <2>5. QED
    BY <2>1, <2>2, <2>3, <2>4 DEF BlocksOwned
<1>6. Held'
  <2>1. ASSUME NEW u \in Vecs, data'[u] # NULL
        PROVE  heap'[data'[u]] # <<>>
    <3>1. of(u) \in Vecs /\ data'[u] = data[of(u)] /\ heap' = heap
      BY <1>1, <1>3
    <3>2. QED
      BY <2>1, <3>1 DEF IInv, Held
  <2>2. QED
    BY <2>1 DEF Held
<1>7. Sequences!Swap(v, w)
  <2>1. [u \in Vecs |-> Contents(u)'] =
            [[u \in Vecs |-> Contents(u)] EXCEPT ![v] = Contents(w), ![w] = Contents(v)]
    BY <1>1, <1>3 DEF of
  <2>2. QED
    BY <1>1, <2>1 DEF Sequences!Swap
<1>8. Span
  <2>1. ASSUME NEW u \in Live, data'[u] # data[u]
        PROVE  \E t \in Live : data'[u] = data[t] /\ data'[t] = data[u]
    <3>1. u = v \/ u = w
      BY <2>1, <1>3 DEF of, Live
    <3>2. /\ data'[v] = data[w] /\ data'[w] = data[v]
          /\ v \in Live /\ w \in Live
      BY <1>1, <1>2 DEF Live
    <3>3. QED
      BY <3>1, <3>2
  <2>2. QED
    BY <2>1 DEF Span, SpanKept
<1>9. QED
  BY <1>4, <1>5, <1>6, <1>7, <1>8 DEF IInv

LEMMA WriteStep ==
    ASSUME IInv, NEW v \in Vecs, Write(v)
    PROVE  IInv' /\ Span /\ Sequences!Write(v)
<1>1. alive[v] /\ op' = "write" /\ UNCHANGED <<alive, data, len, cap>>
  BY DEF Write
<1>2. PICK k \in 1 .. len[v], x \in Digits : heap' = [heap EXCEPT ![data[v]][k] = x]
  BY DEF Write
<1>3. /\ Cells(v) \in [1 .. cap[v] -> Digits] /\ len[v] \in Nat /\ cap[v] \in Nat
      /\ len[v] <= cap[v] /\ data[v] # NULL
  BY CellsFacts, FastVectorAssumption
<1> DEFINE cells == [Cells(v) EXCEPT ![k] = x]
<1>4. /\ data[v] \in Blocks /\ Cells(v) = heap[data[v]] /\ DOMAIN heap = Blocks
      /\ data \in [Vecs -> Blocks \cup {NULL}]
  BY <1>3 DEF IInv, VectorTypeOK, Cells
<1>5. /\ heap'[data[v]] = cells /\ DOMAIN heap' = Blocks
      /\ \A p \in Blocks : p # data[v] => heap'[p] = heap[p]
  BY <1>2, <1>4
<1>6. cells \in [1 .. cap[v] -> Digits]
  BY <1>3
<1> HIDE DEF cells
<1>7. cells \in Seq(Digits) /\ Len(cells) = cap[v] /\ cells # <<>>
  <2>1. cap[v] # 0
    BY <1>3, CellsFacts
  <2>2. cells \in Seq(Digits) /\ Len(cells) = cap[v] /\ (cells = <<>> <=> cap[v] = 0)
    BY <1>3, <1>6, FunctionSeq
  <2>3. QED
    BY <2>1, <2>2
<1>8. Cells(v)' = cells
  BY <1>1, <1>3, <1>5 DEF Cells
<1>9. ASSUME NEW w \in Vecs \ {v}
      PROVE  Cells(w)' = Cells(w) /\ Contents(w)' = Contents(w)
  <2>1. data[w] # NULL => data[w] \in Blocks /\ data[w] # data[v]
    BY <1>4 DEF IInv, BlocksOwned
  <2>2. Cells(w)' = Cells(w)
    BY <2>1, <1>1, <1>5 DEF Cells
  <2>3. QED
    BY <2>2, <1>1 DEF Contents
<1>10. VectorTypeOK'
  <2>1. op' \in Operations
    BY <1>1 DEF Operations
  <2>2. \A p \in Blocks : heap'[p] \in Seq(Digits) /\ Len(heap'[p]) <= MaxCap
    <3>1. \A p \in Blocks : heap[p] \in Seq(Digits) /\ Len(heap[p]) <= MaxCap
      BY DEF IInv, VectorTypeOK
    <3>2. cap[v] <= MaxCap
      BY CellsFacts, FastVectorAssumption
    <3>3. QED
      BY <3>1, <3>2, <1>4, <1>5, <1>7
  <2>3. QED
    BY <1>1, <1>5, <2>1, <2>2, Zenon DEF IInv, VectorTypeOK
<1>11. \A p \in Blocks : heap'[p] = <<>> <=> heap[p] = <<>>
  <2>1. heap[data[v]] # <<>>
    BY <1>3 DEF IInv, Held
  <2>2. QED
    BY <2>1, <1>5, <1>7
<1>12. Held'
  BY <1>1, <1>4, <1>11 DEF IInv, Held
<1>13. BlocksOwned'
  <2>1. \A w \in Vecs : cap'[w] = Len(Cells(w)')
    BY <1>1, <1>7, <1>8, <1>9 DEF IInv, BlocksOwned
  <2>2. FreeBlocks' = FreeBlocks
    BY <1>11 DEF FreeBlocks
  <2>3. QED
    BY <1>1, <2>1, <2>2 DEF IInv, BlocksOwned
<1>14. Sequences!Write(v)
  <2>1. \A j \in 1 .. len[v] : cells[j] \in Digits
    BY <1>3, <1>6
  <2>2. Contents(v)' = [j \in 1 .. len[v] |-> cells[j]]
    BY <1>1, <1>3, <1>8, <2>1, Prefix DEF Contents
  <2>3. Contents(v) = [j \in 1 .. len[v] |-> Cells(v)[j]]
    BY ContentsFacts
  <2>4. \A j \in 1 .. len[v] : cells[j] = IF j = k THEN x ELSE Cells(v)[j]
    BY <1>3 DEF cells
  <2>5. Contents(v)' = [Contents(v) EXCEPT ![k] = x]
    BY <2>2, <2>3, <2>4
  <2>6. k \in DOMAIN Contents(v)
    BY <2>3
  <2>7. Sequences!Set("write", v, [Contents(v) EXCEPT ![k] = x])
    BY <1>1, <1>9, <2>5, SetStep
  <2>8. QED
    BY <2>6, <2>7 DEF Sequences!Write
<1>15. Span
  BY <1>1 DEF Span, SpanKept
<1>16. QED
  BY <1>10, <1>12, <1>13, <1>14, <1>15 DEF IInv

(* clear and pop_back only move _data_end down.                              *)
LEMMA ShorterStep ==
    ASSUME IInv, NEW v \in Vecs, NEW n \in 0 .. len[v], len' = [len EXCEPT ![v] = n],
           UNCHANGED <<alive, data, cap, heap>>, op' \in Operations
    PROVE  /\ IInv' /\ Span
           /\ \A w \in Vecs \ {v} : Contents(w)' = Contents(w)
           /\ Contents(v)' = SubSeq(Contents(v), 1, n)
<1>1. len[v] \in 0 .. MaxCap /\ len[v] <= cap[v] /\ cap[v] \in Nat /\ n \in Nat
  BY CellsFacts, FastVectorAssumption
<1>2. len \in [Vecs -> 0 .. MaxCap]
  BY DEF IInv, VectorTypeOK
<1>3. len' \in [Vecs -> 0 .. MaxCap] /\ len'[v] = n /\ \A w \in Vecs \ {v} : len'[w] = len[w]
  BY <1>1, <1>2, FastVectorAssumption
<1>4. \A w \in Vecs : Cells(w)' = Cells(w)
  BY DEF Cells
<1>5. VectorTypeOK'
  <2>1. \A w \in Vecs : len'[w] <= cap'[w]
    BY <1>1, <1>3 DEF IInv, VectorTypeOK
  <2>2. QED
    BY <1>3, <2>1, Zenon DEF IInv, VectorTypeOK
<1>6. BlocksOwned' /\ Held'
  BY <1>4 DEF IInv, BlocksOwned, Held, FreeBlocks
<1>7. \A w \in Vecs \ {v} : Contents(w)' = Contents(w)
  BY <1>3, <1>4 DEF Contents
<1>8. Contents(v)' = SubSeq(Contents(v), 1, n)
  <2>1. Contents(v) = [j \in 1 .. len[v] |-> Cells(v)[j]]
    BY ContentsFacts
  <2>2. \A j \in 1 .. n : Cells(v)[j] \in Digits /\ Contents(v)[j] = Cells(v)[j]
    <3>1. \A j \in 1 .. n : j \in 1 .. len[v] /\ j \in 1 .. cap[v]
      BY <1>1
    <3>2. Cells(v) \in [1 .. cap[v] -> Digits]
      BY CellsFacts
    <3>3. QED
      BY <3>1, <3>2, <2>1
  <2>3. SubSeq(Cells(v), 1, n) = [j \in 1 .. n |-> Cells(v)[j]]
    BY <1>1, <2>2, Prefix
  <2>4. SubSeq(Contents(v), 1, n) = [j \in 1 .. n |-> Contents(v)[j]]
    BY <1>1, <2>2, Prefix
  <2>5. [j \in 1 .. n |-> Contents(v)[j]] = [j \in 1 .. n |-> Cells(v)[j]]
    BY <2>2
  <2>6. Contents(v)' = SubSeq(Cells(v), 1, n)
    BY <1>3, <1>4 DEF Contents
  <2>7. QED
    BY <2>3, <2>4, <2>5, <2>6
<1>9. Span
  BY DEF Span, SpanKept
<1>10. QED
  BY <1>5, <1>6, <1>7, <1>8, <1>9 DEF IInv

LEMMA ClearStep ==
    ASSUME IInv, NEW v \in Vecs, clear(v)
    PROVE  IInv' /\ Span /\ Sequences!Empty(v)
<1>1. op' = "empty" /\ len' = [len EXCEPT ![v] = 0] /\ UNCHANGED <<alive, data, cap, heap>>
  BY DEF clear
<1>2. 0 \in 0 .. len[v]
  BY CellsFacts, FastVectorAssumption
<1>3. op' \in Operations
  BY <1>1 DEF Operations
<1>4. SubSeq(Contents(v), 1, 0) = <<>>
  BY SubSeqEmpty
<1>5. QED
  BY <1>1, <1>2, <1>3, <1>4, ShorterStep, SetStep DEF Sequences!Empty

LEMMA PopBackStep ==
    ASSUME IInv, NEW v \in Vecs, pop_back(v)
    PROVE  IInv' /\ Span /\ Sequences!PopBack(v)
<1>1. /\ op' = "pop_back" /\ len[v] > 0 /\ len' = [len EXCEPT ![v] = @ - 1]
      /\ UNCHANGED <<alive, data, cap, heap>>
  BY DEF pop_back
<1>2. len[v] - 1 \in 0 .. len[v]
  BY <1>1, CellsFacts, FastVectorAssumption
<1>3. op' \in Operations
  BY <1>1 DEF Operations
<1>4. Contents(v) # <<>> /\ Len(Contents(v)) = len[v]
  BY <1>1, ContentsFacts
<1>5. /\ IInv' /\ Span /\ Contents(v)' = SubSeq(Contents(v), 1, Len(Contents(v)) - 1)
      /\ \A w \in Vecs \ {v} : Contents(w)' = Contents(w)
  BY <1>1, <1>2, <1>3, <1>4, ShorterStep
<1>6. QED
  BY <1>1, <1>4, <1>5, SetStep DEF Sequences!PopBack

----------------------------------------------------------------------------
(* reserve and shrink_to_fit change nothing that can be read.                *)
LEMMA UnreadStep ==
    ASSUME IInv, NEW v \in Vecs, NEW r, Good(v, r), len[v] \in 0 .. r.cap,
           NEW none, \A j \in Int : j \notin DOMAIN none,
           \A w \in Vecs \ {v} : Contents(w)' = Contents(w),
           Contents(v)' = Merged(r, len[v], none), op' = "memory"
    PROVE  Sequences!Memory
<1>1. Contents(v) = [j \in 1 .. len[v] |-> Contents(v)[j]] /\ len[v] \in Nat
  BY ContentsFacts, CellsFacts, FastVectorAssumption
<1>2. \A j \in 1 .. len[v] : r.heap[r.data][j] = Contents(v)[j]
  BY <1>1, KeptCells
<1>3. Merged(r, len[v], none) = [j \in 1 .. len[v] |-> Contents(v)[j]]
  BY <1>2 DEF Merged
<1>4. \A w \in Vecs : Contents(w)' = Contents(w)
  BY <1>1, <1>3
<1>5. QED
  BY <1>4 DEF Sequences!Memory

LEMMA ReserveStep ==
    ASSUME IInv, NEW v \in Vecs, reserve(v)
    PROVE  IInv' /\ Span /\ Sequences!Memory
<1> DEFINE none == <<>>
<1>1. PICK n \in 0 .. MaxCap : \E r \in Reserved(v, n) : Install(v, r, len[v], none)
  BY DEF reserve
<1>2. PICK r \in Reserved(v, n) : Install(v, r, len[v], none)
  BY <1>1
<1>3. \A j \in Int : j \notin DOMAIN none
  BY NoneNew
<1> HIDE DEF none
<1>4. alive[v] /\ UNCHANGED alive /\ op' = "memory"
  BY DEF reserve
<1>5. Good(v, r) /\ r.cap \in Nat /\ len[v] \in 0 .. r.cap
  <2>1. Good(v, r) /\ r.cap >= cap[v]
    BY ReservedGood
  <2>2. len[v] \in Nat /\ len[v] <= cap[v] /\ cap[v] \in Nat /\ r.cap \in Nat
    BY <2>1, CellsFacts, FastVectorAssumption DEF Good
  <2>3. QED
    BY <2>1, <2>2
<1>6. /\ IInv' /\ Span /\ Contents(v)' = Merged(r, len[v], none)
      /\ \A w \in Vecs \ {v} : Contents(w)' = Contents(w)
  <2>1. op' \in Operations
    BY <1>4 DEF Operations
  <2>2. \A j \in 1 .. r.cap : j \in DOMAIN none => none[j] \in Digits
    BY <1>3, <1>5
  <2>3. QED
    BY <1>2, <1>4, <1>5, <2>1, <2>2, LiveStep
<1>7. Sequences!Memory
  BY <1>3, <1>4, <1>5, <1>6, UnreadStep
<1>8. QED
  BY <1>6, <1>7

LEMMA ShrinkStep ==
    ASSUME IInv, NEW v \in Vecs, shrink_to_fit(v)
    PROVE  IInv' /\ Span /\ Sequences!Memory
<1> DEFINE none == <<>>
<1>1. PICK r \in Reallocated(v, len[v]) : Install(v, r, len[v], none)
  BY DEF shrink_to_fit
<1>2. \A j \in Int : j \notin DOMAIN none
  BY NoneNew
<1> HIDE DEF none
<1>3. alive[v] /\ UNCHANGED alive /\ op' = "memory" /\ len[v] < cap[v]
  BY DEF shrink_to_fit
<1>4. len[v] \in 0 .. MaxCap
  BY CellsFacts
<1>5. Good(v, r) /\ r.cap = len[v]
  BY <1>4, ReallocatedGood
<1>6. len[v] \in 0 .. r.cap
  BY <1>4, <1>5, FastVectorAssumption
<1>7. /\ IInv' /\ Contents(v)' = Merged(r, len[v], none)
      /\ \A w \in Vecs \ {v} : Contents(w)' = Contents(w)
  <2>1. op' \in Operations
    BY <1>3 DEF Operations
  <2>2. \A j \in 1 .. r.cap : j \in DOMAIN none => none[j] \in Digits
    BY <1>2, <1>4, <1>5, FastVectorAssumption
  <2>3. alive' \in [Vecs -> BOOLEAN] /\ alive'[v] /\ \A w \in Vecs : alive[w] => alive'[w]
    BY <1>3 DEF IInv, VectorTypeOK
  <2>4. QED
    BY <1>1, <1>5, <1>6, <2>1, <2>2, <2>3, InstallFacts
<1>8. Span
  <2>1. /\ data' = [data EXCEPT ![v] = r.data] /\ data \in [Vecs -> Blocks \cup {NULL}]
        /\ cap' = [cap EXCEPT ![v] = r.cap] /\ cap \in [Vecs -> 0 .. MaxCap]
    BY <1>1 DEF Install, IInv, VectorTypeOK
  <2>2. QED
    BY <1>3, <1>5, <2>1 DEF Span, SpanKept, Live
<1>9. Sequences!Memory
  BY <1>2, <1>3, <1>5, <1>6, <1>7, UnreadStep
<1>10. QED
  BY <1>7, <1>8, <1>9

LEMMA ResizeStep ==
    ASSUME IInv, NEW v \in Vecs, resize(v)
    PROVE  IInv' /\ Span /\ Sequences!Resize(v)
<1> DEFINE none == <<>>
<1>1. PICK n \in 0 .. MaxCap : \E r \in Reserved(v, n) : Install(v, r, n, none)
  BY DEF resize
<1>2. PICK r \in Reserved(v, n) : Install(v, r, n, none)
  BY <1>1
<1>3. \A j \in Int : j \notin DOMAIN none
  BY NoneNew
<1> HIDE DEF none
<1>4. alive[v] /\ UNCHANGED alive /\ op' = "resize"
  BY DEF resize
<1>5. Good(v, r) /\ r.cap \in Nat /\ n \in 0 .. r.cap
  BY ReservedGood, FastVectorAssumption DEF Good
<1> DEFINE s == Merged(r, n, none)
<1>6. /\ IInv' /\ Span /\ Contents(v)' = s
      /\ \A w \in Vecs \ {v} : Contents(w)' = Contents(w)
  <2>1. op' \in Operations
    BY <1>4 DEF Operations
  <2>2. \A j \in 1 .. r.cap : j \in DOMAIN none => none[j] \in Digits
    BY <1>3, <1>5
  <2>3. QED
    BY <1>2, <1>4, <1>5, <2>1, <2>2, LiveStep
<1>7. Len(Contents(v)) = len[v] /\ len[v] \in Nat
  BY ContentsFacts, CellsFacts, FastVectorAssumption
<1>8. /\ s \in [1 .. n -> Digits]
      /\ \A j \in 1 .. n : j <= Len(Contents(v)) => s[j] = Contents(v)[j]
  BY <1>3, <1>5, <1>7, KeptCells DEF Merged
<1>9. Sequences!Set("resize", v, s)
  BY <1>4, <1>6, SetStep
<1> HIDE DEF s
<1>10. Sequences!Resize(v)
  BY <1>8, <1>9 DEF Sequences!Resize
<1>11. QED
  BY <1>6, <1>10

LEMMA ResizeFilledStep ==
    ASSUME IInv, NEW v \in Vecs, resize_filled(v)
    PROVE  IInv' /\ Span /\ Sequences!ResizeWith(v)
<1>1. PICK n \in 0 .. MaxCap, x \in Digits : \E r \in Reserved(v, n) :
          Install(v, r, n, [k \in len[v] + 1 .. n |-> x])
  BY DEF resize_filled
<1> DEFINE new == [k \in len[v] + 1 .. n |-> x]
<1>2. PICK r \in Reserved(v, n) : Install(v, r, n, new)
  BY <1>1
<1>3. DOMAIN new = len[v] + 1 .. n /\ \A j \in len[v] + 1 .. n : new[j] = x
  OBVIOUS
<1> HIDE DEF new
<1>4. alive[v] /\ UNCHANGED alive /\ op' = "fill"
  BY DEF resize_filled
<1>5. Good(v, r) /\ r.cap \in Nat /\ n \in 0 .. r.cap
  BY ReservedGood, FastVectorAssumption DEF Good
<1>6. /\ IInv' /\ Span /\ Contents(v)' = Merged(r, n, new)
      /\ \A w \in Vecs \ {v} : Contents(w)' = Contents(w)
  <2>1. op' \in Operations
    BY <1>4 DEF Operations
  <2>2. \A j \in 1 .. r.cap : j \in DOMAIN new => new[j] \in Digits
    BY <1>3
  <2>3. QED
    BY <1>2, <1>4, <1>5, <2>1, <2>2, LiveStep
<1> DEFINE s == [j \in 1 .. n |-> IF j <= Len(Contents(v)) THEN Contents(v)[j] ELSE x]
<1>7. Len(Contents(v)) = len[v] /\ len[v] \in Nat
  BY ContentsFacts, CellsFacts, FastVectorAssumption
<1>8. Merged(r, n, new) = s
  <2>1. ASSUME NEW j \in 1 .. n
        PROVE  (IF j \in DOMAIN new THEN new[j] ELSE r.heap[r.data][j]) =
               (IF j <= Len(Contents(v)) THEN Contents(v)[j] ELSE x)
    <3>1. CASE j <= len[v]
      <4>1. j \notin DOMAIN new
        BY <3>1, <1>3, <1>7
      <4>2. r.heap[r.data][j] = Contents(v)[j]
        BY <3>1, <1>5, KeptCells
      <4>3. QED
        BY <3>1, <4>1, <4>2, <1>7
    <3>2. CASE ~(j <= len[v])
      <4>1. j \in DOMAIN new /\ new[j] = x
        BY <3>2, <1>3, <1>7
      <4>2. QED
        BY <3>2, <4>1, <1>7
    <3>3. QED
      BY <3>1, <3>2
  <2>2. QED
    BY <2>1 DEF Merged
<1>9. Sequences!Set("fill", v, s)
  BY <1>4, <1>6, <1>8, SetStep
<1>10. Sequences!ResizeWith(v)
  BY <1>9 DEF Sequences!ResizeWith
<1>11. QED
  BY <1>6, <1>10

(* The capacity push_back asks for exceeds the size: doubling alone would    *)
(* not do for an empty vector, min_alloc_size covers that.                   *)
LEMMA RoomFacts ==
    ASSUME NEW c \in Nat, NEW n \in Nat, n <= c
    PROVE  LET room == IF n = c THEN LargerOf(c * grow_factor, min_alloc_size) ELSE c
           IN  room \in Nat /\ room >= n + 1
<1>1. grow_factor \in Nat /\ grow_factor >= 2 /\ min_alloc_size \in Nat /\ min_alloc_size >= 1
  BY FastVectorAssumption
<1>2. c * grow_factor \in Nat
  BY <1>1
<1>3. c * grow_factor >= c * 2
  <2>1. PICK d \in Nat : grow_factor = 2 + d
    <3>1. grow_factor - 2 \in Nat /\ grow_factor = 2 + (grow_factor - 2)
      BY <1>1
    <3>2. QED
      BY <3>1
  <2>2. c * (2 + d) = c * 2 + c * d /\ c * d \in Nat
    OBVIOUS
  <2>3. QED
    BY <2>1, <2>2
<1> DEFINE grown == c * grow_factor
<1>4. grown \in Nat /\ grown >= c * 2
  BY <1>2, <1>3
<1> HIDE DEF grown
<1>5. LargerOf(grown, min_alloc_size) \in Nat /\ LargerOf(grown, min_alloc_size) >= c + 1
  BY <1>1, <1>4 DEF LargerOf
<1>6. QED
  BY <1>5 DEF grown

LEMMA PushBackStep ==
    ASSUME IInv, NEW v \in Vecs, push_back(v)
    PROVE  IInv' /\ Span /\ Sequences!PushBack(v)
<1> DEFINE room == IF len[v] = cap[v] THEN LargerOf(cap[v] * grow_factor, min_alloc_size)
                   ELSE cap[v]
           new(x) == [k \in {len[v] + 1} |-> x]
<1>1. /\ op' = "push_back" /\ alive[v] /\ UNCHANGED alive /\ room <= MaxCap
      /\ \E r \in Reserved(v, room), x \in Digits : Install(v, r, len[v] + 1, new(x))
  BY DEF push_back
<1>2. PICK r \in Reserved(v, room), x \in Digits : Install(v, r, len[v] + 1, new(x))
  BY <1>1
<1>3. len[v] \in Nat /\ cap[v] \in Nat /\ len[v] <= cap[v]
  BY CellsFacts, FastVectorAssumption
<1>4. room \in Nat /\ room >= len[v] + 1
  BY <1>3, RoomFacts
<1> HIDE DEF room
<1>5. room \in 0 .. MaxCap
  BY <1>1, <1>4, FastVectorAssumption
<1>6. Good(v, r) /\ r.cap \in Nat /\ len[v] + 1 \in 0 .. r.cap
  <2>1. Good(v, r) /\ r.cap >= room
    BY <1>5, ReservedGood
  <2>2. r.cap \in Nat
    BY <2>1, FastVectorAssumption DEF Good
  <2>3. QED
    BY <2>1, <2>2, <1>3, <1>4
<1> DEFINE cell == new(x)
<1>7. DOMAIN cell = {len[v] + 1} /\ cell[len[v] + 1] = x
  OBVIOUS
<1>8. Install(v, r, len[v] + 1, cell)
  BY <1>2
<1> HIDE DEF cell, new
<1>9. /\ IInv' /\ Span /\ Contents(v)' = Merged(r, len[v] + 1, cell)
      /\ \A w \in Vecs \ {v} : Contents(w)' = Contents(w)
  <2>1. op' \in Operations
    BY <1>1 DEF Operations
  <2>2. \A j \in 1 .. r.cap : j \in DOMAIN cell => cell[j] \in Digits
    BY <1>7
  <2>3. QED
    BY <1>1, <1>5, <1>6, <1>8, <2>1, <2>2, LiveStep
<1> DEFINE s == Append(Contents(v), x)
<1>10. /\ s \in [1 .. len[v] + 1 -> Digits]
       /\ \A j \in 1 .. len[v] : s[j] = Contents(v)[j]
       /\ s[len[v] + 1] = x
  <2>1. Contents(v) \in Seq(Digits) /\ Len(Contents(v)) = len[v]
    BY ContentsFacts
  <2>2. /\ s \in Seq(Digits) /\ Len(s) = len[v] + 1
        /\ \A j \in 1 .. len[v] : s[j] = Contents(v)[j]
        /\ s[len[v] + 1] = x
    BY <2>1, AppendProperties
  <2> HIDE DEF s
  <2>3. QED
    BY <2>2, SeqFunction
<1> HIDE DEF s
<1>11. Merged(r, len[v] + 1, cell) = s
  <2>1. ASSUME NEW j \in 1 .. len[v] + 1
        PROVE  (IF j \in DOMAIN cell THEN cell[j] ELSE r.heap[r.data][j]) = s[j]
    <3>1. CASE j \in 1 .. len[v]
      <4>1. j \notin DOMAIN cell
        BY <3>1, <1>7, <1>3
      <4>2. r.heap[r.data][j] = Contents(v)[j]
        BY <3>1, <1>3, <1>6, KeptCells
      <4>3. QED
        BY <3>1, <4>1, <4>2, <1>10
    <3>2. CASE j = len[v] + 1
      BY <3>2, <1>7, <1>10
    <3>3. QED
      BY <3>1, <3>2, <1>3
  <2>2. Merged(r, len[v] + 1, cell) = [j \in 1 .. len[v] + 1 |-> s[j]]
    BY <2>1 DEF Merged
  <2>3. QED
    BY <2>2, <1>10
<1>12. Sequences!Set("push_back", v, Append(Contents(v), x))
  BY <1>1, <1>9, <1>11, SetStep DEF s
<1>13. QED
  BY <1>9, <1>12 DEF Sequences!PushBack

----------------------------------------------------------------------------
LEMMA InitInv ==
    ASSUME VectorInit
    PROVE  IInv /\ Sequences!Init
<1>1. \A v \in Vecs : Cells(v) = <<>>
  BY DEF VectorInit, Cells
<1>2. VectorTypeOK
  <2>1. op \in Operations
    BY DEF VectorInit, Operations
  <2>2. \A k \in Blocks : heap[k] \in Seq(Digits) /\ Len(heap[k]) <= MaxCap
    BY EmptySeq, FastVectorAssumption DEF VectorInit
  <2>3. 0 \in 0 .. MaxCap
    BY FastVectorAssumption
  <2>4. QED
    BY <2>1, <2>2, <2>3 DEF VectorInit, VectorTypeOK
<1>3. BlocksOwned
  BY <1>1, EmptySeq DEF VectorInit, BlocksOwned, FreeBlocks
<1>4. Held
  BY DEF VectorInit, Held
<1>5. ASSUME NEW v \in Vecs PROVE Contents(v) = <<>>
  <2>1. len[v] = 0
    BY DEF VectorInit
  <2>2. SubSeq(Cells(v), 1, 0) = <<>>
    BY SubSeqEmpty
  <2>3. QED
    BY <2>1, <2>2 DEF Contents
<1>6. QED
  BY <1>2, <1>3, <1>4, <1>5 DEF IInv, VectorInit, Sequences!Init

(* A step of the vectors is a step of the sequences.                         *)
LEMMA NextStep ==
    ASSUME IInv, VectorNext
    PROVE  IInv' /\ Span /\ Sequences!Next
<1>1. ASSUME NEW v \in Vecs, Construct(v) PROVE IInv' /\ Span /\ Sequences!Next
  BY <1>1, ConstructStep DEF Sequences!Next
<1>2. ASSUME NEW v \in Vecs, ConstructSized(v) PROVE IInv' /\ Span /\ Sequences!Next
  BY <1>2, ConstructSizedStep DEF Sequences!Next
<1>3. ASSUME NEW v \in Vecs, ConstructList(v) PROVE IInv' /\ Span /\ Sequences!Next
  BY <1>3, ConstructListStep DEF Sequences!Next
<1>4. ASSUME NEW v \in Vecs, Destroy(v) PROVE IInv' /\ Span /\ Sequences!Next
  BY <1>4, DestroyStep DEF Sequences!Next
<1>5. ASSUME NEW v \in Vecs, Write(v) PROVE IInv' /\ Span /\ Sequences!Next
  BY <1>5, WriteStep DEF Sequences!Next
<1>6. ASSUME NEW v \in Vecs, reserve(v) PROVE IInv' /\ Span /\ Sequences!Next
  BY <1>6, ReserveStep DEF Sequences!Next
<1>7. ASSUME NEW v \in Vecs, shrink_to_fit(v) PROVE IInv' /\ Span /\ Sequences!Next
  BY <1>7, ShrinkStep DEF Sequences!Next
<1>8. ASSUME NEW v \in Vecs, clear(v) PROVE IInv' /\ Span /\ Sequences!Next
  BY <1>8, ClearStep DEF Sequences!Next
<1>9. ASSUME NEW v \in Vecs, push_back(v) PROVE IInv' /\ Span /\ Sequences!Next
  BY <1>9, PushBackStep DEF Sequences!Next
<1>10. ASSUME NEW v \in Vecs, pop_back(v) PROVE IInv' /\ Span /\ Sequences!Next
  BY <1>10, PopBackStep DEF Sequences!Next
<1>11. ASSUME NEW v \in Vecs, resize(v) PROVE IInv' /\ Span /\ Sequences!Next
  BY <1>11, ResizeStep DEF Sequences!Next
<1>12. ASSUME NEW v \in Vecs, resize_filled(v) PROVE IInv' /\ Span /\ Sequences!Next
  BY <1>12, ResizeFilledStep DEF Sequences!Next
<1>13. ASSUME NEW v \in Vecs, NEW w \in Vecs, CopyConstruct(v, w)
       PROVE  IInv' /\ Span /\ Sequences!Next
  BY <1>13, CopyConstructStep DEF Sequences!Next
<1>14. ASSUME NEW v \in Vecs, NEW w \in Vecs, CopyAssign(v, w)
       PROVE  IInv' /\ Span /\ Sequences!Next
  BY <1>14, CopyAssignStep DEF Sequences!Next
<1>15. ASSUME NEW v \in Vecs, NEW w \in Vecs, Swap(v, w)
       PROVE  IInv' /\ Span /\ Sequences!Next
  BY <1>15, SwapStep DEF Sequences!Next
<1>16. QED
  BY <1>1, <1>2, <1>3, <1>4, <1>5, <1>6, <1>7, <1>8, <1>9, <1>10, <1>11, <1>12,
     <1>13, <1>14, <1>15 DEF VectorNext

LEMMA Stutter ==
    ASSUME IInv, UNCHANGED vectorVars
    PROVE  IInv' /\ UNCHANGED <<[v \in Vecs |-> Contents(v)], op>>
<1>1. \A v \in Vecs : Cells(v)' = Cells(v) /\ Contents(v)' = Contents(v)
  BY DEF vectorVars, Cells, Contents
<1>2. VectorTypeOK'
  BY Zenon DEF vectorVars, IInv, VectorTypeOK
<1>3. BlocksOwned' /\ Held'
  BY <1>1 DEF vectorVars, IInv, BlocksOwned, Held, FreeBlocks
<1>4. QED
  BY <1>1, <1>2, <1>3 DEF IInv, vectorVars

----------------------------------------------------------------------------
(* The invariant is inductive, for any number of vectors and addresses.      *)
THEOREM Inductive == VectorSpec => []IInv
<1>1. VectorInit => IInv
  BY InitInv
<1>2. IInv /\ [VectorNext]_vectorVars => IInv'
  BY NextStep, Stutter
<1>3. QED
  BY <1>1, <1>2, PTL DEF VectorSpec

(* Sizes and capacities stay in range and no size exceeds its capacity.      *)
THEOREM TypeCorrect == VectorSpec => []VectorTypeOK
<1>1. IInv => VectorTypeOK
  BY DEF IInv
<1>2. QED
  BY <1>1, Inductive, PTL

(* Every block in use belongs to exactly one live vector, which knows how    *)
(* many cells it has: nothing is freed twice, leaked or used after free.     *)
THEOREM OneOwner == VectorSpec => []BlocksOwned
<1>1. IInv => BlocksOwned
  BY DEF IInv
<1>2. QED
  BY <1>1, Inductive, PTL

(* A vector keeps its block, and spans of it stay valid, until it outgrows   *)
(* its capacity, shrinks, is swapped or is destroyed.                        *)
THEOREM SpansSurvive == VectorSpec => SpansStable
<1>1. IInv /\ [VectorNext]_vectorVars => [\A v \in Live : SpanKept(v)]_vectorVars
  BY NextStep DEF Span
<1>2. QED
  BY <1>1, Inductive, PTL DEF VectorSpec, SpansStable

(* fast_vector is a sequence of digits: whatever realloc does, reading,      *)
(* growing, copying, swapping and destroying vectors shows the sequences     *)
(* that the same operations of DigitSeq make.                                *)
THEOREM Refinement == VectorSpec => ImplementsSequences
<1>1. VectorInit => Sequences!Init
  BY InitInv
<1>2. IInv /\ [VectorNext]_vectorVars => [Sequences!Next]_<<[v \in Vecs |-> Contents(v)], op>>
  BY NextStep, Stutter
<1>3. QED
  BY <1>1, <1>2, Inductive, PTL DEF VectorSpec, ImplementsSequences, Sequences!Spec
=============================================================================
