----------------------------- MODULE ObjectPool -----------------------------
(* object_pool<T> and pooled_ptr<T> of utils/pool.h: every BigInt and every  *)
(* temporary digit vector lives in a vector borrowed from the pool of the    *)
(* current thread.  A pooled_ptr made in one thread may be moved to and      *)
(* destroyed in another: get() always means the pool of the thread that      *)
(* executes, so vectors migrate between the pools.  The pool of a thread is  *)
(* thread_local and dies with it, the vectors it holds included.             *)
(*                                                                           *)
(* Slots bounds the vectors that are ever allocated.  "last" is a history    *)
(* variable: what the program last stored through each pooled_ptr.           *)
EXTENDS Naturals, Sequences, FiniteSets

CONSTANTS Threads, Ptrs, Slots, Values, Empty, NoSlot, Unborn

ASSUME PoolAssumption ==
    /\ Empty \in Values
    /\ NoSlot \notin Slots /\ Unborn \notin Slots /\ NoSlot # Unborn

VARIABLES
    pool,       \* [Threads -> Seq(Slots)], the _resources stacks
    ptr,        \* [Ptrs -> slot], NoSlot for nullptr, Unborn out of lifetime
    content,    \* [Slots -> Values], digits of each vector
    made,       \* slots allocated and not freed
    alive,      \* running threads
    last        \* history: [Ptrs -> Values]

poolVars == <<pool, ptr, content, made, alive, last>>

Holds(p) == ptr[p] \in Slots

PoolInit ==
    /\ pool = [t \in Threads |-> <<>>]
    /\ ptr = [p \in Ptrs |-> Unborn]
    /\ content = [s \in Slots |-> Empty]
    /\ made = {}
    /\ alive = Threads
    /\ last = [p \in Ptrs |-> Empty]

(* get_ptr(): the last vector returned, cleared, or a new one.              *)
Reuse(t, p, v) ==
    LET s == pool[t][Len(pool[t])]
    IN  /\ pool[t] # <<>>
        /\ pool' = [pool EXCEPT ![t] = SubSeq(pool[t], 1, Len(pool[t]) - 1)]
        /\ ptr' = [ptr EXCEPT ![p] = s]
        /\ content' = [content EXCEPT ![s] = v]
        /\ made' = made

Allocate(t, p, v) ==
    /\ pool[t] = <<>>
    /\ \E s \in Slots \ made :
           /\ made' = made \cup {s}
           /\ ptr' = [ptr EXCEPT ![p] = s]
           /\ content' = [content EXCEPT ![s] = v]
    /\ pool' = pool

(* Mutated forms of the operators below, used by no specification: a reused  *)
(* vector is not cleared; a moved-from pointer stays set; null pointers are  *)
(* returned too; assigning null drops the vector.                            *)
Construct_uncleared(t, p) ==
    /\ ptr[p] = Unborn
    /\ \/ pool[t] # <<>> /\ Reuse(t, p, content[pool[t][Len(pool[t])]])
       \/ Allocate(t, p, Empty)
    /\ last' = [last EXCEPT ![p] = Empty]
    /\ alive' = alive

MoveConstruct_shared(p, q) ==
    /\ ptr[p] = Unborn /\ ptr[q] # Unborn /\ p # q
    /\ ptr' = [ptr EXCEPT ![p] = ptr[q]]
    /\ last' = [last EXCEPT ![p] = last[q]]
    /\ UNCHANGED <<pool, content, made, alive>>

GiveBack_null(t, p) == pool' = [pool EXCEPT ![t] = Append(pool[t], ptr[p])]

AssignNull_lost(t, p) ==
    /\ ptr[p] # Unborn
    /\ ptr' = [ptr EXCEPT ![p] = NoSlot]
    /\ UNCHANGED <<pool, content, made, alive, last>>

(* pooled_ptr(): borrows a vector that reads as empty.                      *)
Construct(t, p) ==
    /\ ptr[p] = Unborn
    /\ Reuse(t, p, Empty) \/ Allocate(t, p, Empty)
    /\ last' = [last EXCEPT ![p] = Empty]
    /\ alive' = alive

(* pooled_ptr(nullptr)                                                      *)
ConstructNull(p) ==
    /\ ptr[p] = Unborn
    /\ ptr' = [ptr EXCEPT ![p] = NoSlot]
    /\ UNCHANGED <<pool, content, made, alive, last>>

(* pooled_ptr(const pooled_ptr&): a vector of its own, contents copied.     *)
CopyConstruct(t, p, q) ==
    /\ ptr[p] = Unborn /\ Holds(q)
    /\ Reuse(t, p, content[ptr[q]]) \/ Allocate(t, p, content[ptr[q]])
    /\ last' = [last EXCEPT ![p] = last[q]]
    /\ alive' = alive

(* pooled_ptr(pooled_ptr&&): the source is left null.                       *)
MoveConstruct(p, q) ==
    /\ ptr[p] = Unborn /\ ptr[q] # Unborn /\ p # q
    /\ ptr' = [ptr EXCEPT ![p] = ptr[q], ![q] = NoSlot]
    /\ last' = [last EXCEPT ![p] = last[q]]
    /\ UNCHANGED <<pool, content, made, alive>>

(* operator=(pooled_ptr&&): the two pointers are swapped.                   *)
MoveAssign(p, q) ==
    /\ ptr[p] # Unborn /\ ptr[q] # Unborn
    /\ ptr' = [ptr EXCEPT ![p] = ptr[q], ![q] = ptr[p]]
    /\ last' = [last EXCEPT ![p] = last[q], ![q] = last[p]]
    /\ UNCHANGED <<pool, content, made, alive>>

(* operator=(const pooled_ptr&): the digits are copied into p's own vector. *)
CopyAssign(p, q) ==
    /\ Holds(p) /\ Holds(q)
    /\ content' = [content EXCEPT ![ptr[p]] = content[ptr[q]]]
    /\ last' = [last EXCEPT ![p] = last[q]]
    /\ UNCHANGED <<pool, ptr, made, alive>>

(* The program stores digits through *p.                                    *)
Write(p, v) ==
    /\ Holds(p)
    /\ content' = [content EXCEPT ![ptr[p]] = v]
    /\ last' = [last EXCEPT ![p] = v]
    /\ UNCHANGED <<pool, ptr, made, alive>>

(* return_ptr(): the vector goes to the pool of the executing thread, its   *)
(* digits still in it.                                                      *)
GiveBack(t, p) ==
    pool' = IF Holds(p) THEN [pool EXCEPT ![t] = Append(pool[t], ptr[p])] ELSE pool

(* ~pooled_ptr()                                                            *)
Destroy(t, p) ==
    /\ ptr[p] # Unborn
    /\ GiveBack(t, p)
    /\ ptr' = [ptr EXCEPT ![p] = Unborn]
    /\ UNCHANGED <<content, made, alive, last>>

(* operator=(nullptr): swap with a null temporary, which is then destroyed. *)
AssignNull(t, p) ==
    /\ ptr[p] # Unborn
    /\ GiveBack(t, p)
    /\ ptr' = [ptr EXCEPT ![p] = NoSlot]
    /\ UNCHANGED <<content, made, alive, last>>

(* The thread ends: its pool is destroyed and frees its vectors.            *)
InPool(t) == {pool[t][j] : j \in 1 .. Len(pool[t])}
ThreadExit(t) ==
    /\ alive' = alive \ {t}
    /\ pool' = [pool EXCEPT ![t] = <<>>]
    /\ made' = made \ InPool(t)
    /\ UNCHANGED <<ptr, content, last>>

PoolNext ==
    \/ \E t \in alive : ThreadExit(t)
    \/ \E p \in Ptrs, t \in alive :
          Construct(t, p) \/ Destroy(t, p) \/ AssignNull(t, p)
    \/ \E p \in Ptrs : ConstructNull(p)
    \/ \E p, q \in Ptrs : MoveConstruct(p, q) \/ MoveAssign(p, q) \/ CopyAssign(p, q)
    \/ \E p, q \in Ptrs, t \in alive : CopyConstruct(t, p, q)
    \/ \E p \in Ptrs, v \in Values : Write(p, v)

PoolSpec == PoolInit /\ [][PoolNext]_poolVars

----------------------------------------------------------------------------
PoolTypeOK ==
    /\ pool \in [Threads -> Seq(Slots)]
    /\ ptr \in [Ptrs -> Slots \cup {NoSlot, Unborn}]
    /\ content \in [Slots -> Values]
    /\ made \subseteq Slots
    /\ alive \subseteq Threads
    /\ last \in [Ptrs -> Values]

(* A vector has one owner: one pooled_ptr, or one place in one pool.        *)
PtrsApart == \A p, q \in Ptrs : Holds(p) /\ ptr[p] = ptr[q] => p = q
PoolsApart ==
    \A t, u \in Threads : \A j \in 1 .. Len(pool[t]), k \in 1 .. Len(pool[u]) :
        pool[t][j] = pool[u][k] => t = u /\ j = k
PooledNotHeld ==
    \A t \in Threads : \A j \in 1 .. Len(pool[t]), p \in Ptrs : pool[t][j] # ptr[p]
SoleOwner == PtrsApart /\ PoolsApart /\ PooledNotHeld

(* No vector is lost: every one allocated and not freed is held or pooled,  *)
(* and none that was freed is.                                               *)
Pooled == UNION {InPool(t) : t \in Threads}
Held == {s \in Slots : \E p \in Ptrs : ptr[p] = s}
NoLeak == made = Held \cup Pooled

(* What is read through a pooled_ptr is what was last stored through it     *)
(* (nothing after construction), whatever the others did with vectors that  *)
(* it or they used to own.                                                  *)
Isolation == \A p \in Ptrs : Holds(p) => content[ptr[p]] = last[p]
=============================================================================
