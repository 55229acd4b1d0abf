-------------------------- MODULE ObjectPool_proofs --------------------------
(* Proofs about ObjectPool, for any number of threads, pointers and vectors. *)
EXTENDS ObjectPool, TLAPS

(* Ownership in the form in which it is inductive: held and pooled vectors   *)
(* are allocated, so that an allocation never returns one of them.           *)
Accounted ==
    /\ \A p \in Ptrs : Holds(p) => ptr[p] \in made
    /\ \A t \in Threads : \A j \in 1 .. Len(pool[t]) : pool[t][j] \in made

IInv == PoolTypeOK /\ SoleOwner /\ Accounted /\ Isolation

----------------------------------------------------------------------------
LEMMA InitInv == PoolInit => IInv
<1> SUFFICES ASSUME PoolInit PROVE IInv
  OBVIOUS
<1>1. \A t \in Threads : pool[t] = <<>> /\ Len(pool[t]) = 0
  BY DEF PoolInit
<1>2. \A p \in Ptrs : ~Holds(p)
  BY PoolAssumption DEF PoolInit, Holds
<1>3. PoolTypeOK
  BY PoolAssumption DEF PoolInit, PoolTypeOK
<1>4. SoleOwner
  BY <1>1, <1>2 DEF SoleOwner, PtrsApart, PoolsApart, PooledNotHeld
<1>5. Accounted /\ Isolation
  BY <1>1, <1>2 DEF Accounted, Isolation
<1>6. QED
  BY <1>3, <1>4, <1>5 DEF IInv

(* What taking a vector from the pool or the heap gives: the pointer p owns  *)
(* a vector s that nobody else owns, and the other owners are as before.     *)
LEMMA TakeStep ==
    ASSUME IInv, NEW t \in Threads, NEW p \in Ptrs, ptr[p] = Unborn, NEW v \in Values,
           Reuse(t, p, v) \/ Allocate(t, p, v)
    PROVE  \E s \in Slots :
              /\ \A q \in Ptrs : ptr[q] # s
              /\ ptr' = [ptr EXCEPT ![p] = s] /\ content' = [content EXCEPT ![s] = v]
              /\ made' \subseteq Slots /\ made \subseteq made' /\ s \in made'
              /\ pool' \in [Threads -> Seq(Slots)]
              /\ \A u \in Threads :
                    /\ Len(pool'[u]) \in Nat /\ Len(pool'[u]) <= Len(pool[u])
                    /\ \A j \in 1 .. Len(pool'[u]) :
                          pool'[u][j] = pool[u][j] /\ pool[u][j] # s
<1>1. CASE Reuse(t, p, v)
  <2> DEFINE n == Len(pool[t])  s == pool[t][n]
  <2>1. pool[t] \in Seq(Slots) /\ n \in Nat /\ n # 0 /\ n \in 1 .. n
    <3>1. pool[t] \in Seq(Slots) /\ pool[t] # <<>>
      BY <1>1 DEF Reuse, IInv, PoolTypeOK
    <3>2. QED
      BY <3>1
  <2>2. s \in Slots
    BY <2>1
  <2>3. \A q \in Ptrs : ptr[q] # s
    BY <2>1 DEF IInv, SoleOwner, PooledNotHeld
  <2>4. s \in made
    BY <2>1 DEF IInv, Accounted
  <2>5. pool' = [pool EXCEPT ![t] = SubSeq(pool[t], 1, n - 1)]
    BY <1>1 DEF Reuse
  <2>6. SubSeq(pool[t], 1, n - 1) \in Seq(Slots)
        /\ Len(SubSeq(pool[t], 1, n - 1)) = n - 1
        /\ \A j \in 1 .. n - 1 : SubSeq(pool[t], 1, n - 1)[j] = pool[t][j]
    BY <2>1
  <2>7. pool' \in [Threads -> Seq(Slots)]
    BY <2>5, <2>6 DEF IInv, PoolTypeOK
  <2>8. ASSUME NEW u \in Threads
        PROVE  /\ Len(pool'[u]) \in Nat /\ Len(pool'[u]) <= Len(pool[u])
               /\ \A j \in 1 .. Len(pool'[u]) : pool'[u][j] = pool[u][j] /\ pool[u][j] # s
    <3>1. CASE u = t
      <4>1. pool'[t] = SubSeq(pool[t], 1, n - 1)
        BY <2>5 DEF IInv, PoolTypeOK
      <4>2. Len(pool'[t]) = n - 1
        BY <4>1, <2>6
      <4>3. ASSUME NEW j \in 1 .. n - 1
            PROVE  pool'[t][j] = pool[t][j] /\ pool[t][j] # s
        <5>1. j \in 1 .. n /\ j # n
          BY <2>1
        <5>2. pool[t][j] # s
          BY <5>1, <2>1 DEF IInv, SoleOwner, PoolsApart
        <5>3. QED
          BY <5>2, <4>1, <2>6
      <4>4. QED
        BY <3>1, <4>2, <4>3, <2>1
    <3>2. CASE u # t
      <4>1. pool'[u] = pool[u]
        BY <3>2, <2>5 DEF IInv, PoolTypeOK
      <4>2. pool[u] \in Seq(Slots)
        BY DEF IInv, PoolTypeOK
      <4>3. \A j \in 1 .. Len(pool[u]) : pool[u][j] # s
        BY <3>2, <2>1 DEF IInv, SoleOwner, PoolsApart
      <4>4. QED
        BY <4>1, <4>2, <4>3
    <3>3. QED
      BY <3>1, <3>2
  <2>9. /\ ptr' = [ptr EXCEPT ![p] = s] /\ content' = [content EXCEPT ![s] = v]
        /\ made' = made /\ made \subseteq Slots
    BY <1>1 DEF Reuse, IInv, PoolTypeOK
  <2> HIDE DEF s, n
  <2>10. QED
    BY <2>2, <2>3, <2>4, <2>7, <2>8, <2>9
<1>2. CASE Allocate(t, p, v)
  <2>1. PICK s \in Slots \ made :
             /\ made' = made \cup {s}
             /\ ptr' = [ptr EXCEPT ![p] = s]
             /\ content' = [content EXCEPT ![s] = v]
    BY <1>2 DEF Allocate
  <2>2. pool' = pool
    BY <1>2 DEF Allocate
  <2>3. \A q \in Ptrs : ptr[q] # s
    BY <2>1 DEF IInv, Accounted, Holds
  <2>4. \A u \in Threads : \A j \in 1 .. Len(pool[u]) : pool[u][j] # s
    BY <2>1 DEF IInv, Accounted
  <2>5. \A u \in Threads : pool[u] \in Seq(Slots)
    BY DEF IInv, PoolTypeOK
  <2>6. made' \subseteq Slots /\ made \subseteq made' /\ s \in made'
    BY <2>1 DEF IInv, PoolTypeOK
  <2>7. \A u \in Threads : Len(pool[u]) \in Nat /\ Len(pool[u]) <= Len(pool[u])
    BY <2>5
  <2>8. pool' \in [Threads -> Seq(Slots)]
    BY <2>2 DEF IInv, PoolTypeOK
  <2>9. QED
    BY <2>1, <2>2, <2>3, <2>4, <2>6, <2>7, <2>8
<1>3. QED
  BY <1>1, <1>2

(* A pointer that starts its life with vector contents v.                    *)
LEMMA TakeInv ==
    ASSUME IInv, NEW t \in Threads, NEW p \in Ptrs, ptr[p] = Unborn, NEW v \in Values,
           Reuse(t, p, v) \/ Allocate(t, p, v),
           last' = [last EXCEPT ![p] = v], alive' = alive
    PROVE  IInv'
<1>1. PICK s \in Slots :
          /\ \A q \in Ptrs : ptr[q] # s
          /\ ptr' = [ptr EXCEPT ![p] = s] /\ content' = [content EXCEPT ![s] = v]
          /\ made' \subseteq Slots /\ made \subseteq made' /\ s \in made'
          /\ pool' \in [Threads -> Seq(Slots)]
          /\ \A u \in Threads :
                /\ Len(pool'[u]) \in Nat /\ Len(pool'[u]) <= Len(pool[u])
                /\ \A j \in 1 .. Len(pool'[u]) : pool'[u][j] = pool[u][j] /\ pool[u][j] # s
  BY TakeStep
<1>2. PoolTypeOK
  BY DEF IInv
<1>3. ptr'[p] = s /\ \A q \in Ptrs : q # p => ptr'[q] = ptr[q]
  BY <1>1, <1>2 DEF PoolTypeOK
<1>4. PoolTypeOK'
  BY <1>1, <1>2 DEF PoolTypeOK
<1>5. \A u \in Threads : \A j \in 1 .. Len(pool'[u]) : j \in 1 .. Len(pool[u])
  <2> TAKE u \in Threads
  <2>1. pool[u] \in Seq(Slots)
    BY <1>2 DEF PoolTypeOK
  <2>2. Len(pool[u]) \in Nat
    BY <2>1
  <2>3. QED
    BY <2>2, <1>1
<1>6. PtrsApart'
  BY <1>1, <1>3 DEF PtrsApart, Holds, IInv, SoleOwner
<1>7. PoolsApart'
  BY <1>1, <1>5 DEF PoolsApart, IInv, SoleOwner
<1>8. PooledNotHeld'
  BY <1>1, <1>3, <1>5 DEF PooledNotHeld, IInv, SoleOwner
<1>9. Accounted'
  BY <1>1, <1>3, <1>5 DEF Accounted, Holds, IInv
<1>10. Isolation'
  <2> SUFFICES ASSUME NEW q \in Ptrs, Holds(q)'
               PROVE  content'[ptr'[q]] = last'[q]
    BY DEF Isolation
  <2>1. CASE q = p
    BY <2>1, <1>1, <1>2, <1>3 DEF PoolTypeOK
  <2>2. CASE q # p
    <3>1. ptr'[q] = ptr[q] /\ ptr[q] \in Slots /\ ptr[q] # s
      BY <2>2, <1>1, <1>3 DEF Holds
    <3>2. content'[ptr[q]] = content[ptr[q]] /\ last'[q] = last[q]
      BY <2>2, <3>1, <1>1, <1>2 DEF PoolTypeOK
    <3>3. QED
      BY <3>1, <3>2 DEF IInv, Isolation, Holds
  <2>3. QED
    BY <2>1, <2>2
<1>11. QED
  BY <1>4, <1>6, <1>7, <1>8, <1>9, <1>10 DEF IInv, SoleOwner

LEMMA ConstructInv ==
    ASSUME IInv, NEW t \in alive, NEW p \in Ptrs, Construct(t, p)
    PROVE  IInv'
<1>1. t \in Threads /\ Empty \in Values
  BY PoolAssumption DEF IInv, PoolTypeOK
<1>2. QED
  BY <1>1, TakeInv DEF Construct

LEMMA CopyConstructInv ==
    ASSUME IInv, NEW t \in alive, NEW p \in Ptrs, NEW q \in Ptrs, CopyConstruct(t, p, q)
    PROVE  IInv'
<1>1. t \in Threads /\ Holds(q) /\ ptr[p] = Unborn
  BY DEF IInv, PoolTypeOK, CopyConstruct
<1>2. content[ptr[q]] = last[q] /\ content[ptr[q]] \in Values
  BY <1>1 DEF IInv, PoolTypeOK, Isolation, Holds
<1>3. QED
  BY <1>1, <1>2, TakeInv DEF CopyConstruct

----------------------------------------------------------------------------
(* Steps that only exchange, store or forget what pointers hold.             *)
LEMMA MoveInv ==
    ASSUME IInv, NEW p \in Ptrs, NEW q \in Ptrs,
           ConstructNull(p) \/ MoveConstruct(p, q) \/ MoveAssign(p, q)
    PROVE  IInv'
<1>1. PoolTypeOK /\ UNCHANGED <<pool, content, made, alive>>
  BY DEF IInv, ConstructNull, MoveConstruct, MoveAssign
<1>2. CASE ConstructNull(p)
  <2>1. ptr' = [ptr EXCEPT ![p] = NoSlot] /\ last' = last
    BY <1>2 DEF ConstructNull
  <2>2. PoolTypeOK'
    BY <1>1, <2>1 DEF PoolTypeOK
  <2>3. \A r \in Ptrs : Holds(r)' => Holds(r) /\ ptr'[r] = ptr[r]
    BY <1>1, <2>1, PoolAssumption DEF PoolTypeOK, Holds
  <2>4. PooledNotHeld'
    <3> SUFFICES ASSUME NEW t \in Threads, NEW j \in 1 .. Len(pool[t]), NEW r \in Ptrs,
                        pool[t][j] = ptr'[r]
                 PROVE  FALSE
      BY <1>1 DEF PooledNotHeld
    <3>1. pool[t][j] \in Slots
      BY <1>1 DEF PoolTypeOK
    <3>2. QED
      BY <3>1, <2>3 DEF Holds, IInv, SoleOwner, PooledNotHeld
  <2>5. PtrsApart'
    <3> SUFFICES ASSUME NEW r1 \in Ptrs, NEW r2 \in Ptrs, Holds(r1)', ptr'[r1] = ptr'[r2]
                 PROVE  r1 = r2
      BY DEF PtrsApart
    <3>1. Holds(r2)'
      BY DEF Holds
    <3>2. QED
      BY <3>1, <2>3 DEF IInv, SoleOwner, PtrsApart
  <2>6. PoolsApart'
    BY <1>1 DEF IInv, SoleOwner, PoolsApart
  <2>7. Accounted'
    BY <1>1, <2>3 DEF IInv, Accounted
  <2>8. Isolation'
    BY <1>1, <2>1, <2>3 DEF IInv, Isolation
  <2>9. QED
    BY <2>2, <2>4, <2>5, <2>6, <2>7, <2>8 DEF IInv, SoleOwner
<1>3. CASE MoveConstruct(p, q) \/ MoveAssign(p, q)
  <2>1. \E z \in {ptr[p], NoSlot} :
           /\ ptr' = [ptr EXCEPT ![p] = ptr[q], ![q] = z]
           /\ (z = ptr[p] \/ p # q)
    BY <1>3 DEF MoveConstruct, MoveAssign
  <2>2. PICK z \in {ptr[p], NoSlot} :
           /\ ptr' = [ptr EXCEPT ![p] = ptr[q], ![q] = z]
           /\ (z = ptr[p] \/ p # q)
    BY <2>1
  <2>3. /\ last' \in [Ptrs -> Values]
        /\ last'[p] = last[q]
        /\ (MoveAssign(p, q) => last'[q] = last[p])
        /\ \A r \in Ptrs : r # p /\ r # q => last'[r] = last[r]
    <3>1. CASE MoveConstruct(p, q)
      <4>1. p # q /\ last' = [last EXCEPT ![p] = last[q]] /\ ptr[p] # ptr[q]
        BY <3>1 DEF MoveConstruct
      <4>2. ~MoveAssign(p, q)
        BY <3>1 DEF MoveConstruct, MoveAssign
      <4>3. QED
        BY <4>1, <4>2, <1>1 DEF PoolTypeOK
    <3>2. CASE MoveAssign(p, q)
      BY <3>2, <1>1 DEF PoolTypeOK, MoveAssign
    <3>3. QED
      BY <3>1, <3>2, <1>3
  <2>4. PoolTypeOK'
    BY <1>1, <2>2, <2>3 DEF PoolTypeOK
  <2>5. /\ ptr'[q] = (IF p = q THEN ptr[q] ELSE z)
        /\ ptr'[p] = (IF p = q THEN ptr[q] ELSE ptr[q])
        /\ \A r \in Ptrs : r # p /\ r # q => ptr'[r] = ptr[r]
    BY <1>1, <2>2 DEF PoolTypeOK
  <2>6. Holds(q)' /\ p # q => MoveAssign(p, q) /\ ptr'[q] = ptr[p]
    <3> SUFFICES ASSUME Holds(q)', p # q
                 PROVE  MoveAssign(p, q) /\ ptr'[q] = ptr[p]
      OBVIOUS
    <3>1. z = ptr[p] /\ ptr'[q] = ptr[p] /\ ptr[p] \in Slots
      BY <2>5, PoolAssumption DEF Holds
    <3>2. ~MoveConstruct(p, q)
      BY <3>1, PoolAssumption DEF MoveConstruct
    <3>3. QED
      BY <3>1, <3>2, <1>3
  <2> DEFINE from(r) == IF r = p THEN q ELSE IF r = q THEN p ELSE r
  <2>7. \A r \in Ptrs : Holds(r)' =>
           /\ from(r) \in Ptrs /\ ptr'[r] = ptr[from(r)] /\ Holds(from(r))
           /\ last'[r] = last[from(r)]
    <3> SUFFICES ASSUME NEW r \in Ptrs, Holds(r)'
                 PROVE  /\ from(r) \in Ptrs /\ ptr'[r] = ptr[from(r)] /\ Holds(from(r))
                        /\ last'[r] = last[from(r)]
      OBVIOUS
    <3>1. CASE r = p
      BY <3>1, <2>3, <2>5 DEF Holds
    <3>2. CASE r = q /\ p # q
      BY <3>2, <2>3, <2>5, <2>6 DEF Holds
    <3>3. CASE r # p /\ r # q
      BY <3>3, <2>3, <2>5 DEF Holds
    <3>4. QED
      BY <3>1, <3>2, <3>3
  <2>8. \A r1, r2 \in Ptrs : from(r1) = from(r2) => r1 = r2
    OBVIOUS
  <2> HIDE DEF from
  <2>9. PtrsApart' /\ PoolsApart'
    <3>1. ASSUME NEW r1 \in Ptrs, NEW r2 \in Ptrs, Holds(r1)', ptr'[r1] = ptr'[r2]
          PROVE  r1 = r2
      <4>1. Holds(r2)'
        BY <3>1 DEF Holds
      <4>2. from(r1) = from(r2)
        BY <3>1, <4>1, <2>7 DEF IInv, SoleOwner, PtrsApart
      <4>3. QED
        BY <4>2, <2>8
    <3>2. PtrsApart'
      BY <3>1 DEF PtrsApart
    <3>3. PoolsApart'
      BY <1>1 DEF IInv, SoleOwner, PoolsApart
    <3>4. QED
      BY <3>2, <3>3
  <2>10. PooledNotHeld'
    <3> SUFFICES ASSUME NEW t \in Threads, NEW j \in 1 .. Len(pool[t]), NEW r \in Ptrs,
                        pool[t][j] = ptr'[r]
                 PROVE  FALSE
      BY <1>1 DEF PooledNotHeld
    <3>1. pool[t][j] \in Slots
      BY <1>1 DEF PoolTypeOK
    <3>2. QED
      BY <3>1, <2>7 DEF Holds, IInv, SoleOwner, PooledNotHeld
  <2>11. Accounted' /\ Isolation'
    BY <1>1, <2>7 DEF Accounted, Isolation, IInv
  <2>12. QED
    BY <2>4, <2>9, <2>10, <2>11 DEF IInv, SoleOwner
<1>4. QED
  BY <1>2, <1>3

(* Digits stored through p reach no other pointer.                           *)
LEMMA StoreInv ==
    ASSUME IInv, NEW p \in Ptrs, Holds(p), NEW v \in Values,
           content' = [content EXCEPT ![ptr[p]] = v], last' = [last EXCEPT ![p] = v],
           UNCHANGED <<pool, ptr, made, alive>>
    PROVE  IInv'
<1>1. PoolTypeOK'
  BY DEF IInv, PoolTypeOK, Holds
<1>2. SoleOwner' /\ Accounted'
  BY DEF IInv, SoleOwner, PtrsApart, PoolsApart, PooledNotHeld, Accounted, Holds
<1>3. ASSUME NEW q \in Ptrs, Holds(q)'
      PROVE  content'[ptr'[q]] = last'[q]
  <2>1. ptr'[q] = ptr[q] /\ Holds(q) /\ ptr[q] \in Slots
    BY <1>3 DEF Holds
  <2>2. CASE q = p
    BY <2>1, <2>2 DEF IInv, PoolTypeOK
  <2>3. CASE q # p
    <3>1. ptr[q] # ptr[p]
      BY <2>1, <2>3 DEF IInv, SoleOwner, PtrsApart
    <3>2. content'[ptr[q]] = content[ptr[q]] /\ last'[q] = last[q]
      BY <2>1, <2>3, <3>1 DEF IInv, PoolTypeOK
    <3>3. QED
      BY <2>1, <3>2 DEF IInv, Isolation
  <2>4. QED
    BY <2>2, <2>3
<1>4. QED
  BY <1>1, <1>2, <1>3 DEF IInv, Isolation

LEMMA CopyAssignInv ==
    ASSUME IInv, NEW p \in Ptrs, NEW q \in Ptrs, CopyAssign(p, q)
    PROVE  IInv'
<1>1. Holds(p) /\ Holds(q)
  BY DEF CopyAssign
<1>2. content[ptr[q]] = last[q] /\ last[q] \in Values
  BY <1>1 DEF IInv, PoolTypeOK, Isolation
<1>3. QED
  BY <1>1, <1>2, StoreInv DEF CopyAssign

LEMMA WriteInv ==
    ASSUME IInv, NEW p \in Ptrs, NEW v \in Values, Write(p, v)
    PROVE  IInv'
  BY StoreInv DEF Write

----------------------------------------------------------------------------
(* A pointer that gives its vector back and no longer holds one (z).         *)
LEMMA GiveBackInv ==
    ASSUME IInv, NEW t \in Threads, NEW p \in Ptrs, GiveBack(t, p),
           NEW z \in {NoSlot, Unborn}, ptr' = [ptr EXCEPT ![p] = z],
           UNCHANGED <<content, made, alive, last>>
    PROVE  IInv'
<1>1. PoolTypeOK
  BY DEF IInv
<1>2. ptr' \in [Ptrs -> Slots \cup {NoSlot, Unborn}]
  BY <1>1 DEF PoolTypeOK
<1>3. ~Holds(p)' /\ \A q \in Ptrs : Holds(q)' => Holds(q) /\ q # p /\ ptr'[q] = ptr[q]
  BY <1>1, PoolAssumption DEF PoolTypeOK, Holds
<1>4. PtrsApart'
  <2> SUFFICES ASSUME NEW q \in Ptrs, NEW r \in Ptrs, Holds(q)', ptr'[q] = ptr'[r]
               PROVE  q = r
    BY DEF PtrsApart
  <2>1. Holds(r)'
    BY DEF Holds
  <2>2. QED
    BY <2>1, <1>3 DEF IInv, SoleOwner, PtrsApart
<1>5. CASE ~Holds(p)
  <2>1. pool' = pool
    BY <1>5 DEF GiveBack
  <2>2. PoolTypeOK'
    BY <1>1, <1>2, <2>1 DEF PoolTypeOK
  <2>3. PooledNotHeld'
    <3> SUFFICES ASSUME NEW u \in Threads, NEW j \in 1 .. Len(pool[u]), NEW r \in Ptrs,
                        pool[u][j] = ptr'[r]
                 PROVE  FALSE
      BY <2>1 DEF PooledNotHeld
    <3>1. pool[u][j] \in Slots
      BY <1>1 DEF PoolTypeOK
    <3>2. QED
      BY <3>1, <1>3 DEF Holds, IInv, SoleOwner, PooledNotHeld
  <2>4. PoolsApart'
    BY <2>1 DEF IInv, SoleOwner, PoolsApart
  <2>5. Accounted'
    BY <1>3, <2>1 DEF IInv, Accounted
  <2>6. Isolation'
    BY <1>3 DEF IInv, Isolation
  <2>7. QED
    BY <1>4, <2>2, <2>3, <2>4, <2>5, <2>6 DEF IInv, SoleOwner
<1>6. CASE Holds(p)
  <2> DEFINE n == Len(pool[t]) + 1  s == ptr[p]
  <2>1. /\ pool' = [pool EXCEPT ![t] = Append(pool[t], s)]
        /\ s \in Slots /\ s \in made
    BY <1>6 DEF GiveBack, Holds, IInv, Accounted
  <2>2. pool[t] \in Seq(Slots) /\ Len(pool[t]) \in Nat
    BY <1>1 DEF PoolTypeOK
  <2>3. /\ pool'[t] = Append(pool[t], s)
        /\ \A u \in Threads : u # t => pool'[u] = pool[u]
    BY <1>1, <2>1 DEF PoolTypeOK
  <2>4. /\ pool'[t] \in Seq(Slots) /\ Len(pool'[t]) = n /\ pool'[t][n] = s
        /\ \A j \in 1 .. Len(pool[t]) : pool'[t][j] = pool[t][j]
    BY <2>1, <2>2, <2>3
  <2>5. pool' \in [Threads -> Seq(Slots)]
    BY <1>1, <2>1, <2>4, <2>3 DEF PoolTypeOK
  <2>6. PoolTypeOK'
    BY <1>1, <1>2, <2>5 DEF PoolTypeOK
  <2>7. ASSUME NEW u \in Threads, NEW j \in 1 .. Len(pool'[u])
        PROVE  \/ u = t /\ j = n /\ pool'[u][j] = s
               \/ j \in 1 .. Len(pool[u]) /\ pool'[u][j] = pool[u][j] /\ pool[u][j] # s
    <3>1. \A i \in 1 .. Len(pool[u]) : pool[u][i] # s
      BY DEF IInv, SoleOwner, PooledNotHeld
    <3>2. CASE u = t
      BY <3>1, <3>2, <2>2, <2>4
    <3>3. CASE u # t
      BY <3>1, <3>3, <2>3
    <3>4. QED
      BY <3>2, <3>3
  <2> HIDE DEF n, s
  <2>9. PoolsApart'
    <3> SUFFICES ASSUME NEW u1 \in Threads, NEW u2 \in Threads,
                        NEW j \in 1 .. Len(pool'[u1]), NEW k \in 1 .. Len(pool'[u2]),
                        pool'[u1][j] = pool'[u2][k]
                 PROVE  u1 = u2 /\ j = k
      BY DEF PoolsApart
    <3>1. QED
      BY <2>7 DEF IInv, SoleOwner, PoolsApart
  <2>10. PooledNotHeld'
    <3> SUFFICES ASSUME NEW u \in Threads, NEW j \in 1 .. Len(pool'[u]), NEW r \in Ptrs,
                        pool'[u][j] = ptr'[r]
                 PROVE  FALSE
      BY DEF PooledNotHeld
    <3>1. pool'[u][j] \in Slots
      BY <2>5
    <3>2. Holds(r) /\ r # p /\ ptr'[r] = ptr[r]
      BY <3>1, <1>3 DEF Holds
    <3>3. ptr[r] # s
      BY <3>2, <1>6 DEF IInv, SoleOwner, PtrsApart, s
    <3>4. QED
      BY <2>7, <3>2, <3>3 DEF IInv, SoleOwner, PooledNotHeld
  <2>11. Accounted'
    BY <1>3, <2>1, <2>7 DEF IInv, Accounted
  <2>12. Isolation'
    BY <1>3 DEF IInv, Isolation
  <2>13. QED
    BY <1>4, <2>6, <2>9, <2>10, <2>11, <2>12 DEF IInv, SoleOwner
<1>7. QED
  BY <1>5, <1>6

LEMMA EndInv ==
    ASSUME IInv, NEW t \in alive, NEW p \in Ptrs, Destroy(t, p) \/ AssignNull(t, p)
    PROVE  IInv'
<1>1. t \in Threads
  BY DEF IInv, PoolTypeOK
<1>2. CASE Destroy(t, p)
  BY <1>1, <1>2, GiveBackInv DEF Destroy
<1>3. CASE AssignNull(t, p)
  BY <1>1, <1>3, GiveBackInv DEF AssignNull
<1>4. QED
  BY <1>2, <1>3

LEMMA ThreadExitInv ==
    ASSUME IInv, NEW t \in alive, ThreadExit(t)
    PROVE  IInv'
<1>1. PoolTypeOK /\ t \in Threads
  BY DEF IInv, PoolTypeOK
<1>2. /\ pool' = [pool EXCEPT ![t] = <<>>] /\ made' = made \ InPool(t)
      /\ alive' = alive \ {t} /\ UNCHANGED <<ptr, content, last>>
  BY DEF ThreadExit
<1>3. <<>> \in Seq(Slots) /\ Len(<<>>) = 0
  OBVIOUS
<1>4. pool'[t] = <<>> /\ \A u \in Threads : u # t => pool'[u] = pool[u]
  BY <1>1, <1>2 DEF PoolTypeOK
<1>5. PoolTypeOK'
  BY <1>1, <1>2, <1>3 DEF PoolTypeOK
<1>6. ASSUME NEW u \in Threads, NEW j \in 1 .. Len(pool'[u])
      PROVE  u # t /\ pool'[u] = pool[u] /\ j \in 1 .. Len(pool[u])
  BY <1>3, <1>4, <1>6
<1>7. SoleOwner'
  BY <1>2, <1>6 DEF IInv, SoleOwner, PtrsApart, PoolsApart, PooledNotHeld, Holds
<1>8. \A p \in Ptrs : ptr[p] \notin InPool(t)
  BY <1>1 DEF IInv, SoleOwner, PooledNotHeld, InPool
<1>9. \A u \in Threads : u # t =>
         \A j \in 1 .. Len(pool[u]) : pool[u][j] \notin InPool(t)
  BY <1>1 DEF IInv, SoleOwner, PoolsApart, InPool
<1>10. Accounted'
  BY <1>2, <1>6, <1>8, <1>9 DEF IInv, Accounted, Holds
<1>11. Isolation'
  BY <1>2 DEF IInv, Isolation, Holds
<1>12. QED
  BY <1>5, <1>7, <1>10, <1>11 DEF IInv

LEMMA NextInv == ASSUME IInv, [PoolNext]_poolVars PROVE IInv'
<1>1. ASSUME NEW t \in alive, ThreadExit(t) PROVE IInv'
  BY <1>1, ThreadExitInv
<1>2. ASSUME NEW t \in alive, NEW p \in Ptrs,
             Construct(t, p) \/ Destroy(t, p) \/ AssignNull(t, p)
      PROVE  IInv'
  BY <1>2, ConstructInv, EndInv
<1>3. ASSUME NEW p \in Ptrs, ConstructNull(p) PROVE IInv'
  BY <1>3, MoveInv
<1>4. ASSUME NEW p \in Ptrs, NEW q \in Ptrs,
             MoveConstruct(p, q) \/ MoveAssign(p, q) \/ CopyAssign(p, q)
      PROVE  IInv'
  BY <1>4, MoveInv, CopyAssignInv
<1>5. ASSUME NEW p \in Ptrs, NEW q \in Ptrs, NEW t \in alive, CopyConstruct(t, p, q)
      PROVE  IInv'
  BY <1>5, CopyConstructInv
<1>6. ASSUME NEW p \in Ptrs, NEW v \in Values, Write(p, v) PROVE IInv'
  BY <1>6, WriteInv
<1>7. CASE UNCHANGED poolVars
  BY <1>7 DEF poolVars, IInv, PoolTypeOK, SoleOwner, PtrsApart, PoolsApart, PooledNotHeld,
     Accounted, Isolation, Holds
<1>8. QED
  BY <1>1, <1>2, <1>3, <1>4, <1>5, <1>6, <1>7 DEF PoolNext

----------------------------------------------------------------------------
(* No vector is lost.  Accounted is one direction of NoLeak; this is the     *)
(* other, with the owner named.                                              *)
Owned(s) ==
    \/ \E p \in Ptrs : ptr[p] = s
    \/ \E t \in Threads : \E j \in 1 .. Len(pool[t]) : pool[t][j] = s

Kept == \A s \in made : Owned(s)

LEMMA NoLeakSplits == ASSUME PoolTypeOK, Accounted PROVE NoLeak <=> Kept
<1>1. \A s \in Slots : s \in Held \cup Pooled <=> Owned(s)
  BY DEF Held, Pooled, InPool, Owned
<1>2. Held \cup Pooled \subseteq made
  <2>1. Held \subseteq made
    BY DEF Held, Accounted, Holds
  <2>2. Pooled \subseteq made
    BY DEF Pooled, InPool, Accounted
  <2>3. QED
    BY <2>1, <2>2
<1>3. made \subseteq Slots
  BY DEF PoolTypeOK
<1>4. QED
  BY <1>1, <1>2, <1>3 DEF NoLeak, Kept

LEMMA InitKept == PoolInit => Kept
  BY DEF PoolInit, Kept

(* A vector that leaves a pool or the heap goes to p, all others stay.       *)
LEMMA TakeKept ==
    ASSUME IInv, Kept, NEW t \in Threads, NEW p \in Ptrs, ptr[p] = Unborn, NEW v \in Values,
           Reuse(t, p, v) \/ Allocate(t, p, v)
    PROVE  Kept'
<1>1. PoolTypeOK
  BY DEF IInv
<1>2. ASSUME NEW s \in Slots, ptr' = [ptr EXCEPT ![p] = s]
      PROVE  ptr'[p] = s /\ \A q \in Ptrs : ptr[q] \in Slots => ptr'[q] = ptr[q]
  BY <1>1, <1>2, PoolAssumption DEF PoolTypeOK
<1>3. CASE Reuse(t, p, v)
  <2> DEFINE n == Len(pool[t])  s == pool[t][n]
  <2>1. pool[t] \in Seq(Slots) /\ pool[t] # <<>>
    BY <1>1, <1>3 DEF Reuse, PoolTypeOK
  <2>2. n \in Nat /\ n # 0 /\ s \in Slots
    BY <2>1
  <2>3. /\ pool' = [pool EXCEPT ![t] = SubSeq(pool[t], 1, n - 1)]
        /\ ptr' = [ptr EXCEPT ![p] = s] /\ made' = made
    BY <1>3 DEF Reuse
  <2>4. /\ Len(SubSeq(pool[t], 1, n - 1)) = n - 1
        /\ \A j \in 1 .. n - 1 : SubSeq(pool[t], 1, n - 1)[j] = pool[t][j]
    BY <2>1, <2>2
  <2>5. /\ Len(pool'[t]) = n - 1 /\ \A j \in 1 .. n - 1 : pool'[t][j] = pool[t][j]
        /\ \A u \in Threads : u # t => pool'[u] = pool[u]
    BY <1>1, <2>3, <2>4 DEF PoolTypeOK
  <2>6. ptr'[p] = s /\ \A q \in Ptrs : ptr[q] \in Slots => ptr'[q] = ptr[q]
    BY <1>2, <2>2, <2>3
  <2>7. \A j \in 1 .. n : j = n \/ j \in 1 .. n - 1
    BY <2>2
  <2> HIDE DEF s, n
  <2>8. ASSUME NEW r \in made PROVE Owned(r)'
    <3>1. Owned(r) /\ r \in Slots
      BY <1>1 DEF Kept, PoolTypeOK
    <3>2. CASE \E q \in Ptrs : ptr[q] = r
      BY <3>1, <3>2, <2>6 DEF Owned
    <3>3. CASE \E u \in Threads : \E j \in 1 .. Len(pool[u]) : pool[u][j] = r
      <4>1. PICK u \in Threads : \E j \in 1 .. Len(pool[u]) : pool[u][j] = r
        BY <3>3
      <4>2. PICK j \in 1 .. Len(pool[u]) : pool[u][j] = r
        BY <4>1
      <4>3. CASE u # t
        BY <4>2, <4>3, <2>5 DEF Owned
      <4>4. CASE u = t /\ j = n
        BY <4>2, <4>4, <2>6 DEF Owned, s
      <4>5. CASE u = t /\ j # n
        <5>1. j \in 1 .. n - 1
          BY <4>2, <4>5, <2>7 DEF n
        <5>2. j \in 1 .. Len(pool'[t]) /\ pool'[t][j] = r
          BY <5>1, <4>2, <4>5, <2>5
        <5>3. QED
          BY <5>2 DEF Owned
      <4>6. QED
        BY <4>3, <4>4, <4>5
    <3>4. QED
      BY <3>1, <3>2, <3>3 DEF Owned
  <2>9. QED
    BY <2>3, <2>8 DEF Kept
<1>4. CASE Allocate(t, p, v)
  <2>1. PICK s \in Slots \ made : made' = made \cup {s} /\ ptr' = [ptr EXCEPT ![p] = s]
    BY <1>4 DEF Allocate
  <2>2. pool' = pool
    BY <1>4 DEF Allocate
  <2>3. ptr'[p] = s /\ \A q \in Ptrs : ptr[q] \in Slots => ptr'[q] = ptr[q]
    BY <1>2, <2>1
  <2>4. made \subseteq Slots
    BY <1>1 DEF PoolTypeOK
  <2>5. QED
    BY <2>1, <2>2, <2>3, <2>4 DEF Kept, Owned
<1>5. QED
  BY <1>3, <1>4

(* A vector that p gives up is in the pool of t afterwards.                  *)
LEMMA GiveBackKept ==
    ASSUME IInv, Kept, NEW t \in Threads, NEW p \in Ptrs, GiveBack(t, p),
           NEW z \in {NoSlot, Unborn}, ptr' = [ptr EXCEPT ![p] = z], made' = made
    PROVE  Kept'
<1>1. PoolTypeOK /\ made \subseteq Slots
  BY DEF IInv, PoolTypeOK
<1>2. \A q \in Ptrs : q # p => ptr'[q] = ptr[q]
  BY <1>1 DEF PoolTypeOK
<1>3. CASE ~Holds(p)
  <2>1. pool' = pool
    BY <1>3 DEF GiveBack
  <2>2. QED
    BY <1>1, <1>2, <1>3, <2>1 DEF Kept, Owned, Holds
<1>4. CASE Holds(p)
  <2>1. pool' = [pool EXCEPT ![t] = Append(pool[t], ptr[p])] /\ ptr[p] \in Slots
    BY <1>4 DEF GiveBack, Holds
  <2>2. pool[t] \in Seq(Slots) /\ Len(pool[t]) \in Nat
    BY <1>1 DEF PoolTypeOK
  <2>3. /\ pool'[t] = Append(pool[t], ptr[p])
        /\ \A u \in Threads : u # t => pool'[u] = pool[u]
    BY <1>1, <2>1 DEF PoolTypeOK
  <2>4. /\ Len(pool'[t]) = Len(pool[t]) + 1 /\ pool'[t][Len(pool[t]) + 1] = ptr[p]
        /\ \A j \in 1 .. Len(pool[t]) : pool'[t][j] = pool[t][j]
    BY <2>1, <2>2, <2>3
  <2>5. \E j \in 1 .. Len(pool'[t]) : pool'[t][j] = ptr[p]
    <3>1. Len(pool[t]) + 1 \in 1 .. Len(pool'[t])
      BY <2>2, <2>4
    <3>2. QED
      BY <3>1, <2>4
  <2>6. ASSUME NEW u \in Threads, NEW j \in 1 .. Len(pool[u])
        PROVE  j \in 1 .. Len(pool'[u]) /\ pool'[u][j] = pool[u][j]
    BY <2>2, <2>3, <2>4
  <2>7. ASSUME NEW r \in made PROVE Owned(r)'
    <3>1. CASE \E q \in Ptrs : ptr[q] = r
      <4>1. PICK q \in Ptrs : ptr[q] = r
        BY <3>1
      <4>2. CASE q = p
        BY <4>1, <4>2, <2>5 DEF Owned
      <4>3. CASE q # p
        BY <4>1, <4>3, <1>2 DEF Owned
      <4>4. QED
        BY <4>2, <4>3
    <3>2. CASE \E u \in Threads : \E j \in 1 .. Len(pool[u]) : pool[u][j] = r
      BY <3>2, <2>6 DEF Owned
    <3>3. QED
      BY <3>1, <3>2 DEF Kept, Owned
  <2>8. QED
    BY <2>7 DEF Kept
<1>5. QED
  BY <1>3, <1>4

(* Moves pass vectors on; what a pointer out of lifetime is set to replaces  *)
(* no vector.                                                                *)
LEMMA MoveKept ==
    ASSUME IInv, Kept, NEW p \in Ptrs, NEW q \in Ptrs,
           ConstructNull(p) \/ MoveConstruct(p, q) \/ MoveAssign(p, q)
    PROVE  Kept'
<1>1. ptr \in [Ptrs -> Slots \cup {NoSlot, Unborn}] /\ made \subseteq Slots
  BY DEF IInv, PoolTypeOK
<1>2. pool' = pool /\ made' = made
  BY DEF ConstructNull, MoveConstruct, MoveAssign
<1>3. ASSUME NEW r \in Ptrs, ptr[r] \in Slots
      PROVE  \E w \in Ptrs : ptr'[w] = ptr[r]
  <2>1. CASE ConstructNull(p)
    BY <2>1, <1>1, <1>3, PoolAssumption DEF ConstructNull
  <2>2. CASE MoveConstruct(p, q)
    <3>1. p # q /\ ptr[p] = Unborn /\ ptr' = [ptr EXCEPT ![p] = ptr[q], ![q] = NoSlot]
      BY <2>2 DEF MoveConstruct
    <3>2. ptr'[p] = ptr[q] /\ \A w \in Ptrs : w # p /\ w # q => ptr'[w] = ptr[w]
      BY <1>1, <3>1
    <3>3. QED
      BY <1>3, <3>1, <3>2, PoolAssumption
  <2>3. CASE MoveAssign(p, q)
    <3>1. ptr' = [ptr EXCEPT ![p] = ptr[q], ![q] = ptr[p]]
      BY <2>3 DEF MoveAssign
    <3>2. ptr'[q] = ptr[p] /\ (p # q => ptr'[p] = ptr[q])
      BY <1>1, <3>1
    <3>3. \A w \in Ptrs : w # p /\ w # q => ptr'[w] = ptr[w]
      BY <1>1, <3>1
    <3>4. QED
      BY <1>3, <3>2, <3>3
  <2>4. QED
    BY <2>1, <2>2, <2>3
<1>4. QED
  BY <1>1, <1>2, <1>3 DEF Kept, Owned

LEMMA ThreadExitKept ==
    ASSUME IInv, Kept, NEW t \in alive, ThreadExit(t)
    PROVE  Kept'
<1>1. PoolTypeOK /\ t \in Threads
  BY DEF IInv, PoolTypeOK
<1>2. pool' = [pool EXCEPT ![t] = <<>>] /\ made' = made \ InPool(t) /\ ptr' = ptr
  BY DEF ThreadExit
<1>3. \A u \in Threads : u # t => pool'[u] = pool[u]
  BY <1>1, <1>2 DEF PoolTypeOK
<1>4. QED
  BY <1>2, <1>3 DEF Kept, Owned, InPool

LEMMA NextKept == ASSUME IInv, Kept, [PoolNext]_poolVars PROVE Kept'
<1>1. ASSUME NEW t \in alive, ThreadExit(t) PROVE Kept'
  BY <1>1, ThreadExitKept
<1>2. ASSUME NEW t \in alive, NEW p \in Ptrs, Construct(t, p) PROVE Kept'
  <2>1. t \in Threads /\ Empty \in Values
    BY PoolAssumption DEF IInv, PoolTypeOK
  <2>2. QED
    BY <1>2, <2>1, TakeKept DEF Construct
<1>3. ASSUME NEW t \in alive, NEW p \in Ptrs, Destroy(t, p) \/ AssignNull(t, p) PROVE Kept'
  <2>1. t \in Threads
    BY DEF IInv, PoolTypeOK
  <2>2. QED
    BY <1>3, <2>1, GiveBackKept DEF Destroy, AssignNull
<1>4. ASSUME NEW p \in Ptrs, ConstructNull(p) PROVE Kept'
  BY <1>4, MoveKept
<1>5. ASSUME NEW p \in Ptrs, NEW q \in Ptrs, MoveConstruct(p, q) \/ MoveAssign(p, q)
      PROVE  Kept'
  BY <1>5, MoveKept
<1>6. ASSUME NEW p \in Ptrs, NEW q \in Ptrs, NEW t \in alive, CopyConstruct(t, p, q)
      PROVE  Kept'
  <2>1. t \in Threads /\ Holds(q) /\ ptr[p] = Unborn
    BY <1>6 DEF IInv, PoolTypeOK, CopyConstruct
  <2>2. content[ptr[q]] \in Values
    BY <2>1 DEF IInv, PoolTypeOK, Holds
  <2>3. QED
    BY <1>6, <2>1, <2>2, TakeKept DEF CopyConstruct
<1>7. ASSUME NEW p \in Ptrs, NEW q \in Ptrs, CopyAssign(p, q) PROVE Kept'
  BY <1>7 DEF CopyAssign, Kept, Owned
<1>8. ASSUME NEW p \in Ptrs, NEW v \in Values, Write(p, v) PROVE Kept'
  BY <1>8 DEF Write, Kept, Owned
<1>9. CASE UNCHANGED poolVars
  BY <1>9 DEF poolVars, Kept, Owned
<1>10. QED
  BY <1>1, <1>2, <1>3, <1>4, <1>5, <1>6, <1>7, <1>8, <1>9 DEF PoolNext

----------------------------------------------------------------------------
THEOREM Inductive == PoolSpec => []IInv
<1>1. IInv /\ [PoolNext]_poolVars => IInv'
  BY NextInv
<1>2. QED
  BY <1>1, InitInv, PTL DEF PoolSpec

(* Type correctness of pool and pointers.                                    *)
THEOREM TypeCorrect == PoolSpec => []PoolTypeOK
<1>1. IInv => PoolTypeOK
  BY DEF IInv
<1>2. QED
  BY <1>1, Inductive, PTL

(* No two pointers, pools or places of a pool ever own the same vector, so   *)
(* no vector is freed or returned twice, whatever threads destroy it.        *)
THEOREM SingleOwnership == PoolSpec => []SoleOwner
<1>1. IInv => SoleOwner
  BY DEF IInv
<1>2. QED
  BY <1>1, Inductive, PTL

(* A pointer reads what was last stored through it: vectors that are reused  *)
(* show nothing of their former life, and copies are independent.            *)
THEOREM ReadsOwnWrites == PoolSpec => []Isolation
<1>1. IInv => Isolation
  BY DEF IInv
<1>2. QED
  BY <1>1, Inductive, PTL
(* Every vector that was allocated and not freed is held by a pointer or     *)
(* waits in a pool, whichever threads end while vectors are on the move.     *)
THEOREM NothingLost == PoolSpec => []NoLeak
<1>1. PoolInit => IInv /\ Kept
  BY InitInv, InitKept
<1>2. IInv /\ Kept /\ [PoolNext]_poolVars => (IInv /\ Kept)'
  BY NextInv, NextKept
<1>3. IInv /\ Kept => NoLeak
  BY NoLeakSplits DEF IInv
<1>4. QED
  BY <1>1, <1>2, <1>3, PTL DEF PoolSpec
=============================================================================
