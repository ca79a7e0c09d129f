---------------------- MODULE QuotaRegistrationProofs ----------------------
(***************************************************************************)
(* For any number of writers, repositories, paths and sizes: a blob store  *)
(* with a quota never counts more bytes than the quota, a repository with  *)
(* a quota never holds more, and between requests the counter of the store *)
(* is what a recount of its rows gives.                                    *)
(***************************************************************************)
EXTENDS QuotaRegistration, FiniteSetTheorems, WellFoundedInduction, TLAPS

\* A registration past its store lock and short of its end.
Inside == {"lockRepo", "delta", "checkStore", "checkRepo", "upsert", "count"}

\* The locals a step reads are set.
JobShape ==
    \A w \in Writers :
        /\ job[w].pc \notin {"idle", "freed"} =>
               job[w].path \in Paths /\ job[w].key \in Paths /\ job[w].size \in Sizes
        /\ job[w].pc = "freed" => job[w].delta <= 0

\* With a store quota configured, a registration inside holds the store's lock.
StoreLockHeld ==
    StoreQuota # None =>
        \A w \in Writers : job[w].pc \in Inside => lock["store"] = w

\* What the headroom check allowed still fits when the counter moves.
Reserved ==
    StoreQuota # None =>
        \A w \in Writers :
            job[w].pc \in {"checkRepo", "upsert", "count"} =>
                job[w].delta <= 0 \/ used + job[w].delta <= StoreQuota

IInv == DataOK /\ JobShape /\ StoreLockHeld /\ Reserved /\ StoreQuotaHolds

-----------------------------------------------------------------------------

\* A count of rows is a number, or the error an empty id makes.
LEMMA DeltaType ==
    ASSUME DataOK, NEW prev \in Row \cup {None}, NEW k \in Paths, NEW n \in Sizes
    PROVE  UsageDelta(prev, k, n) \in Int
<1>1. n \in Int
  BY QuotaAssumption DEF Sizes
<1>2. prev # None => prev.size \in Int
  BY QuotaAssumption DEF Row, Sizes
<1> QED
  BY <1>1, <1>2 DEF UsageDelta

\* Goto changes one writer's step.
LEMMA GotoJob ==
    ASSUME job \in [Writers -> Job], NEW w \in Writers, NEW l \in PC, Goto(w, l)
    PROVE  /\ job' \in [Writers -> Job]
           /\ job'[w].pc = l
           /\ job'[w].path = job[w].path /\ job'[w].key = job[w].key
           /\ job'[w].size = job[w].size /\ job'[w].delta = job[w].delta
           /\ \A v \in Writers \ {w} : job'[v] = job[v]
BY DEF Goto, Job

\* A finished or refused writer is idle and holds no lock.
LEMMA EndJob ==
    ASSUME DataOK, NEW w \in Writers, job' = [job EXCEPT ![w] = Idle]
    PROVE  /\ job' \in [Writers -> Job]
           /\ job'[w].pc = "idle"
           /\ \A v \in Writers \ {w} : job'[v] = job[v]
BY DEF DataOK, Idle, Job, PC

\* Releasing takes no lock from anybody else.
LEMMA ReleaseLock ==
    ASSUME DataOK, NEW w \in Writers, ReleaseAll(w)
    PROVE  /\ lock' \in [Locks -> Writers \cup {None}]
           /\ lock["store"] # w => lock'["store"] = lock["store"]
BY DEF DataOK, ReleaseAll, Locks

\* The empty server.
LEMMA InitEstablishes == Init => IInv
BY QuotaAssumption
   DEF Init, IInv, DataOK, JobShape, StoreLockHeld, Reserved, StoreQuotaHolds,
       Idle, Job, PC, Inside

\* A refused or failed registration gives everything back.
LEMMA RefusePreserves ==
    ASSUME IInv, NEW w \in Writers, Refuse(w), UNCHANGED <<row, used, nextId>>
    PROVE  IInv'
<1>1. /\ job' \in [Writers -> Job]
      /\ job'[w].pc = "idle"
      /\ \A v \in Writers \ {w} : job'[v] = job[v]
  BY EndJob DEF Refuse, IInv
<1>2. /\ lock' \in [Locks -> Writers \cup {None}]
      /\ lock["store"] # w => lock'["store"] = lock["store"]
  BY ReleaseLock DEF Refuse, IInv
<1>3. DataOK' /\ JobShape'
  BY <1>1, <1>2 DEF IInv, DataOK, JobShape
<1>4. StoreLockHeld'
  BY <1>1, <1>2 DEF IInv, StoreLockHeld, Inside
<1>5. Reserved' /\ StoreQuotaHolds'
  BY <1>1 DEF IInv, Reserved, StoreQuotaHolds
<1> QED
  BY <1>3, <1>4, <1>5 DEF IInv

\* A writer moves on; what it needs at the new step is assumed.
LEMMA MovePreserves ==
    ASSUME IInv, NEW w \in Writers, NEW l \in PC \ {"idle", "freed"}, Goto(w, l),
           job[w].pc \notin {"idle", "freed"},
           DataOK', UNCHANGED used,
           \A v \in Writers \ {w} : lock["store"] = v => lock'["store"] = v,
           StoreQuota # None /\ l \in Inside => lock'["store"] = w,
           StoreQuota # None /\ l \in {"checkRepo", "upsert", "count"} =>
               job[w].delta <= 0 \/ used + job[w].delta <= StoreQuota
    PROVE  IInv'
<1>1. /\ job'[w].pc = l
      /\ job'[w].path = job[w].path /\ job'[w].key = job[w].key
      /\ job'[w].size = job[w].size /\ job'[w].delta = job[w].delta
      /\ \A v \in Writers \ {w} : job'[v] = job[v]
  BY GotoJob DEF IInv, DataOK
<1>2. JobShape'
  BY <1>1 DEF IInv, JobShape
<1>3. StoreLockHeld'
  BY <1>1 DEF IInv, StoreLockHeld
<1>4. Reserved'
  BY <1>1 DEF IInv, Reserved
<1>5. StoreQuotaHolds'
  BY DEF IInv, StoreQuotaHolds
<1> QED
  BY <1>2, <1>3, <1>4, <1>5 DEF IInv

\* A new request touches no counter.
LEMMA BeginPreserves ==
    ASSUME IInv, NEW w \in Writers, NEW p \in Paths, NEW k \in Paths, NEW n \in Sizes,
           job' = [job EXCEPT ![w] = Registration(p, k, n)],
           UNCHANGED <<row, used, lock, nextId>>
    PROVE  IInv'
<1>0. Registration(p, k, n) \in Job
  BY DEF Registration, Job, PC
<1>1. /\ job' \in [Writers -> Job]
      /\ job'[w].pc = "readPrev" /\ job'[w].path = p /\ job'[w].key = k /\ job'[w].size = n
      /\ \A v \in Writers \ {w} : job'[v] = job[v]
  BY <1>0 DEF IInv, DataOK, Registration
<1>2. DataOK' /\ JobShape'
  BY <1>1 DEF IInv, DataOK, JobShape
<1>3. StoreLockHeld' /\ Reserved' /\ StoreQuotaHolds'
  BY <1>1 DEF IInv, StoreLockHeld, Reserved, StoreQuotaHolds, Inside
<1> QED
  BY <1>2, <1>3 DEF IInv

\* The unlocked read of the previous row, then the first lock to take.
LEMMA ReadPrevPreserves ==
    ASSUME IInv, NEW w \in Writers, ReadPrev(w)
    PROVE  IInv'
<1> DEFINE l == IF StoreQuota # None THEN "lockStore" ELSE AfterStore(job[w].path)
<1>1. l \in {"lockStore", "lockRepo", "delta"} /\ (StoreQuota # None => l = "lockStore")
  BY DEF AfterStore
<1>2. job[w].path \in Paths /\ job[w].pc = "readPrev"
  BY DEF IInv, JobShape, ReadPrev
<1>3. row[job[w].path] \in Row \cup {None}
  BY <1>2 DEF IInv, DataOK
<1>4. job' = [job EXCEPT ![w].prev = row[job[w].path], ![w].pc = l]
  BY DEF ReadPrev
<1> HIDE DEF l
<1>5. /\ job' \in [Writers -> Job]
      /\ job'[w].pc = l
      /\ job'[w].path = job[w].path /\ job'[w].key = job[w].key /\ job'[w].size = job[w].size
      /\ \A v \in Writers \ {w} : job'[v] = job[v]
  BY ZenonT(60), <1>1, <1>3, <1>4 DEF IInv, DataOK, Job, PC
<1>6. DataOK' /\ JobShape'
  BY <1>1, <1>2, <1>5 DEF IInv, DataOK, JobShape, ReadPrev
<1>7. StoreLockHeld' /\ Reserved' /\ StoreQuotaHolds'
  BY <1>1, <1>5 DEF IInv, StoreLockHeld, Reserved, StoreQuotaHolds, Inside, ReadPrev
<1> QED
  BY <1>6, <1>7 DEF IInv

\* The two lock acquisitions.
LEMMA LockPreserves ==
    ASSUME IInv, NEW w \in Writers, LockStore(w) \/ LockRepo(w)
    PROVE  IInv'
<1>0. DataOK /\ job[w].path \in Paths /\ RepoOf[job[w].path] \in Repos
  BY QuotaAssumption DEF IInv, JobShape, LockStore, LockRepo
<1>1. CASE LockStore(w)
  <2>1. AfterStore(job[w].path) \in {"lockRepo", "delta"}
    BY DEF AfterStore
  <2>2. lock' = [lock EXCEPT !["store"] = w] /\ lock["store"] = None /\ "store" \in Locks
    BY <1>1 DEF LockStore, Locks
  <2>3. DataOK'
    BY <1>0, <1>1, <2>1, <2>2, GotoJob DEF DataOK, LockStore, PC
  <2> QED
    BY <1>0, <1>1, <2>1, <2>2, <2>3, MovePreserves, NoneAssumption DEF LockStore, PC, DataOK
<1>2. CASE LockRepo(w)
  <2>1. /\ lock' = [lock EXCEPT ![RepoOf[job[w].path]] = w]
        /\ RepoOf[job[w].path] \in Locks /\ RepoOf[job[w].path] # "store"
    BY <1>0, <1>2, NoneAssumption DEF LockRepo, Locks
  <2>2. DataOK'
    BY <1>0, <1>2, <2>1, GotoJob DEF DataOK, LockRepo, PC
  <2>3. lock'["store"] = lock["store"]
    BY <1>0, <2>1 DEF DataOK
  <2>4. StoreQuota # None => lock["store"] = w
    BY <1>2 DEF IInv, StoreLockHeld, LockRepo, Inside
  <2> QED
    BY <1>2, <2>2, <2>3, <2>4, MovePreserves DEF LockRepo, PC
<1> QED
  BY <1>1, <1>2

\* Computing the delta and the two headroom checks.
LEMMA CheckPreserves ==
    ASSUME IInv, NEW w \in Writers, ComputeDelta(w) \/ CheckStore(w) \/ CheckRepo(w)
    PROVE  IInv'
<1>0. DataOK /\ JobShape
  BY DEF IInv
<1>a. StoreQuota # None => lock["store"] = w
  BY DEF IInv, StoreLockHeld, ComputeDelta, CheckStore, CheckRepo, Inside
<1>1. CASE ComputeDelta(w)
  <2> DEFINE d == UsageDelta(job[w].prev, job[w].key, job[w].size)
             l == IF d > 0 THEN "checkStore" ELSE "upsert"
  <2>1. d \in Int
    BY <1>0, <1>1, DeltaType DEF DataOK, Job, JobShape, ComputeDelta
  <2>2. job' = [job EXCEPT ![w].delta = d, ![w].pc = l] /\ UNCHANGED <<row, used, lock, nextId>>
    BY <1>1 DEF ComputeDelta
  <2>3. l \in {"checkStore", "upsert"} /\ (l = "upsert" => d <= 0)
    BY <2>1
  <2> HIDE DEF d, l
  <2>4. /\ job' \in [Writers -> Job]
        /\ job'[w].pc = l /\ job'[w].delta = d
        /\ job'[w].path = job[w].path /\ job'[w].key = job[w].key /\ job'[w].size = job[w].size
        /\ \A v \in Writers \ {w} : job'[v] = job[v]
    BY ZenonT(60), <1>0, <2>1, <2>2, <2>3 DEF DataOK, Job, PC
  <2>5. DataOK' /\ JobShape'
    BY <1>0, <1>1, <2>2, <2>3, <2>4 DEF DataOK, JobShape, ComputeDelta
  <2>6. StoreLockHeld' /\ Reserved' /\ StoreQuotaHolds'
    BY <1>a, <2>2, <2>3, <2>4 DEF IInv, StoreLockHeld, Reserved, StoreQuotaHolds
  <2> QED
    BY <2>5, <2>6 DEF IInv
<1>2. CASE CheckStore(w)
  <2>1. CASE StoreQuota # None /\ used + job[w].delta > StoreQuota
    BY <1>2, <2>1, RefusePreserves DEF CheckStore
  <2>2. CASE ~(StoreQuota # None /\ used + job[w].delta > StoreQuota)
    <3>1. Goto(w, "checkRepo") /\ UNCHANGED <<row, used, lock, nextId>> /\ job[w].pc = "checkStore"
      BY <1>2, <2>2 DEF CheckStore
    <3>2. DataOK'
      BY <1>0, <3>1, GotoJob DEF DataOK, PC
    <3>3. StoreQuota # None => used + job[w].delta <= StoreQuota
      BY <1>0, <2>2, QuotaAssumption DEF DataOK, Job
    <3> QED
      BY <1>a, <3>1, <3>2, <3>3, MovePreserves DEF PC
  <2> QED
    BY <2>1, <2>2
<1>3. CASE CheckRepo(w)
  <2>1. CASE Refuse(w)
    BY <1>3, <2>1, RefusePreserves DEF CheckRepo
  <2>2. CASE Goto(w, "upsert") /\ UNCHANGED lock
    <3>1. UNCHANGED <<row, used, lock, nextId>> /\ job[w].pc = "checkRepo"
      BY <1>3, <2>2 DEF CheckRepo
    <3>2. DataOK'
      BY <1>0, <2>2, <3>1, GotoJob DEF DataOK, PC
    <3>3. StoreQuota # None => job[w].delta <= 0 \/ used + job[w].delta <= StoreQuota
      BY <3>1 DEF IInv, Reserved
    <3> QED
      BY <1>a, <2>2, <3>1, <3>2, <3>3, MovePreserves DEF PC
  <2> QED
    BY <1>3, <2>1, <2>2 DEF CheckRepo
<1> QED
  BY <1>1, <1>2, <1>3

\* The upsert moves no counter; the reservation stays.
LEMMA UpsertPreserves ==
    ASSUME IInv, NEW w \in Writers, Upsert(w)
    PROVE  IInv'
<1>0. DataOK /\ JobShape
  BY DEF IInv
<1>1. CASE Refuse(w) /\ UNCHANGED <<row, nextId>>
  BY <1>1, RefusePreserves DEF Upsert
<1>2. CASE Goto(w, "count") /\ UNCHANGED lock /\ nextId < MaxId
           /\ row' = [row EXCEPT ![job[w].path] =
                        [id |-> IF row[job[w].path] = None THEN nextId ELSE row[job[w].path].id,
                         key |-> job[w].key, size |-> job[w].size]]
           /\ nextId' = IF row[job[w].path] = None THEN nextId + 1 ELSE nextId
  <2>1. job[w].pc = "upsert" /\ UNCHANGED used
    BY DEF Upsert
  <2>2. job[w].path \in Paths /\ job[w].key \in Paths /\ job[w].size \in Sizes
    BY <1>0, <2>1 DEF JobShape
  <2>3. /\ nextId \in Nat
        /\ row[job[w].path] # None => row[job[w].path].id \in Nat
    BY <1>0, <2>2 DEF DataOK, Row
  <2>4. row' \in [Paths -> Row \cup {None}]
    BY <1>0, <1>2, <2>2, <2>3 DEF DataOK, Row
  <2>5. nextId' \in 0 .. MaxId
    BY <1>0, <1>2, QuotaAssumption DEF DataOK
  <2>6. DataOK'
    BY <1>0, <1>2, <2>1, <2>4, <2>5, GotoJob DEF DataOK, PC
  <2>7. /\ StoreQuota # None => lock["store"] = w
        /\ StoreQuota # None => job[w].delta <= 0 \/ used + job[w].delta <= StoreQuota
    BY <2>1 DEF IInv, StoreLockHeld, Reserved, Inside
  <2> QED
    BY <1>2, <2>1, <2>6, <2>7, MovePreserves DEF PC
<1> QED
  BY <1>1, <1>2 DEF Upsert

\* A registration that moved the counter is over, or goes on with the digest path.
LEMMA CountedJob ==
    ASSUME IInv, NEW w \in Writers, Count(w) \/ Freed(w)
    PROVE  /\ job' \in [Writers -> Job] /\ JobShape'
           /\ job'[w].pc \in {"idle", "readPrev"}
           /\ \A v \in Writers \ {w} : job'[v] = job[v]
<1>0. DataOK /\ JobShape
  BY DEF IInv
<1>1. CASE job' = [job EXCEPT ![w] = Idle]
  <2>1. /\ job' \in [Writers -> Job] /\ job'[w].pc = "idle"
        /\ \A v \in Writers \ {w} : job'[v] = job[v]
    BY <1>0, <1>1, EndJob
  <2> QED
    BY <1>0, <2>1 DEF JobShape
<1>2. ASSUME NEW d \in Manifests(job[w].path, job[w].size), job[w].pc = "count",
             job' = [job EXCEPT ![w] = Registration(d, job[w].key, job[w].size)]
      PROVE  /\ job' \in [Writers -> Job] /\ JobShape'
             /\ job'[w].pc \in {"idle", "readPrev"}
             /\ \A v \in Writers \ {w} : job'[v] = job[v]
  <2>1. d \in Paths /\ job[w].key \in Paths /\ job[w].size \in Sizes
    BY <1>0, <1>2 DEF JobShape, Manifests
  <2>2. Registration(d, job[w].key, job[w].size) \in Job
    BY <2>1 DEF Registration, Job, PC
  <2>3. /\ job' \in [Writers -> Job]
        /\ job'[w] = Registration(d, job[w].key, job[w].size)
        /\ \A v \in Writers \ {w} : job'[v] = job[v]
    BY <1>0, <1>2, <2>2 DEF DataOK
  <2>4. /\ job'[w].pc = "readPrev" /\ job'[w].path = d
        /\ job'[w].key = job[w].key /\ job'[w].size = job[w].size
    BY <2>3 DEF Registration
  <2> QED
    BY <1>0, <2>1, <2>3, <2>4 DEF JobShape
<1> QED
  BY <1>1, <1>2 DEF Count, Freed

\* The counter moves up only by a reserved amount, and nobody else has one.
LEMMA CountPreserves ==
    ASSUME IInv, NEW w \in Writers, Count(w) \/ Freed(w)
    PROVE  IInv'
<1>0. DataOK /\ JobShape /\ StoreQuotaHolds
  BY DEF IInv
<1>1. /\ used \in Nat /\ job[w].delta \in Int
      /\ used' = used \/ used' = IF used + job[w].delta < 0 THEN 0 ELSE used + job[w].delta
      /\ UNCHANGED <<row, nextId>>
  BY <1>0 DEF DataOK, Job, Count, Freed, MoveCounter, UpdateUsedBytes
<1>2. used' \in Nat /\ (job[w].delta <= 0 => used' <= used)
  BY <1>1
<1>3. /\ job' \in [Writers -> Job] /\ JobShape'
      /\ job'[w].pc \in {"idle", "readPrev"}
      /\ \A v \in Writers \ {w} : job'[v] = job[v]
  BY CountedJob
<1>4. /\ lock' \in [Locks -> Writers \cup {None}]
      /\ lock["store"] # w => lock'["store"] = lock["store"]
  BY <1>0, ReleaseLock DEF Count, Freed, DataOK
<1>5. DataOK' /\ JobShape'
  BY <1>0, <1>1, <1>2, <1>3, <1>4 DEF DataOK
<1>6. StoreLockHeld'
  BY <1>3, <1>4 DEF IInv, StoreLockHeld, Inside
<1>7. StoreQuotaHolds'
  <2>1. StoreQuota # None => job[w].delta <= 0 \/ used + job[w].delta <= StoreQuota
    BY <1>0 DEF IInv, Reserved, JobShape, Count, Freed
  <2> QED
    BY <1>0, <1>1, <1>2, <2>1, QuotaAssumption DEF StoreQuotaHolds
<1>8. Reserved'
  <2>1. CASE Count(w)
    <3>1. StoreQuota # None =>
            \A v \in Writers \ {w} : job[v].pc \notin {"checkRepo", "upsert", "count"}
      BY <2>1 DEF IInv, StoreLockHeld, Inside, Count
    <3> QED
      BY <1>3, <3>1 DEF Reserved
  <2>2. CASE Freed(w)
    <3>1. used' <= used
      BY <1>0, <1>2, <2>2 DEF Freed, JobShape
    <3>2. \A v \in Writers : job[v].delta \in Int
      BY <1>0 DEF DataOK, Job
    <3> QED
      BY <1>1, <1>2, <1>3, <3>1, <3>2, QuotaAssumption DEF IInv, Reserved
  <2> QED
    BY <2>1, <2>2
<1> QED
  BY <1>5, <1>6, <1>7, <1>8 DEF IInv

\* A delete removes a row and will only lower the counter.
LEMMA DeleteRowPreserves ==
    ASSUME IInv, NEW w \in Writers, NEW p \in Paths, DeleteRow(w, p)
    PROVE  IInv'
<1>0. DataOK /\ JobShape
  BY DEF IInv
<1>1. /\ row' = [row EXCEPT ![p] = None] /\ UNCHANGED <<used, lock, nextId>>
      /\ row[p] \in Row /\ row[p].size \in 1 .. MaxSize /\ row[p].key \in Paths
  BY <1>0 DEF DeleteRow, DataOK, Row, Sizes
<1>2. -row[p].size \in Int /\ -row[p].size <= 0
  BY <1>1, QuotaAssumption
<1>3. CASE job' = job
  <2>1. DataOK' /\ JobShape'
    BY <1>0, <1>1, <1>3 DEF DataOK, JobShape
  <2> QED
    BY <1>1, <1>3, <2>1 DEF IInv, StoreLockHeld, Reserved, StoreQuotaHolds
<1>4. CASE job' = [job EXCEPT ![w] = [pc |-> "freed", path |-> p, key |-> row[p].key,
                                     size |-> 0, prev |-> None, delta |-> -row[p].size]]
  <2>1. /\ job' \in [Writers -> Job]
        /\ job'[w].pc = "freed" /\ job'[w].delta = -row[p].size
        /\ \A v \in Writers \ {w} : job'[v] = job[v]
    BY <1>0, <1>1, <1>2, <1>4 DEF DataOK, Job, PC
  <2>2. DataOK' /\ JobShape'
    BY <1>0, <1>1, <1>2, <2>1 DEF DataOK, JobShape
  <2>3. StoreLockHeld' /\ Reserved' /\ StoreQuotaHolds'
    BY <1>1, <2>1 DEF IInv, StoreLockHeld, Reserved, StoreQuotaHolds, Inside
  <2> QED
    BY <2>2, <2>3 DEF IInv
<1> QED
  BY <1>3, <1>4 DEF DeleteRow

\* Every step preserves the invariant.
LEMMA NextPreserves == IInv /\ [Next]_vars => IInv'
<1> SUFFICES ASSUME IInv, [Next]_vars PROVE IInv'
  OBVIOUS
<1>1. ASSUME NEW w \in Writers, NEW p \in Paths, NEW n \in Sizes, Store(w, p, n)
      PROVE  IInv'
  BY <1>1, BeginPreserves DEF Store
<1>2. ASSUME NEW w \in Writers, NEW p \in Paths, NEW q \in Paths, Mount(w, p, q)
      PROVE  IInv'
  <2>1. row[q].key \in Paths /\ row[q].size \in Sizes
    BY <1>2 DEF Mount, IInv, DataOK, Row
  <2> QED
    BY <1>2, <2>1, BeginPreserves DEF Mount
<1>3. ASSUME NEW w \in Writers, NEW p \in Paths, DeleteRow(w, p)
      PROVE  IInv'
  BY <1>3, DeleteRowPreserves
<1>4. ASSUME NEW w \in Writers, LockStore(w) \/ LockRepo(w)
      PROVE  IInv'
  BY <1>4, LockPreserves
<1>5. ASSUME NEW w \in Writers, Advance(w)
      PROVE  IInv'
  BY <1>5, ReadPrevPreserves, CheckPreserves, UpsertPreserves, CountPreserves DEF Advance
<1>6. CASE UNCHANGED vars
  BY <1>6 DEF vars, IInv, DataOK, JobShape, StoreLockHeld, Reserved, StoreQuotaHolds
<1> QED
  BY <1>1, <1>2, <1>3, <1>4, <1>5, <1>6 DEF Next

\* The store's used_bytes stays within its quota in every reachable state,
\* whatever races on one path and whatever blob keys aliases share.
THEOREM StoreQuotaSafe == Spec => []StoreQuotaHolds
<1>1. IInv => StoreQuotaHolds
  BY DEF IInv
<1> QED
  BY InitEstablishes, NextPreserves, <1>1, PTL DEF Spec

\* The inductive invariant holds in every reachable state.
LEMMA Invariance == Spec => []IInv
<1> QED
  BY InitEstablishes, NextPreserves, PTL DEF Spec

HistoryOK == raced \subseteq Paths /\ aliased \in BOOLEAN /\ drift \subseteq {"over", "under"}

\* The history variables keep their types: only paths are recorded as raced.
LEMMA HistoryType ==
    IInv /\ HistoryOK /\ [Next]_vars => HistoryOK'
<1> SUFFICES ASSUME IInv, HistoryOK, [Next]_vars
             PROVE  HistoryOK'
  OBVIOUS
<1>1. ASSUME NEW w \in Writers, NEW p \in Paths, NEW n \in Sizes, Store(w, p, n)
      PROVE  HistoryOK'
  BY <1>1 DEF Store, Touch, HistoryOK
<1>2. ASSUME NEW w \in Writers, NEW p \in Paths, NEW q \in Paths, Mount(w, p, q)
      PROVE  HistoryOK'
  <2>1. row[q].key \in Paths
    BY <1>2 DEF Mount, IInv, DataOK, Row
  <2> QED
    BY <1>2, <2>1 DEF Mount, Touch, HistoryOK
<1>3. ASSUME NEW w \in Writers, NEW p \in Paths, DeleteRow(w, p)
      PROVE  HistoryOK'
  <2>1. row[p].key \in Paths
    BY <1>3 DEF DeleteRow, IInv, DataOK, Row
  <2> QED
    BY <1>3, <2>1 DEF DeleteRow, Touch, Drift, HistoryOK
<1>4. ASSUME NEW w \in Writers, LockStore(w) \/ LockRepo(w) \/ Advance(w)
      PROVE  HistoryOK'
  <2>1. CASE UNCHANGED history
    BY <2>1 DEF history, HistoryOK
  <2>2. CASE Count(w) \/ Freed(w)
    <3>1. drift' \subseteq {"over", "under"}
      BY <2>2 DEF Count, Freed, MoveCounter, Drift, HistoryOK
    <3>2. raced' \subseteq Paths /\ aliased' \in BOOLEAN
      BY <2>2 DEF Count, Freed, Manifests, Touch, HistoryOK
    <3> QED
      BY <3>1, <3>2 DEF HistoryOK
  <2> QED
    BY <1>4, <2>1, <2>2 DEF LockStore, LockRepo, Advance, ReadPrev, ComputeDelta, CheckStore,
                            CheckRepo, Upsert
<1>5. CASE UNCHANGED vars
  BY <1>5 DEF vars, HistoryOK
<1> QED
  BY <1>1, <1>2, <1>3, <1>4, <1>5 DEF Next

\* Type correctness of the rows, the counter, the quota locks and the writers:
\* in particular used_bytes is never negative, whatever deltas race on it.
THEOREM TypeCorrect == Spec => []TypeOK
<1>1. Init => HistoryOK
  BY DEF Init, HistoryOK
<1>2. IInv /\ HistoryOK => TypeOK
  BY DEF IInv, HistoryOK, TypeOK
<1> QED
  BY <1>1, <1>2, HistoryType, Invariance, PTL DEF Spec

-----------------------------------------------------------------------------
(* Sums over finite sets                                                   *)

\* The element a fold takes first, and the table of partial sums it computes.
First(s) == CHOOSE x \in s : TRUE
Table(g, f, S) ==
    g = [s \in SUBSET S |-> IF s = {} THEN 0 ELSE f[First(s)] + g[s \ {First(s)}]]

Sum(f, S) == SumFunctionOnSet(f, S)

\* A nonempty family of subsets of a finite set has a member with no smaller one:
\* the form in which induction over finite sets is used below.
LEMMA SmallestSet ==
    ASSUME NEW S, IsFiniteSet(S), NEW F, F \subseteq SUBSET S, F # {}
    PROVE  \E x \in F : \A y \in F : ~(y \subseteq x /\ y # x)
<1>1. F \subseteq FiniteSubsetsOf(S)
  BY FS_Subset DEF FiniteSubsetsOf
<1>2. PICK x \in F : \A y \in F : ~(<<y, x>> \in StrictSubsetOrdering(S))
  BY <1>1, FS_StrictSubsetOrderingWellFounded, WFMin
<1> QED
  BY <1>1, <1>2 DEF StrictSubsetOrdering, FiniteSubsetsOf

\* The first element is an element.
LEMMA FirstIn == ASSUME NEW S, S # {} PROVE First(S) \in S
BY DEF First

\* Two tables agree where both are defined.
LEMMA TablesAgree ==
    ASSUME NEW f, NEW S, NEW T, IsFiniteSet(S), NEW g, NEW h, Table(g, f, S), Table(h, f, T)
    PROVE  \A s \in SUBSET (S \cap T) : g[s] = h[s]
<1> DEFINE Bad == {s \in SUBSET (S \cap T) : g[s] # h[s]}
<1> SUFFICES ASSUME Bad # {} PROVE FALSE
  OBVIOUS
<1>1. PICK s \in Bad : \A y \in Bad : ~(y \subseteq s /\ y # s)
  <2>1. Bad \subseteq SUBSET S
    OBVIOUS
  <2> HIDE DEF Bad
  <2> QED
    BY <2>1, SmallestSet
<1>2. s \subseteq S /\ s \subseteq T /\ g[s] # h[s]
  BY <1>1
<1>3. /\ g[s] = IF s = {} THEN 0 ELSE f[First(s)] + g[s \ {First(s)}]
      /\ h[s] = IF s = {} THEN 0 ELSE f[First(s)] + h[s \ {First(s)}]
  BY <1>2 DEF Table
<1>4. s # {}
  BY <1>2, <1>3
<1>5. s \ {First(s)} \subseteq s /\ s \ {First(s)} # s
  BY <1>4, FirstIn
<1>6. g[s \ {First(s)}] = h[s \ {First(s)}]
  BY <1>1, <1>2, <1>5
<1> QED
  BY <1>2, <1>3, <1>6

\* Every finite set has its table.
LEMMA TableExists ==
    ASSUME NEW f, NEW S, IsFiniteSet(S)
    PROVE  \E g : Table(g, f, S)
<1> DEFINE Bad == {T \in SUBSET S : ~ \E g : Table(g, f, T)}
<1> SUFFICES ASSUME Bad # {} PROVE FALSE
  OBVIOUS
<1>1. PICK T \in Bad : \A y \in Bad : ~(y \subseteq T /\ y # T)
  <2>1. Bad \subseteq SUBSET S
    OBVIOUS
  <2> HIDE DEF Bad
  <2> QED
    BY <2>1, SmallestSet
<1> DEFINE tab(s) == CHOOSE g : Table(g, f, s)
           rest(s) == s \ {First(s)}
           g == [s \in SUBSET T |-> IF s = {} THEN 0 ELSE f[First(s)] + tab(rest(s))[rest(s)]]
<1>2. \A s \in SUBSET T : s # T => Table(tab(s), f, s)
  BY <1>1
<1>3. \A s \in SUBSET T : IsFiniteSet(s)
  BY FS_Subset
<1>4. \A s \in SUBSET T : s # {} => rest(s) \subseteq s /\ rest(s) # s /\ rest(s) \in SUBSET T
  BY FirstIn
<1> HIDE DEF tab, rest
<1>5. ASSUME NEW s \in SUBSET T, s # {}
      PROVE  g[rest(s)] = tab(rest(s))[rest(s)]
  <2> DEFINE u == rest(s)
  <2>1. u \in SUBSET T /\ u # T /\ u \subseteq s
    BY <1>4, <1>5
  <2>2. Table(tab(u), f, u)
    BY <1>2, <2>1
  <2>3. CASE u = {}
    BY <2>1, <2>2, <2>3 DEF Table
  <2>4. CASE u # {}
    <3>1. rest(u) \in SUBSET T /\ rest(u) # T /\ rest(u) \subseteq u
      BY <1>4, <2>1, <2>4
    <3>2. Table(tab(rest(u)), f, rest(u))
      BY <1>2, <3>1
    <3>3. tab(u)[rest(u)] = tab(rest(u))[rest(u)]
      BY <1>3, <2>1, <2>2, <3>1, <3>2, TablesAgree
    <3>4. tab(u)[u] = f[First(u)] + tab(u)[rest(u)]
      BY <2>2, <2>4 DEF Table, rest
    <3>5. g[u] = f[First(u)] + tab(rest(u))[rest(u)]
      BY <2>1, <2>4
    <3> QED
      BY <3>3, <3>4, <3>5
  <2> QED
    BY <2>3, <2>4
<1>6. \A s \in SUBSET T : g[s] = IF s = {} THEN 0 ELSE f[First(s)] + g[rest(s)]
  BY <1>5
<1>7. g = [s \in SUBSET T |-> IF s = {} THEN 0 ELSE f[First(s)] + g[rest(s)]]
  <2> DEFINE h == [s \in SUBSET T |-> IF s = {} THEN 0 ELSE f[First(s)] + g[rest(s)]]
  <2>1. \A s \in SUBSET T : g[s] = h[s]
    BY <1>6
  <2>2. g = [s \in SUBSET T |-> g[s]] /\ h = [s \in SUBSET T |-> h[s]]
    OBVIOUS
  <2>3. g = h
    <3> HIDE DEF g, h
    <3> QED
      BY <2>1, <2>2
  <2> QED
    BY <2>3
<1> HIDE DEF g
<1>8. Table(g, f, T)
  BY <1>7 DEF Table, rest
<1> QED
  BY <1>1, <1>8

\* The library's sum is the last entry of the table.
LEMMA SumIsTable ==
    ASSUME NEW f, NEW S, IsFiniteSet(S)
    PROVE  \E g : Table(g, f, S) /\ Sum(f, S) = g[S]
<1>1. Sum(f, S) = (CHOOSE g : Table(g, f, S))[S]
  BY DEF Sum, SumFunctionOnSet, FoldFunctionOnSet, MapThenFoldSet, Table, First
<1> QED
  BY <1>1, TableExists

\* Nothing sums to zero.
LEMMA SumEmpty == ASSUME NEW f PROVE Sum(f, {}) = 0
<1>1. PICK g : Table(g, f, {}) /\ Sum(f, {}) = g[{}]
  BY SumIsTable, FS_EmptySet
<1>2. g[{}] = 0
  BY <1>1 DEF Table
<1> QED
  BY <1>1, <1>2

\* One step of the fold.
LEMMA SumFirst ==
    ASSUME NEW f, NEW S, IsFiniteSet(S), S # {}
    PROVE  Sum(f, S) = f[First(S)] + Sum(f, S \ {First(S)})
<1>1. PICK g : Table(g, f, S) /\ Sum(f, S) = g[S]
  BY SumIsTable
<1> DEFINE R == S \ {First(S)}
<1>2. IsFiniteSet(R)
  BY FS_RemoveElement
<1>3. PICK h : Table(h, f, R) /\ Sum(f, R) = h[R]
  BY <1>2, SumIsTable
<1>4. g[R] = h[R]
  BY <1>1, <1>3, TablesAgree
<1>5. g[S] = f[First(S)] + g[R]
  BY <1>1 DEF Table
<1> QED
  BY <1>1, <1>3, <1>4, <1>5

Numbers(f, S) == \A x \in S : f[x] \in Int

\* A sum of integers is an integer.
LEMMA SumInt ==
    ASSUME NEW f, NEW S, IsFiniteSet(S), Numbers(f, S)
    PROVE  Sum(f, S) \in Int
<1> DEFINE Bad == {T \in SUBSET S : Sum(f, T) \notin Int}
<1> SUFFICES ASSUME Bad # {} PROVE FALSE
  OBVIOUS
<1>1. PICK T \in Bad : \A y \in Bad : ~(y \subseteq T /\ y # T)
  <2>1. Bad \subseteq SUBSET S
    OBVIOUS
  <2> HIDE DEF Bad
  <2> QED
    BY <2>1, SmallestSet
<1>2. IsFiniteSet(T) /\ Sum(f, T) \notin Int
  BY <1>1, FS_Subset
<1>3. T # {}
  BY <1>2, SumEmpty
<1>4. First(T) \in T
  BY <1>3, FirstIn
<1>5. Sum(f, T \ {First(T)}) \in Int
  BY <1>1, <1>4
<1>6. f[First(T)] \in Int
  BY <1>1, <1>4 DEF Numbers
<1> QED
  BY <1>2, <1>3, <1>5, <1>6, SumFirst

\* Any element can be taken out of the sum.
LEMMA SumRemove ==
    ASSUME NEW f, NEW S, IsFiniteSet(S), Numbers(f, S), NEW x \in S
    PROVE  Sum(f, S) = f[x] + Sum(f, S \ {x})
<1> DEFINE Bad == {T \in SUBSET S : \E y \in T : Sum(f, T) # f[y] + Sum(f, T \ {y})}
<1> SUFFICES ASSUME Bad # {} PROVE FALSE
  OBVIOUS
<1>1. PICK T \in Bad : \A U \in Bad : ~(U \subseteq T /\ U # T)
  <2>1. Bad \subseteq SUBSET S
    OBVIOUS
  <2> HIDE DEF Bad
  <2> QED
    BY <2>1, SmallestSet
<1>2. PICK y \in T : Sum(f, T) # f[y] + Sum(f, T \ {y})
  BY <1>1
<1>3. IsFiniteSet(T) /\ T \subseteq S /\ T # {}
  BY <1>1, <1>2, FS_Subset
<1> DEFINE z == First(T)
<1>4. z \in T
  BY <1>3, FirstIn
<1>5. Sum(f, T) = f[z] + Sum(f, T \ {z})
  BY <1>3, SumFirst
<1> HIDE DEF z
<1>6. y # z
  BY <1>2, <1>5
<1>7. Sum(f, T \ {z}) = f[y] + Sum(f, (T \ {z}) \ {y})
  <2>1. T \ {z} \notin Bad
    BY <1>1, <1>4
  <2> QED
    BY <1>3, <1>6, <2>1
<1>8. Sum(f, T \ {y}) = f[z] + Sum(f, (T \ {y}) \ {z})
  <2>1. T \ {y} \notin Bad
    BY <1>1
  <2> QED
    BY <1>3, <1>4, <1>6, <2>1
<1> DEFINE R == (T \ {y}) \ {z}
<1>9. Sum(f, T \ {z}) = f[y] + Sum(f, R) /\ Sum(f, T \ {y}) = f[z] + Sum(f, R)
  <2>1. (T \ {z}) \ {y} = R
    OBVIOUS
  <2> QED
    BY <1>7, <1>8, <2>1
<1>10. f[y] \in Int /\ f[z] \in Int /\ Sum(f, R) \in Int
  <2>1. IsFiniteSet(R)
    BY <1>3, FS_RemoveElement
  <2>2. Numbers(f, R)
    BY <1>3 DEF Numbers
  <2> QED
    BY <1>3, <1>4, <2>1, <2>2, SumInt DEF Numbers
<1> HIDE DEF Bad, R
<1> QED
  BY <1>2, <1>5, <1>9, <1>10

\* Sums of pointwise smaller numbers are smaller.
LEMMA SumMonotone ==
    ASSUME NEW f, NEW g, NEW S, IsFiniteSet(S), Numbers(f, S), Numbers(g, S),
           \A x \in S : f[x] <= g[x]
    PROVE  Sum(f, S) <= Sum(g, S)
<1> DEFINE Bad == {T \in SUBSET S : ~(Sum(f, T) <= Sum(g, T))}
<1> SUFFICES ASSUME Bad # {} PROVE FALSE
  OBVIOUS
<1>1. PICK T \in Bad : \A y \in Bad : ~(y \subseteq T /\ y # T)
  <2>1. Bad \subseteq SUBSET S
    OBVIOUS
  <2> HIDE DEF Bad
  <2> QED
    BY <2>1, SmallestSet
<1>2. IsFiniteSet(T) /\ T \subseteq S /\ ~(Sum(f, T) <= Sum(g, T))
  BY <1>1, FS_Subset
<1>3. T # {}
  BY <1>2, SumEmpty
<1> DEFINE x == First(T)
           R == T \ {x}
<1>4. x \in T
  BY <1>3, FirstIn
<1>5. Sum(f, T) = f[x] + Sum(f, R) /\ Sum(g, T) = g[x] + Sum(g, R)
  BY <1>2, <1>3, SumFirst
<1>6. IsFiniteSet(R) /\ Numbers(f, R) /\ Numbers(g, R) /\ R \subseteq T /\ R # T
  BY <1>2, <1>4, FS_Subset DEF Numbers
<1>7. Sum(f, R) \in Int /\ Sum(g, R) \in Int
  BY <1>6, SumInt
<1>8. Sum(f, R) <= Sum(g, R)
  BY <1>1, <1>2, <1>6
<1>9. f[x] \in Int /\ g[x] \in Int /\ f[x] <= g[x]
  BY <1>2, <1>4 DEF Numbers
<1>10. Sum(f, T) <= Sum(g, T)
  <2> HIDE DEF x, R, Bad
  <2> QED
    BY <1>5, <1>7, <1>8, <1>9
<1> QED
  BY <1>2, <1>10

\* Equal numbers have equal sums.
LEMMA SumSame ==
    ASSUME NEW f, NEW g, NEW S, IsFiniteSet(S), Numbers(f, S), \A x \in S : f[x] = g[x]
    PROVE  Sum(f, S) = Sum(g, S)
<1>1. Numbers(g, S)
  BY DEF Numbers
<1>2. \A x \in S : f[x] <= g[x] /\ g[x] <= f[x]
  BY DEF Numbers
<1>3. Sum(f, S) <= Sum(g, S) /\ Sum(g, S) <= Sum(f, S)
  BY <1>1, <1>2, SumMonotone
<1> QED
  BY <1>1, <1>3, SumInt

\* Where the numbers differ at one place, so do the sums.
LEMMA SumChange ==
    ASSUME NEW f, NEW g, NEW S, IsFiniteSet(S), Numbers(f, S), Numbers(g, S), NEW x \in S,
           \A y \in S \ {x} : f[y] = g[y]
    PROVE  Sum(g, S) = Sum(f, S) - f[x] + g[x]
<1>1. IsFiniteSet(S \ {x}) /\ Numbers(f, S \ {x})
  BY FS_RemoveElement DEF Numbers
<1>2. Sum(f, S \ {x}) = Sum(g, S \ {x}) /\ Sum(f, S \ {x}) \in Int
  BY <1>1, SumSame, SumInt
<1>3. Sum(f, S) = f[x] + Sum(f, S \ {x}) /\ Sum(g, S) = g[x] + Sum(g, S \ {x})
  BY SumRemove
<1>4. f[x] \in Int /\ g[x] \in Int
  BY DEF Numbers
<1> QED
  BY <1>2, <1>3, <1>4

\* Zeros add nothing.
LEMMA SumZeros ==
    ASSUME NEW f, NEW g, NEW S, NEW T, IsFiniteSet(T), S \subseteq T, Numbers(f, S),
           \A x \in S : f[x] = g[x], \A x \in T \ S : g[x] = 0
    PROVE  Sum(f, S) = Sum(g, T)
<1> DEFINE Bad == {U \in SUBSET T : S \subseteq U /\ Sum(f, S) # Sum(g, U)}
<1> SUFFICES ASSUME Bad # {} PROVE FALSE
  OBVIOUS
<1>1. PICK U \in Bad : \A y \in Bad : ~(y \subseteq U /\ y # U)
  <2>1. Bad \subseteq SUBSET T
    OBVIOUS
  <2> HIDE DEF Bad
  <2> QED
    BY <2>1, SmallestSet
<1>2. IsFiniteSet(U) /\ U \subseteq T /\ S \subseteq U /\ Sum(f, S) # Sum(g, U)
  BY <1>1, FS_Subset
<1>3. Numbers(g, U)
  BY <1>2 DEF Numbers
<1>4. CASE U = S
  BY <1>2, <1>4, SumSame
<1>5. CASE U # S
  <2>1. PICK x \in U : x \notin S
    BY <1>2, <1>5
  <2>2. Sum(g, U) = g[x] + Sum(g, U \ {x}) /\ g[x] = 0
    BY <1>2, <1>3, <2>1, SumRemove
  <2>3. Sum(f, S) = Sum(g, U \ {x})
    BY <1>1, <1>2, <2>1
  <2>4. IsFiniteSet(U \ {x}) /\ Numbers(g, U \ {x})
    BY <1>2, <1>3, FS_RemoveElement DEF Numbers
  <2>5. Sum(g, U \ {x}) \in Int
    BY <2>4, SumInt
  <2> QED
    BY <1>2, <2>2, <2>3, <2>5
<1> QED
  BY <1>4, <1>5

\* One number per key is no more than one per path, when each key's number is
\* that of a path of its own.
LEMMA SumByKey ==
    ASSUME NEW S, IsFiniteSet(S), NEW f, NEW m, NEW key, NEW T \in SUBSET S,
           \A x \in S : f[x] \in Nat, \A k \in S : m[k] \in Nat,
           \A k \in T : \E p \in S : key[p] = k /\ m[k] <= f[p]
    PROVE  Sum(m, T) <= Sum(f, S)
<1> DEFINE Holds(V, U) == \A k \in V : \E p \in U : key[p] = k /\ m[k] <= f[p]
           Bad == {V \in SUBSET S : \E U \in SUBSET S : Holds(V, U) /\ ~(Sum(m, V) <= Sum(f, U))}
<1> SUFFICES ASSUME Bad # {} PROVE FALSE
  OBVIOUS
<1>1. PICK V \in Bad : \A y \in Bad : ~(y \subseteq V /\ y # V)
  <2>1. Bad \subseteq SUBSET S
    OBVIOUS
  <2> HIDE DEF Bad
  <2> QED
    BY <2>1, SmallestSet
<1>2. PICK U \in SUBSET S : Holds(V, U) /\ ~(Sum(m, V) <= Sum(f, U))
  BY <1>1
<1>3. /\ IsFiniteSet(V) /\ IsFiniteSet(U)
      /\ Numbers(f, U) /\ Numbers(m, V) /\ V \subseteq S
  BY <1>1, FS_Subset DEF Numbers
<1>4. CASE V = {}
  <2> DEFINE zero == [x \in U |-> 0]
  <2>1. Numbers(zero, U) /\ \A x \in U : zero[x] <= f[x]
    BY <1>3 DEF Numbers
  <2>2. Sum(zero, U) <= Sum(f, U)
    BY <1>3, <2>1, SumMonotone
  <2>3. Sum(m, {}) = Sum(zero, U)
    BY <1>3, SumZeros, FS_EmptySet DEF Numbers
  <2> QED
    BY <1>2, <1>4, <2>2, <2>3
<1>5. CASE V # {}
  <2>1. PICK k \in V : TRUE
    BY <1>5
  <2>2. PICK p \in U : key[p] = k /\ m[k] <= f[p]
    BY <1>2
  <2>3. Holds(V \ {k}, U \ {p})
    BY <1>2, <2>2
  <2>4. Sum(m, V \ {k}) <= Sum(f, U \ {p})
    <3>1. V \ {k} \notin Bad
      BY <1>1
    <3> HIDE DEF Holds
    <3> QED
      BY <1>3, <2>3, <3>1
  <2>5. /\ Sum(m, V) = m[k] + Sum(m, V \ {k}) /\ Sum(f, U) = f[p] + Sum(f, U \ {p})
    BY <1>3, SumRemove
  <2>6. /\ Sum(m, V \ {k}) \in Int /\ Sum(f, U \ {p}) \in Int
        /\ m[k] \in Int /\ f[p] \in Int
    <3>1. IsFiniteSet(V \ {k}) /\ IsFiniteSet(U \ {p})
      BY <1>3, FS_RemoveElement
    <3>2. Numbers(m, V \ {k}) /\ Numbers(f, U \ {p})
      BY <1>3 DEF Numbers
    <3> QED
      BY <1>3, <3>1, <3>2, SumInt DEF Numbers
  <2> QED
    BY <1>2, <2>2, <2>4, <2>5, <2>6
<1> QED
  BY <1>4, <1>5

-----------------------------------------------------------------------------
(* The bytes of a set of rows: each key at its largest size                *)

\* The rows among some paths of an assets table R, and the size of each key among
\* them: the largest of the rows that name it, 0 when none does.
Assets == [Paths -> Row \cup {None}]
RowsIn(R, ps) == {p \in ps : R[p] # None}
Naming(R, ps, k) == {p \in RowsIn(R, ps) : R[p].key = k}
KeySize(R, ps) ==
    [k \in Paths |-> IF Naming(R, ps, k) = {} THEN 0
                     ELSE Max({R[p].size : p \in Naming(R, ps, k)})]
PathsOf(r) == {p \in Paths : RepoOf[p] = r}
Largest(R, rows) ==
    [k \in {R[p].key : p \in rows} |-> Max({R[p].size : p \in {q \in rows : R[q].key = k}})]

\* Max of a set of sizes is its greatest member.
LEMMA MaxSizes ==
    ASSUME NEW S, S \subseteq Sizes, S # {}
    PROVE  Max(S) \in S /\ \A y \in S : y <= Max(S)
<1> DEFINE Above(y) == {z \in Sizes : z > y}
           F == {Above(y) : y \in S}
<1>1. IsFiniteSet(Sizes) /\ Sizes \subseteq Int
  BY QuotaAssumption, FS_Interval DEF Sizes
<1>2. F \subseteq SUBSET Sizes /\ F # {}
  OBVIOUS
<1>3. PICK A \in F : \A B \in F : ~(B \subseteq A /\ B # A)
  <2>1. IsFiniteSet(Sizes)
    BY <1>1
  <2>2. \A G : G \subseteq SUBSET Sizes /\ G # {} =>
                  \E A \in G : \A B \in G : ~(B \subseteq A /\ B # A)
    BY <2>1, SmallestSet
  <2> HIDE DEF F
  <2> QED
    BY <1>2, <2>2
<1>4. PICK x \in S : A = Above(x)
  BY <1>3
<1>5. ASSUME NEW y \in S PROVE x >= y
  <2> SUFFICES ASSUME y > x PROVE FALSE
    BY <1>1
  <2>1. Above(y) \subseteq Above(x)
    <3>1. x \in Int /\ y \in Int /\ \A z \in Sizes : z \in Int
      BY <1>1
    <3>2. \A z \in Sizes : z > y => z > x
      BY <3>1
    <3> QED
      BY <3>2
  <2>2. y \in Above(x) /\ y \notin Above(y)
    BY <1>1
  <2>3. Above(y) \in F
    OBVIOUS
  <2> HIDE DEF Above, F
  <2> QED
    BY <1>3, <1>4, <2>1, <2>2, <2>3
<1>6. Max(S) \in S /\ \A y \in S : Max(S) >= y
  BY <1>5 DEF Max
<1> QED
  BY <1>1, <1>6

\* What the size of a key is.
LEMMA KeySizes ==
    ASSUME NEW R \in Assets, NEW ps \in SUBSET Paths, NEW k \in Paths
    PROVE  /\ KeySize(R, ps)[k] \in Nat
           /\ Naming(R, ps, k) = {} => KeySize(R, ps)[k] = 0
           /\ Naming(R, ps, k) # {} => \E p \in Naming(R, ps, k) : R[p].size = KeySize(R, ps)[k]
           /\ \A p \in Naming(R, ps, k) : R[p].size <= KeySize(R, ps)[k]
<1> DEFINE S == {R[p].size : p \in Naming(R, ps, k)}
<1>1. KeySize(R, ps)[k] = IF Naming(R, ps, k) = {} THEN 0 ELSE Max(S)
  BY DEF KeySize
<1>2. S \subseteq Sizes
  BY DEF Assets, Naming, RowsIn, Row
<1>3. Naming(R, ps, k) # {} => Max(S) \in S /\ \A y \in S : y <= Max(S)
  <2>1. Naming(R, ps, k) # {} => S # {}
    OBVIOUS
  <2> HIDE DEF S
  <2> QED
    BY <1>2, <2>1, MaxSizes
<1>4. Sizes \subseteq Nat
  BY QuotaAssumption DEF Sizes
<1>5. CASE Naming(R, ps, k) = {}
  BY <1>1, <1>5
<1>6. CASE Naming(R, ps, k) # {}
  <2>1. KeySize(R, ps)[k] = Max(S) /\ Max(S) \in Nat
    BY <1>1, <1>2, <1>3, <1>4, <1>6
  <2>2. \E p \in Naming(R, ps, k) : R[p].size = Max(S)
    BY <1>3, <1>6
  <2>3. \A p \in Naming(R, ps, k) : R[p].size <= Max(S)
    BY <1>3, <1>6
  <2> HIDE DEF S
  <2> QED
    BY <1>6, <2>1, <2>2, <2>3
<1> QED
  BY <1>5, <1>6

\* The sizes of the keys, and so their sum, are integers.
LEMMA KeySizeNumbers ==
    ASSUME NEW R \in Assets, NEW ps \in SUBSET Paths
    PROVE  Numbers(KeySize(R, ps), Paths) /\ Sum(KeySize(R, ps), Paths) \in Int
<1>1. Numbers(KeySize(R, ps), Paths)
  BY KeySizes DEF Numbers
<1> QED
  BY <1>1, SumInt, QuotaAssumption

\* The sum over the keys named is the sum over all keys.
LEMMA SumLargest ==
    ASSUME NEW R \in Assets, NEW ps \in SUBSET Paths
    PROVE  SumFunction(Largest(R, RowsIn(R, ps))) = Sum(KeySize(R, ps), Paths)
<1> DEFINE f == Largest(R, RowsIn(R, ps))
           g == KeySize(R, ps)
           D == {R[p].key : p \in RowsIn(R, ps)}
<1>1. DOMAIN f = D /\ D \subseteq Paths
  BY DEF Largest, Assets, RowsIn, Row
<1>2. ASSUME NEW k \in D PROVE f[k] = g[k]
  <2>1. k \in Paths /\ Naming(R, ps, k) # {}
    BY <1>1 DEF Naming
  <2>2. {q \in RowsIn(R, ps) : R[q].key = k} = Naming(R, ps, k)
    BY DEF Naming
  <2> QED
    BY <2>1, <2>2 DEF Largest, KeySize
<1>3. ASSUME NEW k \in Paths \ D PROVE g[k] = 0
  <2>1. Naming(R, ps, k) = {}
    BY DEF Naming
  <2> QED
    BY <2>1 DEF KeySize
<1>4. Numbers(g, Paths)
  BY KeySizeNumbers
<1>5. Numbers(f, D)
  BY <1>1, <1>2, <1>4 DEF Numbers
<1>6. SumFunction(f) = Sum(f, D)
  BY <1>1 DEF SumFunction, Sum
<1> HIDE DEF f, g, D
<1>7. Sum(f, D) = Sum(g, Paths)
  BY <1>1, <1>2, <1>3, <1>5, QuotaAssumption, SumZeros
<1> QED
  BY <1>6, <1>7 DEF f, g

\* The repository's sum and the store's recount, now and after a step.
LEMMA RepoSum ==
    ASSUME NEW r
    PROVE  /\ row \in Assets => SumSizeByRepo(r) = Sum(KeySize(row, PathsOf(r)), Paths)
           /\ row' \in Assets => SumSizeByRepo(r)' = Sum(KeySize(row', PathsOf(r)), Paths)
           /\ row \in Assets => RecomputeUsedBytes = Sum(KeySize(row, Paths), Paths)
<1>1. /\ {p \in Paths : RepoOf[p] = r /\ row[p] # None} = RowsIn(row, PathsOf(r))
      /\ {p \in Paths : RepoOf[p] = r /\ row'[p] # None} = RowsIn(row', PathsOf(r))
      /\ {p \in Paths : row[p] # None} = RowsIn(row, Paths)
  BY DEF RowsIn, PathsOf
<1>2. /\ SumSizeByRepo(r) = SumFunction(Largest(row, RowsIn(row, PathsOf(r))))
      /\ SumSizeByRepo(r)' = SumFunction(Largest(row', RowsIn(row', PathsOf(r))))
      /\ RecomputeUsedBytes = SumFunction(Largest(row, RowsIn(row, Paths)))
  BY <1>1 DEF SumSizeByRepo, RecomputeUsedBytes, LargestByKey, Largest
<1>3. PathsOf(r) \in SUBSET Paths /\ Paths \in SUBSET Paths
  BY DEF PathsOf
<1> QED
  BY <1>2, <1>3, SumLargest

\* A row that goes adds to no sum.
LEMMA SumDrop ==
    ASSUME NEW R \in Assets, NEW ps \in SUBSET Paths, NEW p \in Paths
    PROVE  Sum(KeySize([R EXCEPT ![p] = None], ps), Paths) <= Sum(KeySize(R, ps), Paths)
<1> DEFINE S == [R EXCEPT ![p] = None]
<1>1. S \in Assets
  BY DEF Assets
<1>2. ASSUME NEW k \in Paths PROVE KeySize(S, ps)[k] <= KeySize(R, ps)[k]
  <2>1. Naming(S, ps, k) \subseteq Naming(R, ps, k)
    BY DEF Naming, RowsIn, Assets
  <2>2. \A q \in Naming(S, ps, k) : S[q].size = R[q].size
    BY DEF Naming, RowsIn, Assets
  <2> HIDE DEF S
  <2> QED
    BY <1>1, <2>1, <2>2, KeySizes
<1> HIDE DEF S
<1>3. Sum(KeySize(S, ps), Paths) <= Sum(KeySize(R, ps), Paths)
  BY <1>1, <1>2, KeySizeNumbers, SumMonotone, QuotaAssumption
<1> QED
  BY <1>3 DEF S

\* A row of another repository changes no sum.
LEMMA SumElsewhere ==
    ASSUME NEW R \in Assets, NEW ps \in SUBSET Paths, NEW p \in Paths \ ps, NEW x \in Row
    PROVE  Sum(KeySize([R EXCEPT ![p] = x], ps), Paths) = Sum(KeySize(R, ps), Paths)
<1> DEFINE S == [R EXCEPT ![p] = x]
<1>1. ASSUME NEW k \in Paths PROVE KeySize(S, ps)[k] = KeySize(R, ps)[k]
  <2>1. Naming(S, ps, k) = Naming(R, ps, k)
    BY DEF Naming, RowsIn, Assets
  <2>2. \A q \in Naming(R, ps, k) : S[q].size = R[q].size
    BY DEF Naming, RowsIn, Assets
  <2>3. {S[q].size : q \in Naming(S, ps, k)} = {R[q].size : q \in Naming(R, ps, k)}
    <3> HIDE DEF S
    <3> QED
      BY <2>1, <2>2
  <2> HIDE DEF S
  <2> QED
    BY <2>1, <2>3 DEF KeySize
<1> HIDE DEF S
<1>2. Sum(KeySize(S, ps), Paths) = Sum(KeySize(R, ps), Paths)
  BY <1>1, KeySizeNumbers, SumSame, QuotaAssumption
<1> QED
  BY <1>2 DEF S

\* A row written adds at most what its size has over the key's.
LEMMA SumPut ==
    ASSUME NEW R \in Assets, NEW ps \in SUBSET Paths, NEW p \in Paths, NEW x \in Row,
           NEW e \in Nat, x.size <= KeySize(R, ps)[x.key] + e
    PROVE  Sum(KeySize([R EXCEPT ![p] = x], ps), Paths) <= Sum(KeySize(R, ps), Paths) + e
<1> DEFINE S == [R EXCEPT ![p] = x]
           f == KeySize(R, ps)
           g == [f EXCEPT ![x.key] = @ + e]
<1>1. S \in Assets /\ x.key \in Paths
  BY DEF Assets, Row
<1>2. ASSUME NEW k \in Paths PROVE KeySize(S, ps)[k] <= g[k]
  <2>1. \A q \in Naming(S, ps, k) : q # p => q \in Naming(R, ps, k) /\ S[q].size = R[q].size
    BY DEF Naming, RowsIn, Assets
  <2>2. p \in Naming(S, ps, k) => k = x.key /\ S[p].size = x.size
    BY DEF Naming, RowsIn, Assets
  <2>3. f[k] \in Nat /\ \A q \in Naming(R, ps, k) : R[q].size <= f[k]
    BY KeySizes
  <2>4. g[k] = IF k = x.key THEN f[k] + e ELSE f[k]
    BY DEF KeySize
  <2>5. \A q \in Naming(S, ps, k) : S[q].size \in Int
    BY QuotaAssumption DEF Naming, RowsIn, Assets, Row, Sizes
  <2>6. \A q \in Naming(S, ps, k) : q # p => R[q].size \in Int
    BY <2>1, <2>5
  <2> HIDE DEF S, f, g
  <2>7. \A q \in Naming(S, ps, k) : S[q].size <= g[k]
    BY <2>1, <2>2, <2>3, <2>4, <2>5, <2>6 DEF f
  <2>8. g[k] \in Nat
    BY <2>3, <2>4
  <2> QED
    BY <1>1, <2>7, <2>8, KeySizes
<1>3. Numbers(f, Paths) /\ Numbers(g, Paths) /\ Sum(f, Paths) \in Int
  <2>1. Numbers(f, Paths) /\ Sum(f, Paths) \in Int
    BY KeySizeNumbers
  <2>2. DOMAIN f = Paths
    BY DEF KeySize
  <2> HIDE DEF f
  <2> QED
    BY <1>1, <2>1, <2>2 DEF Numbers
<1>4. \A y \in Paths \ {x.key} : f[y] = g[y]
  BY DEF KeySize
<1>5. g[x.key] = f[x.key] + e /\ f[x.key] \in Int
  BY <1>1, <1>3 DEF KeySize, Numbers
<1> HIDE DEF S, f, g
<1>6. Sum(KeySize(S, ps), Paths) <= Sum(g, Paths)
  BY <1>1, <1>2, <1>3, KeySizeNumbers, SumMonotone, QuotaAssumption
<1>7. Sum(g, Paths) = Sum(f, Paths) - f[x.key] + g[x.key]
  BY <1>1, <1>3, <1>4, SumChange, QuotaAssumption
<1>8. Sum(g, Paths) = Sum(f, Paths) + e
  BY <1>3, <1>5, <1>7
<1> QED
  BY <1>6, <1>8 DEF S, f

-----------------------------------------------------------------------------
(* The quota of a repository: the invariant                                *)

Registering == {"readPrev", "lockStore", "lockRepo", "delta", "checkStore", "checkRepo", "upsert"}
InRepo == {"delta", "checkStore", "checkRepo", "upsert", "count"}
Checked == {"checkStore", "checkRepo", "upsert"}

\* Bytes of a repository in an assets table, and those no racing path belongs to.
Bytes(R, r) == Sum(KeySize(R, PathsOf(r)), Paths)
Clean(r) == \A p \in raced : RepoOf[p] # r
Limited(w) == RepoQuota[RepoOf[job[w].path]] # None

\* What a path, the key and the size of its bytes have to do with one another.
Fits(p, k, n) ==
    /\ p \in Paths /\ k \in Paths /\ n \in Sizes
    /\ RepoOf[k] = RepoOf[p]
    /\ DigestSize[p] \in {None, n} /\ DigestSize[k] \in {None, n}
    /\ DigestSize[p] = None => k = p
    /\ p \in Layers => k \in Layers

RowsFit == \A p \in Paths : row[p] # None => Fits(p, row[p].key, row[p].size)

\* Two requests share a path or a key only if it is recorded as raced.
Works(w) == {job[w].path, job[w].key}
Apart ==
    \A v, w \in Writers :
        v # w /\ job[v].pc # "idle" /\ job[w].pc # "idle" => Works(v) \cap Works(w) \subseteq raced

JobFits(w) ==
    job[w].pc \in Registering \cup {"count"} => Fits(job[w].path, job[w].key, job[w].size)

RepoLockHeld(w) ==
    job[w].pc \in InRepo /\ Limited(w) => lock[RepoOf[job[w].path]] = w

\* The row read ahead of the locks is still there.
PrevCurrent(w) ==
    job[w].pc \in Registering \ {"readPrev"} /\ job[w].path \notin raced =>
        job[w].prev = row[job[w].path]

\* The row just written is still there.
Written(w) ==
    job[w].pc = "count" /\ job[w].path \notin raced =>
        LET a == row[job[w].path] IN a # None /\ a.key = job[w].key /\ a.size = job[w].size

\* The tag that an alias was taken of still names those bytes.
SourceKept(w) ==
    /\ job[w].pc \in Registering /\ job[w].key # job[w].path
    /\ DigestSize[job[w].key] = None /\ job[w].key \notin raced
    => row[job[w].key] # None /\ row[job[w].key].size = job[w].size

DeltaComputed(w) ==
    job[w].pc \in Checked =>
        LET j == job[w] IN
        \/ j.prev = None /\ j.delta = j.size
        \/ j.prev # None /\ j.prev.key = j.key /\ j.delta = j.size - j.prev.size
        \/ j.prev # None /\ j.prev.key # j.key /\ j.delta \in {0, j.size}

\* Bytes that are charged nothing are still carried by another row.
Carried(w) ==
    /\ job[w].pc \in Checked /\ Limited(w) /\ Clean(RepoOf[job[w].path])
    /\ job[w].prev # None /\ job[w].prev.key # job[w].key /\ job[w].delta = 0
    => \E p \in Paths \ {job[w].path} :
          row[p] # None /\ row[p].key = job[w].key /\ row[p].size = job[w].size

\* What the headroom check allowed still fits when the row is written.
RepoReserved(w) ==
    /\ job[w].pc = "upsert" /\ Limited(w) /\ Clean(RepoOf[job[w].path])
    => \/ job[w].delta <= 0
       \/ Bytes(row, RepoOf[job[w].path]) + job[w].delta <= RepoQuota[RepoOf[job[w].path]]

JobInv(w) ==
    /\ JobFits(w) /\ RepoLockHeld(w) /\ PrevCurrent(w) /\ Written(w) /\ SourceKept(w)
    /\ DeltaComputed(w) /\ Carried(w) /\ RepoReserved(w)

WithinQuota ==
    \A r \in Repos : RepoQuota[r] # None /\ Clean(r) => Bytes(row, r) <= RepoQuota[r]

RepoInv == RowsFit /\ Apart /\ (\A w \in Writers : JobInv(w)) /\ WithinQuota
QInv == IInv /\ HistoryOK /\ RepoInv

-----------------------------------------------------------------------------

\* The rows are an assets table.
LEMMA DataAssets == DataOK => row \in Assets
BY DEF DataOK, Assets

\* The bytes of a repository are an integer.
LEMMA BytesInt == ASSUME NEW R \in Assets, NEW r PROVE Bytes(R, r) \in Int
BY KeySizeNumbers DEF Bytes, PathsOf

\* While no row changes, a writer that does not move and keeps its locks is as before.
LEMMA OthersKept ==
    ASSUME NEW v \in Writers, JobInv(v), UNCHANGED row, raced \subseteq raced', job'[v] = job[v],
           \A l \in Locks : lock[l] = v => lock'[l] = v
    PROVE  JobInv(v)'
<1>1. \A r : Clean(r)' => Clean(r)
  BY DEF Clean
<1>2. JobFits(v)' /\ PrevCurrent(v)' /\ Written(v)' /\ SourceKept(v)'
  BY DEF JobInv, JobFits, PrevCurrent, Written, SourceKept
<1>3. RepoLockHeld(v)'
  <2>1. job[v].pc \in InRepo => RepoOf[job[v].path] \in Locks
    BY QuotaAssumption DEF JobInv, JobFits, InRepo, Registering, Fits, Locks
  <2> QED
    BY <2>1 DEF JobInv, RepoLockHeld, Limited
<1>4. DeltaComputed(v)' /\ Carried(v)' /\ RepoReserved(v)'
  BY <1>1 DEF JobInv, DeltaComputed, Carried, RepoReserved, Limited
<1> QED
  BY <1>2, <1>3, <1>4 DEF JobInv

\* The rows, and what is said of them, stay.
LEMMA RowsKept ==
    ASSUME RowsFit, WithinQuota, UNCHANGED row, raced \subseteq raced'
    PROVE  RowsFit' /\ WithinQuota'
<1>1. \A r : Clean(r)' => Clean(r)
  BY DEF Clean
<1> QED
  BY <1>1 DEF RowsFit, WithinQuota

\* A writer that moves within its request, or ends it, meets nobody new.
LEMMA ApartMove ==
    ASSUME Apart, NEW w \in Writers, raced \subseteq raced',
           \A v \in Writers \ {w} : job'[v] = job[v],
           \/ job'[w].pc = "idle"
           \/ job[w].pc # "idle" /\ job'[w].path = job[w].path /\ job'[w].key = job[w].key
    PROVE  Apart'
BY DEF Apart, Works

\* An idle writer is bound to nothing.
LEMMA IdleJob == ASSUME NEW w \in Writers, job'[w].pc = "idle" PROVE JobInv(w)'
BY DEF JobInv, JobFits, RepoLockHeld, PrevCurrent, Written, SourceKept, DeltaComputed, Carried,
       RepoReserved, Registering, InRepo, Checked

\* A request that ends without touching a row.
LEMMA EndKeeps ==
    ASSUME QInv, NEW w \in Writers, job'[w].pc = "idle", UNCHANGED <<row, raced>>,
           \A v \in Writers \ {w} : job'[v] = job[v],
           \A v \in Writers \ {w}, l \in Locks : lock[l] = v => lock'[l] = v
    PROVE  RepoInv'
<1>1. RowsFit' /\ WithinQuota'
  BY RowsKept DEF QInv, RepoInv
<1>2. Apart'
  BY ApartMove DEF QInv, RepoInv
<1>3. ASSUME NEW v \in Writers PROVE JobInv(v)'
  BY OthersKept, IdleJob DEF QInv, RepoInv
<1> QED
  BY <1>1, <1>2, <1>3 DEF RepoInv

\* A request begins.
LEMMA BeginKeeps ==
    ASSUME QInv, NEW w \in Writers, NEW p, NEW k, NEW n, Fits(p, k, n),
           job'[w] = Registration(p, k, n), UNCHANGED row, raced \subseteq raced',
           \A v \in Writers \ {w} : job'[v] = job[v],
           \A v \in Writers \ {w}, l \in Locks : lock[l] = v => lock'[l] = v,
           \A v \in Writers \ {w} : job[v].pc # "idle" => Works(v) \cap {p, k} \subseteq raced',
           k # p /\ DigestSize[k] = None /\ k \notin raced' => row[k] # None /\ row[k].size = n
    PROVE  RepoInv'
<1>1. RowsFit' /\ WithinQuota'
  BY RowsKept DEF QInv, RepoInv
<1>2. /\ job'[w].pc = "readPrev" /\ job'[w].path = p /\ job'[w].key = k /\ job'[w].size = n
  BY DEF Registration
<1>3. Apart'
  <2>1. ASSUME NEW u \in Writers, NEW v \in Writers, u # v, job'[u].pc # "idle", job'[v].pc # "idle"
        PROVE  Works(u)' \cap Works(v)' \subseteq raced'
    <3>1. CASE u = w
      BY <1>2, <2>1, <3>1 DEF Works
    <3>2. CASE v = w
      BY <1>2, <2>1, <3>2 DEF Works
    <3>3. CASE u # w /\ v # w
      BY <2>1, <3>3 DEF Works, Apart, QInv, RepoInv
    <3> QED
      BY <3>1, <3>2, <3>3
  <2> QED
    BY <2>1 DEF Apart
<1>4. JobInv(w)'
  BY <1>2 DEF JobInv, JobFits, RepoLockHeld, PrevCurrent, Written, SourceKept, DeltaComputed,
              Carried, RepoReserved, Registering, InRepo, Checked
<1>5. ASSUME NEW v \in Writers PROVE JobInv(v)'
  BY <1>4, OthersKept DEF QInv, RepoInv
<1> QED
  BY <1>1, <1>3, <1>5 DEF RepoInv

\* A writer moves on within its registration; what it needs at the new step is assumed.
LEMMA MoveKeeps ==
    ASSUME QInv, NEW w \in Writers, UNCHANGED <<row, raced>>,
           job[w].pc \in Registering, job'[w].pc \in Registering \ {"readPrev"},
           job'[w].path = job[w].path, job'[w].key = job[w].key, job'[w].size = job[w].size,
           \A v \in Writers \ {w} : job'[v] = job[v],
           \A v \in Writers \ {w}, l \in Locks : lock[l] = v => lock'[l] = v,
           RepoLockHeld(w)', PrevCurrent(w)', DeltaComputed(w)', Carried(w)', RepoReserved(w)'
    PROVE  RepoInv'
<1>1. RowsFit' /\ WithinQuota'
  BY RowsKept DEF QInv, RepoInv
<1>2. Apart'
  BY ApartMove DEF QInv, RepoInv, Registering
<1>3. JobInv(w)'
  <2>1. JobFits(w) /\ SourceKept(w)
    BY DEF QInv, RepoInv, JobInv
  <2> QED
    BY <2>1 DEF JobInv, JobFits, SourceKept, Written, Registering
<1>4. ASSUME NEW v \in Writers PROVE JobInv(v)'
  BY <1>3, OthersKept DEF QInv, RepoInv
<1> QED
  BY <1>1, <1>2, <1>4 DEF RepoInv

-----------------------------------------------------------------------------
(* The quota of a repository: the steps that change no row                 *)

\* A request that begins on a path somebody works on records the race.
LEMMA TouchRaces ==
    ASSUME NEW P, Touch(P)
    PROVE  raced \subseteq raced' /\ \A v \in Writers, x \in P : x \in Works(v) => x \in raced'
BY DEF Touch, Works

\* A writer that releases its locks releases nobody else's.
LEMMA ReleaseKeeps ==
    ASSUME DataOK, NEW w \in Writers, ReleaseAll(w)
    PROVE  \A v \in Writers \ {w}, l \in Locks : lock[l] = v => lock'[l] = v
<1>1. DOMAIN lock = Locks /\ lock' = [l \in Locks |-> IF lock[l] = w THEN None ELSE lock[l]]
  BY DEF DataOK, ReleaseAll
<1>2. ASSUME NEW v \in Writers \ {w}, NEW l \in Locks, lock[l] = v PROVE lock'[l] = v
  BY <1>1, <1>2
<1> QED
  BY <1>2

\* What the invariant says, in the form the steps below use.
LEMMA QFacts ==
    ASSUME QInv
    PROVE  /\ DataOK /\ JobShape /\ RowsFit /\ Apart /\ WithinQuota /\ raced \subseteq Paths
           /\ \A w \in Writers : JobInv(w)
           /\ row \in Assets /\ job \in [Writers -> Job] /\ lock \in [Locks -> Writers \cup {None}]
           /\ \A r \in Repos : r \in Locks
           /\ \A p \in Paths : RepoOf[p] \in Repos
BY DataAssets, QuotaAssumption DEF QInv, IInv, RepoInv, HistoryOK, DataOK, Locks

\* StoreArtifact.
LEMMA StoreKeeps ==
    ASSUME QInv, NEW w \in Writers, NEW p \in Paths, NEW n \in Sizes, Store(w, p, n)
    PROVE  RepoInv'
<1>1. Fits(p, p, n)
  BY DEF Store, Fits
<1>2. /\ job'[w] = Registration(p, p, n)
      /\ \A v \in Writers \ {w} : job'[v] = job[v]
      /\ UNCHANGED row /\ UNCHANGED lock
  BY QFacts DEF Store
<1>3. raced \subseteq raced' /\ \A v \in Writers : p \in Works(v) => p \in raced'
  BY TouchRaces DEF Store
<1> QED
  BY <1>1, <1>2, <1>3, BeginKeeps

\* mountBlob.
LEMMA MountKeeps ==
    ASSUME QInv, NEW w \in Writers, NEW p \in Paths, NEW q \in Paths, Mount(w, p, q)
    PROVE  RepoInv'
<1> DEFINE k == row[q].key
           n == row[q].size
<1>1. /\ row[q] # None /\ p \in Layers /\ q \in Layers /\ RepoOf[p] = RepoOf[q]
      /\ DigestSize[p] = DigestSize[q]
      /\ job' = [job EXCEPT ![w] = Registration(p, k, n)]
      /\ UNCHANGED <<row, lock>> /\ Touch({p, q, k})
  BY DEF Mount
<1>2. Fits(q, k, n)
  BY <1>1, QFacts DEF RowsFit
<1>3. k \in Layers /\ \A x \in Layers : DigestSize[x] # None
  BY <1>1, <1>2, QuotaAssumption DEF Fits
<1>4. Fits(p, k, n)
  BY <1>1, <1>2, <1>3 DEF Fits
<1>5. /\ job'[w] = Registration(p, k, n)
      /\ \A v \in Writers \ {w} : job'[v] = job[v]
  BY <1>1, QFacts
<1>6. /\ raced \subseteq raced'
      /\ \A v \in Writers : (p \in Works(v) => p \in raced') /\ (k \in Works(v) => k \in raced')
  BY <1>1, TouchRaces
<1> HIDE DEF k, n
<1> QED
  BY <1>1, <1>3, <1>4, <1>5, <1>6, BeginKeeps

\* The counter moves; a manifest's digest path may be next.
LEMMA CountKeeps ==
    ASSUME QInv, NEW w \in Writers, Count(w)
    PROVE  RepoInv'
<1>1. /\ job[w].pc = "count" /\ ReleaseAll(w) /\ UNCHANGED row
      /\ \A v \in Writers \ {w}, l \in Locks : lock[l] = v => lock'[l] = v
  BY QFacts, ReleaseKeeps DEF Count
<1>2. CASE job' = [job EXCEPT ![w] = Idle] /\ UNCHANGED <<raced, aliased>>
  <2>1. job'[w].pc = "idle" /\ \A v \in Writers \ {w} : job'[v] = job[v]
    BY <1>2, QFacts, EndJob
  <2> QED
    BY <1>1, <1>2, <2>1, EndKeeps
<1>3. ASSUME NEW d \in Manifests(job[w].path, job[w].size), job[w].key = job[w].path,
             job' = [job EXCEPT ![w] = Registration(d, job[w].key, job[w].size)], Touch({d})
      PROVE  RepoInv'
  <2> DEFINE k == job[w].key
             n == job[w].size
  <2>1. /\ Fits(k, k, n) /\ Written(w)
    BY <1>1, <1>3, QFacts DEF JobInv, JobFits
  <2>2. d \in Paths \ Layers /\ d # k /\ RepoOf[d] = RepoOf[k] /\ DigestSize[d] = n
    BY <1>3 DEF Manifests
  <2>3. DigestSize[d] # None
    BY <2>1, <2>2, NoneAssumption, QuotaAssumption DEF Fits, Sizes
  <2>4. Fits(d, k, n)
    BY <2>1, <2>2, <2>3 DEF Fits
  <2>5. /\ job'[w] = Registration(d, k, n)
        /\ \A v \in Writers \ {w} : job'[v] = job[v]
    BY <1>3, QFacts
  <2>6. raced \subseteq raced' /\ \A v \in Writers : d \in Works(v) => d \in raced'
    BY <1>3, TouchRaces
  <2>7. \A v \in Writers \ {w} : job[v].pc # "idle" => Works(v) \cap {d, k} \subseteq raced'
    <3>1. \A v \in Writers \ {w} : job[v].pc # "idle" => Works(v) \cap {k} \subseteq raced
      BY <1>1, QFacts DEF Apart, Works
    <3> QED
      BY <2>6, <3>1
  <2>8. k \notin raced' => row[k] # None /\ row[k].size = n
    BY <1>1, <1>3, <2>1, <2>6 DEF Written
  <2> HIDE DEF k, n
  <2> QED
    BY <1>1, <2>4, <2>5, <2>6, <2>7, <2>8, BeginKeeps
<1> QED
  BY <1>2, <1>3 DEF Count

\* A delete moves the counter: no row changes.
LEMMA FreedKeeps ==
    ASSUME QInv, NEW w \in Writers, Freed(w)
    PROVE  RepoInv'
<1>1. job'[w].pc = "idle" /\ \A v \in Writers \ {w} : job'[v] = job[v]
  BY QFacts, EndJob DEF Freed
<1> QED
  BY <1>1, EndKeeps DEF Freed, history

\* A refused registration leaves the rows as they are.
LEMMA RefuseKeeps ==
    ASSUME QInv, NEW w \in Writers, Refuse(w), UNCHANGED <<row, raced>>
    PROVE  RepoInv'
<1>1. job'[w].pc = "idle" /\ \A v \in Writers \ {w} : job'[v] = job[v]
  BY QFacts, EndJob DEF Refuse
<1> QED
  BY <1>1, QFacts, ReleaseKeeps, EndKeeps DEF Refuse

\* What the step ReadPrev and the two locks leave to be shown.
LEMMA BeforeDelta ==
    ASSUME NEW w \in Writers, job'[w].pc \in {"lockStore", "lockRepo", "delta"}
    PROVE  DeltaComputed(w)' /\ Carried(w)' /\ RepoReserved(w)'
BY DEF DeltaComputed, Carried, RepoReserved, Checked

\* What the path holds is read, ahead of the locks.
LEMMA ReadPrevKeeps ==
    ASSUME QInv, NEW w \in Writers, ReadPrev(w)
    PROVE  RepoInv'
<1> DEFINE l == IF StoreQuota # None THEN "lockStore" ELSE AfterStore(job[w].path)
<1>1. /\ job[w].pc = "readPrev" /\ job[w].path \in Paths
      /\ job' = [job EXCEPT ![w].prev = row[job[w].path], ![w].pc = l]
      /\ UNCHANGED <<row, lock, raced>>
  BY QFacts DEF ReadPrev, history, JobShape
<1>2. l \in {"lockStore", "lockRepo", "delta"} /\ (l = "delta" => ~Limited(w))
  BY DEF AfterStore, Limited
<1> HIDE DEF l
<1>3. /\ job'[w].pc = l /\ job'[w].prev = row[job[w].path]
      /\ job'[w].path = job[w].path /\ job'[w].key = job[w].key /\ job'[w].size = job[w].size
      /\ \A v \in Writers \ {w} : job'[v] = job[v]
  BY <1>1, QFacts DEF Job
<1>4. RepoLockHeld(w)' /\ PrevCurrent(w)'
  BY <1>1, <1>2, <1>3 DEF RepoLockHeld, PrevCurrent, InRepo, Limited
<1>5. DeltaComputed(w)' /\ Carried(w)' /\ RepoReserved(w)'
  BY <1>2, <1>3, BeforeDelta
<1> QED
  BY <1>1, <1>2, <1>3, <1>4, <1>5, MoveKeeps DEF Registering

\* A registration takes a quota lock.
LEMMA LocksKeep ==
    ASSUME QInv, NEW w \in Writers, LockStore(w) \/ LockRepo(w)
    PROVE  RepoInv'
<1> DEFINE l == job'[w].pc
<1>1. /\ job[w].pc \in {"lockStore", "lockRepo"} /\ job[w].path \in Paths
      /\ RepoOf[job[w].path] \in Repos
      /\ UNCHANGED <<row, raced>>
  BY QFacts DEF LockStore, LockRepo, history, JobShape
<1>2. /\ l \in {"lockRepo", "delta"}
      /\ job'[w].path = job[w].path /\ job'[w].key = job[w].key /\ job'[w].size = job[w].size
      /\ job'[w].prev = job[w].prev
      /\ \A v \in Writers \ {w} : job'[v] = job[v]
  BY QFacts DEF LockStore, LockRepo, Goto, Job, AfterStore
<1>3. /\ RepoLockHeld(w)'
      /\ \A v \in Writers \ {w}, x \in Locks : lock[x] = v => lock'[x] = v
  <2>1. CASE LockStore(w)
    <3>1. lock' = [lock EXCEPT !["store"] = w] /\ lock["store"] = None
      BY <2>1 DEF LockStore
    <3>2. l = AfterStore(job[w].path)
      BY <2>1, QFacts DEF LockStore, Goto, Job, AfterStore
    <3>3. RepoLockHeld(w)'
      BY <1>2, <3>2 DEF RepoLockHeld, InRepo, Limited, AfterStore
    <3> QED
      BY <3>1, <3>3, QFacts, NoneAssumption
  <2>2. CASE LockRepo(w)
    <3>1. /\ lock' = [lock EXCEPT ![RepoOf[job[w].path]] = w] /\ lock[RepoOf[job[w].path]] = None
      BY <2>2 DEF LockRepo
    <3>2. lock'[RepoOf[job[w].path]] = w
      BY <1>1, <3>1, QFacts
    <3>3. RepoLockHeld(w)'
      BY <1>2, <3>2 DEF RepoLockHeld
    <3> QED
      BY <3>1, <3>3, QFacts, NoneAssumption
  <2> QED
    BY <2>1, <2>2
<1>4. PrevCurrent(w)'
  <2>1. PrevCurrent(w)
    BY QFacts DEF JobInv
  <2> QED
    BY <1>1, <1>2, <2>1 DEF PrevCurrent, Registering
<1>5. DeltaComputed(w)' /\ Carried(w)' /\ RepoReserved(w)'
  BY <1>2, BeforeDelta
<1> QED
  BY <1>1, <1>2, <1>3, <1>4, <1>5, MoveKeeps DEF Registering

-----------------------------------------------------------------------------
(* The quota of a repository: deltas, checks and rows                      *)

\* What ComputeDelta finds when it counts other rows of the key.
LEMMA CountedRows ==
    ASSUME NEW k, NEW prev, prev # None, CountByBlobKey(k, prev) > 0
    PROVE  \E p \in Paths : row[p] # None /\ row[p].key = k /\ row[p].id # prev.id
<1> DEFINE S == {p \in Referenced(k) : row[p].id # prev.id}
<1>1. CountByBlobKey(k, prev) = Cardinality(S)
  BY DEF CountByBlobKey
<1>2. S # {}
  <2> SUFFICES ASSUME S = {} PROVE FALSE
    OBVIOUS
  <2>1. Cardinality(S) = 0
    BY FS_EmptySet
  <2> QED
    BY <1>1, <2>1
<1> QED
  BY <1>2 DEF Referenced

\* What a registration adds: nothing only for bytes that another row carries.
LEMMA ComputeDeltaKeeps ==
    ASSUME QInv, NEW w \in Writers, ComputeDelta(w)
    PROVE  RepoInv'
<1> DEFINE j == job[w]
           d == UsageDelta(j.prev, j.key, j.size)
           l == IF d > 0 THEN "checkStore" ELSE "upsert"
           r == RepoOf[j.path]
<1>0. JobInv(w) /\ RowsFit
  BY QFacts
<1>1. /\ j.pc = "delta" /\ j.path \in Paths
      /\ job' = [job EXCEPT ![w].delta = d, ![w].pc = l]
      /\ UNCHANGED <<row, lock, raced>>
  BY QFacts DEF ComputeDelta, history, JobShape
<1>2. Fits(j.path, j.key, j.size) /\ j.prev \in Row \cup {None} /\ d \in Int
  <2>1. Fits(j.path, j.key, j.size) /\ j.prev \in Row \cup {None}
    BY <1>0, <1>1, QFacts DEF JobInv, JobFits, Job
  <2> QED
    BY <2>1, QFacts, DeltaType DEF Fits
<1>3. \/ j.prev = None /\ d = j.size
      \/ j.prev # None /\ j.prev.key = j.key /\ d = j.size - j.prev.size
      \/ j.prev # None /\ j.prev.key # j.key /\ d = j.size
      \/ j.prev # None /\ j.prev.key # j.key /\ d = 0 /\ CountByBlobKey(j.key, j.prev) > 0
  BY DEF UsageDelta, CountByBlobKey
<1>4. l \in {"checkStore", "upsert"} /\ (l = "upsert" => d <= 0)
  BY <1>2
<1>5. ASSUME Clean(r), j.prev # None, j.prev.key # j.key, d = 0
      PROVE  \E p \in Paths \ {j.path} : row[p] # None /\ row[p].key = j.key /\ row[p].size = j.size
  <2>1. j.path \notin raced /\ j.key \notin raced
    BY <1>2, <1>5 DEF Clean, Fits
  <2>2. row[j.path] = j.prev
    BY <1>0, <1>1, <2>1 DEF JobInv, PrevCurrent, Registering
  <2>3. j.size # 0
    BY <1>2, QuotaAssumption DEF Fits, Sizes
  <2>4. PICK p \in Paths : row[p] # None /\ row[p].key = j.key /\ row[p].id # j.prev.id
    BY <1>3, <1>5, <2>3, CountedRows
  <2>5. p # j.path /\ Fits(p, j.key, row[p].size)
    BY <1>0, <2>2, <2>4 DEF RowsFit
  <2>6. CASE DigestSize[j.key] # None
    BY <1>2, <2>4, <2>5, <2>6 DEF Fits
  <2>7. CASE DigestSize[j.key] = None
    <3>1. Fits(j.path, j.prev.key, j.prev.size)
      BY <1>0, <1>1, <1>5, <2>2 DEF RowsFit
    <3>2. j.key # j.path
      BY <1>5, <2>7, <3>1 DEF Fits
    <3>3. row[j.key] # None /\ row[j.key].size = j.size
      BY <1>0, <1>1, <2>1, <2>7, <3>2 DEF JobInv, SourceKept, Registering
    <3>4. j.key \in Paths /\ row[j.key].key = j.key
      BY <1>0, <1>2, <2>7, <3>3 DEF RowsFit, Fits
    <3> QED
      BY <3>2, <3>3, <3>4
  <2> QED
    BY <2>6, <2>7
<1> HIDE DEF d, l
<1>6. /\ job'[w].pc = l /\ job'[w].delta = d /\ job'[w].prev = j.prev
      /\ job'[w].path = j.path /\ job'[w].key = j.key /\ job'[w].size = j.size
      /\ \A v \in Writers \ {w} : job'[v] = job[v]
  BY <1>1, QFacts DEF Job
<1>7. RepoLockHeld(w)' /\ PrevCurrent(w)'
  BY <1>0, <1>1, <1>6 DEF JobInv, RepoLockHeld, PrevCurrent, InRepo, Registering, Limited
<1>8. DeltaComputed(w)'
  BY <1>3, <1>6 DEF DeltaComputed
<1>9. Carried(w)'
  <2>1. \A s : Clean(s)' => Clean(s)
    BY <1>1 DEF Clean
  <2> QED
    BY <1>1, <1>5, <1>6, <2>1 DEF Carried
<1>10. RepoReserved(w)'
  BY <1>4, <1>6 DEF RepoReserved
<1> QED
  BY <1>1, <1>4, <1>6, <1>7, <1>8, <1>9, <1>10, MoveKeeps DEF Registering

\* A writer passes a headroom check.
LEMMA PassKeeps ==
    ASSUME QInv, NEW w \in Writers, NEW l \in {"checkRepo", "upsert"}, Goto(w, l),
           job[w].pc \in {"checkStore", "checkRepo"}, UNCHANGED <<row, lock, raced>>,
           l = "upsert" /\ Limited(w) =>
               Bytes(row, RepoOf[job[w].path]) + job[w].delta <= RepoQuota[RepoOf[job[w].path]]
    PROVE  RepoInv'
<1>0. JobInv(w)
  BY QFacts
<1>1. /\ job'[w].pc = l /\ job'[w].delta = job[w].delta /\ job'[w].prev = job[w].prev
      /\ job'[w].path = job[w].path /\ job'[w].key = job[w].key /\ job'[w].size = job[w].size
      /\ \A v \in Writers \ {w} : job'[v] = job[v]
  BY QFacts DEF Goto, Job
<1>2. RepoLockHeld(w)' /\ PrevCurrent(w)' /\ DeltaComputed(w)'
  BY <1>0, <1>1
     DEF JobInv, RepoLockHeld, PrevCurrent, DeltaComputed, InRepo, Registering, Limited, Checked
<1>3. \A r : Clean(r)' => Clean(r)
  BY DEF Clean
<1>4. Carried(w)'
  BY <1>0, <1>1, <1>3 DEF JobInv, Carried, Checked, Limited
<1>5. RepoReserved(w)'
  BY <1>1 DEF RepoReserved, Limited
<1> QED
  BY <1>1, <1>2, <1>4, <1>5, MoveKeeps DEF Registering

\* The headroom of the store.
LEMMA CheckStoreKeeps ==
    ASSUME QInv, NEW w \in Writers, CheckStore(w)
    PROVE  RepoInv'
<1>1. UNCHANGED <<row, raced>> /\ job[w].pc = "checkStore"
  BY DEF CheckStore, history
<1>2. Refuse(w) \/ (Goto(w, "checkRepo") /\ UNCHANGED lock)
  BY DEF CheckStore
<1> QED
  BY <1>1, <1>2, RefuseKeeps, PassKeeps

\* The headroom of the repository: what passes is reserved under its lock.
LEMMA CheckRepoKeeps ==
    ASSUME QInv, NEW w \in Writers, CheckRepo(w)
    PROVE  RepoInv'
<1> DEFINE r == RepoOf[job[w].path]
<1>1. UNCHANGED <<row, raced>> /\ job[w].pc = "checkRepo"
  BY DEF CheckRepo, history
<1>2. SumSizeByRepo(r) = Bytes(row, r)
  BY QFacts, RepoSum DEF Bytes
<1>3. CASE Refuse(w)
  BY <1>1, <1>3, RefuseKeeps
<1>4. CASE Goto(w, "upsert") /\ UNCHANGED lock /\ ~Refuse(w)
  <2>1. ~(RepoQuota[r] # None /\ Bytes(row, r) + job[w].delta > RepoQuota[r])
    BY <1>2, <1>4 DEF CheckRepo
  <2>2. Limited(w) => Bytes(row, r) + job[w].delta <= RepoQuota[r]
    <3>1. Bytes(row, r) \in Int /\ job[w].delta \in Int
      BY QFacts, BytesInt DEF Job
    <3>2. job[w].path \in Paths
      BY <1>1, QFacts DEF JobShape
    <3>3. Limited(w) => RepoQuota[r] \in Nat
      BY <3>2, QuotaAssumption DEF Limited
    <3> QED
      BY <2>1, <3>1, <3>3 DEF Limited
  <2> QED
    BY <1>1, <1>4, <2>2, PassKeeps
<1> QED
  BY <1>3, <1>4 DEF CheckRepo

\* The row is written: the repository grows by no more than was reserved.
LEMMA UpsertKeeps ==
    ASSUME QInv, NEW w \in Writers, job[w].pc = "upsert", Goto(w, "count"),
           UNCHANGED <<lock, raced>>, NEW x \in Row, x.key = job[w].key, x.size = job[w].size,
           row' = [row EXCEPT ![job[w].path] = x]
    PROVE  RepoInv'
<1> DEFINE j == job[w]
           p == j.path
           r == RepoOf[p]
           e == IF j.delta <= 0 THEN 0 ELSE j.delta
<1>0. JobInv(w) /\ RowsFit /\ WithinQuota /\ row \in Assets
  BY QFacts
<1>1. /\ j.pc = "upsert" /\ row' = [row EXCEPT ![p] = x] /\ Goto(w, "count")
      /\ UNCHANGED <<lock, raced>>
  OBVIOUS
<1>2. Fits(p, j.key, j.size) /\ p \in Paths /\ r \in Repos /\ r \in Locks
  BY <1>0, <1>1, QFacts DEF JobInv, JobFits, Registering, Fits
<1>3. x \in Row
  OBVIOUS
<1>4. /\ job'[w].pc = "count" /\ job'[w].delta = j.delta
      /\ job'[w].path = p /\ job'[w].key = j.key /\ job'[w].size = j.size
      /\ \A v \in Writers \ {w} : job'[v] = job[v]
  BY <1>1, QFacts DEF Goto, Job
<1>5. \A s : Clean(s)' => Clean(s)
  BY <1>1 DEF Clean
<1>6. row'[p] = x /\ \A q \in Paths \ {p} : row'[q] = row[q]
  BY <1>0, <1>1, <1>2 DEF Assets
<1>a. x.key = j.key /\ x.size = j.size /\ x # None
  BY <1>3, NoneAssumption DEF Row, Sizes
<1>7. RowsFit'
  BY <1>0, <1>2, <1>6, <1>a DEF RowsFit
<1>8. Apart'
  BY <1>1, <1>4, QFacts, ApartMove
<1>9. \A s : s # r => Bytes(row', s) = Bytes(row, s)
  <2>1. ASSUME NEW s, s # r PROVE Bytes(row', s) = Bytes(row, s)
    <3>1. PathsOf(s) \in SUBSET Paths /\ p \in Paths \ PathsOf(s)
      BY <1>2, <2>1 DEF PathsOf
    <3> HIDE DEF p
    <3>2. Sum(KeySize([row EXCEPT ![p] = x], PathsOf(s)), Paths)
            = Sum(KeySize(row, PathsOf(s)), Paths)
      BY <1>0, <3>1, SumElsewhere
    <3> QED
      BY <1>1, <3>2 DEF Bytes
  <2> QED
    BY <2>1
<1>10. ASSUME Limited(w), Clean(r) PROVE Bytes(row', r) <= RepoQuota[r]
  <2> DEFINE big == KeySize(row, PathsOf(r))
  <2>1. p \notin raced /\ row[p] = j.prev
    BY <1>0, <1>1, <1>2, <1>10 DEF JobInv, PrevCurrent, Clean, Registering
  <2>2. /\ j.delta \in Int /\ j.size \in Nat /\ e \in Nat
        /\ j.prev # None => j.prev.size \in Nat
    BY <1>1, <1>2, QFacts, QuotaAssumption DEF Job, Row, Sizes, Fits
  <2>3. PathsOf(r) \in SUBSET Paths /\ j.key \in Paths /\ p \in PathsOf(r)
    BY <1>2 DEF PathsOf, Fits
  <2>4. /\ big[j.key] \in Nat
        /\ \A q \in Naming(row, PathsOf(r), j.key) : row[q].size <= big[j.key]
    BY <1>0, <2>3, KeySizes
  <2>5. \/ j.prev = None /\ j.delta = j.size
        \/ j.prev # None /\ j.prev.key = j.key /\ j.delta = j.size - j.prev.size
        \/ j.prev # None /\ j.prev.key # j.key /\ j.delta \in {0, j.size}
    BY <1>0, <1>1 DEF JobInv, DeltaComputed, Checked
  <2>6. j.size <= big[j.key] + e
    <3> HIDE DEF big
    <3>1. CASE j.delta = j.size
      BY <2>2, <2>4, <3>1
    <3>2. CASE j.prev # None /\ j.prev.key = j.key /\ j.delta = j.size - j.prev.size
      <4>1. p \in Naming(row, PathsOf(r), j.key)
        BY <2>1, <2>3, <3>2 DEF Naming, RowsIn
      <4>2. j.prev.size <= big[j.key]
        BY <2>1, <2>4, <4>1
      <4> QED
        BY <2>2, <2>4, <3>2, <4>2
    <3>3. CASE j.prev # None /\ j.prev.key # j.key /\ j.delta = 0
      <4>1. PICK q \in Paths \ {p} : row[q] # None /\ row[q].key = j.key /\ row[q].size = j.size
        BY <1>0, <1>1, <1>10, <3>3 DEF JobInv, Carried, Checked
      <4>2. RepoOf[q] = r
        BY <1>0, <1>2, <4>1 DEF RowsFit, Fits
      <4>3. q \in Naming(row, PathsOf(r), j.key)
        BY <4>1, <4>2 DEF Naming, RowsIn, PathsOf
      <4>4. j.size <= big[j.key]
        BY <2>4, <4>1, <4>3
      <4> QED
        BY <2>2, <2>4, <4>4
    <3> QED
      BY <2>5, <3>1, <3>2, <3>3
  <2>7. Bytes(row', r) <= Bytes(row, r) + e
    <3> HIDE DEF e
    <3> QED
      BY <1>0, <1>1, <1>2, <1>3, <1>a, <2>2, <2>3, <2>6, SumPut DEF Bytes
  <2>8. RepoQuota[r] \in Int /\ RepoQuota[r] # None /\ Bytes(row, r) <= RepoQuota[r]
    BY <1>0, <1>2, <1>10, QuotaAssumption DEF Limited, WithinQuota
  <2>9. j.delta <= 0 \/ Bytes(row, r) + j.delta <= RepoQuota[r]
    BY <1>0, <1>1, <1>10 DEF JobInv, RepoReserved
  <2>10. row' \in Assets /\ Bytes(row, r) \in Int /\ Bytes(row', r) \in Int
    <3>1. row' \in Assets
      BY <1>0, <1>1, <1>3 DEF Assets
    <3> QED
      BY <1>0, <3>1, BytesInt
  <2> QED
    BY <2>2, <2>7, <2>8, <2>9, <2>10
<1>11. WithinQuota'
  <2>1. ASSUME NEW s \in Repos, RepoQuota[s] # None, Clean(s)' PROVE Bytes(row', s) <= RepoQuota[s]
    <3>1. Clean(s)
      BY <1>5, <2>1
    <3>2. CASE s = r
      BY <1>10, <2>1, <3>1, <3>2 DEF Limited
    <3>3. CASE s # r
      BY <1>0, <1>9, <2>1, <3>1, <3>3 DEF WithinQuota
    <3> QED
      BY <3>2, <3>3
  <2> QED
    BY <2>1 DEF WithinQuota
<1>12. JobInv(w)'
  <2>1. JobFits(w)' /\ RepoLockHeld(w)' /\ Written(w)'
    BY <1>0, <1>1, <1>2, <1>4, <1>6, <1>a
       DEF JobInv, JobFits, RepoLockHeld, Written, InRepo, Limited
  <2>2. PrevCurrent(w)' /\ SourceKept(w)' /\ DeltaComputed(w)' /\ Carried(w)' /\ RepoReserved(w)'
    BY <1>4 DEF PrevCurrent, SourceKept, DeltaComputed, Carried, RepoReserved, Registering, Checked
  <2> QED
    BY <2>1, <2>2 DEF JobInv
<1>13. ASSUME NEW v \in Writers \ {w} PROVE JobInv(v)'
  <2>0. JobInv(v) /\ job'[v] = job[v]
    BY <1>4, QFacts
  <2>1. JobFits(v)' /\ RepoLockHeld(v)' /\ DeltaComputed(v)'
    BY <1>1, <2>0 DEF JobInv, JobFits, RepoLockHeld, DeltaComputed, Limited
  <2>2. job[v].pc # "idle" /\ p \in Works(v) => p \in raced
    BY <1>1, QFacts DEF Apart, Works
  <2>3. job[v].pc \in Registering \cup {"count"} => Fits(job[v].path, job[v].key, job[v].size)
    BY <2>0 DEF JobInv, JobFits
  <2>4. PrevCurrent(v)' /\ Written(v)' /\ SourceKept(v)'
    BY <1>1, <1>6, <2>0, <2>2, <2>3
       DEF JobInv, PrevCurrent, Written, SourceKept, Works, Fits, Registering
  <2>5. job[v].pc \in Checked /\ Limited(v) => RepoOf[job[v].path] # r
    BY <1>0, <1>1, <2>0 DEF JobInv, RepoLockHeld, InRepo, Checked, Limited
  <2>6. Carried(v)'
    <3> SUFFICES ASSUME job[v].pc \in Checked, Limited(v), Clean(RepoOf[job[v].path]),
                        job[v].prev # None, job[v].prev.key # job[v].key, job[v].delta = 0
                 PROVE  \E q \in Paths \ {job[v].path} :
                           row'[q] # None /\ row'[q].key = job[v].key /\ row'[q].size = job[v].size
      BY <1>5, <2>0 DEF Carried, Limited
    <3>1. PICK q \in Paths \ {job[v].path} :
             row[q] # None /\ row[q].key = job[v].key /\ row[q].size = job[v].size
      BY <2>0 DEF JobInv, Carried
    <3>2. RepoOf[q] = RepoOf[job[v].path]
      BY <1>0, <2>3, <3>1 DEF RowsFit, Fits, Checked, Registering
    <3> QED
      BY <1>6, <2>5, <3>1, <3>2
  <2>7. RepoReserved(v)'
    <3> SUFFICES ASSUME job[v].pc = "upsert", Limited(v), Clean(RepoOf[job[v].path])
                 PROVE  \/ job[v].delta <= 0
                        \/ Bytes(row', RepoOf[job[v].path]) + job[v].delta
                              <= RepoQuota[RepoOf[job[v].path]]
      BY <1>5, <2>0 DEF RepoReserved, Limited
    <3> QED
      BY <1>9, <2>0, <2>5 DEF JobInv, RepoReserved, Checked
  <2> QED
    BY <2>1, <2>4, <2>6, <2>7 DEF JobInv
<1> QED
  BY <1>7, <1>8, <1>11, <1>12, <1>13 DEF RepoInv

\* A delete takes bytes away and races whoever works on them.
LEMMA DeleteRowKeeps ==
    ASSUME QInv, NEW w \in Writers, NEW p \in Paths, DeleteRow(w, p)
    PROVE  RepoInv'
<1>0. RowsFit /\ WithinQuota /\ row \in Assets /\ Apart
  BY QFacts
<1>1. /\ job[w].pc = "idle" /\ row[p] # None /\ row' = [row EXCEPT ![p] = None]
      /\ Touch({p, row[p].key}) /\ UNCHANGED lock
  BY DEF DeleteRow
<1>2. /\ raced \subseteq raced'
      /\ \A v \in Writers : /\ p \in Works(v) => p \in raced'
                            /\ row[p].key \in Works(v) => row[p].key \in raced'
  BY <1>1, TouchRaces
<1>3. \A s : Clean(s)' => Clean(s)
  BY <1>2 DEF Clean
<1>4. row'[p] = None /\ \A q \in Paths \ {p} : row'[q] = row[q]
  BY <1>0, <1>1 DEF Assets
<1>5. \A v \in Writers \ {w} : job'[v] = job[v]
  BY QFacts DEF DeleteRow
<1>6. /\ job'[w].pc \in {"idle", "freed"}
      /\ job'[w].pc = "freed" => job'[w].path = p /\ job'[w].key = row[p].key
  BY <1>1, QFacts DEF DeleteRow
<1>7. RowsFit'
  BY <1>0, <1>4 DEF RowsFit
<1>8. Apart'
  <2>1. ASSUME NEW u \in Writers, NEW v \in Writers, u # v, job'[u].pc # "idle", job'[v].pc # "idle"
        PROVE  Works(u)' \cap Works(v)' \subseteq raced'
    <3>1. CASE u = w
      BY <1>2, <1>5, <1>6, <2>1, <3>1 DEF Works
    <3>2. CASE v = w
      BY <1>2, <1>5, <1>6, <2>1, <3>2 DEF Works
    <3>3. CASE u # w /\ v # w
      BY <1>0, <1>2, <1>5, <2>1, <3>3 DEF Works, Apart
    <3> QED
      BY <3>1, <3>2, <3>3
  <2> QED
    BY <2>1 DEF Apart
<1>9. /\ \A s : Bytes(row', s) <= Bytes(row, s) /\ Bytes(row', s) \in Int /\ Bytes(row, s) \in Int
  <2>1. \A s : PathsOf(s) \in SUBSET Paths
    BY DEF PathsOf
  <2>2. row' \in Assets
    BY <1>0, <1>1 DEF Assets
  <2> QED
    BY <1>0, <1>1, <2>1, <2>2, SumDrop, BytesInt DEF Bytes
<1>10. WithinQuota'
  <2>1. ASSUME NEW s \in Repos, RepoQuota[s] # None, Clean(s)' PROVE Bytes(row', s) <= RepoQuota[s]
    <3>1. Bytes(row, s) <= RepoQuota[s] /\ RepoQuota[s] \in Int
      BY <1>0, <1>3, <2>1, QuotaAssumption DEF WithinQuota
    <3> QED
      BY <1>9, <3>1
  <2> QED
    BY <2>1 DEF WithinQuota
<1>11. JobInv(w)'
  BY <1>6 DEF JobInv, JobFits, RepoLockHeld, PrevCurrent, Written, SourceKept, DeltaComputed,
              Carried, RepoReserved, Registering, InRepo, Checked
<1>12. ASSUME NEW v \in Writers \ {w} PROVE JobInv(v)'
  <2>0. JobInv(v) /\ job'[v] = job[v]
    BY <1>5, QFacts
  <2>1. JobFits(v)' /\ RepoLockHeld(v)' /\ DeltaComputed(v)'
    BY <1>1, <2>0 DEF JobInv, JobFits, RepoLockHeld, DeltaComputed, Limited
  <2>3. job[v].pc \in Registering \cup {"count"} => Fits(job[v].path, job[v].key, job[v].size)
    BY <2>0 DEF JobInv, JobFits
  <2>4. PrevCurrent(v)' /\ Written(v)' /\ SourceKept(v)'
    BY <1>2, <1>4, <2>0, <2>3
       DEF JobInv, PrevCurrent, Written, SourceKept, Works, Fits, Registering
  <2>6. Carried(v)'
    <3> SUFFICES ASSUME job[v].pc \in Checked, Limited(v), Clean(RepoOf[job[v].path])',
                        job[v].prev # None, job[v].prev.key # job[v].key, job[v].delta = 0
                 PROVE  \E q \in Paths \ {job[v].path} :
                           row'[q] # None /\ row'[q].key = job[v].key /\ row'[q].size = job[v].size
      BY <2>0 DEF Carried, Limited, Clean
    <3>1. PICK q \in Paths \ {job[v].path} :
             row[q] # None /\ row[q].key = job[v].key /\ row[q].size = job[v].size
      BY <1>3, <2>0 DEF JobInv, Carried, Clean
    <3>2. q # p
      <4>1. RepoOf[job[v].key] = RepoOf[job[v].path]
        BY <2>3 DEF Fits, Checked, Registering
      <4>2. job[v].key \notin raced'
        BY <2>0, <4>1 DEF Clean
      <4> QED
        BY <1>2, <3>1, <4>2 DEF Works
    <3> QED
      BY <1>4, <3>1, <3>2
  <2>7. RepoReserved(v)'
    <3> SUFFICES ASSUME job[v].pc = "upsert", Limited(v), Clean(RepoOf[job[v].path])
                 PROVE  \/ job[v].delta <= 0
                        \/ Bytes(row', RepoOf[job[v].path]) + job[v].delta
                              <= RepoQuota[RepoOf[job[v].path]]
      BY <1>3, <2>0 DEF RepoReserved, Limited
    <3>1. job[v].path \in Paths /\ job[v].delta \in Int
      BY <2>3, QFacts DEF Registering, Fits, Job
    <3>2. RepoQuota[RepoOf[job[v].path]] \in Int
      BY <3>1, QuotaAssumption DEF Limited
    <3> QED
      BY <1>9, <2>0, <3>1, <3>2 DEF JobInv, RepoReserved
  <2> QED
    BY <2>1, <2>4, <2>6, <2>7 DEF JobInv
<1> QED
  BY <1>7, <1>8, <1>10, <1>11, <1>12 DEF RepoInv

\* The empty server stores nothing.
LEMMA RepoInit == Init => RepoInv
<1> SUFFICES ASSUME Init PROVE RepoInv
  OBVIOUS
<1>1. RowsFit /\ Apart
  BY DEF Init, RowsFit, Apart, Idle
<1>2. \A w \in Writers : JobInv(w)
  BY DEF Init, Idle, JobInv, JobFits, RepoLockHeld, PrevCurrent, Written, SourceKept,
         DeltaComputed, Carried, RepoReserved, Registering, InRepo, Checked
<1>3. WithinQuota
  <2>1. ASSUME NEW r \in Repos, RepoQuota[r] # None PROVE Bytes(row, r) <= RepoQuota[r]
    <3>1. \A k \in Paths : KeySize(row, PathsOf(r))[k] = 0
      BY DEF Init, KeySize, Naming, RowsIn, PathsOf
    <3>2. Sum(KeySize(row, PathsOf(r)), {}) = Sum(KeySize(row, PathsOf(r)), Paths)
      BY <3>1, SumZeros, QuotaAssumption DEF Numbers
    <3>3. Bytes(row, r) = 0
      BY <3>2, SumEmpty DEF Bytes
    <3> QED
      BY <2>1, <3>3, QuotaAssumption
  <2> QED
    BY <2>1 DEF WithinQuota
<1> QED
  BY <1>1, <1>2, <1>3 DEF RepoInv

\* Every step keeps the repository part of the invariant.
LEMMA RepoNext == QInv /\ [Next]_vars => RepoInv'
<1> SUFFICES ASSUME QInv, [Next]_vars PROVE RepoInv'
  OBVIOUS
<1>1. ASSUME NEW w \in Writers, NEW p \in Paths, NEW n \in Sizes, Store(w, p, n)
      PROVE  RepoInv'
  BY <1>1, StoreKeeps
<1>2. ASSUME NEW w \in Writers, NEW p \in Paths, NEW q \in Paths, Mount(w, p, q)
      PROVE  RepoInv'
  BY <1>2, MountKeeps
<1>3. ASSUME NEW w \in Writers, NEW p \in Paths, DeleteRow(w, p)
      PROVE  RepoInv'
  BY <1>3, DeleteRowKeeps
<1>4. ASSUME NEW w \in Writers, LockStore(w) \/ LockRepo(w)
      PROVE  RepoInv'
  BY <1>4, LocksKeep
<1>5. ASSUME NEW w \in Writers, Advance(w)
      PROVE  RepoInv'
  <2>1. CASE Upsert(w)
    <3>1. UNCHANGED raced /\ job[w].pc = "upsert"
      BY <2>1 DEF Upsert, history
    <3>2. CASE Refuse(w) /\ UNCHANGED row
      BY <3>1, <3>2, RefuseKeeps
    <3>3. CASE ~(Refuse(w) /\ UNCHANGED row)
      <4> DEFINE a == row[job[w].path]
                 x == [id |-> IF a = None THEN nextId ELSE a.id,
                       key |-> job[w].key, size |-> job[w].size]
      <4>1. Goto(w, "count") /\ UNCHANGED lock /\ row' = [row EXCEPT ![job[w].path] = x]
        BY <2>1, <3>3 DEF Upsert
      <4>2. /\ job[w].path \in Paths /\ job[w].key \in Paths /\ job[w].size \in Sizes
            /\ nextId \in Nat /\ (a # None => a.id \in Nat)
        BY <3>1, QFacts, QuotaAssumption DEF JobShape, DataOK, Row
      <4>3. x \in Row /\ x.key = job[w].key /\ x.size = job[w].size
        BY <4>2 DEF Row
      <4> HIDE DEF x
      <4> QED
        BY <3>1, <4>1, <4>3, UpsertKeeps
    <3> QED
      BY <3>2, <3>3
  <2> QED
    BY <1>5, <2>1, ReadPrevKeeps, ComputeDeltaKeeps, CheckStoreKeeps, CheckRepoKeeps,
       CountKeeps, FreedKeeps DEF Advance
<1>6. CASE UNCHANGED vars
  <2>1. RowsFit' /\ WithinQuota'
    BY <1>6, QFacts, RowsKept DEF vars
  <2>2. Apart'
    BY <1>6, QFacts DEF vars, Apart, Works
  <2>3. \A v \in Writers : JobInv(v)'
    BY <1>6, QFacts, OthersKept DEF vars
  <2> QED
    BY <2>1, <2>2, <2>3 DEF RepoInv
<1> QED
  BY <1>1, <1>2, <1>3, <1>4, <1>5, <1>6 DEF Next

\* The invariant of the repository quota.
LEMMA QInvariance == Spec => []QInv
<1>1. Init => HistoryOK
  BY DEF Init, HistoryOK
<1>2. QInv /\ [Next]_vars => QInv'
  BY NextPreserves, HistoryType, RepoNext DEF QInv
<1>3. Init => QInv
  BY <1>1, InitEstablishes, RepoInit DEF QInv
<1> QED
  BY <1>2, <1>3, PTL DEF Spec

\* No repository with a quota holds more bytes than the quota, for any writers, paths and
\* aliases, unless two requests met on one of its paths.
THEOREM RepoQuotaSafe == Spec => []RepoQuotaHolds
<1>1. QInv => RepoQuotaHolds
  <2> SUFFICES ASSUME QInv, NEW r \in Repos, RepoQuota[r] # None, \A p \in raced : RepoOf[p] # r
               PROVE  SumSizeByRepo(r) <= RepoQuota[r]
    BY DEF RepoQuotaHolds
  <2>1. SumSizeByRepo(r) = Bytes(row, r)
    BY QFacts, RepoSum DEF Bytes
  <2> QED
    BY <2>1, QFacts DEF WithinQuota, Clean
<1> QED
  BY <1>1, QInvariance, PTL

-----------------------------------------------------------------------------
(* The counter: what it holds of each path                                 *)

\* The size a table records at a path, and a writer whose counter move is to come.
SizeAt(R, p) == IF R[p] = None THEN 0 ELSE R[p].size
Pending(w) == job[w].pc \in {"count", "freed"}

\* What the counter holds of each path: its row, short of the move to come.
Counts(c) ==
    \A p \in Paths :
        /\ \A w \in Writers : Pending(w) /\ job[w].path = p => c[p] = SizeAt(row, p) - job[w].delta
        /\ (\A w \in Writers : ~(Pending(w) /\ job[w].path = p)) => c[p] = SizeAt(row, p)

Sure == raced = {} /\ "under" \notin drift
Exact == ~aliased /\ drift = {}
CounterInv ==
    Sure =>
        \E c \in [Paths -> Nat] :
            Counts(c) /\ Sum(c, Paths) <= used /\ (Exact => Sum(c, Paths) = used)

\* Until something is aliased every path names its own key.
OwnKeys ==
    ~aliased =>
        /\ \A p \in Paths : row[p] # None => row[p].key = p
        /\ \A w \in Writers : job[w].pc \in Registering \cup {"count"} => job[w].key = job[w].path

FreedPath == \A w \in Writers : job[w].pc = "freed" => job[w].path \in Paths

CInv == CounterInv /\ OwnKeys /\ FreedPath

-----------------------------------------------------------------------------

\* A recorded size is a natural number.
LEMMA SizeAtNat ==
    ASSUME NEW R \in Assets, NEW p \in Paths PROVE SizeAt(R, p) \in Nat
BY QuotaAssumption DEF SizeAt, Assets, Row, Sizes

\* A sum of natural numbers after a change at one place.
Replaces(e, c, p, x) ==
    /\ e[p] = x /\ \A q \in Paths \ {p} : e[q] = c[q]
    /\ Sum(e, Paths) = Sum(c, Paths) - c[p] + x /\ Sum(e, Paths) >= 0

\* Such a change can be made, and leaves natural numbers.
LEMMA SumReplaced ==
    ASSUME NEW c \in [Paths -> Nat], NEW p \in Paths, NEW x \in Nat
    PROVE  /\ Sum(c, Paths) \in Int
           /\ \E e \in [Paths -> Nat] : Replaces(e, c, p, x)
<1> DEFINE d == [c EXCEPT ![p] = x]
           z == [q \in Paths |-> 0]
<1>1. d \in [Paths -> Nat] /\ d[p] = x /\ \A y \in Paths \ {p} : c[y] = d[y]
  OBVIOUS
<1>2. Numbers(c, Paths) /\ Numbers(d, Paths) /\ Numbers(z, Paths)
  BY <1>1 DEF Numbers
<1>3. Sum(c, Paths) \in Int /\ Sum(d, Paths) \in Int
  BY <1>2, SumInt, QuotaAssumption
<1>4. \A y \in Paths : z[y] <= d[y]
  BY <1>1
<1> HIDE DEF d
<1>5. Sum(d, Paths) = Sum(c, Paths) - c[p] + d[p]
  BY <1>1, <1>2, SumChange, QuotaAssumption
<1>6. Sum(z, Paths) <= Sum(d, Paths)
  BY <1>2, <1>4, SumMonotone, QuotaAssumption
<1>7. Sum(z, Paths) = 0
  <2>1. Sum(z, {}) = Sum(z, Paths)
    BY SumZeros, QuotaAssumption DEF Numbers
  <2> QED
    BY <2>1, SumEmpty
<1>8. Sum(d, Paths) >= 0
  BY <1>3, <1>6, <1>7
<1>9. /\ d \in [Paths -> Nat] /\ d[p] = x /\ \A q \in Paths \ {p} : d[q] = c[q]
      /\ Sum(c, Paths) \in Int /\ Sum(d, Paths) = Sum(c, Paths) - c[p] + x /\ Sum(d, Paths) >= 0
  BY <1>1, <1>3, <1>5, <1>8
<1> QED
  BY <1>9 DEF Replaces

\* A step that moves neither a row, nor the counter, nor a pending move.
LEMMA CounterKept ==
    ASSUME CounterInv, UNCHANGED <<row, used>>, raced \subseteq raced', aliased => aliased', drift \subseteq drift',
           \A w \in Writers : /\ Pending(w)' <=> Pending(w)
                              /\ Pending(w) => job'[w].path = job[w].path /\ job'[w].delta = job[w].delta
    PROVE  CounterInv'
<1> SUFFICES ASSUME Sure' PROVE CounterInv'
  BY DEF CounterInv
<1>s. raced = {} /\ Sure
  BY DEF Sure, Drift, Touch
<1>1. PICK c \in [Paths -> Nat] :
         Counts(c) /\ Sum(c, Paths) <= used /\ (Exact => Sum(c, Paths) = used)
  BY <1>s DEF CounterInv
<1>2. Counts(c)'
  BY <1>1 DEF Counts, SizeAt
<1> QED
  <2>1. Exact' => Exact
    BY DEF Exact
  <2> QED
    BY <1>1, <1>2, <2>1 DEF CounterInv

\* No other request works on the path of a running one.
LEMMA Alone ==
    ASSUME QInv, raced = {}, NEW w \in Writers, job[w].pc # "idle", NEW v \in Writers, v # w,
           job[v].pc # "idle"
    PROVE  job[v].path # job[w].path
BY QFacts DEF Apart, Works

\* UpdateUsedBytes: the pending move of a writer is made.
LEMMA CounterMoves ==
    ASSUME QInv, CInv, NEW w \in Writers, Pending(w), ~Pending(w)', MoveCounter(job[w].delta),
           UNCHANGED row, raced \subseteq raced', aliased => aliased',
           \A v \in Writers \ {w} : job'[v] = job[v]
    PROVE  CounterInv'
<1> SUFFICES ASSUME Sure' PROVE CounterInv'
  BY DEF CounterInv
<1>s. raced = {} /\ Sure /\ drift \subseteq drift'
  BY DEF Sure, MoveCounter, Drift
<1> DEFINE p == job[w].path
           d == job[w].delta
           x == SizeAt(row, p)
<1>0. p \in Paths /\ d \in Int /\ job[w].pc # "idle" /\ x \in Nat /\ used \in Nat /\ row \in Assets
  <2>1. p \in Paths /\ d \in Int /\ used \in Nat /\ row \in Assets
    BY QFacts DEF CInv, FreedPath, JobShape, Pending, Job, DataOK
  <2> QED
    BY <2>1, SizeAtNat DEF Pending
<1>1. PICK c \in [Paths -> Nat] :
         Counts(c) /\ Sum(c, Paths) <= used /\ (Exact => Sum(c, Paths) = used)
  BY <1>s DEF CInv, CounterInv
<1>2. c[p] = x - d /\ Sum(c, Paths) \in Int
  BY <1>0, <1>1, SumReplaced DEF Counts
<1>e. PICK e \in [Paths -> Nat] : Replaces(e, c, p, x)
  <2> HIDE DEF x, p
  <2> QED
    BY <1>0, SumReplaced
<1>3. /\ e[p] = x /\ \A q \in Paths \ {p} : e[q] = c[q]
      /\ Sum(e, Paths) = Sum(c, Paths) - c[p] + x /\ Sum(e, Paths) >= 0
  BY <1>e DEF Replaces
<1>4. Sum(e, Paths) = Sum(c, Paths) + d
  <2> HIDE DEF x, d
  <2> QED
    BY <1>0, <1>2, <1>3
<1>5. \/ used' = used + d /\ drift' = drift
      \/ used' = used /\ d < 0 /\ drift' # {}
  <2>1. used + d >= 0
    <3> HIDE DEF d
    <3> QED
      BY <1>0, <1>1, <1>2, <1>3, <1>4
  <2>2. CASE UpdateUsedBytes(d) /\ UNCHANGED drift
    BY <1>0, <2>1, <2>2 DEF UpdateUsedBytes
  <2>3. CASE d > 0 /\ Drift("under")
    BY <2>3 DEF Drift, Sure
  <2>4. CASE d < 0 /\ Drift("over") /\ UNCHANGED used
    BY <2>4 DEF Drift
  <2> QED
    BY <2>2, <2>3, <2>4 DEF MoveCounter
<1>6. Counts(e)'
  <2>1. ASSUME NEW q \in Paths, NEW v \in Writers, Pending(v)', job'[v].path = q
        PROVE  e[q] = SizeAt(row', q) - job'[v].delta
    <3>1. v # w /\ job'[v] = job[v] /\ Pending(v) /\ job[v].path = q
      BY <2>1 DEF Pending
    <3>2. q # p
      BY <1>0, <1>s, <3>1, Alone DEF Pending
    <3> QED
      BY <1>1, <1>3, <3>1, <3>2 DEF Counts
  <2>2. ASSUME NEW q \in Paths, \A v \in Writers : ~(Pending(v)' /\ job'[v].path = q)
        PROVE  e[q] = SizeAt(row', q)
    <3>1. CASE q = p
      BY <1>3, <3>1
    <3>2. CASE q # p
      <4>1. \A v \in Writers : ~(Pending(v) /\ job[v].path = q)
        BY <2>2, <3>2 DEF Pending
      <4> QED
        BY <1>1, <1>3, <3>2, <4>1 DEF Counts
    <3> QED
      BY <3>1, <3>2
  <2> QED
    BY <2>1, <2>2 DEF Counts
<1>7. Sum(e, Paths) <= used' /\ (Exact' => Sum(e, Paths) = used')
  <2>1. Exact' => Exact /\ drift' = {}
    BY <1>s DEF Exact
  <2> HIDE DEF d
  <2> QED
    BY <1>0, <1>1, <1>2, <1>4, <1>5, <2>1
<1> QED
  BY <1>3, <1>6, <1>7 DEF CounterInv

\* The counts after a change at one path fit the counter after the step.
LEMMA Recounted ==
    ASSUME NEW c \in [Paths -> Nat], NEW p \in Paths, NEW x \in Nat,
           \A e \in [Paths -> Nat] : e[p] = x /\ (\A q \in Paths \ {p} : e[q] = c[q]) => Counts(e)',
           Sum(c, Paths) - c[p] + x <= used', Exact' => Sum(c, Paths) - c[p] + x = used'
    PROVE  CounterInv'
<1>1. PICK e \in [Paths -> Nat] : Replaces(e, c, p, x)
  BY SumReplaced
<1>2. Counts(e)'
  BY <1>1 DEF Replaces
<1> QED
  BY <1>1, <1>2 DEF CounterInv, Replaces

\* A row is written: the path counts for no more than it did.
LEMMA UpsertCounts ==
    ASSUME QInv, CInv, NEW w \in Writers, job[w].pc = "upsert", Goto(w, "count"),
           UNCHANGED <<used, raced, aliased, drift>>, NEW y \in Row, y.key = job[w].key, y.size = job[w].size,
           row' = [row EXCEPT ![job[w].path] = y]
    PROVE  CounterInv'
<1> SUFFICES ASSUME Sure' PROVE CounterInv'
  BY DEF CounterInv
<1>s. raced = {} /\ Sure
  BY DEF Sure, Drift, Touch
<1> DEFINE j == job[w]
           p == j.path
           x == j.size - j.delta
<1>0. JobInv(w) /\ RowsFit /\ row \in Assets
  BY QFacts
<1>1. Fits(p, j.key, j.size) /\ p \in Paths /\ j.delta \in Int /\ j.size \in Nat
  <2>1. Fits(p, j.key, j.size)
    BY <1>0 DEF JobInv, JobFits, Registering
  <2> QED
    BY <2>1, QFacts, QuotaAssumption DEF Fits, Job, Sizes
<1>2. row[p] = j.prev /\ (j.prev # None => j.prev.size \in Nat)
  <2>1. row[p] = j.prev
    BY <1>0, <1>s DEF JobInv, PrevCurrent, Registering
  <2> QED
    BY <1>0, <1>1, <2>1, QuotaAssumption DEF Assets, Row, Sizes
<1>3. /\ job'[w].pc = "count" /\ job'[w].path = p /\ job'[w].delta = j.delta
      /\ \A v \in Writers \ {w} : job'[v] = job[v]
  BY QFacts DEF Goto, Job
<1>4. PICK c \in [Paths -> Nat] :
         Counts(c) /\ Sum(c, Paths) <= used /\ (Exact => Sum(c, Paths) = used)
  BY <1>s DEF CInv, CounterInv
<1>5. \A v \in Writers : job[v].pc # "idle" /\ v # w => job[v].path # p
  BY <1>s, Alone
<1>6. c[p] = SizeAt(row, p)
  <2>1. \A v \in Writers : ~(Pending(v) /\ job[v].path = p)
    BY <1>5 DEF Pending
  <2> QED
    BY <1>1, <1>4, <2>1 DEF Counts
<1>7. x \in Nat /\ x <= c[p] /\ (Exact => x = c[p])
  <2>1. \/ j.prev = None /\ j.delta = j.size
        \/ j.prev # None /\ j.prev.key = j.key /\ j.delta = j.size - j.prev.size
        \/ j.prev # None /\ j.prev.key # j.key /\ j.delta \in {0, j.size}
    BY <1>0 DEF JobInv, DeltaComputed, Checked
  <2>2. CASE j.prev = None
    BY <1>1, <1>2, <1>6, <2>1, <2>2 DEF SizeAt
  <2>3. CASE j.prev # None /\ j.prev.key = j.key
    BY <1>1, <1>2, <1>6, <2>1, <2>3 DEF SizeAt
  <2>4. CASE j.prev # None /\ j.prev.key # j.key
    <3>1. Fits(p, j.prev.key, j.prev.size)
      BY <1>0, <1>1, <1>2, <2>4 DEF RowsFit
    <3>2. j.size = j.prev.size
      BY <1>1, <2>4, <3>1 DEF Fits
    <3>3. aliased
      BY <1>1, <1>2, <2>4 DEF CInv, OwnKeys, Registering
    <3> QED
      BY <1>1, <1>2, <1>6, <2>1, <2>4, <3>2, <3>3 DEF SizeAt, Exact
  <2> QED
    BY <2>2, <2>3, <2>4
<1>b. Sum(c, Paths) \in Int
  BY <1>1, SumReplaced
<1>8. Sum(c, Paths) - c[p] + x <= used' /\ (Exact' => Sum(c, Paths) - c[p] + x = used')
  <2>1. c[p] \in Nat /\ used \in Int
    BY <1>1, QFacts DEF DataOK
  <2>2. Exact' <=> Exact
    BY DEF Exact
  <2> HIDE DEF x, p
  <2> QED
    BY <1>4, <1>7, <1>b, <2>1, <2>2
<1>9. ASSUME NEW e \in [Paths -> Nat], e[p] = x, \A q \in Paths \ {p} : e[q] = c[q]
      PROVE  Counts(e)'
  <2>0. row'[p] = y /\ y # None /\ \A q \in Paths \ {p} : row'[q] = row[q]
    BY <1>0, <1>1, NoneAssumption DEF Assets, Row, Sizes
  <2>1. ASSUME NEW q \in Paths, NEW v \in Writers, Pending(v)', job'[v].path = q
        PROVE  e[q] = SizeAt(row', q) - job'[v].delta
    <3>1. CASE v = w
      BY <1>1, <1>3, <1>9, <2>0, <2>1, <3>1 DEF SizeAt
    <3>2. CASE v # w
      <4>1. job'[v] = job[v] /\ Pending(v) /\ job[v].path = q /\ q # p
        BY <1>3, <1>5, <2>1, <3>2 DEF Pending
      <4> QED
        BY <1>4, <1>9, <2>0, <4>1 DEF Counts, SizeAt
    <3> QED
      BY <3>1, <3>2
  <2>2. ASSUME NEW q \in Paths, \A v \in Writers : ~(Pending(v)' /\ job'[v].path = q)
        PROVE  e[q] = SizeAt(row', q)
    <3>1. q # p
      BY <1>3, <2>2 DEF Pending
    <3>2. \A v \in Writers : ~(Pending(v) /\ job[v].path = q)
      BY <1>3, <2>2, <3>1 DEF Pending
    <3> QED
      BY <1>4, <1>9, <2>0, <3>1, <3>2 DEF Counts, SizeAt
  <2> QED
    BY <2>1, <2>2 DEF Counts
<1>c. x \in Nat /\ p \in Paths
  BY <1>1, <1>7
<1> HIDE DEF x, p, j
<1> QED
  BY <1>8, <1>9, <1>c, Recounted

\* A delete: the bytes it frees stay counted until its move is made.
LEMMA DeleteCounts ==
    ASSUME QInv, CInv, NEW w \in Writers, NEW p \in Paths, DeleteRow(w, p)
    PROVE  CounterInv'
<1> SUFFICES ASSUME Sure' PROVE CounterInv'
  BY DEF CounterInv
<1>s. raced = {} /\ Sure /\ drift \subseteq drift'
  BY DEF Sure, DeleteRow, Drift, Touch
<1> DEFINE n == row[p].size
<1>0. /\ job[w].pc = "idle" /\ row[p] # None /\ row' = [row EXCEPT ![p] = None]
      /\ Touch({p, row[p].key}) /\ UNCHANGED <<used, aliased>> /\ row \in Assets
  BY QFacts DEF DeleteRow
<1>1. \A v \in Writers : p \notin Works(v)
  BY <1>0, TouchRaces DEF Sure
<1>2. row'[p] = None /\ \A q \in Paths \ {p} : row'[q] = row[q]
  BY <1>0 DEF Assets
<1>3. n \in Nat /\ n = SizeAt(row, p)
  BY <1>0, QuotaAssumption DEF Assets, Row, Sizes, SizeAt
<1>4. PICK c \in [Paths -> Nat] :
         Counts(c) /\ Sum(c, Paths) <= used /\ (Exact => Sum(c, Paths) = used)
  BY <1>s DEF CInv, CounterInv
<1>5. c[p] = n
  <2>1. \A v \in Writers : ~(Pending(v) /\ job[v].path = p)
    BY <1>1 DEF Works
  <2> QED
    BY <1>3, <1>4, <2>1 DEF Counts
<1>6. CASE job' # job
  <2>1. /\ job'[w].pc = "freed" /\ job'[w].path = p /\ job'[w].delta = -n
        /\ \A v \in Writers \ {w} : job'[v] = job[v]
    BY <1>6, QFacts DEF DeleteRow
  <2>2. Counts(c)'
    <3>1. ASSUME NEW q \in Paths, NEW v \in Writers, Pending(v)', job'[v].path = q
          PROVE  c[q] = SizeAt(row', q) - job'[v].delta
      <4>1. CASE v = w
        BY <1>2, <1>3, <1>5, <2>1, <3>1, <4>1 DEF SizeAt
      <4>2. CASE v # w
        <5>1. job'[v] = job[v] /\ Pending(v) /\ job[v].path = q /\ q # p
          BY <1>1, <2>1, <3>1, <4>2 DEF Pending, Works
        <5> QED
          BY <1>2, <1>4, <5>1 DEF Counts, SizeAt
      <4> QED
        BY <4>1, <4>2
    <3>2. ASSUME NEW q \in Paths, \A v \in Writers : ~(Pending(v)' /\ job'[v].path = q)
          PROVE  c[q] = SizeAt(row', q)
      <4>1. q # p
        BY <2>1, <3>2 DEF Pending
      <4>2. \A v \in Writers : ~(Pending(v) /\ job[v].path = q)
        BY <1>0, <2>1, <3>2 DEF Pending
      <4> QED
        BY <1>2, <1>4, <4>1, <4>2 DEF Counts, SizeAt
    <3> QED
      BY <3>1, <3>2 DEF Counts
  <2>3. Exact' => Exact
    BY <1>0, <1>s DEF Exact
  <2> QED
    BY <1>0, <1>4, <2>2, <2>3 DEF CounterInv
<1>7. CASE job' = job
  <2>1. job' = job
    BY <1>7
  <2>2. ~Exact'
    <3> SUFFICES ASSUME ~aliased, drift' = {} PROVE FALSE
      BY <1>0 DEF Exact
    <3>1. \A q \in Paths : row[q] # None => row[q].key = q
      BY DEF CInv, OwnKeys
    <3>2. Referenced(row[p].key) = {p}
      BY <1>0, <3>1 DEF Referenced
    <3> QED
      BY <1>0, <1>7, <3>2, QFacts DEF DeleteRow, Drift, DataOK
  <2>e. PICK e \in [Paths -> Nat] : Replaces(e, c, p, 0)
    BY SumReplaced
  <2>3. /\ e[p] = 0 /\ \A q \in Paths \ {p} : e[q] = c[q]
        /\ Sum(e, Paths) = Sum(c, Paths) - c[p] + 0
    BY <2>e DEF Replaces
  <2>4. Sum(e, Paths) <= used'
    <3>1. used \in Nat /\ Sum(c, Paths) \in Int
      BY QFacts, SumReplaced DEF DataOK
    <3> HIDE DEF n
    <3> QED
      BY <1>0, <1>3, <1>4, <1>5, <2>3, <3>1
  <2>5. Counts(e)'
    <3>1. ASSUME NEW q \in Paths, NEW v \in Writers, Pending(v)', job'[v].path = q
          PROVE  e[q] = SizeAt(row', q) - job'[v].delta
      <4>1. Pending(v) /\ job[v].path = q /\ q # p
        BY <1>1, <2>1, <3>1 DEF Pending, Works
      <4> QED
        BY <1>2, <1>4, <2>1, <2>3, <4>1 DEF Counts, SizeAt
    <3>2. ASSUME NEW q \in Paths, \A v \in Writers : ~(Pending(v)' /\ job'[v].path = q)
          PROVE  e[q] = SizeAt(row', q)
      <4>1. \A v \in Writers : ~(Pending(v) /\ job[v].path = q)
        BY <2>1, <3>2 DEF Pending
      <4>2. c[q] = SizeAt(row, q)
        BY <1>4, <4>1 DEF Counts
      <4> QED
        BY <1>2, <2>3, <4>2 DEF SizeAt
    <3> QED
      BY <3>1, <3>2 DEF Counts
  <2> QED
    BY <2>2, <2>4, <2>5 DEF CounterInv
<1> QED
  BY <1>6, <1>7

-----------------------------------------------------------------------------
(* The counter: every step, and the recount                                *)

\* Every registration in flight names its own key, while nothing is aliased.
LEMMA CInitially == Init => CInv
<1> SUFFICES ASSUME Init PROVE CInv
  OBVIOUS
<1> DEFINE c == [p \in Paths |-> 0]
<1>1. OwnKeys /\ FreedPath
  BY DEF Init, Idle, OwnKeys, FreedPath, Registering
<1>2. Counts(c)
  BY DEF Init, Idle, Counts, Pending, SizeAt
<1>3. Sum(c, Paths) = 0
  <2>1. Sum(c, {}) = Sum(c, Paths)
    BY SumZeros, QuotaAssumption DEF Numbers
  <2> QED
    BY <2>1, SumEmpty
<1>4. CounterInv
  <2>1. c \in [Paths -> Nat] /\ used = 0
    BY DEF Init
  <2> HIDE DEF c
  <2> QED
    BY <1>2, <1>3, <2>1 DEF CounterInv
<1> QED
  BY <1>1, <1>4 DEF CInv

\* A step of one writer that changes no row and begins or ends no counter move.
LEMMA StepKeeps ==
    ASSUME QInv, CInv, NEW w \in Writers, job[w].pc # "freed", job'[w].pc # "freed",
           UNCHANGED row, aliased => aliased', CounterInv',
           \A v \in Writers \ {w} : job'[v] = job[v],
           ~aliased' /\ job'[w].pc \in Registering \cup {"count"} => job'[w].key = job'[w].path
    PROVE  CInv'
<1>1. OwnKeys'
  BY DEF CInv, OwnKeys
<1>2. FreedPath'
  BY DEF CInv, FreedPath
<1> QED
  BY <1>1, <1>2 DEF CInv

\* A writer begins a request, moves on to the write of its row, or gives up.
LEMMA QuietStepKeeps ==
    ASSUME QInv, CInv, NEW w \in Writers, ~Pending(w), ~Pending(w)', UNCHANGED <<row, used>>,
           raced \subseteq raced', aliased => aliased', drift \subseteq drift',
           \A v \in Writers \ {w} : job'[v] = job[v],
           ~aliased' /\ job'[w].pc \in Registering \cup {"count"} => job'[w].key = job'[w].path
    PROVE  CInv'
<1>1. CounterInv'
  BY CounterKept DEF CInv, Pending
<1> QED
  BY <1>1, StepKeeps DEF Pending

\* A refused registration moves nothing.
LEMMA RefuseCounts ==
    ASSUME QInv, CInv, NEW w \in Writers, job[w].pc \in Registering, Refuse(w),
           UNCHANGED <<row, used, raced, aliased, drift>>
    PROVE  CInv'
<1>1. job'[w].pc = "idle" /\ \A v \in Writers \ {w} : job'[v] = job[v]
  BY QFacts, EndJob DEF Refuse
<1> QED
  BY <1>1, QuietStepKeeps DEF Pending, Registering

\* A registration moves on; the path and the key it works on stay.
LEMMA OnwardCounts ==
    ASSUME QInv, CInv, NEW w \in Writers, job[w].pc \in Registering, job'[w].pc \in Registering,
           job'[w].path = job[w].path, job'[w].key = job[w].key,
           \A v \in Writers \ {w} : job'[v] = job[v],
           UNCHANGED <<row, used, raced, aliased, drift>>
    PROVE  CInv'
<1>1. ~aliased => job[w].key = job[w].path
  BY DEF CInv, OwnKeys
<1> QED
  BY <1>1, QuietStepKeeps DEF Pending, Registering

\* A step of a registration short of the write of its row.
LEMMA RegistrationCounts ==
    ASSUME QInv, CInv, NEW w \in Writers,
           ReadPrev(w) \/ LockStore(w) \/ LockRepo(w) \/ ComputeDelta(w) \/ CheckStore(w) \/ CheckRepo(w)
    PROVE  CInv'
<1>1. UNCHANGED <<row, used, raced, aliased, drift>> /\ job[w].pc \in Registering
  BY DEF ReadPrev, LockStore, LockRepo, ComputeDelta, CheckStore, CheckRepo, history, Registering
<1>2. CASE Refuse(w)
  BY <1>1, <1>2, RefuseCounts
<1>3. CASE ~Refuse(w)
  <2> DEFINE l == job'[w].pc
  <2>1. /\ job'[w].path = job[w].path /\ job'[w].key = job[w].key
        /\ \A v \in Writers \ {w} : job'[v] = job[v]
    BY <1>3, QFacts
       DEF ReadPrev, LockStore, LockRepo, ComputeDelta, CheckStore, CheckRepo, Goto, Job
  <2>2. l \in Registering
    BY <1>3, QFacts
       DEF ReadPrev, LockStore, LockRepo, ComputeDelta, CheckStore, CheckRepo, Goto, Job,
           Registering, AfterStore
  <2> QED
    BY <1>1, <2>1, <2>2, OnwardCounts
<1> QED
  BY <1>2, <1>3

\* A stored artifact begins its registration under its own key.
LEMMA StoreCounts ==
    ASSUME QInv, CInv, NEW w \in Writers, NEW p \in Paths, NEW n \in Sizes, Store(w, p, n)
    PROVE  CInv'
<1>1. /\ job[w].pc = "idle" /\ UNCHANGED <<row, used, aliased, drift>> /\ raced \subseteq raced'
      /\ job'[w] = Registration(p, p, n) /\ \A v \in Writers \ {w} : job'[v] = job[v]
  BY QFacts DEF Store, Touch
<1> QED
  BY <1>1, QuietStepKeeps DEF Registration, Pending

\* A mounted layer begins its registration under the key of another.
LEMMA MountCounts ==
    ASSUME QInv, CInv, NEW w \in Writers, NEW p \in Paths, NEW q \in Paths, Mount(w, p, q)
    PROVE  CInv'
<1>1. /\ job[w].pc = "idle" /\ UNCHANGED <<row, used, drift>> /\ aliased' /\ raced \subseteq raced'
      /\ job'[w].pc = "readPrev" /\ \A v \in Writers \ {w} : job'[v] = job[v]
  BY QFacts DEF Mount, Touch, Registration
<1> QED
  BY <1>1, QuietStepKeeps DEF Pending

\* A registration moves the counter by its delta.
LEMMA CountCounts ==
    ASSUME QInv, CInv, NEW w \in Writers, Count(w)
    PROVE  CInv'
<1>1. /\ job[w].pc = "count" /\ MoveCounter(job[w].delta) /\ UNCHANGED row
      /\ raced \subseteq raced' /\ (aliased => aliased')
      /\ job'[w].pc \in {"idle", "readPrev"} /\ (job'[w].pc # "idle" => aliased')
      /\ \A v \in Writers \ {w} : job'[v] = job[v]
  BY QFacts DEF Count, history, Touch, Registration, Idle
<1>2. CounterInv'
  BY <1>1, CounterMoves DEF Pending
<1> QED
  BY <1>1, <1>2, StepKeeps DEF Registering

\* A delete moves the counter back.
LEMMA FreedCounts ==
    ASSUME QInv, CInv, NEW w \in Writers, Freed(w)
    PROVE  CInv'
<1>1. /\ job[w].pc = "freed" /\ MoveCounter(job[w].delta) /\ UNCHANGED <<row, raced, aliased>>
      /\ job'[w].pc = "idle" /\ \A v \in Writers \ {w} : job'[v] = job[v]
  BY QFacts DEF Freed, history, Idle
<1>2. CounterInv'
  BY <1>1, CounterMoves DEF Pending
<1>3. OwnKeys'
  BY <1>1 DEF CInv, OwnKeys, Registering
<1>4. FreedPath'
  BY <1>1 DEF CInv, FreedPath
<1> QED
  BY <1>2, <1>3, <1>4 DEF CInv

\* A row is written, or its write fails.
LEMMA UpsertKeepsCounts ==
    ASSUME QInv, CInv, NEW w \in Writers, Upsert(w)
    PROVE  CInv'
<1>1. UNCHANGED <<used, raced, aliased, drift>> /\ job[w].pc = "upsert"
  BY DEF Upsert, history
<1>2. CASE Refuse(w) /\ UNCHANGED row
  BY <1>1, <1>2, RefuseCounts DEF Registering
<1>3. CASE ~(Refuse(w) /\ UNCHANGED row)
  <2> DEFINE a == row[job[w].path]
             x == [id |-> IF a = None THEN nextId ELSE a.id,
                   key |-> job[w].key, size |-> job[w].size]
  <2>1. Goto(w, "count") /\ row' = [row EXCEPT ![job[w].path] = x]
    BY <1>3 DEF Upsert
  <2>2. /\ job[w].path \in Paths /\ job[w].key \in Paths /\ job[w].size \in Sizes
        /\ nextId \in Nat /\ (a # None => a.id \in Nat)
    BY <1>1, QFacts, QuotaAssumption DEF JobShape, DataOK, Row
  <2>3. x \in Row /\ x.key = job[w].key /\ x.size = job[w].size
    BY <2>2 DEF Row
  <2> HIDE DEF x
  <2>4. CounterInv'
    BY <1>1, <2>1, <2>3, UpsertCounts
  <2>5. /\ job'[w].pc = "count" /\ job'[w].path = job[w].path /\ job'[w].key = job[w].key
        /\ \A v \in Writers \ {w} : job'[v] = job[v]
    BY <2>1, QFacts DEF Goto, Job
  <2>6. row'[job[w].path] = x /\ \A q \in Paths \ {job[w].path} : row'[q] = row[q]
    BY <2>1, <2>2, QFacts DEF Assets
  <2>7. OwnKeys'
    BY <1>1, <2>2, <2>3, <2>5, <2>6 DEF CInv, OwnKeys, Registering
  <2>8. FreedPath'
    BY <2>5 DEF CInv, FreedPath
  <2> QED
    BY <2>4, <2>7, <2>8 DEF CInv
<1> QED
  BY <1>2, <1>3

\* A row is deleted.
LEMMA DeleteKeepsCounts ==
    ASSUME QInv, CInv, NEW w \in Writers, NEW p \in Paths, DeleteRow(w, p)
    PROVE  CInv'
<1>1. CounterInv'
  BY DeleteCounts
<1>2. /\ job[w].pc = "idle" /\ UNCHANGED aliased
      /\ row'[p] = None /\ \A q \in Paths \ {p} : row'[q] = row[q]
      /\ job'[w].pc \in {"idle", "freed"} /\ (job'[w].pc = "freed" => job'[w].path = p)
      /\ \A v \in Writers \ {w} : job'[v] = job[v]
  BY QFacts DEF DeleteRow, Assets
<1>3. OwnKeys'
  BY <1>2 DEF CInv, OwnKeys, Registering
<1>4. FreedPath'
  BY <1>2 DEF CInv, FreedPath
<1> QED
  BY <1>1, <1>3, <1>4 DEF CInv

\* Every step keeps the counter true to the rows.
LEMMA CountsNext == QInv /\ CInv /\ [Next]_vars => CInv'
<1> SUFFICES ASSUME QInv, CInv, [Next]_vars PROVE CInv'
  OBVIOUS
<1>1. CASE UNCHANGED vars
  <2>1. CounterInv'
    BY <1>1, CounterKept DEF vars, CInv, Pending
  <2>2. OwnKeys' /\ FreedPath'
    BY <1>1 DEF vars, CInv, OwnKeys, FreedPath
  <2> QED
    BY <2>1, <2>2 DEF CInv
<1>2. ASSUME NEW w \in Writers, Advance(w) PROVE CInv'
  BY <1>2, RegistrationCounts, UpsertKeepsCounts, CountCounts, FreedCounts DEF Advance
<1> QED
  BY <1>1, <1>2, StoreCounts, MountCounts, DeleteKeepsCounts, RegistrationCounts DEF Next

\* Between requests the counts are those of the rows.
LEMMA RecountBelow ==
    ASSUME QInv, CInv, Quiet, Sure
    PROVE  used >= RecomputeUsedBytes /\ (Exact => used = RecomputeUsedBytes)
<1> DEFINE m == KeySize(row, Paths)
           T == {k \in Paths : Naming(row, Paths, k) # {}}
<1>0. row \in Assets /\ used \in Nat
  BY QFacts DEF DataOK
<1>1. RecomputeUsedBytes = Sum(m, Paths)
  BY <1>0, RepoSum
<1>2. Numbers(m, Paths) /\ Sum(m, Paths) \in Int
  BY <1>0, KeySizeNumbers
<1>3. PICK c \in [Paths -> Nat] :
         Counts(c) /\ Sum(c, Paths) <= used /\ (Exact => Sum(c, Paths) = used)
  BY DEF CInv, CounterInv
<1>4. \A p \in Paths : c[p] = SizeAt(row, p)
  BY <1>3 DEF Quiet, Counts, Pending
<1>5. Numbers(c, Paths) /\ Sum(c, Paths) \in Int
  BY SumInt, QuotaAssumption DEF Numbers
<1>6. Sum(m, Paths) <= Sum(c, Paths)
  <2> DEFINE key == [p \in Paths |-> IF row[p] = None THEN p ELSE row[p].key]
  <2>1. ASSUME NEW k \in T PROVE \E p \in Paths : key[p] = k /\ m[k] <= c[p]
    <3>1. PICK p \in Naming(row, Paths, k) : row[p].size = m[k]
      BY <1>0, KeySizes
    <3>2. p \in Paths /\ row[p] # None /\ row[p].key = k /\ m[k] \in Nat
      BY <1>0, <3>1, KeySizes DEF Naming, RowsIn
    <3>3. c[p] = m[k]
      BY <1>4, <3>1, <3>2 DEF SizeAt
    <3>4. m[k] <= c[p]
      BY <3>2, <3>3
    <3>5. key[p] = k
      BY <3>2
    <3> QED
      BY <3>2, <3>4, <3>5
  <2>2. \A k \in Paths : m[k] \in Nat
    BY <1>0, KeySizes
  <2>3. \A k \in Paths \ T : m[k] = 0
    BY <1>0, KeySizes
  <2>4. T \in SUBSET Paths /\ Numbers(m, T)
    BY <1>2 DEF Numbers
  <2> HIDE DEF m, T, key
  <2>5. Sum(m, T) <= Sum(c, Paths)
    BY <2>1, <2>2, <2>4, SumByKey, QuotaAssumption
  <2>6. Sum(m, T) = Sum(m, Paths)
    BY <2>3, <2>4, SumZeros, QuotaAssumption
  <2> QED
    BY <2>5, <2>6
<1>7. ASSUME Exact PROVE Sum(m, Paths) = Sum(c, Paths)
  <2>1. ASSUME NEW k \in Paths PROVE m[k] = c[k]
    <3>1. \A p \in Naming(row, Paths, k) : p = k
      BY <1>7 DEF Exact, CInv, OwnKeys, Naming, RowsIn
    <3>2. CASE row[k] = None
      <4>1. Naming(row, Paths, k) = {}
        BY <3>1, <3>2 DEF Naming, RowsIn
      <4> QED
        BY <1>0, <1>4, <3>2, <4>1, KeySizes DEF SizeAt
    <3>3. CASE row[k] # None
      <4>1. k \in Naming(row, Paths, k)
        BY <1>7, <3>3 DEF Exact, CInv, OwnKeys, Naming, RowsIn
      <4>2. m[k] = row[k].size
        BY <1>0, <3>1, <4>1, KeySizes
      <4> QED
        BY <1>4, <3>3, <4>2 DEF SizeAt
    <3> QED
      BY <3>2, <3>3
  <2> HIDE DEF m
  <2> QED
    BY <1>2, <2>1, SumSame, QuotaAssumption
<1> HIDE DEF m
<1> QED
  BY <1>0, <1>1, <1>2, <1>3, <1>5, <1>6, <1>7

\* Between requests the counter is the recount of the rows, for any writers, paths and
\* sizes, while no two requests meet on a path and no update that raises it fails: or
\* more, where paths have shared a blob, a delete has kept its bytes (its count or the
\* deletion of the object failed, store.go:494) or its counter update was lost.
THEOREM CountedOnceSafe == Spec => []CountedOnce
<1>1. Init => QInv /\ CInv
  <2>1. Init => HistoryOK
    BY DEF Init, HistoryOK
  <2> QED
    BY <2>1, InitEstablishes, RepoInit, CInitially DEF QInv
<1>2. (QInv /\ CInv) /\ [Next]_vars => (QInv /\ CInv)'
  BY NextPreserves, HistoryType, RepoNext, CountsNext DEF QInv
<1>3. QInv /\ CInv => CountedOnce
  BY RecountBelow DEF CountedOnce, Sure, Exact
<1> QED
  BY <1>1, <1>2, <1>3, PTL DEF Spec
=============================================================================
