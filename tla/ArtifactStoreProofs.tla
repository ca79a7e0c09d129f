------------------------ MODULE ArtifactStoreProofs ------------------------
(***************************************************************************)
(* The blob-key lock does what the deleting handlers rely on, for any      *)
(* number of workers, paths and contents: see UncontestedRowsHaveBytes.    *)
(***************************************************************************)
EXTENDS ArtifactStore, TLAPS

Uploaders == {"stored", "alias"}
Removers == {"delCount", "delRow", "delLastRow", "delBlob", "clnCount"}
Holders == {"delCheck", "delCount", "delRow", "delLastRow", "delBlob",
            "clnRow", "clnCount", "mntExists", "mntRegister"}

-----------------------------------------------------------------------------
(* The inductive invariant                                                 *)

\* The locals a step reads are set.
JobShape ==
    \A w \in Workers :
        /\ job[w].pc # "idle" => job[w].path \in Paths /\ job[w].key \in Keys
        /\ job[w].pc \in Uploaders => job[w].data \in Contents
        /\ job[w].pc \notin Uploaders \cup {"idle"} => job[w].snap \in Row

\* A worker in a critical section holds the lock of its key.
LockHeld == \A w \in Workers : job[w].pc \in Holders => lock[job[w].key] = w

\* Ids are never reused.
FreshIds ==
    /\ \A p \in Paths : row[p] # None => row[p].id < clock
    /\ \A w \in Workers : job[w].snap # None => job[w].snap.id < clock

\* An upload and a removal under way on one key are on record.
OverlapRecorded ==
    \A v, w \in Workers :
        /\ job[v].pc \in Uploaders
        /\ job[w].pc \in Removers
        /\ job[v].key = job[w].key
        => job[v].key \in contested

\* An upload's bytes, and those a mount has seen, are still there.
BytesReady ==
    \A w \in Workers :
        job[w].pc \in Uploaders \cup {"mntRegister"} =>
            blob[job[w].key] # None \/ job[w].key \in contested

\* A remover that is going to take the bytes knows of every row on its key.
LastReference ==
    \A w \in Workers :
        \/ job[w].key \in contested
        \/ /\ job[w].pc = "delLastRow" =>
                \A p \in Paths :
                    row[p] # None /\ row[p].key = job[w].key => row[p].id = job[w].snap.id
           /\ job[w].pc = "delBlob" =>
                \A p \in Paths : row[p] # None => row[p].key # job[w].key

\* A cleanup's conditional delete removed the row it had read.
CleanedRowGone ==
    \A w \in Workers : job[w].pc = "clnCount" =>
        \A p \in Paths : row[p] # None => row[p].id # job[w].snap.id

IInv ==
    /\ TypeOK
    /\ JobShape
    /\ LockHeld
    /\ FreshIds
    /\ OverlapRecorded
    /\ BytesReady
    /\ LastReference
    /\ CleanedRowGone
    /\ UncontestedRowsHaveBytes

-----------------------------------------------------------------------------
(* What the helpers do                                                     *)

\* Track only adds keys; it adds every key an upload and a removal share.
LEMMA TrackRecords ==
    ASSUME Track, JobShape'
    PROVE  contested \subseteq contested' /\ OverlapRecorded'
<1>1. contested \subseteq contested'
  BY DEF Track
<1>2. ASSUME NEW v \in Workers, NEW w \in Workers, NEW k \in Keys,
             job'[v].pc \in Uploaders, job'[w].pc \in Removers,
             job'[v].key = k, job'[w].key = k
      PROVE  k \in contested'
  <2>1. Uploading(k)'
    BY <1>2 DEF Uploading, Uploaders
  <2>2. Removing(k)'
    BY <1>2 DEF Removing, RemoverOf, Removers
  <2> QED
    BY <2>1, <2>2 DEF Track, Contested
<1> QED
  BY <1>1, <1>2 DEF OverlapRecorded, JobShape, Uploaders

\* Track keeps contested a set of keys.
LEMMA TrackType ==
    ASSUME TypeOK, Track
    PROVE  contested' \subseteq Keys
BY DEF TypeOK, Track

\* Goto changes one worker's step and nothing else about it.
LEMMA GotoJob ==
    ASSUME job \in [Workers -> Job], NEW w \in Workers, NEW l \in PC, Goto(w, l)
    PROVE  /\ job' \in [Workers -> Job]
           /\ job'[w].pc = l
           /\ job'[w].path = job[w].path /\ job'[w].key = job[w].key
           /\ job'[w].data = job[w].data /\ job'[w].snap = job[w].snap
           /\ \A v \in Workers \ {w} : job'[v] = job[v]
BY DEF Goto, Job

\* End forgets one worker's locals.
LEMMA EndJob ==
    ASSUME job \in [Workers -> Job], NEW w \in Workers, End(w)
    PROVE  /\ job' \in [Workers -> Job]
           /\ job'[w].pc = "idle" /\ job'[w].snap = None /\ job'[w].key = None
           /\ \A v \in Workers \ {w} : job'[v] = job[v]
BY DEF End, Idle, Job, PC

\* An upsert writes one row, with a fresh id or the one it had.
LEMMA UpsertRow ==
    ASSUME TypeOK, NEW p \in Paths, NEW k \in Keys, NEW c \in Contents, Upsert(p, k, c)
    PROVE  /\ row' \in [Paths -> Row \cup {None}]
           /\ clock' \in 0 .. MaxClock /\ clock' = clock + 1
           /\ leaked' \subseteq Keys
           /\ row'[p] \in Row
           /\ row'[p].key = k
           /\ row[p] = None => row'[p].id = clock
           /\ row[p] # None => row'[p].id = row[p].id
           /\ \A q \in Paths \ {p} : row'[q] = row[q]
<1> DEFINE new == [id   |-> IF row[p] = None THEN clock ELSE row[p].id,
                   key  |-> k,
                   sha  |-> c,
                   mod  |-> clock,
                   seen |-> IF row[p] = None THEN 0 ELSE row[p].seen]
<1>1. clock \in Nat /\ clock' = clock + 1 /\ clock' \in 0 .. MaxClock
  BY ClockAssumption DEF TypeOK, Upsert
<1>2. row[p] # None => row[p] \in Row /\ row[p].id \in Nat /\ row[p].key \in Keys /\ row[p].seen \in Nat
  BY DEF TypeOK, Row
<1>3. new \in Row
  BY <1>1, <1>2 DEF Row
<1>4. row' = [row EXCEPT ![p] = new]
  BY DEF Upsert
<1>5. row' \in [Paths -> Row \cup {None}] /\ row'[p] = new
      /\ \A q \in Paths \ {p} : row'[q] = row[q]
  BY <1>3, <1>4 DEF TypeOK
<1>6. leaked' \subseteq Keys
  BY <1>2 DEF Upsert, TypeOK
<1> QED
  BY <1>1, <1>3, <1>5, <1>6

\* A delete by id leaves the other rows as they are.
LEMMA DeletedRows ==
    ASSUME TypeOK, NEW id, DeleteById(id)
    PROVE  /\ row' \in [Paths -> Row \cup {None}]
           /\ \A p \in Paths : row'[p] # None => row'[p] = row[p] /\ row[p].id # id
BY DEF TypeOK, DeleteById

-----------------------------------------------------------------------------
(* Steps that leave the two stores alone                                   *)

\* A worker moves on inside its critical section.
LEMMA MovePreserves ==
    ASSUME IInv, NEW w \in Workers, NEW l \in Holders \ {"clnCount"}, Goto(w, l), Track,
           job[w].pc \in Holders,
           UNCHANGED <<row, blob, lock, clock>>, leaked' \subseteq Keys,
           l = "delLastRow" =>
               \A p \in Paths :
                   row[p] # None /\ row[p].key = job[w].key => row[p].id = job[w].snap.id,
           l = "delBlob" => \A p \in Paths : row[p] # None => row[p].key # job[w].key,
           l = "mntRegister" => blob[job[w].key] # None
    PROVE  IInv'
<1> USE DEF Uploaders, Removers, Holders
<1>0. TypeOK /\ JobShape /\ LockHeld /\ FreshIds
  BY DEF IInv
<1>1. /\ job' \in [Workers -> Job]
      /\ job'[w].pc = l
      /\ job'[w].path = job[w].path /\ job'[w].key = job[w].key /\ job'[w].snap = job[w].snap
      /\ \A v \in Workers \ {w} : job'[v] = job[v]
  BY <1>0, GotoJob DEF TypeOK, PC
<1>2. TypeOK'
  BY <1>0, <1>1, TrackType DEF TypeOK
<1>3. JobShape'
  BY <1>0, <1>1 DEF JobShape
<1>4. contested \subseteq contested' /\ OverlapRecorded'
  BY <1>3, TrackRecords
<1>5. LockHeld'
  BY <1>0, <1>1 DEF LockHeld
<1>6. FreshIds'
  BY <1>0, <1>1 DEF FreshIds
<1>7. BytesReady'
  BY <1>1, <1>4 DEF IInv, BytesReady
<1>8. LastReference'
  BY <1>1, <1>4 DEF IInv, LastReference
<1>9. CleanedRowGone'
  BY <1>1 DEF IInv, CleanedRowGone
<1>10. UncontestedRowsHaveBytes'
  BY <1>4 DEF IInv, UncontestedRowsHaveBytes
<1> QED
  BY <1>2, <1>3, <1>4, <1>5, <1>6, <1>7, <1>8, <1>9, <1>10 DEF IInv

\* A worker ends, giving up the lock if it holds one.
LEMMA EndPreserves ==
    ASSUME IInv, NEW w \in Workers, End(w), Track, UNCHANGED <<row, blob, clock>>,
           leaked' \subseteq Keys,
           \/ lock' = lock
           \/ job[w].pc \in Holders /\ lock' = [lock EXCEPT ![job[w].key] = None]
    PROVE  IInv'
<1> USE DEF Uploaders, Removers, Holders
<1>0. TypeOK /\ JobShape /\ LockHeld /\ FreshIds
  BY DEF IInv
<1>1. /\ job' \in [Workers -> Job]
      /\ job'[w].pc = "idle" /\ job'[w].snap = None
      /\ \A v \in Workers \ {w} : job'[v] = job[v]
  BY <1>0, EndJob DEF TypeOK
<1>2. TypeOK'
  BY <1>0, <1>1, TrackType DEF TypeOK
<1>3. JobShape'
  BY <1>0, <1>1 DEF JobShape
<1>4. contested \subseteq contested' /\ OverlapRecorded'
  BY <1>3, TrackRecords
<1>5. LockHeld'
  BY <1>0, <1>1 DEF LockHeld, JobShape, TypeOK
<1>6. FreshIds'
  BY <1>0, <1>1 DEF FreshIds
<1>7. BytesReady'
  BY <1>1, <1>4 DEF IInv, BytesReady
<1>8. LastReference'
  BY <1>1, <1>4 DEF IInv, LastReference
<1>9. CleanedRowGone'
  BY <1>1 DEF IInv, CleanedRowGone
<1>10. UncontestedRowsHaveBytes'
  BY <1>4 DEF IInv, UncontestedRowsHaveBytes
<1> QED
  BY <1>2, <1>3, <1>4, <1>5, <1>6, <1>7, <1>8, <1>9, <1>10 DEF IInv

-----------------------------------------------------------------------------
(* Uploads                                                                 *)

\* Storing an object puts its bytes where the upload will name them.
LEMMA UploadPutPreserves ==
    ASSUME IInv, NEW w \in Workers, NEW p \in Paths, NEW c \in Contents, UploadPut(w, p, c)
    PROVE  IInv'
<1> USE DEF Uploaders, Removers, Holders
<1>0. TypeOK /\ JobShape /\ LockHeld /\ FreshIds
  BY DEF IInv
<1>1. /\ job' = [job EXCEPT ![w] = [pc |-> "stored", path |-> p, key |-> p,
                                   data |-> c, snap |-> None]]
      /\ blob' = [blob EXCEPT ![p] = c]
      /\ UNCHANGED <<row, lock, clock, leaked>> /\ Track /\ p \in Keys /\ c # None
  BY NoneAssumption DEF UploadPut, BlobKey, Keys
<1>2. TypeOK'
  BY <1>0, <1>1, TrackType DEF TypeOK, Job, PC
<1>3. JobShape'
  BY <1>0, <1>1 DEF JobShape, TypeOK
<1>4. contested \subseteq contested' /\ OverlapRecorded'
  BY <1>1, <1>3, TrackRecords
<1>5. LockHeld'
  BY <1>0, <1>1 DEF LockHeld, TypeOK
<1>6. FreshIds'
  BY <1>0, <1>1 DEF FreshIds, TypeOK
<1>7. BytesReady'
  BY <1>0, <1>1, <1>4 DEF IInv, BytesReady, TypeOK
<1>8. LastReference'
  BY <1>0, <1>1, <1>4 DEF IInv, LastReference, TypeOK
<1>9. CleanedRowGone'
  BY <1>0, <1>1 DEF IInv, CleanedRowGone, TypeOK
<1>10. UncontestedRowsHaveBytes'
  BY <1>0, <1>1, <1>4 DEF IInv, UncontestedRowsHaveBytes, TypeOK
<1> QED
  BY <1>2, <1>3, <1>4, <1>5, <1>6, <1>7, <1>8, <1>9, <1>10 DEF IInv

\* An upload that takes its own object away puts the key on record.
LEMMA WithdrawPreserves ==
    ASSUME IInv, NEW w \in Workers, job[w].pc = "stored", End(w), Track,
           blob' = [blob EXCEPT ![job[w].key] = None],
           UNCHANGED <<row, lock, clock, leaked>>
    PROVE  IInv'
<1> USE DEF Uploaders, Removers, Holders
<1>0. TypeOK /\ JobShape /\ LockHeld /\ FreshIds
  BY DEF IInv
<1>1. /\ job' \in [Workers -> Job]
      /\ job'[w].pc = "idle" /\ job'[w].snap = None
      /\ \A v \in Workers \ {w} : job'[v] = job[v]
  BY <1>0, EndJob DEF TypeOK
<1>2. TypeOK'
  BY <1>0, <1>1, TrackType DEF TypeOK
<1>3. JobShape'
  BY <1>0, <1>1 DEF JobShape
<1>4. contested \subseteq contested' /\ OverlapRecorded'
  BY <1>3, TrackRecords
<1>a. job[w].key \in contested'
  <2>1. job[w].key \in Keys /\ blob'[job[w].key] = None
    BY <1>0 DEF JobShape, TypeOK
  <2>2. Uploading(job[w].key)
    BY DEF Uploading
  <2> QED
    BY <2>1, <2>2 DEF Track, Contested
<1>5. LockHeld'
  BY <1>0, <1>1 DEF LockHeld
<1>6. FreshIds'
  BY <1>0, <1>1 DEF FreshIds
<1>7. BytesReady'
  BY <1>0, <1>1, <1>4, <1>a DEF IInv, BytesReady, TypeOK, JobShape
<1>8. LastReference'
  BY <1>1, <1>4 DEF IInv, LastReference
<1>9. CleanedRowGone'
  BY <1>1 DEF IInv, CleanedRowGone
<1>10. UncontestedRowsHaveBytes'
  BY <1>0, <1>4, <1>a DEF IInv, UncontestedRowsHaveBytes, TypeOK, Row
<1> QED
  BY <1>2, <1>3, <1>4, <1>5, <1>6, <1>7, <1>8, <1>9, <1>10 DEF IInv

\* A row registered on a key whose bytes are ready, by a worker that either is
\* an uploader or holds the key's lock.
LEMMA RegisterPreserves ==
    ASSUME IInv, NEW w \in Workers, NEW p \in Paths, NEW c \in Contents,
           job[w].pc \in Uploaders \cup {"mntRegister"},
           Upsert(p, job[w].key, c), Track, UNCHANGED blob,
           \/ /\ job[w].pc \in Uploaders
              /\ lock' = lock
              /\ Goto(w, "alias") \/ End(w)
           \/ /\ job[w].pc = "mntRegister"
              /\ lock' = [lock EXCEPT ![job[w].key] = None]
              /\ End(w)
    PROVE  IInv'
<1> USE DEF Uploaders, Removers, Holders
<1>0. TypeOK /\ JobShape /\ LockHeld /\ FreshIds
  BY DEF IInv
<1>a. job[w].key \in Keys
  BY <1>0 DEF JobShape
<1>b. /\ row' \in [Paths -> Row \cup {None}]
      /\ clock' \in 0 .. MaxClock /\ clock' = clock + 1 /\ clock \in Nat
      /\ leaked' \subseteq Keys
      /\ row'[p] \in Row
      /\ row'[p].key = job[w].key
      /\ row[p] = None => row'[p].id = clock
      /\ row[p] # None => row'[p].id = row[p].id
      /\ \A q \in Paths \ {p} : row'[q] = row[q]
  BY <1>0, <1>a, UpsertRow DEF TypeOK
<1>1. /\ job' \in [Workers -> Job]
      /\ \/ job'[w].pc = "idle" /\ job'[w].snap = None
         \/ /\ job'[w].pc = "alias" /\ job[w].pc \in Uploaders
            /\ job'[w].path = job[w].path /\ job'[w].key = job[w].key
            /\ job'[w].data = job[w].data /\ job'[w].snap = job[w].snap
      /\ \A v \in Workers \ {w} : job'[v] = job[v]
  BY <1>0, GotoJob, EndJob DEF TypeOK, PC
<1>2. TypeOK'
  BY <1>0, <1>b, <1>1, TrackType DEF TypeOK
<1>3. JobShape'
  BY <1>0, <1>1 DEF JobShape
<1>4. contested \subseteq contested' /\ OverlapRecorded'
  BY <1>3, TrackRecords
<1>5. LockHeld'
  BY <1>0, <1>1 DEF LockHeld, TypeOK, JobShape
<1>c. \A v \in Workers : job[v].snap # None => job[v].snap.id \in Nat
  BY <1>0 DEF TypeOK, Job, Row
<1>d. \A q \in Paths : row[q] # None => row[q].id \in Nat
  BY <1>0 DEF TypeOK, Row
<1>6. FreshIds'
  BY <1>0, <1>b, <1>c, <1>d, <1>1 DEF FreshIds
<1>7. BytesReady'
  BY <1>1, <1>4 DEF IInv, BytesReady
<1>e. \A v \in Workers \ {w} :
          job[v].pc \in {"delLastRow", "delBlob"} /\ job[v].key = job[w].key
            => job[v].key \in contested
  BY <1>0 DEF IInv, OverlapRecorded, LockHeld
<1>8. LastReference'
  BY <1>b, <1>1, <1>4, <1>e DEF IInv, LastReference
<1>9. CleanedRowGone'
  BY <1>0, <1>b, <1>c, <1>1, NoneAssumption DEF IInv, CleanedRowGone, FreshIds, JobShape
<1>10. UncontestedRowsHaveBytes'
  BY <1>b, <1>4 DEF IInv, UncontestedRowsHaveBytes, BytesReady
<1> QED
  BY <1>2, <1>3, <1>4, <1>5, <1>6, <1>7, <1>8, <1>9, <1>10 DEF IInv

\* StoreArtifact's later steps and the digest alias.
LEMMA UploadPreserves ==
    ASSUME IInv, NEW w \in Workers, Upload(w)
    PROVE  IInv'
<1>0. TypeOK /\ JobShape
  BY DEF IInv
<1>1. CASE UploadReject(w)
  BY <1>1, WithdrawPreserves DEF UploadReject
<1>2. CASE UploadFail(w)
  BY <1>0, <1>2, EndPreserves DEF UploadFail, JobShape, TypeOK, Uploaders
<1>3. CASE UploadRegister(w)
  <2>1. job[w].path \in Paths /\ job[w].data \in Contents
    BY <1>0, <1>3 DEF UploadRegister, JobShape, Uploaders
  <2>2. CASE job[w].path \in Tags
    BY <1>3, <2>1, <2>2, RegisterPreserves DEF UploadRegister, Uploaders
  <2>3. CASE job[w].path \notin Tags
    BY <1>3, <2>1, <2>3, RegisterPreserves DEF UploadRegister, Uploaders
  <2> QED
    BY <2>2, <2>3
<1>4. CASE UploadAlias(w)
  <2>1. job[w].data \in Contents /\ job[w].data \in Paths
    BY <1>0, <1>4 DEF UploadAlias, JobShape, Uploaders, Paths
  <2>2. CASE Upsert(job[w].data, job[w].key, job[w].data)
    BY <1>4, <2>1, <2>2, RegisterPreserves DEF UploadAlias, Uploaders
  <2>3. CASE UNCHANGED <<row, clock, leaked>>
    BY <1>0, <1>4, <2>3, EndPreserves DEF UploadAlias, TypeOK
  <2> QED
    BY <1>4, <2>2, <2>3 DEF UploadAlias
<1> QED
  BY <1>1, <1>2, <1>3, <1>4 DEF Upload

-----------------------------------------------------------------------------
(* Deletes, cleanups and mounts                                            *)

\* The unlocked first read takes a copy of the row.
LEMMA ReadFirstPreserves ==
    ASSUME IInv, NEW w \in Workers, NEW p \in Paths,
           NEW next \in {"delLock", "clnLock", "mntLock"}, ReadFirst(w, p, next)
    PROVE  IInv'
<1> USE DEF Uploaders, Removers, Holders
<1>0. TypeOK /\ JobShape /\ LockHeld /\ FreshIds
  BY DEF IInv
<1>1. /\ job' = [job EXCEPT ![w] = [pc |-> next, path |-> p, key |-> row[p].key,
                                   data |-> None, snap |-> row[p]]]
      /\ row[p] # None /\ row[p] \in Row /\ row[p].key \in Keys
      /\ UNCHANGED <<row, blob, lock, clock, leaked>> /\ Track
  BY <1>0 DEF ReadFirst, TypeOK, Row
<1>2. TypeOK'
  BY <1>0, <1>1, TrackType DEF TypeOK, Job, PC
<1>3. JobShape'
  BY <1>0, <1>1 DEF JobShape, TypeOK
<1>4. contested \subseteq contested' /\ OverlapRecorded'
  BY <1>1, <1>3, TrackRecords
<1>5. LockHeld'
  BY <1>0, <1>1 DEF LockHeld, TypeOK
<1>6. FreshIds'
  BY <1>0, <1>1 DEF FreshIds, TypeOK
<1>7. BytesReady'
  BY <1>0, <1>1, <1>4 DEF IInv, BytesReady, TypeOK
<1>8. LastReference'
  BY <1>0, <1>1, <1>4 DEF IInv, LastReference, TypeOK
<1>9. CleanedRowGone'
  BY <1>0, <1>1 DEF IInv, CleanedRowGone, TypeOK
<1>10. UncontestedRowsHaveBytes'
  BY <1>1, <1>4 DEF IInv, UncontestedRowsHaveBytes
<1> QED
  BY <1>2, <1>3, <1>4, <1>5, <1>6, <1>7, <1>8, <1>9, <1>10 DEF IInv

\* Taking a free lock admits one worker to the critical section of its key.
LEMMA TakeLockPreserves ==
    ASSUME IInv, NEW w \in Workers, NEW from \in {"delLock", "clnLock", "mntLock"},
           NEW next \in {"delCheck", "clnRow", "mntExists"}, TakeLock(w, from, next)
    PROVE  IInv'
<1> USE DEF Uploaders, Removers, Holders
<1>0. TypeOK /\ JobShape /\ LockHeld /\ FreshIds
  BY DEF IInv
<1>a. job[w].key \in Keys /\ lock[job[w].key] = None /\ None \notin Workers
  BY <1>0, NoneAssumption DEF TakeLock, Acquire, JobShape
<1>b. lock' = [lock EXCEPT ![job[w].key] = w] /\ UNCHANGED <<row, blob, clock, leaked>> /\ Track
  BY DEF TakeLock, Acquire
<1>1. /\ job' \in [Workers -> Job]
      /\ job'[w].pc = next /\ job[w].pc = from
      /\ job'[w].path = job[w].path /\ job'[w].key = job[w].key /\ job'[w].snap = job[w].snap
      /\ \A v \in Workers \ {w} : job'[v] = job[v]
  BY <1>0, GotoJob DEF TypeOK, PC, TakeLock
<1>2. TypeOK'
  BY <1>0, <1>1, <1>b, TrackType DEF TypeOK
<1>3. JobShape'
  BY <1>0, <1>1 DEF JobShape
<1>4. contested \subseteq contested' /\ OverlapRecorded'
  BY <1>b, <1>3, TrackRecords
<1>5. LockHeld'
  BY <1>0, <1>1, <1>a, <1>b DEF LockHeld, TypeOK
<1>6. FreshIds'
  BY <1>0, <1>1, <1>b DEF FreshIds
<1>7. BytesReady'
  BY <1>1, <1>4, <1>b DEF IInv, BytesReady
<1>8. LastReference'
  BY <1>1, <1>4, <1>b DEF IInv, LastReference
<1>9. CleanedRowGone'
  BY <1>1, <1>b DEF IInv, CleanedRowGone
<1>10. UncontestedRowsHaveBytes'
  BY <1>4, <1>b DEF IInv, UncontestedRowsHaveBytes
<1> QED
  BY <1>2, <1>3, <1>4, <1>5, <1>6, <1>7, <1>8, <1>9, <1>10 DEF IInv

\* Deleting rows by id: the lock is kept, with the bytes to follow or to be
\* counted, or given up.
LEMMA DeleteRowPreserves ==
    ASSUME IInv, NEW w \in Workers, DeleteById(job[w].snap.id), Track,
           UNCHANGED <<blob, clock, leaked>>,
           \/ job[w].pc = "delRow" /\ LeaveLock(w)
           \/ job[w].pc = "delLastRow" /\ Goto(w, "delBlob") /\ UNCHANGED lock
           \/ job[w].pc = "clnRow" /\ Goto(w, "clnCount") /\ UNCHANGED lock
    PROVE  IInv'
<1> USE DEF Uploaders, Removers, Holders
<1>0. TypeOK /\ JobShape /\ LockHeld /\ FreshIds
  BY DEF IInv
<1>a. /\ row' \in [Paths -> Row \cup {None}]
      /\ \A p \in Paths : row'[p] # None => row'[p] = row[p] /\ row[p].id # job[w].snap.id
  BY <1>0, DeletedRows
<1>1. /\ job' \in [Workers -> Job]
      /\ \/ job'[w].pc = "idle" /\ job'[w].snap = None
         \/ /\ \/ job[w].pc = "delLastRow" /\ job'[w].pc = "delBlob"
               \/ job[w].pc = "clnRow" /\ job'[w].pc = "clnCount"
            /\ job'[w].path = job[w].path /\ job'[w].key = job[w].key
            /\ job'[w].snap = job[w].snap
      /\ \A v \in Workers \ {w} : job'[v] = job[v]
  BY <1>0, GotoJob, EndJob DEF TypeOK, PC, LeaveLock
<1>b. \/ lock' = lock
      \/ /\ job[w].pc \in Holders /\ job'[w].pc = "idle"
         /\ lock' = [lock EXCEPT ![job[w].key] = None]
  BY <1>0, EndJob DEF LeaveLock, Release, TypeOK
<1>2. TypeOK'
  BY <1>0, <1>1, <1>a, <1>b, TrackType DEF TypeOK
<1>3. JobShape'
  BY <1>0, <1>1 DEF JobShape
<1>4. contested \subseteq contested' /\ OverlapRecorded'
  BY <1>3, TrackRecords
<1>5. LockHeld'
  BY <1>0, <1>1, <1>b DEF LockHeld, TypeOK, JobShape
<1>6. FreshIds'
  BY <1>0, <1>1, <1>a DEF FreshIds
<1>7. BytesReady'
  BY <1>1, <1>4 DEF IInv, BytesReady
<1>8. LastReference'
  BY <1>1, <1>4, <1>a DEF IInv, LastReference
<1>9. CleanedRowGone'
  BY <1>1, <1>a DEF IInv, CleanedRowGone
<1>10. UncontestedRowsHaveBytes'
  BY <1>4, <1>a DEF IInv, UncontestedRowsHaveBytes
<1> QED
  BY <1>2, <1>3, <1>4, <1>5, <1>6, <1>7, <1>8, <1>9, <1>10 DEF IInv

\* The bytes go only when no row names them.
LEMMA DeleteBlobPreserves ==
    ASSUME IInv, NEW w \in Workers, DeleteBlob(w)
    PROVE  IInv'
<1> USE DEF Uploaders, Removers, Holders
<1>0. TypeOK /\ JobShape /\ LockHeld /\ FreshIds
  BY DEF IInv
<1>a. CASE UNCHANGED blob
  <2>1. leaked' \subseteq Keys
    BY <1>0, <1>a DEF DeleteBlob, TypeOK, JobShape
  <2> QED
    BY <1>a, <2>1, EndPreserves DEF DeleteBlob, LeaveLock, Release
<1>b. CASE blob' = [blob EXCEPT ![job[w].key] = None] /\ UNCHANGED leaked
  <2>a. /\ job[w].pc = "delBlob" /\ job[w].key \in Keys /\ Track
        /\ UNCHANGED <<row, clock>> /\ lock' = [lock EXCEPT ![job[w].key] = None]
    BY <1>0 DEF DeleteBlob, LeaveLock, Release, JobShape
  <2>1. /\ job' \in [Workers -> Job]
        /\ job'[w].pc = "idle" /\ job'[w].snap = None
        /\ \A v \in Workers \ {w} : job'[v] = job[v]
    BY <1>0, EndJob DEF TypeOK, DeleteBlob, LeaveLock
  <2>2. TypeOK'
    BY <1>0, <1>b, <2>1, <2>a, TrackType DEF TypeOK
  <2>3. JobShape'
    BY <1>0, <2>1 DEF JobShape
  <2>4. contested \subseteq contested' /\ OverlapRecorded'
    BY <2>3, <2>a, TrackRecords
  <2>5. LockHeld'
    BY <1>0, <2>1, <2>a DEF LockHeld, TypeOK, JobShape
  <2>6. FreshIds'
    BY <1>0, <2>1, <2>a DEF FreshIds
  <2>b. \A v \in Workers \ {w} :
            job[v].pc \in Uploaders \cup {"mntRegister"} /\ job[v].key = job[w].key
              => job[v].key \in contested
    BY <1>0, <2>a DEF IInv, OverlapRecorded, LockHeld
  <2>7. BytesReady'
    BY <1>0, <1>b, <2>1, <2>4, <2>b DEF IInv, BytesReady, TypeOK, JobShape
  <2>8. LastReference'
    BY <2>1, <2>4, <2>a DEF IInv, LastReference
  <2>9. CleanedRowGone'
    BY <2>1, <2>a DEF IInv, CleanedRowGone
  <2>c. \A p \in Paths : row[p] # None => row[p].key \in Keys
    BY <1>0 DEF TypeOK, Row
  <2>10. UncontestedRowsHaveBytes'
    BY <1>0, <1>b, <2>4, <2>a, <2>c DEF IInv, UncontestedRowsHaveBytes, LastReference, TypeOK
  <2> QED
    BY <2>2, <2>3, <2>4, <2>5, <2>6, <2>7, <2>8, <2>9, <2>10 DEF IInv
<1> QED
  BY <1>a, <1>b DEF DeleteBlob

\* The critical section of DeleteArtifact.
LEMMA DeletePreserves ==
    ASSUME IInv, NEW w \in Workers, Delete(w)
    PROVE  IInv'
<1> USE DEF Holders
<1>0. TypeOK /\ JobShape
  BY DEF IInv
<1>a. leaked \subseteq Keys /\ (job[w].pc # "idle" => job[w].key \in Keys)
  BY <1>0 DEF TypeOK, JobShape
<1>1. CASE DeleteCheck(w)
  <2>1. CASE Goto(w, "delCount") /\ UNCHANGED lock
    BY <1>1, <2>1, <1>a, MovePreserves DEF DeleteCheck
  <2>2. CASE LeaveLock(w)
    BY <1>1, <2>2, <1>a, EndPreserves DEF DeleteCheck, LeaveLock, Release
  <2> QED
    BY <1>1, <2>1, <2>2 DEF DeleteCheck
<1>2. CASE DeleteCount(w)
  <2>1. CASE Others(job[w].key, job[w].snap.id) = {} /\ Goto(w, "delLastRow") /\ UNCHANGED leaked
    <3>1. \A p \in Paths :
              row[p] # None /\ row[p].key = job[w].key => row[p].id = job[w].snap.id
      BY <2>1 DEF Others
    <3> QED
      BY <1>2, <2>1, <3>1, <1>a, MovePreserves DEF DeleteCount
  <2>2. CASE Goto(w, "delRow")
    <3>1. leaked' \subseteq Keys
      BY <1>2, <1>a DEF DeleteCount
    <3> QED
      BY <1>2, <2>2, <3>1, MovePreserves DEF DeleteCount
  <2> QED
    BY <1>2, <2>1, <2>2 DEF DeleteCount
<1>3. CASE DeleteRow(w)
  BY <1>3, DeleteRowPreserves DEF DeleteRow
<1>4. CASE DeleteLastRow(w)
  BY <1>4, DeleteRowPreserves DEF DeleteLastRow
<1>5. CASE DeleteBlob(w)
  BY <1>5, DeleteBlobPreserves
<1> QED
  BY <1>1, <1>2, <1>3, <1>4, <1>5 DEF Delete

\* The critical section of a cleanup, up to the shared delete of the bytes.
LEMMA CleanupPreserves ==
    ASSUME IInv, NEW w \in Workers, Cleanup(w)
    PROVE  IInv'
<1> USE DEF Holders
<1>0. TypeOK /\ JobShape
  BY DEF IInv
<1>a. leaked \subseteq Keys /\ (job[w].pc # "idle" => job[w].key \in Keys)
  BY <1>0 DEF TypeOK, JobShape
<1>1. CASE CleanupRow(w)
  <2>1. CASE Unchanged(job[w].path, job[w].snap)
    BY <1>1, <2>1, DeleteRowPreserves DEF CleanupRow
  <2>2. CASE ~Unchanged(job[w].path, job[w].snap)
    BY <1>1, <2>2, <1>a, EndPreserves DEF CleanupRow, LeaveLock, Release
  <2> QED
    BY <2>1, <2>2
<1>2. CASE CleanupCount(w)
  <2>1. CASE Others(job[w].key, job[w].snap.id) = {} /\ Goto(w, "delBlob") /\ UNCHANGED <<lock, leaked>>
    <3>1. \A p \in Paths : row[p] # None => row[p].key # job[w].key
      BY <1>2, <2>1 DEF Others, CleanupCount, IInv, CleanedRowGone
    <3> QED
      BY <1>2, <2>1, <3>1, <1>a, MovePreserves DEF CleanupCount
  <2>2. CASE LeaveLock(w)
    <3>1. leaked' \subseteq Keys
      BY <1>2, <1>a DEF CleanupCount
    <3> QED
      BY <1>2, <2>2, <3>1, EndPreserves DEF CleanupCount, LeaveLock, Release
  <2> QED
    BY <1>2, <2>1, <2>2 DEF CleanupCount
<1> QED
  BY <1>1, <1>2 DEF Cleanup

\* The critical section of a mount.
LEMMA MountPreserves ==
    ASSUME IInv, NEW w \in Workers, Mount(w)
    PROVE  IInv'
<1> USE DEF Holders
<1>0. TypeOK /\ JobShape
  BY DEF IInv
<1>a. leaked \subseteq Keys
  BY <1>0 DEF TypeOK
<1>1. CASE MountExists(w)
  <2>1. CASE blob[job[w].key] # None
    BY <1>1, <2>1, <1>a, MovePreserves DEF MountExists
  <2>2. CASE blob[job[w].key] = None
    BY <1>1, <2>2, <1>a, EndPreserves DEF MountExists, LeaveLock, Release
  <2> QED
    BY <2>1, <2>2
<1>2. CASE MountRegister(w)
  <2>1. job[w].snap.sha \in Contents
    BY <1>0, <1>2 DEF MountRegister, JobShape, Row, Uploaders
  <2>2. ASSUME NEW m \in Mounts, Upsert(m, job[w].key, job[w].snap.sha)
        PROVE  IInv'
    <3>1. m \in Paths
      BY DEF Paths
    <3> QED
      BY <1>2, <2>1, <2>2, <3>1, RegisterPreserves DEF MountRegister, LeaveLock, Release
  <2>3. CASE UNCHANGED <<row, clock, leaked>>
    BY <1>2, <2>3, <1>a, EndPreserves DEF MountRegister, LeaveLock, Release
  <2> QED
    BY <1>2, <2>2, <2>3 DEF MountRegister
<1> QED
  BY <1>1, <1>2 DEF Mount

-----------------------------------------------------------------------------
(* Downloads and crashes                                                   *)

\* A download moves last_downloaded, which no part of the invariant reads.
LEMMA DownloadPreserves ==
    ASSUME IInv, NEW p \in Paths, Download(p)
    PROVE  IInv'
<1> USE DEF Uploaders, Removers, Holders
<1>0. TypeOK /\ JobShape /\ LockHeld /\ FreshIds
  BY DEF IInv
<1>1. /\ row[p] \in Row /\ clock \in Nat /\ clock' = clock + 1 /\ clock' \in 0 .. MaxClock
      /\ row' = [row EXCEPT ![p].seen = clock]
      /\ UNCHANGED <<blob, lock, job, leaked>> /\ Track
  BY <1>0, ClockAssumption DEF Download, TypeOK
<1>a. /\ row' \in [Paths -> Row \cup {None}]
      /\ row'[p] # None /\ row'[p].id = row[p].id /\ row'[p].key = row[p].key
      /\ \A q \in Paths \ {p} : row'[q] = row[q]
      /\ row[p] # None
  BY <1>0, <1>1, NoneAssumption DEF TypeOK, Row
<1>2. TypeOK'
  BY <1>0, <1>1, <1>a, TrackType DEF TypeOK
<1>3. JobShape'
  BY <1>0, <1>1 DEF JobShape
<1>4. contested \subseteq contested' /\ OverlapRecorded'
  BY <1>1, <1>3, TrackRecords
<1>5. LockHeld'
  BY <1>0, <1>1 DEF LockHeld
<1>b. /\ \A v \in Workers : job[v].snap # None => job[v].snap.id \in Nat
      /\ \A q \in Paths : row[q] # None => row[q].id \in Nat
  BY <1>0 DEF TypeOK, Job, Row
<1>6. FreshIds'
  BY <1>0, <1>1, <1>a, <1>b DEF FreshIds
<1>7. BytesReady'
  BY <1>1, <1>4 DEF IInv, BytesReady
<1>8. LastReference'
  BY <1>1, <1>4, <1>a DEF IInv, LastReference
<1>9. CleanedRowGone'
  BY <1>1, <1>a DEF IInv, CleanedRowGone
<1>10. UncontestedRowsHaveBytes'
  BY <1>1, <1>4, <1>a DEF IInv, UncontestedRowsHaveBytes
<1> QED
  BY <1>2, <1>3, <1>4, <1>5, <1>6, <1>7, <1>8, <1>9, <1>10 DEF IInv

\* A crash ends the request and frees its lock.
LEMMA CrashPreserves ==
    ASSUME IInv, NEW w \in Workers, Crash(w)
    PROVE  IInv'
<1>1. leaked' \subseteq Keys
  BY DEF IInv, TypeOK, JobShape, Crash
<1> QED
  BY <1>1, EndPreserves DEF Crash, Locked, Holders

-----------------------------------------------------------------------------
(* The theorems                                                            *)

\* No row names a key yet, so the invariant holds of an empty server.
LEMMA InitEstablishes == Init => IInv
<1> SUFFICES ASSUME Init PROVE IInv
  OBVIOUS
<1> USE DEF Init, Uploaders, Removers, Holders
<1>1. \A w \in Workers : job[w] = Idle /\ job[w].pc = "idle" /\ job[w].snap = None
  BY DEF Idle
<1>2. TypeOK
  BY ClockAssumption DEF TypeOK, Idle, Job, PC
<1>3. JobShape /\ LockHeld /\ OverlapRecorded /\ BytesReady
  BY <1>1 DEF JobShape, LockHeld, OverlapRecorded, BytesReady
<1>4. FreshIds /\ LastReference /\ CleanedRowGone /\ UncontestedRowsHaveBytes
  BY <1>1 DEF FreshIds, LastReference, CleanedRowGone, UncontestedRowsHaveBytes
<1> QED
  BY <1>2, <1>3, <1>4 DEF IInv

\* Every step preserves the invariant.
LEMMA NextPreserves == IInv /\ [Next]_vars => IInv'
<1> SUFFICES ASSUME IInv, [Next]_vars PROVE IInv'
  OBVIOUS
<1>1. ASSUME NEW w \in Workers, NEW p \in Paths, NEW c \in Contents, UploadPut(w, p, c)
      PROVE  IInv'
  BY <1>1, UploadPutPreserves
<1>2. ASSUME NEW w \in Workers, NEW p \in Paths, DeleteRead(w, p) \/ CleanupScan(w, p)
      PROVE  IInv'
  BY <1>2, ReadFirstPreserves DEF DeleteRead, CleanupScan
<1>3. ASSUME NEW w \in Workers, NEW c \in Layers, MountRead(w, c)
      PROVE  IInv'
  BY <1>3, ReadFirstPreserves DEF MountRead, Paths, Contents
<1>4. ASSUME NEW w \in Workers, GetLock(w)
      PROVE  IInv'
  BY <1>4, TakeLockPreserves DEF GetLock, DeleteLock, CleanupLock, MountLock
<1>5. ASSUME NEW w \in Workers, Advance(w)
      PROVE  IInv'
  BY <1>5, UploadPreserves, DeletePreserves, CleanupPreserves, MountPreserves DEF Advance
<1>6. ASSUME NEW w \in Workers, Crash(w)
      PROVE  IInv'
  BY <1>6, CrashPreserves
<1>7. ASSUME NEW p \in Paths, Download(p)
      PROVE  IInv'
  BY <1>7, DownloadPreserves
<1>8. CASE UNCHANGED vars
  BY <1>8 DEF vars, IInv, TypeOK, JobShape, LockHeld, FreshIds, OverlapRecorded, BytesReady,
              LastReference, CleanedRowGone, UncontestedRowsHaveBytes
<1> QED
  BY <1>1, <1>2, <1>3, <1>4, <1>5, <1>6, <1>7, <1>8 DEF Next

\* The inductive invariant holds in every reachable state.
THEOREM Invariance == Spec => []IInv
<1> QED
  BY InitEstablishes, NextPreserves, PTL DEF Spec

\* Type correctness of the two stores, the lock table and the workers.
THEOREM TypeCorrect == Spec => []TypeOK
<1>1. IInv => TypeOK
  BY DEF IInv
<1> QED
  BY Invariance, <1>1, PTL

\* DeleteArtifact, cleanup runs and mounts, with any number of workers on any
\* number of nodes and with crashes, never leave a row without its bytes,
\* unless an upload of the same key met the removal.
THEOREM RowsKeepTheirBytes == Spec => []UncontestedRowsHaveBytes
<1>1. IInv => UncontestedRowsHaveBytes
  BY DEF IInv
<1> QED
  BY Invariance, <1>1, PTL

\* Two workers are never in critical sections of one blob key.
THEOREM LockExclusion ==
    Spec => [](\A v, w \in Workers :
                 v # w /\ Locked(v) /\ Locked(w) => job[v].key # job[w].key)
<1>1. IInv => \A v, w \in Workers :
                 v # w /\ Locked(v) /\ Locked(w) => job[v].key # job[w].key
  BY DEF IInv, LockHeld, Locked, Holders
<1> QED
  BY Invariance, <1>1, PTL
-----------------------------------------------------------------------------
(* Removals and orphans: what a deleter knows about the version it read    *)

\* A snapshot is of the key the worker locks, and of a write in the past; no
\* row was written later than now.
SnapShape ==
    /\ \A w \in Workers : job[w].snap # None =>
            job[w].key = job[w].snap.key /\ job[w].snap.mod < clock
    /\ \A p \in Paths : row[p] # None => row[p].mod < clock

\* An id names one row, and a row with the id of a snapshot is the row that was read.
IdsName ==
    /\ \A p, q \in Paths : row[p] # None /\ row[q] # None /\ row[p].id = row[q].id => p = q
    /\ \A w \in Workers, p \in Paths :
            job[w].snap # None /\ row[p] # None /\ row[p].id = job[w].snap.id => p = job[w].path

\* last_modified tells the versions of a path apart.
VersionKnown ==
    \A w \in Workers, p \in Paths :
        /\ job[w].snap # None /\ p = job[w].path
        /\ row[p] # None /\ row[p].mod = job[w].snap.mod
        => /\ row[p].id = job[w].snap.id /\ row[p].key = job[w].snap.key
           /\ row[p].sha = job[w].snap.sha

\* After the re-read under the lock the row stays the version that was read,
\* unless a write to it is on record.
HeldVersion ==
    \A w \in Workers, p \in Paths :
        /\ job[w].pc \in {"delCount", "delRow", "delLastRow"} /\ p = job[w].path
        /\ row[p] # None /\ row[p].id = job[w].snap.id
        => row[p].mod = job[w].snap.mod \/ row[p].key \in contested

RemovalInv == SnapShape /\ IdsName /\ VersionKnown /\ HeldVersion

\* A deleter that leaves the bytes leaves them to another row.
OthersKept ==
    \A w \in Workers : job[w].pc = "delRow" =>
        \/ job[w].key \in leaked \cup contested
        \/ \E p \in Paths : /\ row[p] # None /\ row[p].key = job[w].key
                            /\ row[p].id # job[w].snap.id

\* An object no row names has a worker that will register or delete it.
OrphansOwned ==
    \A k \in Keys : blob[k] # None =>
        \/ k \in leaked \cup contested
        \/ \E p \in Paths : row[p] # None /\ row[p].key = k
        \/ \E w \in Workers : job[w].pc \in {"stored", "delBlob", "clnCount"} /\ job[w].key = k

OrphanInv == OthersKept /\ OrphansOwned

\* The steps of a deleter that follow the re-read of its row.
Rechecked == {"delCount", "delRow", "delLastRow"}

\* What an action does to the worker that takes it: it forgets its snapshot, or
\* keeps it and comes to a step behind the re-read only if the row matches.
Keeps(w) ==
    /\ \A v \in Workers \ {w} : job'[v] = job[v]
    /\ \/ job'[w].snap = None /\ job'[w].pc \notin Rechecked
       \/ /\ job'[w].path = job[w].path /\ job'[w].key = job[w].key
          /\ job'[w].snap = job[w].snap
          /\ job'[w].pc \in Rechecked =>
                \/ job[w].pc \in Rechecked
                \/ row[job[w].path] # None => row[job[w].path].mod = job[w].snap.mod

\* Goto and End are such steps.
LEMMA GotoKeeps ==
    ASSUME TypeOK, NEW w \in Workers, NEW l \in PC, Goto(w, l),
           l \in Rechecked =>
                \/ job[w].pc \in Rechecked
                \/ row[job[w].path] # None => row[job[w].path].mod = job[w].snap.mod
    PROVE  Keeps(w)
BY GotoJob DEF TypeOK, Keeps

LEMMA EndKeeps ==
    ASSUME TypeOK, NEW w \in Workers, End(w)
    PROVE  Keeps(w)
BY EndJob DEF TypeOK, Keeps, Rechecked

\* A step that writes no row: rows stay or go.
LEMMA KeepsRemovalInv ==
    ASSUME IInv, RemovalInv, NEW w \in Workers, Keeps(w), clock' = clock,
           contested \subseteq contested',
           \A p \in Paths : row'[p] # None => row'[p] = row[p]
    PROVE  RemovalInv'
<1> USE DEF Keeps, RemovalInv
<1>1. SnapShape'
  BY DEF SnapShape
<1>2. IdsName'
  BY DEF IdsName
<1>3. VersionKnown'
  BY DEF VersionKnown
<1>4. HeldVersion'
  BY DEF HeldVersion, Rechecked, VersionKnown
<1> QED
  BY <1>1, <1>2, <1>3, <1>4

\* Reading a row takes its version as the snapshot.
LEMMA ReadRemovalInv ==
    ASSUME IInv, RemovalInv, NEW w \in Workers, NEW p \in Paths,
           NEW next \in {"delLock", "clnLock", "mntLock"}, ReadFirst(w, p, next)
    PROVE  RemovalInv'
<1>0. TypeOK
  BY DEF IInv
<1>1. /\ row[p] # None /\ row' = row /\ clock' = clock
      /\ job'[w].pc = next /\ job'[w].path = p
      /\ job'[w].key = row[p].key /\ job'[w].snap = row[p]
      /\ \A v \in Workers \ {w} : job'[v] = job[v]
      /\ contested \subseteq contested'
  BY <1>0 DEF ReadFirst, TypeOK, Track
<1>2. SnapShape'
  BY <1>1 DEF RemovalInv, SnapShape
<1>3. IdsName'
  BY <1>1 DEF RemovalInv, IdsName
<1>4. VersionKnown'
  BY <1>1 DEF RemovalInv, VersionKnown
<1>5. HeldVersion'
  BY <1>1 DEF RemovalInv, HeldVersion
<1> QED
  BY <1>2, <1>3, <1>4, <1>5 DEF RemovalInv

\* A registration starts a new version of one path.  A removal of that path
\* under way shares the key with the upload, or sees the row change its key.
LEMMA UpsertRemovalInv ==
    ASSUME IInv, RemovalInv, NEW w \in Workers, NEW p \in Paths, NEW c \in Contents,
           job[w].pc \in Uploaders \cup {"mntRegister"},
           Upsert(p, job[w].key, c), Track, Keeps(w), job'[w].pc \notin Rechecked
    PROVE  RemovalInv'
<1> DEFINE k == job[w].key
<1>0. TypeOK /\ JobShape /\ LockHeld /\ FreshIds /\ OverlapRecorded
  BY DEF IInv
<1>1. k \in Keys
  BY <1>0 DEF JobShape, Uploaders
<1>2. /\ clock' = clock + 1 /\ clock \in Nat
      /\ row'[p] \in Row /\ row'[p].key = k
      /\ row[p] = None => row'[p].id = clock
      /\ row[p] # None => row'[p].id = row[p].id
      /\ \A q \in Paths \ {p} : row'[q] = row[q]
  BY <1>0, <1>1, UpsertRow DEF TypeOK
<1>3. row'[p].mod = clock
  BY <1>0 DEF Upsert, TypeOK
<1>4. contested \subseteq contested'
  BY DEF Track
<1>5. /\ \A v \in Workers : job[v].snap # None =>
              job[v].snap.id \in Nat /\ job[v].snap.mod \in Nat
      /\ \A q \in Paths : row[q] # None => row[q].id \in Nat /\ row[q].mod \in Nat
      /\ \A v \in Workers : job'[v].snap = None \/
              /\ job'[v].snap = job[v].snap /\ job'[v].path = job[v].path
              /\ job'[v].key = job[v].key
  BY <1>0 DEF TypeOK, Job, Row, Keeps
<1>6. SnapShape'
  BY <1>2, <1>3, <1>5 DEF RemovalInv, SnapShape
<1>7. IdsName'
  BY <1>0, <1>2, <1>5 DEF RemovalInv, IdsName, FreshIds
<1>8. VersionKnown'
  BY <1>2, <1>3, <1>5 DEF RemovalInv, VersionKnown, SnapShape
<1>9. ASSUME NEW v \in Workers, job'[v].pc \in Rechecked, job'[v].path = p,
             row'[p].id = job'[v].snap.id
      PROVE  k \in contested'
  <2>1. /\ v # w /\ job[v].pc \in Rechecked /\ job[v].path = p /\ job'[v] = job[v]
        /\ job[v].snap \in Row /\ job[v].snap # None
    BY <1>9, <1>0, NoneAssumption DEF Keeps, JobShape, Rechecked, Uploaders
  <2>2. row[p] # None /\ row[p].id = job[v].snap.id
    BY <1>0, <1>2, <1>5, <1>9, <2>1 DEF FreshIds
  <2>3. row[p].mod = job[v].snap.mod \/ row[p].key \in contested
    BY <2>1, <2>2 DEF RemovalInv, HeldVersion, Rechecked
  <2>4. CASE row[p].key # k
    <3>1. Rekeyed(k)
      BY <1>2, <2>1, <2>2, <2>4, NoneAssumption DEF Rekeyed, RemoverOf, Rechecked
    <3> QED
      BY <1>1, <3>1 DEF Track, Contested
  <2>5. CASE row[p].key = k /\ row[p].mod = job[v].snap.mod
    <3>1. job[v].key = k
      BY <2>1, <2>2, <2>5 DEF RemovalInv, VersionKnown, SnapShape
    <3>2. job[w].pc \in Uploaders
      BY <1>0, <2>1, <3>1 DEF LockHeld, Holders, Rechecked, Uploaders
    <3> QED
      BY <1>0, <1>4, <2>1, <3>1, <3>2 DEF OverlapRecorded, Removers, Rechecked
  <2> QED
    BY <1>4, <2>3, <2>4, <2>5
<1>10. ASSUME NEW v \in Workers, NEW q \in Paths \ {p}, job'[v].pc \in Rechecked, job'[v].path = q,
              row'[q] # None, row'[q].id = job'[v].snap.id
       PROVE  row'[q].mod = job'[v].snap.mod \/ row'[q].key \in contested'
  <2>1. v # w /\ job'[v] = job[v] /\ row'[q] = row[q]
    BY <1>2, <1>10 DEF Keeps
  <2> QED
    BY <1>4, <1>10, <2>1 DEF RemovalInv, HeldVersion, Rechecked
<1>11. HeldVersion'
  BY <1>2, <1>9, <1>10 DEF HeldVersion, Rechecked
<1> QED
  BY <1>6, <1>7, <1>8, <1>11 DEF RemovalInv

\* A download keeps the id, the key, the content and last_modified.
LEMMA DownloadRemovalInv ==
    ASSUME IInv, RemovalInv, NEW p \in Paths, Download(p)
    PROVE  RemovalInv'
<1>0. TypeOK
  BY DEF IInv
<1>1. /\ clock \in Nat /\ clock' = clock + 1 /\ job' = job /\ contested \subseteq contested'
      /\ \A q \in Paths : (row'[q] # None) => (row[q] # None)
      /\ \A q \in Paths : row'[q] # None =>
            /\ row'[q].id = row[q].id /\ row'[q].key = row[q].key
            /\ row'[q].sha = row[q].sha /\ row'[q].mod = row[q].mod
  BY <1>0 DEF Download, TypeOK, Row, Track
<1>2. /\ \A v \in Workers : job[v].snap # None => job[v].snap.mod \in Nat
      /\ \A q \in Paths : row[q] # None => row[q].mod \in Nat
  BY <1>0 DEF TypeOK, Job, Row
<1>3. SnapShape'
  BY <1>1, <1>2 DEF RemovalInv, SnapShape
<1>4. IdsName'
  BY <1>1 DEF RemovalInv, IdsName
<1>5. VersionKnown'
  BY <1>1 DEF RemovalInv, VersionKnown
<1>6. HeldVersion'
  BY <1>1 DEF RemovalInv, HeldVersion
<1> QED
  BY <1>3, <1>4, <1>5, <1>6 DEF RemovalInv

\* Uploads and mounts: each step registers a row or writes none.
LEMMA WritersRemovalInv ==
    ASSUME IInv, RemovalInv, NEW w \in Workers, Upload(w) \/ Mount(w)
    PROVE  RemovalInv'
<1>0. TypeOK /\ JobShape
  BY DEF IInv
<1> USE DEF PC, Rechecked
<1>1. CASE UploadReject(w) \/ UploadFail(w)
  BY <1>0, <1>1, EndKeeps, KeepsRemovalInv DEF UploadReject, UploadFail, Track
<1>2. CASE UploadRegister(w)
  <2>1. job[w].path \in Paths /\ job[w].data \in Contents
    BY <1>0, <1>2 DEF UploadRegister, JobShape, Uploaders
  <2>2. Keeps(w) /\ job'[w].pc \notin Rechecked
    BY <1>0, <1>2, GotoKeeps, EndKeeps, GotoJob, EndJob DEF UploadRegister, TypeOK
  <2> QED
    BY <1>2, <2>1, <2>2, UpsertRemovalInv DEF UploadRegister, Uploaders
<1>3. CASE UploadAlias(w)
  <2>1. job[w].data \in Paths /\ job[w].data \in Contents
    BY <1>0, <1>3 DEF UploadAlias, JobShape, Uploaders, Paths
  <2>2. Keeps(w) /\ job'[w].pc \notin Rechecked
    BY <1>0, <1>3, EndKeeps, EndJob DEF UploadAlias, TypeOK
  <2>3. CASE Upsert(job[w].data, job[w].key, job[w].data)
    BY <1>3, <2>1, <2>2, <2>3, UpsertRemovalInv DEF UploadAlias, Uploaders
  <2>4. CASE UNCHANGED <<row, clock, leaked>>
    BY <1>3, <2>2, <2>4, KeepsRemovalInv DEF UploadAlias, Track
  <2> QED
    BY <1>3, <2>3, <2>4 DEF UploadAlias
<1>4. CASE MountExists(w)
  BY <1>0, <1>4, GotoKeeps, EndKeeps, KeepsRemovalInv DEF MountExists, LeaveLock, Track
<1>5. CASE MountRegister(w)
  <2>1. job[w].snap.sha \in Contents
    BY <1>0, <1>5 DEF MountRegister, JobShape, Row, Uploaders
  <2>2. Keeps(w) /\ job'[w].pc \notin Rechecked
    BY <1>0, <1>5, EndKeeps, EndJob DEF MountRegister, LeaveLock, TypeOK
  <2>3. ASSUME NEW m \in Mounts, Upsert(m, job[w].key, job[w].snap.sha)
        PROVE  RemovalInv'
    <3>1. m \in Paths
      BY DEF Paths
    <3> QED
      BY <1>5, <2>1, <2>2, <2>3, <3>1, UpsertRemovalInv DEF MountRegister
  <2>4. CASE UNCHANGED <<row, clock, leaked>>
    BY <1>5, <2>2, <2>4, KeepsRemovalInv DEF MountRegister, Track
  <2> QED
    BY <1>5, <2>3, <2>4 DEF MountRegister
<1> QED
  BY <1>1, <1>2, <1>3, <1>4, <1>5 DEF Upload, Mount

\* Deletes and cleanups: no step writes a row.
LEMMA DeletersRemovalInv ==
    ASSUME IInv, RemovalInv, NEW w \in Workers, Delete(w) \/ Cleanup(w)
    PROVE  RemovalInv'
<1>0. TypeOK
  BY DEF IInv
<1>1. clock' = clock /\ contested \subseteq contested'
  BY DEF Delete, Cleanup, DeleteCheck, DeleteCount, DeleteRow, DeleteLastRow, DeleteBlob,
         CleanupRow, CleanupCount, Track
<1>2. \A p \in Paths : row'[p] # None => row'[p] = row[p]
  BY <1>0, DeletedRows DEF Delete, Cleanup, DeleteCheck, DeleteCount, DeleteRow,
         DeleteLastRow, DeleteBlob, CleanupRow, CleanupCount
<1>3. Keeps(w)
  <2> USE <1>0, GotoKeeps, EndKeeps DEF PC, Rechecked, LeaveLock
  <2>1. CASE DeleteCheck(w)
    BY <2>1 DEF DeleteCheck
  <2>2. CASE DeleteCount(w)
    BY <2>2 DEF DeleteCount
  <2>3. CASE DeleteRow(w)
    BY <2>3 DEF DeleteRow
  <2>4. CASE DeleteLastRow(w)
    BY <2>4 DEF DeleteLastRow
  <2>5. CASE DeleteBlob(w)
    BY <2>5 DEF DeleteBlob
  <2>6. CASE CleanupRow(w)
    BY <2>6 DEF CleanupRow
  <2>7. CASE CleanupCount(w)
    BY <2>7 DEF CleanupCount
  <2> QED
    BY <2>1, <2>2, <2>3, <2>4, <2>5, <2>6, <2>7 DEF Delete, Cleanup
<1> QED
  BY <1>1, <1>2, <1>3, KeepsRemovalInv

\* Every step keeps what deleters know of the version they read.
LEMMA NextRemovalInv == IInv /\ RemovalInv /\ [Next]_vars => RemovalInv'
<1> SUFFICES ASSUME IInv, RemovalInv, [Next]_vars PROVE RemovalInv'
  OBVIOUS
<1>0. TypeOK
  BY DEF IInv
<1>1. ASSUME NEW w \in Workers, NEW p \in Paths, NEW c \in Contents, UploadPut(w, p, c)
      PROVE  RemovalInv'
  <2>1. Keeps(w) /\ row' = row /\ clock' = clock /\ contested \subseteq contested'
    BY <1>0, <1>1 DEF UploadPut, Keeps, Rechecked, TypeOK, Track
  <2> QED
    BY <2>1, KeepsRemovalInv
<1>2. ASSUME NEW w \in Workers, NEW p \in Paths, DeleteRead(w, p) \/ CleanupScan(w, p)
      PROVE  RemovalInv'
  BY <1>2, ReadRemovalInv DEF DeleteRead, CleanupScan
<1>3. ASSUME NEW w \in Workers, NEW c \in Layers, MountRead(w, c)
      PROVE  RemovalInv'
  BY <1>3, ReadRemovalInv DEF MountRead, Paths, Contents
<1>4. ASSUME NEW w \in Workers, GetLock(w)
      PROVE  RemovalInv'
  BY <1>0, <1>4, GotoKeeps, KeepsRemovalInv
     DEF GetLock, DeleteLock, CleanupLock, MountLock, TakeLock, Track, PC, Rechecked
<1>5. ASSUME NEW w \in Workers, Advance(w)
      PROVE  RemovalInv'
  BY <1>5, WritersRemovalInv, DeletersRemovalInv DEF Advance
<1>6. ASSUME NEW w \in Workers, Crash(w)
      PROVE  RemovalInv'
  BY <1>0, <1>6, EndKeeps, KeepsRemovalInv DEF Crash, Track
<1>7. ASSUME NEW p \in Paths, Download(p)
      PROVE  RemovalInv'
  BY <1>7, DownloadRemovalInv
<1>8. CASE UNCHANGED vars
  BY <1>8 DEF vars, RemovalInv, SnapShape, IdsName, VersionKnown, HeldVersion
<1> QED
  BY <1>1, <1>2, <1>3, <1>4, <1>5, <1>6, <1>7, <1>8 DEF Next

\* The removal invariant holds in every reachable state.
LEMMA RemovalInvariance == Spec => []RemovalInv
<1>1. Init => RemovalInv
  BY DEF Init, RemovalInv, SnapShape, IdsName, VersionKnown, HeldVersion, Idle
<1> QED
  BY <1>1, Invariance, NextRemovalInv, PTL DEF Spec

\* A row goes only by the delete of a worker that read its id.
LEMMA WhoRemoves ==
    ASSUME IInv, Next, NEW p \in Paths, row[p] # None, row'[p] = None
    PROVE  \E w \in Workers :
                /\ row[p].id = job[w].snap.id
                /\ \/ job[w].pc \in {"delRow", "delLastRow"}
                   \/ job[w].pc = "clnRow" /\ Unchanged(job[w].path, job[w].snap)
<1>0. TypeOK /\ JobShape
  BY DEF IInv
<1>1. ASSUME NEW w \in Workers, NEW q \in Paths, NEW c \in Contents, NEW k \in Keys, Upsert(q, k, c)
      PROVE  FALSE
  BY <1>0, <1>1, UpsertRow, NoneAssumption
<1>2. ASSUME NEW w \in Workers, Upload(w) \/ Mount(w)
      PROVE  FALSE
  <2>1. CASE UploadReject(w) \/ UploadFail(w) \/ MountExists(w)
    BY <2>1 DEF UploadReject, UploadFail, MountExists
  <2>2. CASE UploadRegister(w)
    BY <1>0, <1>1, <2>2 DEF UploadRegister, JobShape, Uploaders
  <2>3. CASE UploadAlias(w)
    BY <1>0, <1>1, <2>3 DEF UploadAlias, JobShape, Uploaders, Paths
  <2>4. CASE MountRegister(w)
    <3>1. job[w].snap.sha \in Contents /\ job[w].key \in Keys
      BY <1>0, <2>4 DEF MountRegister, JobShape, Row, Uploaders
    <3> QED
      BY <1>1, <2>4, <3>1 DEF MountRegister, Paths
  <2> QED
    BY <1>2, <2>1, <2>2, <2>3, <2>4 DEF Upload, Mount
<1>3. ASSUME NEW w \in Workers, DeleteById(job[w].snap.id)
      PROVE  row[p].id = job[w].snap.id
  BY <1>3 DEF DeleteById
<1>4. ASSUME NEW w \in Workers, Delete(w)
      PROVE  job[w].pc \in {"delRow", "delLastRow"} /\ row[p].id = job[w].snap.id
  BY <1>3, <1>4 DEF Delete, DeleteCheck, DeleteCount, DeleteRow, DeleteLastRow, DeleteBlob
<1>5. ASSUME NEW w \in Workers, Cleanup(w)
      PROVE  /\ job[w].pc = "clnRow" /\ row[p].id = job[w].snap.id
             /\ Unchanged(job[w].path, job[w].snap)
  BY <1>3, <1>5 DEF Cleanup, CleanupRow, CleanupCount
<1>6. ASSUME NEW q \in Paths, Download(q)
      PROVE  FALSE
  BY <1>0, <1>6, NoneAssumption DEF Download, TypeOK, Row
<1> QED
  BY <1>2, <1>4, <1>5, <1>6
     DEF Next, UploadPut, DeleteRead, CleanupScan, MountRead, ReadFirst, GetLock, DeleteLock,
         CleanupLock, MountLock, TakeLock, Crash, Advance

\* A removal takes the version that was read, or a write that met it is on record.
LEMMA RemovesWhatItRead ==
    ASSUME IInv, RemovalInv, NEW w \in Workers, NEW p \in Paths, row[p] # None,
           row[p].id = job[w].snap.id,
           \/ job[w].pc \in {"delRow", "delLastRow"}
           \/ job[w].pc = "clnRow" /\ Unchanged(job[w].path, job[w].snap)
    PROVE  /\ p = job[w].path
           /\ \/ row[p].key \in contested
              \/ row[p].mod = job[w].snap.mod /\ row[p].key = job[w].key
           /\ job[w].pc = "clnRow" => job[w].snap = row[p]
<1>0. TypeOK /\ JobShape
  BY DEF IInv
<1>1. job[w].snap \in Row /\ job[w].snap # None /\ row[p] \in Row
  BY <1>0, NoneAssumption DEF JobShape, Uploaders, TypeOK
<1>2. p = job[w].path
  BY <1>1 DEF RemovalInv, IdsName
<1>3. row[p].mod = job[w].snap.mod => row[p].key = job[w].key /\ row[p].sha = job[w].snap.sha
  BY <1>1, <1>2 DEF RemovalInv, VersionKnown, SnapShape
<1>4. CASE job[w].pc \in {"delRow", "delLastRow"}
  BY <1>2, <1>3, <1>4 DEF RemovalInv, HeldVersion
<1>5. CASE job[w].pc = "clnRow" /\ Unchanged(job[w].path, job[w].snap)
  BY <1>1, <1>2, <1>3, <1>5 DEF Unchanged, Row
<1> QED
  BY <1>2, <1>4, <1>5

\* A delete or a cleanup removes the very version it read, whatever runs
\* beside it: the re-read under the lock (DeleteArtifact) and the conditional
\* DELETE (DeleteIfUnchanged) save a replacement, unless an upload of the same
\* key or path met the removal.
THEOREM ReplacementSpared == Spec => RemovalSparesReplacement
<1> DEFINE Spared ==
      \A p \in Paths :
        row[p] # None /\ row'[p] = None =>
            \/ row[p].key \in contested
            \/ \E w \in Workers :
                \/ job[w].pc = "clnRow" /\ job[w].snap = row[p]
                \/ /\ job[w].pc \in {"delRow", "delLastRow"}
                   /\ job[w].snap.id = row[p].id /\ job[w].snap.mod = row[p].mod
<1>1. IInv /\ RemovalInv /\ [Next]_vars => [Spared]_vars
  <2> SUFFICES ASSUME IInv, RemovalInv, Next, NEW p \in Paths, row[p] # None, row'[p] = None,
                      row[p].key \notin contested
               PROVE  \E w \in Workers :
                        \/ job[w].pc = "clnRow" /\ job[w].snap = row[p]
                        \/ /\ job[w].pc \in {"delRow", "delLastRow"}
                           /\ job[w].snap.id = row[p].id /\ job[w].snap.mod = row[p].mod
    OBVIOUS
  <2>1. PICK w \in Workers :
            /\ row[p].id = job[w].snap.id
            /\ \/ job[w].pc \in {"delRow", "delLastRow"}
               \/ job[w].pc = "clnRow" /\ Unchanged(job[w].path, job[w].snap)
    BY WhoRemoves
  <2> QED
    BY <2>1, RemovesWhatItRead
<1> QED
  BY <1>1, Invariance, RemovalInvariance, PTL DEF Spec, RemovalSparesReplacement

-----------------------------------------------------------------------------
(* No object is forgotten                                                  *)

Owners == {"stored", "delBlob", "clnCount"}
Excused(k) == k \in leaked \cup contested
Named(k) == \E p \in Paths : row[p] # None /\ row[p].key = k

\* A worker answers for its object until it is named, gone or excused.
HandsOver(w) ==
    \A k \in Keys : job[w].pc \in Owners /\ job[w].key = k =>
        \/ job'[w].pc \in Owners /\ job'[w].key = k
        \/ blob'[k] = None \/ Excused(k)' \/ Named(k)'

\* A step that keeps the rows' ids and keys.
LEMMA QuietOrphanInv ==
    ASSUME OrphanInv, NEW w \in Workers, HandsOver(w),
           \A v \in Workers \ {w} : job'[v] = job[v],
           leaked \subseteq leaked', contested \subseteq contested', row' = row,
           \A k \in Keys : blob'[k] # None =>
                blob[k] # None \/ (job'[w].pc = "stored" /\ job'[w].key = k),
           job'[w].pc = "delRow" =>
                \/ job'[w].key \in leaked' \cup contested'
                \/ \E p \in Paths : /\ row[p] # None /\ row[p].key = job'[w].key
                                    /\ row[p].id # job'[w].snap.id
    PROVE  OrphanInv'
<1>1. OthersKept'
  BY DEF OrphanInv, OthersKept, Excused
<1>2. ASSUME NEW k \in Keys, blob'[k] # None
      PROVE  \/ Excused(k)' \/ Named(k)'
             \/ \E v \in Workers : job'[v].pc \in Owners /\ job'[v].key = k
  <2>1. CASE job'[w].pc = "stored" /\ job'[w].key = k
    BY <2>1 DEF Owners
  <2>2. CASE blob[k] # None
    <3>1. Excused(k) \/ Named(k) \/ \E v \in Workers : job[v].pc \in Owners /\ job[v].key = k
      BY <2>2 DEF OrphanInv, OrphansOwned, Excused, Named, Owners
    <3>2. CASE Excused(k) \/ Named(k)
      BY <3>2 DEF Excused, Named
    <3>3. ASSUME NEW v \in Workers, job[v].pc \in Owners, job[v].key = k
          PROVE  \/ Excused(k)' \/ Named(k)'
                 \/ \E u \in Workers : job'[u].pc \in Owners /\ job'[u].key = k
      BY <1>2, <3>3 DEF HandsOver
    <3> QED
      BY <3>1, <3>2, <3>3
  <2> QED
    BY <1>2, <2>1, <2>2
<1>3. OrphansOwned'
  BY <1>2 DEF OrphansOwned, Excused, Named, Owners
<1> QED
  BY <1>1, <1>3 DEF OrphanInv

\* A registration names the uploader's key; the key a row leaves is excused.
LEMMA UpsertOrphanInv ==
    ASSUME IInv, OrphanInv, NEW w \in Workers, NEW p \in Paths, NEW c \in Contents,
           job[w].pc \in Uploaders \cup {"mntRegister"},
           Upsert(p, job[w].key, c), Track, blob' = blob,
           \A v \in Workers \ {w} : job'[v] = job[v],
           job'[w].pc \in {"idle", "alias"}
    PROVE  OrphanInv'
<1>0. TypeOK /\ JobShape
  BY DEF IInv
<1>1. job[w].key \in Keys
  BY <1>0 DEF JobShape, Uploaders
<1>2. /\ row'[p] # None /\ row'[p].key = job[w].key
      /\ row[p] # None => row'[p].id = row[p].id
      /\ \A q \in Paths \ {p} : row'[q] = row[q]
  BY <1>0, <1>1, UpsertRow, NoneAssumption
<1>3. /\ leaked \subseteq leaked' /\ contested \subseteq contested'
      /\ row[p] # None /\ row[p].key # job[w].key => row[p].key \in leaked'
  BY DEF Upsert, Track
<1>4. \A k \in Keys : Excused(k) => Excused(k)'
  BY <1>3 DEF Excused
<1>5. \A k \in Keys : Named(k) => Named(k)' \/ Excused(k)'
  BY <1>2, <1>3 DEF Named, Excused
<1>6. OthersKept'
  <2> SUFFICES ASSUME NEW v \in Workers, job'[v].pc = "delRow"
               PROVE  \/ job'[v].key \in leaked' \cup contested'
                      \/ \E q \in Paths : /\ row'[q] # None /\ row'[q].key = job'[v].key
                                          /\ row'[q].id # job'[v].snap.id
    BY DEF OthersKept, Excused
  <2>1. job'[v] = job[v] /\ job[v].key \in Keys
    BY <1>0 DEF JobShape
  <2>2. CASE Excused(job[v].key)
    BY <1>3, <2>1, <2>2 DEF Excused
  <2>3. ASSUME NEW q \in Paths, row[q] # None, row[q].key = job[v].key, row[q].id # job[v].snap.id
        PROVE  \/ job'[v].key \in leaked' \cup contested'
               \/ \E r \in Paths : /\ row'[r] # None /\ row'[r].key = job'[v].key
                                   /\ row'[r].id # job'[v].snap.id
    BY <1>2, <1>3, <2>1, <2>3 DEF Excused
  <2> QED
    BY <2>1, <2>2, <2>3 DEF OrphanInv, OthersKept, Excused
<1>7. \A k \in Keys : k = job[w].key => Named(k)'
  BY <1>2 DEF Named
<1>8. OrphansOwned'
  <2> SUFFICES ASSUME NEW k \in Keys, blob'[k] # None
               PROVE  \/ Excused(k)' \/ Named(k)'
                      \/ \E v \in Workers : job'[v].pc \in Owners /\ job'[v].key = k
    BY DEF OrphansOwned, Excused, Named, Owners
  <2>1. Excused(k) \/ Named(k) \/ \E v \in Workers : job[v].pc \in Owners /\ job[v].key = k
    BY DEF OrphanInv, OrphansOwned, Excused, Named, Owners
  <2> QED
    BY <1>4, <1>5, <1>7, <2>1
<1> QED
  BY <1>6, <1>8 DEF OrphanInv

\* Deleting a row by id: the deleter saw another row on the key, or goes on to
\* the bytes itself.
LEMMA DeleteRowOrphanInv ==
    ASSUME IInv, RemovalInv, OrphanInv, NEW w \in Workers, DeleteById(job[w].snap.id), Track,
           UNCHANGED <<blob, leaked>>,
           \A v \in Workers \ {w} : job'[v] = job[v],
           \/ job[w].pc = "delRow" /\ job'[w].pc = "idle"
           \/ job[w].pc = "delLastRow" /\ job'[w].pc = "delBlob" /\ job'[w].key = job[w].key
           \/ /\ job[w].pc = "clnRow" /\ Unchanged(job[w].path, job[w].snap)
              /\ job'[w].pc = "clnCount" /\ job'[w].key = job[w].key
    PROVE  OrphanInv'
<1>0. TypeOK /\ JobShape /\ LockHeld
  BY DEF IInv
<1>1. contested \subseteq contested'
  BY DEF Track
<1>2. \A k \in Keys : Excused(k) => Excused(k)'
  BY <1>1 DEF Excused
<1>3. \A p \in Paths : row[p] # None /\ row[p].id # job[w].snap.id => row'[p] = row[p]
  BY DEF DeleteById
<1>4. \A p \in Paths : row[p] # None /\ row[p].id = job[w].snap.id =>
            row[p].key \in contested \/ row[p].key = job[w].key
  BY RemovesWhatItRead
<1>5. \A v \in Workers \ {w} : job[v].pc = "delRow" => job[v].key # job[w].key /\ job[v].key \in Keys
  BY <1>0 DEF LockHeld, Holders, JobShape
<1>6. OthersKept'
  <2> SUFFICES ASSUME NEW v \in Workers, job'[v].pc = "delRow"
               PROVE  \/ job'[v].key \in leaked' \cup contested'
                      \/ \E q \in Paths : /\ row'[q] # None /\ row'[q].key = job'[v].key
                                          /\ row'[q].id # job'[v].snap.id
    BY DEF OthersKept, Excused
  <2>1. v # w /\ job'[v] = job[v] /\ job[v].key # job[w].key /\ job[v].key \in Keys
    BY <1>5
  <2>2. CASE Excused(job[v].key)
    BY <1>1, <2>1, <2>2 DEF Excused
  <2>3. ASSUME NEW q \in Paths, row[q] # None, row[q].key = job[v].key, row[q].id # job[v].snap.id
        PROVE  \/ job'[v].key \in leaked' \cup contested'
               \/ \E r \in Paths : /\ row'[r] # None /\ row'[r].key = job'[v].key
                                   /\ row'[r].id # job'[v].snap.id
    BY <1>1, <1>3, <1>4, <2>1, <2>3 DEF Excused
  <2> QED
    BY <2>1, <2>2, <2>3 DEF OrphanInv, OthersKept, Excused
<1>7. \A k \in Keys : Named(k) /\ k # job[w].key => Named(k)' \/ Excused(k)'
  BY <1>1, <1>3, <1>4 DEF Named, Excused
<1>8. ASSUME NEW k \in Keys, k = job[w].key
      PROVE  Excused(k)' \/ Named(k)' \/ (job'[w].pc \in Owners /\ job'[w].key = k)
  <2>1. CASE job[w].pc = "delRow"
    <3>1. CASE job[w].key \in leaked \cup contested
      BY <1>1, <1>8, <3>1 DEF Excused
    <3>2. ASSUME NEW p \in Paths, row[p] # None, row[p].key = job[w].key, row[p].id # job[w].snap.id
          PROVE  Named(k)'
      BY <1>3, <1>8, <3>2 DEF Named
    <3> QED
      BY <2>1, <3>1, <3>2 DEF OrphanInv, OthersKept
  <2> QED
    BY <1>8, <2>1 DEF Owners
<1>9. OrphansOwned'
  <2> SUFFICES ASSUME NEW k \in Keys, blob'[k] # None
               PROVE  \/ Excused(k)' \/ Named(k)'
                      \/ \E v \in Workers : job'[v].pc \in Owners /\ job'[v].key = k
    BY DEF OrphansOwned, Excused, Named, Owners
  <2>1. Excused(k) \/ Named(k) \/ \E v \in Workers : job[v].pc \in Owners /\ job[v].key = k
    BY DEF OrphanInv, OrphansOwned, Excused, Named, Owners
  <2>2. \A v \in Workers : job[v].pc \in Owners => v # w
    BY DEF Owners
  <2> QED
    BY <1>2, <1>7, <1>8, <2>1, <2>2
<1> QED
  BY <1>6, <1>9 DEF OrphanInv

\* Steps that end a request, or move it on, without a change of rows or bytes.
LEMMA EndOrphanInv ==
    ASSUME IInv, OrphanInv, NEW w \in Workers, End(w), Track, row' = row, blob' = blob,
           leaked \subseteq leaked', job[w].pc \in Owners => job[w].key \in leaked' \/ Named(job[w].key)
    PROVE  OrphanInv'
<1>1. /\ \A v \in Workers \ {w} : job'[v] = job[v]
      /\ job'[w].pc = "idle"
  BY EndJob DEF IInv, TypeOK
<1>2. HandsOver(w)
  BY DEF HandsOver, Excused, Named
<1> QED
  BY <1>1, <1>2, QuietOrphanInv DEF Track

LEMMA MoveOrphanInv ==
    ASSUME IInv, OrphanInv, NEW w \in Workers, NEW l \in PC, Goto(w, l), Track,
           row' = row, blob' = blob, leaked \subseteq leaked',
           job[w].pc \in Owners => l \in Owners,
           l = "delRow" =>
                \/ job[w].key \in leaked'
                \/ \E p \in Paths : /\ row[p] # None /\ row[p].key = job[w].key
                                    /\ row[p].id # job[w].snap.id
    PROVE  OrphanInv'
<1>1. /\ \A v \in Workers \ {w} : job'[v] = job[v]
      /\ job'[w].pc = l /\ job'[w].key = job[w].key /\ job'[w].snap = job[w].snap
  BY GotoJob DEF IInv, TypeOK
<1>2. HandsOver(w)
  BY <1>1 DEF HandsOver
<1> QED
  BY <1>1, <1>2, QuietOrphanInv DEF Track

\* Steps of uploads and mounts.
LEMMA WritersOrphanInv ==
    ASSUME IInv, OrphanInv, NEW w \in Workers, Upload(w) \/ Mount(w)
    PROVE  OrphanInv'
<1>0. TypeOK /\ JobShape
  BY DEF IInv
<1> USE DEF PC, Owners
<1>1. CASE UploadReject(w)
  <2>1. /\ \A v \in Workers \ {w} : job'[v] = job[v]
        /\ job'[w].pc = "idle" /\ job[w].key \in Keys
        /\ \A k \in Keys : blob'[k] # None => blob[k] # None
        /\ blob'[job[w].key] = None
    BY <1>0, <1>1, EndJob DEF UploadReject, TypeOK, JobShape
  <2>2. HandsOver(w)
    BY <2>1 DEF HandsOver
  <2> QED
    BY <1>1, <2>1, <2>2, QuietOrphanInv DEF UploadReject, Track
<1>2. CASE UploadFail(w)
  BY <1>2, EndOrphanInv DEF UploadFail
<1>3. CASE UploadRegister(w)
  <2>1. job[w].path \in Paths /\ job[w].data \in Contents
    BY <1>0, <1>3 DEF UploadRegister, JobShape, Uploaders
  <2>2. job'[w].pc \in {"idle", "alias"} /\ \A v \in Workers \ {w} : job'[v] = job[v]
    BY <1>0, <1>3, GotoJob, EndJob DEF UploadRegister, TypeOK
  <2> QED
    BY <1>3, <2>1, <2>2, UpsertOrphanInv DEF UploadRegister, Uploaders
<1>4. CASE UploadAlias(w)
  <2>1. job[w].data \in Paths /\ job[w].data \in Contents
    BY <1>0, <1>4 DEF UploadAlias, JobShape, Uploaders, Paths
  <2>2. job'[w].pc = "idle" /\ \A v \in Workers \ {w} : job'[v] = job[v]
    BY <1>0, <1>4, EndJob DEF UploadAlias, TypeOK
  <2>3. CASE Upsert(job[w].data, job[w].key, job[w].data)
    BY <1>4, <2>1, <2>2, <2>3, UpsertOrphanInv DEF UploadAlias, Uploaders
  <2>4. CASE UNCHANGED <<row, clock, leaked>>
    BY <1>4, <2>4, EndOrphanInv DEF UploadAlias
  <2> QED
    BY <1>4, <2>3, <2>4 DEF UploadAlias
<1>5. CASE MountExists(w)
  BY <1>5, MoveOrphanInv, EndOrphanInv DEF MountExists, LeaveLock
<1>6. CASE MountRegister(w)
  <2>1. job[w].snap.sha \in Contents
    BY <1>0, <1>6 DEF MountRegister, JobShape, Row, Uploaders
  <2>2. job'[w].pc = "idle" /\ \A v \in Workers \ {w} : job'[v] = job[v]
    BY <1>0, <1>6, EndJob DEF MountRegister, LeaveLock, TypeOK
  <2>3. ASSUME NEW m \in Mounts, Upsert(m, job[w].key, job[w].snap.sha)
        PROVE  OrphanInv'
    <3>1. m \in Paths
      BY DEF Paths
    <3> QED
      BY <1>6, <2>1, <2>2, <2>3, <3>1, UpsertOrphanInv DEF MountRegister
  <2>4. CASE UNCHANGED <<row, clock, leaked>>
    BY <1>6, <2>4, EndOrphanInv DEF MountRegister, LeaveLock
  <2> QED
    BY <1>6, <2>3, <2>4 DEF MountRegister
<1> QED
  BY <1>1, <1>2, <1>3, <1>4, <1>5, <1>6 DEF Upload, Mount

\* Steps of deletes and cleanups.
LEMMA DeletersOrphanInv ==
    ASSUME IInv, RemovalInv, OrphanInv, NEW w \in Workers, Delete(w) \/ Cleanup(w)
    PROVE  OrphanInv'
<1>0. TypeOK /\ JobShape
  BY DEF IInv
<1> USE DEF PC, Owners
<1>1. CASE DeleteCheck(w)
  BY <1>1, MoveOrphanInv, EndOrphanInv DEF DeleteCheck, LeaveLock
<1>2. CASE DeleteCount(w)
  <2>1. Others(job[w].key, job[w].snap.id) # {} =>
            \E p \in Paths : /\ row[p] # None /\ row[p].key = job[w].key
                             /\ row[p].id # job[w].snap.id
    BY DEF Others
  <2> QED
    BY <1>2, <2>1, MoveOrphanInv DEF DeleteCount
<1>3. CASE DeleteRow(w)
  <2>1. job'[w].pc = "idle" /\ \A v \in Workers \ {w} : job'[v] = job[v]
    BY <1>0, <1>3, EndJob DEF DeleteRow, LeaveLock, TypeOK
  <2> QED
    BY <1>3, <2>1, DeleteRowOrphanInv DEF DeleteRow
<1>4. CASE DeleteLastRow(w)
  <2>1. /\ job'[w].pc = "delBlob" /\ job'[w].key = job[w].key
        /\ \A v \in Workers \ {w} : job'[v] = job[v]
    BY <1>0, <1>4, GotoJob DEF DeleteLastRow, TypeOK
  <2> QED
    BY <1>4, <2>1, DeleteRowOrphanInv DEF DeleteLastRow
<1>5. CASE DeleteBlob(w)
  <2>1. CASE blob' = [blob EXCEPT ![job[w].key] = None] /\ UNCHANGED leaked
    <3>1. /\ \A v \in Workers \ {w} : job'[v] = job[v]
          /\ job'[w].pc = "idle" /\ job[w].key \in Keys
          /\ \A k \in Keys : blob'[k] # None => blob[k] # None
          /\ blob'[job[w].key] = None
      BY <1>0, <1>5, <2>1, EndJob DEF DeleteBlob, LeaveLock, TypeOK, JobShape
    <3>2. HandsOver(w)
      BY <3>1 DEF HandsOver
    <3> QED
      BY <1>5, <2>1, <3>1, <3>2, QuietOrphanInv DEF DeleteBlob, Track
  <2>2. CASE leaked' = leaked \cup {job[w].key} /\ UNCHANGED blob
    BY <1>5, <2>2, EndOrphanInv DEF DeleteBlob, LeaveLock
  <2> QED
    BY <1>5, <2>1, <2>2 DEF DeleteBlob
<1>6. CASE CleanupRow(w)
  <2>1. CASE Unchanged(job[w].path, job[w].snap)
    <3>1. /\ job'[w].pc = "clnCount" /\ job'[w].key = job[w].key
          /\ \A v \in Workers \ {w} : job'[v] = job[v]
      BY <1>0, <1>6, <2>1, GotoJob DEF CleanupRow, TypeOK
    <3> QED
      BY <1>6, <2>1, <3>1, DeleteRowOrphanInv DEF CleanupRow
  <2>2. CASE ~Unchanged(job[w].path, job[w].snap)
    BY <1>6, <2>2, EndOrphanInv DEF CleanupRow, LeaveLock
  <2> QED
    BY <2>1, <2>2
<1>7. CASE CleanupCount(w)
  <2>1. Others(job[w].key, job[w].snap.id) # {} => Named(job[w].key)
    BY DEF Others, Named
  <2> QED
    BY <1>7, <2>1, MoveOrphanInv, EndOrphanInv DEF CleanupCount, LeaveLock
<1> QED
  BY <1>1, <1>2, <1>3, <1>4, <1>5, <1>6, <1>7 DEF Delete, Cleanup

\* Every step keeps an owner, a name or an excuse for each object.
LEMMA NextOrphanInv == IInv /\ RemovalInv /\ OrphanInv /\ [Next]_vars => OrphanInv'
<1> SUFFICES ASSUME IInv, RemovalInv, OrphanInv, [Next]_vars PROVE OrphanInv'
  OBVIOUS
<1>0. TypeOK /\ JobShape
  BY DEF IInv
<1> USE DEF PC, Owners
<1>1. ASSUME NEW w \in Workers, NEW p \in Paths, NEW c \in Contents, UploadPut(w, p, c)
      PROVE  OrphanInv'
  <2>1. /\ \A v \in Workers \ {w} : job'[v] = job[v]
        /\ job[w].pc = "idle" /\ job'[w].pc = "stored" /\ job'[w].key = p
        /\ \A k \in Keys \ {p} : blob'[k] = blob[k]
    BY <1>0, <1>1 DEF UploadPut, TypeOK, BlobKey
  <2>2. HandsOver(w)
    BY <2>1 DEF HandsOver
  <2> QED
    BY <1>1, <2>1, <2>2, QuietOrphanInv DEF UploadPut, Track
<1>2. ASSUME NEW w \in Workers, NEW p \in Paths, NEW next \in {"delLock", "clnLock", "mntLock"},
             ReadFirst(w, p, next)
      PROVE  OrphanInv'
  <2>1. /\ \A v \in Workers \ {w} : job'[v] = job[v]
        /\ job[w].pc = "idle" /\ job'[w].pc = next
    BY <1>0, <1>2 DEF ReadFirst, TypeOK
  <2>2. HandsOver(w)
    BY <2>1 DEF HandsOver
  <2> QED
    BY <1>2, <2>1, <2>2, QuietOrphanInv DEF ReadFirst, Track
<1>3. ASSUME NEW w \in Workers, GetLock(w)
      PROVE  OrphanInv'
  BY <1>3, MoveOrphanInv DEF GetLock, DeleteLock, CleanupLock, MountLock, TakeLock
<1>4. ASSUME NEW w \in Workers, Advance(w)
      PROVE  OrphanInv'
  BY <1>4, WritersOrphanInv, DeletersOrphanInv DEF Advance
<1>5. ASSUME NEW w \in Workers, Crash(w)
      PROVE  OrphanInv'
  BY <1>5, EndOrphanInv DEF Crash
<1>6. ASSUME NEW p \in Paths, Download(p)
      PROVE  OrphanInv'
  <2>1. /\ job' = job /\ blob' = blob /\ leaked' = leaked /\ contested \subseteq contested'
        /\ \A q \in Paths : row[q] # None =>
              row'[q] # None /\ row'[q].id = row[q].id /\ row'[q].key = row[q].key
    BY <1>0, <1>6, NoneAssumption DEF Download, TypeOK, Row, Track
  <2>2. OthersKept'
    BY <2>1 DEF OrphanInv, OthersKept
  <2>3. OrphansOwned'
    BY <2>1 DEF OrphanInv, OrphansOwned
  <2> QED
    BY <2>2, <2>3 DEF OrphanInv
<1>7. CASE UNCHANGED vars
  BY <1>7 DEF vars, OrphanInv, OthersKept, OrphansOwned
<1> QED
  BY <1>1, <1>2, <1>3, <1>4, <1>5, <1>6, <1>7
     DEF Next, DeleteRead, CleanupScan, MountRead, Paths, Contents

\* Concurrent deletes, cleanups and mounts never leave the bytes of a key to
\* each other: an object no row names and no request works on was left by a
\* failed step, a crash, a change of key or an upload that met a removal.
THEOREM NothingForgotten == Spec => []NoSilentOrphan
<1>1. Init => OrphanInv
  BY DEF Init, OrphanInv, OthersKept, OrphansOwned, Idle
<1>2. OrphanInv => NoSilentOrphan
  BY DEF OrphanInv, OrphansOwned, NoSilentOrphan
<1> QED
  BY <1>1, <1>2, Invariance, RemovalInvariance, NextOrphanInv, PTL DEF Spec
=============================================================================
