---------------------------- MODULE BlobGCProofs ----------------------------
(***************************************************************************)
(* For any servers, stores, keys and uploads: a cron's pass never deletes  *)
(* an object that is live, and no two passes work under one lock, provided *)
(* gc.min_age is at least the lock's TTL and the time of an upload.        *)
(***************************************************************************)
EXTENDS BlobGC, FiniteSetTheorems, TLAPS

\* A pass under the lock, and one past its snapshot.
Started(n) == gc[n].deadline # None
After == {"list", "judge", "delete", "count"}

\* The lock is the pass's until the TTL is up; the pass's own deadline is later
\* than that by the delay at most, and was set in the past.
LockInv ==
    \A n \in Nodes :
        /\ gc[n].pc = "idle" => gc[n].deadline = None
        /\ gc[n].pc = "acquired" => gc[n].deadline = None /\ now <= gc[n].at + MaxDelay
        /\ gc[n].pc = "acquired" \/ Started(n) =>
               (now < gc[n].at + LockTTL =>
                    lock.holder = n /\ lock.until = gc[n].at + LockTTL)
        /\ Started(n) => /\ gc[n].deadline <= gc[n].at + MaxDelay + LockTTL
                         /\ gc[n].deadline <= now + LockTTL

\* An upload is alone on its key, young, and its object untouched or gone.
UploadInv ==
    \A w \in Uploads :
        upload[w].pc = "stored" =>
            /\ upload[w].store \in Stores /\ upload[w].key \in Keys
            /\ now <= upload[w].at + MaxUpload
            /\ obj[<<upload[w].store, upload[w].key>>] \in {None, upload[w].at}

\* What makes a live object safe from the pass: it is referenced in the
\* snapshot, excepted, or its time is within an upload of the pass's start.
Safe(g, s, k, t) ==
    \/ <<s, k>> \in g.refs
    \/ <<s, k>> \in stale
    \/ t + MaxUpload >= g.deadline - LockTTL

ObjectInv ==
    \A n \in Nodes, s \in Stores, k \in Keys :
        Started(n) /\ gc[n].pc \in After /\ Live(s, k) /\ obj[<<s, k>>] # None =>
            Safe(gc[n], s, k, obj[<<s, k>>])

EntryInv ==
    \A n \in Nodes : \A e \in gc[n].entries :
        Started(n) /\ gc[n].pc \in After /\ Live(gc[n].store, e.key) =>
            Safe(gc[n], gc[n].store, e.key, e.mod)

\* Entries are there while a store is at hand, a picked one while it is deleted.
PassInv ==
    \A n \in Nodes :
        /\ gc[n].entries # {} => gc[n].pc \in {"judge", "delete"} /\ gc[n].store \in Stores
        /\ gc[n].pick # None => gc[n].pc = "delete"
        /\ gc[n].pc \in {"judge", "delete", "count"} => gc[n].store \in Stores
        /\ gc[n].pc = "delete" => gc[n].pick \in Entry

IInv == /\ TypeOK /\ LockInv /\ UploadInv /\ PassInv
        /\ ObjectInv /\ EntryInv /\ SparesLive

-----------------------------------------------------------------------------

\* The empty server, or one whose assets were all stored before.
LEMMA InitEstablishes == Init => IInv
<1> SUFFICES ASSUME Init PROVE IInv
  OBVIOUS
<1>1. TypeOK
  <2>1. obj \in [Place -> Nat \cup {None}]
    BY DEF Init
  <2>2. used \in [Stores -> Nat]
    <3>1. \A s \in Stores : Cardinality({k \in Keys : obj[<<s, k>>] # None}) \in Nat
      BY GCAssumption, FS_Subset, FS_CardinalityType
    <3> QED
      BY <3>1 DEF Init
  <2> QED
    BY <2>1, <2>2, GCAssumption DEF Init, TypeOK, NoUpload, Upload, FreeLock, NoPass, NewPass, Pass, PassPC
<1>2. LockInv /\ UploadInv /\ PassInv /\ ObjectInv /\ EntryInv /\ SparesLive
  BY DEF Init, LockInv, UploadInv, PassInv, ObjectInv, EntryInv, SparesLive,
         NoUpload, NoPass, NewPass, Started, After
<1> QED
  BY <1>1, <1>2 DEF IInv

\* Who is live depends on rows and uploads only.
LEMMA LiveSame ==
    ASSUME UNCHANGED <<row, upload>>
    PROVE  \A s \in Stores, k \in Keys : Live(s, k)' <=> Live(s, k)
BY DEF Live, Located

\* A step of the clients leaves every pass as it is.  An object becomes live new,
\* or in a way the history records.
LEMMA WorldFrame ==
    ASSUME IInv, TypeOK', UploadInv', UNCHANGED <<now, lock, gc>>, stale \subseteq stale',
           \A s \in Stores, k \in Keys :
               Live(s, k)' /\ Listed(s, k) => Live(s, k) \/ <<s, k>> \in stale',
           \A s \in Stores, k \in Keys :
               Live(s, k)' /\ obj'[<<s, k>>] # None =>
                   \/ Live(s, k) /\ obj'[<<s, k>>] = obj[<<s, k>>]
                   \/ obj'[<<s, k>>] = now
                   \/ <<s, k>> \in stale'
                   \/ Running = {}
    PROVE  IInv'
<1>1. LockInv' /\ PassInv'
  BY DEF IInv, LockInv, PassInv, Started
<1>2. ObjectInv'
  <2> SUFFICES ASSUME NEW n \in Nodes, NEW s \in Stores, NEW k \in Keys,
                      Started(n)', gc'[n].pc \in After, Live(s, k)', obj'[<<s, k>>] # None
               PROVE  Safe(gc[n], s, k, obj[<<s, k>>])'
    BY DEF ObjectInv
  <2>1. n \in Running
    BY DEF Running, After
  <2>2. CASE Live(s, k) /\ obj'[<<s, k>>] = obj[<<s, k>>]
    BY <2>2 DEF IInv, ObjectInv, Safe, Started
  <2>3. CASE obj'[<<s, k>>] = now
    <3>1. gc[n].deadline <= now + LockTTL
      BY DEF IInv, LockInv, Started
    <3>2. gc[n].deadline \in Nat /\ now \in Nat
      BY DEF IInv, TypeOK, Pass, Started
    <3> QED
      BY <2>3, <3>1, <3>2, GCAssumption DEF Safe
  <2>4. CASE <<s, k>> \in stale'
    BY <2>4 DEF Safe
  <2> QED
    BY <2>1, <2>2, <2>3, <2>4
<1>3. EntryInv'
  <2> SUFFICES ASSUME NEW n \in Nodes, NEW e \in gc'[n].entries,
                      Started(n)', gc'[n].pc \in After, Live(gc[n].store, e.key)'
               PROVE  Safe(gc[n], gc[n].store, e.key, e.mod)'
    BY DEF EntryInv
  <2>1. gc[n].store \in Stores /\ e \in Entry /\ e.key \in Keys
    BY GCAssumption DEF IInv, TypeOK, PassInv, Pass, Entry
  <2>2. e # None
    BY <2>1, GCAssumption DEF Entry
  <2>3. Listed(gc[n].store, e.key)
    BY <2>1, <2>2 DEF Listed
  <2>4. Live(gc[n].store, e.key) \/ <<gc[n].store, e.key>> \in stale'
    BY <2>1, <2>3
  <2> QED
    BY <2>4 DEF IInv, EntryInv, Safe, Started
<1>4. SparesLive'
  <2> SUFFICES ASSUME NEW n \in Nodes, gc'[n].pc = "delete", gc'[n].deadline # None,
                      Live(gc[n].store, gc[n].pick.key)'
               PROVE  <<gc[n].store, gc[n].pick.key>> \in stale'
    BY DEF SparesLive
  <2>1. gc[n].store \in Stores /\ gc[n].pick \in Entry
    BY DEF IInv, PassInv
  <2>2. gc[n].pick.key \in Keys /\ gc[n].pick # None
    BY <2>1, GCAssumption DEF Entry
  <2>3. Listed(gc[n].store, gc[n].pick.key)
    BY <2>1, <2>2 DEF Listed
  <2> QED
    BY <2>1, <2>2, <2>3 DEF IInv, SparesLive
<1> QED
  BY <1>1, <1>2, <1>3, <1>4 DEF IInv
\* UpdateUsedBytes keeps a counter a number.
LEMMA UsedType ==
    ASSUME used \in [Stores -> Nat], NEW s \in Stores, NEW d \in Int, UpdateUsedBytes(s, d)
    PROVE  used' \in [Stores -> Nat]
BY DEF UpdateUsedBytes

\* Time passes: the guards of Tick keep uploads young and delays short.
LEMMA TickPreserves == ASSUME IInv, Tick PROVE IInv'
<1> USE GCAssumption
<1>1. now \in Nat /\ now' = now + 1 /\ UNCHANGED <<obj, row, used, upload, lock, gc, stale>>
  BY DEF IInv, TypeOK, Tick
<1>2. TypeOK'
  BY <1>1 DEF IInv, TypeOK, Tick
<1>3. LockInv'
  <2> SUFFICES ASSUME NEW n \in Nodes
               PROVE  /\ gc[n].pc = "idle" => gc[n].deadline = None
                      /\ gc[n].pc = "acquired" => gc[n].deadline = None /\ now' <= gc[n].at + MaxDelay
                      /\ gc[n].pc = "acquired" \/ gc[n].deadline # None =>
                             (now' < gc[n].at + LockTTL =>
                                  lock.holder = n /\ lock.until = gc[n].at + LockTTL)
                      /\ gc[n].deadline # None =>
                             /\ gc[n].deadline <= gc[n].at + MaxDelay + LockTTL
                             /\ gc[n].deadline <= now' + LockTTL
    BY <1>1 DEF LockInv, Started
  <2>1. gc[n].at \in Nat /\ gc[n].deadline \in Nat \cup {None}
    BY DEF IInv, TypeOK, Pass
  <2>2. gc[n].pc = "acquired" => now < gc[n].at + MaxDelay
    BY DEF Tick
  <2> QED
    BY <1>1, <2>1, <2>2 DEF IInv, LockInv, Started
<1>4. UploadInv'
  <2> SUFFICES ASSUME NEW w \in Uploads, upload[w].pc = "stored"
               PROVE  now' <= upload[w].at + MaxUpload
    BY <1>1 DEF IInv, UploadInv
  <2>1. upload[w].at \in Nat /\ now < upload[w].at + MaxUpload
    BY DEF IInv, TypeOK, Upload, Tick
  <2> QED
    BY <1>1, <2>1
<1>5. PassInv' /\ ObjectInv' /\ EntryInv' /\ SparesLive'
  BY <1>1 DEF IInv, PassInv, ObjectInv, EntryInv, SparesLive, Started, Safe, Live, Located
<1> QED
  BY <1>2, <1>3, <1>4, <1>5 DEF IInv

\* New bytes: young, and excepted where a pass has listed the key already.
LEMMA UploadPutPreserves ==
    ASSUME IInv, NEW w \in Uploads, NEW s \in Stores, NEW k \in Keys, UploadPut(w, s, k)
    PROVE  IInv'
<1> USE GCAssumption
<1> DEFINE u == [pc |-> "stored", store |-> s, key |-> k, at |-> now]
<1>1. /\ obj' = [obj EXCEPT ![<<s, k>>] = now] /\ <<s, k>> \in Place
      /\ upload' = [upload EXCEPT ![w] = u]
      /\ UNCHANGED <<now, row, used, lock, gc>>
      /\ \A v \in Uploads : upload[v].key # k
  BY DEF UploadPut, Place
<1>2. now \in Nat /\ obj \in [Place -> Nat \cup {None}] /\ upload \in [Uploads -> Upload]
  BY DEF IInv, TypeOK
<1>3. u \in Upload
  BY <1>2 DEF Upload
<1>4. stale \subseteq stale' /\ (Listed(s, k) => <<s, k>> \in stale') /\ stale' \subseteq Place
  BY <1>1 DEF UploadPut, IInv, TypeOK
<1>5. TypeOK'
  BY <1>1, <1>2, <1>3, <1>4 DEF IInv, TypeOK
<1>6. \A v \in Uploads \ {w} : upload'[v] = upload[v]
  BY <1>1, <1>2
<1>7. upload'[w] = u
  BY <1>1, <1>2
<1>8. \A pl \in Place : obj'[pl] = IF pl = <<s, k>> THEN now ELSE obj[pl]
  BY <1>1, <1>2
<1>9. UploadInv'
  <2> SUFFICES ASSUME NEW v \in Uploads, upload'[v].pc = "stored"
               PROVE  /\ upload'[v].store \in Stores /\ upload'[v].key \in Keys
                      /\ now <= upload'[v].at + MaxUpload
                      /\ obj'[<<upload'[v].store, upload'[v].key>>] \in {None, upload'[v].at}
    BY <1>1 DEF UploadInv
  <2>1. CASE v = w
    BY <2>1, <1>2, <1>7, <1>8, <1>1
  <2>2. CASE v # w
    <3>1. upload'[v] = upload[v] /\ upload[v].key # k
      BY <2>2, <1>6, <1>1
    <3>2. /\ upload[v].store \in Stores /\ upload[v].key \in Keys
          /\ now <= upload[v].at + MaxUpload
          /\ obj[<<upload[v].store, upload[v].key>>] \in {None, upload[v].at}
      BY <3>1 DEF IInv, UploadInv
    <3>3. <<upload[v].store, upload[v].key>> \in Place /\ <<upload[v].store, upload[v].key>> # <<s, k>>
      BY <3>1, <3>2 DEF Place
    <3> QED
      BY <3>1, <3>2, <3>3, <1>8
  <2> QED
    BY <2>1, <2>2
<1>10. \A t \in Stores, j \in Keys : Live(t, j)' => Live(t, j) \/ <<t, j>> = <<s, k>>
  BY <1>1, <1>6, <1>7 DEF Live, Located
<1>11. \A t \in Stores, j \in Keys : <<t, j>> \in Place
  BY DEF Place
<1> QED
  BY <1>1, <1>4, <1>5, <1>8, <1>9, <1>10, <1>11, WorldFrame

\* The row takes over from the upload.
LEMMA UploadRegisterPreserves ==
    ASSUME IInv, NEW w \in Uploads, UploadRegister(w)
    PROVE  IInv'
<1> DEFINE k == upload[w].key
           s == upload[w].store
<1>1. /\ k \in Keys /\ s \in Stores /\ upload[w].pc = "stored"
      /\ row' = [row EXCEPT ![k] = s]
      /\ upload' = [upload EXCEPT ![w] = NoUpload]
      /\ UNCHANGED <<now, obj, lock, gc, stale>>
  BY DEF IInv, UploadInv, UploadRegister
<1>2. used' \in [Stores -> Nat]
  <2>1. (IF row[k] = s THEN 0 ELSE 1) \in Int
    OBVIOUS
  <2> QED
    BY <1>1, <2>1, UsedType DEF IInv, TypeOK, UploadRegister
<1>3. NoUpload \in Upload /\ NoUpload.pc = "idle"
  BY DEF NoUpload, Upload
<1>4. TypeOK'
  BY <1>1, <1>2, <1>3 DEF IInv, TypeOK
<1>5. \A v \in Uploads : upload'[v] = IF v = w THEN NoUpload ELSE upload[v]
  BY <1>1 DEF IInv, TypeOK
<1>6. UploadInv'
  BY <1>1, <1>3, <1>5 DEF IInv, UploadInv
<1>7. \A t \in Stores, j \in Keys : Live(t, j)' => Live(t, j)
  <2> SUFFICES ASSUME NEW t \in Stores, NEW j \in Keys, Live(t, j)'
               PROVE  Live(t, j)
    OBVIOUS
  <2>1. row'[j] = IF j = k THEN s ELSE row[j]
    BY <1>1 DEF IInv, TypeOK
  <2>2. s # Unplaced
    BY <1>1, GCAssumption
  <2> QED
    BY <1>1, <1>3, <1>5, <2>1, <2>2 DEF Live, Located
<1> QED
  BY <1>1, <1>4, <1>6, <1>7, WorldFrame

\* An upload that ends without a row is live no more.
LEMMA UploadAbortPreserves ==
    ASSUME IInv, NEW w \in Uploads, UploadAbort(w)
    PROVE  IInv'
<1>1. /\ upload' = [upload EXCEPT ![w] = NoUpload]
      /\ UNCHANGED <<now, obj, row, used, lock, gc, stale>>
  BY DEF UploadAbort
<1>2. NoUpload \in Upload /\ NoUpload.pc = "idle"
  BY DEF NoUpload, Upload
<1>3. TypeOK'
  BY <1>1, <1>2 DEF IInv, TypeOK
<1>4. \A v \in Uploads : upload'[v] = IF v = w THEN NoUpload ELSE upload[v]
  BY <1>1 DEF IInv, TypeOK
<1>5. UploadInv'
  BY <1>1, <1>2, <1>4 DEF IInv, UploadInv
<1>6. \A t \in Stores, j \in Keys : Live(t, j)' => Live(t, j)
  BY <1>1, <1>2, <1>4 DEF Live, Located
<1> QED
  BY <1>1, <1>3, <1>5, <1>6, WorldFrame
\* A row goes, and its bytes may.
LEMMA DeletePreserves ==
    ASSUME IInv, NEW k \in Keys, Delete(k)
    PROVE  IInv'
<1> USE GCAssumption
<1> DEFINE pl == <<Located(k), k>>
<1>1. /\ row[k] # None /\ row' = [row EXCEPT ![k] = None]
      /\ obj' = [obj EXCEPT ![pl] = None] \/ obj' = obj
      /\ \A v \in Uploads : upload[v].key # k
      /\ UNCHANGED <<now, upload, lock, gc, stale>>
  BY DEF Delete
<1>2. Located(k) \in Stores
  BY <1>1 DEF IInv, TypeOK, Located
<1>3. used' \in [Stores -> Nat]
  BY <1>2, UsedType DEF IInv, TypeOK, Delete
<1>4. pl \in Place /\ obj \in [Place -> Nat \cup {None}]
  BY <1>2 DEF IInv, TypeOK, Place
<1>5. TypeOK'
  BY <1>1, <1>3, <1>4 DEF IInv, TypeOK
<1>6. \A q \in Place : obj'[q] = obj[q] \/ (q = pl /\ obj'[q] = None)
  BY <1>1, <1>4
<1>7. UploadInv'
  <2> SUFFICES ASSUME NEW v \in Uploads, upload[v].pc = "stored"
               PROVE  obj'[<<upload[v].store, upload[v].key>>] \in {None, upload[v].at}
    BY <1>1 DEF IInv, UploadInv
  <2>1. /\ <<upload[v].store, upload[v].key>> \in Place
        /\ obj[<<upload[v].store, upload[v].key>>] \in {None, upload[v].at}
    BY DEF IInv, UploadInv, Place
  <2> QED
    BY <2>1, <1>6
<1>8. \A t \in Stores, j \in Keys : Live(t, j)' => Live(t, j) /\ <<t, j>> \in Place
  <2> SUFFICES ASSUME NEW t \in Stores, NEW j \in Keys, Live(t, j)'
               PROVE  Live(t, j)
    BY DEF Place
  <2>1. row'[j] = IF j = k THEN None ELSE row[j]
    BY <1>1 DEF IInv, TypeOK
  <2> QED
    BY <1>1, <2>1 DEF Live, Located
<1> QED
  BY <1>1, <1>5, <1>6, <1>7, <1>8, WorldFrame

\* A moved key is live in another store: with new bytes, or excepted.
LEMMA MigratePreserves ==
    ASSUME IInv, NEW k \in Keys, NEW t \in Stores, Migrate(k, t)
    PROVE  IInv'
<1> USE GCAssumption
<1> DEFINE r == row[k]
<1>1. /\ r \in Stores /\ r # t /\ row' = [row EXCEPT ![k] = t]
      /\ \A v \in Uploads : upload[v].key # k
      /\ UNCHANGED <<now, upload, lock, gc>>
  BY DEF Migrate
<1>2. /\ <<t, k>> \in Place /\ <<r, k>> \in Place /\ <<t, k>> # <<r, k>>
      /\ obj \in [Place -> Nat \cup {None}] /\ now \in Nat
      /\ used \in [Stores -> Nat]
  BY <1>1 DEF IInv, TypeOK, Place
<1>3. \/ /\ obj' = [obj EXCEPT ![<<t, k>>] = now, ![<<r, k>>] = None]
         /\ used' = [used EXCEPT ![t] = @ + 1, ![r] = IF @ = 0 THEN 0 ELSE @ - 1]
         /\ stale' = IF Listed(t, k) THEN stale \cup {<<t, k>>} ELSE stale
      \/ /\ obj' = [obj EXCEPT ![<<r, k>>] = None]
         /\ UpdateUsedBytes(r, -1)
         /\ stale' = IF Running # {} THEN stale \cup {<<t, k>>} ELSE stale
  BY DEF Migrate
<1>4. used' \in [Stores -> Nat]
  <2>1. CASE used' = [used EXCEPT ![t] = @ + 1, ![r] = IF @ = 0 THEN 0 ELSE @ - 1]
    BY <2>1, <1>1, <1>2
  <2>2. CASE UpdateUsedBytes(r, -1)
    BY <2>2, <1>1, <1>2, UsedType
  <2> QED
    BY <1>3, <2>1, <2>2
<1>5. obj' \in [Place -> Nat \cup {None}] /\ stale \subseteq stale' /\ stale' \subseteq Place
  BY <1>2, <1>3 DEF IInv, TypeOK
<1>6. TypeOK'
  BY <1>1, <1>4, <1>5 DEF IInv, TypeOK
<1>7. \A q \in Place : q # <<t, k>> => obj'[q] = obj[q] \/ obj'[q] = None
  BY <1>2, <1>3
<1>8. \/ obj'[<<t, k>>] = now /\ (Listed(t, k) => <<t, k>> \in stale')
      \/ Running = {} \/ <<t, k>> \in stale'
  BY <1>2, <1>3
<1>9. UploadInv'
  <2> SUFFICES ASSUME NEW v \in Uploads, upload[v].pc = "stored"
               PROVE  obj'[<<upload[v].store, upload[v].key>>] \in {None, upload[v].at}
    BY <1>1 DEF IInv, UploadInv
  <2>1. /\ <<upload[v].store, upload[v].key>> \in Place
        /\ <<upload[v].store, upload[v].key>> # <<t, k>>
        /\ obj[<<upload[v].store, upload[v].key>>] \in {None, upload[v].at}
    BY <1>1 DEF IInv, UploadInv, Place
  <2> QED
    BY <2>1, <1>7
<1>10. \A s \in Stores, j \in Keys :
          <<s, j>> \in Place /\ (Live(s, j)' => Live(s, j) \/ <<s, j>> = <<t, k>>)
  <2> SUFFICES ASSUME NEW s \in Stores, NEW j \in Keys, Live(s, j)', <<s, j>> # <<t, k>>
               PROVE  Live(s, j)
    BY DEF Place
  <2>1. row'[j] = IF j = k THEN t ELSE row[j]
    BY <1>1 DEF IInv, TypeOK
  <2> QED
    BY <1>1, <2>1 DEF Live, Located
<1>11. Listed(t, k) => Running # {}
  <2> SUFFICES ASSUME NEW n \in Nodes, gc[n].store = t,
                      NEW e \in gc[n].entries \cup {gc[n].pick}, e # None
               PROVE  n \in Running
    BY DEF Listed
  <2>1. gc[n].pc = "idle" => gc[n].entries = {} /\ gc[n].pick = None
    BY DEF IInv, PassInv
  <2> QED
    BY <2>1 DEF Running
<1> QED
  BY <1>1, <1>5, <1>6, <1>7, <1>8, <1>9, <1>10, <1>11, WorldFrame
\* A step of one pass leaves clients and the other passes as they are; what the
\* invariant says of this pass is assumed.
LEMMA PassFrame ==
    ASSUME IInv, NEW n \in Nodes, NEW g \in Pass, TypeOK', LockInv',
           UNCHANGED <<now, row, upload, stale>>,
           gc' = [gc EXCEPT ![n] = g],
           \A pl \in Place : obj'[pl] = obj[pl] \/ obj'[pl] = None,
           g.entries # {} => g.pc \in {"judge", "delete"},
           g.pick # None => g.pc = "delete",
           g.pc \in {"judge", "delete", "count"} => g.store \in Stores,
           g.pc = "delete" => g.pick \in Entry,
           g.deadline # None /\ g.pc \in After =>
               /\ \A s \in Stores, k \in Keys :
                      Live(s, k) /\ obj[<<s, k>>] # None => Safe(g, s, k, obj[<<s, k>>])
               /\ \A e \in g.entries : Live(g.store, e.key) => Safe(g, g.store, e.key, e.mod),
           g.pc = "delete" /\ g.deadline # None =>
               ~Live(g.store, g.pick.key) \/ <<g.store, g.pick.key>> \in stale
    PROVE  IInv'
<1>1. gc'[n] = g /\ \A m \in Nodes \ {n} : gc'[m] = gc[m]
  BY DEF IInv, TypeOK
<1>2. \A s \in Stores, k \in Keys : Live(s, k)' <=> Live(s, k)
  BY LiveSame
<1>3. PassInv'
  BY <1>1 DEF IInv, PassInv
<1>4. UploadInv'
  <2> SUFFICES ASSUME NEW v \in Uploads, upload[v].pc = "stored"
               PROVE  obj'[<<upload[v].store, upload[v].key>>] \in {None, upload[v].at}
    BY DEF IInv, UploadInv
  <2>1. /\ <<upload[v].store, upload[v].key>> \in Place
        /\ obj[<<upload[v].store, upload[v].key>>] \in {None, upload[v].at}
    BY DEF IInv, UploadInv, Place
  <2> QED
    BY <2>1
<1>5. ObjectInv'
  <2> SUFFICES ASSUME NEW m \in Nodes, NEW s \in Stores, NEW k \in Keys,
                      Started(m)', gc'[m].pc \in After, Live(s, k)', obj'[<<s, k>>] # None
               PROVE  Safe(gc[m], s, k, obj[<<s, k>>])'
    BY DEF ObjectInv
  <2>1. obj'[<<s, k>>] = obj[<<s, k>>] /\ Live(s, k)
    BY <1>2 DEF Place
  <2>2. CASE m = n
    BY <2>1, <2>2, <1>1 DEF Safe, Started
  <2>3. CASE m # n
    BY <2>1, <2>3, <1>1 DEF IInv, ObjectInv, Safe, Started
  <2> QED
    BY <2>2, <2>3
<1>6. EntryInv'
  <2> SUFFICES ASSUME NEW m \in Nodes, NEW e \in gc'[m].entries,
                      Started(m)', gc'[m].pc \in After, Live(gc[m].store, e.key)'
               PROVE  Safe(gc[m], gc[m].store, e.key, e.mod)'
    BY DEF EntryInv
  <2>1. gc'[m].store \in Stores /\ e.key \in Keys
    BY <1>3 DEF PassInv, TypeOK, Pass, Entry
  <2>2. Live(gc'[m].store, e.key)
    BY <2>1 DEF Live, Located
  <2>3. CASE m = n
    BY <2>2, <2>3, <1>1 DEF Safe, Started
  <2>4. CASE m # n
    BY <2>2, <2>4, <1>1 DEF IInv, EntryInv, Safe, Started
  <2> QED
    BY <2>3, <2>4
<1>7. SparesLive'
  <2> SUFFICES ASSUME NEW m \in Nodes, gc'[m].pc = "delete", gc'[m].deadline # None,
                      Live(gc[m].store, gc[m].pick.key)'
               PROVE  <<gc'[m].store, gc'[m].pick.key>> \in stale
    BY DEF SparesLive
  <2>1. Live(gc'[m].store, gc'[m].pick.key)
    BY DEF Live, Located
  <2>2. CASE m = n
    BY <2>1, <2>2, <1>1
  <2>3. CASE m # n
    BY <2>1, <2>3, <1>1 DEF IInv, SparesLive
  <2> QED
    BY <2>2, <2>3
<1> QED
  BY <1>3, <1>4, <1>5, <1>6, <1>7 DEF IInv

\* LockInv after a step of one pass that touches neither the lock nor the clock.
LEMMA LockFrame ==
    ASSUME IInv, NEW n \in Nodes, NEW g \in Pass, UNCHANGED <<now, lock>>,
           gc' = [gc EXCEPT ![n] = g],
           g.pc \notin {"idle", "acquired"} \/ g.deadline = None,
           g.pc # "acquired",
           g.deadline # None => g.deadline = gc[n].deadline /\ g.at = gc[n].at
    PROVE  LockInv'
<1>1. gc'[n] = g /\ \A m \in Nodes \ {n} : gc'[m] = gc[m]
  BY DEF IInv, TypeOK
<1> QED
  BY <1>1 DEF IInv, LockInv, Started

\* Acquire: nobody else's lock can be valid, or the key would not be free.
LEMMA AcquirePreserves ==
    ASSUME IInv, NEW n \in Nodes, Acquire(n)
    PROVE  IInv'
<1> USE GCAssumption
<1> DEFINE g == NewPass("acquired", now, Stores)
<1>1. g.pc = "acquired" /\ g.deadline = None /\ g.at = now /\ g.entries = {} /\ g.pick = None
  BY DEF NewPass
<1>2. now \in Nat /\ g \in Pass
  BY DEF IInv, TypeOK, Pass, PassPC, NewPass
<1>3. /\ gc' = [gc EXCEPT ![n] = g]
      /\ lock' = [holder |-> n, until |-> now + LockTTL]
      /\ lock.holder = None \/ now >= lock.until
      /\ UNCHANGED <<now, obj, row, used, upload, stale>>
  BY DEF Acquire
<1>4. TypeOK'
  BY <1>2, <1>3 DEF IInv, TypeOK
<1>5. LockInv'
  <2> SUFFICES ASSUME NEW m \in Nodes
               PROVE  /\ gc'[m].pc = "idle" => gc'[m].deadline = None
                      /\ gc'[m].pc = "acquired" => gc'[m].deadline = None /\ now <= gc'[m].at + MaxDelay
                      /\ gc'[m].pc = "acquired" \/ gc'[m].deadline # None =>
                             (now < gc'[m].at + LockTTL =>
                                  lock'.holder = m /\ lock'.until = gc'[m].at + LockTTL)
                      /\ gc'[m].deadline # None =>
                             /\ gc'[m].deadline <= gc'[m].at + MaxDelay + LockTTL
                             /\ gc'[m].deadline <= now + LockTTL
    BY <1>3 DEF LockInv, Started
  <2>1. CASE m = n
    <3>1. gc'[m] = g
      BY <1>3, <2>1 DEF IInv, TypeOK
    <3> HIDE DEF g
    <3> QED
      BY <1>1, <1>2, <1>3, <2>1, <3>1
  <2>2. CASE m # n
    <3>1. gc'[m] = gc[m]
      BY <1>3, <2>2 DEF IInv, TypeOK
    <3>2. gc[m].at \in Nat
      BY DEF IInv, TypeOK, Pass
    <3>3. gc[m].pc = "acquired" \/ gc[m].deadline # None => ~(now < gc[m].at + LockTTL)
      BY <1>2, <1>3, <3>2 DEF IInv, LockInv, Started
    <3> QED
      BY <3>1, <3>3 DEF IInv, LockInv, Started
  <2> QED
    BY <2>1, <2>2
<1> QED
  <2> HIDE DEF g
  <2> QED
    BY <1>1, <1>2, <1>3, <1>4, <1>5, PassFrame DEF After

\* The deadline is one TTL from a moment the delay bounds.
LEMMA SetDeadlinePreserves ==
    ASSUME IInv, NEW n \in Nodes, SetDeadline(n)
    PROVE  IInv'
<1> USE GCAssumption
<1> DEFINE h == [gc[n] EXCEPT !.pc = "snapshot"]
           g == [h EXCEPT !.deadline = now + LockTTL]
<1>1. now \in Nat /\ gc[n] \in Pass /\ gc[n].pc = "acquired"
  BY DEF IInv, TypeOK, SetDeadline
<1>2. g \in Pass /\ g.pc = "snapshot" /\ g.deadline = now + LockTTL /\ g.at = gc[n].at
      /\ g.entries = gc[n].entries /\ g.pick = gc[n].pick
  <2>1. h \in Pass
    BY <1>1 DEF Pass, PassPC
  <2>2. g \in Pass
    <3> HIDE DEF h
    <3> QED
      BY <1>1, <2>1 DEF Pass
  <2> QED
    BY <1>1, <2>2 DEF Pass
<1>3. /\ gc' = [gc EXCEPT ![n] = g]
      /\ UNCHANGED <<now, obj, row, used, upload, lock, stale>>
  BY DEF SetDeadline, IInv, TypeOK
<1>4. g.entries = {} /\ g.pick = None
  BY <1>1, <1>2 DEF IInv, PassInv
<1> HIDE DEF g
<1>5. TypeOK'
  BY <1>2, <1>3 DEF IInv, TypeOK
<1>6. gc'[n] = g /\ \A m \in Nodes \ {n} : gc'[m] = gc[m]
  BY <1>3 DEF IInv, TypeOK
<1>7. LockInv'
  <2>1. gc[n].at \in Nat /\ now <= gc[n].at + MaxDelay
        /\ (now < gc[n].at + LockTTL => lock.holder = n /\ lock.until = gc[n].at + LockTTL)
    BY <1>1 DEF IInv, LockInv, Pass
  <2>2. now + LockTTL <= gc[n].at + MaxDelay + LockTTL
    BY <1>1, <2>1
  <2> QED
    BY <1>1, <1>2, <1>3, <1>6, <2>1, <2>2 DEF IInv, LockInv, Started
<1> QED
  BY <1>2, <1>3, <1>4, <1>5, <1>7, PassFrame DEF After

\* A compaction without a lock has no deadline.
LEMMA CompactStorePreserves ==
    ASSUME IInv, NEW n \in Nodes, NEW s \in Stores, CompactStore(n, s)
    PROVE  IInv'
<1> USE GCAssumption
<1> DEFINE g == NewPass("snapshot", 0, {s})
<1>2. g \in Pass
  BY DEF Pass, PassPC, NewPass
<1>3. /\ gc' = [gc EXCEPT ![n] = g]
      /\ UNCHANGED <<now, obj, row, used, upload, lock, stale>>
  BY DEF CompactStore
<1>4. g.pc = "snapshot" /\ g.deadline = None /\ g.entries = {} /\ g.pick = None
  BY DEF NewPass
<1> HIDE DEF g
<1>5. TypeOK'
  BY <1>2, <1>3 DEF IInv, TypeOK
<1>6. LockInv'
  BY <1>2, <1>3, <1>4, LockFrame
<1> QED
  BY <1>2, <1>3, <1>4, <1>5, <1>6, PassFrame DEF After

\* Every live object is referenced now, or is an upload's, which is young.
LEMMA SnapshotPreserves ==
    ASSUME IInv, NEW n \in Nodes, Snapshot(n)
    PROVE  IInv'
<1> USE GCAssumption
<1> DEFINE g == [gc[n] EXCEPT !.pc = "list", !.refs = Referenced]
<1>1. now \in Nat /\ gc[n] \in Pass /\ gc[n].pc = "snapshot" /\ Referenced \subseteq Place
  BY DEF IInv, TypeOK, Snapshot, Referenced
<1>2. g \in Pass /\ g.pc = "list" /\ g.refs = Referenced /\ g.deadline = gc[n].deadline
      /\ g.at = gc[n].at /\ g.entries = gc[n].entries /\ g.pick = gc[n].pick
  BY <1>1 DEF Pass, PassPC
<1>3. /\ gc' = [gc EXCEPT ![n] = g]
      /\ UNCHANGED <<now, obj, row, used, upload, lock, stale>>
  BY DEF Snapshot, IInv, TypeOK
<1>4. g.entries = {} /\ g.pick = None
  BY <1>1, <1>2 DEF IInv, PassInv
<1> HIDE DEF g
<1>5. TypeOK'
  BY <1>2, <1>3 DEF IInv, TypeOK
<1>6. LockInv'
  BY <1>2, <1>3, LockFrame
<1>7. ASSUME g.deadline # None, NEW s \in Stores, NEW k \in Keys,
             Live(s, k), obj[<<s, k>>] # None
      PROVE  Safe(g, s, k, obj[<<s, k>>])
  <2>1. CASE row[k] # None /\ Located(k) = s
    <3>1. <<s, k>> \in Referenced
      BY <2>1 DEF Referenced, Located, Place
    <3> QED
      BY <3>1, <1>2 DEF Safe
  <2>2. ASSUME NEW w \in Uploads, upload[w].pc = "stored", upload[w].store = s, upload[w].key = k
        PROVE  Safe(g, s, k, obj[<<s, k>>])
    <3>1. now <= upload[w].at + MaxUpload /\ obj[<<s, k>>] = upload[w].at /\ upload[w].at \in Nat
      BY <1>7, <2>2 DEF IInv, UploadInv, TypeOK, Upload
    <3>2. gc[n].deadline <= now + LockTTL /\ gc[n].deadline \in Nat
      BY <1>1, <1>2, <1>7 DEF IInv, LockInv, Started, Pass
    <3> QED
      BY <1>1, <1>2, <3>1, <3>2 DEF Safe
  <2> QED
    BY <1>7, <2>1, <2>2 DEF Live
<1> QED
  BY <1>2, <1>3, <1>4, <1>5, <1>6, <1>7, PassFrame
\* The listing shows each object with its current time.
LEMMA ListEntriesPreserves ==
    ASSUME IInv, NEW n \in Nodes, ListEntries(n)
    PROVE  IInv'
<1> USE GCAssumption
<1>1. PICK s \in gc[n].todo :
        gc' = [gc EXCEPT ![n].pc = "judge", ![n].store = s, ![n].todo = @ \ {s}, ![n].removed = 0,
                ![n].entries = {[key |-> k, mod |-> obj[<<s, k>>]] :
                                    k \in {j \in Keys : obj[<<s, j>>] # None}}]
  BY DEF ListEntries
<1> DEFINE E == {[key |-> k, mod |-> obj[<<s, k>>]] : k \in {j \in Keys : obj[<<s, j>>] # None}}
           g == [pc |-> "judge", deadline |-> gc[n].deadline, at |-> gc[n].at,
                 refs |-> gc[n].refs, todo |-> gc[n].todo \ {s}, store |-> s, entries |-> E,
                 pick |-> gc[n].pick, removed |-> 0]
<1>2. gc[n] \in Pass /\ gc[n].pc = "list" /\ s \in Stores /\ gc[n].pick = None
      /\ UNCHANGED <<now, obj, row, used, upload, lock, stale>>
  BY DEF IInv, TypeOK, ListEntries, Pass, PassInv
<1>3. E \subseteq Entry
  <2> SUFFICES ASSUME NEW k \in Keys, obj[<<s, k>>] # None
               PROVE  [key |-> k, mod |-> obj[<<s, k>>]] \in Entry
    OBVIOUS
  <2>1. <<s, k>> \in Place
    BY <1>2 DEF Place
  <2>2. obj[<<s, k>>] \in Nat
    BY <2>1 DEF IInv, TypeOK
  <2> QED
    BY <2>2 DEF Entry
<1>4. gc' = [gc EXCEPT ![n] = g]
  <2> HIDE DEF E
  <2>1. gc' = [gc EXCEPT ![n].pc = "judge", ![n].store = s, ![n].todo = @ \ {s}, ![n].removed = 0,
                         ![n].entries = E]
    BY <1>1 DEF E
  <2> QED
    BY <2>1, <1>2 DEF IInv, TypeOK, Pass
<1>5. g \in Pass
  <2> HIDE DEF E
  <2> QED
    BY <1>2, <1>3 DEF Pass, PassPC
<1>6. /\ g.pc = "judge" /\ g.deadline = gc[n].deadline /\ g.at = gc[n].at
      /\ g.refs = gc[n].refs /\ g.store = s /\ g.entries = E /\ g.pick = None
  BY <1>2
<1>7. \A e \in E : e.key \in Keys /\ e.mod = obj[<<s, e.key>>] /\ obj[<<s, e.key>>] # None
  <2> TAKE e \in E
  <2>1. PICK k \in Keys : obj[<<s, k>>] # None /\ e = [key |-> k, mod |-> obj[<<s, k>>]]
    OBVIOUS
  <2>2. e.key = k /\ e.mod = obj[<<s, k>>]
    BY <2>1
  <2> QED
    BY <2>1, <2>2
<1> HIDE DEF g, E
<1>8. TypeOK'
  BY <1>2, <1>4, <1>5 DEF IInv, TypeOK
<1>9. LockInv'
  BY <1>2, <1>4, <1>5, <1>6, LockFrame
<1>10. ASSUME g.deadline # None, NEW t \in Stores, NEW k \in Keys,
              Live(t, k), obj[<<t, k>>] # None
       PROVE  Safe(g, t, k, obj[<<t, k>>])
  BY <1>2, <1>6, <1>10 DEF IInv, ObjectInv, Safe, Started, After
<1> QED
  BY <1>2, <1>4, <1>5, <1>6, <1>7, <1>8, <1>9, <1>10, PassFrame

\* A pass that skips something: an entry, a store.
LEMMA SkipPreserves ==
    ASSUME IInv, NEW n \in Nodes, NEW g \in Pass, gc' = [gc EXCEPT ![n] = g],
           UNCHANGED <<now, row, upload, lock, stale>>, used' \in [Stores -> Nat],
           obj' \in [Place -> Nat \cup {None}],
           \A pl \in Place : obj'[pl] = obj[pl] \/ obj'[pl] = None,
           gc[n].pc \in After, g.pc \in {"list", "judge", "count"},
           g.pc # "list" => g.store = gc[n].store /\ gc[n].store \in Stores,
           g.entries \subseteq gc[n].entries, g.pc # "judge" => g.entries = {},
           g.pick = None, g.deadline = gc[n].deadline, g.at = gc[n].at, g.refs = gc[n].refs
    PROVE  IInv'
<1>1. TypeOK'
  BY DEF IInv, TypeOK
<1>2. LockInv'
  BY LockFrame
<1>3. ASSUME g.deadline # None, NEW t \in Stores, NEW k \in Keys,
             Live(t, k), obj[<<t, k>>] # None
      PROVE  Safe(g, t, k, obj[<<t, k>>])
  BY <1>3 DEF IInv, ObjectInv, Safe, Started
<1>4. ASSUME g.deadline # None, NEW e \in g.entries, Live(g.store, e.key)
      PROVE  Safe(g, g.store, e.key, e.mod)
  BY <1>4 DEF IInv, EntryInv, Safe, Started
<1> QED
  BY <1>1, <1>2, <1>3, <1>4, PassFrame

\* A store that cannot be listed is passed over.
LEMMA ListFailsPreserves ==
    ASSUME IInv, NEW n \in Nodes, ListFails(n)
    PROVE  IInv'
<1>1. PICK s \in gc[n].todo : gc' = [gc EXCEPT ![n].todo = @ \ {s}]
  BY DEF ListFails
<1> DEFINE g == [gc[n] EXCEPT !.todo = @ \ {s}]
<1>2. gc[n] \in Pass /\ gc[n].pc = "list" /\ gc[n].entries = {} /\ gc[n].pick = None
      /\ UNCHANGED <<now, obj, row, used, upload, lock, stale>>
  BY DEF IInv, TypeOK, PassInv, ListFails
<1>3. g \in Pass /\ g.pc = "list" /\ g.deadline = gc[n].deadline /\ g.at = gc[n].at
      /\ g.refs = gc[n].refs /\ g.entries = {} /\ g.pick = None
  BY <1>2 DEF Pass
<1>4. gc' = [gc EXCEPT ![n] = g]
  BY <1>1 DEF IInv, TypeOK
<1>5. used' \in [Stores -> Nat] /\ obj' \in [Place -> Nat \cup {None}]
  BY <1>2 DEF IInv, TypeOK
<1> HIDE DEF g
<1> QED
  BY <1>2, <1>3, <1>4, <1>5, SkipPreserves DEF After

\* The age gate: before its deadline, the pass finds every entry that became live
\* after the snapshot too young, for MinAge covers the TTL and an upload.
LEMMA JudgePreserves ==
    ASSUME IInv, NEW n \in Nodes, Judge(n)
    PROVE  IInv'
<1> USE GCAssumption
<1>1. PICK e \in gc[n].entries :
        IF <<gc[n].store, e.key>> \in gc[n].refs \/ now - e.mod < MinAge
        THEN gc' = [gc EXCEPT ![n].entries = @ \ {e}]
        ELSE gc' = [gc EXCEPT ![n].entries = @ \ {e}, ![n].pick = e, ![n].pc = "delete"]
  BY DEF Judge
<1>2. gc[n] \in Pass /\ gc[n].pc = "judge" /\ gc[n].pick = None /\ gc[n].store \in Stores
      /\ UNCHANGED <<now, obj, row, used, upload, lock, stale>>
  BY DEF IInv, TypeOK, PassInv, Judge
<1>3. e \in Entry /\ e.mod \in Nat /\ now \in Nat
  BY <1>2 DEF Pass, Entry, IInv, TypeOK
<1>4. used' \in [Stores -> Nat] /\ obj' \in [Place -> Nat \cup {None}]
  BY <1>2 DEF IInv, TypeOK
<1>5. CASE <<gc[n].store, e.key>> \in gc[n].refs \/ now - e.mod < MinAge
  <2> DEFINE g == [gc[n] EXCEPT !.entries = @ \ {e}]
  <2>1. g \in Pass /\ g.pc = "judge" /\ g.deadline = gc[n].deadline /\ g.at = gc[n].at
        /\ g.refs = gc[n].refs /\ g.entries \subseteq gc[n].entries /\ g.pick = None
        /\ g.store = gc[n].store
    BY <1>2 DEF Pass
  <2>2. gc' = [gc EXCEPT ![n] = g]
    BY <1>1, <1>5 DEF IInv, TypeOK
  <2> HIDE DEF g
  <2> QED
    BY <1>2, <1>4, <2>1, <2>2, SkipPreserves DEF After
<1>6. CASE ~(<<gc[n].store, e.key>> \in gc[n].refs \/ now - e.mod < MinAge)
  <2> DEFINE g == [pc |-> "delete", deadline |-> gc[n].deadline, at |-> gc[n].at,
                   refs |-> gc[n].refs, todo |-> gc[n].todo, store |-> gc[n].store,
                   entries |-> gc[n].entries \ {e}, pick |-> e, removed |-> gc[n].removed]
  <2>1. g \in Pass /\ g.pc = "delete" /\ g.deadline = gc[n].deadline /\ g.at = gc[n].at
        /\ g.refs = gc[n].refs /\ g.entries \subseteq gc[n].entries /\ g.pick = e
        /\ g.store = gc[n].store
    BY <1>2, <1>3 DEF Pass, PassPC
  <2>2. gc' = [gc EXCEPT ![n] = g]
    BY <1>1, <1>2, <1>6 DEF IInv, TypeOK, Pass
  <2> HIDE DEF g
  <2>3. TypeOK'
    BY <1>2, <2>1, <2>2 DEF IInv, TypeOK
  <2>4. LockInv'
    BY <1>2, <2>1, <2>2, LockFrame
  <2>5. ASSUME g.deadline # None, NEW t \in Stores, NEW k \in Keys,
               Live(t, k), obj[<<t, k>>] # None
        PROVE  Safe(g, t, k, obj[<<t, k>>])
    BY <1>2, <2>1, <2>5 DEF IInv, ObjectInv, Safe, Started, After
  <2>6. ASSUME g.deadline # None, NEW d \in g.entries, Live(g.store, d.key)
        PROVE  Safe(g, g.store, d.key, d.mod)
    BY <1>2, <2>1, <2>6 DEF IInv, EntryInv, Safe, Started, After
  <2>7. ASSUME g.deadline # None, Live(g.store, g.pick.key)
        PROVE  <<g.store, g.pick.key>> \in stale
    <3>1. Safe(gc[n], gc[n].store, e.key, e.mod)
      BY <1>2, <2>1, <2>7 DEF IInv, EntryInv, Started, After
    <3>2. gc[n].deadline \in Nat /\ now < gc[n].deadline
      BY <1>2, <1>3, <2>1, <2>7 DEF Pass, Judge, PastDeadline
    <3>3. ~(e.mod + MaxUpload >= gc[n].deadline - LockTTL)
      BY <1>3, <1>6, <3>2
    <3> QED
      BY <1>6, <2>1, <3>1, <3>3 DEF Safe
  <2> QED
    BY <1>2, <1>3, <2>1, <2>2, <2>3, <2>4, <2>5, <2>6, <2>7, PassFrame DEF After
<1> QED
  BY <1>5, <1>6

\* The rest of the listing is dropped.
LEMMA JudgeEndsPreserves ==
    ASSUME IInv, NEW n \in Nodes, JudgeEnds(n)
    PROVE  IInv'
<1> DEFINE g == [gc[n] EXCEPT !.pc = "count", !.entries = {}]
<1>1. gc[n] \in Pass /\ gc[n].pc = "judge" /\ gc[n].pick = None /\ gc[n].store \in Stores
      /\ UNCHANGED <<now, obj, row, used, upload, lock, stale>>
  BY DEF IInv, TypeOK, PassInv, JudgeEnds
<1>2. g \in Pass /\ g.pc = "count" /\ g.deadline = gc[n].deadline /\ g.at = gc[n].at
      /\ g.refs = gc[n].refs /\ g.entries = {} /\ g.pick = None /\ g.store = gc[n].store
  BY <1>1 DEF Pass, PassPC
<1>3. gc' = [gc EXCEPT ![n] = g]
  BY DEF JudgeEnds, IInv, TypeOK
<1>4. used' \in [Stores -> Nat] /\ obj' \in [Place -> Nat \cup {None}]
  BY <1>1 DEF IInv, TypeOK
<1> HIDE DEF g
<1> QED
  BY <1>1, <1>2, <1>3, <1>4, SkipPreserves DEF After

\* The object goes, or its delete fails.
LEMMA DeleteOrphanPreserves ==
    ASSUME IInv, NEW n \in Nodes, DeleteOrphan(n)
    PROVE  IInv'
<1> USE GCAssumption
<1> DEFINE pl == <<gc[n].store, gc[n].pick.key>>
           h == [gc[n] EXCEPT !.pc = "judge"]
           q == [h EXCEPT !.pick = None]
           g(r) == [q EXCEPT !.removed = r]
<1>1. gc[n] \in Pass /\ gc[n].pc = "delete" /\ gc[n].store \in Stores /\ gc[n].pick \in Entry
      /\ UNCHANGED <<now, row, used, upload, lock, stale>>
  BY DEF IInv, TypeOK, PassInv, DeleteOrphan
<1>2. gc[n].removed \in Nat /\ pl \in Place /\ obj \in [Place -> Nat \cup {None}]
  BY <1>1 DEF Pass, Entry, Place, IInv, TypeOK
<1>3. h \in Pass /\ q \in Pass
  <2>1. h \in Pass
    BY <1>1 DEF Pass, PassPC
  <2> HIDE DEF h
  <2> QED
    BY <2>1 DEF Pass
<1>4. \A r \in Nat :
        /\ g(r) \in Pass /\ g(r).pc = "judge" /\ g(r).deadline = gc[n].deadline
        /\ g(r).at = gc[n].at /\ g(r).refs = gc[n].refs /\ g(r).entries = gc[n].entries
        /\ g(r).pick = None /\ g(r).store = gc[n].store
  <2> TAKE r \in Nat
  <2>1. g(r) \in Pass
    <3> HIDE DEF q
    <3> QED
      BY <1>3 DEF Pass
  <2> QED
    BY <1>1, <2>1 DEF Pass
<1>5. obj' = [obj EXCEPT ![pl] = None] \/ obj' = obj
  BY DEF DeleteOrphan
<1>6. obj' \in [Place -> Nat \cup {None}] /\ \A x \in Place : obj'[x] = obj[x] \/ obj'[x] = None
  BY <1>2, <1>5
<1>7. used' \in [Stores -> Nat]
  BY <1>1 DEF IInv, TypeOK
<1>8. \E r \in Nat : gc' = [gc EXCEPT ![n] = g(r)]
  <2>1. CASE gc' = [gc EXCEPT ![n].pc = "judge", ![n].pick = None, ![n].removed = @ + 1]
    <3>1. gc' = [gc EXCEPT ![n] = g(gc[n].removed + 1)]
      BY <1>1, <2>1 DEF IInv, TypeOK, Pass
    <3>2. gc[n].removed + 1 \in Nat
      BY <1>2
    <3> HIDE DEF g
    <3> QED
      BY <3>1, <3>2
  <2>2. CASE gc' = [gc EXCEPT ![n].pc = "judge", ![n].pick = None]
    <3>1. q = g(gc[n].removed)
      BY <1>1, <1>3 DEF Pass
    <3>2. gc' = [gc EXCEPT ![n] = q]
      BY <2>2 DEF IInv, TypeOK
    <3> HIDE DEF g, q
    <3> QED
      BY <1>2, <3>1, <3>2
  <2> QED
    BY <2>1, <2>2 DEF DeleteOrphan
<1> HIDE DEF g
<1> QED
  BY <1>1, <1>4, <1>6, <1>7, <1>8, SkipPreserves DEF After

\* The space is given back.
LEMMA CountPreserves ==
    ASSUME IInv, NEW n \in Nodes, Count(n)
    PROVE  IInv'
<1> DEFINE h == [gc[n] EXCEPT !.pc = "list"]
           q == [h EXCEPT !.store = None]
           g == [q EXCEPT !.removed = 0]
<1>1. gc[n] \in Pass /\ gc[n].pc = "count" /\ gc[n].store \in Stores
      /\ gc[n].entries = {} /\ gc[n].pick = None
      /\ UNCHANGED <<now, obj, row, upload, lock, stale>>
  BY DEF IInv, TypeOK, PassInv, Count
<1>2. g \in Pass /\ g.pc = "list" /\ g.deadline = gc[n].deadline /\ g.at = gc[n].at
      /\ g.refs = gc[n].refs /\ g.entries = {} /\ g.pick = None
  <2>1. h \in Pass
    BY <1>1 DEF Pass, PassPC
  <2>2. q \in Pass
    <3> HIDE DEF h
    <3> QED
      BY <2>1 DEF Pass
  <2>3. g \in Pass
    <3> HIDE DEF q
    <3> QED
      BY <2>2 DEF Pass
  <2> QED
    BY <1>1, <2>3 DEF Pass
<1>3. gc' = [gc EXCEPT ![n] = g]
  BY DEF Count, IInv, TypeOK
<1>4. used' \in [Stores -> Nat]
  <2>1. -gc[n].removed \in Int
    BY <1>1 DEF Pass
  <2> QED
    BY <1>1, <2>1, UsedType DEF Count, IInv, TypeOK
<1>5. obj' \in [Place -> Nat \cup {None}]
  BY <1>1 DEF IInv, TypeOK
<1> HIDE DEF g
<1> QED
  BY <1>1, <1>2, <1>3, <1>4, <1>5, SkipPreserves DEF After

\* A pass ends and gives up the lock if it is still its own, or dies with it.
LEMMA LeavePreserves ==
    ASSUME IInv, NEW n \in Nodes, End(n) \/ Crash(n)
    PROVE  IInv'
<1> USE GCAssumption
<1>1. /\ gc' = [gc EXCEPT ![n] = NoPass]
      /\ lock' = lock \/ (lock.holder = n /\ lock' = FreeLock)
      /\ UNCHANGED <<now, obj, row, used, upload, stale>>
  BY DEF End, Crash, Release
<1>2. NoPass \in Pass /\ NoPass.pc = "idle" /\ NoPass.deadline = None /\ NoPass.entries = {}
      /\ NoPass.pick = None
  BY DEF NoPass, NewPass, Pass, PassPC
<1>3. FreeLock \in [holder : Nodes \cup {None}, until : Nat]
  BY DEF FreeLock
<1>4. TypeOK'
  BY <1>1, <1>2, <1>3 DEF IInv, TypeOK
<1>5. gc'[n] = NoPass /\ \A m \in Nodes \ {n} : gc'[m] = gc[m]
  BY <1>1 DEF IInv, TypeOK
<1>6. LockInv'
  BY <1>1, <1>2, <1>5 DEF IInv, LockInv, Started
<1> QED
  BY <1>1, <1>2, <1>4, <1>6, PassFrame DEF After

-----------------------------------------------------------------------------

\* Every step keeps the invariant.
LEMMA NextPreserves == IInv /\ [Next]_vars => IInv'
<1> SUFFICES ASSUME IInv, [Next]_vars PROVE IInv'
  OBVIOUS
<1>1. CASE Tick
  BY <1>1, TickPreserves
<1>2. ASSUME NEW w \in Uploads,
             \/ \E s \in Stores, k \in Keys : UploadPut(w, s, k)
             \/ UploadRegister(w) \/ UploadAbort(w)
      PROVE  IInv'
  BY <1>2, UploadPutPreserves, UploadRegisterPreserves, UploadAbortPreserves
<1>3. ASSUME NEW k \in Keys, Delete(k) \/ \E t \in Stores : Migrate(k, t)
      PROVE  IInv'
  BY <1>3, DeletePreserves, MigratePreserves
<1>4. ASSUME NEW n \in Nodes,
             Acquire(n) \/ (\E s \in Stores : CompactStore(n, s)) \/ PassStep(n) \/ Crash(n)
      PROVE  IInv'
  <2>1. CASE Acquire(n) \/ (\E s \in Stores : CompactStore(n, s)) \/ Crash(n)
    BY <2>1, AcquirePreserves, CompactStorePreserves, LeavePreserves
  <2>2. CASE PassStep(n)
    BY <2>2, SetDeadlinePreserves, SnapshotPreserves, ListEntriesPreserves, ListFailsPreserves,
       JudgePreserves, JudgeEndsPreserves, DeleteOrphanPreserves, CountPreserves, LeavePreserves
       DEF PassStep
  <2> QED
    BY <1>4, <2>1, <2>2
<1>5. CASE UNCHANGED vars
  BY <1>5 DEF vars, IInv, TypeOK, LockInv, UploadInv, PassInv, ObjectInv, EntryInv, SparesLive,
              Started, Safe, Live, Located
<1> QED
  BY <1>1, <1>2, <1>3, <1>4, <1>5 DEF Next

\* The lock, the uploads' ages and the listings stay as IInv says, whatever
\* clients, migrations and passes do (gc_service.go, distlock/redis.go).
THEOREM Invariance == Spec => []IInv
BY InitEstablishes, NextPreserves, PTL DEF Spec

\* Type correctness of the stores, the counters, the lock and the passes: a
\* pass that gives space back never takes a counter below zero.
THEOREM TypeCorrect == Spec => []TypeOK
<1>1. IInv => TypeOK
  BY DEF IInv
<1> QED
  BY <1>1, Invariance, PTL

\* The age gate protects every live object from the cron's passes
\* (gc_service.go:189), for any number of servers, stores, keys and uploads.
THEOREM GcSparesLive == Spec => []SparesLive
<1>1. IInv => SparesLive
  BY DEF IInv
<1> QED
  BY <1>1, Invariance, PTL

\* Of the passes that believe in their lock, allowing for the delay of the
\* answer, there is one at most (distlock/redis.go:31, gc_service.go:154).
THEOREM GcExclusive == Spec => []Exclusive
<1>1. IInv => Exclusive
  <2> SUFFICES ASSUME IInv, NEW n \in Nodes, NEW m \in Nodes, Guarded(n), Guarded(m)
               PROVE  n = m
    BY DEF Exclusive
  <2>1. ASSUME NEW q \in Nodes, Guarded(q) PROVE lock.holder = q
    <3>1. gc[q].at \in Nat /\ gc[q].deadline \in Nat /\ now \in Nat
      BY <2>1 DEF IInv, TypeOK, Pass, Guarded
    <3>2. gc[q].deadline <= gc[q].at + MaxDelay + LockTTL
      BY <2>1 DEF IInv, LockInv, Started, Guarded
    <3>3. now < gc[q].at + LockTTL
      BY <2>1, <3>1, <3>2, GCAssumption DEF Guarded
    <3> QED
      BY <2>1, <3>3 DEF IInv, LockInv, Started, Guarded
  <2> QED
    BY <2>1
<1> QED
  BY <1>1, Invariance, PTL
=============================================================================
