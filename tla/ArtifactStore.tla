---------------------------- MODULE ArtifactStore ----------------------------
(***************************************************************************)
(* The narrow waist of the server: the asset rows in PostgreSQL, the       *)
(* objects in the blob store, and the request handlers and background jobs *)
(* that change both.  formats/base/store.go writes and deletes artifacts,  *)
(* formats/oci/handler.go registers digest aliases and mounts blobs,       *)
(* service/cleanup_service.go expires artifacts.  The two stores share no  *)
(* transaction.  Deleting handlers and mounts serialize on an advisory     *)
(* lock per blob key (AssetRepo.WithBlobKeyLock); uploads take no such     *)
(* lock.  One step of a worker is one statement against the database or    *)
(* one call of the blob store.                                             *)
(***************************************************************************)
EXTENDS Naturals

CONSTANTS
    Workers,    \* concurrent requests and jobs, of any number of nodes
    Tags,       \* paths that name a mutable reference (a tag, a raw path)
    Manifests,  \* image manifests; a manifest also stands for its digest path,
                \* "/manifests/<img>/sha256:<digest>"
    Layers,     \* image layers; a layer also stands for its digest path,
                \* "/blobs/<img>/sha256:<digest>"
    Mounts,     \* layer paths of other images, to mount a layer on
    None,       \* no row, no object, no lock holder
    MaxClock    \* bound on the number of row writes of a behaviour

ASSUME ClockAssumption == MaxClock \in Nat
Contents == Manifests \cup Layers
Paths == Tags \cup Contents \cup Mounts

\* BlobKey hashes (repository, path): one key per path, whatever the content.
Keys == Paths
BlobKey(p) == p

Row == [id : Nat, key : Keys, sha : Contents, mod : Nat, seen : Nat]

ASSUME NoneAssumption ==
    /\ None \notin Row /\ None \notin Contents
    /\ None \notin Workers /\ None \notin Paths

VARIABLES
    row,        \* assets table, keyed by its unique (repository, path)
    blob,       \* objects of the blob store
    lock,       \* holder of the advisory lock on each blob key
    clock,      \* NOW() and the id sequence: every row write gets a new value
    job,        \* what each worker does: the step it is at, and its locals
    contested,  \* history: keys removed by, or during, a write to them
    leaked      \* history: keys on which a step failed or a row changed key

vars == <<row, blob, lock, clock, job, contested, leaked>>

PC == {"idle", "stored", "alias",
       "delLock", "delCheck", "delCount", "delRow", "delLastRow", "delBlob",
       "clnLock", "clnRow", "clnCount",
       "mntLock", "mntExists", "mntRegister"}

Job == [pc : PC,
        path : Paths \cup {None},     \* the path the request names
        key : Keys \cup {None},       \* the blob key it works on
        data : Contents \cup {None},  \* the content it uploads
        snap : Row \cup {None}]       \* the row it read before it took the lock

Idle == [pc |-> "idle", path |-> None, key |-> None, data |-> None, snap |-> None]

TypeOK ==
    /\ row \in [Paths -> Row \cup {None}]
    /\ blob \in [Keys -> Contents \cup {None}]
    /\ lock \in [Keys -> Workers \cup {None}]
    /\ clock \in 0 .. MaxClock
    /\ job \in [Workers -> Job]
    /\ contested \subseteq Keys
    /\ leaked \subseteq Keys

Init ==
    /\ row = [p \in Paths |-> None]
    /\ blob = [k \in Keys |-> None]
    /\ lock = [k \in Keys |-> None]
    /\ clock = 0
    /\ job = [w \in Workers |-> Idle]
    /\ contested = {}
    /\ leaked = {}

-----------------------------------------------------------------------------
(* Helpers                                                                 *)

Goto(w, l) == job' = [job EXCEPT ![w].pc = l]
End(w) == job' = [job EXCEPT ![w] = Idle]
Locked(w) == job[w].pc \in {"delCheck", "delCount", "delRow", "delLastRow", "delBlob",
                        "clnRow", "clnCount", "mntExists", "mntRegister"}

\* The rows CountByBlobKey(k, id) counts.
Others(k, id) == {p \in Paths : row[p] # None /\ row[p].key = k /\ row[p].id # id}

\* Between the first byte of an upload's object and its last row.
Uploading(k) == \E w \in Workers : job[w].pc \in {"stored", "alias"} /\ job[w].key = k

\* Between a deleter's last look at the row and the end of its critical section.
RemoverOf(w) == job[w].pc \in {"delCount", "delRow", "delLastRow", "delBlob", "clnCount"}
Removing(k) == \E w \in Workers : RemoverOf(w) /\ job[w].key = k

\* A row under removal is registered again on another key, which the remover's
\* lock does not cover.
Rekeyed(k) ==
    \E p \in Paths, w \in Workers :
        /\ RemoverOf(w) /\ job[w].path = p
        /\ row[p] # None /\ row[p].key # k
        /\ row'[p] # None /\ row'[p].key = k

\* The history of writes that met a removal: both in progress on one key or
\* one path, or an upload's own cleanup taking the object away.
Contested(k) ==
    \/ Uploading(k)' /\ Removing(k)'
    \/ Uploading(k) /\ blob'[k] = None
    \/ Rekeyed(k)

Track == contested' = contested \cup {k \in Keys : Contested(k)}

\* Assets.Create: INSERT ... ON CONFLICT (repository_id, path) DO UPDATE.  The
\* conflict keeps the id and last_downloaded, and renews last_modified.  A row
\* that moves to another key leaves its old object to the blob GC.
Upsert(p, k, c) ==
    /\ clock < MaxClock
    /\ clock' = clock + 1
    /\ row' = [row EXCEPT ![p] =
                [id   |-> IF row[p] = None THEN clock ELSE row[p].id,
                 key  |-> k,
                 sha  |-> c,
                 mod  |-> clock,
                 seen |-> IF row[p] = None THEN 0 ELSE row[p].seen]]
    /\ leaked' = IF row[p] # None /\ row[p].key # k
                 THEN leaked \cup {row[p].key} ELSE leaked

\* Assets.Delete: DELETE ... WHERE id = $1.
DeleteById(id) ==
    row' = [p \in Paths |-> IF row[p] # None /\ row[p].id = id THEN None ELSE row[p]]

\* DeleteIfUnchanged: the id, the key, last_downloaded and last_modified still
\* are what the staleness scan read.
Unchanged(p, s) ==
    /\ row[p] # None
    /\ row[p].id = s.id /\ row[p].key = s.key
    /\ row[p].seen = s.seen /\ row[p].mod = s.mod

Acquire(w) ==
    /\ lock[job[w].key] = None
    /\ lock' = [lock EXCEPT ![job[w].key] = w]

Release(w) == lock' = [lock EXCEPT ![job[w].key] = None]

-----------------------------------------------------------------------------
(* Uploads: StoreArtifact, and the digest alias of pushManifest            *)

\* physStore.Put: temp file and rename, so the object appears whole.
UploadPut(w, p, c) ==
    /\ job[w].pc = "idle"
    /\ \/ p \in Tags /\ c \in Manifests   \* push by tag, or of a raw file
       \/ p = c                           \* push by digest
    /\ blob' = [blob EXCEPT ![BlobKey(p)] = c]
    /\ job' = [job EXCEPT ![w] = [pc |-> "stored", path |-> p, key |-> BlobKey(p),
                                   data |-> c, snap |-> None]]
    /\ UNCHANGED <<row, lock, clock, leaked>>
    /\ Track

\* The received size differs from the declared one, or the streamed size does
\* not fit the quota: the object is deleted, whoever else names it.
UploadReject(w) ==
    /\ job[w].pc = "stored"
    /\ blob' = [blob EXCEPT ![job[w].key] = None]
    /\ End(w)
    /\ UNCHANGED <<row, lock, clock, leaked>>
    /\ Track

\* RegisterStoredBlob fails, and the bytes stay behind.  A refusal by the quota
\* would drop them if no row named the key, but asks CountByBlobKey with an empty
\* id, which PostgreSQL refuses for a UUID column: the count always fails.
UploadFail(w) ==
    /\ job[w].pc = "stored"
    /\ leaked' = leaked \cup {job[w].key}
    /\ End(w)
    /\ UNCHANGED <<row, blob, lock, clock>>
    /\ Track

UploadRegister(w) ==
    /\ job[w].pc = "stored"
    /\ Upsert(job[w].path, job[w].key, job[w].data)
    /\ IF job[w].path \in Tags THEN Goto(w, "alias") ELSE End(w)
    /\ UNCHANGED <<blob, lock>>
    /\ Track

\* A manifest pushed by tag is registered a second time under its digest, on
\* the blob key of the tag.  A raw upload, or an alias that fails, ends here.
UploadAlias(w) ==
    /\ job[w].pc = "alias"
    /\ \/ Upsert(job[w].data, job[w].key, job[w].data)
       \/ UNCHANGED <<row, clock, leaked>>
    /\ End(w)
    /\ UNCHANGED <<blob, lock>>
    /\ Track

-----------------------------------------------------------------------------
(* DeleteArtifact                                                          *)

ReadFirst(w, p, next) ==
    /\ job[w].pc = "idle"
    /\ row[p] # None
    /\ job' = [job EXCEPT ![w] = [pc |-> next, path |-> p, key |-> row[p].key,
                                   data |-> None, snap |-> row[p]]]
    /\ UNCHANGED <<row, blob, lock, clock, leaked>>
    /\ Track

DeleteRead(w, p) == ReadFirst(w, p, "delLock")

\* Fault: the critical section runs without the lock.
TakeNoLock(w, from, next) ==
    /\ job[w].pc = from
    /\ Goto(w, next)
    /\ UNCHANGED <<row, blob, lock, clock, leaked>>
    /\ Track

TakeLock(w, from, next) ==
    /\ job[w].pc = from
    /\ Acquire(w)
    /\ Goto(w, next)
    /\ UNCHANGED <<row, blob, clock, leaked>>
    /\ Track

DeleteLock(w) == TakeLock(w, "delLock", "delCheck")

\* Fault: the transaction that scopes the lock is never ended.
KeepLock(w) ==
    /\ End(w)
    /\ UNCHANGED lock

LeaveLock(w) ==
    /\ Release(w)
    /\ End(w)

\* Fault: the re-read compares blob keys, which a re-upload keeps.
DeleteCheckBlobKeyOnly(w) ==
    /\ job[w].pc = "delCheck"
    /\ LET cur == row[job[w].path]
       IN IF cur # None /\ cur.key = job[w].snap.key
          THEN Goto(w, "delCount") /\ UNCHANGED lock
          ELSE LeaveLock(w)
    /\ UNCHANGED <<row, blob, clock, leaked>>
    /\ Track

\* The row is read again under the lock; another id, key or last_modified
\* means the path now holds an artifact this call was not asked to delete.
DeleteCheck(w) ==
    /\ job[w].pc = "delCheck"
    /\ LET cur == row[job[w].path]
       IN IF /\ cur # None
             /\ cur.id = job[w].snap.id /\ cur.key = job[w].snap.key /\ cur.mod = job[w].snap.mod
          THEN Goto(w, "delCount") /\ UNCHANGED lock
          ELSE LeaveLock(w)
    /\ UNCHANGED <<row, blob, clock, leaked>>
    /\ Track

\* Fault: the reference count is ignored.
DeleteCountIgnored(w) ==
    /\ job[w].pc = "delCount"
    /\ Goto(w, "delLastRow")
    /\ UNCHANGED <<row, blob, lock, clock, leaked>>
    /\ Track

\* CountByBlobKey; a count that cannot be read keeps the object.
DeleteCount(w) ==
    /\ job[w].pc = "delCount"
    /\ \/ /\ Others(job[w].key, job[w].snap.id) = {}
          /\ Goto(w, "delLastRow")
          /\ UNCHANGED leaked
       \/ /\ Others(job[w].key, job[w].snap.id) # {}
          /\ Goto(w, "delRow")
          /\ UNCHANGED leaked
       \/ /\ Goto(w, "delRow")
          /\ leaked' = leaked \cup {job[w].key}
    /\ UNCHANGED <<row, blob, lock, clock>>
    /\ Track

DeleteRow(w) ==
    /\ job[w].pc = "delRow"
    /\ DeleteById(job[w].snap.id)
    /\ LeaveLock(w)
    /\ UNCHANGED <<blob, clock, leaked>>
    /\ Track

\* The row goes before the bytes.
DeleteLastRow(w) ==
    /\ job[w].pc = "delLastRow"
    /\ DeleteById(job[w].snap.id)
    /\ Goto(w, "delBlob")
    /\ UNCHANGED <<blob, lock, clock, leaked>>
    /\ Track

\* delStore.Delete, the last step of DeleteArtifact and of a cleanup; when it
\* fails the object is an orphan.
DeleteBlob(w) ==
    /\ job[w].pc = "delBlob"
    /\ \/ blob' = [blob EXCEPT ![job[w].key] = None] /\ UNCHANGED leaked
       \/ leaked' = leaked \cup {job[w].key} /\ UNCHANGED blob
    /\ LeaveLock(w)
    /\ UNCHANGED <<row, clock>>
    /\ Track

-----------------------------------------------------------------------------
(* One asset of a cleanup policy run                                       *)

CleanupScan(w, p) == ReadFirst(w, p, "clnLock")

CleanupLock(w) == TakeLock(w, "clnLock", "clnRow")

CleanupRow(w) ==
    /\ job[w].pc = "clnRow"
    /\ IF Unchanged(job[w].path, job[w].snap)
       THEN /\ DeleteById(job[w].snap.id)
            /\ Goto(w, "clnCount")
            /\ UNCHANGED lock
       ELSE /\ LeaveLock(w)
            /\ UNCHANGED row
    /\ UNCHANGED <<blob, clock, leaked>>
    /\ Track

CleanupCount(w) ==
    /\ job[w].pc = "clnCount"
    /\ \/ /\ Others(job[w].key, job[w].snap.id) = {}
          /\ Goto(w, "delBlob")
          /\ UNCHANGED <<lock, leaked>>
       \/ /\ Others(job[w].key, job[w].snap.id) # {}
          /\ LeaveLock(w)
          /\ UNCHANGED leaked
       \/ /\ LeaveLock(w)
          /\ leaked' = leaked \cup {job[w].key}
    /\ UNCHANGED <<row, blob, clock>>
    /\ Track

-----------------------------------------------------------------------------
(* mountBlob: another image's digest path is registered on the same key    *)

MountRead(w, c) == ReadFirst(w, c, "mntLock")

MountLock(w) == TakeLock(w, "mntLock", "mntExists")

MountExists(w) ==
    /\ job[w].pc = "mntExists"
    /\ IF blob[job[w].key] # None
       THEN Goto(w, "mntRegister") /\ UNCHANGED lock
       ELSE LeaveLock(w)
    /\ UNCHANGED <<row, blob, clock, leaked>>
    /\ Track

\* Fault: the mounted row is registered without the source's checksum.
MountRegisterNoSum(w) ==
    /\ job[w].pc = "mntRegister"
    /\ \E m \in Mounts : Upsert(m, job[w].key, job[w].data)
    /\ LeaveLock(w)
    /\ UNCHANGED blob
    /\ Track

\* RegisterStoredBlob inside the lock; an error answers "not mounted".
MountRegister(w) ==
    /\ job[w].pc = "mntRegister"
    /\ \/ \E m \in Mounts : Upsert(m, job[w].key, job[w].snap.sha)
       \/ UNCHANGED <<row, clock, leaked>>
    /\ LeaveLock(w)
    /\ UNCHANGED <<blob>>
    /\ Track

-----------------------------------------------------------------------------
(* Downloads and crashes                                                   *)

\* FetchArtifact found row and bytes; the DownloadCounter flushes last_downloaded.
Download(p) ==
    /\ row[p] # None
    /\ blob[row[p].key] # None
    /\ clock < MaxClock
    /\ clock' = clock + 1
    /\ row' = [row EXCEPT ![p].seen = clock]
    /\ UNCHANGED <<blob, lock, job, leaked>>
    /\ Track

\* The request or its node dies; PostgreSQL drops the advisory lock with the
\* connection.
Crash(w) ==
    /\ job[w].pc # "idle"
    /\ lock' = IF Locked(w) THEN [lock EXCEPT ![job[w].key] = None] ELSE lock
    /\ leaked' = IF job[w].pc \in {"stored", "delBlob", "clnCount"}
                 THEN leaked \cup {job[w].key} ELSE leaked
    /\ End(w)
    /\ UNCHANGED <<row, blob, clock>>
    /\ Track

Upload(w) == \/ UploadReject(w) \/ UploadFail(w) \/ UploadRegister(w) \/ UploadAlias(w)
Delete(w) == \/ DeleteCheck(w) \/ DeleteCount(w) \/ DeleteRow(w)
             \/ DeleteLastRow(w) \/ DeleteBlob(w)
Cleanup(w) == CleanupRow(w) \/ CleanupCount(w)
Mount(w) == MountExists(w) \/ MountRegister(w)
GetLock(w) == DeleteLock(w) \/ CleanupLock(w) \/ MountLock(w)

\* Every step of a request under way.
Advance(w) == Upload(w) \/ Delete(w) \/ Cleanup(w) \/ Mount(w)

Next ==
    \/ \E w \in Workers :
        \/ \E p \in Paths, c \in Contents : UploadPut(w, p, c)
        \/ \E p \in Paths : DeleteRead(w, p) \/ CleanupScan(w, p)
        \/ \E c \in Layers : MountRead(w, c)
        \/ GetLock(w)
        \/ Advance(w)
        \/ Crash(w)
    \/ \E p \in Paths : Download(p)

Spec == Init /\ [][Next]_vars

\* A live request keeps executing, and PostgreSQL queues the waiters of an
\* advisory lock first come first served.
Fairness == \A w \in Workers : WF_vars(Advance(w)) /\ SF_vars(GetLock(w))

FairSpec == Spec /\ Fairness

-----------------------------------------------------------------------------
(* Properties                                                              *)

\* Every asset row names bytes that exist: what DeleteArtifact (store.go:498)
\* says must not fail, since "a row whose bytes are already gone is not
\* self-healing".  A rejected re-upload breaks it, and so does an upload
\* that races a delete.
RowsHaveBytes ==
    \A p \in Paths : row[p] # None => blob[row[p].key] # None

\* The promise the blob-key lock keeps: deletes, cleanups and mounts, however
\* interleaved, never take the bytes from under a surviving row (aliases and
\* mounts included).  Only a removal that met an upload of the same key can.
UncontestedRowsHaveBytes ==
    \A p \in Paths :
        row[p] # None => blob[row[p].key] # None \/ row[p].key \in contested

\* The other half of the lock's purpose: concurrent deletes of the last rows on
\* one key do not both leave the bytes to each other.  An object nobody names
\* or works on had a failed step, a crash or a contested upload.
NoSilentOrphan ==
    \A k \in Keys :
        /\ blob[k] # None
        /\ \A p \in Paths : row[p] # None => row[p].key # k
        /\ \A w \in Workers : job[w].pc # "idle" => job[w].key # k
        => k \in leaked \cup contested

\* A delete or a cleanup removes the very version it read: a re-upload, and for
\* a cleanup a download, between the read and the lock saves the row.
RemovalSparesReplacement ==
    [][\A p \in Paths :
        row[p] # None /\ row'[p] = None =>
            \/ row[p].key \in contested
            \/ \E w \in Workers :
                \/ job[w].pc = "clnRow" /\ job[w].snap = row[p]
                \/ /\ job[w].pc \in {"delRow", "delLastRow"}
                   /\ job[w].snap.id = row[p].id /\ job[w].snap.mod = row[p].mod]_vars

\* Every request ends: no lock is left behind and nobody waits for ever.
RequestsEnd == \A w \in Workers : job[w].pc # "idle" ~> job[w].pc = "idle"

=============================================================================
