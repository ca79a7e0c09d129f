-------------------------- MODULE QuotaRegistration --------------------------
(***************************************************************************)
(* RegisterStoredBlob (formats/base/store.go): the waist every write path  *)
(* funnels through, where quotas are enforced and blob_stores.used_bytes   *)
(* is kept.  The check, the row upsert and the counter update run under    *)
(* one advisory lock per configured quota, the store's first, then the     *)
(* repository's.  What the path held before is read ahead of the locks.    *)
(* Deletes move the counter back without any quota lock.                   *)
(***************************************************************************)
EXTENDS Integers, FiniteSets, FiniteSetsExt, Functions

CONSTANTS
    Writers,        \* concurrent registrations and deletes
    Repos,          \* repositories on one blob store
    Paths,          \* asset paths
    RepoOf,         \* the repository of each path
    Layers,         \* paths of image layers; another digest path is a manifest's
    DigestSize,     \* size of the content that a path's digest names, None for a
                    \* path that is no digest (a tag, a file) and holds anything
    MaxSize,        \* largest artifact
    StoreQuota,     \* quota of the blob store, or None
    RepoQuota,      \* quota of each repository, or None
    None,
    MaxId,          \* bound on the rows ever inserted
    MaxUsed,        \* bound on the counter at which registrations begin
    MaxDrift        \* bound on the kinds of drift that failing steps cause

ASSUME QuotaAssumption ==
    /\ MaxSize \in Nat \ {0} /\ StoreQuota \in Nat \cup {None}
    /\ MaxId \in Nat /\ MaxUsed \in Nat /\ MaxDrift \in Nat
    /\ IsFiniteSet(Paths) /\ RepoOf \in [Paths -> Repos]
    /\ DigestSize \in [Paths -> (1 .. MaxSize) \cup {None}]
    /\ Layers \subseteq {p \in Paths : DigestSize[p] # None}
    /\ RepoQuota \in [Repos -> Nat \cup {None}]
ASSUME NoneAssumption ==
    /\ None \notin Nat /\ None \notin Writers
    /\ None \notin [id : Nat, key : Paths, size : 1 .. MaxSize]
    /\ "store" \notin Repos

Sizes == 1 .. MaxSize
Row == [id : Nat, key : Paths, size : Sizes]    \* BlobKey(repo, path) is the path
Locks == {"store"} \cup Repos                   \* "quota:store:..", "quota:repo:.."

VARIABLES
    row,        \* assets table
    used,       \* blob_stores.used_bytes
    lock,       \* holder of each quota lock
    nextId,     \* ids of assets are never reused
    job,        \* what each writer does, with its locals
    raced,      \* history: paths that two requests worked on at one time
    aliased,    \* history: two paths have shared a blob
    drift       \* history: the counter is "over" or "under" for a step that failed

vars == <<row, used, lock, nextId, job, raced, aliased, drift>>
history == <<raced, aliased, drift>>

PC == {"idle", "readPrev", "lockStore", "lockRepo", "delta", "checkStore",
       "checkRepo", "upsert", "count", "freed"}

Job == [pc : PC, path : Paths \cup {None}, key : Paths \cup {None},
        size : Sizes \cup {0}, prev : Row \cup {None}, delta : Int]

Idle == [pc |-> "idle", path |-> None, key |-> None, size |-> 0, prev |-> None, delta |-> 0]

DataOK ==
    /\ row \in [Paths -> Row \cup {None}]
    /\ used \in Nat
    /\ lock \in [Locks -> Writers \cup {None}]
    /\ nextId \in 0 .. MaxId
    /\ job \in [Writers -> Job]

TypeOK == DataOK /\ raced \subseteq Paths /\ aliased \in BOOLEAN /\ drift \subseteq {"over", "under"}

Init ==
    /\ row = [p \in Paths |-> None]
    /\ used = 0
    /\ lock = [l \in Locks |-> None]
    /\ nextId = 0
    /\ job = [w \in Writers |-> Idle]
    /\ raced = {}
    /\ aliased = FALSE
    /\ drift = {}

-----------------------------------------------------------------------------
(* Helpers                                                                 *)

Goto(w, l) == job' = [job EXCEPT ![w].pc = l]

\* Fault: the counter is not floored at zero.
UpdateUnfloored(d) == used' = used + d

\* UpdateUsedBytes: GREATEST(0, used_bytes + delta).
UpdateUsedBytes(d) == used' = IF used + d < 0 THEN 0 ELSE used + d

\* A step that should have moved the counter fails; it is now over or under the rows.
Drift(kind) ==
    /\ drift' = drift \cup {kind}
    /\ Cardinality(drift') <= MaxDrift

\* The error of UpdateUsedBytes is ignored by every caller.
MoveCounter(d) ==
    \/ UpdateUsedBytes(d) /\ UNCHANGED drift
    \/ d > 0 /\ Drift("under") /\ UNCHANGED used
    \/ d < 0 /\ Drift("over") /\ UNCHANGED used

Referenced(k) == {p \in Paths : row[p] # None /\ row[p].key = k}

\* CountByBlobKey compares the excluded id with a UUID column: an empty id, that
\* of a path with no row, is refused by PostgreSQL and counts nothing.
CountByBlobKey(k, prev) ==
    IF prev = None THEN -1
    ELSE Cardinality({p \in Referenced(k) : row[p].id # prev.id})

\* GROUP BY blob_key: each key that some of these rows name, at its largest size.
LargestByKey(rows) ==
    [k \in {row[p].key : p \in rows} |->
        Max({row[p].size : p \in {q \in rows : row[q].key = k}})]

\* SumSizeByRepo: the distinct keys of a repository, each at its largest size.
SumSizeByRepo(r) == SumFunction(LargestByKey({p \in Paths : RepoOf[p] = r /\ row[p] # None}))

\* RecomputeUsedBytes, the reference the counter can be re-derived from.
RecomputeUsedBytes == SumFunction(LargestByKey({p \in Paths : row[p] # None}))

-----------------------------------------------------------------------------
(* RegisterStoredBlob                                                      *)

\* The digest paths beside a manifest of size n pushed to path p.
Manifests(p, n) ==
    IF p \in Layers THEN {}
    ELSE {d \in Paths \ (Layers \cup {p}) : RepoOf[d] = RepoOf[p] /\ DigestSize[d] = n}

\* A request begins that works on these paths (or on their blobs).
Touch(paths) ==
    raced' = raced \cup {p \in paths : \E w \in Writers : p \in {job[w].path, job[w].key}}

Registration(p, k, n) ==
    [pc |-> "readPrev", path |-> p, key |-> k, size |-> n, prev |-> None, delta |-> 0]

\* StoreArtifact stored n bytes under the key of the path.  What is pushed under
\* a digest is verified ahead of it.
Store(w, p, n) ==
    /\ job[w].pc = "idle" /\ used <= MaxUsed
    /\ DigestSize[p] \in {None, n}
    /\ job' = [job EXCEPT ![w] = Registration(p, p, n)]
    /\ Touch({p})
    /\ UNCHANGED <<row, used, lock, nextId, aliased, drift>>

\* mountBlob: the layer p is to name the bytes of the same layer q of another image.
Mount(w, p, q) ==
    /\ job[w].pc = "idle" /\ used <= MaxUsed
    /\ {p, q} \subseteq Layers /\ p # q
    /\ RepoOf[p] = RepoOf[q] /\ DigestSize[p] = DigestSize[q]
    /\ row[q] # None
    /\ job' = [job EXCEPT ![w] = Registration(p, row[q].key, row[q].size)]
    /\ Touch({p, q, row[q].key})
    /\ aliased' = TRUE
    /\ UNCHANGED <<row, used, lock, nextId, drift>>

\* No quota configured, no lock.
AfterStore(p) == IF RepoQuota[RepoOf[p]] # None THEN "lockRepo" ELSE "delta"

ReadPrev(w) ==
    /\ job[w].pc = "readPrev"
    /\ job' = [job EXCEPT ![w].prev = row[job[w].path],
                          ![w].pc = IF StoreQuota # None THEN "lockStore"
                                    ELSE AfterStore(job[w].path)]
    /\ UNCHANGED <<row, used, lock, nextId>> /\ UNCHANGED history

\* Fault: the store's lock is not taken, so the counter is read unprotected.
SkipStoreLock(w) ==
    /\ job[w].pc = "lockStore"
    /\ Goto(w, AfterStore(job[w].path))
    /\ UNCHANGED <<row, used, lock, nextId>> /\ UNCHANGED history

LockStore(w) ==
    /\ job[w].pc = "lockStore"
    /\ lock["store"] = None
    /\ lock' = [lock EXCEPT !["store"] = w]
    /\ Goto(w, AfterStore(job[w].path))
    /\ UNCHANGED <<row, used, nextId>> /\ UNCHANGED history

\* Fault: the repository's lock is not taken.
SkipRepoLock(w) ==
    /\ job[w].pc = "lockRepo"
    /\ Goto(w, "delta")
    /\ UNCHANGED <<row, used, lock, nextId>> /\ UNCHANGED history

LockRepo(w) ==
    /\ job[w].pc = "lockRepo"
    /\ lock[RepoOf[job[w].path]] = None
    /\ lock' = [lock EXCEPT ![RepoOf[job[w].path]] = w]
    /\ Goto(w, "delta")
    /\ UNCHANGED <<row, used, nextId>> /\ UNCHANGED history

\* Fault: a rewrite of the path is charged in full.
ChargeInFull(prev, k, n) == IF CountByBlobKey(k, prev) > 0 THEN 0 ELSE n

\* What the registration adds to the store: the difference on the object the
\* path already had, nothing for a blob another row carries, all of it otherwise.
UsageDelta(prev, k, n) ==
    IF prev # None /\ prev.key = k THEN n - prev.size
    ELSE IF CountByBlobKey(k, prev) > 0 THEN 0
    ELSE n

ComputeDelta(w) ==
    /\ job[w].pc = "delta"
    /\ LET d == UsageDelta(job[w].prev, job[w].key, job[w].size)
       IN job' = [job EXCEPT ![w].delta = d,
                             ![w].pc = IF d > 0 THEN "checkStore" ELSE "upsert"]
    /\ UNCHANGED <<row, used, lock, nextId>> /\ UNCHANGED history

\* Fault: only the inner transaction ends.
ReleaseInner(w) == lock' = [l \in Locks |-> IF lock[l] = w /\ l # "store" THEN None ELSE lock[l]]

\* The transactions that scope the locks end.
ReleaseAll(w) == lock' = [l \in Locks |-> IF lock[l] = w THEN None ELSE lock[l]]

Refuse(w) ==
    /\ ReleaseAll(w)
    /\ job' = [job EXCEPT ![w] = Idle]

\* quotaHeadroom, the store's counter.
CheckStore(w) ==
    /\ job[w].pc = "checkStore"
    /\ IF StoreQuota # None /\ used + job[w].delta > StoreQuota
       THEN Refuse(w)
       ELSE Goto(w, "checkRepo") /\ UNCHANGED lock
    /\ UNCHANGED <<row, used, nextId>> /\ UNCHANGED history

\* quotaHeadroom, the repository's sum.
CheckRepo(w) ==
    /\ job[w].pc = "checkRepo"
    /\ LET r == RepoOf[job[w].path]
       IN IF RepoQuota[r] # None /\ SumSizeByRepo(r) + job[w].delta > RepoQuota[r]
          THEN Refuse(w)
          ELSE Goto(w, "upsert") /\ UNCHANGED lock
    /\ UNCHANGED <<row, used, nextId>> /\ UNCHANGED history

\* Components.Create and Assets.Create; an error of either ends the call.
Upsert(w) ==
    /\ job[w].pc = "upsert"
    /\ LET p == job[w].path
       IN \/ /\ nextId < MaxId
             /\ row' = [row EXCEPT ![p] = [id |-> IF row[p] = None THEN nextId ELSE row[p].id,
                                           key |-> job[w].key, size |-> job[w].size]]
             /\ nextId' = IF row[p] = None THEN nextId + 1 ELSE nextId
             /\ Goto(w, "count")
             /\ UNCHANGED lock
          \/ /\ Refuse(w)
             /\ UNCHANGED <<row, nextId>>
    /\ UNCHANGED used /\ UNCHANGED history

\* The counter moves and the locks go.  The push of a manifest goes on to register
\* the digest path d over the bytes it stored (pushManifest).
Count(w) ==
    /\ job[w].pc = "count"
    /\ MoveCounter(job[w].delta)
    /\ ReleaseAll(w)
    /\ \/ /\ job' = [job EXCEPT ![w] = Idle]
          /\ UNCHANGED <<raced, aliased>>
       \/ \E d \in Manifests(job[w].path, job[w].size) :
             /\ job[w].key = job[w].path
             /\ job' = [job EXCEPT ![w] = Registration(d, job[w].key, job[w].size)]
             /\ Touch({d})
             /\ aliased' = TRUE
    /\ UNCHANGED <<row, nextId>>

-----------------------------------------------------------------------------
(* DeleteArtifact                                                          *)

\* Row and bytes go under the blob-key lock (module ArtifactStore); the counter
\* moves after it is released, and only when the bytes went: they stay for another
\* row, but also, with the row gone, when the count or the deletion of the object fails.
DeleteRow(w, p) ==
    /\ job[w].pc = "idle"
    /\ row[p] # None
    /\ row' = [row EXCEPT ![p] = None]
    /\ IF Referenced(row[p].key) = {p}
       THEN \/ /\ job' = [job EXCEPT ![w] = [pc |-> "freed", path |-> p, key |-> row[p].key,
                                             size |-> 0, prev |-> None, delta |-> -row[p].size]]
               /\ UNCHANGED drift
            \/ Drift("over") /\ UNCHANGED job
       ELSE UNCHANGED <<job, drift>>
    /\ Touch({p, row[p].key})
    /\ UNCHANGED <<used, lock, nextId, aliased>>

Freed(w) ==
    /\ job[w].pc = "freed"
    /\ MoveCounter(job[w].delta)
    /\ job' = [job EXCEPT ![w] = Idle]
    /\ UNCHANGED <<row, lock, nextId, raced, aliased>>

Advance(w) ==
    \/ ReadPrev(w) \/ ComputeDelta(w) \/ CheckStore(w) \/ CheckRepo(w)
    \/ Upsert(w) \/ Count(w) \/ Freed(w)

Next ==
    \E w \in Writers :
        \/ \E p \in Paths, n \in Sizes : Store(w, p, n)
        \/ \E p, q \in Paths : Mount(w, p, q)
        \/ \E p \in Paths : DeleteRow(w, p)
        \/ LockStore(w) \/ LockRepo(w)
        \/ Advance(w)

Spec == Init /\ [][Next]_vars

\* A registration keeps executing; PostgreSQL serves lock waiters in turn.
Fairness == \A w \in Writers : /\ WF_vars(Advance(w))
                               /\ SF_vars(LockStore(w)) /\ SF_vars(LockRepo(w))
FairSpec == Spec /\ Fairness

-----------------------------------------------------------------------------
(* Properties                                                              *)

\* The store's counter never passes its quota, however registrations and
\* deletes interleave (issue #328, store.go:261).
StoreQuotaHolds == StoreQuota # None => used <= StoreQuota

\* No repository stores more than its quota (issue #328), unless two requests met
\* on one of its paths: what the path held is read ahead of the locks.
RepoQuotaHolds ==
    \A r \in Repos :
        RepoQuota[r] # None /\ (\A p \in raced : RepoOf[p] # r) => SumSizeByRepo(r) <= RepoQuota[r]

Quiet == \A w \in Writers : job[w].pc = "idle"

\* Between requests the counter is what a recount of the rows gives.  Where paths
\* share a blob, a delete has left its bytes in the store or failed to lower the counter,
\* it may be more, never less: "overstating a store costs a rejected write,
\* understating it overfills the disk" (store.go:405).  It is less only if two
\* requests met on a path, or the update that should have raised it failed.
CountedOnce ==
    Quiet /\ raced = {} /\ "under" \notin drift =>
        /\ used >= RecomputeUsedBytes
        /\ ~aliased /\ drift = {} => used = RecomputeUsedBytes

\* No registration waits for ever for its two locks.
RegistrationsEnd == \A w \in Writers : job[w].pc # "idle" ~> job[w].pc = "idle"
=============================================================================
