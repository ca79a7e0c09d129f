------------------------------- MODULE BlobGC -------------------------------
(***************************************************************************)
(* service/gc_service.go: a pass reads which keys the assets reference,    *)
(* lists the objects of each store, and deletes the unreferenced ones that *)
(* are old enough, while clients upload and delete and blobs migrate.  The *)
(* cron's pass (CompactAll) runs under the Redis lock of distlock/redis.go *)
(* and stops at the lock's TTL, which nothing renews; a compaction asked   *)
(* for by an administrator (CompactStore) takes no lock.  Sizes are 1.     *)
(***************************************************************************)
EXTENDS Integers, FiniteSets

CONSTANTS
    Nodes,      \* servers
    Stores,
    Home,       \* the default store
    Keys,       \* blob keys
    Uploads,    \* concurrent uploads
    MinAge,     \* gc.min_age, 24 h by default
    LockTTL,    \* gcLockTTL, 30 min
    MaxUpload,  \* longest time from an upload's bytes to its row
    MaxDelay,   \* longest time from Redis taking the lock to Acquire's return
    MaxTime,    \* bound on the clock
    MaxUsed,    \* bound on a store's counter, which lost deletes overstate
    Unplaced,   \* the store of a row without blob_store_id
    None

ASSUME GCAssumption ==
    /\ MinAge \in Nat /\ LockTTL \in Nat /\ MaxUpload \in Nat /\ MaxDelay \in Nat
    /\ MaxTime \in Nat /\ MaxUsed \in Nat
    /\ MinAge >= LockTTL + MaxUpload
    /\ Home \in Stores /\ Unplaced \notin Stores /\ IsFiniteSet(Keys)
    /\ None \notin Stores \cup Keys \cup Nodes \cup Nat \cup {Unplaced}
    /\ None \notin [key : Keys, mod : Nat]

VARIABLES
    now,
    obj,        \* modification time of the objects of each store
    row,        \* the store of the asset that names the key
    used,       \* blob_stores.used_bytes
    upload,     \* uploads under way
    lock,       \* the Redis key: its holder, and when it expires
    gc,         \* the pass of each server
    stale       \* history: objects that changed after a pass had judged or listed
                \* them, and objects a migration pointed a row at during a pass

vars == <<now, obj, row, used, upload, lock, gc, stale>>

Place == Stores \X Keys
Entry == [key : Keys, mod : Nat]            \* storage.BlobEntry
NoUpload == [pc |-> "idle", store |-> None, key |-> None, at |-> 0]
Upload == [pc : {"idle", "stored"}, store : Stores \cup {None}, key : Keys \cup {None}, at : Nat]
FreeLock == [holder |-> None, until |-> 0]

PassPC == {"idle", "acquired", "snapshot", "list", "judge", "delete", "count"}
NewPass(pc, at, todo) ==
    [pc |-> pc, deadline |-> None, at |-> at, refs |-> {}, todo |-> todo,
     store |-> None, entries |-> {}, pick |-> None, removed |-> 0]
NoPass == NewPass("idle", 0, {})
Pass == [pc : PassPC, deadline : Nat \cup {None}, at : Nat, refs : SUBSET Place,
         todo : SUBSET Stores, store : Stores \cup {None}, entries : SUBSET Entry,
         pick : Entry \cup {None}, removed : Nat]

TypeOK ==
    /\ now \in 0 .. MaxTime
    /\ obj \in [Place -> Nat \cup {None}]
    /\ row \in [Keys -> Stores \cup {Unplaced, None}]
    /\ used \in [Stores -> Nat]
    /\ upload \in [Uploads -> Upload]
    /\ lock \in [holder : Nodes \cup {None}, until : Nat]
    /\ gc \in [Nodes -> Pass]
    /\ stale \subseteq Place

\* Where a reader of the row looks for the bytes.
Located(k) == IF row[k] = Unplaced THEN Home ELSE row[k]

Init ==
    /\ now = 0
    /\ row \in [Keys -> Stores \cup {Unplaced, None}]
    /\ obj = [pl \in Place |-> IF row[pl[2]] # None /\ Located(pl[2]) = pl[1] THEN 0 ELSE None]
    /\ used = [s \in Stores |-> Cardinality({k \in Keys : obj[<<s, k>>] # None})]
    /\ upload = [w \in Uploads |-> NoUpload]
    /\ lock = FreeLock
    /\ gc = [n \in Nodes |-> NoPass]
    /\ stale = {}

-----------------------------------------------------------------------------
(* Helpers                                                                 *)

\* Fault: the counter is not floored at zero.
UpdateUnfloored(s, d) == used' = [used EXCEPT ![s] = @ + d]

UpdateUsedBytes(s, d) == used' = [used EXCEPT ![s] = IF @ + d < 0 THEN 0 ELSE @ + d]

\* A pass knows an object by its listing, or has not come to its store.
Running == {n \in Nodes : gc[n].pc # "idle"}
Listed(s, k) ==
    \E n \in Nodes : gc[n].store = s /\ \E e \in gc[n].entries \cup {gc[n].pick} :
        e # None /\ e.key = k

-----------------------------------------------------------------------------
(* Time.  An upload and an answer of Redis take a bounded time.            *)

Tick ==
    /\ now < MaxTime
    /\ \A w \in Uploads : upload[w].pc = "stored" => now < upload[w].at + MaxUpload
    /\ \A n \in Nodes : gc[n].pc = "acquired" => now < gc[n].at + MaxDelay
    /\ now' = now + 1
    /\ UNCHANGED <<obj, row, used, upload, lock, gc, stale>>

-----------------------------------------------------------------------------
(* Clients (module ArtifactStore has their steps)                          *)

UploadPut(w, s, k) ==
    /\ upload[w].pc = "idle"
    /\ used[s] < MaxUsed
    /\ \A v \in Uploads : upload[v].key # k
    /\ obj' = [obj EXCEPT ![<<s, k>>] = now]
    /\ upload' = [upload EXCEPT ![w] = [pc |-> "stored", store |-> s, key |-> k, at |-> now]]
    /\ stale' = IF Listed(s, k) THEN stale \cup {<<s, k>>} ELSE stale
    /\ UNCHANGED <<now, row, used, lock, gc>>

UploadRegister(w) ==
    /\ upload[w].pc = "stored"
    /\ LET k == upload[w].key
           s == upload[w].store
       IN /\ UpdateUsedBytes(s, IF row[k] = s THEN 0 ELSE 1)
          /\ row' = [row EXCEPT ![k] = s]
    /\ upload' = [upload EXCEPT ![w] = NoUpload]
    /\ UNCHANGED <<now, obj, lock, gc, stale>>

UploadAbort(w) ==
    /\ upload[w].pc = "stored"
    /\ upload' = [upload EXCEPT ![w] = NoUpload]
    /\ UNCHANGED <<now, obj, row, used, lock, gc, stale>>

\* DeleteArtifact; bytes whose delete fails stay, and stay counted.
Delete(k) ==
    /\ row[k] # None
    /\ \A v \in Uploads : upload[v].key # k
    /\ row' = [row EXCEPT ![k] = None]
    /\ \/ /\ obj' = [obj EXCEPT ![<<Located(k), k>>] = None]
          /\ UpdateUsedBytes(Located(k), -1)
       \/ UNCHANGED <<obj, used>>
    /\ UNCHANGED <<now, upload, lock, gc, stale>>

\* A migration (module BlobStoreMigration) moves a key: it copies the bytes or
\* finds them copied, flips the row, and drops the source.
Migrate(k, t) ==
    /\ row[k] \in Stores \ {t}
    /\ \A v \in Uploads : upload[v].key # k
    /\ obj[<<row[k], k>>] # None
    /\ IF obj[<<t, k>>] = None
       THEN /\ obj' = [obj EXCEPT ![<<t, k>>] = now, ![<<row[k], k>>] = None]
            /\ used' = [used EXCEPT ![t] = @ + 1, ![row[k]] = IF @ = 0 THEN 0 ELSE @ - 1]
            /\ stale' = IF Listed(t, k) THEN stale \cup {<<t, k>>} ELSE stale
       ELSE /\ obj' = [obj EXCEPT ![<<row[k], k>>] = None]
            /\ UpdateUsedBytes(row[k], -1)
            /\ stale' = IF Running # {} THEN stale \cup {<<t, k>>} ELSE stale
    /\ row' = [row EXCEPT ![k] = t]
    /\ UNCHANGED <<now, upload, lock, gc>>

-----------------------------------------------------------------------------
(* A pass                                                                  *)

\* RedisLocker.Acquire: SET NX with the TTL.
Acquire(n) ==
    /\ gc[n].pc = "idle"
    /\ lock.holder = None \/ now >= lock.until
    /\ lock' = [holder |-> n, until |-> now + LockTTL]
    /\ gc' = [gc EXCEPT ![n] = NewPass("acquired", now, Stores)]
    /\ UNCHANGED <<now, obj, row, used, upload, stale>>

\* The deadline is set when Acquire has returned.
SetDeadline(n) ==
    /\ gc[n].pc = "acquired"
    /\ gc' = [gc EXCEPT ![n].pc = "snapshot", ![n].deadline = now + LockTTL]
    /\ UNCHANGED <<now, obj, row, used, upload, lock, stale>>

CompactStore(n, s) ==
    /\ gc[n].pc = "idle"
    /\ gc' = [gc EXCEPT ![n] = NewPass("snapshot", 0, {s})]
    /\ UNCHANGED <<now, obj, row, used, upload, lock, stale>>

\* refIndex.has: referenced in this store, or somewhere.
Referenced == {pl \in Place : row[pl[2]] \in {pl[1], Unplaced}}

\* referencedSet, once for all stores of the pass.
Snapshot(n) ==
    /\ gc[n].pc = "snapshot"
    /\ gc' = [gc EXCEPT ![n].pc = "list", ![n].refs = Referenced]
    /\ UNCHANGED <<now, obj, row, used, upload, lock, stale>>

ListEntries(n) ==
    /\ gc[n].pc = "list"
    /\ \E s \in gc[n].todo :
        gc' = [gc EXCEPT ![n].pc = "judge", ![n].store = s, ![n].todo = @ \ {s}, ![n].removed = 0,
                ![n].entries = {[key |-> k, mod |-> obj[<<s, k>>]] :
                                    k \in {j \in Keys : obj[<<s, j>>] # None}}]
    /\ UNCHANGED <<now, obj, row, used, upload, lock, stale>>

\* The store's listing fails, or the store cannot be opened.
ListFails(n) ==
    /\ gc[n].pc = "list"
    /\ \E s \in gc[n].todo : gc' = [gc EXCEPT ![n].todo = @ \ {s}]
    /\ UNCHANGED <<now, obj, row, used, upload, lock, stale>>

PastDeadline(n) == gc[n].deadline # None /\ now >= gc[n].deadline

\* Fault: the pass does not stop at its deadline (issue #371).
JudgeOn(n) ==
    /\ gc[n].pc = "judge"
    /\ \E e \in gc[n].entries :
        /\ IF <<gc[n].store, e.key>> \in gc[n].refs \/ now - e.mod < MinAge
           THEN gc' = [gc EXCEPT ![n].entries = @ \ {e}]
           ELSE gc' = [gc EXCEPT ![n].entries = @ \ {e}, ![n].pick = e, ![n].pc = "delete"]
    /\ UNCHANGED <<now, obj, row, used, upload, lock, stale>>

\* One turn of the loop: the deadline, the references, the age gate.
Judge(n) ==
    /\ gc[n].pc = "judge"
    /\ ~PastDeadline(n)
    /\ \E e \in gc[n].entries :
        /\ IF <<gc[n].store, e.key>> \in gc[n].refs \/ now - e.mod < MinAge
           THEN gc' = [gc EXCEPT ![n].entries = @ \ {e}]
           ELSE gc' = [gc EXCEPT ![n].entries = @ \ {e}, ![n].pick = e, ![n].pc = "delete"]
    /\ UNCHANGED <<now, obj, row, used, upload, lock, stale>>

JudgeEnds(n) ==
    /\ gc[n].pc = "judge"
    /\ PastDeadline(n) \/ gc[n].entries = {}
    /\ gc' = [gc EXCEPT ![n].pc = "count", ![n].entries = {}]
    /\ UNCHANGED <<now, obj, row, used, upload, lock, stale>>

\* store.Delete succeeds for a missing object as well.
DeleteOrphan(n) ==
    /\ gc[n].pc = "delete"
    /\ \/ /\ obj' = [obj EXCEPT ![<<gc[n].store, gc[n].pick.key>>] = None]
          /\ gc' = [gc EXCEPT ![n].pc = "judge", ![n].pick = None, ![n].removed = @ + 1]
       \/ /\ gc' = [gc EXCEPT ![n].pc = "judge", ![n].pick = None]
          /\ UNCHANGED obj
    /\ UNCHANGED <<now, row, used, upload, lock, stale>>

\* The space is given back, and the pass goes on to the next store.
Count(n) ==
    /\ gc[n].pc = "count"
    /\ UpdateUsedBytes(gc[n].store, -gc[n].removed)
    /\ gc' = [gc EXCEPT ![n].pc = "list", ![n].store = None, ![n].removed = 0]
    /\ UNCHANGED <<now, obj, row, upload, lock, stale>>

\* Fault: Release deletes the key whoever holds it.
ReleaseAny(n) == lock' = FreeLock

\* DelIfMatch: the token is this holder's.
Release(n) == lock' = IF lock.holder = n THEN FreeLock ELSE lock

\* Every store is done, or the references or the stores could not be read.
End(n) ==
    /\ gc[n].pc = "snapshot" \/ (gc[n].pc = "list" /\ gc[n].todo = {})
    /\ gc' = [gc EXCEPT ![n] = NoPass]
    /\ IF gc[n].deadline # None THEN Release(n) ELSE UNCHANGED lock
    /\ UNCHANGED <<now, obj, row, used, upload, stale>>

\* The server dies and leaves its token behind.
Crash(n) ==
    /\ gc[n].pc # "idle"
    /\ gc' = [gc EXCEPT ![n] = NoPass]
    /\ UNCHANGED <<now, obj, row, used, upload, lock, stale>>

PassStep(n) ==
    \/ SetDeadline(n) \/ Snapshot(n) \/ ListEntries(n) \/ ListFails(n) \/ Judge(n)
    \/ JudgeEnds(n) \/ DeleteOrphan(n) \/ Count(n) \/ End(n)

Next ==
    \/ Tick
    \/ \E w \in Uploads :
        \/ \E s \in Stores, k \in Keys : UploadPut(w, s, k)
        \/ UploadRegister(w) \/ UploadAbort(w)
    \/ \E k \in Keys : Delete(k) \/ \E t \in Stores : Migrate(k, t)
    \/ \E n \in Nodes :
        Acquire(n) \/ (\E s \in Stores : CompactStore(n, s)) \/ PassStep(n) \/ Crash(n)

Spec == Init /\ [][Next]_vars

-----------------------------------------------------------------------------
(* Properties                                                              *)

Live(s, k) ==
    \/ row[k] # None /\ Located(k) = s
    \/ \E w \in Uploads : upload[w].pc = "stored" /\ upload[w].store = s /\ upload[w].key = k

\* What the age gate is for (gc_service.go:216): an object a cron's pass deletes
\* is neither named by an asset nor being uploaded, although references and
\* listing are old by then, if gc.min_age covers the lock's TTL and an upload.
SparesLive ==
    \A n \in Nodes :
        gc[n].pc = "delete" /\ gc[n].deadline # None =>
            \/ ~Live(gc[n].store, gc[n].pick.key)
            \/ <<gc[n].store, gc[n].pick.key>> \in stale

\* Two passes never work under the lock at one time (issue #371); MaxDelay is
\* how much later than Redis a pass may believe its lock to end.
Guarded(n) == gc[n].deadline # None /\ now + MaxDelay < gc[n].deadline
Exclusive == \A n, m \in Nodes : Guarded(n) /\ Guarded(m) => n = m

=============================================================================
