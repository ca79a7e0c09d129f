------------------------- MODULE BlobStoreMigration -------------------------
(***************************************************************************)
(* service/blob_store_migration_service.go: a goroutine moves the bytes of *)
(* one repository from store to store, row by row (copy, flip the rows'    *)
(* store, drop the source copy), while clients keep uploading to the       *)
(* repository's current store and deleting.  One active migration per      *)
(* repository: a partial unique index, and a Redis lock with a TTL.  A     *)
(* starting server cancels every active migration (ResumeAll).             *)
(***************************************************************************)
EXTENDS Integers, Sequences, FiniteSets, FiniteSetsExt

CONSTANTS
    Nodes,      \* servers that share the database, Redis and the blob stores
    Stores,
    Home,       \* the store of the repository at the start
    Paths,      \* asset paths; a path also stands for its blob key
    KeyOf,      \* the blob key a path's row names: its own, or, for a digest
                \* alias or a mount, that of the path it shares the bytes of
    Foreign,    \* paths of other repositories (mounts)
    Contents,
    SizeOf,     \* size of each content
    Clients,
    Migrations, \* 1 .. the number of migrations of a behaviour
    MaxWrites,  \* bound on the uploads of a behaviour
    Deletes,    \* TRUE: clients delete
    Failures,   \* TRUE: store and database calls may fail, and nodes crash
    Restarts,   \* TRUE: a node may be restarted while others run migrations
    None

ASSUME MigrationAssumption ==
    /\ Migrations = 1 .. Cardinality(Migrations) /\ MaxWrites \in Nat
    /\ Home \in Stores /\ Foreign \subseteq Paths
    /\ KeyOf \in [Paths -> Paths] /\ \A p \in Paths : KeyOf[KeyOf[p]] = KeyOf[p]
    /\ SizeOf \in [Contents -> Nat \ {0}]

Keys == Paths
Row == [store : Stores, data : Contents, ver : 0 .. MaxWrites]
Item == [key : Keys, src : Stores, size : Nat]      \* domain.MigrationAssetRow

ASSUME NoneAssumption == None \notin Contents \cup Stores \cup Paths \cup Row \cup Item

Active == {"pending", "running"}
Status == Active \cup {"none", "done", "failed", "cancelled"}

VARIABLES
    obj,        \* the objects of each store
    row,        \* assets table
    used,       \* blob_stores.used_bytes
    repoStore,  \* repositories.blob_store_id
    mig,        \* blob_store_migrations: status and target
    run,        \* the goroutine of each migration
    redis,      \* token in the migration's Redis lock: a migration, or a dead one
    keyLock,    \* advisory lock of each blob key
    up,         \* running servers
    client,     \* what each client's request does
    writes,     \* registrations so far, the clock of last_modified
    last,       \* history: the content last stored under each key
    stranded,   \* history: a start left an active migration as it found it
    contested   \* history: keys stored in one store while another holds, or a
                \* migration makes, a copy, or while a delete removes it; every key
                \* once two migrations run at one time

world == <<obj, row, used, repoStore>>
history == <<writes, last, stranded, contested>>
vars == <<obj, row, used, repoStore, mig, run, redis, keyLock, up, client, writes, last, stranded, contested>>

RunPC == {"none", "start", "list", "row", "exists", "read", "put", "recheck",
          "flipLock", "flipSize", "flip", "count", "drop", "finish", "done"}
Run == [pc : RunPC, node : Nodes \cup {None}, todo : SUBSET Item, cur : Item \cup {None},
        expect : Nat, got : Contents \cup {None},
        cancelled : BOOLEAN, past : BOOLEAN, since : Nat]
NoRun == [pc |-> "none", node |-> None, todo |-> {}, cur |-> None, expect |-> 0,
          got |-> None, cancelled |-> FALSE, past |-> FALSE, since |-> 0]

Request == [pc : {"idle", "resolved", "stored", "delete"}, path : Paths \cup {None},
            store : Stores \cup {None}, data : Contents \cup {None}, snap : Row \cup {None}]
NoRequest == [pc |-> "idle", path |-> None, store |-> None, data |-> None, snap |-> None]

TypeOK ==
    /\ obj \in [Stores -> [Keys -> Contents \cup {None}]]
    /\ row \in [Paths -> Row \cup {None}]
    /\ used \in [Stores -> Nat]
    /\ repoStore \in Stores
    /\ mig \in [Migrations -> [status : Status, target : Stores]]
    /\ \A i \in Migrations : run[i].pc \in RunPC /\ run[i].cur \in Item \cup {None}
    /\ redis \in Migrations \cup {0, None}
    /\ keyLock \in [Keys -> Migrations \cup {None}]
    /\ up \subseteq Nodes
    /\ client \in [Clients -> Request]
    /\ writes \in 0 .. MaxWrites /\ stranded \in BOOLEAN

-----------------------------------------------------------------------------
(* The repository before the first migration: some paths stored at home.   *)

Sum(o) == MapThenSumSet(LAMBDA k : IF o[k] = None THEN 0 ELSE SizeOf[o[k]], Keys)

Init ==
    /\ \E f \in [Paths -> Contents] :
        /\ row = [p \in Paths |-> [store |-> Home, data |-> f[p], ver |-> 0]]
        /\ last = [k \in Keys |-> IF KeyOf[k] = k THEN f[k] ELSE None]
        /\ obj = [s \in Stores |-> IF s = Home THEN last ELSE [k \in Keys |-> None]]
    /\ used = [s \in Stores |-> Sum(obj[s])]
    /\ repoStore = Home
    /\ mig = [i \in Migrations |-> [status |-> "none", target |-> Home]]
    /\ run = [i \in Migrations |-> NoRun]
    /\ redis = None
    /\ keyLock = [k \in Keys |-> None]
    /\ up = Nodes
    /\ client = [c \in Clients |-> NoRequest]
    /\ writes = 0
    /\ stranded = FALSE
    /\ contested = {}

-----------------------------------------------------------------------------
(* Helpers                                                                 *)

\* Fault: the counter is not floored at zero.
UpdateUnfloored(s, d) == used' = [used EXCEPT ![s] = @ + d]

UpdateUsedBytes(s, d) == used' = [used EXCEPT ![s] = IF @ + d < 0 THEN 0 ELSE @ + d]

Put(s, k, d) == obj' = [obj EXCEPT ![s][k] = d]
Delete(s, k) == obj' = [obj EXCEPT ![s][k] = None]
Holds(s, k, n) == obj[s][k] # None /\ SizeOf[obj[s][k]] = n

Storing(k) == \E c \in Clients : client[c].pc = "stored" /\ client[c].path = k
InHand(k) ==
    \E i \in Migrations :
        /\ run[i].pc \in {"exists", "read", "put", "recheck", "flipLock", "flipSize",
                          "flip", "count", "drop"}
        /\ run[i].cur.key = k

\* A client stores bytes while a migration handles the key, next to a copy, or
\* while the key's last reference is deleted.
Track ==
    contested' = contested \cup
        {k \in Keys : \/ Storing(k)' /\ InHand(k)'
                      \/ Storing(k)' /\ \E s \in Stores : obj[s][k] # None /\ obj'[s][k] = None
                      \/ Storing(k)' /\ ~Storing(k) /\ \E s, t \in Stores :
                            s # t /\ obj'[s][k] # None /\ obj'[t][k] # None}

Goto(i, l) == run' = [run EXCEPT ![i].pc = l]
ActiveMigrations == {i \in Migrations : mig[i].status \in Active}

\* runMigration returns: its deferred calls give both locks back.  Release
\* deletes the Redis key only while it holds this run's token.
Exit(i) ==
    /\ run' = [run EXCEPT ![i] = NoRun]
    /\ redis' = IF redis = i THEN None ELSE redis
    /\ keyLock' = [k \in Keys |-> IF keyLock[k] = i THEN None ELSE keyLock[k]]

FinishMigration(i, s) == mig' = [mig EXCEPT ![i].status = s]
FinishAs(i, s) == FinishMigration(i, s) /\ Exit(i)

\* What most steps of a run leave alone.
Quiet == /\ UNCHANGED <<up, client, writes, last, stranded>>
         /\ Track

-----------------------------------------------------------------------------
(* Start, Cancel, and the life of a server                                 *)

\* The pre-check, the Redis lock, the insert the unique index decides.
Start(n, t) ==
    /\ n \in up
    /\ t # repoStore
    /\ ActiveMigrations = {}
    /\ redis = None
    /\ \E i \in Migrations :
        /\ mig[i].status = "none"
        /\ \A j \in Migrations : j < i => mig[j].status # "none"
        /\ mig' = [mig EXCEPT ![i] = [status |-> "pending", target |-> t]]
        /\ run' = [run EXCEPT ![i] = [NoRun EXCEPT !.pc = "start", !.node = n]]
        /\ redis' = i
    /\ stranded' = FALSE
    /\ contested' = IF \E j \in Migrations : run[j].pc # "none" THEN Keys ELSE contested
    /\ UNCHANGED <<obj, row, used, repoStore, keyLock, up, client, writes, last>>

\* The cancel func is in the map of the node that runs the migration; on any
\* other node Cancel does nothing.
Cancel(i) ==
    /\ run[i].pc # "none"
    /\ run' = [run EXCEPT ![i].cancelled = TRUE]
    /\ UNCHANGED <<obj, row, used, repoStore, mig, redis, keyLock, up, client>>
    /\ UNCHANGED history

\* blobMigLockTTL is up: Redis drops the key, and the run is past its deadline.
Expire ==
    /\ redis # None
    /\ redis' = None
    /\ run' = IF redis = 0 THEN run ELSE [run EXCEPT ![redis].past = TRUE]
    /\ UNCHANGED <<obj, row, used, repoStore, mig, keyLock, up, client>>
    /\ UNCHANGED history

\* A node dies.  PostgreSQL drops its advisory locks; its Redis token stays, as
\* does the one of a Start that had not recorded its migration yet.
Crash(n) ==
    /\ Failures
    /\ n \in up
    /\ up' = up \ {n}
    /\ run' = [i \in Migrations |-> IF run[i].node = n THEN NoRun ELSE run[i]]
    /\ keyLock' = [k \in Keys |-> IF keyLock[k] # None /\ run[keyLock[k]].node = n
                                  THEN None ELSE keyLock[k]]
    /\ redis' \in {redis} \cup IF redis = None THEN {0} ELSE {}
    /\ UNCHANGED <<obj, row, used, repoStore, mig, client>>
    /\ UNCHANGED history

\* Fault: the lock is cleared, the migration's row stays.
ResumeAllKeepRows ==
    /\ redis' = IF ActiveMigrations # {} THEN None ELSE redis
    /\ stranded' = FALSE
    /\ UNCHANGED mig

\* Every active migration is cancelled and its lock cleared; what fails of that, the
\* listing of the active ones first, fails silently and is not tried again.
ResumeAll ==
    /\ \/ /\ mig' = [i \in Migrations |-> IF i \in ActiveMigrations
                                          THEN [mig[i] EXCEPT !.status = "cancelled"] ELSE mig[i]]
          /\ stranded' = FALSE
       \/ /\ Failures /\ ActiveMigrations # {}
          /\ stranded' = TRUE
          /\ UNCHANGED mig
    /\ redis' \in {IF ActiveMigrations # {} THEN None ELSE redis} \cup IF Failures THEN {redis} ELSE {}

\* A server starts: after a crash, or, in a rolling restart, next to others.
Restart(n) ==
    /\ \/ n \notin up
       \/ Restarts /\ \A i \in Migrations : run[i].node # n
    /\ up' = up \cup {n}
    /\ ResumeAll
    /\ UNCHANGED <<obj, row, used, repoStore, run, keyLock, client>>
    /\ UNCHANGED <<writes, last, contested>>

-----------------------------------------------------------------------------
(* runMigration                                                            *)

\* UpdateStatus("running"): the unique index refuses a second active row, and
\* the deferred check then closes a row that still is pending.
RunStart(i) ==
    /\ run[i].pc = "start"
    /\ IF ActiveMigrations \subseteq {i}
       THEN /\ mig' = [mig EXCEPT ![i].status = "running"]
            /\ Goto(i, "list")
            /\ UNCHANGED <<redis, keyLock>>
       ELSE Exit(i) /\ UNCHANGED mig
    /\ UNCHANGED world
    /\ Quiet

\* ListForBlobStoreMigration: the distinct (key, store, size) of the rows of
\* the repository that are not in the target yet.
RunList(i) ==
    /\ run[i].pc = "list"
    /\ run' = [run EXCEPT ![i].pc = "row", ![i].since = writes,
                ![i].todo = {[key |-> KeyOf[p], src |-> row[p].store, size |-> SizeOf[row[p].data]] :
                    p \in {q \in Paths \ Foreign : row[q] # None /\ row[q].store # mig[i].target}}]
    /\ UNCHANGED world
    /\ UNCHANGED <<mig, redis, keyLock>>
    /\ Quiet

\* Fault: the loop stops at the first row.
RunRowOnce(i) ==
    /\ run[i].pc = "row"
    /\ run[i].cur = None /\ run[i].todo # {}
    /\ \E r \in run[i].todo :
        run' = [run EXCEPT ![i].pc = "exists", ![i].cur = r, ![i].todo = {}]
    /\ UNCHANGED world
    /\ UNCHANGED <<mig, redis, keyLock>>
    /\ Quiet

\* The head of the loop: the deadline, then the cancellation, then the next row.
RunRow(i) ==
    /\ run[i].pc = "row"
    /\ run[i].todo # {}
    /\ IF run[i].past \/ run[i].cancelled
       THEN FinishAs(i, "cancelled")
       ELSE /\ \E r \in run[i].todo :
                  run' = [run EXCEPT ![i].pc = "exists", ![i].cur = r, ![i].todo = @ \ {r}]
            /\ UNCHANGED <<mig, redis, keyLock>>
    /\ UNCHANGED world
    /\ Quiet

RunRowsDone(i) ==
    /\ run[i].pc = "row"
    /\ run[i].todo = {}
    /\ Goto(i, "finish")
    /\ UNCHANGED world
    /\ UNCHANGED <<mig, redis, keyLock>>
    /\ Quiet

\* A key that is in the target already is not copied again.
RunExists(i) ==
    /\ run[i].pc = "exists"
    /\ run' = IF obj[mig[i].target][run[i].cur.key] # None
              THEN [run EXCEPT ![i].pc = "flipLock", ![i].expect = run[i].cur.size]
              ELSE [run EXCEPT ![i].pc = "read"]
    /\ UNCHANGED world
    /\ UNCHANGED <<mig, redis, keyLock>>
    /\ Quiet

\* copyBlob: Get, Put, and the second look at the size of the source.
RunRead(i) ==
    /\ run[i].pc = "read"
    /\ LET d == obj[run[i].cur.src][run[i].cur.key]
       IN IF d = None
          THEN FinishAs(i, "failed")
          ELSE /\ run' = [run EXCEPT ![i].pc = "put", ![i].got = d]
               /\ UNCHANGED <<mig, redis, keyLock>>
    /\ UNCHANGED world
    /\ Quiet

RunPut(i) ==
    /\ run[i].pc = "put"
    /\ Put(mig[i].target, run[i].cur.key, run[i].got)
    /\ Goto(i, "recheck")
    /\ UNCHANGED <<row, used, repoStore, mig, redis, keyLock>>
    /\ Quiet

RunRecheck(i) ==
    /\ run[i].pc = "recheck"
    /\ LET n == SizeOf[run[i].got]
           same == Holds(run[i].cur.src, run[i].cur.key, n)
       IN \/ /\ same
             /\ run' = [run EXCEPT ![i].pc = "flipLock", ![i].expect = n]
             /\ UpdateUsedBytes(mig[i].target, n)
             /\ UNCHANGED <<obj, mig, redis, keyLock>>
          \/ /\ ~same \/ Failures
             /\ Delete(mig[i].target, run[i].cur.key) \/ (Failures /\ UNCHANGED obj)
             /\ FinishAs(i, "failed")
             /\ UNCHANGED used
    /\ UNCHANGED <<row, repoStore>>
    /\ Quiet

RunFlipLock(i) ==
    /\ run[i].pc = "flipLock"
    /\ keyLock[run[i].cur.key] = None
    /\ keyLock' = [keyLock EXCEPT ![run[i].cur.key] = i]
    /\ Goto(i, "flipSize")
    /\ UNCHANGED world
    /\ UNCHANGED <<mig, redis>>
    /\ Quiet

RunFlipSize(i) ==
    /\ run[i].pc = "flipSize"
    /\ IF Holds(run[i].cur.src, run[i].cur.key, run[i].expect)
       THEN Goto(i, "flip") /\ UNCHANGED <<mig, redis, keyLock>>
       ELSE FinishAs(i, "failed")
    /\ UNCHANGED world
    /\ Quiet

\* UpdateBlobStoreForBlobKey: every row of the repository that names the key.
RunFlip(i) ==
    /\ run[i].pc = "flip"
    /\ row' = [p \in Paths |->
                IF p \notin Foreign /\ row[p] # None /\ KeyOf[p] = run[i].cur.key
                THEN [row[p] EXCEPT !.store = mig[i].target] ELSE row[p]]
    /\ Goto(i, "count")
    /\ UNCHANGED <<obj, used, repoStore, mig, redis, keyLock>>
    /\ Quiet

NextRow(i) ==
    /\ run' = [run EXCEPT ![i].pc = "row"]
    /\ keyLock' = [keyLock EXCEPT ![run[i].cur.key] = None]

\* Fault: the source copy is dropped without asking who else names it.
RunCountIgnored(i) ==
    /\ run[i].pc = "count"
    /\ Goto(i, "drop")
    /\ UNCHANGED world
    /\ UNCHANGED <<mig, redis, keyLock>>
    /\ Quiet

\* dropSourceCopy; an error of any of its calls keeps the source copy.
RunCount(i) ==
    /\ run[i].pc = "count"
    /\ \/ /\ \A p \in Paths : row[p] # None /\ KeyOf[p] = run[i].cur.key =>
                row[p].store # run[i].cur.src
          /\ Goto(i, "drop")
          /\ UNCHANGED keyLock
       \/ /\ \/ Failures
             \/ \E p \in Paths : row[p] # None /\ KeyOf[p] = run[i].cur.key
                                    /\ row[p].store = run[i].cur.src
          /\ NextRow(i)
    /\ UNCHANGED world
    /\ UNCHANGED <<mig, redis>>
    /\ Quiet

\* Fault: the source keeps counting the bytes it dropped (issue #297).
RunDropUncounted(i) ==
    /\ run[i].pc = "drop"
    /\ Delete(run[i].cur.src, run[i].cur.key)
    /\ NextRow(i)
    /\ UNCHANGED <<row, used, repoStore, mig, redis>>
    /\ Quiet

RunDrop(i) ==
    /\ run[i].pc = "drop"
    /\ LET d == obj[run[i].cur.src][run[i].cur.key]
           n == IF d = None THEN run[i].cur.size ELSE SizeOf[d]
       IN UpdateUsedBytes(run[i].cur.src, -n)
    /\ Delete(run[i].cur.src, run[i].cur.key)
    /\ NextRow(i)
    /\ UNCHANGED <<row, repoStore, mig, redis>>
    /\ Quiet

\* The repository moves once, after its rows; an error of that is ignored, and
\* the run is done.
RunFinish(i) ==
    /\ run[i].pc = "finish"
    /\ repoStore' = mig[i].target \/ (Failures /\ UNCHANGED repoStore)
    /\ Goto(i, "done")
    /\ UNCHANGED <<obj, row, used, mig, redis, keyLock>>
    /\ Quiet

RunDone(i) ==
    /\ run[i].pc = "done"
    /\ FinishAs(i, "done")
    /\ UNCHANGED world
    /\ Quiet

\* A call of the run fails, or it panics.
RunFail(i) ==
    /\ Failures
    /\ run[i].pc \in {"start", "list", "row", "exists", "read", "put",
                      "flipLock", "flipSize", "flip"}
    /\ IF run[i].pc = "start" /\ mig[i].status \notin Active
       THEN Exit(i) /\ UNCHANGED mig
       ELSE FinishAs(i, "failed")
    /\ UNCHANGED world
    /\ Quiet

-----------------------------------------------------------------------------
(* Clients: StoreArtifact and DeleteArtifact as far as they meet a run     *)

Become(c, r) == client' = [client EXCEPT ![c] = r]

\* resolveBlobStoreRef reads the repository's store ahead of the write.
UploadResolve(c, p) ==
    /\ client[c].pc = "idle"
    /\ KeyOf[p] = p /\ p \notin Foreign
    /\ writes < MaxWrites
    /\ \A b \in Clients : client[b].path # p
    /\ Become(c, [NoRequest EXCEPT !.pc = "resolved", !.path = p, !.store = repoStore])
    /\ UNCHANGED <<obj, row, used, repoStore, mig, run, redis, keyLock, up>>
    /\ UNCHANGED history

UploadPut(c, d) ==
    /\ client[c].pc = "resolved"
    /\ Put(client[c].store, client[c].path, d)
    /\ last' = [last EXCEPT ![client[c].path] = d]
    /\ Become(c, [client[c] EXCEPT !.pc = "stored", !.data = d])
    /\ UNCHANGED <<row, used, repoStore, mig, run, redis, keyLock, up, writes, stranded>>
    /\ Track

UsageDelta(p, s, n) ==
    IF row[p] # None /\ row[p].store = s THEN n - SizeOf[row[p].data]
    ELSE IF row[p] # None /\ \E q \in Paths \ {p} : row[q] # None /\ KeyOf[q] = p THEN 0
    ELSE n

UploadRegister(c) ==
    /\ client[c].pc = "stored"
    /\ writes < MaxWrites
    /\ writes' = writes + 1
    /\ LET p == client[c].path
           s == client[c].store
       IN /\ row' = [row EXCEPT ![p] = [store |-> s, data |-> client[c].data, ver |-> writes']]
          /\ UpdateUsedBytes(s, UsageDelta(p, s, SizeOf[client[c].data]))
    /\ Become(c, NoRequest)
    /\ UNCHANGED <<obj, repoStore, mig, run, redis, keyLock, up, last, stranded>>
    /\ Track

\* The request fails between its bytes and its row.
UploadAbort(c) ==
    /\ Failures
    /\ client[c].pc \in {"resolved", "stored"}
    /\ Become(c, NoRequest)
    /\ UNCHANGED <<obj, row, used, repoStore, mig, run, redis, keyLock, up, writes, last, stranded>>
    /\ Track

\* DeleteArtifact reads the row, and resolves its store, ahead of the lock.
DeleteRead(c, p) ==
    /\ Deletes
    /\ client[c].pc = "idle"
    /\ p \notin Foreign /\ row[p] # None
    /\ \A b \in Clients : client[b].path # p
    /\ Become(c, [NoRequest EXCEPT !.pc = "delete", !.path = p, !.snap = row[p]])
    /\ UNCHANGED <<obj, row, used, repoStore, mig, run, redis, keyLock, up>>
    /\ UNCHANGED history

\* The critical section (module ArtifactStore has its steps).  A flip changes
\* neither the id nor last_modified, so the row passes the second look.
DeleteLocked(c) ==
    /\ client[c].pc = "delete"
    /\ LET p == client[c].path
           k == KeyOf[p]
           s == client[c].snap
       IN /\ keyLock[k] = None
          /\ IF row[p] = None \/ row[p].ver # s.ver
             THEN UNCHANGED <<row, obj, used>>
             ELSE /\ row' = [row EXCEPT ![p] = None]
                  /\ IF \A q \in Paths \ {p} : row[q] # None => KeyOf[q] # k
                     THEN Delete(s.store, k) /\ UpdateUsedBytes(s.store, -SizeOf[s.data])
                     ELSE UNCHANGED <<obj, used>>
    /\ Become(c, NoRequest)
    /\ UNCHANGED <<repoStore, mig, run, redis, keyLock, up, writes, last, stranded>>
    /\ Track

-----------------------------------------------------------------------------

RunStep(i) ==
    \/ RunStart(i) \/ RunList(i) \/ RunRow(i) \/ RunRowsDone(i) \/ RunExists(i)
    \/ RunRead(i) \/ RunPut(i) \/ RunRecheck(i) \/ RunFlipSize(i) \/ RunFlip(i)
    \/ RunCount(i) \/ RunDrop(i) \/ RunFinish(i) \/ RunDone(i)

ClientStep(c) ==
    \/ \E p \in Paths : UploadResolve(c, p) \/ DeleteRead(c, p)
    \/ \E d \in Contents : UploadPut(c, d)
    \/ UploadRegister(c) \/ UploadAbort(c) \/ DeleteLocked(c)

Next ==
    \/ \E n \in Nodes : (\E t \in Stores : Start(n, t)) \/ Crash(n) \/ Restart(n)
    \/ Expire
    \/ \E i \in Migrations : Cancel(i) \/ RunStep(i) \/ RunFlipLock(i) \/ RunFail(i)
    \/ \E c \in Clients : ClientStep(c)

Spec == Init /\ [][Next]_vars

\* Goroutines keep running, advisory locks are queues, a crashed server is
\* started again, and a TTL expires.
Fairness ==
    /\ \A i \in Migrations : WF_vars(RunStep(i)) /\ SF_vars(RunFlipLock(i))
    /\ \A n \in Nodes : WF_vars(n \notin up /\ Restart(n))
    /\ WF_vars(Expire)

FairSpec == Spec /\ Fairness

-----------------------------------------------------------------------------
(* Properties                                                              *)

\* A row is served the bytes last stored under its key, through copies, flips,
\* drops, cancellations, crashes and re-runs (runMigration's order: copy, flip,
\* drop), while no client stores bytes next to a copy or during a delete of the
\* key's last row, and no two migrations run at one time.
RowsServeLatest ==
    \A p \in Paths :
        row[p] # None /\ KeyOf[p] \notin contested =>
            obj[row[p].store][KeyOf[p]] = last[KeyOf[p]]

\* A migration reports "done" with every row that it listed and that nobody
\* rewrote since in its target, and the repository too.
Ends(i) == mig'[i].status = "done" /\ mig[i].status # "done"
RowsMoved ==
    \A i \in Migrations, p \in Paths \ Foreign :
        Ends(i) /\ row[p] # None /\ row[p].ver <= run[i].since => row[p].store = mig[i].target
EndsMoved == RowsMoved /\ \A i \in Migrations : Ends(i) => repoStore = mig[i].target
DoneMeansMoved == [][EndsMoved]_vars

\* Between migrations each store counts the bytes it holds: a copy is counted
\* where it is made and taken off where it is dropped (issue #297).  Again while
\* no client stores bytes next to a copy.
UsageFollowsBytes ==
    /\ contested = {}
    /\ \A i \in Migrations : run[i].pc = "none"
    /\ \A c \in Clients : client[c].pc = "idle"
    =>
        \A s \in Stores : used[s] = Sum(obj[s])

\* The repository can be migrated again: neither an active row nor the lock of a
\* dead server stays for ever (Start's and ResumeAll's comments).  The exception is
\* a start whose ResumeAll fails, an error that router.go:350 discards: the active
\* row stays until another start, although the lock goes.
Unblocked ==
    ActiveMigrations # {} \/ redis # None ~> (ActiveMigrations = {} \/ stranded) /\ redis = None

=============================================================================
