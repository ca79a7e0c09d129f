------------------------------ MODULE Backup ------------------------------
(* Backup and restore: the full archive (Export, Restore) and the archive of one
   repository (ExportRepo, ImportRepo), beside clients that go on uploading and
   deleting.  Between an export and a restore the server may be installed anew.

   Data: an artifact is a repository and a path, with one component each; its bytes
   are the number of the upload that wrote them.  The identifier of a record is its
   name and the installation that made it.  Jobs run one at a time.

   The backup service reads and writes one store, the one of the server's
   configuration.  In an installation on S3 that is the bucket of the record
   "default"; in a local one it is the base path itself, under which every record has a
   directory of its own, so it is none of the records' stores ("base"). *)
EXTENDS Naturals, FiniteSets

CONSTANTS Names,       \* repository names
          Free,        \* those no repository has at the start
          Paths,
          Home,        \* repository -> the store it is configured on
          MaxVersion,  \* bound on uploads
          MaxFaults,   \* bound on storage and database failures
          None

Stores == {"default", "other"}   \* the records
Places == Stores \cup {"base"}
Artifacts == Names \X Paths

VARIABLES epoch,     \* which installation is running
          service,   \* the store of the backup service: "default" | "base"
          stores,    \* the blob store records
          repos,     \* the repository records
          settings,  \* users, roles and cleanup policies
          comps,     \* components
          rows,      \* artifact -> its asset row
          bytes,     \* store and blob key -> the upload whose bytes are there, 0 for none
          archive,   \* the last archive written
          job,       \* the backup operation under way
          version, mishaps

vars == <<epoch, service, stores, repos, settings, comps, rows, bytes, archive, job, version, mishaps>>
data == <<stores, repos, settings, comps, rows, bytes>>

Keys == Places \X Artifacts
NoBytes == [k \in Keys |-> 0]
NoRows == [x \in Artifacts |-> None]
Row(st, key, v) == [store |-> st, key |-> key, version |-> v]
Id(store, e) == <<store, e>>
Served(x) == IF rows[x] = None THEN 0 ELSE bytes[<<rows[x].store, rows[x].key>>]

IdleJob == [kind |-> "idle", pc |-> "", target |-> None, names |-> {}, oldIds |-> {}, todo |-> {},
            at |-> None, known |-> {}, linked |-> {}, before |-> {}, spoiled |-> {}]

TypeOK ==
  /\ epoch \in 0..1 /\ service \in {"default", "base"} /\ stores \subseteq Stores /\ repos \subseteq Names
  /\ settings \subseteq {"user", "role", "policy"} /\ comps \subseteq Artifacts
  /\ \A x \in Artifacts : rows[x] # None => rows[x].store \in Stores /\ rows[x].version \in 1..MaxVersion
  /\ bytes \in [Keys -> 0..MaxVersion] /\ job.spoiled \subseteq Artifacts
  /\ job.kind \in {"idle", "export", "restore", "import"} /\ job.todo \subseteq Artifacts
  /\ version \in 0..MaxVersion /\ mishaps \in 0..MaxFaults

Init ==
  /\ epoch = 0 /\ service \in {"default", "base"} /\ stores = Stores /\ repos = Names \ Free /\ settings = {"user", "role", "policy"}
  /\ comps = {} /\ rows = NoRows /\ bytes = NoBytes /\ archive = None
  /\ job = IdleJob /\ version = 0 /\ mishaps = 0

----------------------------------------------------------------------------
(* The clients and the administrator who reinstalls *)
\* What a job cannot answer for: the artifacts (and keys) somebody wrote while it ran
\* and those whose own call failed.
Spoil(j, xs) == IF j.kind = "idle" THEN j ELSE [j EXCEPT !.spoiled = @ \cup xs]
Failing(xs) == {f \in SUBSET xs : mishaps + Cardinality(f) <= MaxFaults}
Failed(f) == mishaps' = mishaps + Cardinality(f)

Upload(x) ==
  /\ x[1] \in repos /\ Home[x[1]] \in stores /\ version < MaxVersion
  /\ version' = version + 1 /\ comps' = comps \cup {x}
  /\ rows' = [rows EXCEPT ![x] = Row(Home[x[1]], x, version + 1)]
  /\ bytes' = [bytes EXCEPT ![<<Home[x[1]], x>>] = version + 1]
  /\ job' = Spoil(job, {x})
  /\ UNCHANGED <<epoch, service, stores, repos, settings, archive, mishaps>>

Remove(x) ==
  /\ rows[x] # None
  /\ rows' = [rows EXCEPT ![x] = None] /\ comps' = comps \ {x}
  /\ bytes' = IF \E y \in Artifacts \ {x} : rows[y] # None /\ rows[y].store = rows[x].store /\ rows[y].key = rows[x].key
              THEN bytes ELSE [bytes EXCEPT ![<<rows[x].store, rows[x].key>>] = 0]
  /\ job' = Spoil(job, {x, rows[x].key})
  /\ UNCHANGED <<epoch, service, stores, repos, settings, archive, version, mishaps>>

\* A new installation has the default store and the built-in records only; it may be
\* of the other kind.
Reinstall ==
  /\ epoch = 0 /\ job.kind = "idle" /\ archive # None /\ epoch' = 1
  /\ service' \in {"default", "base"} /\ stores' = {"default"} /\ repos' = {} /\ settings' = {} /\ comps' = {}
  /\ rows' = NoRows /\ bytes' = NoBytes /\ UNCHANGED <<archive, job, version, mishaps>>

----------------------------------------------------------------------------
(* Export and ExportRepo: each section is a query of its own *)
ExportRecords(names) ==
  /\ job.kind = "idle" /\ archive = None /\ names # {}
  /\ archive' = [epoch |-> epoch, whole |-> names = repos, stores |-> stores, repos |-> names, settings |-> settings,
                 comps |-> {}, rows |-> {}, blobs |-> {}]
  /\ job' = [IdleJob EXCEPT !.kind = "export", !.pc = "components"]
  /\ UNCHANGED <<data, epoch, service, version, mishaps>>
Export == ExportRecords(repos)
ExportRepo(r) == r \in repos /\ ExportRecords({r})

collectComponents ==
  /\ job.kind = "export" /\ job.pc = "components"
  /\ LET listed == {c \in comps : c[1] \in archive.repos} IN
     \E f \in Failing(listed) :     \* the pages after a failing one are left out
       archive' = [archive EXCEPT !.comps = listed \ f] /\ Failed(f)
  /\ job' = [job EXCEPT !.pc = "assets"] /\ UNCHANGED <<data, epoch, service, version>>
collectAssets ==
  /\ job.kind = "export" /\ job.pc = "assets"
  /\ LET listed == {y \in Artifacts : y[1] \in archive.repos /\ rows[y] # None} IN
     \E f \in Failing(listed) :
       archive' = [archive EXCEPT !.rows = {<<x, rows[x]>> : x \in listed \ f}] /\ Failed(f)
  /\ job' = [job EXCEPT !.pc = "blobs", !.todo = {r[2].key : r \in archive'.rows}]
  /\ UNCHANGED <<data, epoch, service, version>>

\* Fault: the bytes of the second key on are left out.
Fault_OneBlob(key) ==
  /\ job.kind = "export" /\ job.pc = "blobs" /\ key \in job.todo
  /\ LET v == bytes[<<service, key>>]
     IN  archive' = IF v = 0 THEN archive ELSE [archive EXCEPT !.blobs = @ \cup {<<key, v>>}]
  /\ job' = [job EXCEPT !.todo = {}] /\ UNCHANGED <<data, epoch, service, version, mishaps>>

\* A blob that cannot be read, or that is not in the service's store, is left out.
writeBlobEntries(key) ==
  /\ job.kind = "export" /\ job.pc = "blobs" /\ key \in job.todo
  /\ LET v == bytes[<<service, key>>]
     IN  \/ /\ archive' = IF v = 0 THEN archive ELSE [archive EXCEPT !.blobs = @ \cup {<<key, v>>}]
            /\ job' = [job EXCEPT !.todo = @ \ {key}] /\ UNCHANGED mishaps
         \/ /\ v # 0 /\ Failed({key}) /\ mishaps < MaxFaults /\ UNCHANGED archive
            /\ job' = Spoil([job EXCEPT !.todo = @ \ {key}], {key})
  /\ UNCHANGED <<data, epoch, service, version>>
ExportDone ==
  /\ job.kind = "export" /\ job.pc = "blobs" /\ job.todo = {}
  /\ job' = IdleJob /\ UNCHANGED <<data, epoch, service, archive, version, mishaps>>

----------------------------------------------------------------------------
(* Restore *)
Step(kind, pc) == job.kind = kind /\ job.pc = pc
Kept(x) == [row |-> x, key |-> rows[x].key, served |-> Served(x)]

StartRestore ==
  /\ job.kind = "idle" /\ archive # None /\ archive.whole
  /\ job' = [IdleJob EXCEPT !.kind = "restore", !.pc = "stores",
                            !.before = {Kept(x) : x \in {y \in Artifacts : rows[y] # None}}]
  /\ UNCHANGED <<data, epoch, service, archive, version, mishaps>>

\* Fault: the stores that are already there are not looked up.
Fault_OnlyCreated ==
  /\ Step("restore", "stores") /\ stores' = stores \cup archive.stores
  /\ job' = [job EXCEPT !.pc = "repos", !.names = archive.stores \ stores, !.oldIds = {Id(s, archive.epoch) : s \in archive.stores}]
  /\ UNCHANGED <<epoch, service, repos, settings, comps, rows, bytes, archive, version, mishaps>>

\* The map from archived identifiers is built after created records got new ones,
\* so it knows the archived identifier of the stores that were there already only.  A
\* record that cannot be looked up or made is passed over, and so is what refers to it;
\* the restore goes on.
restoreBlobStores ==
  /\ Step("restore", "stores")
  /\ \E f \in Failing(archive.stores) :
       LET found == archive.stores \ f IN
       /\ stores' = stores \cup found /\ Failed(f)
       /\ job' = Spoil([job EXCEPT !.pc = "repos", !.names = found,
                          !.oldIds = {Id(s, IF s \in stores THEN archive.epoch ELSE epoch) : s \in found}],
                       {r[1] : r \in {q \in archive.rows : q[2].store \in f \/ Home[q[1][1]] \in f}})
  /\ UNCHANGED <<epoch, service, repos, settings, comps, rows, bytes, archive, version>>

newStore(old) == IF old \in job.oldIds THEN {s \in job.names : s = old[1]} ELSE {}

\* A repository whose store identifier is unknown keeps the archived one, and the
\* foreign key refuses it unless this is the installation that wrote the archive.
restoreRepos ==
  /\ Step("restore", "repos")
  /\ \E f \in Failing(archive.repos) :
       LET accepted(r) == r \in repos \/ newStore(Id(Home[r], archive.epoch)) # {} \/ archive.epoch = epoch
           found == {r \in archive.repos \ f : accepted(r)} IN
       /\ repos' = repos \cup found /\ Failed(f)
       /\ job' = Spoil([job EXCEPT !.pc = "settings", !.known = found], f \X Paths)
  /\ UNCHANGED <<epoch, service, stores, settings, comps, rows, bytes, archive, version>>
restoreSettings ==
  /\ Step("restore", "settings") /\ settings' = settings \cup archive.settings
  /\ job' = [job EXCEPT !.pc = "components"]
  /\ UNCHANGED <<epoch, service, stores, repos, comps, rows, bytes, archive, version, mishaps>>
restoreComponents ==
  /\ Step("restore", "components")
  /\ \E f \in Failing({c \in archive.comps : c[1] \in job.known}) :
       LET made == {c \in archive.comps : c[1] \in job.known} \ f
       IN  /\ comps' = comps \cup made /\ Failed(f)
           /\ job' = Spoil([job EXCEPT !.pc = "assets", !.linked = made, !.todo = {r[1] : r \in archive.rows}], f)
  /\ UNCHANGED <<epoch, service, stores, repos, settings, rows, bytes, archive, version>>

Archived(x) == (CHOOSE r \in archive.rows : r[1] = x)[2]
Blob(key) == {b[2] : b \in {c \in archive.blobs : c[1] = key}}

\* Each asset: its bytes go to the service's store, whatever store the row names, then
\* its row is upserted.  The outcome of the first does not matter to the second.
PutBlob(x) ==
  /\ job.kind \in {"restore", "import"} /\ job.pc = "put" /\ job.at = x
  /\ LET key == Archived(x).key
     IN  \/ /\ bytes' = IF Blob(key) = {} THEN bytes
                        ELSE [bytes EXCEPT ![<<service, key>>] = CHOOSE v \in Blob(key) : TRUE]
            /\ job' = [job EXCEPT !.pc = "row"] /\ UNCHANGED mishaps
         \/ /\ mishaps < MaxFaults /\ mishaps' = mishaps + 1
            /\ job' = Spoil([job EXCEPT !.pc = "row"], {x}) /\ UNCHANGED bytes
  /\ UNCHANGED <<epoch, service, stores, repos, settings, comps, rows, archive, version>>

restoreAssets(x) ==
  /\ Step("restore", "assets") /\ x \in job.todo
  /\ job' = IF x \in job.linked THEN [job EXCEPT !.pc = "put", !.at = x]
            ELSE [job EXCEPT !.todo = @ \ {x}]
  /\ UNCHANGED <<data, epoch, service, archive, version, mishaps>>

Target(x) == IF job.kind = "import" THEN <<job.target, x[2]>> ELSE x
RowStore(x) ==   \* one of them when the archived store is not known
  IF job.kind = "import" THEN job.names
  ELSE LET s == newStore(Id(Archived(x).store, archive.epoch)) IN IF s = {} THEN job.names ELSE s
AssetsCreate(x) ==
  /\ job.kind \in {"restore", "import"} /\ job.pc = "row" /\ job.at = x
  /\ job' = [job EXCEPT !.pc = "assets", !.at = None, !.todo = @ \ {x}]
  /\ rows' \in {[rows EXCEPT ![Target(x)] = Row(s, Archived(x).key, Archived(x).version)] : s \in RowStore(x)}
                \cup (IF RowStore(x) = {} THEN {rows} ELSE {})     \* no store: the row is refused
  /\ UNCHANGED <<epoch, service, stores, repos, settings, comps, bytes, archive, version, mishaps>>
\* Fault: the first row that cannot be written ends the restore.
Fault_StopsAtError(x) ==
  /\ job.kind \in {"restore", "import"} /\ job.pc = "row" /\ job.at = x /\ mishaps < MaxFaults
  /\ mishaps' = mishaps + 1
  /\ job' = Spoil([job EXCEPT !.pc = "assets", !.at = None, !.todo = {}], {x})
  /\ UNCHANGED <<data, epoch, service, archive, version>>

CreateFails(x) ==
  /\ job.kind \in {"restore", "import"} /\ job.pc = "row" /\ job.at = x /\ mishaps < MaxFaults
  /\ mishaps' = mishaps + 1
  /\ job' = Spoil([job EXCEPT !.pc = "assets", !.at = None, !.todo = @ \ {x}], {x})
  /\ UNCHANGED <<data, epoch, service, archive, version>>
JobDone ==
  /\ job.kind \in {"restore", "import"} /\ job.pc = "assets" /\ job.todo = {}
  /\ job' = [job EXCEPT !.pc = "done"] /\ UNCHANGED <<data, epoch, service, archive, version, mishaps>>
Answered == job.pc = "done" /\ job' = IdleJob /\ UNCHANGED <<data, epoch, service, archive, version, mishaps>>

----------------------------------------------------------------------------
(* ImportRepo *)
importRepoComponents == {c \in archive.comps : c[1] \in archive.repos}   \* each is there or is created

ImportRepo(target, mode) ==
  /\ job.kind = "idle" /\ archive # None /\ Cardinality(archive.repos) = 1
  /\ target \in repos => mode = "skip"                \* rename into a taken name is refused
  /\ repos' = repos \cup {target}
  /\ \E f \in Failing(importRepoComponents) :
       LET made == importRepoComponents \ f IN
       /\ comps' = comps \cup {<<target, c[2]>> : c \in made} /\ Failed(f)
       /\ job' = [IdleJob EXCEPT !.kind = "import", !.pc = "assets", !.target = target, !.linked = made,
                      !.names = {IF target \in repos /\ Home[target] \in stores THEN Home[target] ELSE "default"},
                      !.todo = {r[1] : r \in archive.rows},
                      !.before = {Kept(x) : x \in {y \in Artifacts : rows[y] # None /\ y[1] = target}}]
  /\ UNCHANGED <<epoch, service, stores, settings, rows, bytes, archive, version>>

\* Fault: an artifact that is there is imported again.
Fault_NoDedup(x) ==
  /\ Step("import", "assets") /\ x \in job.todo
  /\ job' = IF x \in job.linked THEN [job EXCEPT !.pc = "put", !.at = x] ELSE [job EXCEPT !.todo = @ \ {x}]
  /\ UNCHANGED <<data, epoch, service, archive, version, mishaps>>

importRepoAssets(x) ==
  /\ Step("import", "assets") /\ x \in job.todo
  /\ job' = IF x \in job.linked /\ rows[Target(x)] = None THEN [job EXCEPT !.pc = "put", !.at = x]
            ELSE [job EXCEPT !.todo = @ \ {x}]
  /\ UNCHANGED <<data, epoch, service, archive, version, mishaps>>

ClientStep == \E x \in Artifacts : Upload(x) \/ Remove(x)
ExportStep ==
  \/ Export \/ collectComponents \/ collectAssets \/ ExportDone
  \/ \E r \in Names : ExportRepo(r)
  \/ \E x \in Artifacts : writeBlobEntries(x)
RestoreStep ==
  \/ StartRestore \/ restoreBlobStores \/ restoreRepos \/ restoreSettings \/ restoreComponents
  \/ JobDone \/ Answered
  \/ \E x \in Artifacts : restoreAssets(x) \/ importRepoAssets(x) \/ AssetsCreate(x) \/ CreateFails(x) \/ PutBlob(x)
  \/ \E r \in Names, m \in {"skip", "rename"} : ImportRepo(r, m)

Next == ClientStep \/ Reinstall \/ ExportStep \/ RestoreStep
Spec == Init /\ [][Next]_vars
----------------------------------------------------------------------------
(* What is written over or taken away by nobody else, and has no failing call of its
   own, a job brings through, whatever fails for the others. *)
Intact(x, key) == {x, key} \cap job.spoiled = {}

(* What an export holds when it ends: the bytes of every row it listed that lie in the
   service's store.  In an installation on S3 these are the rows of the record
   "default"; in a local one they are none, and the archive has no bytes at all. *)
ExportWhole ==
  (job.kind = "export" /\ job.pc = "blobs" /\ job.todo = {} /\ service = "default") =>
    \A r \in archive.rows : (r[2].store = "default" /\ Intact(r[1], r[2].key)) => Blob(r[2].key) # {}

(* What a restore brings back in an installation on S3: every artifact of the default
   store whose row, component and bytes the archive holds is served with the archived
   bytes, in a new installation as in the old one, although calls for other records
   fail.  (An artifact of another store is not: its bytes are never in the archive, and
   its repository is refused when its store had to be created.  In a local installation
   none is: the bytes are put where no record's row is served from.) *)
RestoreWhole ==
  (job.kind = "restore" /\ job.pc = "done" /\ service = "default") =>
    \A r \in archive.rows :
      (/\ r[1] \in archive.comps /\ r[2].store = "default" /\ Home[r[1][1]] = "default"
       /\ Blob(r[2].key) # {} /\ Intact(r[1], r[2].key)) =>
        Served(r[1]) \in Blob(r[2].key)

(* A skip import only adds: an artifact the repository had when the import began is
   served with the same bytes when it ends, unless somebody wrote meanwhile.  (The
   check and the write of an artifact are two steps, so an upload between them is
   replaced.) *)
SkipKeeps ==
  (job.kind = "import" /\ job.pc = "done") =>
    \A k \in job.before : Intact(k.row, k.key) => Served(k.row) = k.served

(* "Existing records are skipped (non-destructive)", the comment of the restore
   handler: what was served before a restore is served after it.  Rows are
   upserted and their bytes are written over the current ones. *)
NonDestructive ==
  (job.kind = "restore" /\ job.pc = "done") =>
    \A k \in job.before : Intact(k.row, k.key) => Served(k.row) = k.served
=============================================================================
