----------------------------- MODULE MCProgress -----------------------------
(* TLC instances for what must come to an end: blob store migrations, scans, the
   Nexus import and cleanup runs.  ProgressInit picks one of them (part); the others
   keep one initial state.  The import is extended, the others have variables of
   their own. *)
EXTENDS NexusImport

CONSTANT NoVal

(* One item of each kind. *)
OneOfEach == <<"hosted", "group", "manifest", "blob", "privilege", "role", "user", "loose">>
TheirNames == <<{}, {1}, {1, 4}, {}, {}, {5}, {6}, {1}>>

VARIABLES part,
  obj, row, used, repoStore, mig, mRun, redis, keyLock, up, client, writes, last, mStranded, contested,
  present, content, gone, queue, installed, probe, trivy, scan, bulk, shown, cleanRows, misread, overtaken, requests, faults,
  policy, attached, entry, reload, lock, cRun, rows, comps, bytes, upload, pending, freed, stored, hollow, changes

migration == <<obj, row, used, repoStore, mig, mRun, redis, keyLock, up, client, writes, last, mStranded, contested>>
scans == <<present, content, gone, queue, installed, probe, trivy, scan, bulk, shown, cleanRows, misread, overtaken, requests, faults>>
cleanup == <<policy, attached, entry, reload, lock, cRun, rows, comps, bytes, upload, pending, freed, stored, hollow, changes>>

(* Two migrations of one row with failing calls and crashes. *)
Migration == INSTANCE BlobStoreMigration WITH
  Nodes <- {"n1"}, Stores <- {"s1", "s2"}, Home <- "s1", Paths <- {"p1"}, KeyOf <- [x \in {"p1"} |-> x], Foreign <- {}, Contents <- {"a"},
  SizeOf <- [x \in {"a"} |-> 1], Clients <- {"c1"}, Migrations <- {1, 2}, MaxWrites <- 0,
  Deletes <- TRUE, Failures <- TRUE, Restarts <- FALSE, None <- NoVal, run <- mRun, stranded <- mStranded

(* A package and an image, one place in the queue, a daily scan. *)
Scans == INSTANCE ScanQueue WITH
  Components <- 1..2, Kind <- <<"package", "image">>, Vulnerable <- {<<2, 1>>}, MaxContent <- 1, Again <- {}, QueueSize <- 1, PageLimit <- 1, Scheduled <- TRUE,
  MaxRequests <- 0, MaxFaults <- 1

(* Two versions, one of which the database refuses to delete. *)
Cleanups == INSTANCE Cleanup WITH
  Versions <- {1, 2}, Key <- <<"x", "x">>, Nodes <- {1}, Runs <- {1, 2}, Locked <- TRUE, Retain <- 1, BatchLimit <- 2, MaxNoProgress <- 2,
  Settings <- {[state |-> "on", dry |-> FALSE, scoped |-> FALSE, unused |-> TRUE], [state |-> "off", dry |-> TRUE, scoped |-> TRUE, unused |-> FALSE]},
  Stuck <- {1}, MaxChanges <- 1, None <- NoVal,
  run <- cRun

ProgressInit ==
  /\ part \in {"migration", "scans", "import", "cleanup"}
  /\ Migration!Init /\ Scans!Init /\ Init
  /\ Cleanups!Init /\ (part # "cleanup" => policy.state = "off")

MigrationStep == part = "migration" /\ Migration!Next /\ UNCHANGED <<part, scans, vars, cleanup>>
ScanStep == part = "scans" /\ Scans!Next /\ UNCHANGED <<part, migration, vars, cleanup>>
ImportStep == part = "import" /\ Next /\ UNCHANGED <<part, migration, scans, cleanup>>
CleanupStep == part = "cleanup" /\ Cleanups!Next /\ UNCHANGED <<part, migration, scans, vars>>
ProgressNext == MigrationStep \/ ScanStep \/ ImportStep \/ CleanupStep

(* The fairness of each component, for the part that runs. *)
ProgressFairness ==
  /\ \A i \in {1, 2} : /\ WF_migration(part = "migration" /\ Migration!RunStep(i))
                       /\ SF_migration(part = "migration" /\ Migration!RunFlipLock(i))
  /\ WF_migration(part = "migration" /\ "n1" \notin up /\ Migration!Restart("n1")) /\ WF_migration(part = "migration" /\ Migration!Expire)
  /\ WF_scans(part = "scans" /\ Scans!Dequeue) /\ WF_scans(part = "scans" /\ Scans!ProbeExpires)
  /\ WF_scans(part = "scans" /\ Scans!BulkStart) /\ WF_scans(part = "scans" /\ (Scans!BulkItem \/ Scans!BulkPage))
  /\ \A a \in Scans!Actors : /\ WF_scans(part = "scans" /\ Scans!Working(a))
                             /\ SF_scans(part = "scans" /\ Scans!LockTrivy(a))
  /\ WF_vars(part = "import" /\ (Runner \/ StartFails)) /\ WF_vars(part = "import" /\ ResumeAll)
  /\ WF_vars(part = "import" /\ Launch("a"))
  /\ \A r \in {1, 2} : WF_cleanup(part = "cleanup" /\ Cleanups!RunStep(r))
ProgressSpec == ProgressInit /\ [][ProgressNext]_<<part, migration, scans, vars, cleanup>> /\ ProgressFairness
-----------------------------------------------------------------------------
(* What the queue of scans drops the daily scan picks up (scan_service.go). *)
Covered == part = "scans" => Scans!Covered

(* A job comes to an end through crashes, panics and failing calls: an import is settled,
   a cleanup run ends, and neither an active row nor the lock of a dead server blocks the
   next migration for ever (nexus_migration_service.go, cleanup_service.go,
   blob_store_migration_service.go).  A start at which ResumeAll fails leaves an active
   import or migration as it is: the server ignores the error and does not try again. *)
JobsEnd == /\ (part = "import" => Settles)
           /\ (part = "cleanup" => Cleanups!RunsEnd)
           /\ (part = "migration" => Migration!Unblocked)
=============================================================================
