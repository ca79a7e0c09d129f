----------------------------- MODULE MCServices -----------------------------
(* TLC instances of what runs beside the requests, what an administrator sets up and
   who is let in: vulnerability scans, replication, backup and restore, cleanup, the
   audit log, repositories, blob stores, their migrations and the lock of their garbage
   collection, accounts and sessions, and the login guard.  ServicesInit picks one of them (part) and only that one moves.  The
   scans are extended, the others have their state in the variables x1 to x15, as
   their INSTANCE says. *)
EXTENDS ScanQueue, TLC

CONSTANTS NoVal, n1, n2

Symmetry == Permutations({n1, n2})

(* An image that is vulnerable when its tag is pushed again, and its alias (MCProgress
   has a package). *)
ImageAndAlias == <<"image", "alias">>
SecondPush == {<<1, 2>>}

VARIABLES part, x1, x2, x3, x4, x5, x6, x7, x8, x9, x10, x11, x12, x13, x14, x15

shared == <<x1, x2, x3, x4, x5, x6, x7, x8, x9, x10, x11, x12, x13, x14, x15>>
\* The variables from the k-th on, which a part of k - 1 variables leaves alone.
From8 == <<x8, x9, x10, x11, x12, x13, x14, x15>>
From9 == <<x9, x10, x11, x12, x13, x14, x15>>
From10 == <<x10, x11, x12, x13, x14, x15>>
From12 == <<x12, x13, x14, x15>>
From13 == <<x13, x14, x15>>
Unused13 == x13 = NoVal /\ x14 = NoVal /\ x15 = NoVal
Unused12 == x12 = NoVal /\ Unused13
Unused10 == x10 = NoVal /\ x11 = NoVal /\ Unused12
Unused9 == x9 = NoVal /\ Unused10
Unused8 == x8 = NoVal /\ Unused9
Unused1 == x1 = NoVal /\ x2 = NoVal /\ x3 = NoVal /\ x4 = NoVal /\ x5 = NoVal /\ x6 = NoVal /\ x7 = NoVal /\ Unused8

(* Two artifacts and two runs. *)
Repl == INSTANCE Replication WITH Paths <- {"p", "q"}, MaxChanges <- 2, MaxRuns <- 2, MaxFaults <- 1, None <- NoVal,
  rule <- x1, entries <- x2, known <- x3, reload <- x4, boot <- x5, push <- x6, local <- x7, target <- x8, history <- x9,
  tangled <- x10, budget <- x11

(* A repository on the default store, one on another, and the name an import gives. *)
Backups == INSTANCE Backup WITH
  Names <- {"r", "s", "copy"}, Free <- {"copy"}, Paths <- {"p"}, Home <- ("r" :> "default" @@ "s" :> "other" @@ "copy" :> "default"),
  MaxVersion <- 2, MaxFaults <- 1, None <- NoVal,
  epoch <- x1, stores <- x2, repos <- x3, settings <- x4, comps <- x5, rows <- x6, bytes <- x7, archive <- x8, job <- x9,
  version <- x10, mishaps <- x11, service <- x12

(* Three versions, two of them with one blob key; one version is retained. *)
CleanupPolicy(st, d, sc, u) == [state |-> st, dry |-> d, scoped |-> sc, unused |-> u]
Cleanups == INSTANCE Cleanup WITH
  Versions <- {1, 2, 3}, Key <- <<"x", "x", "y">>, Nodes <- {1}, Runs <- {1, 2}, Locked <- TRUE, Retain <- 1, BatchLimit <- 2, MaxNoProgress <- 1,
  Settings <- {CleanupPolicy("on", FALSE, FALSE, TRUE), CleanupPolicy("off", TRUE, TRUE, FALSE)}, Stuck <- {}, MaxChanges <- 2, None <- NoVal,
  policy <- x1, attached <- x2, entry <- x3, reload <- x4, lock <- x5, run <- x6, rows <- x7, comps <- x8, bytes <- x9,
  upload <- x10, pending <- x11, freed <- x12, stored <- x13, hollow <- x14, changes <- x15

(* Five short months. *)
Audit == INSTANCE AuditLog WITH
  Lengths <- <<4, 2, 4, 3, 4>>, FirstDays <- 1..4, LookaheadMonths <- 1, RetentionDays <- 2, RotationInterval <- 2, MaxEvents <- 1, MaxFaults <- 1,
  now <- x1, up <- x2, parts <- x3, tick <- x4, due <- x5, pending <- x6, rows <- x7, ensured <- x8, faults <- x9

(* A hosted repository "a" and a proxy "b" at the start; two requests of three at a time. *)
NewRow(t, f, px, ms, ps, s, q, x) ==
  [type |-> t, format |-> f, online |-> TRUE, anon |-> TRUE, proxy |-> px, members |-> ms, policies |-> ps, store |-> s, quota |-> q, rule |-> x]
NewHosted == NewRow("hosted", "raw", NoVal, {}, {"k"}, "s", 2, NoVal)
NewProxy == NewRow("proxy", "docker", [url |-> "u", secret |-> "pw"], {}, {}, NoVal, NoVal, "x")
NewGroup == NewRow("group", "raw", NoVal, {"a"}, {}, NoVal, NoVal, NoVal)
Repos_ == INSTANCE RepositoryAdmin WITH
  Repos <- {"a", "b"}, Formats <- {"raw", "docker"}, Unaddressable <- {}, Policies <- {"k"}, Rules <- {"x"}, Stores <- {"s"},
  Existing <- {[r \in {"a", "b"} |-> IF r = "a" THEN NewHosted ELSE NewProxy]}, NewRows <- {NewHosted, NewGroup},
  Bodies <- {[proxy |-> [url |-> "v", secret |-> "kept"]], [proxy |-> [url |-> "u", secret |-> "empty"], online |-> TRUE],
             [policies |-> {"k"}, anon |-> TRUE, store |-> "empty", quota |-> 1, rule |-> "x", members |-> {"b"}]},
  Clients <- {1, 2}, MaxOps <- 3, None <- NoVal,
  repo <- x1, policy <- x2, rule <- x3, store <- x4, op <- x5, loose <- x6, ops <- x7

(* Two stores and a group of them. *)
Stores_ == INSTANCE BlobStoreAdmin WITH
  Stores <- {"a", "b", "g"}, Existing <- {"a", "b"}, Nodes <- {1}, Clients <- {1, 2}, Members <- {<<"b", "a">>}, Policy <- "round_robin",
  MaxOps <- 2, MaxUses <- 2, MaxTurns <- 1, None <- NoVal,
  row <- x1, linked <- x2, full <- x3, cache <- x4, counter <- x5, op <- x6, use <- x7, picked <- x8, behind <- x9,
  loose <- x10, budget <- x11

(* Two migrations of three rows, one of them a mount in another repository, while a client uploads. *)
Usage == INSTANCE BlobStoreMigration WITH
  Nodes <- {"n1"}, Stores <- {"s1", "s2"}, Home <- "s1", Paths <- {"p1", "p2", "mount"},
  KeyOf <- [x \in {"p1", "p2", "mount"} |-> IF x = "mount" THEN "p1" ELSE x], Foreign <- {"mount"}, Contents <- {"a", "b"},
  SizeOf <- [x \in {"a", "b"} |-> IF x = "a" THEN 1 ELSE 2], Clients <- {"c1"}, Migrations <- {1, 2}, MaxWrites <- 1,
  Deletes <- FALSE, Failures <- FALSE, Restarts <- FALSE, None <- NoVal,
  obj <- x1, row <- x2, used <- x3, repoStore <- x4, mig <- x5, run <- x6, redis <- x7, keyLock <- x8, up <- x9, client <- x10,
  writes <- x11, last <- x12, contested <- x13, stranded <- x14

(* Two servers whose schedules meet, over one object; the clock passes the lock's TTL
   three times. *)
GC == INSTANCE BlobGC WITH
  Nodes <- {n1, n2}, Stores <- {"s"}, Home <- "s", Keys <- {"k"}, Uploads <- {}, MinAge <- 3, LockTTL <- 2, MaxUpload <- 1, MaxDelay <- 1,
  MaxTime <- 6, MaxUsed <- 1, Unplaced <- "unplaced", None <- NoVal,
  now <- x1, obj <- x2, row <- x3, used <- x4, upload <- x5, lock <- x6, gc <- x7, stale <- x8

(* One login at a time, two ticks to a second. *)
Accts == INSTANCE Accounts WITH
  Logins <- {"l1"}, Providers <- {"ldap", "oidc", "saml"}, RoleNames <- {"admin"}, TokenScopes <- {"read"}, Second <- 2, MaxTime <- 2, MaxIds <- 2, MaxSessions <- 1,
  MaxFaults <- 1, None <- NoVal,
  user <- x1, ids <- x2, sessions <- x3, apiToken <- x4, login <- x5, change <- x6, clock <- x7, faults <- x8

(* Two servers; a delay after the second failure. *)
Guard == INSTANCE LoginGuard WITH Nodes <- {n1, n2}, Threshold <- 1, MaxDelay <- 2, TTL <- 4, MaxTime <- 6, Outages <- TRUE,
  entry <- x1, shared <- x2, redis <- x3, try <- x4, clock <- x5, excused <- x6, checked <- x7

ServicesInit ==
  /\ Init
  /\ \/ part = "scans" /\ Unused1
     \/ part = "replication" /\ Repl!Init /\ Unused12
     \/ part = "backup" /\ Backups!Init /\ Unused13
     \/ part = "cleanup" /\ Cleanups!Init
     \/ part = "audit" /\ Audit!Init /\ Unused10
     \/ part = "repositories" /\ Repos_!Init /\ Unused8
     \/ part = "blobstores" /\ Stores_!Init /\ Unused12
     \/ part = "migration" /\ Usage!Init /\ x15 = NoVal
     \/ part = "gc" /\ GC!Init /\ Unused9
     \/ part = "accounts" /\ Accts!Init /\ Unused9
     \/ part = "guard" /\ Guard!Init /\ Unused8

ScanStep == part = "scans" /\ Next /\ UNCHANGED <<part, shared>>
ReplicationStep == part = "replication" /\ Repl!Next /\ UNCHANGED <<part, vars, From12>>
BackupStep == part = "backup" /\ Backups!Next /\ UNCHANGED <<part, vars, From13>>
CleanupStep == part = "cleanup" /\ Cleanups!Next /\ UNCHANGED <<part, vars>>
AuditStep == part = "audit" /\ Audit!Next /\ UNCHANGED <<part, vars, From10>>
RepositoryStep == part = "repositories" /\ Repos_!Next /\ UNCHANGED <<part, vars, From8>>
BlobStoreStep == part = "blobstores" /\ Stores_!Next /\ UNCHANGED <<part, vars, From12>>
MigrationStep == part = "migration" /\ Usage!Next /\ UNCHANGED <<part, vars, x15>>
CollectStep == part = "gc" /\ GC!Next /\ UNCHANGED <<part, vars, From9>>
AccountStep == part = "accounts" /\ Accts!Next /\ UNCHANGED <<part, vars, From9>>
GuardStep == part = "guard" /\ Guard!Next /\ UNCHANGED <<part, vars, From8>>
ServicesNext ==
        \/ ScanStep \/ ReplicationStep \/ BackupStep \/ CleanupStep
        \/ AuditStep \/ RepositoryStep \/ BlobStoreStep \/ MigrationStep \/ CollectStep
        \/ AccountStep \/ GuardStep
ServicesSpec == ServicesInit /\ [][ServicesNext]_<<part, vars, shared>>
-----------------------------------------------------------------------------
(* The schedule follows the rule, and a run that is reported "ok" left nothing
   behind (Replication: reloadRule and the run's outcome). *)
ReplicationTrue == /\ [](part = "replication" => Repl!ScheduleFollows)
                   /\ [][part = "replication" => Repl!EndsWhole]_shared

(* An export holds the bytes it can read, a restore brings back what the archive holds
   although calls for other records fail, an import with skip only adds (Backup:
   backup_export.go, backup_import.go). *)
BackupWhole == part = "backup" => (Backups!ExportWhole /\ Backups!RestoreWhole /\ Backups!SkipKeeps)

(* A cleanup frees an object once and deletes what is stale when it deletes it
   (Cleanup: cleanup_service.go). *)
CleanupTrue == /\ [](part = "cleanup" => Cleanups!FreedOnce)
               /\ [][part = "cleanup" => Cleanups!RemovesStale]_shared

(* Events of the month find their partition, and are kept for the retention period
   (AuditLog: rotator.go). *)
EventsRecorded == /\ [](part = "audit" => Audit!MonthOpen)
                  /\ [][part = "audit" => Audit!DropsOld]_shared

(* What a repository or a group of blob stores refers to is there and fits
   (RepositoryAdmin: the checks of Create and Update; BlobStoreAdmin: the checks
   of a group's members and of a delete). *)
ReferencesHold == (part = "repositories" => Repos_!ReferencesHold) /\ (part = "blobstores" => Stores_!MembersExist)

(* An update changes what its caller named and nothing else, secrets that are
   never shown included (RepositoryAdmin: mergeProxyConfig; BlobStoreAdmin:
   mergeBlobStoreConfig). *)
OmittedKept == [][/\ part = "repositories" => Repos_!KeepsOmitted
                  /\ part = "blobstores" => Stores_!KeepsSecret]_shared

(* A node writes to the store its row describes, and to a member with room
   (BlobStoreAdmin: Registry.Invalidate and the choice of a member). *)
RegistrySound == part = "blobstores" => (Stores_!RegistryCurrent /\ Stores_!PickSound)

(* A migration that is done has moved every row it listed, and the counters of the
   stores follow the bytes (blob_store_migration_service.go). *)
MigrationTrue == /\ [](part = "migration" => Usage!UsageFollowsBytes)
                 /\ [][part = "migration" => Usage!EndsMoved]_shared

(* Two scheduled passes never work under the lock at one time, whatever the clock
   does to it (BlobGC: CompactAll and the lock of distlock/redis.go, which nothing
   renews). *)
Exclusive == part = "gc" => GC!Exclusive

(* A session ends with what it was issued for, and an account stays with the
   source it came from (Accounts: the middlewares and the providers' logins). *)
SessionsCurrent == /\ [](part = "accounts" => Accts!SessionsCurrent)
                   /\ [][part = "accounts" => Accts!KeepsSource]_shared

(* Failures count for the account whatever the node, and nobody waits longer than
   the cap (LoginGuard: loginguard.go). *)
GuardCounts == part = "guard" => (Guard!OneBudget /\ Guard!BoundedWait)
=============================================================================
