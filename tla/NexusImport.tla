---------------------------- MODULE NexusImport ----------------------------
(* The import of a Sonatype Nexus instance (service/nexus_migration_service.go):
   one job, its runner in one goroutine of the process, administrators who
   create, pause, resume and delete it, and the crash and restart of the process,
   which re-attaches to a job that was active.

   Data: the source is a set of items, each with its kind and the items it names
   (a group its members, an asset or a manifest its repository, a manifest its
   blobs and child manifests, a role its privileges and nested roles, a user its
   roles; a loose asset belongs to no component).  Of an item two things are kept here: that it is present, and what it
   was linked to (a manifest to its digest alias, written as itself). *)
EXTENDS Naturals, Sequences, FiniteSets

CONSTANTS Items, KindOf, Names,  \* the source: item -> kind, item -> items it names
          Broken,                \* items without an equivalent here, or refused
          Renamed,               \* registries stored here under a lower-cased name
          Scope,                 \* the stages the job asks for
          Admins,
          MaxFaults,             \* bound on panics and failed writes of the job's status
          MaxTroubles            \* bound on pauses, crashes and failures of the source

VARIABLES job,       \* the job row
          here,      \* the items present in this instance
          linked,    \* item -> what it was linked to
          run,       \* the runner
          admin,     \* administrator -> request
          boot,      \* the process has started and ResumeAll has not run
          missed,    \* history: roles and users given fewer grants than are here, as
                     \* a failed lookup is passed over
          stranded,  \* history: ResumeAll could not read the job while it was active
          budget     \* what is left of the two bounds

vars == <<job, here, linked, run, admin, boot, missed, stranded, budget>>

Stages == <<"repositories", "blobs", "selectors", "privileges", "roles", "users", "rules">>
KindsOf == [repositories |-> {"hosted", "proxy", "group"}, blobs |-> {"asset", "loose", "manifest"},
            selectors |-> {"selector"}, privileges |-> {"privilege"}, roles |-> {"role"},
            users |-> {"user"}, rules |-> {"rule"}]
Of(s) == {i \in Items : KindOf[i] \in KindsOf[s]}
\* What i names, through items of its own kind: the leaves of a nested group, the
\* privileges of nested roles, the blobs and manifests below an index.
Expanded(i, S) == Names[i] \subseteq S /\ \A j \in S : KindOf[j] = KindOf[i] => Names[j] \subseteq S
Reach == [i \in Items |-> {x \in Items : \A S \in SUBSET Items : Expanded(i, S) => x \in S}]
Under(i) == Reach[i] \ {i}
flattenGroupMembers(i) == {m \in Under(i) : KindOf[m] # "group"}
effective(i) == {p \in Under(i) : KindOf[p] = "privilege"}
Parts(i) == {b \in Under(i) : KindOf[b] \in {"blob", "manifest"}}
RepoOf(i) == CHOOSE r \in Names[i] : KindOf[r] = "hosted"

NoRun == [pc |-> "none", stage |-> 1, todo |-> {}, need |-> {}, item |-> 0, hosted |-> {},
          errors |-> FALSE, hard |-> FALSE, cancelled |-> FALSE]
NoRequest == [pc |-> "idle", saw |-> "none", delete |-> FALSE]
IsActive(status) == status \in {"pending", "running"}
IsResumable(status) == status \in {"paused", "error"}
Deleted == job.status \in {"none", "deleted"}

TypeOK ==
  /\ job.status \in {"none", "pending", "running", "paused", "done", "error", "deleted"} /\ job.errors \in BOOLEAN
  /\ here \subseteq Items /\ linked \in [Items -> SUBSET Items]
  /\ run.pc \in {"none", "start", "list", "pick", "item", "link", "image", "alias", "end", "settle", "leave"}
  /\ run.stage \in 1..(Len(Stages) + 1) /\ run.todo \subseteq Items /\ run.need \subseteq Items
  /\ boot \in BOOLEAN /\ missed \subseteq Items /\ stranded \in BOOLEAN /\ budget.faults \in 0..MaxFaults /\ budget.troubles \in 0..MaxTroubles

Init ==
  /\ job = [status |-> "none", errors |-> FALSE] /\ here = {} /\ linked = [i \in Items |-> {}]
  /\ run = NoRun /\ admin = [a \in Admins |-> NoRequest] /\ boot = FALSE
  /\ missed = {} /\ stranded = FALSE
  /\ budget = [faults |-> MaxFaults, troubles |-> MaxTroubles]

Trouble == budget.troubles > 0 /\ budget' = [budget EXCEPT !.troubles = @ - 1]
Fault == budget.faults > 0 /\ budget' = [budget EXCEPT !.faults = @ - 1]
\* A write of the job's status, which may fail: its error is ignored.
Write(status) ==
  \/ job' = (IF Deleted THEN job ELSE [job EXCEPT !.status = status]) /\ UNCHANGED budget
  \/ Fault /\ UNCHANGED job
At(pc) == run.pc = pc
Go(pc) == run' = [run EXCEPT !.pc = pc]
Local == <<here, linked, missed>>

(* The administrator (api/handlers/migration.go and the service's lifecycle). *)
Ask(a, r) == admin' = [admin EXCEPT ![a] = r]
Create(a) ==
  /\ admin[a].pc = "idle" /\ job.status = "none"
  /\ job' = [job EXCEPT !.status = "pending"] /\ Ask(a, [NoRequest EXCEPT !.pc = "launch"])
  /\ UNCHANGED <<Local, run, boot, stranded, budget>>
Resume(a) ==
  /\ admin[a].pc = "idle" /\ IsResumable(job.status)
  /\ Ask(a, [NoRequest EXCEPT !.pc = "launch"])
  /\ UNCHANGED <<job, Local, run, boot, stranded, budget>>
Launched == IF At("none") THEN [NoRun EXCEPT !.pc = "start"] ELSE run
Launch(a) ==
  /\ admin[a].pc = "launch" /\ run' = Launched /\ Ask(a, NoRequest) /\ stranded' = FALSE
  /\ UNCHANGED <<job, Local, boot, budget>>
PauseRead(a) ==
  /\ admin[a].pc = "idle" /\ ~Deleted /\ Trouble
  /\ \E d \in BOOLEAN : Ask(a, [pc |-> "pause", saw |-> job.status, delete |-> d])
  /\ UNCHANGED <<job, Local, run, boot, stranded>>
After(a) == IF admin[a].delete THEN [admin[a] EXCEPT !.pc = "delete"] ELSE NoRequest
PauseCancels(a) ==
  /\ admin[a].pc = "pause" /\ ~At("none")
  /\ run' = [run EXCEPT !.cancelled = TRUE] /\ Ask(a, [admin[a] EXCEPT !.pc = "wait"])
  /\ UNCHANGED <<job, Local, boot, stranded, budget>>
\* No run is registered: the status read before decides.
PauseParks(a) ==
  /\ admin[a].pc = "pause" /\ At("none")
  /\ IF IsActive(admin[a].saw) THEN Write("paused") ELSE UNCHANGED <<job, budget>>
  /\ Ask(a, After(a)) /\ UNCHANGED <<Local, run, boot, stranded>>
\* The run has unwound, or the ceiling or the client ended the wait.
PauseReturns(a) ==
  /\ admin[a].pc = "wait" /\ Ask(a, After(a))
  /\ UNCHANGED <<job, Local, run, boot, stranded, budget>>
Delete(a) ==
  /\ admin[a].pc = "delete" /\ Ask(a, NoRequest)
  /\ job' = [job EXCEPT !.status = "deleted"]
  /\ UNCHANGED <<Local, run, boot, stranded, budget>>

(* run and runStages. *)
Start ==
  /\ At("start") /\ ~Deleted
  /\ \/ Go("list") /\ job' = [job EXCEPT !.status = "running"] /\ UNCHANGED budget
     \/ Go("settle") /\ Fault /\ UNCHANGED job
  /\ UNCHANGED <<Local, admin, boot, stranded>>
StartFails ==                            \* the row is gone, or its credential does not open
  /\ At("start") /\ Go("settle")
  /\ IF Deleted THEN UNCHANGED <<job, budget>>
     ELSE Trouble /\ job' = [job EXCEPT !.status = "error"]
  /\ UNCHANGED <<Local, admin, boot, stranded>>

Stage == Stages[run.stage]
Asked == Stage \in Scope /\ (Stage = "blobs" => run.hosted # {})
List ==
  /\ At("list") /\ run.stage <= Len(Stages)
  /\ run' = IF Asked THEN [run EXCEPT !.pc = "pick", !.todo = {i \in Of(Stage) :
                             Stage = "blobs" => RepoOf(i) \in run.hosted}]
            ELSE [run EXCEPT !.stage = @ + 1]
  /\ UNCHANGED <<job, Local, admin, boot, stranded, budget>>
\* A listing that fails ends its stage and not the job; the privileges need the
\* selectors.  A repository whose components cannot be listed is counted, and the
\* next one is taken.
ListFails ==
  /\ At("list") /\ run.stage <= Len(Stages) /\ Asked /\ (Trouble \/ (run.cancelled /\ UNCHANGED budget))
  /\ IF Stage = "blobs"
     THEN \E some \in SUBSET run.hosted :
            /\ run' = [run EXCEPT !.pc = "pick", !.todo = {i \in Of(Stage) : RepoOf(i) \in some}, !.errors = TRUE]
            /\ job' = [job EXCEPT !.errors = TRUE]
     ELSE /\ run' = [run EXCEPT !.stage = IF Stage = "selectors" THEN @ + 2 ELSE @ + 1, !.hard = TRUE]
          /\ UNCHANGED job
  /\ UNCHANGED <<Local, admin, boot, stranded>>
StageEnds ==
  /\ At("pick") /\ run.todo = {} /\ run' = [run EXCEPT !.pc = "list", !.stage = @ + 1]
  /\ UNCHANGED <<job, Local, admin, boot, stranded, budget>>
StagesEnd ==                             \* the last flush of the run's own counters
  /\ At("list") /\ run.stage > Len(Stages) /\ Go("end")
  /\ job' = [job EXCEPT !.errors = run.errors]
  /\ UNCHANGED <<Local, admin, boot, stranded, budget>>
Unwind ==                                \* checkPaused between two items
  /\ At("pick") /\ run.cancelled /\ Go("end")
  /\ UNCHANGED <<job, Local, admin, boot, stranded, budget>>

(* Hosted, then proxies, then groups; a role after the roles it nests. *)
Before(i, j) == \/ KindOf[i] # "group" /\ KindOf[j] = "group"
                \/ KindOf[i] = "hosted" /\ KindOf[j] = "proxy"
                \/ KindOf[j] = "role" /\ i \in Names[j]
Pick(i) ==
  /\ At("pick") /\ ~run.cancelled /\ i \in run.todo /\ ~\E j \in run.todo : Before(j, i)
  /\ run' = [run EXCEPT !.todo = @ \ {i}, !.item = i,
                        !.pc = IF KindOf[i] = "manifest" THEN "image" ELSE "item",
                        !.need = IF KindOf[i] = "manifest" THEN Parts(i) \cup {i} ELSE {}]
  /\ UNCHANGED <<job, Local, admin, boot, stranded, budget>>

I == run.item
\* The item fails: counted and named, and the next one is taken.
Failed == run' = [run EXCEPT !.pc = "pick", !.errors = TRUE] /\ job' = [job EXCEPT !.errors = TRUE]
ItemFails ==
  /\ run.pc \in {"item", "image", "link"} /\ (Trouble \/ ((I \in Broken \/ run.cancelled) /\ UNCHANGED budget))
  /\ Failed /\ UNCHANGED <<Local, admin, boot, stranded>>
\* An asset without a component is in no plan; the listing of all assets tells, if
\* the source has one.
Reconcile ==
  /\ At("item") /\ KindOf[I] = "loose" /\ (Failed \/ (Go("pick") /\ UNCHANGED job))
  /\ UNCHANGED <<Local, admin, boot, stranded, budget>>
HostedNow == IF KindOf[I] = "hosted" THEN {I} ELSE {}
\* An item of that name is already here; it is left as it is.
Skip ==
  /\ At("item") /\ I \in here /\ KindOf[I] # "role"
  /\ run' = [run EXCEPT !.pc = "pick", !.hosted = @ \cup HostedNow]
  /\ UNCHANGED <<job, Local, admin, boot, stranded, budget>>
\* ensureRepository: members that are not here are left out of the group.
EnsureRepository ==
  /\ At("item") /\ I \notin here \cup Broken /\ KindOf[I] \in KindsOf["repositories"]
  /\ here' = here \cup {I}
  /\ linked' = [linked EXCEPT ![I] = IF KindOf[I] = "group" THEN flattenGroupMembers(I) \cap here ELSE {}]
  /\ LET short == KindOf[I] = "group" /\ ~(flattenGroupMembers(I) \subseteq here)
     IN  /\ run' = [run EXCEPT !.pc = "pick", !.hosted = @ \cup HostedNow, !.errors = @ \/ short]
         /\ job' = [job EXCEPT !.errors = @ \/ short]
  /\ UNCHANGED <<admin, boot, missed, stranded, budget>>
\* Assets, selectors, privileges and routing rules: stored whole.  A privilege over
\* a selector that did not come across is refused.
Store ==
  /\ At("item") /\ I \notin here \cup Broken /\ KindOf[I] \in {"asset", "selector", "privilege", "rule"}
  /\ IF KindOf[I] = "privilege" /\ ~(Names[I] \subseteq here) THEN Failed /\ UNCHANGED here
     ELSE here' = here \cup {I} /\ Go("pick") /\ UNCHANGED job
  /\ UNCHANGED <<linked, admin, boot, missed, stranded, budget>>
\* ensureRole and createMigratedUser: the row, then what it is granted.
CreateAccount ==
  /\ At("item") /\ I \notin Broken
  /\ KindOf[I] = "role" \/ (KindOf[I] = "user" /\ I \notin here)
  /\ here' = here \cup {I} /\ Go("link")
  /\ UNCHANGED <<job, linked, admin, boot, missed, stranded, budget>>
\* Names that are not found are left out, and so are those whose lookup fails: nothing
\* is counted.  Without any name, what is granted stays.
Granted == (IF KindOf[I] = "role" THEN effective(I) ELSE Names[I]) \cap here
SetGrants ==
  /\ At("link") /\ Go("pick")
  /\ \E silent \in SUBSET Granted :
       /\ IF silent = {} THEN UNCHANGED budget ELSE Trouble
       /\ linked' = IF Granted = silent THEN linked ELSE [linked EXCEPT ![I] = Granted \ silent]
       /\ missed' = IF silent = {} THEN missed \ {I} ELSE missed \cup {I}
  /\ UNCHANGED <<job, here, admin, boot, stranded>>

\* Fault: the manifest is stored first and the blobs it names after it.
Fault_ManifestFirst(b) ==
  /\ At("image") /\ b \in run.need /\ RepoOf(I) \notin Renamed
  /\ b \in here \/ b = I \/ I \in here
  /\ here' = here \cup {b} /\ run' = [run EXCEPT !.need = @ \ {b}, !.pc = IF run.need = {b} THEN "pick" ELSE "image"]
  /\ UNCHANGED <<job, linked, admin, boot, missed, stranded, budget>>

\* transferOCIManifest: what a manifest names comes before it; what is here is not
\* fetched again.  The source is asked under the name the repository has here.
Transfer(b) ==
  /\ At("image") /\ b \in run.need /\ Names[b] \cap run.need = {} /\ RepoOf(I) \notin Renamed
  /\ here' = here \cup {b}
  /\ run' = [run EXCEPT !.need = @ \ {b}, !.pc = IF b = I /\ b \notin here THEN "alias"
                                                  ELSE IF run.need = {b} THEN "pick" ELSE "image"]
  /\ UNCHANGED <<job, linked, admin, boot, missed, stranded, budget>>
RenamedFails ==
  /\ At("image") /\ RepoOf(I) \in Renamed /\ Failed
  /\ UNCHANGED <<Local, admin, boot, stranded, budget>>
\* registerManifestDigestAlias, of the image itself (what it names is stored under its
\* digest): a failure is logged only.
Alias ==
  /\ At("alias") /\ Go(IF run.need = {} THEN "pick" ELSE "image")
  /\ \/ linked' = [linked EXCEPT ![I] = {I}] /\ UNCHANGED budget
     \/ Trouble /\ UNCHANGED linked
  /\ UNCHANGED <<job, here, admin, boot, missed, stranded>>

End ==
  /\ At("end") /\ Go("settle")
  /\ Write(IF run.cancelled THEN "paused" ELSE IF run.hard THEN "error" ELSE "done")
  /\ UNCHANGED <<Local, admin, boot, stranded>>
Panic ==
  /\ run.pc \notin {"none", "settle", "leave"} /\ Fault /\ Go("settle")
  /\ UNCHANGED <<job, Local, admin, boot, stranded>>

\* Fault: no deferred check of the status the run leaves behind.
Fault_NoSettle ==
  /\ At("settle") /\ Go("leave") /\ UNCHANGED <<job, budget, Local, admin, boot, stranded>>

\* The first deferred function of run, then the second, which releases the waiters.
Settle ==
  /\ At("settle") /\ Go("leave")
  /\ IF IsActive(job.status) THEN Write("error") ELSE UNCHANGED <<job, budget>>
  /\ UNCHANGED <<Local, admin, boot, stranded>>
Leave ==
  /\ At("leave") /\ run' = NoRun
  /\ UNCHANGED <<job, Local, admin, boot, stranded, budget>>

(* The end of the process at any step, and the next start. *)
Crash ==
  /\ Trouble /\ run' = NoRun /\ admin' = [a \in Admins |-> NoRequest] /\ boot' = TRUE /\ stranded' = FALSE
  /\ UNCHANGED <<job, Local>>
ResumeAll ==
  /\ boot /\ boot' = FALSE /\ run' = IF IsActive(job.status) THEN Launched ELSE run
  /\ UNCHANGED <<job, Local, admin, stranded, budget>>
\* The active jobs cannot be listed: the error goes nowhere, and nothing tries again.
ResumeAllFails ==
  /\ boot /\ Trouble /\ boot' = FALSE /\ stranded' = IsActive(job.status)
  /\ UNCHANGED <<job, Local, run, admin>>

Transferring == Skip \/ Reconcile \/ EnsureRepository \/ Store \/ CreateAccount \/ SetGrants \/ Alias \/ RenamedFails
                \/ \E b \in Items : Transfer(b)
Runner == Start \/ List \/ StageEnds \/ StagesEnd \/ Unwind \/ (\E i \in Items : Pick(i))
          \/ Transferring \/ ItemFails \/ End \/ Settle \/ Leave
Next ==
  \/ \E a \in Admins : Create(a) \/ Resume(a) \/ Launch(a) \/ PauseRead(a) \/ PauseCancels(a)
                       \/ PauseParks(a) \/ PauseReturns(a) \/ Delete(a)
  \/ Runner \/ StartFails \/ ListFails \/ Panic \/ Crash \/ ResumeAll \/ ResumeAllFails

Spec == Init /\ [][Next]_vars
Fairness == WF_vars(Runner \/ StartFails) /\ WF_vars(ResumeAll) /\ \A a \in Admins : WF_vars(Launch(a))
----------------------------------------------------------------------------
(* "The registry never serves a manifest whose layers are still missing": through
   failures, pauses, crashes and repeated passes, every manifest that is here has
   its blobs and its child manifests here. *)
ManifestsWhole ==
  \A m \in here : KindOf[m] = "manifest" => Parts(m) \subseteq here

(* A job that reads pending or running has a runner behind it, or one about to be
   attached: neither crashes and pauses nor one panic or failed write of the status
   leaves a job that can neither finish nor be retried.  The exception is a start at
   which ResumeAll cannot list the jobs (router.go:338 drops its error): the job stays
   active, with nothing behind it, until it is paused or the process starts again. *)
NoWedge ==
  (IsActive(job.status) /\ ~boot /\ ~stranded /\ \A a \in Admins : admin[a].pc # "launch") => ~At("none")

(* A job that ends done with no error counted has brought every item of its scope
   that the source lists, blobs included, and has given each role the privileges it
   resolves to.  (Nothing lists an asset without a component at every source.)  The
   exception: a privilege whose lookup fails while a role is wired is left out without
   being counted (nexus_migration_service.go:1378-1381). *)
DoneIsPresent ==
  (job.status = "done" /\ ~job.errors /\ At("none")) =>
    \A s \in Scope : \A i \in {j \in Of(s) : KindOf[j] # "loose"} :
      /\ i \in here /\ (KindOf[i] = "manifest" => Parts(i) \subseteq here)
      /\ (KindOf[i] = "role" /\ "privileges" \in Scope /\ i \notin missed) => effective(i) \subseteq linked[i]

(* An import has a runner while it is active, brings no manifest before its layers,
   and has brought what it says it has when it ends well, but for the two exceptions
   of NoWedge and DoneIsPresent (nexus_migration_service.go). *)
ImportSound == NoWedge /\ ManifestsWhole /\ DoneIsPresent

(* "Everything already migrated is skipped, so resuming costs only the work that is
   left": a job that ends done with no error counted has also given its users their
   roles, its groups their members and its manifests their digest aliases. *)
DoneIsWhole ==
  (job.status = "done" /\ ~job.errors /\ At("none")) =>
    \A s \in Scope : \A i \in Of(s) :
      /\ KindOf[i] = "user" => Names[i] \subseteq linked[i]
      /\ KindOf[i] = "group" => flattenGroupMembers(i) \subseteq linked[i]
      /\ KindOf[i] = "manifest" => linked[i] = {i}

(* An active job is settled, or deleted, unless the start that should have resumed it
   could not list the jobs. *)
Settles == IsActive(job.status) ~> (~IsActive(job.status) \/ stranded)
=============================================================================
