------------------------------ MODULE Cleanup ------------------------------
(* Cleanup policies (service/cleanup_service.go), one of them: its row and the
   repository that names it, the cron entry each node keeps for it, the runs that
   hold its lock and delete batch by batch, and the download counter whose flushes
   tell a run what is in use.

   Data: the repository holds versions of one name, a greater number being a newer
   version, one asset each; Key gives the blob key of a version's asset, and assets
   may share one.  The age window is longer than the behaviours, so what has been
   downloaded stays in use. *)
EXTENDS Naturals, FiniteSets, FiniteSetsExt, SequencesExt

CONSTANTS Versions, Key,
          Nodes, Runs,   \* server processes; runs that may be in flight
          Locked,        \* a distributed locker is configured
          Retain,        \* retainNVersions
          BatchLimit, MaxNoProgress,
          Settings,      \* what an administrator saves as a policy (not "gone")
          Stuck,         \* versions whose row the database refuses to delete
          MaxChanges,    \* bound on the administrator's and the clients' changes
          None

VARIABLES policy,    \* the row
          attached,  \* the repository names the policy
          entry,     \* each node's cron entry: the policy its job was made for, or None
          reload,    \* reloads in flight: the node, and what it read
          lock,      \* the run whose token the policy's lock holds, or None
          run,       \* the runs
          rows, comps, bytes,
          upload,    \* a version whose component is written and whose asset is not, or None
          pending,   \* downloads the counter has not flushed
          freed,     \* what the runs reported: objects freed
          stored,    \* history: objects put and, by others than cleanup, removed
          hollow,    \* history: some component has been without an asset
          changes

vars == <<policy, attached, entry, reload, lock, run, rows, comps, bytes, upload, pending, freed, stored, hollow, changes>>
Table == <<policy, attached>>
Cron == <<entry, reload>>
Repo == <<rows, comps, bytes, upload, stored, hollow>>

Policies == [state : {"on", "off", "gone"}, dry : BOOLEAN, scoped : BOOLEAN, unused : BOOLEAN]

Live == {v \in Versions : rows[v] # None}
Newer(V, v) == {w \in V : w > v}

TypeOK ==
  /\ policy \in Policies /\ attached \in BOOLEAN
  /\ \A n \in Nodes : entry[n] \in Policies \cup {None}
  /\ \A g \in reload : g.node \in Nodes /\ g.saw \in Policies
  /\ lock \in Runs \cup {None}
  /\ \A r \in Runs : run[r] # None =>
       run[r].pc \in {"scan", "delete", "prune"} /\ run[r].p \in Policies /\ run[r].idle \in 0..MaxNoProgress
  /\ Live \subseteq comps /\ comps \subseteq Versions /\ bytes \subseteq {Key[v] : v \in Versions}
  /\ upload \in Versions \cup {None} /\ pending \subseteq Versions
  /\ changes \in 0..MaxChanges

Init ==
  /\ policy \in Settings /\ attached = TRUE
  /\ entry = [n \in Nodes |-> IF policy.state = "on" THEN policy ELSE None]
  /\ reload = {} /\ lock = None /\ run = [r \in Runs |-> None]
  /\ rows = [v \in Versions |-> [used |-> 0, modified |-> 0]] /\ comps = Versions
  /\ bytes = {Key[v] : v \in Versions} /\ upload = None /\ pending = {}
  /\ freed = 0 /\ stored = Cardinality(bytes) /\ hollow = FALSE /\ changes = 0

Change == changes < MaxChanges /\ changes' = changes + 1

(* The administrator, through some node: the row is written, and that node reloads
   its entry.  Delete detaches the policy from the repositories first. *)
SavePolicy(n) ==
  /\ Change /\ policy.state # "gone"
  /\ policy' \in Settings \ {policy}
  /\ reload' = reload \cup {[node |-> n, saw |-> policy']}
  /\ UNCHANGED <<attached, entry, lock, run, rows, comps, bytes, upload, pending, freed, stored, hollow>>
DeletePolicy(n) ==
  /\ Change /\ policy.state # "gone"
  /\ policy' = [policy EXCEPT !.state = "gone"] /\ attached' = FALSE
  /\ reload' = reload \cup {[node |-> n, saw |-> policy']}
  /\ UNCHANGED <<entry, lock, run, rows, comps, bytes, upload, pending, freed, stored, hollow>>
DeleteFails ==
  /\ Change /\ policy.state # "gone" /\ attached' = FALSE
  /\ UNCHANGED <<policy, entry, reload, lock, run, rows, comps, bytes, upload, pending, freed, stored, hollow>>
Attach ==
  /\ Change /\ policy.state # "gone" /\ attached' = ~attached
  /\ UNCHANGED <<policy, entry, reload, lock, run, rows, comps, bytes, upload, pending, freed, stored, hollow>>
ReloadPolicy(g) ==
  /\ reload' = reload \ {g}
  /\ entry' = [entry EXCEPT ![g.node] = IF g.saw.state = "on" THEN g.saw ELSE None]
  /\ UNCHANGED <<policy, attached, lock, run, rows, comps, bytes, upload, pending, freed, stored, hollow, changes>>

(* A run of policy p: by the cron job, which carries the policy it was made for, by
   hand, or among all of them.  A held lock skips the run. *)
runPolicyLocked(r, p) ==
  /\ run[r] = None /\ (Locked => lock = None)
  /\ lock' = (IF Locked THEN r ELSE lock)
  /\ p.scoped \/ attached       \* else: not attached to any repository
  /\ run' = [run EXCEPT ![r] = [pc |-> "scan", p |-> p, batch |-> <<>>, deleted |-> FALSE, progress |-> FALSE,
                                idle |-> 0, late |-> FALSE]]
  /\ UNCHANGED <<Table, Cron, Repo, pending, freed, changes>>
CronFires(r) == \E n \in Nodes : entry[n] # None /\ runPolicyLocked(r, entry[n])
RunPolicyResult(r) == policy.state # "gone" /\ runPolicyLocked(r, policy)
RunAll(r) == policy.state = "on" /\ runPolicyLocked(r, policy)

\* The lock's TTL runs out, and then the run's own deadline, taken after the lock.
LockExpires ==
  /\ lock # None /\ lock' = None
  /\ UNCHANGED <<Table, Cron, run, Repo, pending, freed, changes>>
DeadlinePasses(r) ==
  /\ Locked /\ run[r] # None /\ lock # r /\ ~run[r].late
  /\ run' = [run EXCEPT ![r].late = TRUE]
  /\ UNCHANGED <<Table, Cron, lock, Repo, pending, freed, changes>>

\* The newest components keep their assets, whether they have any or not.
retained_comps == {v \in comps : Retain > 0 /\ Cardinality(Newer(comps, v)) < Retain}

ListStale(p) ==
  LET stale == {v \in Live : (p.unused => rows[v].used = 0) /\ v \notin retained_comps}
      asked == SetToSortSeq(stale, <)
  IN [i \in 1..Min({BatchLimit, Len(asked)}) |-> [v |-> asked[i], row |-> rows[asked[i]]]]

\* A dry run reports one batch and stops; a late run stops before it scans again.
Scan(r) ==
  /\ run[r] # None /\ run[r].pc = "scan"
  /\ LET found == ListStale(run[r].p) IN
     run' = [run EXCEPT ![r] =
       IF run[r].late \/ found = <<>> \/ run[r].p.dry THEN [@ EXCEPT !.pc = "prune"]
       ELSE [@ EXCEPT !.pc = "delete", !.batch = found, !.progress = FALSE]]
  /\ UNCHANGED <<Table, Cron, lock, Repo, pending, freed, changes>>
ScanFails(r) ==
  /\ Change /\ run[r] # None /\ run[r].pc = "scan"
  /\ run' = [run EXCEPT ![r] = None] /\ lock' = (IF lock = r THEN None ELSE lock)
  /\ UNCHANGED <<Table, Cron, Repo, pending, freed>>

\* Fault: the row is deleted by its id alone.
Fault_DeleteById(a) == rows[a.v] # None /\ a.v \notin Stuck

\* The row is deleted only if it is the one the scan read.
DeleteIfUnchanged(a) == rows[a.v] # None /\ rows[a.v] = a.row /\ a.v \notin Stuck

\* Fault: one asset stands for its object, whoever else names it.
Fault_Sole(v) == TRUE

\* Under the lock of the blob key: the row, then the bytes unless another asset names them.
Unshared(v) == \A w \in Live \ {v} : Key[w] # Key[v]

DeleteNext(r) ==
  /\ run[r] # None /\ run[r].pc = "delete" /\ run[r].batch # <<>>
  /\ LET a == Head(run[r].batch) IN
     IF ~DeleteIfUnchanged(a)
     THEN run' = [run EXCEPT ![r].batch = Tail(@)] /\ UNCHANGED <<rows, bytes, freed>>
     ELSE /\ run' = [run EXCEPT ![r].batch = Tail(@), ![r].deleted = TRUE, ![r].progress = TRUE]
          /\ rows' = [rows EXCEPT ![a.v] = None]
          /\ bytes' = (IF Unshared(a.v) THEN bytes \ {Key[a.v]} ELSE bytes)
          /\ freed' = freed + (IF Unshared(a.v) THEN 1 ELSE 0)
  /\ UNCHANGED <<Table, Cron, lock, comps, upload, pending, stored, hollow, changes>>

\* Fault: a pass without progress is tried again for ever.
Fault_Insist(idle) == "scan"

\* A pass that deleted nothing is tried again, and three of them end the run.
NextPass(idle) == IF idle >= MaxNoProgress THEN "prune" ELSE "scan"

PassEnds(r) ==
  /\ run[r] # None /\ run[r].pc = "delete" /\ run[r].batch = <<>>
  /\ LET idle == IF ~run[r].progress THEN Min({run[r].idle + 1, MaxNoProgress}) ELSE 0
     IN run' = [run EXCEPT ![r].idle = idle, ![r].progress = FALSE, ![r].pc = NextPass(idle)]
  /\ UNCHANGED <<Table, Cron, lock, Repo, pending, freed, changes>>

\* Components without an asset go, also the one an upload has just written.
DeleteOrphans == Live
FinishRun(r) ==
  /\ run[r] # None /\ run[r].pc = "prune"
  /\ comps' = (IF run[r].deleted THEN DeleteOrphans ELSE comps)
  /\ run' = [run EXCEPT ![r] = None] /\ lock' = (IF lock = r THEN None ELSE lock)
  /\ UNCHANGED <<Table, Cron, rows, bytes, upload, pending, freed, stored, hollow, changes>>

(* Clients.  A new version is put, its component is written and then its asset, and
   the asset is refused when its component has gone; a version there already is
   replaced in one step here, its interleavings being those of ArtifactStore. *)
UploadBegins(v) ==
  /\ Change /\ upload = None /\ rows[v] = None
  /\ upload' = v /\ comps' = comps \cup {v} /\ bytes' = bytes \cup {Key[v]}
  /\ stored' = stored + (IF Key[v] \in bytes THEN 0 ELSE 1)
  /\ UNCHANGED <<Table, Cron, lock, run, rows, pending, freed, hollow>>
UploadEnds ==
  /\ upload # None /\ upload' = None
  /\ IF upload \in comps
     THEN /\ rows' = [rows EXCEPT ![upload] = [used |-> 0, modified |-> changes]]
          /\ stored' = stored + (IF Key[upload] \in bytes THEN 0 ELSE 1) /\ bytes' = bytes \cup {Key[upload]}
     ELSE UNCHANGED <<rows, stored, bytes>>
  /\ UNCHANGED <<Table, Cron, lock, run, comps, pending, freed, hollow, changes>>
UploadFails ==
  /\ Change /\ upload # None /\ upload' = None /\ hollow' = TRUE
  /\ UNCHANGED <<Table, Cron, lock, run, rows, comps, bytes, pending, freed, stored>>
Replace(v) ==
  /\ Change /\ rows[v] # None /\ rows' = [rows EXCEPT ![v].modified = changes']
  /\ UNCHANGED <<Table, Cron, lock, run, comps, bytes, upload, pending, freed, stored, hollow>>
\* DeleteArtifact leaves the component.
DeleteArtifact(v) ==
  /\ Change /\ rows[v] # None /\ rows' = [rows EXCEPT ![v] = None] /\ hollow' = TRUE
  /\ IF Unshared(v) THEN bytes' = bytes \ {Key[v]} /\ stored' = stored - 1 ELSE UNCHANGED <<bytes, stored>>
  /\ UNCHANGED <<Table, Cron, lock, run, comps, upload, pending, freed>>
Download(v) ==
  /\ Change /\ rows[v] # None /\ pending' = pending \cup {v}
  /\ UNCHANGED <<Table, Cron, lock, run, Repo, freed>>
\* A batch is written whole or dropped; a row that has gone is passed over.
Flush ==
  /\ pending # {} /\ pending' = {}
  /\ rows' = [v \in Versions |-> IF v \in pending /\ rows[v] # None THEN [rows[v] EXCEPT !.used = @ + 1] ELSE rows[v]]
  /\ UNCHANGED <<Table, Cron, lock, run, comps, bytes, upload, freed, stored, hollow, changes>>
FlushFails ==
  /\ pending # {} /\ pending' = {}
  /\ UNCHANGED <<Table, Cron, lock, run, Repo, freed, changes>>

Admin == \/ DeleteFails \/ Attach \/ (\E n \in Nodes : SavePolicy(n) \/ DeletePolicy(n))
         \/ (\E g \in reload : ReloadPolicy(g))
RunStep(r) == Scan(r) \/ DeleteNext(r) \/ PassEnds(r) \/ FinishRun(r)
Running == \/ LockExpires
           \/ (\E r \in Runs : CronFires(r) \/ RunPolicyResult(r) \/ RunAll(r) \/ DeadlinePasses(r) \/ ScanFails(r) \/ RunStep(r))
Clients == \/ UploadEnds \/ UploadFails \/ Flush \/ FlushFails
           \/ (\E v \in Versions : UploadBegins(v) \/ Replace(v) \/ DeleteArtifact(v) \/ Download(v))
Next == Admin \/ Running \/ Clients
Spec == Init /\ [][Next]_vars
Fairness == \A r \in Runs : WF_vars(RunStep(r))

(* What a run reports is what it did: every object ever stored is in the store, or
   was freed once by a run or removed by a client, although two runs of the policy
   overlap once a lock has expired, aliases share objects and uploads bring back
   what a run has deleted. *)
FreedOnce == stored = Cardinality(bytes) + freed

\* What a run removes in a step, if anything.
Removed == IF \E r \in Runs : run'[r] # run[r] THEN {v \in Live : rows'[v] = None} ELSE {}

(* What a run deletes is stale when it deletes it, not only when it looked: no
   download has been recorded for it since, if its policy asks for that, and as many
   newer versions as the policy retains are there -- as long as every component has
   an asset. *)
RemovesStale ==
  \A v \in Removed :
    /\ \A r \in Runs : run'[r] # run[r] /\ run[r].p.unused => rows[v].used = 0
    /\ hollow \/ upload # None \/ Cardinality(Newer(Live, v)) >= Retain
OnlyStale == [][RemovesStale]_vars

(* The newest versions are kept even if they match every other criterion
   (docs/api-spec.yaml of retainNVersions): whatever a run finds to delete, as many
   newer versions as the policy retains are there when it looks. *)
RetainNewest ==
  [][\A r \in Runs : run'[r] # None /\ run'[r] # run[r] /\ run'[r].pc = "delete" /\ run[r].pc = "scan" =>
       \A i \in DOMAIN run'[r].batch : Cardinality(Newer(Live, run'[r].batch[i].v)) >= Retain]_vars

(* A run ends, also when some rows cannot be deleted. *)
RunsEnd == \A r \in Runs : run[r] # None ~> run[r] = None
=============================================================================
