---------------------------- MODULE Replication ----------------------------
(* A replication rule (service/replication_service.go): its row, its cron entry on
   this node and the goroutines that reload it, its credentials and the sweep that
   seals them again at startup, and the runs that push to the target what the
   target does not list.

   Data: an asset is its path; the target is asked for its whole listing, page by
   page.  A key is the one the password is sealed with. *)
EXTENDS Naturals, FiniteSets

CONSTANTS Paths,        \* asset paths of the source repository
          MaxChanges,   \* bound on the administrator's changes of the rule
          MaxRuns,      \* bound on runs
          MaxFaults,    \* bound on failed calls
          None

VARIABLES rule,      \* the row
          entries,   \* cron entries of the rule on this node: what they were added for
          known,     \* the entry entryIDs names, or None
          reload,    \* reload goroutines: what each read
          boot,      \* StartCronScheduler
          push,      \* the run in flight, or None
          local, target,
          history,   \* the last run's entry in the history
          tangled,   \* history: two writers of the schedule overlapped, or a lookup failed
          budget     \* changes made, runs started, calls failed

vars == <<rule, entries, known, reload, boot, push, local, target, history, tangled, budget>>

Keys == {"legacy", "primary"}
There == rule.state \in {"on", "off"}

TypeOK ==
  /\ rule \in [state : {"none", "on", "off", "gone"}, key : Keys]
  /\ entries \in [1..3 -> BOOLEAN] /\ known \in 1..3 \cup {None}
  /\ reload \in [1..2 -> {"none", "reading", "on", "off"}]
  /\ boot.pc \in {"list", "sweep", "add", "up"}
  /\ push = None \/ (push.pc \in {"start", "list", "local", "push", "end"}
                    /\ push.seen \subseteq Paths /\ push.todo \subseteq Paths /\ push.need \subseteq Paths)
  /\ local \subseteq Paths /\ target \subseteq Paths /\ history \in {None, "running", "ok", "error"} /\ tangled \in BOOLEAN
  /\ budget \in [changes : 0..MaxChanges, runs : 0..MaxRuns, faults : 0..MaxFaults]

Init ==
  /\ rule \in [state : {"none", "on"}, key : {"legacy"}]
  /\ entries = [e \in 1..3 |-> FALSE] /\ known = None /\ reload = [g \in 1..2 |-> "none"]
  /\ boot = [pc |-> "list", saw |-> rule] /\ push = None
  /\ local \in SUBSET Paths /\ target = {} /\ history = None /\ tangled = FALSE
  /\ budget = [changes |-> 0, runs |-> 0, faults |-> 0]

Fault == budget.faults < MaxFaults /\ budget' = [budget EXCEPT !.faults = @ + 1]
Busy == boot.pc # "up" \/ \E g \in 1..2 : reload[g] # "none"

(* The administrator.  Create and Update leave the reload to a goroutine; Delete
   reloads before it returns, and its reload is one of them as well. *)
Spawn == \E g \in 1..2 : /\ reload[g] = "none" /\ (\A h \in 1..2 : h < g => reload[h] # "none")   \* they are alike
                         /\ reload' = [reload EXCEPT ![g] = "reading"]
                         /\ tangled' = (tangled \/ Busy)
Change(state, key) ==
  /\ budget.changes < MaxChanges /\ budget' = [budget EXCEPT !.changes = @ + 1]
  /\ rule' = [state |-> state, key |-> key] /\ Spawn
  /\ UNCHANGED <<entries, known, boot, push, local, target, history>>
CreateRule == rule.state = "none" /\ \E st \in {"on", "off"} : Change(st, "primary")
UpdateRule == There /\ \E st \in {"on", "off"}, k \in {rule.key, "primary"} : Change(st, k)
DeleteRule == There /\ Change("gone", rule.key)

(* The schedule.  ReloadRule reads the rule and then takes the lock; a lookup that
   fails keeps what is scheduled. *)
ReloadRead(g) ==
  /\ reload[g] = "reading"
  /\ reload' = [reload EXCEPT ![g] = IF rule.state = "on" THEN "on" ELSE "off"]
  /\ UNCHANGED <<rule, entries, known, boot, push, local, target, history, tangled, budget>>
ReloadFails(g) ==
  /\ reload[g] = "reading" /\ Fault /\ reload' = [reload EXCEPT ![g] = "none"] /\ tangled' = TRUE
  /\ UNCHANGED <<rule, entries, known, boot, push, local, target, history>>
\* Fault: the former entry of the rule is not taken out of the schedule.
Fault_KeepEntry == entries

Removed == IF known = None THEN entries ELSE [entries EXCEPT ![known] = FALSE]

addEntryLocked(es, on) ==
  IF on THEN \E e \in {f \in 1..3 : ~es[f]} : entries' = [es EXCEPT ![e] = TRUE] /\ known' = e
  ELSE entries' = es /\ known' = None
ReloadRule(g) ==
  /\ reload[g] \in {"on", "off"} /\ reload' = [reload EXCEPT ![g] = "none"]
  /\ IF boot.pc = "list" THEN UNCHANGED <<entries, known>>  \* no scheduler yet
     ELSE addEntryLocked(Removed, reload[g] = "on")
  /\ UNCHANGED <<rule, boot, push, local, target, history, tangled, budget>>

(* StartCronScheduler lists the rules, seals legacy credentials again by writing
   the row it read back, and adds the entries of the rules it read.  A listing
   that fails is logged and the scheduler starts with no entry. *)
BootList ==
  /\ boot.pc = "list" /\ boot' = [pc |-> "sweep", saw |-> rule]
  /\ UNCHANGED <<rule, entries, known, reload, push, local, target, history, tangled, budget>>
BootListFails ==
  /\ boot.pc = "list" /\ Fault /\ boot' = [boot EXCEPT !.pc = "up"] /\ tangled' = TRUE
  /\ UNCHANGED <<rule, entries, known, reload, push, local, target, history>>
ReEncryptCredentials ==
  /\ boot.pc = "sweep" /\ boot' = [boot EXCEPT !.pc = "add"]
  /\ rule' = IF boot.saw.state \in {"on", "off"} /\ boot.saw.key = "legacy" /\ There
             THEN [boot.saw EXCEPT !.key = "primary"] ELSE rule
  /\ UNCHANGED <<entries, known, reload, push, local, target, history, tangled, budget>>
BootAdd ==
  /\ boot.pc = "add" /\ boot' = [boot EXCEPT !.pc = "up"]
  /\ IF boot.saw.state = "on" THEN addEntryLocked(entries, TRUE) ELSE UNCHANGED <<entries, known>>
  /\ UNCHANGED <<rule, reload, push, local, target, history, tangled, budget>>

(* RunRule, by cron or by hand: one run per rule and process.  It does not ask
   whether the rule is enabled. *)
Start ==
  /\ push = None /\ budget.runs < MaxRuns /\ budget' = [budget EXCEPT !.runs = @ + 1]
  /\ push' = [pc |-> "start", seen |-> {}, todo |-> {}, need |-> {}, failed |-> FALSE]
  /\ UNCHANGED <<rule, entries, known, reload, boot, local, target, history, tangled>>
CronRun == boot.pc = "up" /\ (\E e \in 1..3 : entries[e]) /\ Start
ManualRun == There /\ Start
RunRule ==
  /\ push # None /\ push.pc = "start"
  /\ IF ~There THEN push' = None /\ UNCHANGED history
     ELSE push' = [push EXCEPT !.pc = "list"] /\ history' = "running"
  /\ UNCHANGED <<rule, entries, known, reload, boot, local, target, tangled, budget>>
(* The target's paths, page after page, then the local assets: what is missing is
   pushed.  (A path that a deletion shifts past a page is only pushed again.)  need
   is what the run answers for: what it pushes, and what it saw at the target. *)
listTargetPaths(page) ==   \* the last page is empty
  /\ push # None /\ push.pc = "list" /\ page \subseteq target \ push.seen
  /\ (page = {}) = (target \subseteq push.seen)
  /\ push' = IF target \subseteq push.seen THEN [push EXCEPT !.pc = "local"]
             ELSE [push EXCEPT !.seen = @ \cup page, !.need = @ \cup page]
  /\ UNCHANGED <<rule, entries, known, reload, boot, local, target, history, tangled, budget>>
ListLocal ==
  /\ push # None /\ push.pc = "local"
  /\ push' = [push EXCEPT !.pc = "push", !.todo = local \ push.seen,
                         !.need = (@ \cap local) \cup (local \ push.seen)]
  /\ UNCHANGED <<rule, entries, known, reload, boot, local, target, history, tangled, budget>>
ListFails ==
  /\ push # None /\ push.pc \in {"list", "local"} /\ Fault
  /\ push' = [push EXCEPT !.pc = "end", !.failed = TRUE]
  /\ UNCHANGED <<rule, entries, known, reload, boot, local, target, history, tangled>>
pushAsset(p) ==
  /\ push # None /\ push.pc = "push" /\ p \in push.todo
  /\ IF p \in local
     THEN push' = [push EXCEPT !.todo = @ \ {p}] /\ target' = target \cup {p}
     ELSE push' = [push EXCEPT !.todo = @ \ {p}, !.failed = TRUE] /\ UNCHANGED target
  /\ UNCHANGED <<rule, entries, known, reload, boot, local, history, tangled, budget>>
PushFails(p) ==
  /\ push # None /\ push.pc = "push" /\ p \in push.todo /\ Fault
  /\ push' = [push EXCEPT !.todo = @ \ {p}, !.failed = TRUE]
  /\ UNCHANGED <<rule, entries, known, reload, boot, local, target, history, tangled>>

\* Fault: the run is judged by its own error, and the assets that failed by nobody.
Fault_CountIgnored ==
  /\ push # None /\ ((push.pc = "push" /\ push.todo = {}) \/ push.pc = "end")
  /\ history' = (IF push.pc = "end" THEN "error" ELSE "ok") /\ push' = None
  /\ UNCHANGED <<rule, entries, known, reload, boot, local, target, tangled, budget>>

Finish ==
  /\ push # None /\ ((push.pc = "push" /\ push.todo = {}) \/ push.pc = "end")
  /\ history' = (IF push.failed THEN "error" ELSE "ok") /\ push' = None
  /\ UNCHANGED <<rule, entries, known, reload, boot, local, target, tangled, budget>>

\* The two repositories change meanwhile.
Edit ==
  /\ budget.changes < MaxChanges /\ budget' = [budget EXCEPT !.changes = @ + 1]
  /\ \E p \in Paths :
       \/ p \notin local /\ local' = local \cup {p} /\ UNCHANGED <<target, push>>
       \/ p \in local /\ local' = local \ {p} /\ UNCHANGED target
          /\ push' = IF push = None THEN None ELSE [push EXCEPT !.need = @ \ {p}]
       \/ p \in target /\ target' = target \ {p} /\ UNCHANGED local
          /\ push' = IF push = None THEN None ELSE [push EXCEPT !.need = @ \ {p}]
  /\ UNCHANGED <<rule, entries, known, reload, boot, history, tangled>>

Next ==
  \/ CreateRule \/ UpdateRule \/ DeleteRule \/ Edit
  \/ \E g \in 1..2 : ReloadRead(g) \/ ReloadFails(g) \/ ReloadRule(g)
  \/ BootList \/ BootListFails \/ ReEncryptCredentials \/ BootAdd
  \/ CronRun \/ ManualRun \/ RunRule \/ ListLocal \/ ListFails \/ Finish
  \/ \E page \in SUBSET Paths : listTargetPaths(page)
  \/ \E p \in Paths : pushAsset(p) \/ PushFails(p)
Spec == Init /\ [][Next]_vars
----------------------------------------------------------------------------
(* A run reported "ok" leaves nothing behind: every path that was listed locally
   and that neither side deleted since is at the target.  (That the bytes there
   are the newest is not promised: a path the target lists is skipped.) *)
EndsWhole == (push # None /\ push' = None /\ history' = "ok" /\ history # "ok") => push.need \subseteq target
OkIsWhole == [][EndsWhole]_vars

(* The schedule follows the rule: once its reload is through, an enabled rule has
   one entry and any other rule none, unless two writers of the schedule
   overlapped or a lookup failed (a reload's keeps what is scheduled, the
   startup's leaves the rules unscheduled until each is edited); and however they overlapped, once the scheduler
   is up a reload never adds an entry without taking out the one it knows. *)
ScheduleFollows ==
  /\ (~Busy /\ ~tangled) => Cardinality({e \in 1..3 : entries[e]}) = IF rule.state = "on" THEN 1 ELSE 0
  /\ known # None => entries[known]
=============================================================================
