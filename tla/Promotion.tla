----------------------------- MODULE Promotion -----------------------------
(***************************************************************************)
(* service/promotion_service.go with promotion_repo.go: components of one  *)
(* repository are promoted to another one.  A rule covers components and   *)
(* sets gates (a clean scan, a manual approval); Promote files a request   *)
(* per component and settles it at once when no approval is needed;        *)
(* Approve and Reject settle a pending one.  A request is settled under    *)
(* the lock of its row, and the copy compensates what it created when it   *)
(* fails half-way.  Administrators edit rules and scans report meanwhile,  *)
(* any call may fail and a server may die.                                 *)
(***************************************************************************)
EXTENDS Integers, Sequences, FiniteSets

CONSTANTS
    Rules,          \* rule ids between one pair of repositories
    Comps,          \* components of the source repository
    Paths,          \* their asset paths
    AssetsOf,       \* the assets of a component in the order of their listing
    RuleForms,      \* the forms rules are given
    Batches,        \* the sequences of components a Promote may name
    Requests,       \* request ids
    Workers,        \* concurrent API requests
    MaxId,          \* bound on the ids of a target component or asset in use at one time
    MaxEdits,       \* bound on the edits of rules and on scan reports
    MaxFaults,      \* bound on crashes and on failures of a rollback or a commit
    None

Ids == 1 .. MaxId
Rule == [covers : SUBSET Comps, scanPass : BOOLEAN, manual : BOOLEAN]
Settled == {"rejected", "completed", "failed"}
Request == [rule : Rules, comp : Comps, status : Settled \cup {"pending"}]
TargetRow == [id : Ids, comp : Ids]

PathsOf(c) == {AssetsOf[c][n] : n \in DOMAIN AssetsOf[c]}

\* A path names one asset of the repository, and an asset has one component.
ASSUME PromotionAssumption ==
    /\ RuleForms \subseteq Rule /\ Batches \subseteq Seq(Comps)
    /\ AssetsOf \in [Comps -> Seq(Paths)]
    /\ \A c, d \in Comps : c # d => PathsOf(c) \cap PathsOf(d) = {}
    /\ MaxId \in Nat /\ MaxEdits \in Nat /\ MaxFaults \in Nat
    /\ None \notin Comps \cup Rules \cup Paths \cup Requests \cup Workers \cup Nat
    /\ None \notin Rule /\ None \notin Request /\ None \notin TargetRow

VARIABLES
    rule,           \* promotion_rules; a path filter is the set of components it matches
    clean,          \* components whose latest scan is there and has no finding that counts
    req,            \* promotion_requests
    locked,         \* the worker inside WithPendingRequestLock of a request
    tcomp,          \* id of the component in the target repository
    trow,           \* asset rows of the target repository
    tblob,          \* paths whose object is in the target's blob store
    job,
    edits, faults,  \* how many there were
    overlapped,     \* history: components of which two copies ran at one time
    marred          \* history: components whose copy died or whose rollback failed

target == <<tcomp, trow, tblob>>
bounds == <<edits, faults>>
history == <<overlapped, marred>>
vars == <<rule, clean, req, locked, target, job, bounds, history>>

\* A call outside of executeCopy: its step, the call, the components left to file,
\* the rule's RequireManualApproval when the batch began, the request, the rule.
Outside(pc, kind, rest, manual, r, i) ==
    [pc |-> pc, kind |-> kind, rest |-> rest, manual |-> manual, req |-> r, rule |-> i,
     snap |-> None, tid |-> None, todo |-> << >>, fresh |-> FALSE, rows |-> << >>,
     blobs |-> << >>, ok |-> FALSE, touched |-> FALSE]
Idle == Outside("idle", None, << >>, FALSE, None, None)
CopyPC == {"fresh", "put", "row", "undo", "undoComp"}
Job == [pc : {"idle", "create", "lock", "rule", "applies", "scan", "upsert", "settle"} \cup CopyPC,
        kind : {"promote", "approve", "reject", None}, rest : Seq(Comps), manual : BOOLEAN,
        req : Requests \cup {None}, rule : Rules \cup {None}, snap : Rule \cup {None},
        tid : Ids \cup {None}, todo : Seq(Paths), fresh : BOOLEAN,
        rows : Seq(Paths \X Ids), blobs : Seq(Paths), ok : BOOLEAN, touched : BOOLEAN]

TypeOK ==
    /\ rule \in [Rules -> Rule \cup {None}]
    /\ clean \subseteq Comps
    /\ req \in [Requests -> Request \cup {None}]
    /\ locked \in [Requests -> Workers \cup {None}]
    /\ tcomp \in [Comps -> Ids \cup {None}]
    /\ trow \in [Paths -> TargetRow \cup {None}]
    /\ tblob \subseteq Paths
    /\ job \in [Workers -> Job]
    /\ edits \in 0 .. MaxEdits /\ faults \in 0 .. MaxFaults
    /\ overlapped \subseteq Comps /\ marred \subseteq Comps

Init ==
    /\ rule \in [Rules -> RuleForms \cup {None}]
    /\ clean \in SUBSET Comps
    /\ req = [r \in Requests |-> None]
    /\ locked = [r \in Requests |-> None]
    /\ tcomp = [c \in Comps |-> None]
    /\ trow = [p \in Paths |-> None]
    /\ tblob = {}
    /\ job = [w \in Workers |-> Idle]
    /\ edits = 0 /\ faults = 0
    /\ overlapped = {} /\ marred = {}

-----------------------------------------------------------------------------
(* Gates                                                                   *)

\* ruleAppliesTo and noSiblingRuleApplies: the rule as read covers the component
\* and no other rule of the pair does.
Applies(s, i, c) ==
    /\ c \in s.covers
    /\ \A j \in Rules \ {i} : rule[j] # None => c \notin rule[j].covers

\* scanGate.  Malicious, critical and high findings count; the row of a scan that
\* failed has none and passes too.
ScanPasses(s, c) == s.scanPass => c \in clean

-----------------------------------------------------------------------------
(* Administrators and scanners                                             *)

\* A gate changed after a request that is being settled had read its rule.
Touch == job' = [w \in Workers |->
            IF job[w].snap = None THEN job[w] ELSE [job[w] EXCEPT !.touched = TRUE]]

\* CreateRule or UpdateRule.
SaveRule(i) ==
    /\ edits < MaxEdits
    /\ edits' = edits + 1
    /\ \E s \in RuleForms : s # rule[i] /\ rule' = [rule EXCEPT ![i] = s]
    /\ Touch
    /\ UNCHANGED <<clean, req, locked, target, faults, history>>

\* The rule's requests go with it, so the delete waits for those being settled.
DeleteRule(i) ==
    /\ edits < MaxEdits /\ rule[i] # None
    /\ \A r \in Requests : req[r] # None /\ req[r].rule = i => locked[r] = None
    /\ edits' = edits + 1
    /\ rule' = [rule EXCEPT ![i] = None]
    /\ req' = [r \in Requests |-> IF req[r] # None /\ req[r].rule = i THEN None ELSE req[r]]
    /\ Touch
    /\ UNCHANGED <<clean, locked, target, faults, history>>

ScanReport(c) ==
    /\ edits < MaxEdits
    /\ edits' = edits + 1
    /\ clean' = IF c \in clean THEN clean \ {c} ELSE clean \cup {c}
    /\ Touch
    /\ UNCHANGED <<rule, req, locked, target, faults, history>>

-----------------------------------------------------------------------------
(* Filing and settling                                                     *)

\* Promote refuses the whole batch unless every component passes every check.
Promote(w, i, b) ==
    /\ job[w].pc = "idle"
    /\ rule[i] # None
    /\ \A n \in DOMAIN b : Applies(rule[i], i, b[n]) /\ ScanPasses(rule[i], b[n])
    /\ job' = [job EXCEPT ![w] = Outside("create", "promote", b, rule[i].manual, None, i)]
    /\ UNCHANGED <<rule, clean, req, locked, target, bounds, history>>

\* One of the bounded failures happens.
Fault == faults < MaxFaults /\ faults' = faults + 1

\* What a worker does after one component of its batch.
Proceed(w) == IF job[w].kind = "promote"
              THEN Outside("create", "promote", Tail(job[w].rest), job[w].manual, None, job[w].rule)
              ELSE Idle

\* The end of the batch, or an insert that fails: the rest is not promoted.
PromoteEnds(w) ==
    /\ job[w].pc = "create"
    /\ job' = [job EXCEPT ![w] = Idle]
    /\ UNCHANGED <<rule, clean, req, locked, target, bounds, history>>

\* CreateRequest; a rule without manual approval goes on to settle the request.
CreateRequest(w, r) ==
    /\ job[w].pc = "create" /\ job[w].rest # << >> /\ rule[job[w].rule] # None
    /\ req[r] = None /\ \A v \in Workers : job[v].req # r
    /\ req' = [req EXCEPT ![r] = [rule |-> job[w].rule, comp |-> Head(job[w].rest),
                                  status |-> "pending"]]
    /\ job' = [job EXCEPT ![w] = IF job[w].manual THEN Proceed(w)
                                 ELSE [@ EXCEPT !.pc = "lock", !.req = r]]
    /\ UNCHANGED <<rule, clean, locked, target, bounds, history>>

\* Approve and Reject name a request of the listing.
Review(w, k, r) ==
    /\ job[w].pc = "idle" /\ req[r] # None
    /\ job' = [job EXCEPT ![w] = Outside("lock", k, << >>, FALSE, r, req[r].rule)]
    /\ UNCHANGED <<rule, clean, req, locked, target, bounds, history>>

Pending(r) == req[r] # None /\ req[r].status = "pending"

\* Fault: the status is not read again under the row's lock.
EnterUnchecked(w) ==
    LET r == job[w].req IN
    /\ job[w].pc = "lock" /\ locked[r] = None /\ req[r] # None
    /\ locked' = [locked EXCEPT ![r] = w]
    /\ job' = [job EXCEPT ![w].pc = IF job[w].kind = "reject" THEN "settle" ELSE "rule"]
    /\ UNCHANGED <<rule, clean, req, target, bounds, history>>

\* WithPendingRequestLock: SELECT ... FOR UPDATE, then the status.
Enter(w) ==
    LET r == job[w].req IN
    /\ job[w].pc = "lock" /\ locked[r] = None
    /\ IF Pending(r)
       THEN /\ locked' = [locked EXCEPT ![r] = w]
            /\ job' = [job EXCEPT ![w].pc = IF job[w].kind = "reject" THEN "settle" ELSE "rule"]
       ELSE /\ job' = [job EXCEPT ![w] = Proceed(w)]
            /\ UNCHANGED locked
    /\ UNCHANGED <<rule, clean, req, target, bounds, history>>

\* Fault: an approval is recorded as such instead of as the copy's outcome.
SettleApproved(w) ==
    LET r == job[w].req
        outcome == IF job[w].kind = "reject" THEN "rejected" ELSE "approved" IN
    /\ job[w].pc = "settle"
    /\ req' = [req EXCEPT ![r].status = outcome]
    /\ locked' = [locked EXCEPT ![r] = None]
    /\ job' = [job EXCEPT ![w] = Proceed(w)]
    /\ UNCHANGED <<rule, clean, target, bounds, history>>

\* The outcome is written and committed, or the transaction fails and the
\* request is pending again.
Settle(w) ==
    LET r == job[w].req
        outcome == IF job[w].kind = "reject" THEN "rejected"
                   ELSE IF job[w].ok THEN "completed" ELSE "failed" IN
    /\ job[w].pc = "settle"
    /\ \/ req' = [req EXCEPT ![r].status = outcome] /\ UNCHANGED faults
       \/ Fault /\ UNCHANGED req
    /\ locked' = [locked EXCEPT ![r] = None]
    /\ job' = [job EXCEPT ![w] = Proceed(w)]
    /\ UNCHANGED <<rule, clean, target, edits, history>>

-----------------------------------------------------------------------------
(* executeCopy                                                             *)

Comp(w) == req[job[w].req].comp
Copying(w, c) == job[w].pc \in CopyPC /\ Comp(w) = c

\* The ids the database gives to a new component, or to a new row of a path: the
\* least one that nothing refers to.
Least(used) == {i \in Ids \ used : \A j \in Ids \ used : i <= j}
NewCompId == Least({tcomp[c] : c \in Comps} \cup {job[w].tid : w \in Workers}
                   \cup {trow[p].comp : p \in {q \in Paths : trow[q] # None}})
NewRowId(p) ==
    Least({i \in Ids : \/ trow[p] # None /\ trow[p].id = i
                       \/ \E w \in Workers : \E n \in 1 .. Len(job[w].rows) :
                            job[w].rows[n] = <<p, i>>})

\* executeCopy returns, and its variables go.
Returned(w, ok) ==
    [pc |-> "settle", kind |-> job[w].kind, rest |-> job[w].rest, manual |-> job[w].manual,
     req |-> job[w].req, rule |-> job[w].rule, snap |-> None, tid |-> None, todo |-> << >>,
     fresh |-> FALSE, rows |-> << >>, blobs |-> << >>, ok |-> ok, touched |-> FALSE]

\* The rule is read again for every request.
ReadRule(w) ==
    /\ job[w].pc = "rule"
    /\ LET s == rule[req[job[w].req].rule] IN
       job' = [job EXCEPT ![w] = IF s = None THEN Returned(w, FALSE)
                                 ELSE [@ EXCEPT !.pc = "applies", !.snap = s]]
    /\ UNCHANGED <<rule, clean, req, locked, target, bounds, history>>

\* Fault: the checks are left to the time of filing.
TrustFiling(w) ==
    /\ job[w].pc = "applies"
    /\ job' = [job EXCEPT ![w].pc = "scan"]
    /\ UNCHANGED <<rule, clean, req, locked, target, bounds, history>>

\* ruleAppliesTo, "re-checked at copy time".
CheckApplies(w) ==
    /\ job[w].pc = "applies"
    /\ job' = [job EXCEPT ![w] = IF Applies(job[w].snap, job[w].rule, Comp(w))
                                 THEN [@ EXCEPT !.pc = "scan"] ELSE Returned(w, FALSE)]
    /\ UNCHANGED <<rule, clean, req, locked, target, bounds, history>>

\* scanGate at copy time; then the component's assets are listed.
CheckScan(w) ==
    /\ job[w].pc = "scan"
    /\ job' = [job EXCEPT ![w] = IF ScanPasses(job[w].snap, Comp(w))
                                 THEN [@ EXCEPT !.pc = "upsert", !.todo = AssetsOf[Comp(w)]]
                                 ELSE Returned(w, FALSE)]
    /\ UNCHANGED <<rule, clean, req, locked, target, bounds, history>>

\* A read fails, or the target's repository or store is gone: nothing to undo.
CheckFails(w) ==
    /\ job[w].pc \in {"rule", "applies", "scan", "upsert"}
    /\ job' = [job EXCEPT ![w] = Returned(w, FALSE)]
    /\ UNCHANGED <<rule, clean, req, locked, target, bounds, history>>

\* componentRepo.Create upserts.
UpsertComponent(w) ==
    /\ job[w].pc = "upsert"
    /\ IF tcomp[Comp(w)] # None
       THEN UNCHANGED tcomp
       ELSE \E i \in NewCompId : tcomp' = [tcomp EXCEPT ![Comp(w)] = i]
    /\ job' = [job EXCEPT ![w] = IF job[w].todo = << >> THEN Returned(w, TRUE)
                                 ELSE [@ EXCEPT !.pc = "fresh", !.tid = tcomp'[Comp(w)]]]
    /\ overlapped' = overlapped \cup
            {c \in {Comp(w)} : \E v \in Workers \ {w} : Copying(v, c)}
    /\ UNCHANGED <<rule, clean, req, locked, trow, tblob, bounds, marred>>

\* Fault: a path that the target already has counts as created by this copy.
PresumeFresh(w) ==
    /\ job[w].pc = "fresh"
    /\ job' = [job EXCEPT ![w].pc = "put", ![w].fresh = TRUE]
    /\ UNCHANGED <<rule, clean, req, locked, target, bounds, history>>

\* GetByPath in the target decides what a rollback may touch.
CheckFresh(w) ==
    /\ job[w].pc = "fresh"
    /\ job' = [job EXCEPT ![w].pc = "put", ![w].fresh = trow[Head(job[w].todo)] = None]
    /\ UNCHANGED <<rule, clean, req, locked, target, bounds, history>>

\* The source's bytes are read and put under the target's key.
PutBlob(w) ==
    LET p == Head(job[w].todo) IN
    /\ job[w].pc = "put"
    /\ tblob' = tblob \cup {p}
    /\ job' = [job EXCEPT ![w].pc = "row",
                ![w].blobs = IF job[w].fresh THEN Append(@, p) ELSE @]
    /\ UNCHANGED <<rule, clean, req, locked, tcomp, trow, bounds, history>>

\* assetRepo.Create: an existing row is updated and keeps its id and component;
\* a new one needs the component to be there.
CreateRow(w) ==
    LET p == Head(job[w].todo)
        rest == Tail(job[w].todo) IN
    /\ job[w].pc = "row"
    /\ \/ trow[p] # None /\ UNCHANGED trow
       \/ /\ trow[p] = None /\ tcomp[Comp(w)] = job[w].tid
          /\ \E i \in NewRowId(p) : trow' = [trow EXCEPT ![p] = [id |-> i, comp |-> job[w].tid]]
    /\ job' = [job EXCEPT ![w] =
                IF rest = << >> THEN Returned(w, TRUE)
                ELSE [@ EXCEPT !.pc = "fresh", !.todo = rest, !.fresh = FALSE,
                        !.rows = IF job[w].fresh THEN Append(job[w].rows, <<p, trow'[p].id>>)
                                 ELSE job[w].rows]]
    /\ UNCHANGED <<rule, clean, req, locked, tcomp, tblob, bounds, history>>

\* A call of the loop fails: the deferred rollback starts.
CopyFails(w) ==
    /\ job[w].pc \in {"fresh", "put", "row"}
    /\ job' = [job EXCEPT ![w].pc = "undo", ![w].fresh = FALSE, ![w].todo = << >>]
    /\ UNCHANGED <<rule, clean, req, locked, target, bounds, history>>

\* The rows this copy created go first; an error is ignored.
UndoRow(w) ==
    /\ job[w].pc = "undo" /\ job[w].rows # << >>
    /\ job' = [job EXCEPT ![w].rows = Tail(@)]
    /\ \/ /\ trow' = [p \in Paths |-> IF trow[p] # None /\ <<p, trow[p].id>> = Head(job[w].rows)
                                      THEN None ELSE trow[p]]
          /\ UNCHANGED <<faults, marred>>
       \/ Fault /\ marred' = marred \cup {Comp(w)} /\ UNCHANGED trow
    /\ UNCHANGED <<rule, clean, req, locked, tcomp, tblob, edits, overlapped>>

\* Then the bytes.
UndoBlob(w) ==
    /\ job[w].pc = "undo" /\ job[w].rows = << >> /\ job[w].blobs # << >>
    /\ job' = [job EXCEPT ![w].blobs = Tail(@)]
    /\ \/ tblob' = tblob \ {Head(job[w].blobs)} /\ UNCHANGED faults
       \/ Fault /\ UNCHANGED tblob
    /\ UNCHANGED <<rule, clean, req, locked, tcomp, trow, edits, history>>

\* Fault: the rollback leaves the component in the target.
KeepComponent(w) ==
    /\ job[w].pc = "undo" /\ job[w].rows = << >> /\ job[w].blobs = << >>
    /\ job' = [job EXCEPT ![w] = Returned(w, FALSE)]
    /\ UNCHANGED <<rule, clean, req, locked, target, bounds, history>>

\* The component goes when its listing is empty.
UndoList(w) ==
    /\ job[w].pc = "undo" /\ job[w].rows = << >> /\ job[w].blobs = << >>
    /\ \/ /\ job' = [job EXCEPT ![w] =
                IF \E p \in Paths : trow[p] # None /\ trow[p].comp = job[w].tid
                THEN Returned(w, FALSE) ELSE [@ EXCEPT !.pc = "undoComp"]]
          /\ UNCHANGED <<faults, marred>>
       \/ /\ job' = [job EXCEPT ![w] = Returned(w, FALSE)]
          /\ Fault /\ marred' = marred \cup {Comp(w)}
    /\ UNCHANGED <<rule, clean, req, locked, target, edits, overlapped>>

\* Its delete takes along the rows that came since.
UndoComponent(w) ==
    /\ job[w].pc = "undoComp"
    /\ \/ /\ tcomp' = [c \in Comps |-> IF tcomp[c] = job[w].tid THEN None ELSE tcomp[c]]
          /\ trow' = [p \in Paths |-> IF trow[p] # None /\ trow[p].comp = job[w].tid
                                      THEN None ELSE trow[p]]
          /\ UNCHANGED <<faults, marred>>
       \/ Fault /\ marred' = marred \cup {Comp(w)} /\ UNCHANGED <<tcomp, trow>>
    /\ job' = [job EXCEPT ![w] = Returned(w, FALSE)]
    /\ UNCHANGED <<rule, clean, req, locked, tblob, edits, overlapped>>

\* The server dies, or the client goes away and every later call of the request
\* fails with its context: the transaction is rolled back, the copy stays as it is.
Crash(w) ==
    /\ job[w].pc # "idle" /\ Fault
    /\ job' = [job EXCEPT ![w] = Idle]
    /\ locked' = [r \in Requests |-> IF locked[r] = w THEN None ELSE locked[r]]
    /\ marred' = marred \cup {c \in Comps : Copying(w, c)}
    /\ UNCHANGED <<rule, clean, req, target, edits, overlapped>>

Step(w) ==
    \/ PromoteEnds(w) \/ (\E r \in Requests : CreateRequest(w, r)) \/ Enter(w) \/ ReadRule(w)
    \/ CheckApplies(w) \/ CheckScan(w) \/ CheckFails(w) \/ UpsertComponent(w)
    \/ CheckFresh(w) \/ PutBlob(w) \/ CreateRow(w) \/ CopyFails(w) \/ UndoRow(w) \/ UndoBlob(w) \/ UndoList(w)
    \/ UndoComponent(w) \/ Settle(w)

Next ==
    \/ \E i \in Rules : SaveRule(i) \/ DeleteRule(i)
    \/ \E c \in Comps : ScanReport(c)
    \/ \E w \in Workers :
        \/ \E i \in Rules, b \in Batches : Promote(w, i, b)
        \/ \E k \in {"approve", "reject"}, r \in Requests : Review(w, k, r)
        \/ Step(w) \/ Crash(w)

Spec == Init /\ [][Next]_vars

-----------------------------------------------------------------------------
(* Properties                                                              *)

\* No gate is routed around (issues #255 and #366): while a request is copied,
\* its rule alone covers the component and the scan gate is passed, however long
\* the request was pending, unless a gate changed after the request was locked.
NoBypass ==
    \A w \in Workers :
        job[w].pc \in CopyPC /\ ~job[w].touched =>
            LET i == req[job[w].req].rule IN
            /\ rule[i] # None
            /\ \A j \in Rules : rule[j] # None => (Comp(w) \in rule[j].covers <=> j = i)
            /\ ScanPasses(rule[i], Comp(w))

\* The first verdict stands: a rejection that races an approval loses to
\* whichever committed first (promotion_service.go:401), and so does a second
\* approval or the deletion of a rule whose request is being copied.
FirstVerdictStands ==
    [][\A r \in Requests :
        /\ req[r] # None /\ req[r].status \in Settled => req'[r] \in {req[r], None}
        /\ locked[r] # None => req'[r] # None]_vars

\* What a completed promotion brought stays, with its bytes, whatever later
\* promotions of the component do and however their rollbacks fail: "blindly
\* deleting what I touched" would destroy it (promotion_service.go:422).
CompletedStays ==
    \A r \in Requests :
        req[r] # None /\ req[r].status = "completed" /\ req[r].comp \notin overlapped =>
            \A p \in PathsOf(req[r].comp) : trow[p] # None /\ p \in tblob

\* No half-populated component (promotion_service.go:427): once no copy of a
\* component runs, the target has all of its rows with their bytes, or nothing.
WholeOrNothing ==
    \A c \in Comps \ (overlapped \cup marred) :
        (\A w \in Workers : job[w].pc \notin CopyPC \/ Comp(w) # c) =>
            \/ tcomp[c] = None /\ \A p \in PathsOf(c) : trow[p] = None
            \/ tcomp[c] # None /\ \A p \in PathsOf(c) : trow[p] # None /\ p \in tblob

=============================================================================
