--------------------------- MODULE PromotionProofs ---------------------------
(***************************************************************************)
(* No gate of a promotion rule is routed around, the first verdict on a    *)
(* request stands, what a completed promotion brought stays, and a copy    *)
(* leaves the whole of its component or nothing: for any number of rules,  *)
(* components, requests, workers and assets, and any number of edits and   *)
(* failures.                                                               *)
(***************************************************************************)
EXTENDS Promotion, SequenceTheorems, TLAPS

\* Inside WithPendingRequestLock, and past the reading of the rule there.
ReadPC == {"applies", "scan", "upsert"} \cup CopyPC
InPC == {"rule", "settle"} \cup ReadPC

\* The locals a step reads are set.
Shape(j) ==
    /\ j.pc = "create" => j.kind = "promote" /\ j.rule \in Rules
    /\ j.pc \notin {"idle", "create"} => j.req \in Requests /\ j.rule \in Rules
    /\ j.pc \notin {"idle", "create"} /\ j.kind = "promote" => j.rest # << >>
    /\ j.pc \in {"fresh", "put", "row"} => j.todo # << >>
    /\ j.pc \in CopyPC => j.tid # None

\* A job works with the rule of its request.
SameRule(j) ==
    j.req # None /\ req[j.req] # None => req[j.req].rule = j.rule

\* What the checks found still holds, unless a gate has changed since.
Gate(j) ==
    j.pc \in ReadPC =>
        /\ j.snap \in Rule
        /\ ~j.touched =>
            /\ rule[j.rule] = j.snap
            /\ j.pc # "applies" => Applies(j.snap, j.rule, req[j.req].comp)
            /\ j.pc \notin {"applies", "scan"} => ScanPasses(j.snap, req[j.req].comp)

JobsOK == \A w \in Workers : Shape(job[w]) /\ SameRule(job[w]) /\ Gate(job[w])

\* The row lock and the job that holds it name each other, and only a pending
\* request is locked.
LockInv ==
    /\ \A r \in Requests : locked[r] # None =>
            job[locked[r]].req = r /\ job[locked[r]].pc \in InPC
    /\ \A w \in Workers : job[w].pc \in InPC =>
            locked[job[w].req] = w /\ Pending(job[w].req)

IInv == TypeOK /\ JobsOK /\ LockInv

-----------------------------------------------------------------------------
(* Facts about jobs                                                        *)

\* Only the worker's own job changes.
LEMMA OneJob ==
    ASSUME job \in [Workers -> Job], NEW w \in Workers, NEW X \in Job,
           job' = [job EXCEPT ![w] = X]
    PROVE  /\ job' \in [Workers -> Job]
           /\ job'[w] = X
           /\ \A v \in Workers \ {w} : job'[v] = job[v]
OBVIOUS

\* An idle worker has no request and nothing to remember.
LEMMA IdleJob ==
    /\ Idle \in Job /\ Idle.pc = "idle" /\ Idle.req = None /\ Idle.snap = None
    /\ Shape(Idle) /\ SameRule(Idle) /\ Gate(Idle)
BY EmptySeq DEF Idle, Outside, Job, Shape, SameRule, Gate, ReadPC, CopyPC

\* After a component of a batch comes the next one, or the end.
LEMMA ProceedJob ==
    ASSUME IInv, NEW w \in Workers, job[w].pc \notin {"idle"},
           job[w].kind = "promote" => job[w].rest # << >>
    PROVE  /\ Proceed(w) \in Job /\ Proceed(w).pc \in {"idle", "create"}
           /\ Proceed(w).req = None /\ Proceed(w).snap = None
           /\ Shape(Proceed(w)) /\ SameRule(Proceed(w)) /\ Gate(Proceed(w))
<1>1. job[w] \in Job /\ Shape(job[w])
  BY DEF IInv, TypeOK, JobsOK
<1>2. CASE job[w].kind = "promote"
  <2>1. Tail(job[w].rest) \in Seq(Comps)
    BY <1>1, <1>2, HeadTailProperties DEF Job
  <2>2. job[w].rule \in Rules
    BY <1>1, <1>2 DEF Shape, Job
  <2>3. Proceed(w) = [pc |-> "create", kind |-> "promote", rest |-> Tail(job[w].rest),
            manual |-> job[w].manual, req |-> None, rule |-> job[w].rule, snap |-> None,
            tid |-> None, todo |-> << >>, fresh |-> FALSE, rows |-> << >>, blobs |-> << >>,
            ok |-> FALSE, touched |-> FALSE]
    BY <1>2 DEF Proceed, Outside
  <2>4. Proceed(w) \in Job
    BY <1>1, <2>1, <2>2, <2>3, EmptySeq DEF Job
  <2> QED
    BY <2>2, <2>3, <2>4 DEF Shape, SameRule, Gate, ReadPC, CopyPC
<1>3. CASE job[w].kind # "promote"
  BY <1>3, IdleJob DEF Proceed
<1> QED
  BY <1>2, <1>3

\* What is left of a job when executeCopy returns.
LEMMA ReturnedJob ==
    ASSUME IInv, NEW w \in Workers, job[w].pc \in InPC, NEW ok \in BOOLEAN
    PROVE  /\ Returned(w, ok) \in Job /\ Returned(w, ok).pc = "settle"
           /\ Returned(w, ok).req = job[w].req /\ Returned(w, ok).rule = job[w].rule
           /\ Shape(Returned(w, ok)) /\ Gate(Returned(w, ok))
<1>1. job[w] \in Job /\ Shape(job[w])
  BY DEF IInv, TypeOK, JobsOK
<1>2. Returned(w, ok) \in Job
  BY <1>1, EmptySeq DEF Returned, Job
<1> QED
  BY <1>1, <1>2 DEF Returned, Shape, Gate, InPC, ReadPC, CopyPC

\* A job inside the lock has a pending request of its own rule.
LEMMA InsideFacts ==
    ASSUME IInv, NEW w \in Workers, job[w].pc \in InPC
    PROVE  /\ job[w] \in Job /\ job[w].req \in Requests /\ job[w].rule \in Rules
           /\ req[job[w].req] \in Request /\ req[job[w].req].status = "pending"
           /\ req[job[w].req].rule = job[w].rule /\ Comp(w) \in Comps
           /\ locked[job[w].req] = w
           /\ Shape(job[w]) /\ Gate(job[w])
<1>1. job[w] \in Job /\ Shape(job[w]) /\ SameRule(job[w]) /\ Gate(job[w])
  BY DEF IInv, TypeOK, JobsOK
<1>2. job[w].req \in Requests /\ job[w].rule \in Rules
  BY <1>1 DEF Shape, InPC, ReadPC, CopyPC
<1>3. locked[job[w].req] = w /\ req[job[w].req] # None /\ req[job[w].req].status = "pending"
  BY <1>2 DEF IInv, LockInv, Pending
<1>4. req[job[w].req] \in Request
  BY <1>2, <1>3 DEF IInv, TypeOK
<1>5. req[job[w].req].rule = job[w].rule
  BY <1>1, <1>2, <1>3, PromotionAssumption DEF SameRule
<1>6. Comp(w) \in Comps
  BY <1>4 DEF Comp, Request
<1> QED
  BY <1>1, <1>2, <1>3, <1>4, <1>5, <1>6

\* A step of executeCopy keeps its request and its lock: the invariants follow
\* from those of the job it leaves.
LEMMA CopyStep ==
    ASSUME IInv, NEW w \in Workers, NEW X \in Job, job' = [job EXCEPT ![w] = X],
           UNCHANGED <<rule, clean, req, locked>>,
           job[w].pc \in InPC, X.pc \in InPC,
           X.req = job[w].req, X.rule = job[w].rule, Shape(X), Gate(X)
    PROVE  job' \in [Workers -> Job] /\ JobsOK' /\ LockInv'
<1>1. /\ job' \in [Workers -> Job] /\ job'[w] = X
      /\ \A v \in Workers \ {w} : job'[v] = job[v]
  BY OneJob DEF IInv, TypeOK
<1>2. SameRule(X)
  BY InsideFacts DEF SameRule
<1>3. JobsOK'
  <2> SUFFICES ASSUME NEW v \in Workers
               PROVE  Shape(job[v])' /\ SameRule(job[v])' /\ Gate(job[v])'
    BY DEF JobsOK
  <2>1. CASE v = w
    BY <1>1, <1>2, <2>1 DEF Shape, SameRule, Gate, Applies, ScanPasses
  <2>2. CASE v # w
    <3>1. Shape(job[v]) /\ SameRule(job[v]) /\ Gate(job[v]) /\ job'[v] = job[v]
      BY <1>1, <2>2 DEF IInv, JobsOK
    <3> QED
      BY <3>1 DEF Shape, SameRule, Gate, Applies, ScanPasses
  <2> QED
    BY <2>1, <2>2
<1>4. LockInv'
  <2>1. locked[job[w].req] = w /\ Pending(job[w].req)
    BY DEF IInv, LockInv
  <2>2. ASSUME NEW r \in Requests, locked'[r] # None
        PROVE  job'[locked'[r]].req = r /\ job'[locked'[r]].pc \in InPC
    <3>1. locked[r] \in Workers
      BY <2>2 DEF IInv, TypeOK
    <3> QED
      BY <1>1, <2>2, <3>1 DEF IInv, LockInv
  <2>3. ASSUME NEW v \in Workers, job'[v].pc \in InPC
        PROVE  locked'[job'[v].req] = v /\ Pending(job[v].req)'
    BY <1>1, <2>1, <2>3 DEF IInv, LockInv, Pending
  <2> QED
    BY <2>2, <2>3 DEF LockInv
<1> QED
  BY <1>1, <1>3, <1>4

-----------------------------------------------------------------------------
(* Steps of executeCopy                                                    *)

\* A check that fails, wherever, only ends the copy.
LEMMA ReturnPreserves ==
    ASSUME IInv, NEW w \in Workers, NEW ok \in BOOLEAN, job[w].pc \in InPC,
           job' = [job EXCEPT ![w] = Returned(w, ok)], UNCHANGED <<rule, clean, req, locked>>
    PROVE  job' \in [Workers -> Job] /\ JobsOK' /\ LockInv'
<1>1. "settle" \in InPC
  BY DEF InPC
<1> QED
  BY <1>1, ReturnedJob, CopyStep

\* The rule of the request is there, or the request fails.
LEMMA ReadRulePreserves ==
    ASSUME IInv, NEW w \in Workers, ReadRule(w)
    PROVE  IInv'
<1>1. job[w].pc = "rule" /\ job[w].pc \in InPC
  BY DEF ReadRule, InPC
<1> DEFINE s == rule[req[job[w].req].rule]
           X == [job[w] EXCEPT !.pc = "applies", !.snap = s]
<1>2. s \in Rule \cup {None} /\ s = rule[job[w].rule]
  BY <1>1, InsideFacts DEF IInv, TypeOK
<1>3. job[w] \in Job
  BY <1>1, InsideFacts
<1>4. CASE s = None
  <2>1. job' = [job EXCEPT ![w] = Returned(w, FALSE)]
    BY <1>4 DEF ReadRule
  <2> QED
    BY <1>1, <2>1, ReturnPreserves
    DEF ReadRule, IInv, TypeOK, target, bounds, history
<1>5. CASE s # None
  <2>1. job' = [job EXCEPT ![w] = X]
    BY <1>5 DEF ReadRule
  <2>2. X \in Job /\ X.pc = "applies" /\ X.snap = s /\ X.req = job[w].req /\ X.rule = job[w].rule
        /\ X.kind = job[w].kind /\ X.rest = job[w].rest
    BY <1>2, <1>3, <1>5 DEF Job
  <2>3. Shape(X) /\ Gate(X)
    <3> HIDE DEF X, s
    <3>1. Shape(job[w]) /\ job[w].req \in Requests /\ job[w].rule \in Rules
      BY <1>1, InsideFacts
    <3>2. Shape(X)
      BY <1>1, <2>2, <3>1 DEF Shape, CopyPC
    <3>3. Gate(X)
      BY <1>2, <1>5, <2>2 DEF Gate
    <3> QED
      BY <3>2, <3>3
  <2>4. X.pc \in InPC
    BY <2>2 DEF InPC, ReadPC
  <2>5. job' \in [Workers -> Job] /\ JobsOK' /\ LockInv'
    <3> HIDE DEF X, s
    <3> QED
      BY <1>1, <2>1, <2>2, <2>3, <2>4, CopyStep DEF ReadRule
  <2> QED
    BY <2>5 DEF ReadRule, IInv, TypeOK, target, bounds, history
<1> QED
  BY <1>4, <1>5

\* The rule alone covers the component when the copy goes on.
LEMMA CheckAppliesPreserves ==
    ASSUME IInv, NEW w \in Workers, CheckApplies(w)
    PROVE  IInv'
<1>1. job[w].pc = "applies" /\ job[w].pc \in InPC
  BY DEF CheckApplies, InPC, ReadPC
<1> DEFINE X == [job[w] EXCEPT !.pc = "scan"]
<1>2. job[w] \in Job
  BY <1>1, InsideFacts
<1>3. CASE ~Applies(job[w].snap, job[w].rule, Comp(w))
  <2>1. job' = [job EXCEPT ![w] = Returned(w, FALSE)]
    BY <1>3 DEF CheckApplies
  <2> QED
    BY <1>1, <2>1, ReturnPreserves
    DEF CheckApplies, IInv, TypeOK, target, bounds, history
<1>4. CASE Applies(job[w].snap, job[w].rule, Comp(w))
  <2>1. job' = [job EXCEPT ![w] = X]
    BY <1>4 DEF CheckApplies
  <2>2. X \in Job /\ X.pc = "scan" /\ X.snap = job[w].snap /\ X.touched = job[w].touched
        /\ X.req = job[w].req /\ X.rule = job[w].rule
        /\ X.kind = job[w].kind /\ X.rest = job[w].rest
    BY <1>2 DEF Job
  <2>3. Shape(X) /\ Gate(X)
    BY <1>1, <1>4, <2>2, InsideFacts DEF Shape, Gate, ReadPC, CopyPC, Comp
  <2>4. X.pc \in InPC
    BY <2>2 DEF InPC, ReadPC
  <2>5. job' \in [Workers -> Job] /\ JobsOK' /\ LockInv'
    <3> HIDE DEF X
    <3> QED
      BY <1>1, <2>1, <2>2, <2>3, <2>4, CopyStep DEF CheckApplies
  <2> QED
    BY <2>5 DEF CheckApplies, IInv, TypeOK, target, bounds, history
<1> QED
  BY <1>3, <1>4

\* The scan gate is passed when the copy goes on.
LEMMA CheckScanPreserves ==
    ASSUME IInv, NEW w \in Workers, CheckScan(w)
    PROVE  IInv'
<1>1. job[w].pc = "scan" /\ job[w].pc \in InPC
  BY DEF CheckScan, InPC, ReadPC
<1> DEFINE X == [job[w] EXCEPT !.pc = "upsert", !.todo = AssetsOf[Comp(w)]]
<1>2. job[w] \in Job
  BY <1>1, InsideFacts
<1>3. CASE ~ScanPasses(job[w].snap, Comp(w))
  <2>1. job' = [job EXCEPT ![w] = Returned(w, FALSE)]
    BY <1>3 DEF CheckScan
  <2> QED
    BY <1>1, <2>1, ReturnPreserves
    DEF CheckScan, IInv, TypeOK, target, bounds, history
<1>4. CASE ScanPasses(job[w].snap, Comp(w))
  <2>1. job' = [job EXCEPT ![w] = X]
    BY <1>4 DEF CheckScan
  <2>2. AssetsOf[Comp(w)] \in Seq(Paths)
    BY <1>1, InsideFacts, PromotionAssumption
  <2>3. X \in Job /\ X.pc = "upsert" /\ X.snap = job[w].snap /\ X.touched = job[w].touched
        /\ X.req = job[w].req /\ X.rule = job[w].rule
        /\ X.kind = job[w].kind /\ X.rest = job[w].rest
    BY <1>2, <2>2 DEF Job
  <2>4. Shape(X) /\ Gate(X)
    <3> HIDE DEF X
    <3>1. /\ Shape(job[w]) /\ Gate(job[w])
          /\ job[w].req \in Requests /\ job[w].rule \in Rules
      BY <1>1, InsideFacts
    <3>2. Shape(X)
      BY <1>1, <2>3, <3>1 DEF Shape, CopyPC
    <3>3. Gate(X)
      BY <1>1, <1>4, <2>3, <3>1 DEF Gate, ReadPC, Comp
    <3> QED
      BY <3>2, <3>3
  <2>5. X.pc \in InPC
    BY <2>3 DEF InPC, ReadPC
  <2>6. job' \in [Workers -> Job] /\ JobsOK' /\ LockInv'
    <3> HIDE DEF X
    <3> QED
      BY <1>1, <2>1, <2>3, <2>4, <2>5, CopyStep DEF CheckScan
  <2> QED
    BY <2>6 DEF CheckScan, IInv, TypeOK, target, bounds, history
<1> QED
  BY <1>3, <1>4

\* A failed read ends the copy.
LEMMA CheckFailsPreserves ==
    ASSUME IInv, NEW w \in Workers, CheckFails(w)
    PROVE  IInv'
<1>1. job[w].pc \in InPC /\ job' = [job EXCEPT ![w] = Returned(w, FALSE)]
  BY DEF CheckFails, InPC, ReadPC
<1> QED
  BY <1>1, ReturnPreserves DEF CheckFails, IInv, TypeOK, target, bounds, history

\* A step of the copy's loop or of its rollback keeps what the checks found.
LEMMA LoopStep ==
    ASSUME IInv, NEW w \in Workers, NEW X \in Job, job' = [job EXCEPT ![w] = X],
           UNCHANGED <<rule, clean, req, locked>>,
           job[w].pc \in {"upsert"} \cup CopyPC, X.pc \in CopyPC,
           X.req = job[w].req, X.rule = job[w].rule, X.kind = job[w].kind,
           X.rest = job[w].rest, X.snap = job[w].snap, X.touched = job[w].touched,
           X.pc \in {"fresh", "put", "row"} => X.todo # << >>, X.tid # None
    PROVE  job' \in [Workers -> Job] /\ JobsOK' /\ LockInv'
<1>1. job[w].pc \in InPC /\ X.pc \in InPC
  BY DEF InPC, ReadPC
<1>2. Shape(X) /\ Gate(X)
  BY <1>1, InsideFacts DEF Shape, Gate, ReadPC, CopyPC
<1> QED
  BY <1>1, <1>2, CopyStep

\* The target's component gets an id and the copy goes on with it.
LEMMA UpsertComponentPreserves ==
    ASSUME IInv, NEW w \in Workers, UpsertComponent(w)
    PROVE  IInv'
<1>1. job[w].pc = "upsert" /\ job[w].pc \in InPC
  BY DEF UpsertComponent, InPC, ReadPC
<1>2. job[w] \in Job /\ Comp(w) \in Comps
  BY <1>1, InsideFacts
<1> DEFINE X == [job[w] EXCEPT !.pc = "fresh", !.tid = tcomp'[Comp(w)]]
<1>3. tcomp' \in [Comps -> Ids \cup {None}] /\ tcomp'[Comp(w)] \in Ids
  BY <1>2 DEF UpsertComponent, NewCompId, Least, IInv, TypeOK
<1>4. job' \in [Workers -> Job] /\ JobsOK' /\ LockInv'
  <2>1. CASE job[w].todo = << >>
    <3>1. job' = [job EXCEPT ![w] = Returned(w, TRUE)]
      BY <2>1 DEF UpsertComponent
    <3> QED
      BY <1>1, <3>1, ReturnPreserves DEF UpsertComponent
  <2>2. CASE job[w].todo # << >>
    <3>1. job' = [job EXCEPT ![w] = X]
      BY <2>2 DEF UpsertComponent
    <3>2. X \in Job /\ X.pc = "fresh" /\ X.tid = tcomp'[Comp(w)] /\ X.todo = job[w].todo
          /\ X.req = job[w].req /\ X.rule = job[w].rule /\ X.kind = job[w].kind
          /\ X.rest = job[w].rest /\ X.snap = job[w].snap /\ X.touched = job[w].touched
      BY <1>2, <1>3 DEF Job, CopyPC
    <3>3. X.tid # None /\ X.pc \in CopyPC
      BY <1>3, <3>2, PromotionAssumption DEF Ids, CopyPC
    <3> HIDE DEF X
    <3> QED
      BY <1>1, <2>2, <3>1, <3>2, <3>3, LoopStep DEF UpsertComponent
  <2> QED
    BY <2>1, <2>2
<1>5. overlapped' \subseteq Comps
  BY <1>2 DEF UpsertComponent, IInv, TypeOK
<1> QED
  BY <1>3, <1>4, <1>5 DEF UpsertComponent, IInv, TypeOK, bounds

\* Looking for the path in the target changes only the job.
LEMMA CheckFreshPreserves ==
    ASSUME IInv, NEW w \in Workers, CheckFresh(w)
    PROVE  IInv'
<1>1. job[w].pc = "fresh" /\ job[w].pc \in InPC /\ job[w].pc \in CopyPC
  BY DEF CheckFresh, InPC, ReadPC, CopyPC
<1>2. job[w] \in Job /\ job[w].todo # << >> /\ job[w].tid # None
  BY <1>1, InsideFacts DEF Shape
<1> DEFINE f == trow[Head(job[w].todo)] = None
           X == [job[w] EXCEPT !.pc = "put", !.fresh = f]
<1>3. job' = [job EXCEPT ![w] = X] /\ f \in BOOLEAN
  BY DEF CheckFresh
<1>4. X \in Job /\ X.pc = "put" /\ X.tid = job[w].tid /\ X.todo = job[w].todo
      /\ X.req = job[w].req /\ X.rule = job[w].rule /\ X.kind = job[w].kind
      /\ X.rest = job[w].rest /\ X.snap = job[w].snap /\ X.touched = job[w].touched
  <2> HIDE DEF f
  <2> QED
    BY ZenonT(60), <1>2, <1>3 DEF Job, CopyPC
<1>5. X.pc \in CopyPC
  BY <1>4 DEF CopyPC
<1>6. job' \in [Workers -> Job] /\ JobsOK' /\ LockInv'
  <2> HIDE DEF X
  <2> QED
    BY <1>1, <1>2, <1>3, <1>4, <1>5, LoopStep DEF CheckFresh
<1> QED
  BY <1>6 DEF CheckFresh, IInv, TypeOK, target, bounds, history

\* The bytes of a path of the target are there.
LEMMA PutBlobPreserves ==
    ASSUME IInv, NEW w \in Workers, PutBlob(w)
    PROVE  IInv'
<1>1. job[w].pc = "put" /\ job[w].pc \in InPC /\ job[w].pc \in CopyPC
  BY DEF PutBlob, InPC, ReadPC, CopyPC
<1>2. job[w] \in Job /\ job[w].todo # << >> /\ job[w].tid # None
  BY <1>1, InsideFacts DEF Shape
<1> DEFINE p == Head(job[w].todo)
           B == IF job[w].fresh THEN Append(job[w].blobs, p) ELSE job[w].blobs
           X == [job[w] EXCEPT !.pc = "row", !.blobs = B]
<1>3. p \in Paths
  BY <1>2, HeadTailProperties DEF Job
<1>4. B \in Seq(Paths)
  BY <1>2, <1>3, AppendProperties DEF Job
<1>5. job' = [job EXCEPT ![w] = X]
  BY DEF PutBlob
<1>6. X \in Job /\ X.pc = "row" /\ X.tid = job[w].tid /\ X.todo = job[w].todo
      /\ X.req = job[w].req /\ X.rule = job[w].rule /\ X.kind = job[w].kind
      /\ X.rest = job[w].rest /\ X.snap = job[w].snap /\ X.touched = job[w].touched
  <2> HIDE DEF B
  <2> QED
    BY <1>2, <1>4 DEF Job, CopyPC
<1>7. X.pc \in CopyPC
  BY <1>6 DEF CopyPC
<1>8. job' \in [Workers -> Job] /\ JobsOK' /\ LockInv'
  <2> HIDE DEF X
  <2> QED
    BY <1>1, <1>2, <1>5, <1>6, <1>7, LoopStep DEF PutBlob
<1> QED
  BY <1>3, <1>8 DEF PutBlob, IInv, TypeOK, bounds, history

\* The row of a path of the target is there, under the component of the copy.
LEMMA CreateRowPreserves ==
    ASSUME IInv, NEW w \in Workers, CreateRow(w)
    PROVE  IInv'
<1>1. job[w].pc = "row" /\ job[w].pc \in InPC /\ job[w].pc \in CopyPC
  BY DEF CreateRow, InPC, ReadPC, CopyPC
<1>2. job[w] \in Job /\ job[w].todo # << >> /\ job[w].tid # None
  BY <1>1, InsideFacts DEF Shape
<1> DEFINE p == Head(job[w].todo)
           rest == Tail(job[w].todo)
           N == IF job[w].fresh THEN Append(job[w].rows, <<p, trow'[p].id>>) ELSE job[w].rows
           X == [job[w] EXCEPT !.pc = "fresh", !.todo = rest, !.fresh = FALSE, !.rows = N]
<1>3. p \in Paths /\ rest \in Seq(Paths)
  BY <1>2, HeadTailProperties DEF Job
<1>4. job[w].tid \in Ids
  BY <1>2 DEF Job
<1>5. trow' \in [Paths -> TargetRow \cup {None}] /\ trow'[p] \in TargetRow
  <2>1. CASE trow[p] # None /\ UNCHANGED trow
    BY <1>3, <2>1 DEF IInv, TypeOK
  <2>2. ASSUME NEW i \in NewRowId(p),
               trow' = [trow EXCEPT ![p] = [id |-> i, comp |-> job[w].tid]]
        PROVE  trow' \in [Paths -> TargetRow \cup {None}] /\ trow'[p] \in TargetRow
    <3>1. i \in Ids
      BY DEF NewRowId, Least
    <3>2. [id |-> i, comp |-> job[w].tid] \in TargetRow
      BY <1>4, <3>1 DEF TargetRow
    <3>3. trow \in [Paths -> TargetRow \cup {None}]
      BY DEF IInv, TypeOK
    <3> HIDE DEF p
    <3> QED
      BY <1>3, <2>2, <3>2, <3>3
  <2> QED
    BY <2>1, <2>2 DEF CreateRow
<1>6. N \in Seq(Paths \X Ids)
  <2>1. trow'[p].id \in Ids
    BY <1>5 DEF TargetRow
  <2>2. <<p, trow'[p].id>> \in Paths \X Ids
    BY <1>3, <2>1
  <2>3. job[w].rows \in Seq(Paths \X Ids)
    BY <1>2 DEF Job
  <2> HIDE DEF p
  <2> QED
    BY <2>2, <2>3, AppendProperties
<1>7. job' \in [Workers -> Job] /\ JobsOK' /\ LockInv'
  <2>1. CASE rest = << >>
    <3>1. job' = [job EXCEPT ![w] = Returned(w, TRUE)]
      BY <2>1 DEF CreateRow
    <3> QED
      BY <1>1, <3>1, ReturnPreserves DEF CreateRow
  <2>2. CASE rest # << >>
    <3>1. job' = [job EXCEPT ![w] = X]
      BY <2>2 DEF CreateRow
    <3>2. X \in Job /\ X.pc = "fresh" /\ X.tid = job[w].tid /\ X.todo = rest
          /\ X.req = job[w].req /\ X.rule = job[w].rule /\ X.kind = job[w].kind
          /\ X.rest = job[w].rest /\ X.snap = job[w].snap /\ X.touched = job[w].touched
      <4> HIDE DEF N, rest
      <4> QED
        BY ZenonT(60), <1>2, <1>3, <1>6 DEF Job, CopyPC
    <3>3. X.pc \in CopyPC
      BY <3>2 DEF CopyPC
    <3> HIDE DEF X
    <3> QED
      BY <1>1, <1>2, <2>2, <3>1, <3>2, <3>3, LoopStep DEF CreateRow
  <2> QED
    BY <2>1, <2>2
<1> QED
  BY <1>5, <1>7 DEF CreateRow, IInv, TypeOK, bounds, history

\* A failure turns the copy into its rollback.
LEMMA CopyFailsPreserves ==
    ASSUME IInv, NEW w \in Workers, CopyFails(w)
    PROVE  IInv'
<1>1. job[w].pc \in InPC /\ job[w].pc \in CopyPC
  BY DEF CopyFails, InPC, ReadPC, CopyPC
<1>2. job[w] \in Job /\ job[w].tid # None
  BY <1>1, InsideFacts DEF Shape
<1> DEFINE X == [job[w] EXCEPT !.pc = "undo", !.fresh = FALSE, !.todo = << >>]
<1>3. job' = [job EXCEPT ![w] = X]
  BY DEF CopyFails
<1>4. X \in Job /\ X.pc = "undo" /\ X.tid = job[w].tid
      /\ X.req = job[w].req /\ X.rule = job[w].rule /\ X.kind = job[w].kind
      /\ X.rest = job[w].rest /\ X.snap = job[w].snap /\ X.touched = job[w].touched
  <2>1. << >> \in Seq(Paths)
    BY EmptySeq
  <2> QED
    BY <1>2, <2>1 DEF Job, CopyPC
<1>5. X.pc \in CopyPC
  BY <1>4 DEF CopyPC
<1>6. job' \in [Workers -> Job] /\ JobsOK' /\ LockInv'
  <2> HIDE DEF X
  <2> QED
    BY <1>1, <1>2, <1>3, <1>4, <1>5, LoopStep DEF CopyFails
<1> QED
  BY <1>6 DEF CopyFails, IInv, TypeOK, target, bounds, history

\* A failure that is counted stays within its bound.
LEMMA FaultCounted ==
    ASSUME IInv, Fault
    PROVE  faults' \in 0 .. MaxFaults
BY PromotionAssumption DEF IInv, TypeOK, Fault

\* A row of the target goes, or its delete fails.
LEMMA UndoRowPreserves ==
    ASSUME IInv, NEW w \in Workers, UndoRow(w)
    PROVE  IInv'
<1>1. job[w].pc = "undo" /\ job[w].pc \in InPC /\ job[w].pc \in CopyPC
  BY DEF UndoRow, InPC, ReadPC, CopyPC
<1>2. job[w] \in Job /\ job[w].tid # None /\ Comp(w) \in Comps /\ job[w].rows # << >>
  BY <1>1, InsideFacts DEF Shape, UndoRow
<1> DEFINE N == Tail(job[w].rows)
           X == [job[w] EXCEPT !.rows = N]
<1>3. job' = [job EXCEPT ![w] = X]
  BY DEF UndoRow
<1>4. N \in Seq(Paths \X Ids)
  BY <1>2, HeadTailProperties DEF Job
<1>5. X \in Job /\ X.pc = "undo" /\ X.tid = job[w].tid
      /\ X.req = job[w].req /\ X.rule = job[w].rule /\ X.kind = job[w].kind
      /\ X.rest = job[w].rest /\ X.snap = job[w].snap /\ X.touched = job[w].touched
  <2> HIDE DEF N
  <2> QED
    BY <1>1, <1>2, <1>4 DEF Job
<1>6. job' \in [Workers -> Job] /\ JobsOK' /\ LockInv'
  <2>1. UNCHANGED <<rule, clean, req, locked>>
    BY DEF UndoRow
  <2>2. X.pc \in CopyPC /\ X.pc \notin {"fresh", "put", "row"} /\ X.tid # None
    BY <1>1, <1>2, <1>5
  <2> HIDE DEF X
  <2> QED
    BY <1>1, <1>3, <1>5, <2>1, <2>2, LoopStep
<1>7. trow' \in [Paths -> TargetRow \cup {None}] /\ marred' \subseteq Comps
      /\ faults' \in 0 .. MaxFaults
  BY <1>2, FaultCounted DEF UndoRow, IInv, TypeOK
<1> QED
  BY <1>6, <1>7 DEF UndoRow, IInv, TypeOK

\* An object of the target goes, or its delete fails.
LEMMA UndoBlobPreserves ==
    ASSUME IInv, NEW w \in Workers, UndoBlob(w)
    PROVE  IInv'
<1>1. job[w].pc = "undo" /\ job[w].pc \in InPC /\ job[w].pc \in CopyPC
  BY DEF UndoBlob, InPC, ReadPC, CopyPC
<1>2. job[w] \in Job /\ job[w].tid # None /\ job[w].blobs # << >>
  BY <1>1, InsideFacts DEF Shape, UndoBlob
<1> DEFINE N == Tail(job[w].blobs)
           X == [job[w] EXCEPT !.blobs = N]
<1>3. job' = [job EXCEPT ![w] = X]
  BY DEF UndoBlob
<1>4. N \in Seq(Paths)
  BY <1>2, HeadTailProperties DEF Job
<1>5. X \in Job /\ X.pc = "undo" /\ X.tid = job[w].tid
      /\ X.req = job[w].req /\ X.rule = job[w].rule /\ X.kind = job[w].kind
      /\ X.rest = job[w].rest /\ X.snap = job[w].snap /\ X.touched = job[w].touched
  <2> HIDE DEF N
  <2> QED
    BY <1>1, <1>2, <1>4 DEF Job
<1>6. job' \in [Workers -> Job] /\ JobsOK' /\ LockInv'
  <2>1. UNCHANGED <<rule, clean, req, locked>>
    BY DEF UndoBlob
  <2>2. X.pc \in CopyPC /\ X.pc \notin {"fresh", "put", "row"} /\ X.tid # None
    BY <1>1, <1>2, <1>5
  <2> HIDE DEF X
  <2> QED
    BY <1>1, <1>3, <1>5, <2>1, <2>2, LoopStep
<1>7. tblob' \subseteq Paths /\ faults' \in 0 .. MaxFaults
  BY FaultCounted DEF UndoBlob, IInv, TypeOK
<1> QED
  BY <1>6, <1>7 DEF UndoBlob, IInv, TypeOK, history

\* The rollback looks whether the component is empty.
LEMMA UndoListPreserves ==
    ASSUME IInv, NEW w \in Workers, UndoList(w)
    PROVE  IInv'
<1>1. job[w].pc = "undo" /\ job[w].pc \in InPC /\ job[w].pc \in CopyPC
  BY DEF UndoList, InPC, ReadPC, CopyPC
<1>2. job[w] \in Job /\ job[w].tid # None /\ Comp(w) \in Comps
  BY <1>1, InsideFacts DEF Shape
<1> DEFINE X == [job[w] EXCEPT !.pc = "undoComp"]
<1>3. job' = [job EXCEPT ![w] = X] \/ job' = [job EXCEPT ![w] = Returned(w, FALSE)]
  BY DEF UndoList
<1>4. X \in Job /\ X.pc = "undoComp" /\ X.tid = job[w].tid
      /\ X.req = job[w].req /\ X.rule = job[w].rule /\ X.kind = job[w].kind
      /\ X.rest = job[w].rest /\ X.snap = job[w].snap /\ X.touched = job[w].touched
  BY <1>2 DEF Job, CopyPC
<1>5. X.pc \in CopyPC
  BY <1>4 DEF CopyPC
<1>6. job' \in [Workers -> Job] /\ JobsOK' /\ LockInv'
  <2>1. UNCHANGED <<rule, clean, req, locked>>
    BY DEF UndoList
  <2>2. CASE job' = [job EXCEPT ![w] = Returned(w, FALSE)]
    BY <1>1, <2>1, <2>2, ReturnPreserves
  <2>3. CASE job' = [job EXCEPT ![w] = X]
    <3> HIDE DEF X
    <3> QED
      BY <1>1, <1>2, <1>4, <1>5, <2>1, <2>3, LoopStep DEF CopyPC
  <2> QED
    BY <1>3, <2>2, <2>3
<1>7. marred' \subseteq Comps /\ faults' \in 0 .. MaxFaults
  BY <1>2, FaultCounted DEF UndoList, IInv, TypeOK
<1> QED
  BY <1>6, <1>7 DEF UndoList, IInv, TypeOK, target

\* The component goes with its rows, or its delete fails.
LEMMA UndoComponentPreserves ==
    ASSUME IInv, NEW w \in Workers, UndoComponent(w)
    PROVE  IInv'
<1>1. job[w].pc \in InPC /\ job' = [job EXCEPT ![w] = Returned(w, FALSE)]
  BY DEF UndoComponent, InPC, ReadPC, CopyPC
<1>2. Comp(w) \in Comps
  BY <1>1, InsideFacts
<1>3. job' \in [Workers -> Job] /\ JobsOK' /\ LockInv'
  BY <1>1, ReturnPreserves DEF UndoComponent
<1>4. tcomp' \in [Comps -> Ids \cup {None}] /\ trow' \in [Paths -> TargetRow \cup {None}]
      /\ marred' \subseteq Comps /\ faults' \in 0 .. MaxFaults
  BY <1>2, FaultCounted DEF UndoComponent, IInv, TypeOK
<1> QED
  BY <1>3, <1>4 DEF UndoComponent, IInv, TypeOK

-----------------------------------------------------------------------------
(* Rules and scans                                                         *)

\* A change of a gate is remembered by every job that has read its rule, which is
\* all that the invariants need; requests may go with their rule unless locked.
LEMMA TouchPreserves ==
    ASSUME IInv, Touch, UNCHANGED locked,
           \A r \in Requests : req'[r] = req[r] \/ (req'[r] = None /\ locked[r] = None)
    PROVE  job' \in [Workers -> Job] /\ JobsOK' /\ LockInv'
<1>1. ASSUME NEW w \in Workers
      PROVE  /\ job'[w] \in Job /\ job'[w].pc = job[w].pc /\ job'[w].kind = job[w].kind
             /\ job'[w].rest = job[w].rest /\ job'[w].req = job[w].req
             /\ job'[w].rule = job[w].rule /\ job'[w].todo = job[w].todo
             /\ job'[w].tid = job[w].tid /\ job'[w].snap = job[w].snap
             /\ job[w].snap # None => job'[w].touched
  <2>1. job[w] \in Job
    BY DEF IInv, TypeOK
  <2>2. CASE job[w].snap = None
    BY <2>1, <2>2 DEF Touch
  <2>3. CASE job[w].snap # None
    <3>1. job'[w] = [job[w] EXCEPT !.touched = TRUE]
      BY <2>3 DEF Touch
    <3> QED
      BY ZenonT(60), <2>1, <2>3, <3>1 DEF Job
  <2> QED
    BY <2>2, <2>3
<1>2. job' \in [Workers -> Job]
  <2>1. job' = [w \in Workers |-> job'[w]]
    BY DEF Touch
  <2> QED
    BY <1>1, <2>1
<1>3. ASSUME NEW w \in Workers
      PROVE  Shape(job[w])' /\ SameRule(job[w])' /\ Gate(job[w])'
  <2>1. Shape(job[w]) /\ SameRule(job[w]) /\ Gate(job[w]) /\ job[w] \in Job
    BY DEF IInv, JobsOK, TypeOK
  <2>2. Shape(job[w])'
    BY <1>1, <2>1 DEF Shape
  <2>3. SameRule(job[w])'
    BY <1>1, <2>1 DEF SameRule, Job
  <2>4. Gate(job[w])'
    BY <1>1, <2>1, PromotionAssumption DEF Gate
  <2> QED
    BY <2>2, <2>3, <2>4
<1>4. LockInv'
  <2>1. ASSUME NEW r \in Requests, locked'[r] # None
        PROVE  job'[locked'[r]].req = r /\ job'[locked'[r]].pc \in InPC
    <3>1. locked[r] \in Workers
      BY <2>1 DEF IInv, TypeOK
    <3> QED
      BY <1>1, <2>1, <3>1 DEF IInv, LockInv
  <2>2. ASSUME NEW w \in Workers, job'[w].pc \in InPC
        PROVE  locked'[job'[w].req] = w /\ Pending(job[w].req)'
    <3>1. job[w].pc \in InPC
      BY <1>1, <2>2
    <3>2. locked[job[w].req] = w /\ Pending(job[w].req) /\ job[w].req \in Requests
      BY <3>1, InsideFacts DEF IInv, LockInv
    <3>3. req'[job[w].req] = req[job[w].req]
      BY <3>2, PromotionAssumption
    <3> QED
      BY <1>1, <3>2, <3>3 DEF Pending
  <2> QED
    BY <2>1, <2>2 DEF LockInv
<1> QED
  BY <1>2, <1>3, <1>4 DEF JobsOK

\* A rule is created or edited.
LEMMA SaveRulePreserves ==
    ASSUME IInv, NEW i \in Rules, SaveRule(i)
    PROVE  IInv'
<1>1. job' \in [Workers -> Job] /\ JobsOK' /\ LockInv'
  BY TouchPreserves DEF SaveRule
<1>2. rule' \in [Rules -> Rule \cup {None}] /\ edits' \in 0 .. MaxEdits
  BY PromotionAssumption DEF SaveRule, IInv, TypeOK
<1> QED
  BY <1>1, <1>2 DEF SaveRule, IInv, TypeOK, target, history

\* A rule goes with its requests, none of which is being settled.
LEMMA DeleteRulePreserves ==
    ASSUME IInv, NEW i \in Rules, DeleteRule(i)
    PROVE  IInv'
<1>1. \A r \in Requests : req'[r] = req[r] \/ (req'[r] = None /\ locked[r] = None)
  BY DEF DeleteRule
<1>2. job' \in [Workers -> Job] /\ JobsOK' /\ LockInv'
  BY <1>1, TouchPreserves DEF DeleteRule
<1>3. rule' \in [Rules -> Rule \cup {None}] /\ edits' \in 0 .. MaxEdits
      /\ req' \in [Requests -> Request \cup {None}]
  BY PromotionAssumption DEF DeleteRule, IInv, TypeOK
<1> QED
  BY <1>2, <1>3 DEF DeleteRule, IInv, TypeOK, target, history

\* A scan reports.
LEMMA ScanReportPreserves ==
    ASSUME IInv, NEW c \in Comps, ScanReport(c)
    PROVE  IInv'
<1>1. job' \in [Workers -> Job] /\ JobsOK' /\ LockInv'
  BY TouchPreserves DEF ScanReport
<1>2. clean' \subseteq Comps /\ edits' \in 0 .. MaxEdits
  BY PromotionAssumption DEF ScanReport, IInv, TypeOK
<1> QED
  BY <1>1, <1>2 DEF ScanReport, IInv, TypeOK, target, history

-----------------------------------------------------------------------------
(* Filing and settling                                                     *)

\* A step outside of the lock, of a job that was outside, disturbs nobody.
LEMMA OutsideStep ==
    ASSUME IInv, NEW w \in Workers, NEW X \in Job, job' = [job EXCEPT ![w] = X],
           UNCHANGED <<rule, clean, req, locked>>,
           job[w].pc \notin InPC, X.pc \notin InPC, Shape(X), SameRule(X), Gate(X)
    PROVE  job' \in [Workers -> Job] /\ JobsOK' /\ LockInv'
<1>1. /\ job' \in [Workers -> Job] /\ job'[w] = X
      /\ \A v \in Workers \ {w} : job'[v] = job[v]
  BY OneJob DEF IInv, TypeOK
<1>2. ASSUME NEW v \in Workers
      PROVE  Shape(job[v])' /\ SameRule(job[v])' /\ Gate(job[v])'
  <2>1. CASE v = w
    BY <1>1, <2>1 DEF Shape, SameRule, Gate, Applies, ScanPasses
  <2>2. CASE v # w
    <3>1. Shape(job[v]) /\ SameRule(job[v]) /\ Gate(job[v]) /\ job'[v] = job[v]
      BY <1>1, <2>2 DEF IInv, JobsOK
    <3> QED
      BY <3>1 DEF Shape, SameRule, Gate, Applies, ScanPasses
  <2> QED
    BY <2>1, <2>2
<1>3. LockInv'
  <2>1. ASSUME NEW r \in Requests, locked'[r] # None
        PROVE  job'[locked'[r]].req = r /\ job'[locked'[r]].pc \in InPC
    <3>1. locked[r] \in Workers /\ locked[r] # w
      BY <2>1 DEF IInv, TypeOK, LockInv
    <3> QED
      BY <1>1, <2>1, <3>1 DEF IInv, LockInv
  <2>2. ASSUME NEW v \in Workers, job'[v].pc \in InPC
        PROVE  locked'[job'[v].req] = v /\ Pending(job[v].req)'
    BY <1>1, <2>2 DEF IInv, LockInv, Pending
  <2> QED
    BY <2>1, <2>2 DEF LockInv
<1> QED
  BY <1>1, <1>2, <1>3 DEF JobsOK

\* A batch that passed its checks is ready to be filed.
LEMMA PromotePreserves ==
    ASSUME IInv, NEW w \in Workers, NEW i \in Rules, NEW b \in Batches, Promote(w, i, b)
    PROVE  IInv'
<1> DEFINE m == rule[i].manual
           X == Outside("create", "promote", b, m, None, i)
<1>1. job' = [job EXCEPT ![w] = X] /\ m \in BOOLEAN /\ b \in Seq(Comps)
  BY PromotionAssumption DEF Promote, IInv, TypeOK, Rule
<1>2. X = [pc |-> "create", kind |-> "promote", rest |-> b, manual |-> m, req |-> None,
           rule |-> i, snap |-> None, tid |-> None, todo |-> << >>, fresh |-> FALSE,
           rows |-> << >>, blobs |-> << >>, ok |-> FALSE, touched |-> FALSE]
  <2> HIDE DEF m
  <2> QED
    BY DEF Outside
<1>3. X \in Job /\ Shape(X) /\ SameRule(X) /\ Gate(X)
  <2>1. X \in Job
    <3> HIDE DEF m, X
    <3> QED
      BY <1>1, <1>2, EmptySeq DEF Job
  <2> HIDE DEF m, X
  <2> QED
    BY <1>2, <2>1 DEF Shape, SameRule, Gate, ReadPC, CopyPC
<1>4. X.pc \notin InPC /\ job[w].pc \notin InPC
  BY <1>2 DEF Promote, InPC, ReadPC, CopyPC
<1>5. job' \in [Workers -> Job] /\ JobsOK' /\ LockInv'
  <2> HIDE DEF X
  <2> QED
    BY <1>1, <1>3, <1>4, OutsideStep DEF Promote
<1> QED
  BY <1>5 DEF Promote, IInv, TypeOK, target, bounds, history

\* The batch ends.
LEMMA PromoteEndsPreserves ==
    ASSUME IInv, NEW w \in Workers, PromoteEnds(w)
    PROVE  IInv'
<1>1. job[w].pc \notin InPC /\ Idle.pc \notin InPC
  BY IdleJob DEF PromoteEnds, InPC, ReadPC, CopyPC
<1>2. job' \in [Workers -> Job] /\ JobsOK' /\ LockInv'
  BY <1>1, IdleJob, OutsideStep DEF PromoteEnds
<1> QED
  BY <1>2 DEF PromoteEnds, IInv, TypeOK, target, bounds, history

\* A reviewer names a request.
LEMMA ReviewPreserves ==
    ASSUME IInv, NEW w \in Workers, NEW k \in {"approve", "reject"}, NEW r \in Requests,
           Review(w, k, r)
    PROVE  IInv'
<1> DEFINE i == req[r].rule
           X == Outside("lock", k, << >>, FALSE, r, i)
<1>1. job' = [job EXCEPT ![w] = X] /\ i \in Rules
  BY DEF Review, IInv, TypeOK, Request
<1>2. X = [pc |-> "lock", kind |-> k, rest |-> << >>, manual |-> FALSE, req |-> r,
           rule |-> i, snap |-> None, tid |-> None, todo |-> << >>, fresh |-> FALSE,
           rows |-> << >>, blobs |-> << >>, ok |-> FALSE, touched |-> FALSE]
  <2> HIDE DEF i
  <2> QED
    BY DEF Outside
<1>3. X \in Job /\ Shape(X) /\ SameRule(X) /\ Gate(X)
  <2>1. X \in Job
    <3> HIDE DEF i, X
    <3> QED
      BY <1>1, <1>2, EmptySeq DEF Job
  <2>2. Shape(X) /\ Gate(X)
    <3> HIDE DEF i, X
    <3> QED
      BY <1>1, <1>2, <2>1 DEF Shape, Gate, ReadPC, CopyPC
  <2>3. SameRule(X)
    <3>1. X.req = r /\ X.rule = i
      BY DEF Outside
    <3> QED
      BY <3>1 DEF SameRule
  <2> QED
    BY <2>1, <2>2, <2>3
<1>4. X.pc \notin InPC /\ job[w].pc \notin InPC
  BY DEF Outside, Review, InPC, ReadPC, CopyPC
<1>5. job' \in [Workers -> Job] /\ JobsOK' /\ LockInv'
  <2> HIDE DEF X
  <2> QED
    BY <1>1, <1>3, <1>4, OutsideStep DEF Review
<1> QED
  BY <1>5 DEF Review, IInv, TypeOK, target, bounds, history

\* A step that may change requests and locks: it leaves the other jobs' requests
\* with their rules, those being settled as they are, and their locks.
LEMMA RequestStep ==
    ASSUME IInv, NEW w \in Workers, NEW X \in Job, job' = [job EXCEPT ![w] = X],
           UNCHANGED <<rule, clean>>,
           Shape(job[w])', SameRule(job[w])', Gate(job[w])',
           \A v \in Workers \ {w} :
              /\ job[v].req \in Requests /\ req'[job[v].req] # None =>
                    /\ req[job[v].req] # None
                    /\ req'[job[v].req].rule = req[job[v].req].rule
              /\ job[v].pc \in InPC =>
                    req'[job[v].req] = req[job[v].req] /\ locked'[job[v].req] = v,
           \A r \in Requests : locked'[r] # None =>
              \/ locked'[r] = w /\ X.req = r /\ X.pc \in InPC
              \/ locked'[r] # w /\ locked'[r] = locked[r],
           X.pc \in InPC => locked'[X.req] = w /\ Pending(job[w].req)'
    PROVE  job' \in [Workers -> Job] /\ JobsOK' /\ LockInv'
<1>1. /\ job' \in [Workers -> Job] /\ job'[w] = X
      /\ \A v \in Workers \ {w} : job'[v] = job[v]
  BY OneJob DEF IInv, TypeOK
<1>2. ASSUME NEW v \in Workers
      PROVE  Shape(job[v])' /\ SameRule(job[v])' /\ Gate(job[v])'
  <2>1. CASE v = w
    BY <2>1
  <2>2. CASE v # w
    <3>1. Shape(job[v]) /\ SameRule(job[v]) /\ Gate(job[v]) /\ job'[v] = job[v]
          /\ job[v] \in Job
      BY <1>1, <2>2 DEF IInv, JobsOK, TypeOK
    <3>2. SameRule(job[v])'
      BY <2>2, <3>1 DEF SameRule, Job
    <3>3. Gate(job[v])'
      <4>1. CASE job[v].pc \in ReadPC
        <5>1. req'[job[v].req] = req[job[v].req]
          BY <2>2, <4>1 DEF InPC
        <5> QED
          BY <3>1, <5>1 DEF Gate, Applies, ScanPasses
      <4>2. CASE job[v].pc \notin ReadPC
        BY <3>1, <4>2 DEF Gate
      <4> QED
        BY <4>1, <4>2
    <3> QED
      BY <3>1, <3>2, <3>3 DEF Shape
  <2> QED
    BY <2>1, <2>2
<1>3. LockInv'
  <2>1. ASSUME NEW r \in Requests, locked'[r] # None
        PROVE  job'[locked'[r]].req = r /\ job'[locked'[r]].pc \in InPC
    <3>1. CASE locked'[r] = w
      BY <1>1, <2>1, <3>1
    <3>2. CASE locked'[r] # w
      <4>1. locked'[r] = locked[r] /\ locked[r] \in Workers \ {w}
        BY <2>1, <3>2 DEF IInv, TypeOK
      <4> QED
        BY <1>1, <2>1, <4>1 DEF IInv, LockInv
    <3> QED
      BY <3>1, <3>2
  <2>2. ASSUME NEW v \in Workers, job'[v].pc \in InPC
        PROVE  locked'[job'[v].req] = v /\ Pending(job[v].req)'
    <3>1. CASE v = w
      BY <1>1, <2>2, <3>1
    <3>2. CASE v # w
      <4>1. job'[v] = job[v] /\ Pending(job[v].req)
        BY <1>1, <2>2, <3>2 DEF IInv, LockInv
      <4> QED
        BY <2>2, <3>2, <4>1 DEF Pending
    <3> QED
      BY <3>1, <3>2
  <2> QED
    BY <2>1, <2>2 DEF LockInv
<1> QED
  BY <1>1, <1>2, <1>3 DEF JobsOK

\* The new request has no other job; the batch goes on with it, or with the next.
LEMMA CreateRequestPreserves ==
    ASSUME IInv, NEW w \in Workers, NEW r \in Requests, CreateRequest(w, r)
    PROVE  IInv'
<1> DEFINE N == [rule |-> job[w].rule, comp |-> Head(job[w].rest), status |-> "pending"]
           L == [job[w] EXCEPT !.pc = "lock", !.req = r]
           X == IF job[w].manual THEN Proceed(w) ELSE L
<1>1. job[w] \in Job /\ Shape(job[w]) /\ job[w].pc = "create" /\ job[w].rest # << >>
      /\ job[w].kind = "promote" /\ job[w].rule \in Rules
  BY DEF CreateRequest, IInv, TypeOK, JobsOK, Shape
<1>2. N \in Request
  <2>1. Head(job[w].rest) \in Comps
    BY <1>1, HeadTailProperties DEF Job
  <2> QED
    BY <1>1, <2>1 DEF Request
<1>3. req' = [req EXCEPT ![r] = N] /\ req' \in [Requests -> Request \cup {None}]
      /\ req'[r] = N /\ \A q \in Requests \ {r} : req'[q] = req[q]
  <2> HIDE DEF N
  <2>1. req' = [req EXCEPT ![r] = N]
    BY DEF CreateRequest, N
  <2> QED
    BY <1>2, <2>1 DEF IInv, TypeOK
<1>4. L \in Job /\ L.pc = "lock" /\ L.req = r /\ L.rule = job[w].rule
      /\ L.kind = job[w].kind /\ L.rest = job[w].rest
  BY <1>1 DEF Job
<1>5. Proceed(w) \in Job /\ Proceed(w).pc \in {"idle", "create"} /\ Proceed(w).req = None
      /\ Shape(Proceed(w))
  BY <1>1, ProceedJob
<1>6. X \in Job /\ X.pc \in {"idle", "create", "lock"} /\ Shape(X)
      /\ (X.req = None \/ (X.req = r /\ X.rule = job[w].rule))
  <2>1. CASE job[w].manual
    BY <1>5, <2>1
  <2>2. CASE ~job[w].manual
    <3>1. Shape(L)
      <4> HIDE DEF L
      <4> QED
        BY <1>1, <1>4 DEF Shape, CopyPC
    <3> HIDE DEF L
    <3>2. X = L
      BY <2>2
    <3> QED
      BY <1>4, <3>1, <3>2
  <2> QED
    BY <2>1, <2>2
<1>7. job' = [job EXCEPT ![w] = X]
  BY DEF CreateRequest
<1> HIDE DEF X, L
<1>8. job'[w] = X /\ X.pc \notin InPC
  BY <1>6, <1>7, OneJob DEF IInv, TypeOK, InPC, ReadPC, CopyPC
<1>9. Shape(job[w])' /\ SameRule(job[w])' /\ Gate(job[w])'
  <2>1. Shape(job[w])' /\ Gate(job[w])'
    BY <1>6, <1>8 DEF Shape, Gate, InPC
  <2>2. SameRule(job[w])'
    BY <1>3, <1>6, <1>8 DEF SameRule
  <2> QED
    BY <2>1, <2>2
<1>10. ASSUME NEW v \in Workers \ {w}
       PROVE  /\ job[v].req \in Requests /\ req'[job[v].req] # None =>
                    /\ req[job[v].req] # None
                    /\ req'[job[v].req].rule = req[job[v].req].rule
              /\ job[v].pc \in InPC =>
                    req'[job[v].req] = req[job[v].req] /\ locked'[job[v].req] = v
  <2>1. job[v].req # r
    BY DEF CreateRequest
  <2> QED
    BY <1>3, <2>1, InsideFacts DEF CreateRequest
<1>11. \A q \in Requests : locked'[q] # None =>
          \/ locked'[q] = w /\ X.req = q /\ X.pc \in InPC
          \/ locked'[q] # w /\ locked'[q] = locked[q]
  BY <1>1 DEF CreateRequest, IInv, LockInv, InPC, ReadPC, CopyPC
<1>12. job' \in [Workers -> Job] /\ JobsOK' /\ LockInv'
  <2>1. UNCHANGED <<rule, clean>>
    BY DEF CreateRequest
  <2>2. X \in Job /\ (X.pc \in InPC => locked'[X.req] = w /\ Pending(job[w].req)')
    BY <1>6, <1>8
  <2> QED
    BY <1>7, <1>9, <1>10, <1>11, <2>1, <2>2, RequestStep
<1> QED
  BY <1>3, <1>12 DEF CreateRequest, IInv, TypeOK, target, bounds, history

\* The lock is taken of a pending request, and refused of any other.
LEMMA EnterPreserves ==
    ASSUME IInv, NEW w \in Workers, Enter(w)
    PROVE  IInv'
<1> DEFINE r == job[w].req
           p == IF job[w].kind = "reject" THEN "settle" ELSE "rule"
           X == [job[w] EXCEPT !.pc = p]
<1>1. job[w] \in Job /\ Shape(job[w]) /\ SameRule(job[w]) /\ job[w].pc = "lock"
      /\ r \in Requests /\ locked[r] = None /\ job[w].pc \notin InPC
  BY DEF Enter, IInv, TypeOK, JobsOK, Shape, InPC, ReadPC, CopyPC
<1>2. CASE ~Pending(r)
  <2>1. job' = [job EXCEPT ![w] = Proceed(w)] /\ UNCHANGED <<rule, clean, req, locked>>
    BY <1>2 DEF Enter
  <2>2. Proceed(w) \in Job /\ Proceed(w).pc \in {"idle", "create"}
        /\ Shape(Proceed(w)) /\ SameRule(Proceed(w)) /\ Gate(Proceed(w))
    BY <1>1, ProceedJob DEF Shape
  <2>3. Proceed(w).pc \notin InPC
    BY <2>2 DEF InPC, ReadPC, CopyPC
  <2>4. job' \in [Workers -> Job] /\ JobsOK' /\ LockInv'
    BY <1>1, <2>1, <2>2, <2>3, OutsideStep
  <2> QED
    BY <2>1, <2>4 DEF Enter, IInv, TypeOK, target, bounds, history
<1>3. CASE Pending(r)
  <2>1. job' = [job EXCEPT ![w] = X] /\ locked' = [locked EXCEPT ![r] = w]
        /\ UNCHANGED <<rule, clean, req>>
    BY <1>3 DEF Enter
  <2>2. X \in Job /\ X.pc \in {"settle", "rule"} /\ X.req = r /\ X.rule = job[w].rule
        /\ X.kind = job[w].kind /\ X.rest = job[w].rest
    <3>1. p \in {"settle", "rule"}
      OBVIOUS
    <3> HIDE DEF p
    <3> QED
      BY ZenonT(60), <1>1, <3>1 DEF Job
  <2> HIDE DEF X
  <2>3. job'[w] = X /\ X.pc \in InPC
    BY <2>1, <2>2, OneJob DEF IInv, TypeOK, InPC
  <2>4. Shape(job[w])' /\ SameRule(job[w])' /\ Gate(job[w])'
    <3>1. Shape(job[w])' /\ Gate(job[w])'
      BY <1>1, <2>2, <2>3 DEF Shape, Gate, ReadPC, CopyPC
    <3>2. SameRule(job[w])'
      BY <1>1, <2>1, <2>2, <2>3 DEF SameRule
    <3> QED
      BY <3>1, <3>2
  <2>5. locked'[r] = w /\ \A q \in Requests \ {r} : locked'[q] = locked[q] /\ locked[q] # w
    BY <1>1, <2>1, PromotionAssumption DEF IInv, TypeOK, LockInv
  <2>6. ASSUME NEW v \in Workers \ {w}
        PROVE  /\ job[v].req \in Requests /\ req'[job[v].req] # None =>
                    /\ req[job[v].req] # None
                    /\ req'[job[v].req].rule = req[job[v].req].rule
               /\ job[v].pc \in InPC =>
                    req'[job[v].req] = req[job[v].req] /\ locked'[job[v].req] = v
    <3>1. ASSUME job[v].pc \in InPC
          PROVE  locked[job[v].req] = v /\ job[v].req \in Requests \ {r}
      BY <1>1, <3>1, InsideFacts, PromotionAssumption
    <3> QED
      BY <2>1, <2>5, <3>1
  <2>7. \A q \in Requests : locked'[q] # None =>
          \/ locked'[q] = w /\ X.req = q /\ X.pc \in InPC
          \/ locked'[q] # w /\ locked'[q] = locked[q]
    BY <2>2, <2>3, <2>5
  <2>8. job' \in [Workers -> Job] /\ JobsOK' /\ LockInv'
    <3>1. X.pc \in InPC => locked'[X.req] = w /\ Pending(job[w].req)'
      BY <1>3, <2>1, <2>2, <2>3, <2>5 DEF Pending
    <3>2. UNCHANGED <<rule, clean>> /\ job' = [job EXCEPT ![w] = X] /\ X \in Job
      BY <2>1, <2>2
    <3> QED
      BY <2>4, <2>6, <2>7, <3>1, <3>2, RequestStep
  <2>9. locked' \in [Requests -> Workers \cup {None}]
    BY <2>1 DEF IInv, TypeOK
  <2> QED
    BY <2>1, <2>8, <2>9 DEF Enter, IInv, TypeOK, target, bounds, history
<1> QED
  BY <1>2, <1>3

\* The outcome is written, or not, and the lock is free.
LEMMA SettlePreserves ==
    ASSUME IInv, NEW w \in Workers, Settle(w)
    PROVE  IInv'
<1> DEFINE r == job[w].req
           X == Proceed(w)
<1>1. job[w].pc = "settle" /\ job[w].pc \in InPC
  BY DEF Settle, InPC
<1>2. job[w] \in Job /\ r \in Requests /\ req[r] \in Request /\ locked[r] = w
      /\ Shape(job[w])
  BY <1>1, InsideFacts
<1>3. PICK o \in Settled \cup {"pending"} : req' = [req EXCEPT ![r].status = o]
  <2>1. CASE UNCHANGED req
    <3>1. req[r].status = "pending"
      BY <1>1, InsideFacts
    <3>2. [req EXCEPT ![r].status = "pending"] = req
      BY <1>2, <3>1 DEF IInv, TypeOK, Request
    <3> QED
      BY <2>1, <3>2
  <2>2. CASE ~UNCHANGED req
    BY <2>2 DEF Settle, Settled
  <2> QED
    BY <2>1, <2>2
<1>4. req'[r] \in Request /\ req'[r].rule = req[r].rule
      /\ (\A q \in Requests \ {r} : req'[q] = req[q])
      /\ req' \in [Requests -> Request \cup {None}]
  BY <1>2, <1>3 DEF IInv, TypeOK, Request
<1>5. job' = [job EXCEPT ![w] = X] /\ locked' = [locked EXCEPT ![r] = None]
      /\ UNCHANGED <<rule, clean>>
  BY DEF Settle
<1>6. X \in Job /\ X.pc \in {"idle", "create"} /\ X.req = None /\ Shape(X)
  BY <1>1, <1>2, ProceedJob DEF Shape
<1> HIDE DEF X
<1>7. job'[w] = X /\ X.pc \notin InPC
  BY <1>5, <1>6, OneJob DEF IInv, TypeOK, InPC, ReadPC, CopyPC
<1>8. Shape(job[w])' /\ SameRule(job[w])' /\ Gate(job[w])'
  BY <1>6, <1>7 DEF Shape, SameRule, Gate, InPC
<1>9. locked'[r] = None /\ \A q \in Requests \ {r} : locked'[q] = locked[q] /\ locked[q] # w
  <2>1. \A q \in Requests : locked[q] = w => q = r
    BY PromotionAssumption DEF IInv, LockInv
  <2> QED
    BY <1>2, <1>5, <2>1 DEF IInv, TypeOK
<1>10. ASSUME NEW v \in Workers \ {w}
       PROVE  /\ job[v].req \in Requests /\ req'[job[v].req] # None =>
                    /\ req[job[v].req] # None
                    /\ req'[job[v].req].rule = req[job[v].req].rule
              /\ job[v].pc \in InPC =>
                    req'[job[v].req] = req[job[v].req] /\ locked'[job[v].req] = v
  <2>1. req[r] # None
    BY <1>2, PromotionAssumption
  <2>2. ASSUME job[v].pc \in InPC
        PROVE  job[v].req \in Requests \ {r} /\ locked[job[v].req] = v
    BY <1>2, <2>2, InsideFacts
  <2> QED
    BY <1>4, <1>9, <2>1, <2>2
<1>11. job' \in [Workers -> Job] /\ JobsOK' /\ LockInv'
  <2>1. \A q \in Requests : locked'[q] # None =>
          \/ locked'[q] = w /\ X.req = q /\ X.pc \in InPC
          \/ locked'[q] # w /\ locked'[q] = locked[q]
    BY <1>9
  <2>2. X \in Job /\ UNCHANGED <<rule, clean>> /\ job' = [job EXCEPT ![w] = X]
        /\ (X.pc \in InPC => locked'[X.req] = w /\ Pending(job[w].req)')
    BY <1>5, <1>6, <1>7
  <2> QED
    BY <1>8, <1>10, <2>1, <2>2, RequestStep
<1>12. locked' \in [Requests -> Workers \cup {None}]
  BY <1>5 DEF IInv, TypeOK
<1>13. faults' \in 0 .. MaxFaults
  BY FaultCounted DEF Settle, IInv, TypeOK
<1> QED
  BY <1>4, <1>11, <1>12, <1>13 DEF Settle, IInv, TypeOK, target, history

\* A crash frees the worker's lock.
LEMMA CrashPreserves ==
    ASSUME IInv, NEW w \in Workers, Crash(w)
    PROVE  IInv'
<1>1. job' = [job EXCEPT ![w] = Idle] /\ UNCHANGED <<rule, clean, req>>
      /\ locked' = [r \in Requests |-> IF locked[r] = w THEN None ELSE locked[r]]
  BY DEF Crash
<1>2. job'[w] = Idle /\ Idle.pc \notin InPC
  BY <1>1, IdleJob, OneJob DEF IInv, TypeOK, InPC, ReadPC, CopyPC
<1>3. Shape(job[w])' /\ SameRule(job[w])' /\ Gate(job[w])'
  BY <1>2, IdleJob DEF Shape, SameRule, Gate, ReadPC, CopyPC
<1>4. \A r \in Requests : locked'[r] # None => locked'[r] # w /\ locked'[r] = locked[r]
  BY <1>1
<1>5. ASSUME NEW v \in Workers \ {w}, job[v].pc \in InPC
      PROVE  locked'[job[v].req] = v
  BY <1>1, <1>5, InsideFacts
<1>6. job' \in [Workers -> Job] /\ JobsOK' /\ LockInv'
  BY <1>1, <1>2, <1>3, <1>4, <1>5, IdleJob, RequestStep
<1>7. locked' \in [Requests -> Workers \cup {None}] /\ marred' \subseteq Comps
      /\ faults' \in 0 .. MaxFaults
  BY <1>1, FaultCounted DEF Crash, IInv, TypeOK
<1> QED
  BY <1>6, <1>7 DEF Crash, IInv, TypeOK, target

-----------------------------------------------------------------------------
(* The theorems                                                            *)

\* At the start nobody works and nothing is locked.
LEMMA InitEstablishes == Init => IInv
<1> SUFFICES ASSUME Init PROVE IInv
  OBVIOUS
<1>1. TypeOK
  BY PromotionAssumption, IdleJob DEF Init, TypeOK
<1>2. JobsOK
  BY IdleJob DEF Init, JobsOK
<1>3. LockInv
  BY IdleJob DEF Init, LockInv, InPC, ReadPC, CopyPC
<1> QED
  BY <1>1, <1>2, <1>3 DEF IInv

\* Every step, and stuttering, preserves the invariant.
LEMMA NextPreserves == IInv /\ [Next]_vars => IInv'
<1> SUFFICES ASSUME IInv, [Next]_vars PROVE IInv'
  OBVIOUS
<1>1. CASE UNCHANGED vars
  BY <1>1 DEF vars, target, bounds, history, IInv, TypeOK, JobsOK, LockInv, Shape, SameRule,
              Gate, Applies, ScanPasses, Pending
<1>2. ASSUME NEW i \in Rules, SaveRule(i) \/ DeleteRule(i)
      PROVE  IInv'
  BY <1>2, SaveRulePreserves, DeleteRulePreserves
<1>3. ASSUME NEW c \in Comps, ScanReport(c)
      PROVE  IInv'
  BY <1>3, ScanReportPreserves
<1>4. ASSUME NEW w \in Workers, NEW i \in Rules, NEW b \in Batches, Promote(w, i, b)
      PROVE  IInv'
  BY <1>4, PromotePreserves
<1>5. ASSUME NEW w \in Workers, NEW k \in {"approve", "reject"}, NEW r \in Requests,
             Review(w, k, r)
      PROVE  IInv'
  BY <1>5, ReviewPreserves
<1>6. ASSUME NEW w \in Workers, Step(w)
      PROVE  IInv'
  BY <1>6, PromoteEndsPreserves, CreateRequestPreserves, EnterPreserves, ReadRulePreserves,
     CheckAppliesPreserves, CheckScanPreserves, CheckFailsPreserves, UpsertComponentPreserves,
     CheckFreshPreserves, PutBlobPreserves, CreateRowPreserves, CopyFailsPreserves,
     UndoRowPreserves, UndoBlobPreserves, UndoListPreserves, UndoComponentPreserves,
     SettlePreserves
  DEF Step
<1>7. ASSUME NEW w \in Workers, Crash(w)
      PROVE  IInv'
  BY <1>7, CrashPreserves
<1> QED
  BY <1>1, <1>2, <1>3, <1>4, <1>5, <1>6, <1>7 DEF Next

\* The invariant holds throughout.
LEMMA Invariance == Spec => []IInv
BY InitEstablishes, NextPreserves, PTL DEF Spec

\* Rules, requests, row locks, the target's rows and the locals of every running
\* promotion keep their types: a request is pending, rejected, completed or failed
\* and never merely approved, and a copy never works with an id it has not read.
THEOREM TypeCorrect == Spec => []TypeOK
<1>1. IInv => TypeOK
  BY DEF IInv
<1> QED
  BY <1>1, Invariance, PTL

\* No gate is routed around, for any number of rules, components, requests and
\* workers: what executeCopy writes, it writes for a component that the request's
\* rule alone covers and whose scan passes, however long the request was pending,
\* unless a rule or a scan changed after the request's row was locked.
THEOREM GatesHold == Spec => []NoBypass
<1>1. ASSUME IInv, NEW w \in Workers, job[w].pc \in CopyPC, ~job[w].touched
      PROVE  LET i == req[job[w].req].rule IN
             /\ rule[i] # None
             /\ \A j \in Rules : rule[j] # None => (Comp(w) \in rule[j].covers <=> j = i)
             /\ ScanPasses(rule[i], Comp(w))
  <2>1. job[w].pc \in InPC /\ job[w].pc \in ReadPC /\ job[w].pc \notin {"applies", "scan"}
    BY <1>1 DEF InPC, ReadPC, CopyPC
  <2>2. req[job[w].req].rule = job[w].rule /\ Gate(job[w]) /\ job[w].rule \in Rules
    BY <1>1, <2>1, InsideFacts
  <2>3. /\ job[w].snap \in Rule /\ rule[job[w].rule] = job[w].snap
        /\ Applies(job[w].snap, job[w].rule, Comp(w)) /\ ScanPasses(job[w].snap, Comp(w))
    BY <1>1, <2>1, <2>2 DEF Gate, Comp
  <2> QED
    BY <2>2, <2>3, PromotionAssumption DEF Applies
<1>2. IInv => NoBypass
  BY <1>1 DEF NoBypass
<1> QED
  BY <1>2, Invariance, PTL

\* The first verdict on a request stands: rejected, completed or failed it stays
\* so until its rule is deleted, whatever approvals and rejections still run; and a
\* request whose row is locked is not deleted under the copy.
THEOREM VerdictStands == Spec => FirstVerdictStands
<1> DEFINE Stands(r) ==
        /\ req[r] # None /\ req[r].status \in Settled => req'[r] \in {req[r], None}
        /\ locked[r] # None => req'[r] # None
<1>1. ASSUME IInv, [Next]_vars, NEW r \in Requests
      PROVE  Stands(r)
  <2>1. locked[r] # None => req[r] # None /\ req[r].status = "pending"
    <3> SUFFICES ASSUME locked[r] # None PROVE Pending(r)
      BY DEF Pending
    <3> QED
      <4>1. locked[r] \in Workers
        BY <1>1 DEF IInv, TypeOK
      <4> QED
        BY <1>1, <4>1 DEF IInv, LockInv
  <2>2. CASE req'[r] = req[r]
    BY <2>1, <2>2
  <2>3. CASE req'[r] # req[r]
    <3>1. CASE \E i \in Rules : DeleteRule(i)
      BY <2>3, <3>1 DEF DeleteRule
    <3>2. CASE \E w \in Workers : \E q \in Requests : CreateRequest(w, q)
      <4>1. PICK w \in Workers, q \in Requests : CreateRequest(w, q)
        BY <3>2
      <4>2. r = q
        BY <2>3, <4>1 DEF CreateRequest, IInv, TypeOK
      <4>3. req[r] = None
        BY <4>1, <4>2 DEF CreateRequest
      <4> QED
        BY <2>1, <4>3
    <3>3. CASE \E w \in Workers : Settle(w)
      <4>1. PICK w \in Workers : Settle(w)
        BY <3>3
      <4>2. job[w].pc \in InPC
        BY <4>1 DEF Settle, InPC
      <4>3. r = job[w].req
        BY <1>1, <2>3, <4>1, <4>2, InsideFacts DEF Settle, IInv, TypeOK
      <4>4. req[r] \in Request /\ req[r].status = "pending"
        BY <1>1, <4>2, <4>3, InsideFacts
      <4>5. req'[r] # None
        <5>1. PICK o \in Settled : req' = [req EXCEPT ![r].status = o]
          BY <2>3, <4>1, <4>3 DEF Settle, Settled
        <5>2. req'[r] \in Request
          BY <1>1, <4>4, <5>1 DEF IInv, TypeOK, Request
        <5> QED
          BY <5>2, PromotionAssumption
      <4> QED
        BY <4>4, <4>5 DEF Settled
    <3>4. \/ \E i \in Rules : DeleteRule(i)
          \/ \E w \in Workers : (\E q \in Requests : CreateRequest(w, q)) \/ Settle(w)
      BY ZenonT(60), <1>1, <2>3 DEF Next, vars, Step, SaveRule, ScanReport, Promote, Review, PromoteEnds,
         Enter, ReadRule, CheckApplies, CheckScan, CheckFails, UpsertComponent, CheckFresh,
         PutBlob, CreateRow, CopyFails, UndoRow, UndoBlob, UndoList, UndoComponent, Crash
    <3> QED
      BY <3>1, <3>2, <3>3, <3>4
  <2> QED
    BY <2>2, <2>3
<1>2. IInv /\ [Next]_vars => [\A r \in Requests : Stands(r)]_vars
  BY <1>1
<1>3. IInv /\ [Next]_vars =>
        [\A r \in Requests :
            /\ req[r] # None /\ req[r].status \in Settled => req'[r] \in {req[r], None}
            /\ locked[r] # None => req'[r] # None]_vars
  BY <1>2
<1> QED
  BY <1>3, Invariance, PTL DEF Spec, FirstVerdictStands

-----------------------------------------------------------------------------
(* What copies and rollbacks leave in the target                           *)

\* The elements of a sequence.
Ran(s) == {s[n] : n \in DOMAIN s}

\* What executeCopy's variables are at each step, for a job that copies c.
JobOK(j, c) ==
    /\ j.pc # "settle" => ~j.ok
    /\ j.pc \notin CopyPC => j.rows = << >> /\ j.blobs = << >> /\ ~j.fresh
    /\ j.pc = "upsert" => j.todo = AssetsOf[c]
    /\ j.pc \in CopyPC =>
        /\ PathsOf(c) # {}
        /\ Ran(j.todo) \subseteq PathsOf(c) /\ Ran(j.blobs) \subseteq PathsOf(c)
        /\ \A x \in Ran(j.rows) : x[1] \in PathsOf(c)
    /\ j.pc = "undoComp" => j.rows = << >>

\* The rows of the target belong to the component of their path, and an id to one
\* component, the one whose copy holds it.
RowsOK ==
    /\ \A p \in Paths : trow[p] # None =>
            \E c \in Comps : p \in PathsOf(c) /\ tcomp[c] = trow[p].comp
    /\ \A c, d \in Comps : tcomp[c] # None /\ tcomp[c] = tcomp[d] => c = d
    /\ \A w \in Workers : job[w].pc \in CopyPC =>
            \A c \in Comps : tcomp[c] = job[w].tid => c = Comp(w)

Present(c) == \A p \in PathsOf(c) : trow[p] # None /\ p \in tblob
Nothing(c) == tcomp[c] = None /\ \A p \in PathsOf(c) : trow[p] = None
Whole(c) == tcomp[c] # None /\ Present(c)

\* A copy of the component has come to its end.
Done(c) ==
    \/ \E r \in Requests : req[r] # None /\ req[r].status = "completed" /\ req[r].comp = c
    \/ \E w \in Workers : job[w].pc = "settle" /\ job[w].ok /\ Comp(w) = c

\* Two jobs are at the same point of a copy.
SameCopy(i, j) ==
    /\ i.pc = j.pc /\ i.tid = j.tid /\ i.todo = j.todo /\ i.fresh = j.fresh
    /\ i.rows = j.rows /\ i.blobs = j.blobs

\* A copy that found everything there has nothing to undo.
Quiet(j, c) == Present(c) /\ j.rows = << >> /\ j.blobs = << >> /\ ~j.fresh /\ j.pc # "undoComp"
\* A copy that found nothing there has noted every row there is.
Tracked(j, c) == \A p \in PathsOf(c) : trow[p] # None => <<p, trow[p].id>> \in Ran(j.rows)

CopierOK(j, c) ==
    /\ tcomp[c] = j.tid
    /\ j.pc \in {"fresh", "put", "row"} =>
            \A p \in PathsOf(c) : p \in Ran(j.todo) \/ (trow[p] # None /\ p \in tblob)
    /\ j.pc = "row" => Head(j.todo) \in tblob
    /\ j.pc \in {"put", "row"} => (j.fresh <=> trow[Head(j.todo)] = None)
    /\ Done(c) => Quiet(j, c)
    /\ c \notin marred => Quiet(j, c) \/ Tracked(j, c)

ComponentOK(c) ==
    c \notin overlapped =>
        /\ \A v, w \in Workers : Copying(v, c) /\ Copying(w, c) => v = w
        /\ \A w \in Workers : Copying(w, c) => CopierOK(job[w], c)
        /\ Done(c) => Present(c)
        /\ c \notin marred /\ (\A w \in Workers : ~Copying(w, c)) => Nothing(c) \/ Whole(c)

JobsCopyOK == \A w \in Workers : JobOK(job[w], Comp(w))
CopyInv == JobsCopyOK /\ RowsOK /\ \A c \in Comps : ComponentOK(c)

-----------------------------------------------------------------------------
(* Facts about the copies                                                  *)

\* The elements of a sequence that gets one more at its end, or loses its head.
LEMMA RanFacts ==
    ASSUME NEW S, NEW s \in Seq(S)
    PROVE  /\ Ran(<< >>) = {}
           /\ \A x \in S : Ran(Append(s, x)) = Ran(s) \cup {x}
           /\ s # << >> => /\ Head(s) \in S /\ Tail(s) \in Seq(S)
                           /\ Ran(s) = {Head(s)} \cup Ran(Tail(s))
<1>1. Ran(<< >>) = {}
  BY DEF Ran
<1>2. ASSUME NEW x \in S
      PROVE  Ran(Append(s, x)) = Ran(s) \cup {x}
  BY AppendProperties DEF Ran
<1>3. ASSUME s # << >>
      PROVE  /\ Head(s) \in S /\ Tail(s) \in Seq(S)
             /\ Ran(s) = {Head(s)} \cup Ran(Tail(s))
  <2>1. /\ Head(s) \in S /\ Tail(s) \in Seq(S) /\ Len(s) \in Nat /\ Len(s) # 0
        /\ Head(s) = s[1] /\ Len(Tail(s)) = Len(s) - 1
        /\ \A i \in 1 .. Len(Tail(s)) : Tail(s)[i] = s[i + 1]
    BY <1>3, HeadTailProperties, EmptySeq
  <2>2. DOMAIN s = 1 .. Len(s) /\ DOMAIN Tail(s) = 1 .. Len(Tail(s))
    BY <2>1
  <2>3. ASSUME NEW x \in Ran(s)
        PROVE  x \in {Head(s)} \cup Ran(Tail(s))
    <3>1. PICK i \in 1 .. Len(s) : x = s[i]
      BY <2>2 DEF Ran
    <3>2. CASE i = 1
      BY <2>1, <3>1, <3>2
    <3>3. CASE i # 1
      <4>1. i - 1 \in 1 .. Len(Tail(s)) /\ Tail(s)[i - 1] = s[(i - 1) + 1] /\ (i - 1) + 1 = i
        BY <2>1, <3>1, <3>3
      <4> QED
        BY <2>2, <3>1, <4>1 DEF Ran
    <3> QED
      BY <3>2, <3>3
  <2>4. ASSUME NEW x \in {Head(s)} \cup Ran(Tail(s))
        PROVE  x \in Ran(s)
    <3>1. CASE x = Head(s)
      BY <2>1, <2>2, <3>1 DEF Ran
    <3>2. CASE x \in Ran(Tail(s))
      <4>1. PICK i \in 1 .. Len(Tail(s)) : x = Tail(s)[i]
        BY <2>2, <3>2 DEF Ran
      <4>2. i + 1 \in 1 .. Len(s) /\ x = s[i + 1]
        BY <2>1, <4>1
      <4> QED
        BY <2>2, <4>2 DEF Ran
    <3> QED
      BY <3>1, <3>2
  <2> QED
    BY <2>1, <2>3, <2>4
<1> QED
  BY <1>1, <1>2, <1>3

\* The paths of a component are those it lists, and no other's.
LEMMA PathFacts ==
    ASSUME NEW c \in Comps
    PROVE  /\ PathsOf(c) = Ran(AssetsOf[c]) /\ PathsOf(c) \subseteq Paths
           /\ \A d \in Comps, p \in PathsOf(c) : p \in PathsOf(d) => d = c
<1>1. AssetsOf[c] \in Seq(Paths)
  BY PromotionAssumption
<1>2. PathsOf(c) = Ran(AssetsOf[c])
  BY DEF PathsOf, Ran
<1>3. PathsOf(c) \subseteq Paths
  BY <1>1, <1>2 DEF Ran
<1> QED
  BY <1>2, <1>3, PromotionAssumption

\* A row of a component's path has the component's id.
LEMMA Owner ==
    ASSUME RowsOK, NEW c \in Comps, NEW p \in PathsOf(c), trow[p] # None
    PROVE  tcomp[c] = trow[p].comp
BY PathFacts DEF RowsOK

\* The next path of a copy is one of its component's.
LEMMA NextPath ==
    ASSUME IInv, CopyInv, NEW w \in Workers, job[w].pc \in {"fresh", "put", "row"}
    PROVE  Head(job[w].todo) \in PathsOf(Comp(w))
<1>1. job[w].pc \in CopyPC /\ job[w].pc \in InPC
  BY DEF CopyPC, InPC, ReadPC
<1>2. job[w].todo \in Seq(Paths) /\ job[w].todo # << >>
  BY <1>1, InsideFacts DEF Shape, Job
<1>3. Ran(job[w].todo) \subseteq PathsOf(Comp(w))
  BY <1>1 DEF CopyInv, JobsCopyOK, JobOK
<1> QED
  BY <1>2, <1>3, RanFacts

\* Nothing that the copies of a component depend on changes.
LEMMA Frame ==
    ASSUME IInv, CopyInv, NEW c \in Comps, tcomp'[c] = tcomp[c],
           \A p \in PathsOf(c) : trow'[p] = trow[p] /\ (p \in tblob' <=> p \in tblob),
           overlapped \subseteq overlapped', marred \subseteq marred',
           \A v \in Workers : Copying(v, c)' <=> Copying(v, c),
           \A v \in Workers : Copying(v, c) => SameCopy(job'[v], job[v]),
           Done(c)' => Done(c)
    PROVE  ComponentOK(c)'
<1> SUFFICES ASSUME c \notin overlapped'
             PROVE  ComponentOK(c)'
  BY DEF ComponentOK
<1>1. /\ \A v, w \in Workers : Copying(v, c) /\ Copying(w, c) => v = w
      /\ \A w \in Workers : Copying(w, c) => CopierOK(job[w], c)
      /\ Done(c) => Present(c)
      /\ c \notin marred /\ (\A w \in Workers : ~Copying(w, c)) => Nothing(c) \/ Whole(c)
  BY DEF CopyInv, ComponentOK
<1>2. (Present(c)' <=> Present(c)) /\ (Nothing(c)' <=> Nothing(c)) /\ (Whole(c)' <=> Whole(c))
  BY DEF Present, Nothing, Whole
<1>3. ASSUME NEW w \in Workers, Copying(w, c)'
      PROVE  CopierOK(job[w], c)'
  <2>1. Copying(w, c) /\ CopierOK(job[w], c) /\ SameCopy(job'[w], job[w])
    BY <1>1, <1>3
  <2>2. job[w].pc \in {"put", "row"} => Head(job[w].todo) \in PathsOf(c)
    BY <2>1, NextPath DEF Copying
  <2>3. (Quiet(job[w], c)' <=> Quiet(job[w], c)) /\ (Tracked(job[w], c)' <=> Tracked(job[w], c))
    BY <1>2, <2>1 DEF Quiet, Tracked, SameCopy
  <2>4. /\ tcomp'[c] = job'[w].tid
        /\ job'[w].pc \in {"fresh", "put", "row"} =>
            \A p \in PathsOf(c) : p \in Ran(job'[w].todo) \/ (trow'[p] # None /\ p \in tblob')
    BY <2>1 DEF CopierOK, SameCopy
  <2>5. /\ job'[w].pc = "row" => Head(job'[w].todo) \in tblob'
        /\ job'[w].pc \in {"put", "row"} => (job'[w].fresh <=> trow'[Head(job'[w].todo)] = None)
    BY <2>1, <2>2 DEF CopierOK, SameCopy
  <2>6. /\ Done(c)' => Quiet(job[w], c)'
        /\ c \notin marred' => Quiet(job[w], c)' \/ Tracked(job[w], c)'
    BY <2>1, <2>3 DEF CopierOK
  <2> QED
    BY <2>4, <2>5, <2>6 DEF CopierOK
<1> QED
  BY <1>1, <1>2, <1>3 DEF ComponentOK

\* A step of one worker that keeps its request: whose copies there are then.
LEMMA WorkerStep ==
    ASSUME IInv, NEW w \in Workers, NEW X \in Job, job' = [job EXCEPT ![w] = X],
           req' = req, X.req = job[w].req
    PROVE  /\ job'[w] = X /\ \A v \in Workers \ {w} : job'[v] = job[v]
           /\ \A v \in Workers : Comp(v)' = Comp(v)
           /\ \A v \in Workers \ {w}, c \in Comps : Copying(v, c)' <=> Copying(v, c)
           /\ \A c \in Comps : Copying(w, c)' <=> X.pc \in CopyPC /\ Comp(w) = c
           /\ \A c \in Comps : Done(c)' => Done(c) \/ (X.pc = "settle" /\ X.ok /\ Comp(w) = c)
<1>1. job'[w] = X /\ \A v \in Workers \ {w} : job'[v] = job[v]
  BY OneJob DEF IInv, TypeOK
<1>2. \A v \in Workers : Comp(v)' = Comp(v)
  BY <1>1 DEF Comp
<1>3. \A v \in Workers \ {w}, c \in Comps : Copying(v, c)' <=> Copying(v, c)
  BY <1>1, <1>2 DEF Copying
<1>4. \A c \in Comps : Copying(w, c)' <=> X.pc \in CopyPC /\ Comp(w) = c
  BY <1>1, <1>2 DEF Copying
<1>5. \A c \in Comps : Done(c)' => Done(c) \/ (X.pc = "settle" /\ X.ok /\ Comp(w) = c)
  BY <1>1, <1>2 DEF Done
<1> QED
  BY <1>1, <1>2, <1>3, <1>4, <1>5

\* Such a step of a copy leaves the other components alone.
LEMMA OtherComponent ==
    ASSUME IInv, CopyInv, NEW w \in Workers, NEW X \in Job, job' = [job EXCEPT ![w] = X],
           req' = req, X.req = job[w].req, NEW c \in Comps, c # Comp(w),
           tcomp'[c] = tcomp[c],
           \A p \in PathsOf(c) : trow'[p] = trow[p] /\ (p \in tblob' <=> p \in tblob),
           overlapped \subseteq overlapped', marred \subseteq marred'
    PROVE  ComponentOK(c)'
<1>1. /\ job'[w] = X /\ \A v \in Workers \ {w} : job'[v] = job[v]
      /\ \A v \in Workers \ {w}, d \in Comps : Copying(v, d)' <=> Copying(v, d)
      /\ \A d \in Comps : Copying(w, d)' <=> X.pc \in CopyPC /\ Comp(w) = d
      /\ \A d \in Comps : Done(d)' => Done(d) \/ (X.pc = "settle" /\ X.ok /\ Comp(w) = d)
  BY WorkerStep
<1>2. \A v \in Workers : Copying(v, c)' <=> Copying(v, c)
  BY <1>1 DEF Copying
<1>3. \A v \in Workers : Copying(v, c) => SameCopy(job'[v], job[v])
  BY <1>1 DEF Copying, SameCopy
<1> QED
  BY <1>1, <1>2, <1>3, Frame

\* Its own component: the copy goes on.
LEMMA Stays ==
    ASSUME IInv, CopyInv, NEW w \in Workers, NEW X \in Job, job' = [job EXCEPT ![w] = X],
           req' = req, X.req = job[w].req, job[w].pc \in CopyPC, X.pc \in CopyPC,
           NEW c \in Comps, c = Comp(w), overlapped' = overlapped,
           c \notin overlapped => CopierOK(job[w], c)'
    PROVE  ComponentOK(c)'
<1> SUFFICES ASSUME c \notin overlapped
             PROVE  ComponentOK(c)'
  BY DEF ComponentOK
<1>1. /\ \A v \in Workers \ {w}, d \in Comps : Copying(v, d)' <=> Copying(v, d)
      /\ \A d \in Comps : Copying(w, d)' <=> X.pc \in CopyPC /\ Comp(w) = d
  BY WorkerStep
<1>2. Copying(w, c) /\ Copying(w, c)'
  BY <1>1 DEF Copying
<1>3. \A v \in Workers : Copying(v, c) => v = w
  BY <1>2 DEF CopyInv, ComponentOK
<1>4. \A v \in Workers : Copying(v, c)' => v = w
  BY <1>1, <1>3
<1>5. Done(c)' => Present(c)'
  BY DEF CopierOK, Quiet
<1> QED
  BY <1>2, <1>4, <1>5 DEF ComponentOK

\* Or it ends.
LEMMA Leaves ==
    ASSUME IInv, CopyInv, NEW w \in Workers, NEW X \in Job, job' = [job EXCEPT ![w] = X],
           req' = req, X.req = job[w].req, job[w].pc \in CopyPC, X.pc \notin CopyPC,
           NEW c \in Comps, c = Comp(w), overlapped' = overlapped,
           c \notin overlapped => /\ Done(c)' => Present(c)'
                                  /\ c \notin marred' => Nothing(c)' \/ Whole(c)'
    PROVE  ComponentOK(c)'
<1> SUFFICES ASSUME c \notin overlapped
             PROVE  ComponentOK(c)'
  BY DEF ComponentOK
<1>1. /\ \A v \in Workers \ {w}, d \in Comps : Copying(v, d)' <=> Copying(v, d)
      /\ \A d \in Comps : Copying(w, d)' <=> X.pc \in CopyPC /\ Comp(w) = d
  BY WorkerStep
<1>2. Copying(w, c)
  BY DEF Copying
<1>3. \A v \in Workers : Copying(v, c) => v = w
  BY <1>2 DEF CopyInv, ComponentOK
<1>4. \A v \in Workers : ~Copying(v, c)'
  BY <1>1, <1>3
<1> QED
  BY <1>4 DEF ComponentOK

\* The other jobs stay as they should be.
LEMMA JobsStay ==
    ASSUME IInv, CopyInv, NEW w \in Workers, NEW X \in Job, job' = [job EXCEPT ![w] = X],
           req' = req, X.req = job[w].req, JobOK(X, Comp(w))
    PROVE  JobsCopyOK'
<1>1. /\ job'[w] = X /\ \A v \in Workers \ {w} : job'[v] = job[v]
      /\ \A v \in Workers : Comp(v)' = Comp(v)
  BY WorkerStep
<1>2. ASSUME NEW v \in Workers
      PROVE  JobOK(job'[v], Comp(v)')
  <2>1. CASE v = w
    BY <1>1, <2>1
  <2>2. CASE v # w
    <3>1. job'[v] = job[v] /\ Comp(v)' = Comp(v) /\ JobOK(job[v], Comp(v))
      BY <1>1, <2>2 DEF CopyInv, JobsCopyOK
    <3> QED
      BY <3>1
  <2> QED
    BY <2>1, <2>2
<1> QED
  BY <1>2 DEF JobsCopyOK

\* No row comes, no component comes or goes, and no copy takes up an id.
LEMMA RowsStay ==
    ASSUME RowsOK, tcomp' = tcomp,
           \A p \in Paths : trow'[p] # None => trow'[p] = trow[p],
           \A v \in Workers : job'[v].pc \in CopyPC =>
                job[v].pc \in CopyPC /\ job'[v].tid = job[v].tid /\ Comp(v)' = Comp(v)
    PROVE  RowsOK'
BY DEF RowsOK

-----------------------------------------------------------------------------
(* The steps of a copy                                                     *)

\* What is known of a job in the middle of a copy.
LEMMA CopierFacts ==
    ASSUME IInv, CopyInv, NEW w \in Workers, job[w].pc \in CopyPC
    PROVE  /\ job[w] \in Job /\ job[w].pc \in InPC /\ job[w].tid \in Ids /\ job[w].tid # None
           /\ Comp(w) \in Comps /\ JobOK(job[w], Comp(w)) /\ Copying(w, Comp(w))
           /\ Comp(w) \notin overlapped =>
                /\ CopierOK(job[w], Comp(w))
                /\ \A v \in Workers : Copying(v, Comp(w)) => v = w
<1>1. job[w].pc \in InPC
  BY DEF InPC, ReadPC
<1>2. job[w] \in Job /\ Comp(w) \in Comps /\ job[w].tid # None
  BY <1>1, InsideFacts DEF Shape
<1>3. job[w].tid \in Ids
  BY <1>2 DEF Job
<1>4. JobOK(job[w], Comp(w)) /\ Copying(w, Comp(w))
  BY DEF CopyInv, JobsCopyOK, Copying
<1> QED
  BY <1>1, <1>2, <1>3, <1>4 DEF CopyInv, ComponentOK

\* The copy looks whether the path is new: what was there before is left out of
\* its rollback.
LEMMA CheckFreshCopyInv ==
    ASSUME IInv, CopyInv, NEW w \in Workers, CheckFresh(w)
    PROVE  CopyInv'
<1>1. job[w].pc = "fresh" /\ job[w].pc \in CopyPC
  BY DEF CheckFresh, CopyPC
<1>2. PICK c \in Comps : c = Comp(w)
  BY <1>1, CopierFacts
<1>3. job[w] \in Job /\ JobOK(job[w], c) /\ (c \notin overlapped => CopierOK(job[w], c))
  BY <1>1, <1>2, CopierFacts
<1>4. PICK f \in BOOLEAN : f = (trow[Head(job[w].todo)] = None)
  OBVIOUS
<1>5. PICK X : X = [job[w] EXCEPT !.pc = "put", !.fresh = f]
  OBVIOUS
<1>6. job' = [job EXCEPT ![w] = X] /\ req' = req /\ tcomp' = tcomp /\ trow' = trow /\ tblob' = tblob
      /\ overlapped' = overlapped /\ marred' = marred
  BY <1>4, <1>5 DEF CheckFresh, target, history
<1>7. /\ X \in Job /\ X.pc = "put" /\ X.req = job[w].req /\ X.tid = job[w].tid
      /\ X.todo = job[w].todo /\ X.rows = job[w].rows /\ X.blobs = job[w].blobs
      /\ X.ok = job[w].ok /\ X.fresh = f
  BY <1>3, <1>5 DEF Job, CopyPC
<1>8. X.pc \in CopyPC
  BY <1>7 DEF CopyPC
<1>9. Head(job[w].todo) \in PathsOf(c)
  BY <1>1, <1>2, NextPath
<1>10. job'[w] = X /\ (\A v \in Workers \ {w} : job'[v] = job[v]) /\ (\A v \in Workers : Comp(v)' = Comp(v))
       /\ \A d \in Comps : Done(d)' => Done(d)
  BY <1>6, <1>7, WorkerStep
<1>11. ASSUME c \notin overlapped
       PROVE  CopierOK(job[w], c)'
  <2>1. CopierOK(job[w], c)
    BY <1>3, <1>11
  <2>2. Quiet(job[w], c) => Quiet(job[w], c)'
    BY <1>4, <1>6, <1>7, <1>9, <1>10 DEF Quiet, Present
  <2>3. Tracked(job[w], c) => Tracked(job[w], c)'
    BY <1>6, <1>7, <1>10 DEF Tracked
  <2> QED
    BY ZenonT(60), <1>4, <1>6, <1>7, <1>10, <1>1, <2>1, <2>2, <2>3 DEF CopierOK
<1>12. ComponentOK(c)'
  BY <1>1, <1>2, <1>6, <1>7, <1>8, <1>11, Stays
<1>13. ASSUME NEW d \in Comps, d # c
       PROVE  ComponentOK(d)'
  BY <1>2, <1>6, <1>7, <1>13, OtherComponent
<1>14. JobsCopyOK'
  <2>1. JobOK(X, c)
    BY <1>3, <1>1, <1>7, <1>8 DEF JobOK
  <2> QED
    BY <1>2, <1>6, <1>7, <2>1, JobsStay
<1>15. RowsOK'
  BY <1>1, <1>6, <1>7, <1>10, RowsStay DEF CopyInv
<1> QED
  BY <1>12, <1>13, <1>14, <1>15 DEF CopyInv

\* The object is there.
LEMMA PutBlobCopyInv ==
    ASSUME IInv, CopyInv, NEW w \in Workers, PutBlob(w)
    PROVE  CopyInv'
<1>1. job[w].pc = "put" /\ job[w].pc \in CopyPC
  BY DEF PutBlob, CopyPC
<1>2. PICK c \in Comps : c = Comp(w)
  BY <1>1, CopierFacts
<1>3. job[w] \in Job /\ JobOK(job[w], c) /\ (c \notin overlapped => CopierOK(job[w], c))
  BY <1>1, <1>2, CopierFacts
<1>4. PICK p \in PathsOf(c) : p = Head(job[w].todo)
  BY <1>1, <1>2, NextPath
<1>5. PICK B : B = IF job[w].fresh THEN Append(job[w].blobs, p) ELSE job[w].blobs
  OBVIOUS
<1>6. PICK X : X = [job[w] EXCEPT !.pc = "row", !.blobs = B]
  OBVIOUS
<1>7. job[w].blobs \in Seq(Paths) /\ p \in Paths
  BY <1>3, <1>4, PathFacts DEF Job
<1>8. B \in Seq(Paths) /\ Ran(B) \subseteq Ran(job[w].blobs) \cup {p} /\ (~job[w].fresh => B = job[w].blobs)
  BY <1>5, <1>7, AppendProperties, RanFacts
<1>9. job' = [job EXCEPT ![w] = X] /\ req' = req /\ tcomp' = tcomp /\ trow' = trow
      /\ tblob' = tblob \cup {p} /\ overlapped' = overlapped /\ marred' = marred
  BY <1>4, <1>5, <1>6 DEF PutBlob, history
<1>10. /\ X \in Job /\ X.pc = "row" /\ X.req = job[w].req /\ X.tid = job[w].tid
       /\ X.todo = job[w].todo /\ X.rows = job[w].rows /\ X.blobs = B
       /\ X.ok = job[w].ok /\ X.fresh = job[w].fresh
  BY <1>3, <1>6, <1>8 DEF Job, CopyPC
<1>11. X.pc \in CopyPC
  BY <1>10 DEF CopyPC
<1>12. job'[w] = X /\ (\A v \in Workers \ {w} : job'[v] = job[v]) /\ (\A v \in Workers : Comp(v)' = Comp(v))
       /\ \A d \in Comps : Done(d)' => Done(d)
  BY <1>9, <1>10, WorkerStep
<1>13. ASSUME c \notin overlapped
       PROVE  CopierOK(job[w], c)'
  <2>1. CopierOK(job[w], c)
    BY <1>3, <1>13
  <2>2. Quiet(job[w], c) => Quiet(job[w], c)'
    BY <1>8, <1>9, <1>10, <1>12 DEF Quiet, Present
  <2>3. Tracked(job[w], c) => Tracked(job[w], c)'
    BY <1>9, <1>10, <1>12 DEF Tracked
  <2> QED
    BY <1>1, <1>4, <1>9, <1>10, <1>12, <2>1, <2>2, <2>3 DEF CopierOK
<1>14. ComponentOK(c)'
  BY <1>1, <1>2, <1>9, <1>10, <1>11, <1>13, Stays
<1>15. ASSUME NEW d \in Comps, d # c
       PROVE  ComponentOK(d)'
  <2>1. p \notin PathsOf(d)
    BY <1>4, <1>15, PathFacts
  <2> QED
    BY <1>2, <1>9, <1>10, <1>15, <2>1, OtherComponent
<1>16. JobsCopyOK'
  <2>1. JobOK(X, c)
    BY <1>1, <1>3, <1>8, <1>10, <1>11 DEF JobOK
  <2> QED
    BY <1>2, <1>9, <1>10, <2>1, JobsStay
<1>17. RowsOK'
  BY <1>1, <1>9, <1>10, <1>12, RowsStay DEF CopyInv
<1> QED
  BY <1>14, <1>15, <1>16, <1>17 DEF CopyInv

\* A call of the loop fails.
LEMMA CopyFailsCopyInv ==
    ASSUME IInv, CopyInv, NEW w \in Workers, CopyFails(w)
    PROVE  CopyInv'
<1>1. job[w].pc \in {"fresh", "put", "row"} /\ job[w].pc \in CopyPC
  BY DEF CopyFails, CopyPC
<1>2. PICK c \in Comps : c = Comp(w)
  BY <1>1, CopierFacts
<1>3. job[w] \in Job /\ JobOK(job[w], c) /\ (c \notin overlapped => CopierOK(job[w], c))
  BY <1>1, <1>2, CopierFacts
<1>4. PICK X : X = [job[w] EXCEPT !.pc = "undo", !.fresh = FALSE, !.todo = << >>]
  OBVIOUS
<1>5. job' = [job EXCEPT ![w] = X] /\ req' = req /\ tcomp' = tcomp /\ trow' = trow /\ tblob' = tblob
      /\ overlapped' = overlapped /\ marred' = marred
  BY <1>4 DEF CopyFails, target, history
<1>6. /\ X \in Job /\ X.pc = "undo" /\ X.req = job[w].req /\ X.tid = job[w].tid
      /\ X.todo = << >> /\ X.rows = job[w].rows /\ X.blobs = job[w].blobs
      /\ X.ok = job[w].ok /\ X.fresh = FALSE
  <2>1. << >> \in Seq(Paths)
    BY EmptySeq
  <2> QED
    BY <1>3, <1>4, <2>1 DEF Job, CopyPC
<1>7. X.pc \in CopyPC
  BY <1>6 DEF CopyPC
<1>8. job'[w] = X /\ (\A v \in Workers \ {w} : job'[v] = job[v]) /\ (\A v \in Workers : Comp(v)' = Comp(v))
      /\ \A d \in Comps : Done(d)' => Done(d)
  BY <1>5, <1>6, WorkerStep
<1>9. ASSUME c \notin overlapped
      PROVE  CopierOK(job[w], c)'
  <2>1. CopierOK(job[w], c)
    BY <1>3, <1>9
  <2>2. Quiet(job[w], c) => Quiet(job[w], c)'
    BY <1>5, <1>6, <1>8 DEF Quiet, Present
  <2>3. Tracked(job[w], c) => Tracked(job[w], c)'
    BY <1>5, <1>6, <1>8 DEF Tracked
  <2> QED
    BY <1>5, <1>6, <1>8, <2>1, <2>2, <2>3 DEF CopierOK
<1>10. ComponentOK(c)'
  BY <1>1, <1>2, <1>5, <1>6, <1>7, <1>9, Stays
<1>11. ASSUME NEW d \in Comps, d # c
       PROVE  ComponentOK(d)'
  BY <1>2, <1>5, <1>6, <1>11, OtherComponent
<1>12. JobsCopyOK'
  <2>1. JobOK(X, c)
    <3>1. Ran(<< >>) = {}
      BY DEF Ran
    <3> QED
      BY <1>1, <1>3, <1>6, <1>7, <3>1 DEF JobOK
  <2> QED
    BY <1>2, <1>5, <1>6, <2>1, JobsStay
<1>13. RowsOK'
  BY <1>1, <1>5, <1>6, <1>8, RowsStay DEF CopyInv
<1> QED
  BY <1>10, <1>11, <1>12, <1>13 DEF CopyInv

\* A row that this copy made goes; with a row that was noted, no other of the
\* component's goes, and none at all when everything was there before.
LEMMA UndoRowCopyInv ==
    ASSUME IInv, CopyInv, NEW w \in Workers, UndoRow(w)
    PROVE  CopyInv'
<1>1. job[w].pc = "undo" /\ job[w].pc \in CopyPC /\ job[w].rows # << >>
  BY DEF UndoRow, CopyPC
<1>2. PICK c \in Comps : c = Comp(w)
  BY <1>1, CopierFacts
<1>3. job[w] \in Job /\ JobOK(job[w], c) /\ (c \notin overlapped => CopierOK(job[w], c))
  BY <1>1, <1>2, CopierFacts
<1>4. PICK h, N : h = Head(job[w].rows) /\ N = Tail(job[w].rows)
  OBVIOUS
<1>5. /\ h \in Paths \X Ids /\ N \in Seq(Paths \X Ids) /\ Ran(job[w].rows) = {h} \cup Ran(N)
  BY <1>1, <1>3, <1>4, RanFacts DEF Job
<1>6. h[1] \in PathsOf(c)
  BY <1>1, <1>3, <1>5 DEF JobOK
<1>7. PICK X : X = [job[w] EXCEPT !.rows = N]
  OBVIOUS
<1>8. /\ job' = [job EXCEPT ![w] = X] /\ req' = req /\ tcomp' = tcomp /\ tblob' = tblob
      /\ overlapped' = overlapped /\ marred \subseteq marred'
      /\ \/ trow' = [p \in Paths |-> IF trow[p] # None /\ <<p, trow[p].id>> = h THEN None ELSE trow[p]]
         \/ trow' = trow /\ c \in marred'
  BY <1>2, <1>4, <1>7 DEF UndoRow
<1>9. \A p \in Paths : \/ trow'[p] = trow[p]
                       \/ trow'[p] = None /\ trow[p] # None /\ <<p, trow[p].id>> = h
  BY <1>8
<1>10. /\ X \in Job /\ X.pc = "undo" /\ X.req = job[w].req /\ X.tid = job[w].tid
       /\ X.todo = job[w].todo /\ X.rows = N /\ X.blobs = job[w].blobs
       /\ X.ok = job[w].ok /\ X.fresh = job[w].fresh
  BY <1>1, <1>3, <1>5, <1>7 DEF Job
<1>11. X.pc \in CopyPC
  BY <1>10 DEF CopyPC
<1>12. job'[w] = X /\ (\A v \in Workers \ {w} : job'[v] = job[v]) /\ (\A v \in Workers : Comp(v)' = Comp(v))
       /\ \A d \in Comps : Done(d)' => Done(d)
  BY <1>8, <1>10, WorkerStep
<1>13. ASSUME c \notin overlapped
       PROVE  CopierOK(job[w], c)'
  <2>1. CopierOK(job[w], c) /\ ~Quiet(job[w], c)
    BY <1>1, <1>3, <1>13 DEF Quiet
  <2>2. ~Done(c)'
    BY <1>12, <2>1 DEF CopierOK
  <2>3. c \notin marred' => Tracked(job[w], c)'
    <3> SUFFICES ASSUME c \notin marred', NEW p \in PathsOf(c), trow'[p] # None
                 PROVE  <<p, trow'[p].id>> \in Ran(job'[w].rows)
      BY DEF Tracked
    <3>1. Tracked(job[w], c) /\ p \in Paths
      BY <1>8, <2>1, PathFacts DEF CopierOK
    <3>2. trow'[p] = trow[p] /\ <<p, trow[p].id>> # h
      BY <1>8, <3>1
    <3>3. <<p, trow[p].id>> \in Ran(job[w].rows)
      BY <3>1, <3>2 DEF Tracked
    <3> QED
      BY <1>5, <1>10, <1>12, <3>2, <3>3
  <2> QED
    BY <1>8, <1>10, <1>12, <2>1, <2>2, <2>3 DEF CopierOK
<1>14. ComponentOK(c)'
  BY <1>1, <1>2, <1>8, <1>10, <1>11, <1>13, Stays
<1>15. ASSUME NEW d \in Comps, d # c
       PROVE  ComponentOK(d)'
  <2>1. \A p \in PathsOf(d) : p \in Paths /\ p # h[1]
    BY <1>6, <1>15, PathFacts
  <2>2. \A p \in PathsOf(d) : trow'[p] = trow[p]
    BY <1>9, <2>1
  <2> QED
    BY <1>2, <1>8, <1>10, <1>15, <2>2, OtherComponent
<1>16. JobsCopyOK'
  <2>1. JobOK(X, c)
    BY <1>1, <1>3, <1>5, <1>10, <1>11 DEF JobOK
  <2> QED
    BY <1>2, <1>8, <1>10, <2>1, JobsStay
<1>17. RowsOK'
  BY <1>1, <1>8, <1>9, <1>10, <1>12, RowsStay DEF CopyInv
<1> QED
  BY <1>14, <1>15, <1>16, <1>17 DEF CopyInv

\* An object that this copy put goes.
LEMMA UndoBlobCopyInv ==
    ASSUME IInv, CopyInv, NEW w \in Workers, UndoBlob(w)
    PROVE  CopyInv'
<1>1. job[w].pc = "undo" /\ job[w].pc \in CopyPC /\ job[w].blobs # << >> /\ job[w].rows = << >>
  BY DEF UndoBlob, CopyPC
<1>2. PICK c \in Comps : c = Comp(w)
  BY <1>1, CopierFacts
<1>3. job[w] \in Job /\ JobOK(job[w], c) /\ (c \notin overlapped => CopierOK(job[w], c))
  BY <1>1, <1>2, CopierFacts
<1>4. PICK h, N : h = Head(job[w].blobs) /\ N = Tail(job[w].blobs)
  OBVIOUS
<1>5. h \in Paths /\ N \in Seq(Paths) /\ Ran(job[w].blobs) = {h} \cup Ran(N)
  BY <1>1, <1>3, <1>4, RanFacts DEF Job
<1>6. h \in PathsOf(c)
  BY <1>1, <1>3, <1>5 DEF JobOK
<1>7. PICK X : X = [job[w] EXCEPT !.blobs = N]
  OBVIOUS
<1>8. /\ job' = [job EXCEPT ![w] = X] /\ req' = req /\ tcomp' = tcomp /\ trow' = trow
      /\ overlapped' = overlapped /\ marred' = marred
      /\ tblob' \in {tblob, tblob \ {h}}
  BY <1>4, <1>7 DEF UndoBlob, history
<1>9. /\ X \in Job /\ X.pc = "undo" /\ X.req = job[w].req /\ X.tid = job[w].tid
      /\ X.todo = job[w].todo /\ X.rows = job[w].rows /\ X.blobs = N
      /\ X.ok = job[w].ok /\ X.fresh = job[w].fresh
  BY <1>1, <1>3, <1>5, <1>7 DEF Job
<1>10. X.pc \in CopyPC
  BY <1>9 DEF CopyPC
<1>11. job'[w] = X /\ (\A v \in Workers \ {w} : job'[v] = job[v]) /\ (\A v \in Workers : Comp(v)' = Comp(v))
       /\ \A d \in Comps : Done(d)' => Done(d)
  BY <1>8, <1>9, WorkerStep
<1>12. ASSUME c \notin overlapped
       PROVE  CopierOK(job[w], c)'
  <2>1. CopierOK(job[w], c) /\ ~Quiet(job[w], c)
    BY <1>1, <1>3, <1>12 DEF Quiet
  <2>2. ~Done(c)'
    BY <1>11, <2>1 DEF CopierOK
  <2>3. c \notin marred' => Tracked(job[w], c)'
    BY <1>8, <1>9, <1>11, <2>1 DEF CopierOK, Tracked
  <2> QED
    BY <1>8, <1>9, <1>11, <2>1, <2>2, <2>3 DEF CopierOK
<1>13. ComponentOK(c)'
  BY <1>1, <1>2, <1>8, <1>9, <1>10, <1>12, Stays
<1>14. ASSUME NEW d \in Comps, d # c
       PROVE  ComponentOK(d)'
  <2>1. h \notin PathsOf(d)
    BY <1>6, <1>14, PathFacts
  <2> QED
    BY <1>2, <1>8, <1>9, <1>14, <2>1, OtherComponent
<1>15. JobsCopyOK'
  <2>1. JobOK(X, c)
    BY <1>1, <1>3, <1>5, <1>9, <1>10 DEF JobOK
  <2> QED
    BY <1>2, <1>8, <1>9, <2>1, JobsStay
<1>16. RowsOK'
  BY <1>1, <1>8, <1>9, <1>11, RowsStay DEF CopyInv
<1> QED
  BY <1>13, <1>14, <1>15, <1>16 DEF CopyInv

\* The rows of a component that is being undone are all of its id.
LEMMA RowOfCopy ==
    ASSUME IInv, CopyInv, NEW w \in Workers, job[w].pc \in CopyPC,
           NEW p \in Paths, trow[p] # None, trow[p].comp = job[w].tid
    PROVE  p \in PathsOf(Comp(w)) /\ tcomp[Comp(w)] = job[w].tid
<1>1. PICK d \in Comps : p \in PathsOf(d) /\ tcomp[d] = trow[p].comp
  BY DEF CopyInv, RowsOK
<1>2. d = Comp(w)
  BY <1>1 DEF CopyInv, RowsOK
<1> QED
  BY <1>1, <1>2

\* What is left of a job when executeCopy returns, and of the component it copied.
LEMMA ReturnedCopy ==
    ASSUME IInv, NEW w \in Workers, job[w].pc \in InPC, NEW ok \in BOOLEAN, NEW X,
           X = Returned(w, ok)
    PROVE  /\ X \in Job /\ X.pc = "settle" /\ X.pc \notin CopyPC /\ X.req = job[w].req
           /\ X.ok = ok /\ X.rows = << >> /\ X.blobs = << >> /\ X.fresh = FALSE
           /\ \A d \in Comps : JobOK(X, d)
<1>1. X \in Job /\ X.pc = "settle" /\ X.req = job[w].req
  BY ReturnedJob
<1>2. X.ok = ok /\ X.rows = << >> /\ X.blobs = << >> /\ X.fresh = FALSE
  BY DEF Returned
<1>3. X.pc \notin CopyPC
  BY <1>1 DEF CopyPC
<1> QED
  BY <1>1, <1>2, <1>3 DEF JobOK

\* The row is there; after the last one the whole component is.
LEMMA CreateRowCopyInv ==
    ASSUME IInv, CopyInv, NEW w \in Workers, CreateRow(w)
    PROVE  CopyInv'
<1>1. job[w].pc = "row" /\ job[w].pc \in CopyPC /\ job[w].pc \in InPC
  BY DEF CreateRow, CopyPC, InPC, ReadPC
<1>2. PICK c \in Comps : c = Comp(w)
  BY <1>1, CopierFacts
<1>3. /\ job[w] \in Job /\ JobOK(job[w], c) /\ (c \notin overlapped => CopierOK(job[w], c))
      /\ job[w].tid \in Ids /\ job[w].tid # None
  BY <1>1, <1>2, CopierFacts
<1>4. PICK p \in PathsOf(c) : p = Head(job[w].todo)
  BY <1>1, <1>2, NextPath
<1>5. PICK R : R = Tail(job[w].todo)
  OBVIOUS
<1>6. p \in Paths /\ R \in Seq(Paths) /\ Ran(job[w].todo) = {p} \cup Ran(R)
  <2>1. job[w].todo \in Seq(Paths) /\ job[w].todo # << >>
    BY <1>1, InsideFacts DEF Shape, Job
  <2> QED
    BY <1>4, <1>5, <2>1, PathFacts, RanFacts
<1>7. /\ req' = req /\ tcomp' = tcomp /\ tblob' = tblob /\ overlapped' = overlapped /\ marred' = marred
  BY DEF CreateRow, history
<1>8. /\ \A q \in Paths \ {p} : trow'[q] = trow[q]
      /\ trow'[p] # None /\ trow'[p] \in TargetRow
      /\ trow[p] # None => trow'[p] = trow[p]
      /\ trow[p] = None => tcomp[c] = job[w].tid /\ trow'[p].comp = job[w].tid
  <2>1. CASE trow[p] # None /\ trow' = trow
    BY <1>6, <2>1 DEF IInv, TypeOK
  <2>2. CASE trow[p] = None /\ tcomp[c] = job[w].tid
             /\ \E i \in NewRowId(p) : trow' = [trow EXCEPT ![p] = [id |-> i, comp |-> job[w].tid]]
    <3>1. PICK i \in NewRowId(p) : trow' = [trow EXCEPT ![p] = [id |-> i, comp |-> job[w].tid]]
      BY <2>2
    <3>2. i \in Ids
      BY DEF NewRowId, Least
    <3>3. trow'[p] = [id |-> i, comp |-> job[w].tid] /\ \A q \in Paths \ {p} : trow'[q] = trow[q]
      BY <1>6, <3>1 DEF IInv, TypeOK
    <3>4. trow'[p] \in TargetRow /\ trow'[p].comp = job[w].tid
      BY <1>3, <3>2, <3>3 DEF TargetRow
    <3> QED
      BY <2>2, <3>3, <3>4, PromotionAssumption
  <2> QED
    BY <1>2, <1>4, <2>1, <2>2 DEF CreateRow
<1>9. PICK n \in Ids : n = trow'[p].id
  BY <1>8 DEF TargetRow
<1>10. \A q \in PathsOf(c) : q \in Paths
  BY PathFacts
<1>11. ASSUME c \notin overlapped
       PROVE  /\ \A q \in PathsOf(c) : q \in Ran(R) \/ (trow'[q] # None /\ q \in tblob')
              /\ tcomp'[c] = job[w].tid
  BY <1>1, <1>3, <1>4, <1>6, <1>7, <1>8, <1>10, <1>11 DEF CopierOK
<1>12. \A d \in Comps \ {c} : \A q \in PathsOf(d) : trow'[q] = trow[q]
  BY <1>4, <1>8, PathFacts
<1>13. ASSUME NEW X \in Job, job' = [job EXCEPT ![w] = X], X.req = job[w].req,
              X.pc \in CopyPC => X.tid = job[w].tid, JobOK(X, c), ComponentOK(c)'
       PROVE  CopyInv'
  <2>1. job'[w] = X /\ (\A v \in Workers \ {w} : job'[v] = job[v]) /\ (\A v \in Workers : Comp(v)' = Comp(v))
    BY <1>7, <1>13, WorkerStep
  <2>2. JobsCopyOK'
    BY <1>2, <1>7, <1>13, JobsStay
  <2>3. ASSUME NEW d \in Comps, d # c
        PROVE  ComponentOK(d)'
    BY <1>2, <1>7, <1>12, <1>13, <2>3, OtherComponent
  <2>4. RowsOK'
    <3>1. ASSUME NEW q \in Paths, trow'[q] # None
          PROVE  \E d \in Comps : q \in PathsOf(d) /\ tcomp'[d] = trow'[q].comp
      <4>1. CASE trow'[q] = trow[q]
        BY <1>7, <3>1, <4>1 DEF CopyInv, RowsOK
      <4>2. CASE trow'[q] # trow[q]
        BY <1>4, <1>7, <1>8, <4>2
      <4> QED
        BY <4>1, <4>2
    <3>2. ASSUME NEW v \in Workers, job'[v].pc \in CopyPC, NEW d \in Comps, tcomp'[d] = job'[v].tid
          PROVE  d = Comp(v)'
      BY <1>1, <1>7, <1>13, <2>1, <3>2 DEF CopyInv, RowsOK
    <3>3. \A d, e \in Comps : tcomp'[d] # None /\ tcomp'[d] = tcomp'[e] => d = e
      BY <1>7 DEF CopyInv, RowsOK
    <3> QED
      BY <3>1, <3>2, <3>3 DEF RowsOK
  <2> QED
    BY <2>2, <2>3, <2>4, <1>13 DEF CopyInv
<1>14. CASE R = << >>
  <2>1. PICK X : X = Returned(w, TRUE)
    OBVIOUS
  <2>2. /\ X \in Job /\ X.pc = "settle" /\ X.pc \notin CopyPC /\ X.req = job[w].req /\ JobOK(X, c)
    BY <1>1, <2>1, ReturnedCopy
  <2>3. job' = [job EXCEPT ![w] = X]
    BY <1>5, <1>14, <2>1 DEF CreateRow
  <2>4. c \notin overlapped => Present(c)' /\ Whole(c)'
    <3>1. Ran(R) = {}
      BY <1>14 DEF Ran
    <3> QED
      BY <1>3, <1>11, <3>1 DEF Present, Whole
  <2>5. ComponentOK(c)'
    BY <1>1, <1>2, <1>7, <2>2, <2>3, <2>4, Leaves
  <2> QED
    BY <1>13, <2>2, <2>3, <2>5
<1>15. CASE R # << >>
  <2>1. PICK N : N = IF job[w].fresh THEN Append(job[w].rows, <<p, n>>) ELSE job[w].rows
    OBVIOUS
  <2>2. /\ N \in Seq(Paths \X Ids) /\ Ran(job[w].rows) \subseteq Ran(N)
        /\ Ran(N) \subseteq Ran(job[w].rows) \cup {<<p, n>>}
        /\ job[w].fresh => <<p, n>> \in Ran(N)
        /\ ~job[w].fresh => N = job[w].rows
    <3>1. job[w].rows \in Seq(Paths \X Ids) /\ <<p, n>> \in Paths \X Ids
      BY <1>3, <1>6, <1>9 DEF Job
    <3>2. /\ Append(job[w].rows, <<p, n>>) \in Seq(Paths \X Ids)
          /\ Ran(Append(job[w].rows, <<p, n>>)) = Ran(job[w].rows) \cup {<<p, n>>}
      BY <3>1, AppendProperties, RanFacts
    <3> QED
      BY <2>1, <3>1, <3>2
  <2>3. PICK X : X = [job[w] EXCEPT !.pc = "fresh", !.todo = R, !.fresh = FALSE, !.rows = N]
    OBVIOUS
  <2>4. job' = [job EXCEPT ![w] = X]
    BY <1>4, <1>5, <1>9, <1>15, <2>1, <2>3 DEF CreateRow
  <2>5. /\ X \in Job /\ X.pc = "fresh" /\ X.req = job[w].req /\ X.tid = job[w].tid
        /\ X.todo = R /\ X.rows = N /\ X.blobs = job[w].blobs
        /\ X.ok = job[w].ok /\ X.fresh = FALSE
    BY <1>3, <1>6, <2>2, <2>3 DEF Job, CopyPC
  <2>6. X.pc \in CopyPC
    BY <2>5 DEF CopyPC
  <2>7. JobOK(X, c)
    <3>1. \A x \in Ran(N) : x[1] \in PathsOf(c)
      BY <1>1, <1>3, <2>2 DEF JobOK
    <3> QED
      BY <1>1, <1>3, <1>6, <2>5, <2>6, <3>1 DEF JobOK
  <2>8. job'[w] = X /\ \A d \in Comps : Done(d)' => Done(d)
    BY <1>7, <2>4, <2>5, WorkerStep
  <2>9. ASSUME c \notin overlapped
        PROVE  CopierOK(job[w], c)'
    <3>1. CopierOK(job[w], c) /\ (job[w].fresh <=> trow[p] = None)
      BY <1>1, <1>3, <1>4, <2>9 DEF CopierOK
    <3>2. Quiet(job[w], c) => Quiet(job[w], c)'
      BY <1>7, <1>8, <1>10, <2>2, <2>5, <2>8 DEF Quiet, Present
    <3>3. Tracked(job[w], c) => Tracked(job[w], c)'
      <4> SUFFICES ASSUME Tracked(job[w], c), NEW q \in PathsOf(c), trow'[q] # None
                   PROVE  <<q, trow'[q].id>> \in Ran(N)
        BY <2>5, <2>8 DEF Tracked
      <4>1. CASE trow[q] # None
        <5>1. trow'[q] = trow[q]
          BY <1>8, <1>10, <4>1
        <5> QED
          BY <2>2, <4>1, <5>1 DEF Tracked
      <4>2. CASE trow[q] = None
        <5>1. q = p
          BY <1>8, <1>10, <4>2
        <5> QED
          BY <1>9, <2>2, <3>1, <4>2, <5>1
      <4> QED
        BY <4>1, <4>2
    <3> QED
      BY <1>7, <1>11, <2>5, <2>8, <2>9, <3>1, <3>2, <3>3 DEF CopierOK
  <2>10. ComponentOK(c)'
    BY <1>1, <1>2, <1>7, <2>4, <2>5, <2>6, <2>9, Stays
  <2> QED
    BY <1>13, <2>4, <2>5, <2>7, <2>10
<1> QED
  BY <1>14, <1>15

\* The rollback lists what is left of the component: rows that were there before
\* keep it.
LEMMA UndoListCopyInv ==
    ASSUME IInv, CopyInv, NEW w \in Workers, UndoList(w)
    PROVE  CopyInv'
<1>1. /\ job[w].pc = "undo" /\ job[w].pc \in CopyPC /\ job[w].pc \in InPC
      /\ job[w].rows = << >> /\ job[w].blobs = << >>
  BY DEF UndoList, CopyPC, InPC, ReadPC
<1>2. PICK c \in Comps : c = Comp(w)
  BY <1>1, CopierFacts
<1>3. /\ job[w] \in Job /\ JobOK(job[w], c) /\ (c \notin overlapped => CopierOK(job[w], c))
      /\ job[w].tid # None
  BY <1>1, <1>2, CopierFacts
<1>4. /\ req' = req /\ tcomp' = tcomp /\ trow' = trow /\ tblob' = tblob
      /\ overlapped' = overlapped /\ marred \subseteq marred'
  BY DEF UndoList, target
<1>5. ASSUME NEW X \in Job, job' = [job EXCEPT ![w] = X], X.req = job[w].req,
             X.pc \in CopyPC => X.tid = job[w].tid, JobOK(X, c), ComponentOK(c)'
      PROVE  CopyInv'
  <2>1. job'[w] = X /\ (\A v \in Workers \ {w} : job'[v] = job[v]) /\ (\A v \in Workers : Comp(v)' = Comp(v))
    BY <1>4, <1>5, WorkerStep
  <2>2. JobsCopyOK'
    BY <1>2, <1>4, <1>5, JobsStay
  <2>3. ASSUME NEW d \in Comps, d # c
        PROVE  ComponentOK(d)'
    BY <1>2, <1>4, <1>5, <2>3, OtherComponent
  <2>4. RowsOK'
    BY <1>1, <1>4, <1>5, <2>1, RowsStay DEF CopyInv
  <2> QED
    BY <2>2, <2>3, <2>4, <1>5 DEF CopyInv
<1>6. CASE job' = [job EXCEPT ![w] = Returned(w, FALSE)]
           /\ (c \in marred' \/ \E p \in Paths : trow[p] # None /\ trow[p].comp = job[w].tid)
  <2>1. PICK X : X = Returned(w, FALSE)
    OBVIOUS
  <2>2. /\ X \in Job /\ X.pc = "settle" /\ X.pc \notin CopyPC /\ X.req = job[w].req /\ JobOK(X, c)
        /\ X.ok = FALSE
    BY <1>1, <2>1, ReturnedCopy
  <2>3. job' = [job EXCEPT ![w] = X]
    BY <1>6, <2>1
  <2>4. Done(c)' => Done(c)
    BY <1>4, <2>2, <2>3, WorkerStep
  <2>5. ASSUME c \notin overlapped
        PROVE  /\ Done(c)' => Present(c)'
               /\ c \notin marred' => Nothing(c)' \/ Whole(c)'
    <3>1. CopierOK(job[w], c)
      BY <1>3, <2>5
    <3>2. Done(c)' => Present(c)'
      BY <1>4, <2>4, <3>1 DEF CopierOK, Quiet, Present
    <3>3. ASSUME c \notin marred'
          PROVE  Whole(c)'
      <4>1. PICK p \in Paths : trow[p] # None /\ trow[p].comp = job[w].tid
        BY <1>6, <3>3
      <4>2. p \in PathsOf(c)
        BY <1>1, <1>2, <4>1, RowOfCopy
      <4>3. ~Tracked(job[w], c)
        BY <1>1, <4>1, <4>2 DEF Tracked, Ran
      <4>4. Quiet(job[w], c) /\ tcomp[c] # None
        BY <1>3, <1>4, <3>1, <3>3, <4>3 DEF CopierOK
      <4> QED
        BY <1>4, <4>4 DEF Quiet, Present, Whole
    <3> QED
      BY <3>2, <3>3
  <2>6. ComponentOK(c)'
    BY <1>1, <1>2, <1>4, <2>2, <2>3, <2>5, Leaves
  <2> QED
    BY <1>5, <2>2, <2>3, <2>6
<1>7. CASE job' = [job EXCEPT ![w] = [job[w] EXCEPT !.pc = "undoComp"]] /\ marred' = marred
           /\ ~\E p \in Paths : trow[p] # None /\ trow[p].comp = job[w].tid
  <2>1. PICK X : X = [job[w] EXCEPT !.pc = "undoComp"]
    OBVIOUS
  <2>2. /\ X \in Job /\ X.pc = "undoComp" /\ X.req = job[w].req /\ X.tid = job[w].tid
        /\ X.todo = job[w].todo /\ X.rows = job[w].rows /\ X.blobs = job[w].blobs
        /\ X.ok = job[w].ok
    BY <1>3, <2>1 DEF Job, CopyPC
  <2>3. job' = [job EXCEPT ![w] = X] /\ X.pc \in CopyPC
    BY <1>7, <2>1, <2>2 DEF CopyPC
  <2>4. JobOK(X, c)
    BY <1>1, <1>3, <2>2, <2>3 DEF JobOK
  <2>5. job'[w] = X /\ \A d \in Comps : Done(d)' => Done(d)
    BY <1>4, <2>2, <2>3, WorkerStep
  <2>6. ASSUME c \notin overlapped
        PROVE  CopierOK(job[w], c)'
    <3>1. CopierOK(job[w], c)
      BY <1>3, <2>6
    <3>2. ~Present(c)
      <4>1. PICK p \in PathsOf(c) : TRUE
        BY <1>1, <1>3 DEF JobOK
      <4>2. p \in Paths /\ (trow[p] # None => trow[p].comp = job[w].tid)
        BY <3>1, Owner, PathFacts DEF CopyInv, CopierOK
      <4> QED
        BY <1>7, <4>2 DEF Present
    <3>3. Tracked(job[w], c) => Tracked(job[w], c)'
      BY <1>4, <2>2, <2>5 DEF Tracked
    <3> QED
      BY <1>4, <1>7, <2>2, <2>5, <3>1, <3>2, <3>3 DEF CopierOK, Quiet
  <2>7. ComponentOK(c)'
    BY <1>1, <1>2, <1>4, <2>2, <2>3, <2>6, Stays
  <2> QED
    BY <1>5, <2>2, <2>3, <2>4, <2>7
<1> QED
  BY <1>2, <1>6, <1>7 DEF UndoList

\* The component that was made for nothing goes, with every row of its id.
LEMMA UndoComponentCopyInv ==
    ASSUME IInv, CopyInv, NEW w \in Workers, UndoComponent(w)
    PROVE  CopyInv'
<1>1. job[w].pc = "undoComp" /\ job[w].pc \in CopyPC /\ job[w].pc \in InPC
  BY DEF UndoComponent, CopyPC, InPC, ReadPC
<1>2. PICK c \in Comps : c = Comp(w)
  BY <1>1, CopierFacts
<1>3. /\ job[w] \in Job /\ JobOK(job[w], c) /\ (c \notin overlapped => CopierOK(job[w], c))
  BY <1>1, <1>2, CopierFacts
<1>4. PICK t \in Ids : t = job[w].tid
  BY <1>1, CopierFacts
<1>5. PICK X : X = Returned(w, FALSE)
  OBVIOUS
<1>6. /\ X \in Job /\ X.pc = "settle" /\ X.pc \notin CopyPC /\ X.req = job[w].req /\ JobOK(X, c)
      /\ X.ok = FALSE
  BY <1>1, <1>5, ReturnedCopy
<1>7. /\ job' = [job EXCEPT ![w] = X] /\ req' = req /\ tblob' = tblob
      /\ overlapped' = overlapped /\ marred \subseteq marred'
  BY <1>5 DEF UndoComponent
<1>8. \/ /\ tcomp' = [d \in Comps |-> IF tcomp[d] = t THEN None ELSE tcomp[d]]
         /\ trow' = [p \in Paths |-> IF trow[p] # None /\ trow[p].comp = t THEN None ELSE trow[p]]
      \/ tcomp' = tcomp /\ trow' = trow /\ c \in marred'
  BY <1>2, <1>4 DEF UndoComponent
<1>9. /\ job'[w] = X /\ (\A v \in Workers \ {w} : job'[v] = job[v]) /\ (\A v \in Workers : Comp(v)' = Comp(v))
      /\ \A d \in Comps : Done(d)' => Done(d)
  BY <1>6, <1>7, WorkerStep
<1>10. \A d \in Comps : tcomp[d] = t => d = c
  BY <1>1, <1>2, <1>4 DEF CopyInv, RowsOK
<1>11. ComponentOK(c)'
  <2>1. ASSUME c \notin overlapped
        PROVE  /\ Done(c)' => Present(c)'
               /\ c \notin marred' => Nothing(c)' \/ Whole(c)'
    <3>1. CopierOK(job[w], c) /\ ~Quiet(job[w], c)
      BY <1>1, <1>3, <2>1 DEF Quiet
    <3>2. ~Done(c)' /\ tcomp[c] = t
      BY <1>4, <1>9, <3>1 DEF CopierOK
    <3>3. ASSUME c \notin marred'
          PROVE  Nothing(c)'
      <4>1. \A p \in PathsOf(c) : p \in Paths /\ (trow[p] # None => trow[p].comp = t)
        BY <3>2, Owner, PathFacts DEF CopyInv
      <4> QED
        BY <1>8, <3>2, <3>3, <4>1 DEF Nothing
    <3> QED
      BY <3>2, <3>3
  <2> QED
    BY <1>1, <1>2, <1>6, <1>7, <2>1, Leaves
<1>12. ASSUME NEW d \in Comps, d # c
       PROVE  ComponentOK(d)'
  <2>1. tcomp'[d] = tcomp[d]
    BY <1>8, <1>10, <1>12
  <2>2. \A p \in PathsOf(d) : p \in Paths /\ (trow[p] # None => trow[p].comp # t)
    BY <1>10, <1>12, Owner, PathFacts DEF CopyInv
  <2>3. \A p \in PathsOf(d) : trow'[p] = trow[p]
    BY <1>8, <2>2
  <2> QED
    BY <1>2, <1>6, <1>7, <1>12, <2>1, <2>3, OtherComponent
<1>13. JobsCopyOK'
  BY <1>2, <1>6, <1>7, JobsStay
<1>14. RowsOK'
  <2>1. ASSUME NEW p \in Paths, trow'[p] # None
        PROVE  \E d \in Comps : p \in PathsOf(d) /\ tcomp'[d] = trow'[p].comp
    <3>1. trow'[p] = trow[p] /\ trow[p] # None /\ (tcomp' = tcomp \/ trow[p].comp # t)
      BY <1>8, <2>1
    <3>2. PICK d \in Comps : p \in PathsOf(d) /\ tcomp[d] = trow[p].comp
      BY <3>1 DEF CopyInv, RowsOK
    <3>3. tcomp'[d] = tcomp[d]
      BY <1>8, <3>1, <3>2
    <3> QED
      BY <3>1, <3>2, <3>3
  <2>2. \A d \in Comps : tcomp'[d] # None => tcomp'[d] = tcomp[d]
    BY <1>8
  <2>3. \A d, e \in Comps : tcomp'[d] # None /\ tcomp'[d] = tcomp'[e] => d = e
    BY <2>2 DEF CopyInv, RowsOK
  <2>4. ASSUME NEW v \in Workers, job'[v].pc \in CopyPC, NEW d \in Comps, tcomp'[d] = job'[v].tid
        PROVE  d = Comp(v)'
    <3>1. v # w /\ job'[v] = job[v] /\ Comp(v)' = Comp(v)
      BY <1>6, <1>9, <2>4
    <3>2. job[v].tid # None
      BY <2>4, <3>1, CopierFacts
    <3> QED
      BY <2>2, <2>4, <3>1, <3>2 DEF CopyInv, RowsOK
  <2> QED
    BY <2>1, <2>3, <2>4 DEF RowsOK
<1> QED
  BY <1>11, <1>12, <1>13, <1>14 DEF CopyInv

\* A new copy takes up the component: it found the whole of it or nothing, unless
\* another one is on its way.
LEMMA UpsertComponentCopyInv ==
    ASSUME IInv, CopyInv, NEW w \in Workers, UpsertComponent(w)
    PROVE  CopyInv'
<1>1. job[w].pc = "upsert" /\ job[w].pc \notin CopyPC /\ job[w].pc \in InPC
  BY DEF UpsertComponent, CopyPC, InPC, ReadPC
<1>2. PICK c \in Comps : c = Comp(w)
  BY <1>1, InsideFacts
<1>3. job[w] \in Job /\ JobOK(job[w], c)
  BY <1>1, <1>2, InsideFacts DEF CopyInv, JobsCopyOK
<1>4. /\ job[w].todo = AssetsOf[c] /\ job[w].rows = << >> /\ job[w].blobs = << >>
      /\ ~job[w].fresh /\ ~job[w].ok
  BY <1>1, <1>3 DEF JobOK
<1>5. Ran(job[w].todo) = PathsOf(c)
  BY <1>4, PathFacts
<1>6. /\ req' = req /\ trow' = trow /\ tblob' = tblob /\ marred' = marred
      /\ overlapped \subseteq overlapped'
      /\ \A v \in Workers \ {w} : Copying(v, c) => c \in overlapped'
  BY <1>2 DEF UpsertComponent
<1>7. PICK i \in Ids : /\ tcomp' = [tcomp EXCEPT ![c] = i]
                       /\ \/ tcomp[c] = i
                          \/ /\ tcomp[c] = None
                             /\ \A d \in Comps : tcomp[d] # i
                             /\ \A v \in Workers : job[v].tid # i
                             /\ \A p \in Paths : trow[p] # None => trow[p].comp # i
  <2>1. CASE tcomp[c] # None
    <3>1. tcomp' = tcomp /\ tcomp[c] \in Ids
      BY <1>2, <2>1 DEF UpsertComponent, IInv, TypeOK
    <3>2. tcomp = [tcomp EXCEPT ![c] = tcomp[c]]
      BY DEF IInv, TypeOK
    <3> QED
      BY <3>1, <3>2
  <2>2. CASE tcomp[c] = None
    <3>1. PICK i \in NewCompId : tcomp' = [tcomp EXCEPT ![c] = i]
      BY <1>2, <2>2 DEF UpsertComponent
    <3>2. /\ i \in Ids
          /\ i \notin {tcomp[d] : d \in Comps} \cup {job[v].tid : v \in Workers}
                   \cup {trow[p].comp : p \in {q \in Paths : trow[q] # None}}
      BY DEF NewCompId, Least
    <3>3. /\ \A d \in Comps : tcomp[d] # i
          /\ \A v \in Workers : job[v].tid # i
          /\ \A p \in Paths : trow[p] # None => trow[p].comp # i
      BY <3>2
    <3> QED
      BY <2>2, <3>1, <3>2, <3>3
  <2> QED
    BY <2>1, <2>2
<1>8. /\ tcomp'[c] = i /\ \A d \in Comps \ {c} : tcomp'[d] = tcomp[d]
      /\ i # None
  BY <1>7, PromotionAssumption DEF IInv, TypeOK, Ids
<1>9. c \notin overlapped' => \A v \in Workers : ~Copying(v, c)
  BY <1>1, <1>6 DEF Copying
<1>10. c \notin overlapped' => /\ Done(c) => Present(c)
                               /\ c \notin marred => Nothing(c) \/ Whole(c)
  BY <1>6, <1>9 DEF CopyInv, ComponentOK
<1>11. ASSUME NEW X \in Job, job' = [job EXCEPT ![w] = X], X.req = job[w].req,
              X.pc \in CopyPC => X.tid = i, JobOK(X, c), ComponentOK(c)'
       PROVE  CopyInv'
  <2>1. job'[w] = X /\ (\A v \in Workers \ {w} : job'[v] = job[v]) /\ (\A v \in Workers : Comp(v)' = Comp(v))
    BY <1>6, <1>11, WorkerStep
  <2>2. JobsCopyOK'
    BY <1>2, <1>6, <1>11, JobsStay
  <2>3. ASSUME NEW d \in Comps, d # c
        PROVE  ComponentOK(d)'
    BY <1>2, <1>6, <1>8, <1>11, <2>3, OtherComponent
  <2>4. RowsOK'
    <3>1. ASSUME NEW q \in Paths, trow'[q] # None
          PROVE  \E d \in Comps : q \in PathsOf(d) /\ tcomp'[d] = trow'[q].comp
      <4>1. PICK d \in Comps : q \in PathsOf(d) /\ tcomp[d] = trow[q].comp
        BY <1>6, <3>1 DEF CopyInv, RowsOK
      <4>2. trow[q].comp # None
        <5>1. trow[q] \in TargetRow
          BY <1>6, <3>1 DEF IInv, TypeOK
        <5> QED
          BY <5>1, PromotionAssumption DEF TargetRow, Ids
      <4>3. tcomp'[d] = tcomp[d]
        BY <1>7, <1>8, <4>1, <4>2
      <4> QED
        BY <1>6, <4>1, <4>3
    <3>2. \A d \in Comps \ {c} : tcomp[d] # i
      BY <1>7, <1>8 DEF CopyInv, RowsOK
    <3>3. \A d, e \in Comps : tcomp'[d] # None /\ tcomp'[d] = tcomp'[e] => d = e
      BY <1>8, <3>2 DEF CopyInv, RowsOK
    <3>4. ASSUME NEW v \in Workers, job'[v].pc \in CopyPC, NEW d \in Comps, tcomp'[d] = job'[v].tid
          PROVE  d = Comp(v)'
      <4>1. CASE v = w
        BY <1>2, <1>8, <1>11, <2>1, <3>2, <3>4, <4>1
      <4>2. CASE v # w
        <5>1. job'[v] = job[v] /\ Comp(v)' = Comp(v)
          BY <2>1, <4>2
        <5>2. tcomp[d] = job[v].tid
          BY <1>7, <1>8, <3>4, <5>1
        <5> QED
          BY <3>4, <5>1, <5>2 DEF CopyInv, RowsOK
      <4> QED
        BY <4>1, <4>2
    <3> QED
      BY <3>1, <3>3, <3>4 DEF RowsOK
  <2> QED
    BY <2>2, <2>3, <2>4, <1>11 DEF CopyInv
<1>12. CASE job[w].todo = << >>
  <2>1. PICK X : X = Returned(w, TRUE)
    OBVIOUS
  <2>2. /\ X \in Job /\ X.pc = "settle" /\ X.pc \notin CopyPC /\ X.req = job[w].req /\ JobOK(X, c)
    BY <1>1, <2>1, ReturnedCopy
  <2>3. job' = [job EXCEPT ![w] = X]
    BY <1>12, <2>1 DEF UpsertComponent
  <2>4. PathsOf(c) = {}
    BY <1>5, <1>12 DEF Ran
  <2>5. Present(c)' /\ Whole(c)'
    BY <1>8, <2>4 DEF Present, Whole
  <2>6. c \notin overlapped' => \A v \in Workers : ~Copying(v, c)'
    BY <1>6, <1>9, <2>2, <2>3, WorkerStep
  <2>7. ComponentOK(c)'
    BY <2>5, <2>6 DEF ComponentOK
  <2> QED
    BY <1>11, <2>2, <2>3, <2>7
<1>13. CASE job[w].todo # << >>
  <2>1. PICK X : X = [job[w] EXCEPT !.pc = "fresh", !.tid = i]
    OBVIOUS
  <2>2. job' = [job EXCEPT ![w] = X]
    BY <1>2, <1>8, <1>13, <2>1 DEF UpsertComponent
  <2>3. /\ X \in Job /\ X.pc = "fresh" /\ X.req = job[w].req /\ X.tid = i
        /\ X.todo = job[w].todo /\ X.rows = << >> /\ X.blobs = << >>
        /\ ~X.ok /\ ~X.fresh
    BY <1>3, <1>4, <2>1 DEF Job, CopyPC
  <2>4. X.pc \in CopyPC
    BY <2>3 DEF CopyPC
  <2>5. JobOK(X, c)
    <3>1. PathsOf(c) # {}
      <4>1. PICK T \in Seq(Paths) : T = job[w].todo
        BY <1>3 DEF Job
      <4>2. Ran(T) = {Head(T)} \cup Ran(Tail(T))
        BY <1>13, <4>1, RanFacts
      <4> QED
        BY <1>5, <4>1, <4>2
    <3>2. Ran(<< >>) = {}
      BY DEF Ran
    <3> QED
      BY <1>5, <2>3, <2>4, <3>1, <3>2 DEF JobOK
  <2>6. /\ job'[w] = X /\ \A d \in Comps : Done(d)' => Done(d)
        /\ \A v \in Workers \ {w} : Copying(v, c)' <=> Copying(v, c)
    BY <1>6, <2>2, <2>3, WorkerStep
  <2>7. Copying(w, c)'
    BY <1>2, <1>6, <2>2, <2>3, <2>4, WorkerStep
  <2>8. ASSUME c \notin overlapped'
        PROVE  CopierOK(job[w], c)' /\ (Done(c)' => Present(c)')
    <3>1. (Present(c)' <=> Present(c)) /\ (Whole(c) => Present(c))
      BY <1>6 DEF Present, Whole
    <3>2. Present(c) => Quiet(job[w], c)'
      BY <2>3, <2>6, <3>1 DEF Quiet
    <3>3. Nothing(c) => Tracked(job[w], c)'
      BY <1>6 DEF Nothing, Tracked
    <3>4. /\ Done(c)' => Quiet(job[w], c)' /\ Present(c)'
          /\ c \notin marred' => Quiet(job[w], c)' \/ Tracked(job[w], c)'
      BY <1>6, <1>10, <2>6, <2>8, <3>1, <3>2, <3>3
    <3> QED
      BY <1>5, <1>8, <2>3, <2>6, <3>4 DEF CopierOK
  <2>9. ComponentOK(c)'
    <3>1. c \notin overlapped' => \A v \in Workers : Copying(v, c)' => v = w
      BY <1>9, <2>6
    <3> QED
      BY <2>7, <2>8, <3>1 DEF ComponentOK
  <2> QED
    BY <1>11, <2>2, <2>3, <2>5, <2>9
<1> QED
  BY <1>12, <1>13

\* A copy that dies leaves its component marred, and nothing else changes for it.
LEMMA CrashCopyInv ==
    ASSUME IInv, CopyInv, NEW w \in Workers, Crash(w)
    PROVE  CopyInv'
<1>1. /\ job' = [job EXCEPT ![w] = Idle] /\ req' = req /\ tcomp' = tcomp /\ trow' = trow
      /\ tblob' = tblob /\ overlapped' = overlapped
      /\ marred' = marred \cup {c \in Comps : Copying(w, c)}
  BY DEF Crash, target
<1>2. PICK X : X = Idle
  OBVIOUS
<1>3. /\ X \in Job /\ X.pc = "idle" /\ X.pc \notin CopyPC /\ ~X.ok /\ X.rows = << >>
      /\ X.blobs = << >> /\ ~X.fresh
  BY <1>2, IdleJob DEF Idle, Outside, CopyPC
<1>4. job'[w] = X /\ \A v \in Workers \ {w} : job'[v] = job[v] /\ Comp(v)' = Comp(v)
  BY <1>1, <1>2, <1>3, OneJob DEF IInv, TypeOK, Comp
<1>5. \A c \in Comps : ~Copying(w, c)'
  BY <1>3, <1>4 DEF Copying
<1>6. \A v \in Workers \ {w}, c \in Comps : Copying(v, c)' <=> Copying(v, c)
  BY <1>4 DEF Copying
<1>7. \A c \in Comps : Done(c)' => Done(c)
  BY <1>1, <1>3, <1>4 DEF Done
<1>8. ASSUME NEW c \in Comps
      PROVE  ComponentOK(c)'
  <2>1. CASE Copying(w, c)
    <3>1. c \in marred' /\ (Present(c)' <=> Present(c))
      BY <1>1, <2>1 DEF Present
    <3>2. c \notin overlapped => /\ \A v \in Workers : Copying(v, c) => v = w
                                 /\ Done(c) => Present(c)
      BY <2>1 DEF CopyInv, ComponentOK
    <3>3. c \notin overlapped => \A v \in Workers : ~Copying(v, c)'
      BY <1>5, <1>6, <3>2
    <3> QED
      BY <1>1, <1>7, <3>1, <3>2, <3>3 DEF ComponentOK
  <2>2. CASE ~Copying(w, c)
    <3>1. \A v \in Workers : Copying(v, c)' <=> Copying(v, c)
      BY <1>5, <1>6, <2>2
    <3>2. \A v \in Workers : Copying(v, c) => SameCopy(job'[v], job[v])
      BY <1>4, <2>2 DEF SameCopy
    <3> QED
      BY <1>1, <1>7, <3>1, <3>2, Frame
  <2> QED
    BY <2>1, <2>2
<1>9. JobsCopyOK'
  <2> SUFFICES ASSUME NEW v \in Workers
               PROVE  JobOK(job'[v], Comp(v)')
    BY DEF JobsCopyOK
  <2>1. CASE v = w
    BY <1>3, <1>4, <2>1 DEF JobOK
  <2>2. CASE v # w
    <3>1. job'[v] = job[v] /\ Comp(v)' = Comp(v) /\ JobOK(job[v], Comp(v))
      BY <1>4, <2>2 DEF CopyInv, JobsCopyOK
    <3> QED
      BY <3>1
  <2> QED
    BY <2>1, <2>2
<1>10. RowsOK'
  BY <1>1, <1>3, <1>4, RowsStay DEF CopyInv
<1> QED
  BY <1>8, <1>9, <1>10 DEF CopyInv

-----------------------------------------------------------------------------
(* The steps around a copy                                                 *)

\* Steps that touch neither the target nor a copy that runs.
LEMMA AroundCopies ==
    ASSUME IInv, CopyInv, UNCHANGED <<target, history>>, JobsCopyOK',
           \A v \in Workers : job'[v].pc \in CopyPC <=> job[v].pc \in CopyPC,
           \A v \in Workers : job[v].pc \in CopyPC =>
                Comp(v)' = Comp(v) /\ SameCopy(job'[v], job[v]),
           \A c \in Comps : Done(c)' => Done(c)
    PROVE  CopyInv'
<1>1. tcomp' = tcomp /\ trow' = trow /\ tblob' = tblob /\ overlapped' = overlapped /\ marred' = marred
  BY DEF target, history
<1>2. \A c \in Comps, v \in Workers : Copying(v, c)' <=> Copying(v, c)
  BY DEF Copying
<1>3. \A c \in Comps, v \in Workers : Copying(v, c) => SameCopy(job'[v], job[v])
  BY DEF Copying
<1>4. \A c \in Comps : ComponentOK(c)'
  BY <1>1, <1>2, <1>3, Frame
<1>5. RowsOK'
  BY <1>1, RowsStay DEF CopyInv, SameCopy
<1> QED
  BY <1>4, <1>5 DEF CopyInv

\* One worker's step outside of executeCopy's loop and rollback.
LEMMA AroundStep ==
    ASSUME IInv, CopyInv, NEW w \in Workers, NEW X \in Job, job' = [job EXCEPT ![w] = X],
           UNCHANGED <<target, history>>, job[w].pc \notin CopyPC, X.pc \notin CopyPC,
           ~X.ok, X.rows = << >>, X.blobs = << >>, ~X.fresh,
           X.pc = "upsert" => req' = req /\ X.req = job[w].req /\ X.todo = AssetsOf[Comp(w)],
           \A v \in Workers \ {w} : job[v].pc \in InPC => req'[job[v].req] = req[job[v].req],
           \A r \in Requests : req'[r] # None /\ req'[r].status = "completed" =>
                \/ req[r] # None /\ req[r].status = "completed" /\ req[r].comp = req'[r].comp
                \/ job[w].pc = "settle" /\ job[w].ok /\ Comp(w) = req'[r].comp
    PROVE  CopyInv'
<1>1. job'[w] = X /\ \A v \in Workers \ {w} : job'[v] = job[v]
  BY OneJob DEF IInv, TypeOK
<1>2. \A v \in Workers \ {w} : job[v].pc \in InPC => Comp(v)' = Comp(v)
  BY <1>1 DEF Comp
<1>3. \A v \in Workers : job'[v].pc \in CopyPC <=> job[v].pc \in CopyPC
  BY <1>1
<1>4. \A v \in Workers : job[v].pc \in CopyPC => Comp(v)' = Comp(v) /\ SameCopy(job'[v], job[v])
  BY <1>1, <1>2 DEF SameCopy, InPC, ReadPC
<1>5. JobsCopyOK'
  <2> SUFFICES ASSUME NEW v \in Workers
               PROVE  JobOK(job'[v], Comp(v)')
    BY DEF JobsCopyOK
  <2>1. CASE v = w
    <3>1. X.pc = "upsert" => Comp(w)' = Comp(w)
      BY <1>1 DEF Comp
    <3> QED
      BY <1>1, <2>1, <3>1 DEF JobOK
  <2>2. CASE v # w
    <3>1. job'[v] = job[v] /\ JobOK(job[v], Comp(v))
      BY <1>1, <2>2 DEF CopyInv, JobsCopyOK
    <3>2. CASE job[v].pc \in InPC
      BY <1>2, <2>2, <3>1, <3>2
    <3>3. CASE job[v].pc \notin InPC
      <4>1. job[v].pc # "upsert" /\ job[v].pc \notin CopyPC
        BY <3>3 DEF InPC, ReadPC
      <4> QED
        BY <3>1, <4>1 DEF JobOK
    <3> QED
      BY <3>2, <3>3
  <2> QED
    BY <2>1, <2>2
<1>6. \A c \in Comps : Done(c)' => Done(c)
  <2> SUFFICES ASSUME NEW c \in Comps, Done(c)'
               PROVE  Done(c)
    OBVIOUS
  <2>1. CASE \E r \in Requests : req'[r] # None /\ req'[r].status = "completed" /\ req'[r].comp = c
    BY <2>1 DEF Done
  <2>2. CASE \E v \in Workers : job'[v].pc = "settle" /\ job'[v].ok /\ Comp(v)' = c
    BY <1>1, <1>2, <2>2 DEF Done, InPC
  <2> QED
    BY <2>1, <2>2 DEF Done
<1> QED
  BY <1>3, <1>4, <1>5, <1>6, AroundCopies

\* A rule or a scan changes; the requests of a deleted rule go with it.
LEMMA GateCopyInv ==
    ASSUME IInv, CopyInv, UNCHANGED <<target, history>>, Touch,
           \A v \in Workers : job[v].pc \in InPC => req'[job[v].req] = req[job[v].req],
           \A r \in Requests : req'[r] # None => req'[r] = req[r]
    PROVE  CopyInv'
<1>1. ASSUME NEW v \in Workers
      PROVE  /\ job'[v].pc = job[v].pc /\ job'[v].req = job[v].req /\ job'[v].ok = job[v].ok
             /\ SameCopy(job'[v], job[v])
  <2>1. job[v] \in Job
    BY DEF IInv, TypeOK
  <2>2. job'[v] = job[v] \/ job'[v] = [job[v] EXCEPT !.touched = TRUE]
    BY DEF Touch
  <2> QED
    BY <2>1, <2>2 DEF Job, SameCopy
<1>2. \A v \in Workers : job[v].pc \in InPC => Comp(v)' = Comp(v)
  BY <1>1 DEF Comp
<1>3. JobsCopyOK'
  <2> SUFFICES ASSUME NEW v \in Workers
               PROVE  JobOK(job'[v], Comp(v)')
    BY DEF JobsCopyOK
  <2>1. JobOK(job[v], Comp(v)) /\ SameCopy(job'[v], job[v]) /\ job'[v].ok = job[v].ok
    BY <1>1 DEF CopyInv, JobsCopyOK
  <2>2. CASE job[v].pc \in InPC
    BY <1>2, <2>1, <2>2 DEF JobOK, SameCopy
  <2>3. CASE job[v].pc \notin InPC
    <3>1. job[v].pc # "upsert" /\ job[v].pc \notin CopyPC
      BY <2>3 DEF InPC, ReadPC
    <3> QED
      BY <2>1, <3>1 DEF JobOK, SameCopy
  <2> QED
    BY <2>2, <2>3
<1>4. \A c \in Comps : Done(c)' => Done(c)
  BY <1>1, <1>2 DEF Done, InPC
<1>5. \A v \in Workers : job[v].pc \in CopyPC => Comp(v)' = Comp(v) /\ SameCopy(job'[v], job[v])
  BY <1>1, <1>2 DEF InPC, ReadPC
<1> QED
  BY <1>1, <1>3, <1>4, <1>5, AroundCopies

\* SaveRule and ScanReport leave the requests alone, DeleteRule those that are locked.
LEMMA AdminCopyInv ==
    ASSUME IInv, CopyInv, \/ \E i \in Rules : SaveRule(i) \/ DeleteRule(i)
                          \/ \E c \in Comps : ScanReport(c)
    PROVE  CopyInv'
<1>1. CASE req' = req
  <2>1. UNCHANGED <<target, history>> /\ Touch
    BY DEF SaveRule, DeleteRule, ScanReport
  <2> QED
    BY <1>1, <2>1, GateCopyInv
<1>2. CASE \E i \in Rules : DeleteRule(i)
  <2>1. PICK i \in Rules : DeleteRule(i)
    BY <1>2
  <2>2. UNCHANGED <<target, history>> /\ Touch
    BY <2>1 DEF DeleteRule
  <2>3. \A r \in Requests : req'[r] # None => req'[r] = req[r]
    BY <2>1 DEF DeleteRule
  <2>4. ASSUME NEW v \in Workers, job[v].pc \in InPC
        PROVE  req'[job[v].req] = req[job[v].req]
    <3>1. job[v].req \in Requests /\ locked[job[v].req] # None
      BY <2>4, InsideFacts, PromotionAssumption
    <3> QED
      BY <2>1, <3>1 DEF DeleteRule
  <2> QED
    BY <2>2, <2>3, <2>4, GateCopyInv
<1> QED
  BY <1>1, <1>2 DEF SaveRule, ScanReport

\* A job that a worker has before it enters the copy, or after it, notes nothing.
LEMMA OutsideCopyJob ==
    ASSUME NEW pc, pc \notin CopyPC, NEW k, NEW rest, NEW m, NEW r, NEW i,
           NEW X, X = Outside(pc, k, rest, m, r, i)
    PROVE  X.pc = pc /\ X.pc \notin CopyPC /\ ~X.ok /\ X.rows = << >> /\ X.blobs = << >> /\ ~X.fresh
BY DEF Outside

\* What a worker goes on with after a request.
LEMMA ProceedCopyJob ==
    ASSUME NEW w \in Workers, NEW X, X = Proceed(w)
    PROVE  X.pc \in {"create", "idle"} /\ X.pc \notin CopyPC /\ ~X.ok
           /\ X.rows = << >> /\ X.blobs = << >> /\ ~X.fresh
<1>1. "create" \notin CopyPC /\ "idle" \notin CopyPC
  BY DEF CopyPC
<1> QED
  BY <1>1 DEF Proceed, Outside, Idle

\* Filing, reviewing and giving up leave the copies alone.
LEMMA FilingCopyInv ==
    ASSUME IInv, CopyInv, NEW w \in Workers, req' = req,
           \/ \E i \in Rules, b \in Batches : Promote(w, i, b)
           \/ \E k \in {"approve", "reject"}, r \in Requests : Review(w, k, r)
           \/ PromoteEnds(w)
    PROVE  CopyInv'
<1>1. /\ UNCHANGED <<target, history>> /\ job[w].pc \notin CopyPC
  BY DEF Promote, Review, PromoteEnds, CopyPC
<1>2. PICK X : /\ job' = [job EXCEPT ![w] = X] /\ X.pc \in {"create", "lock", "idle"} /\ ~X.ok
               /\ X.rows = << >> /\ X.blobs = << >> /\ ~X.fresh
  <2>1. CASE \E i \in Rules, b \in Batches : Promote(w, i, b)
    <3>1. PICK i \in Rules, b \in Batches : Promote(w, i, b)
      BY <2>1
    <3>2. PICK X : X = Outside("create", "promote", b, rule[i].manual, None, i)
      OBVIOUS
    <3>3. job' = [job EXCEPT ![w] = X]
      BY <3>1, <3>2 DEF Promote
    <3> QED
      BY ZenonT(60), <3>2, <3>3, OutsideCopyJob DEF CopyPC
  <2>2. CASE \E k \in {"approve", "reject"}, r \in Requests : Review(w, k, r)
    <3>1. PICK k \in {"approve", "reject"}, r \in Requests : Review(w, k, r)
      BY <2>2
    <3>2. PICK X : X = Outside("lock", k, << >>, FALSE, r, req[r].rule)
      OBVIOUS
    <3>3. job' = [job EXCEPT ![w] = X]
      BY <3>1, <3>2 DEF Review
    <3> QED
      BY ZenonT(60), <3>2, <3>3, OutsideCopyJob DEF CopyPC
  <2>3. CASE PromoteEnds(w)
    <3>1. PICK X : X = Idle
      OBVIOUS
    <3>2. job' = [job EXCEPT ![w] = X]
      BY <2>3, <3>1 DEF PromoteEnds
    <3> QED
      BY <3>1, <3>2, OutsideCopyJob DEF CopyPC, Idle
  <2> QED
    BY <2>1, <2>2, <2>3
<1>3. X \in Job /\ X.pc \notin CopyPC
  <2>1. job'[w] = X
    BY <1>2 DEF IInv, TypeOK
  <2>2. IInv'
    BY PromotePreserves, ReviewPreserves, PromoteEndsPreserves
  <2> QED
    BY <1>2, <2>1, <2>2 DEF IInv, TypeOK, CopyPC
<1> QED
  BY <1>1, <1>2, <1>3, AroundStep

\* A new request is pending.
LEMMA CreateRequestCopyInv ==
    ASSUME IInv, CopyInv, NEW w \in Workers, NEW r \in Requests, CreateRequest(w, r)
    PROVE  CopyInv'
<1>1. UNCHANGED <<target, history>> /\ job[w].pc = "create" /\ job[w].pc \notin CopyPC
      /\ job[w] \in Job
  BY DEF CreateRequest, CopyPC, IInv, TypeOK
<1>2. ~job[w].ok /\ job[w].rows = << >> /\ job[w].blobs = << >> /\ ~job[w].fresh
  BY <1>1 DEF CopyInv, JobsCopyOK, JobOK
<1>3. PICK X : /\ job' = [job EXCEPT ![w] = X] /\ X.pc \in {"create", "lock", "idle"} /\ ~X.ok
               /\ X.rows = << >> /\ X.blobs = << >> /\ ~X.fresh
  <2>1. CASE job[w].manual
    <3>1. PICK X : X = Proceed(w)
      OBVIOUS
    <3>2. job' = [job EXCEPT ![w] = X]
      BY <2>1, <3>1 DEF CreateRequest
    <3> QED
      BY <3>1, <3>2, ProceedCopyJob
  <2>2. CASE ~job[w].manual
    <3>1. PICK X : X = [job[w] EXCEPT !.pc = "lock", !.req = r]
      OBVIOUS
    <3>2. job' = [job EXCEPT ![w] = X]
      BY <2>2, <3>1 DEF CreateRequest
    <3>3. /\ X.pc = "lock" /\ X.ok = job[w].ok /\ X.rows = job[w].rows /\ X.blobs = job[w].blobs
          /\ X.fresh = job[w].fresh
      BY <1>1, <3>1 DEF Job
    <3> QED
      BY <1>2, <3>2, <3>3
  <2> QED
    BY <2>1, <2>2
<1>4. X \in Job /\ X.pc \notin CopyPC
  <2>1. job'[w] = X /\ IInv'
    BY <1>3, CreateRequestPreserves DEF IInv, TypeOK
  <2> QED
    BY <1>3, <2>1 DEF IInv, TypeOK, CopyPC
<1>5. /\ \A q \in Requests \ {r} : req'[q] = req[q]
      /\ req'[r].status = "pending"
      /\ \A v \in Workers : job[v].req # r
  BY DEF CreateRequest, IInv, TypeOK
<1>6. \A v \in Workers \ {w} : job[v].pc \in InPC => req'[job[v].req] = req[job[v].req]
  BY <1>5, InsideFacts
<1>7. \A q \in Requests : req'[q] # None /\ req'[q].status = "completed" => req'[q] = req[q]
  BY <1>5
<1> QED
  BY <1>1, <1>3, <1>4, <1>6, <1>7, AroundStep

\* Taking the lock leaves the copies alone.
LEMMA EnterCopyInv ==
    ASSUME IInv, CopyInv, NEW w \in Workers, Enter(w)
    PROVE  CopyInv'
<1>1. UNCHANGED <<target, history>> /\ job[w].pc = "lock" /\ job[w].pc \notin CopyPC
      /\ job[w] \in Job /\ req' = req
  BY DEF Enter, CopyPC, IInv, TypeOK
<1>2. ~job[w].ok /\ job[w].rows = << >> /\ job[w].blobs = << >> /\ ~job[w].fresh
  BY <1>1 DEF CopyInv, JobsCopyOK, JobOK
<1>3. PICK X : /\ job' = [job EXCEPT ![w] = X] /\ X.pc \in {"create", "idle", "settle", "rule"}
               /\ ~X.ok /\ X.rows = << >> /\ X.blobs = << >> /\ ~X.fresh
  <2>1. CASE ~Pending(job[w].req)
    <3>1. PICK X : X = Proceed(w)
      OBVIOUS
    <3>2. job' = [job EXCEPT ![w] = X]
      BY <2>1, <3>1 DEF Enter
    <3> QED
      BY <3>1, <3>2, ProceedCopyJob
  <2>2. CASE Pending(job[w].req)
    <3>1. PICK p \in {"settle", "rule"} : p = IF job[w].kind = "reject" THEN "settle" ELSE "rule"
      OBVIOUS
    <3>2. PICK X : X = [job[w] EXCEPT !.pc = p]
      OBVIOUS
    <3>3. job' = [job EXCEPT ![w] = X]
      BY <2>2, <3>1, <3>2 DEF Enter
    <3>4. /\ X.pc = p /\ X.ok = job[w].ok /\ X.rows = job[w].rows /\ X.blobs = job[w].blobs
          /\ X.fresh = job[w].fresh
      BY <1>1, <3>2 DEF Job
    <3> QED
      BY <1>2, <3>1, <3>3, <3>4
  <2> QED
    BY <2>1, <2>2
<1>4. X \in Job /\ X.pc \notin CopyPC
  <2>1. job'[w] = X /\ IInv'
    BY <1>3, EnterPreserves DEF IInv, TypeOK
  <2> QED
    BY <1>3, <2>1 DEF IInv, TypeOK, CopyPC
<1> QED
  BY <1>1, <1>3, <1>4, AroundStep

\* A request that is recorded as completed is one whose copy came to its end.
LEMMA SettleCopyInv ==
    ASSUME IInv, CopyInv, NEW w \in Workers, Settle(w)
    PROVE  CopyInv'
<1>1. UNCHANGED <<target, history>> /\ job[w].pc = "settle" /\ job[w].pc \notin CopyPC
      /\ job[w].pc \in InPC
  BY DEF Settle, CopyPC, InPC
<1>2. PICK r \in Requests : r = job[w].req
  BY <1>1, InsideFacts
<1>3. req[r] \in Request /\ req[r].status = "pending" /\ locked[r] = w
  BY <1>1, <1>2, InsideFacts
<1>4. PICK X : X = Proceed(w)
  OBVIOUS
<1>5. job' = [job EXCEPT ![w] = X]
  BY <1>4 DEF Settle
<1>6. X.pc \in {"create", "idle"} /\ X.pc \notin CopyPC /\ ~X.ok
      /\ X.rows = << >> /\ X.blobs = << >> /\ ~X.fresh
  BY <1>4, ProceedCopyJob
<1>7. X \in Job
  <2>1. job'[w] = X /\ IInv'
    BY <1>5, SettlePreserves DEF IInv, TypeOK
  <2> QED
    BY <2>1 DEF IInv, TypeOK
<1>8. /\ \A q \in Requests \ {r} : req'[q] = req[q]
      /\ req'[r].comp = req[r].comp
      /\ req'[r].status = "completed" => job[w].ok
  BY <1>2, <1>3 DEF Settle, IInv, TypeOK, Request
<1>9. ASSUME NEW v \in Workers \ {w}, job[v].pc \in InPC
      PROVE  req'[job[v].req] = req[job[v].req]
  <2>1. job[v].req \in Requests /\ locked[job[v].req] = v
    BY <1>9, InsideFacts
  <2> QED
    BY <1>3, <1>8, <2>1
<1>10. \A q \in Requests : req'[q] # None /\ req'[q].status = "completed" =>
                \/ req[q] # None /\ req[q].status = "completed" /\ req[q].comp = req'[q].comp
                \/ job[w].pc = "settle" /\ job[w].ok /\ Comp(w) = req'[q].comp
  BY <1>1, <1>2, <1>8 DEF Comp
<1> QED
  BY <1>1, <1>5, <1>6, <1>7, <1>9, <1>10, AroundStep

\* The checks before a copy leave the target alone; the last one lists the assets.
LEMMA ChecksCopyInv ==
    ASSUME IInv, CopyInv, NEW w \in Workers,
           ReadRule(w) \/ CheckApplies(w) \/ CheckScan(w) \/ CheckFails(w)
    PROVE  CopyInv'
<1>1. /\ UNCHANGED <<target, history>> /\ req' = req
      /\ job[w].pc \in {"rule", "applies", "scan", "upsert"}
  BY DEF ReadRule, CheckApplies, CheckScan, CheckFails
<1>2. job[w].pc \notin CopyPC /\ job[w].pc \in InPC /\ job[w].pc # "settle"
  BY <1>1 DEF CopyPC, InPC, ReadPC
<1>3. /\ job[w] \in Job /\ ~job[w].ok /\ job[w].rows = << >> /\ job[w].blobs = << >>
      /\ ~job[w].fresh
  BY <1>2, InsideFacts DEF CopyInv, JobsCopyOK, JobOK
<1>4. CASE job' = [job EXCEPT ![w] = Returned(w, FALSE)]
  <2>1. PICK X : X = Returned(w, FALSE)
    OBVIOUS
  <2>2. /\ X \in Job /\ X.pc = "settle" /\ X.pc \notin CopyPC
        /\ X.ok = FALSE /\ X.rows = << >> /\ X.blobs = << >> /\ X.fresh = FALSE
    BY <1>2, <2>1, ReturnedCopy
  <2> QED
    BY <1>1, <1>2, <1>4, <2>1, <2>2, AroundStep
<1>5. CASE job' # [job EXCEPT ![w] = Returned(w, FALSE)]
  <2>1. PICK X : /\ job' = [job EXCEPT ![w] = X] /\ X.pc \in {"applies", "scan", "upsert"}
                 /\ X.req = job[w].req /\ X.ok = job[w].ok /\ X.rows = job[w].rows
                 /\ X.blobs = job[w].blobs /\ X.fresh = job[w].fresh
                 /\ X.pc = "upsert" => X.todo = AssetsOf[Comp(w)]
    <3>1. CASE ReadRule(w)
      <4>1. PICK s : s = rule[req[job[w].req].rule]
        OBVIOUS
      <4>2. PICK X : X = [job[w] EXCEPT !.pc = "applies", !.snap = s]
        OBVIOUS
      <4>3. job' = [job EXCEPT ![w] = X]
        BY <1>5, <3>1, <4>1, <4>2 DEF ReadRule
      <4>4. /\ X.pc = "applies" /\ X.req = job[w].req /\ X.ok = job[w].ok
            /\ X.rows = job[w].rows /\ X.blobs = job[w].blobs /\ X.fresh = job[w].fresh
        BY <1>3, <4>2 DEF Job
      <4> QED
        BY <4>3, <4>4
    <3>2. CASE CheckApplies(w)
      <4>1. PICK X : X = [job[w] EXCEPT !.pc = "scan"]
        OBVIOUS
      <4>2. job' = [job EXCEPT ![w] = X]
        BY <1>5, <3>2, <4>1 DEF CheckApplies
      <4>3. /\ X.pc = "scan" /\ X.req = job[w].req /\ X.ok = job[w].ok
            /\ X.rows = job[w].rows /\ X.blobs = job[w].blobs /\ X.fresh = job[w].fresh
        BY <1>3, <4>1 DEF Job
      <4> QED
        BY <4>2, <4>3
    <3>3. CASE CheckScan(w)
      <4>1. PICK L : L = AssetsOf[Comp(w)]
        OBVIOUS
      <4>2. PICK X : X = [job[w] EXCEPT !.pc = "upsert", !.todo = L]
        OBVIOUS
      <4>3. job' = [job EXCEPT ![w] = X]
        BY <1>5, <3>3, <4>1, <4>2 DEF CheckScan
      <4>4. /\ X.pc = "upsert" /\ X.req = job[w].req /\ X.ok = job[w].ok /\ X.todo = L
            /\ X.rows = job[w].rows /\ X.blobs = job[w].blobs /\ X.fresh = job[w].fresh
        BY <1>3, <4>2 DEF Job
      <4> QED
        BY <4>1, <4>3, <4>4
    <3> QED
      BY <1>5, <3>1, <3>2, <3>3 DEF CheckFails
  <2>2. X \in Job /\ X.pc \notin CopyPC
    <3>1. job'[w] = X /\ IInv'
      BY <2>1, ReadRulePreserves, CheckAppliesPreserves, CheckScanPreserves, CheckFailsPreserves
      DEF IInv, TypeOK
    <3> QED
      BY <2>1, <3>1 DEF IInv, TypeOK, CopyPC
  <2>3. ~X.ok /\ X.rows = << >> /\ X.blobs = << >> /\ ~X.fresh
    BY <1>3, <2>1
  <2> QED
    BY <1>1, <1>2, <2>1, <2>2, <2>3, AroundStep
<1> QED
  BY <1>4, <1>5

\* At the start the target is empty and nothing runs.
LEMMA InitCopyInv == Init => CopyInv
<1> SUFFICES ASSUME Init PROVE CopyInv
  OBVIOUS
<1>1. \A w \in Workers : job[w] = Idle
  BY DEF Init
<1>2. /\ Idle.pc = "idle" /\ Idle.pc \notin CopyPC /\ ~Idle.ok /\ Idle.rows = << >>
      /\ Idle.blobs = << >> /\ ~Idle.fresh
  BY DEF Idle, Outside, CopyPC
<1>3. JobsCopyOK
  BY <1>1, <1>2 DEF JobsCopyOK, JobOK
<1>4. RowsOK
  BY <1>1, <1>2 DEF Init, RowsOK
<1>5. ASSUME NEW c \in Comps
      PROVE  ComponentOK(c)
  <2>1. \A w \in Workers : ~Copying(w, c)
    BY <1>1, <1>2 DEF Copying
  <2>2. ~Done(c)
    BY <1>1, <1>2 DEF Done, Init
  <2>3. Nothing(c)
    BY PathFacts DEF Nothing, Init
  <2> QED
    BY <2>1, <2>2, <2>3 DEF ComponentOK
<1> QED
  BY <1>3, <1>4, <1>5 DEF CopyInv

\* Every step, and stuttering, keeps the copies sound.
LEMMA NextCopyInv == IInv /\ CopyInv /\ [Next]_vars => CopyInv'
<1> SUFFICES ASSUME IInv, CopyInv, [Next]_vars PROVE CopyInv'
  OBVIOUS
<1>1. CASE UNCHANGED vars
  <2>1. UNCHANGED <<target, history>> /\ req' = req /\ job' = job
    BY <1>1 DEF vars
  <2>2. \A v \in Workers : Comp(v)' = Comp(v)
    BY <2>1 DEF Comp
  <2>3. JobsCopyOK'
    BY <2>1, <2>2 DEF CopyInv, JobsCopyOK
  <2>4. \A c \in Comps : Done(c)' => Done(c)
    BY <2>1, <2>2 DEF Done
  <2>5. \A v \in Workers : SameCopy(job'[v], job[v])
    BY <2>1 DEF SameCopy
  <2> QED
    BY <2>1, <2>2, <2>3, <2>4, <2>5, AroundCopies
<1>2. ASSUME \/ \E i \in Rules : SaveRule(i) \/ DeleteRule(i)
             \/ \E c \in Comps : ScanReport(c)
      PROVE  CopyInv'
  BY <1>2, AdminCopyInv
<1>3. ASSUME NEW w \in Workers,
             \/ \E i \in Rules, b \in Batches : Promote(w, i, b)
             \/ \E k \in {"approve", "reject"}, r \in Requests : Review(w, k, r)
      PROVE  CopyInv'
  <2>1. req' = req
    BY <1>3 DEF Promote, Review
  <2> QED
    BY <1>3, <2>1, FilingCopyInv
<1>4. ASSUME NEW w \in Workers, PromoteEnds(w)
      PROVE  CopyInv'
  <2>1. req' = req
    BY <1>4 DEF PromoteEnds
  <2> QED
    BY <1>4, <2>1, FilingCopyInv
<1>5. ASSUME NEW w \in Workers, Step(w)
      PROVE  CopyInv'
  BY <1>4, <1>5, CreateRequestCopyInv, EnterCopyInv, ChecksCopyInv, UpsertComponentCopyInv,
     CheckFreshCopyInv, PutBlobCopyInv, CreateRowCopyInv, CopyFailsCopyInv, UndoRowCopyInv,
     UndoBlobCopyInv, UndoListCopyInv, UndoComponentCopyInv, SettleCopyInv
  DEF Step
<1>6. ASSUME NEW w \in Workers, Crash(w)
      PROVE  CopyInv'
  BY <1>6, CrashCopyInv
<1> QED
  BY <1>1, <1>2, <1>3, <1>5, <1>6 DEF Next

\* The copies stay sound throughout.
LEMMA CopyInvariance == Spec => []CopyInv
BY InitCopyInv, NextCopyInv, Invariance, PTL DEF Spec

\* What a completed promotion brought to the target stays there, rows and bytes,
\* whatever later promotions of the component do: the rollback of a copy that
\* fails, dies or half succeeds takes back only what that copy itself created.
THEOREM CompletedKept == Spec => []CompletedStays
<1>1. ASSUME IInv, CopyInv, NEW r \in Requests, req[r] # None, req[r].status = "completed",
             req[r].comp \notin overlapped, NEW p \in PathsOf(req[r].comp)
      PROVE  trow[p] # None /\ p \in tblob
  <2>1. PICK c \in Comps : c = req[r].comp
    BY <1>1 DEF IInv, TypeOK, Request
  <2>2. Done(c)
    BY <1>1, <2>1 DEF Done
  <2> QED
    BY <1>1, <2>1, <2>2 DEF CopyInv, ComponentOK, Present
<1>2. IInv /\ CopyInv => CompletedStays
  BY <1>1 DEF CompletedStays
<1> QED
  BY <1>2, Invariance, CopyInvariance, PTL

\* No half-populated component: once no copy of it runs, the target has the
\* component with every row and its bytes, or neither the component nor a row of
\* it, unless two copies overlapped, a copy died or a step of its rollback failed.
THEOREM NoHalfPromotion == Spec => []WholeOrNothing
<1>1. ASSUME CopyInv, NEW c \in Comps \ (overlapped \cup marred),
             \A w \in Workers : job[w].pc \notin CopyPC \/ Comp(w) # c
      PROVE  \/ tcomp[c] = None /\ \A p \in PathsOf(c) : trow[p] = None
             \/ tcomp[c] # None /\ \A p \in PathsOf(c) : trow[p] # None /\ p \in tblob
  BY <1>1 DEF CopyInv, ComponentOK, Copying, Nothing, Whole, Present
<1>2. CopyInv => WholeOrNothing
  BY <1>1 DEF WholeOrNothing
<1> QED
  BY <1>2, CopyInvariance, PTL

==============================================================================
