------------------------------ MODULE ScanQueue ------------------------------
(* Vulnerability scanning (internal/service/scan_service.go, osv_client.go,
   scanner_status.go): the bounded queue an upload feeds and one worker drains,
   the cron's bulk scan that walks the component table page by page, the scans
   an administrator asks for, the mutex around Trivy, and the two best-effort
   writes a finished scan makes.

   Data: a component is a number, its place in the order Search sorts by; Kind
   says how the scanner treats it; a verdict says whether findings were
   reported.  An id is never reused, so an upload after a delete is another
   component; an upload over a component that is there keeps the id.  What is
   scanned of it is a number too: a tag that is pushed again names another image,
   while OSV is asked about a package's coordinates, which stay. *)
EXTENDS Naturals, Sequences, FiniteSets, SequencesExt

CONSTANTS Components,   \* component ids, in the order of (name, version)
          Kind,         \* id -> image | package | alias | placeholder | other
          Vulnerable,   \* <<id, content>> an intact scanner reports findings for
          MaxContent,   \* bound on the contents of one component
          Again,        \* bound: the components that are uploaded over
          QueueSize,    \* autoScanQueueSize
          PageLimit,    \* the page of one Search call
          Scheduled,    \* the cron expression is present and valid
          MaxRequests,  \* bound on the scans an administrator asks for
          MaxFaults     \* bound on failing calls, timeouts and restarts

VARIABLES present,      \* ids in the component table
          content,      \* id -> what there is to be scanned of it: its first content is 1
          gone,         \* ids that were deleted
          queue,        \* the automatic scans waiting
          installed,    \* the Trivy binary runs on this host
          probe,        \* the cached probe: stale | ready | unready
          trivy,        \* the actor that holds trivyMu, or "free"
          scan,         \* actor -> the Scan call it is in
          bulk,         \* the BulkScan walk of the cron
          shown,        \* id -> component.Extra["scan_result"]: a verdict, and of what
          cleanRows,    \* the scan_results rows that report no finding: <<id, content>>
          misread,      \* history: <<id, content>> found clean by a report that could not
                        \* be parsed or was of an image the caller named instead
          overtaken,    \* history: ids pushed again while a finished scan of the former
                        \* content had yet to be stored, or without being registered
          requests, faults

vars == <<present, content, gone, queue, installed, probe, trivy, scan, bulk, shown, cleanRows,
          misread, overtaken, requests, faults>>

Actors == {"worker", "cron", "request"}
Verdicts == {"clean", "vulns", "failed"}
NoScan == [stage |-> "idle", comp |-> 0, verdict |-> "failed", of |-> 0]
NoResult == [verdict |-> "none", of |-> 0]
NoWalk == [on |-> FALSE, offset |-> 0, items |-> <<>>, more |-> FALSE]
Truth(c) == IF <<c, content[c]>> \in Vulnerable THEN "vulns" ELSE "clean"

TypeOK ==
  /\ present \subseteq Components /\ gone \subseteq Components \ present
  /\ queue \in Seq(Components) /\ Len(queue) <= QueueSize
  /\ installed \in BOOLEAN /\ probe \in {"stale", "ready", "unready"}
  /\ trivy \in Actors \cup {"free"}
  /\ scan \in [Actors -> [stage : {"idle", "get", "wait", "run", "osv", "extra", "row"},
                          comp : Components \cup {0}, verdict : Verdicts, of : Nat]]
  /\ bulk \in [on : BOOLEAN, offset : Nat, items : Seq(Components), more : BOOLEAN]
  /\ content \in [Components -> Nat]
  /\ shown \in [Components -> [verdict : Verdicts \cup {"none"}, of : Nat]]
  /\ cleanRows \subseteq present \X Nat /\ misread \subseteq Components \X Nat
  /\ overtaken \subseteq Components

Init ==
  /\ present = {} /\ content = [c \in Components |-> 1] /\ gone = {} /\ queue = <<>>
  /\ installed = TRUE /\ probe = "stale" /\ trivy = "free"
  /\ scan = [a \in Actors |-> NoScan]
  /\ bulk = NoWalk
  /\ shown = [c \in Components |-> NoResult] /\ cleanRows = {}
  /\ misread = {} /\ overtaken = {} /\ requests = 0 /\ faults = 0

Fault == faults < MaxFaults /\ faults' = faults + 1
At(a, s) == scan[a].stage = s
To(a, s) == scan' = [scan EXCEPT ![a].stage = s]
Done(a) == scan' = [scan EXCEPT ![a] = NoScan]

(* The probe is run at most once per TTL; its outcome is what every caller sees
   until it is stale again. *)
ScannerStatus == IF probe # "stale" THEN probe ELSE IF installed THEN "ready" ELSE "unready"
Pointless(c) == \/ Kind[c] = "alias"
                \/ Kind[c] = "image" /\ ScannerStatus # "ready"
Probed(c) == probe' = IF Kind[c] = "image" THEN ScannerStatus ELSE probe

----------------------------------------------------------------------------
(* Uploads and the queue, which takes no digest aliases. *)
TriggerAsync(c) == queue' = IF Len(queue) < QueueSize /\ Kind[c] # "alias" THEN Append(queue, c) ELSE queue

Upload(c) ==
  /\ c \notin present \cup gone
  /\ present' = present \cup {c}
  /\ TriggerAsync(c)
  /\ UNCHANGED <<content, gone, installed, probe, trivy, scan, bulk, shown, cleanRows, misread, overtaken, requests, faults>>

\* What an upload brings: the content there is, or another image under the tag.
Deliveries(c) == {content[c]} \cup (IF Kind[c] = "image" THEN {content[c] + 1} \cap 1..MaxContent ELSE {})

\* Fault: the upsert of the component keeps the result of the former content.
Fault_KeepResult(c) ==
  /\ c \in present \cap Again
  /\ \E v \in Deliveries(c) : content' = [content EXCEPT ![c] = v]
  /\ TriggerAsync(c)
  /\ UNCHANGED <<present, gone, installed, probe, trivy, scan, bulk, shown, cleanRows, misread, overtaken, requests, faults>>

(* An upload over a component that is there: the bytes are put, then the upsert of
   the component empties its Extra and keeps its id and its history.  If the
   registration fails, the bytes have changed and the result is still shown. *)
UploadAgain(c) ==
  /\ c \in present \cap Again
  /\ \E v \in Deliveries(c) :
       /\ content' = [content EXCEPT ![c] = v]
       /\ \/ /\ TriggerAsync(c) /\ shown' = [shown EXCEPT ![c] = NoResult] /\ faults' = faults
             /\ overtaken' = IF v # content[c] /\ \E a \in Actors : At(a, "extra") /\ scan[a].comp = c
                             THEN overtaken \cup {c} ELSE overtaken
          \/ v # content[c] /\ Fault /\ overtaken' = overtaken \cup {c} /\ UNCHANGED <<queue, shown>>
  /\ UNCHANGED <<present, gone, installed, probe, trivy, scan, bulk, cleanRows, misread, requests>>

\* The component goes, and its scan_results rows by cascade.
Delete(c) ==
  /\ c \in present
  /\ present' = present \ {c} /\ gone' = gone \cup {c}
  /\ shown' = [shown EXCEPT ![c] = NoResult] /\ cleanRows' = {x \in cleanRows : x[1] # c}
  /\ UNCHANGED <<content, queue, installed, probe, trivy, scan, bulk, misread, overtaken, requests, faults>>

Dequeue ==
  LET c == Head(queue) IN
  /\ At("worker", "idle") /\ queue # <<>>
  /\ queue' = Tail(queue)
  /\ IF c \in present /\ Pointless(c)
     THEN scan' = scan
     ELSE scan' = [scan EXCEPT !["worker"] = [NoScan EXCEPT !.stage = "get", !.comp = c]]
  /\ IF c \in present /\ Kind[c] # "alias" THEN Probed(c) ELSE probe' = probe
  /\ UNCHANGED <<present, content, gone, installed, trivy, bulk, shown, cleanRows, misread, overtaken, requests, faults>>

(* One Scan call.  The refusals leave nothing behind; a package goes to OSV, an
   image waits for the Trivy mutex with its timeout already running. *)
Begin(a) ==
  LET c == scan[a].comp IN
  /\ At(a, "get")
  /\ CASE c \notin present \/ Kind[c] \in {"placeholder", "other"} -> Done(a) /\ probe' = probe
       [] c \in present /\ Kind[c] = "package" -> To(a, "osv") /\ probe' = probe
       [] c \in present /\ Kind[c] \in {"image", "alias"} ->
            IF ScannerStatus = "ready" THEN To(a, "wait") /\ probe' = ScannerStatus
            ELSE Done(a) /\ probe' = ScannerStatus
  /\ UNCHANGED <<present, content, gone, queue, installed, trivy, bulk, shown, cleanRows, misread, overtaken, requests, faults>>

LockTrivy(a) ==
  /\ At(a, "wait") /\ trivy = "free"
  /\ trivy' = a /\ To(a, "run")
  /\ UNCHANGED <<present, content, gone, queue, installed, probe, bulk, shown, cleanRows, misread, overtaken, requests, faults>>

Report(a, v) == scan' = [scan EXCEPT ![a] = [stage |-> "extra", comp |-> @.comp, verdict |-> v, of |-> content[@.comp]]]
Misread(c) == misread' = misread \cup {<<c, content[c]>>}

\* Trivy ends with a report: exit status and stderr are not looked at.
TrivyReports(a) ==
  /\ At(a, "run") /\ installed
  /\ trivy' = "free"
  /\ Report(a, Truth(scan[a].comp))
  /\ UNCHANGED <<present, content, gone, queue, installed, probe, bulk, shown, cleanRows, misread, overtaken, requests, faults>>

\* A report that is not the JSON expected is read as one without findings.
TrivyGarbles(a) ==
  /\ At(a, "run") /\ installed /\ Fault
  /\ trivy' = "free"
  /\ Report(a, "clean") /\ Misread(scan[a].comp)
  /\ UNCHANGED <<present, content, gone, queue, installed, probe, bulk, shown, cleanRows, overtaken, requests>>

\* A request may name the image to scan (imageRef); the report is of that one.
ImageNamed(a) ==
  /\ a = "request" /\ At(a, "run") /\ installed
  /\ trivy' = "free"
  /\ Report(a, "clean") /\ Misread(scan[a].comp)
  /\ UNCHANGED <<present, content, gone, queue, installed, probe, bulk, shown, cleanRows, overtaken, requests, faults>>

\* Fault: no output at all is parsed too, and no finding is found in it.
Fault_EmptyIsClean(a) ==
  /\ At(a, "run") /\ (IF installed THEN Fault ELSE faults' = faults)
  /\ trivy' = "free" /\ Report(a, "clean")
  /\ UNCHANGED <<present, content, gone, queue, installed, probe, bulk, shown, cleanRows, misread, overtaken, requests>>

(* Trivy prints nothing and fails: the binary is gone since the probe, the image
   cannot be pulled, or the timeout passed while the call waited for the mutex
   or ran. *)
TrivyFails(a) ==
  /\ At(a, "run") /\ (IF installed THEN Fault ELSE faults' = faults)
  /\ trivy' = "free" /\ Report(a, "failed")
  /\ UNCHANGED <<present, content, gone, queue, installed, probe, bulk, shown, cleanRows, misread, overtaken, requests>>

OSVAnswers(a) ==
  /\ At(a, "osv")
  /\ Report(a, Truth(scan[a].comp))
  /\ UNCHANGED <<present, content, gone, queue, installed, probe, trivy, bulk, shown, cleanRows, misread, overtaken, requests, faults>>

OSVFails(a) ==
  /\ At(a, "osv") /\ Fault
  /\ Report(a, "failed")
  /\ UNCHANGED <<present, content, gone, queue, installed, probe, trivy, bulk, shown, cleanRows, misread, overtaken, requests>>

(* The two best-effort writes.  Updating a component that is gone touches no
   row and inserting a row for it is refused by the foreign key. *)
PersistExtra(a) ==
  LET c == scan[a].comp IN
  /\ At(a, "extra") /\ To(a, "row")
  /\ \/ shown' = (IF c \in present THEN [shown EXCEPT ![c] = [verdict |-> scan[a].verdict, of |-> scan[a].of]] ELSE shown) /\ faults' = faults
     \/ Fault /\ shown' = shown
  /\ UNCHANGED <<present, content, gone, queue, installed, probe, trivy, bulk, cleanRows, misread, overtaken, requests>>

PersistRow(a) ==
  LET c == scan[a].comp IN
  /\ At(a, "row") /\ Done(a)
  /\ \/ /\ cleanRows' = cleanRows \cup (IF scan[a].verdict = "clean" /\ c \in present THEN {<<c, scan[a].of>>} ELSE {})
        /\ faults' = faults
     \/ Fault /\ cleanRows' = cleanRows
  /\ UNCHANGED <<present, content, gone, queue, installed, probe, trivy, bulk, shown, misread, overtaken, requests>>

----------------------------------------------------------------------------
(* BulkScan: pages of the table by offset, one component after the other. *)
Page(offset) == SubSeq(SetToSortSeq(present, <), offset + 1,
                       Min({offset + PageLimit, Cardinality(present)}))
Fetched(offset) == [on |-> TRUE, offset |-> offset, items |-> Page(offset),
                    more |-> Cardinality(present) > offset + PageLimit]

\* The cron skips a tick while its last walk runs.
BulkStart ==
  /\ Scheduled /\ present # {} /\ ~bulk.on
  /\ bulk' = Fetched(0)
  /\ UNCHANGED <<present, content, gone, queue, installed, probe, trivy, scan, shown, cleanRows, misread, overtaken, requests, faults>>

BulkItem ==
  LET c == Head(bulk.items) IN
  /\ At("cron", "idle") /\ bulk.items # <<>>
  /\ bulk' = [bulk EXCEPT !.items = Tail(@)]
  /\ IF Pointless(c) THEN scan' = scan
     ELSE scan' = [scan EXCEPT !["cron"] = [NoScan EXCEPT !.stage = "get", !.comp = c]]
  /\ IF Kind[c] # "alias" THEN Probed(c) ELSE probe' = probe
  /\ UNCHANGED <<present, content, gone, queue, installed, trivy, shown, cleanRows, misread, overtaken, requests, faults>>

\* Fault: the walk ends with its first page.
Fault_FirstPageOnly ==
  /\ bulk.on /\ At("cron", "idle") /\ bulk.items = <<>>
  /\ bulk' = NoWalk /\ faults' = faults
  /\ UNCHANGED <<present, content, gone, queue, installed, probe, trivy, scan, shown, cleanRows, misread, overtaken, requests>>

\* The next page, or the end; a failing Search abandons the walk.
BulkPage ==
  /\ bulk.on /\ At("cron", "idle") /\ bulk.items = <<>>
  /\ \/ bulk.more /\ bulk' = Fetched(bulk.offset + PageLimit) /\ faults' = faults
     \/ bulk.more /\ bulk' = NoWalk /\ Fault
     \/ ~bulk.more /\ bulk' = NoWalk /\ faults' = faults
  /\ UNCHANGED <<present, content, gone, queue, installed, probe, trivy, scan, shown, cleanRows, misread, overtaken, requests>>

\* An administrator asks for one component's scan.
ScanRequest(c) ==
  /\ requests < MaxRequests /\ At("request", "idle")
  /\ requests' = requests + 1
  /\ scan' = [scan EXCEPT !["request"] = [NoScan EXCEPT !.stage = "get", !.comp = c]]
  /\ UNCHANGED <<present, content, gone, queue, installed, probe, trivy, bulk, shown, cleanRows, misread, overtaken, faults>>

----------------------------------------------------------------------------
\* The operator installs or removes the binary; the probe's TTL passes.
Reinstall ==
  /\ Fault /\ installed' = ~installed
  /\ UNCHANGED <<present, content, gone, queue, probe, trivy, scan, bulk, shown, cleanRows, misread, overtaken, requests>>
ProbeExpires ==
  /\ probe # "stale" /\ probe' = "stale"
  /\ UNCHANGED <<present, content, gone, queue, installed, trivy, scan, bulk, shown, cleanRows, misread, overtaken, requests, faults>>

\* The queue, the probe and every scan are memory of the process.
Restart ==
  /\ Fault
  /\ queue' = <<>> /\ probe' = "stale" /\ trivy' = "free"
  /\ scan' = [a \in Actors |-> NoScan] /\ bulk' = NoWalk
  /\ UNCHANGED <<present, content, gone, installed, shown, cleanRows, misread, overtaken, requests>>

Working(a) == \/ Begin(a) \/ LockTrivy(a) \/ TrivyReports(a) \/ TrivyFails(a)
              \/ OSVAnswers(a) \/ PersistExtra(a) \/ PersistRow(a)
Next ==
  \/ \E c \in Components : Upload(c) \/ UploadAgain(c) \/ Delete(c) \/ ScanRequest(c)
  \/ Dequeue
  \/ \E a \in Actors : Working(a) \/ TrivyGarbles(a) \/ ImageNamed(a) \/ OSVFails(a)
  \/ BulkStart \/ BulkItem \/ BulkPage
  \/ Reinstall \/ ProbeExpires \/ Restart

(* The worker, the cron and a request's goroutine keep running, time passes, and
   a waiter gets the Trivy mutex in the end (Go's mutexes starve nobody). *)
Fairness ==
  /\ WF_vars(Dequeue) /\ WF_vars(ProbeExpires)
  /\ WF_vars(BulkStart) /\ WF_vars(BulkItem \/ BulkPage)
  /\ \A a \in Actors : WF_vars(Working(a)) /\ SF_vars(LockTrivy(a))

Spec == Init /\ [][Next]_vars
FairSpec == Spec /\ Fairness
----------------------------------------------------------------------------
(* What was scanned is not found clean if it is vulnerable, in the component's cached
   result or in the history the dashboard aggregates: every way a scan can go wrong
   (a failing run, a timeout, a placeholder version, a refusal) leaves a failure or
   nothing.  And the cached result is of what the component has now.  The exceptions:
   a report that cannot be parsed, which parseTrivyJSON takes for one without
   findings; the image a request names; and a push over a component whose finished
   scan had yet to be stored, after which persistResult writes the verdict on the
   former content.  The rows of the history stay, and are of what was scanned then. *)
NoFalseClean ==
  /\ \A c \in Components : shown[c].verdict = "clean" => <<c, shown[c].of>> \notin Vulnerable \ misread
  /\ cleanRows \cap Vulnerable \subseteq misread
  /\ \A c \in Components : shown[c].verdict # "none" => shown[c].of = content[c] \/ c \in overtaken

(* "What the queue drops, the daily bulk scan picks up": a component that can be
   scanned comes to show a verdict however its automatic scan was lost (full
   queue, restart, failed run, failed write, a walk whose offset a delete has
   shifted), unless it is deleted or the scanner it needs is not there. *)
Scannable(c) == Kind[c] = "package" \/ (Kind[c] = "image" /\ installed)
Covered == \A c \in Components :
  (c \in present /\ Scannable(c)) ~> (shown[c].verdict \in {"clean", "vulns"} \/ ~Scannable(c) \/ c \notin present)
=============================================================================
