--------------------------- MODULE ServicesProofs ---------------------------
(* Promises of what runs beside the requests and of what an administrator sets up,
   for any number of actors: the scanner, the administration of repositories and of
   blob stores, and the login guard.

   Scanner.  What is vulnerable is found clean only by a report that could not be parsed
   or was asked of another image, and what is shown is of the content there is, unless it
   was pushed again at the wrong moment.  Three actors (the queue's worker, the cron's
   walk and an administrator's request) carry a verdict from the scanner to the two
   writes of a finished scan, and may carry one for the same component at the same time,
   past its deletion, another push of it or a restart.  The invariant therefore says of
   every verdict under way what the promise says of the stored ones. *)
EXTENDS ScanQueue, FiniteSetTheorems, WellFoundedInduction, TLAPS

(* The scanner treats every component in one of the five ways of Scan. *)
ScanConstants == Kind \in [Components -> {"image", "package", "alias", "placeholder", "other"}]

(* A call is a record of four fields.  What its component is does not matter: the
   queue and the pages may hold ids that have gone. *)
Call(r) == DOMAIN r = {"stage", "comp", "verdict", "of"}

CallType ==
  /\ scan = [a \in Actors |-> scan[a]] /\ \A a \in Actors : Call(scan[a])
  /\ shown = [c \in Components |-> shown[c]] /\ present \subseteq Components
  /\ content = [c \in Components |-> content[c]]

(* No verdict under way calls clean what is vulnerable, and one that is about to be
   shown is of the content there is. *)
HonestCall(r) == r.verdict = "clean" => <<r.comp, r.of>> \notin Vulnerable \ misread
FreshCall(r) == r.stage = "extra" /\ r.comp \in Components => r.of = content[r.comp] \/ r.comp \in overtaken
HonestCalls == \A a \in Actors : HonestCall(scan[a]) /\ FreshCall(scan[a])

ScanInv == CallType /\ HonestCalls /\ NoFalseClean

(* What a step leaves alone that stores no result. *)
Unstored == UNCHANGED <<shown, cleanRows, content, overtaken, present>>

----------------------------------------------------------------------------
(* A call that is dropped, or starts, carries no verdict yet. *)
LEMMA NewCall ==
  /\ Call(NoScan) /\ NoScan.verdict = "failed" /\ NoScan.stage = "idle"
  /\ \A c : LET r == [NoScan EXCEPT !.stage = "get", !.comp = c]
            IN  Call(r) /\ r.verdict = "failed" /\ r.stage = "get"
  BY DEF Call, NoScan

(* One actor's call is replaced by another honest one. *)
LEMMA Replaced ==
  ASSUME ScanInv, NEW a \in Actors, NEW r, Call(r), scan' = [scan EXCEPT ![a] = r],
         misread \subseteq misread', UNCHANGED <<content, overtaken>>,
         HonestCall(r)', FreshCall(r)
  PROVE  /\ scan' = [b \in Actors |-> scan'[b]] /\ \A b \in Actors : Call(scan'[b])
         /\ HonestCalls'
<1>1. scan' = [b \in Actors |-> IF b = a THEN r ELSE scan[b]]  BY DEF ScanInv, CallType
<1>2. \A b \in Actors : scan'[b] = IF b = a THEN r ELSE scan[b]  BY <1>1
<1>3. \A b \in Actors : Call(scan'[b])  BY <1>2 DEF ScanInv, CallType
<1>4. HonestCalls'  BY <1>2 DEF ScanInv, HonestCalls, HonestCall, FreshCall
<1> QED  BY <1>1, <1>2, <1>3, <1>4

(* A step that does no more than that. *)
LEMMA OneCall ==
  ASSUME ScanInv, NEW a \in Actors, NEW r, Call(r), scan' = [scan EXCEPT ![a] = r],
         misread \subseteq misread', Unstored,
         HonestCall(r)', FreshCall(r)
  PROVE  ScanInv'
<1>1. /\ scan' = [b \in Actors |-> scan'[b]] /\ \A b \in Actors : Call(scan'[b])
      /\ HonestCalls'
  BY Replaced DEF Unstored
<1>2. CallType'  BY <1>1 DEF ScanInv, CallType, Unstored
<1>3. NoFalseClean'  BY DEF ScanInv, NoFalseClean, Unstored
<1> QED  BY <1>1, <1>2, <1>3 DEF ScanInv

(* A call moves on before it has a verdict to show. *)
LEMMA MovedOn ==
  ASSUME ScanInv, NEW a \in Actors, NEW st, st # "extra", To(a, st), Unstored, misread' = misread
  PROVE  ScanInv'
<1>1. Call(scan[a]) /\ HonestCall(scan[a])  BY DEF ScanInv, CallType, HonestCalls
<1>2. PICK r : r = [scan[a] EXCEPT !.stage = st]  OBVIOUS
<1>3. scan' = [scan EXCEPT ![a] = r]  BY <1>2 DEF To
<1>4. Call(r) /\ r.verdict = scan[a].verdict /\ r.comp = scan[a].comp /\ r.of = scan[a].of /\ r.stage = st
  BY <1>1, <1>2 DEF Call
<1> QED  BY <1>1, <1>3, <1>4, OneCall DEF HonestCall, FreshCall

(* A call ends, or begins. *)
LEMMA Dropped ==
  ASSUME ScanInv, NEW a \in Actors, Done(a), Unstored, misread' = misread
  PROVE  ScanInv'
  BY OneCall, NewCall DEF Done, HonestCall, FreshCall

LEMMA Started ==
  ASSUME ScanInv, NEW a \in Actors, NEW c,
         scan' = [scan EXCEPT ![a] = [NoScan EXCEPT !.stage = "get", !.comp = c]],
         Unstored, misread' = misread
  PROVE  ScanInv'
<1>1. PICK r : r = [NoScan EXCEPT !.stage = "get", !.comp = c]  OBVIOUS
<1>2. scan' = [scan EXCEPT ![a] = r]  BY <1>1
<1>3. Call(r) /\ r.verdict = "failed" /\ r.stage = "get"  BY <1>1, NewCall
<1> QED  BY <1>2, <1>3, OneCall DEF HonestCall, FreshCall

(* A step that touches no call and none of the stored verdicts. *)
LEMMA NothingWritten ==
  ASSUME ScanInv, UNCHANGED <<scan, shown, cleanRows, misread, content, overtaken>>,
         present' \subseteq Components
  PROVE  ScanInv'
  BY DEF ScanInv, CallType, Call, HonestCalls, HonestCall, FreshCall, NoFalseClean

(* A scanner has answered, about the content there is: the verdict is the truth, a
   failure, or comes from a report that is not one. *)
LEMMA Reported ==
  ASSUME ScanInv, NEW a \in Actors, NEW v, Report(a, v), misread \subseteq misread', Unstored,
         v = "clean" => <<scan[a].comp, content[scan[a].comp]>> \notin Vulnerable \ misread'
  PROVE  ScanInv'
<1>1. DOMAIN scan = Actors  BY DEF ScanInv, CallType
<1>2. PICK r : r = [stage |-> "extra", comp |-> scan[a].comp, verdict |-> v, of |-> content[scan[a].comp]]  OBVIOUS
<1>3. scan' = [scan EXCEPT ![a] = r]  BY <1>1, <1>2 DEF Report
<1>4. Call(r) /\ HonestCall(r)' /\ FreshCall(r)  BY <1>2 DEF Call, HonestCall, FreshCall
<1> QED  BY <1>3, <1>4, OneCall

----------------------------------------------------------------------------
(* No scan has been made yet. *)
LEMMA InitScanInv == ASSUME ScanConstants, Init PROVE ScanInv
<1>1. CallType  BY NewCall DEF Init, CallType
<1>2. HonestCalls  BY NewCall DEF Init, HonestCalls, HonestCall, FreshCall
<1>3. NoFalseClean  BY DEF Init, NoFalseClean, NoResult
<1> QED  BY <1>1, <1>2, <1>3 DEF ScanInv

(* A delete takes the verdicts of the component with it. *)
LEMMA DeleteScanInv == ASSUME ScanConstants, ScanInv, NEW c \in Components, Delete(c) PROVE ScanInv'
<1>1. \A d \in Components : shown'[d] = IF d = c THEN NoResult ELSE shown[d]  BY DEF Delete, ScanInv, CallType
<1>2. CallType'  BY DEF Delete, ScanInv, CallType, Call
<1>3. HonestCalls'  BY DEF Delete, ScanInv, HonestCalls, HonestCall, FreshCall
<1>4. cleanRows' \subseteq cleanRows  BY DEF Delete
<1>5. NoFalseClean'  BY <1>1, <1>4 DEF Delete, ScanInv, NoFalseClean, NoResult
<1> QED  BY <1>2, <1>3, <1>5 DEF ScanInv

(* Another upload empties what is shown; a verdict that has yet to be shown is of the
   former content, and recorded as overtaken. *)
LEMMA UploadAgainScanInv ==
  ASSUME ScanConstants, ScanInv, NEW c \in Components, UploadAgain(c)
  PROVE ScanInv'
<1>1. PICK v : /\ content' = [content EXCEPT ![c] = v]
               /\ \/ /\ shown' = [shown EXCEPT ![c] = NoResult]
                     /\ overtaken' = IF v # content[c] /\ \E a \in Actors : At(a, "extra") /\ scan[a].comp = c
                                     THEN overtaken \cup {c} ELSE overtaken
                  \/ shown' = shown /\ overtaken' = overtaken \cup {c}
  BY DEF UploadAgain
<1>2. UNCHANGED <<present, scan, cleanRows, misread>>  BY DEF UploadAgain
<1>3. \A d \in Components : content'[d] = IF d = c THEN v ELSE content[d]  BY <1>1 DEF ScanInv, CallType
<1>4. CallType'  BY <1>1, <1>2 DEF ScanInv, CallType, Call
<1>5. overtaken \subseteq overtaken'  BY <1>1
<1>6. HonestCalls'
  <2>1. SUFFICES ASSUME NEW a \in Actors PROVE HonestCall(scan[a])' /\ FreshCall(scan[a])'
    BY DEF HonestCalls
  <2>2. HonestCall(scan[a]) /\ FreshCall(scan[a])  BY DEF ScanInv, HonestCalls
  <2>3. HonestCall(scan[a])'  BY <1>2, <2>2 DEF HonestCall
  <2>4. CASE scan[a].comp = c /\ scan[a].stage = "extra"
    <3>1. v = content[c] \/ c \in overtaken'  BY <1>1, <2>4 DEF At
    <3> QED  BY <1>2, <1>3, <1>5, <2>2, <2>3, <2>4, <3>1 DEF FreshCall
  <2>5. CASE ~(scan[a].comp = c /\ scan[a].stage = "extra")
    BY <1>2, <1>3, <1>5, <2>2, <2>3, <2>5 DEF FreshCall
  <2> QED  BY <2>4, <2>5
<1>7. NoFalseClean'
  <2>1. cleanRows' \cap Vulnerable \subseteq misread'  BY <1>2 DEF ScanInv, NoFalseClean
  <2>2. CASE shown' = [shown EXCEPT ![c] = NoResult]
    <3>1. \A d \in Components : shown'[d] = IF d = c THEN NoResult ELSE shown[d]  BY <2>2 DEF ScanInv, CallType
    <3> QED  BY <1>2, <1>3, <1>5, <2>1, <3>1 DEF ScanInv, NoFalseClean, NoResult
  <2>3. CASE shown' = shown /\ overtaken' = overtaken \cup {c}
    BY <1>2, <1>3, <2>1, <2>3 DEF ScanInv, NoFalseClean
  <2> QED  BY <1>1, <2>2, <2>3
<1> QED  BY <1>4, <1>6, <1>7 DEF ScanInv

(* The first write of a finished scan: the component may have gone, and the call
   that writes need not be the last one that was started for it. *)
LEMMA PersistExtraScanInv ==
  ASSUME ScanConstants, ScanInv, NEW a \in Actors, PersistExtra(a)
  PROVE  ScanInv'
<1> DEFINE c == scan[a].comp
           res == [verdict |-> scan[a].verdict, of |-> scan[a].of]
<1>1. /\ To(a, "row") /\ scan[a].stage = "extra" /\ cleanRows' = cleanRows /\ misread' = misread /\ present' = present
      /\ content' = content /\ overtaken' = overtaken
  BY DEF PersistExtra, At
<1>2. CASE shown' = shown  BY <1>1, <1>2, MovedOn DEF Unstored
<1>3. CASE shown' = [shown EXCEPT ![c] = res]
  <2>1. \A d \in Components : shown'[d] = IF d = c THEN res ELSE shown[d]
    BY <1>3 DEF ScanInv, CallType
  <2>2. Call(scan[a]) /\ HonestCall(scan[a]) /\ FreshCall(scan[a])  BY DEF ScanInv, CallType, HonestCalls
  <2>3. NoFalseClean'  BY <1>1, <2>1, <2>2 DEF ScanInv, NoFalseClean, HonestCall, FreshCall
  <2>4. PICK r : r = [scan[a] EXCEPT !.stage = "row"]  OBVIOUS
  <2>6. scan' = [scan EXCEPT ![a] = r]  BY <1>1, <2>4 DEF To
  <2>7. Call(r) /\ r.comp = scan[a].comp /\ r.verdict = scan[a].verdict /\ r.of = scan[a].of /\ r.stage = "row"
    BY <2>2, <2>4 DEF Call
  <2>8. /\ scan' = [b \in Actors |-> scan'[b]] /\ \A b \in Actors : Call(scan'[b])
        /\ HonestCalls'
    BY <1>1, <2>2, <2>6, <2>7, Replaced DEF HonestCall, FreshCall
  <2>9. shown' = [d \in Components |-> shown'[d]]  BY <1>3 DEF ScanInv, CallType
  <2>10. CallType'  BY <1>1, <2>8, <2>9 DEF ScanInv, CallType
  <2> QED  BY <2>3, <2>8, <2>10 DEF ScanInv
<1> QED  BY <1>2, <1>3 DEF PersistExtra

(* The second write ends the scan. *)
LEMMA PersistRowScanInv ==
  ASSUME ScanConstants, ScanInv, NEW a \in Actors, PersistRow(a)
  PROVE  ScanInv'
<1>1. /\ Done(a) /\ shown' = shown /\ misread' = misread /\ present' = present
      /\ content' = content /\ overtaken' = overtaken
  BY DEF PersistRow
<1>2. HonestCall(scan[a])  BY DEF ScanInv, HonestCalls
<1>3. cleanRows' \cap Vulnerable \subseteq misread
  BY <1>2 DEF PersistRow, ScanInv, NoFalseClean, HonestCall
<1>4. NoFalseClean'  BY <1>1, <1>3 DEF ScanInv, NoFalseClean
<1>5. /\ scan' = [b \in Actors |-> scan'[b]] /\ \A b \in Actors : Call(scan'[b])
      /\ HonestCalls'
  BY <1>1, Replaced, NewCall DEF Done, HonestCall, FreshCall
<1>6. CallType'  BY <1>1, <1>5 DEF ScanInv, CallType
<1> QED  BY <1>4, <1>5, <1>6 DEF ScanInv

(* One step of one actor's scan. *)
LEMMA WorkingScanInv ==
  ASSUME ScanConstants, ScanInv, NEW a \in Actors,
         Working(a) \/ TrivyGarbles(a) \/ ImageNamed(a) \/ OSVFails(a)
  PROVE  ScanInv'
<1>t. \A c : Truth(c) = "clean" => <<c, content[c]>> \notin Vulnerable  BY DEF Truth
<1>1. CASE Begin(a)
  <2>1. Unstored /\ misread' = misread  BY <1>1 DEF Begin, Unstored
  <2>2. Done(a) \/ \E st : st # "extra" /\ To(a, st)
    <3> DEFINE c == scan[a].comp
    <3>1. CASE c \notin present  BY <1>1, <3>1 DEF Begin
    <3>2. CASE c \in present
      <4>1. Kind[c] \in {"image", "package", "alias", "placeholder", "other"}
        BY <3>2 DEF ScanInv, CallType, ScanConstants
      <4> QED  BY <1>1, <3>2, <4>1 DEF Begin
    <3> QED  BY <3>1, <3>2
  <2> QED  BY <2>1, <2>2, Dropped, MovedOn
<1>2. CASE LockTrivy(a)  BY <1>2, MovedOn DEF LockTrivy, Unstored
<1>3. CASE TrivyReports(a)
  <2>1. Report(a, Truth(scan[a].comp)) /\ Unstored /\ misread' = misread  BY <1>3 DEF TrivyReports, Unstored
  <2> QED  BY <2>1, <1>t, Reported
<1>4. CASE TrivyFails(a)
  <2>1. Report(a, "failed") /\ Unstored /\ misread' = misread  BY <1>4 DEF TrivyFails, Unstored
  <2> QED  BY <2>1, Reported
<1>5. CASE OSVAnswers(a)
  <2>1. Report(a, Truth(scan[a].comp)) /\ Unstored /\ misread' = misread  BY <1>5 DEF OSVAnswers, Unstored
  <2> QED  BY <2>1, <1>t, Reported
<1>6. CASE PersistExtra(a)  BY <1>6, PersistExtraScanInv
<1>7. CASE PersistRow(a)  BY <1>7, PersistRowScanInv
<1>8. CASE TrivyGarbles(a) \/ ImageNamed(a)
  <2>1. Report(a, "clean") /\ Misread(scan[a].comp) /\ Unstored  BY <1>8 DEF TrivyGarbles, ImageNamed, Unstored
  <2>2. misread \subseteq misread' /\ <<scan[a].comp, content[scan[a].comp]>> \in misread'  BY <2>1 DEF Misread
  <2> QED  BY <2>1, <2>2, Reported
<1>9. CASE OSVFails(a)
  <2>1. Report(a, "failed") /\ Unstored /\ misread' = misread  BY <1>9 DEF OSVFails, Unstored
  <2> QED  BY <2>1, Reported
<1> QED  BY <1>1, <1>2, <1>3, <1>4, <1>5, <1>6, <1>7, <1>8, <1>9 DEF Working

LEMMA NextScanInv == ASSUME ScanConstants, ScanInv, [Next]_vars PROVE ScanInv'
<1>p. present \subseteq Components  BY DEF ScanInv, CallType
<1>a. "worker" \in Actors /\ "cron" \in Actors /\ "request" \in Actors  BY DEF Actors
<1>1. ASSUME NEW c \in Components, Upload(c) \/ UploadAgain(c) \/ Delete(c) \/ ScanRequest(c) PROVE ScanInv'
  <2>1. CASE Upload(c)  BY <2>1, <1>p, NothingWritten DEF Upload
  <2>2. CASE UploadAgain(c)  BY <2>2, UploadAgainScanInv
  <2>3. CASE Delete(c)  BY <2>3, DeleteScanInv
  <2>4. CASE ScanRequest(c)  BY <1>a, <2>4, Started DEF ScanRequest, Unstored
  <2> QED  BY <1>1, <2>1, <2>2, <2>3, <2>4
<1>2. CASE Dequeue
  <2>1. Unstored /\ misread' = misread  BY <1>2 DEF Dequeue, Unstored
  <2>2. \/ scan' = scan
        \/ \E c : scan' = [scan EXCEPT !["worker"] = [NoScan EXCEPT !.stage = "get", !.comp = c]]
    BY <1>2 DEF Dequeue
  <2> QED  BY <1>a, <2>1, <2>2, Started, NothingWritten, <1>p DEF Unstored
<1>3. ASSUME NEW a \in Actors, Working(a) \/ TrivyGarbles(a) \/ ImageNamed(a) \/ OSVFails(a) PROVE ScanInv'
  BY <1>3, WorkingScanInv
<1>4. CASE BulkStart \/ BulkPage
  BY <1>4, <1>p, NothingWritten DEF BulkStart, BulkPage
<1>5. CASE BulkItem
  <2>1. Unstored /\ misread' = misread  BY <1>5 DEF BulkItem, Unstored
  <2>2. \/ scan' = scan
        \/ \E c : scan' = [scan EXCEPT !["cron"] = [NoScan EXCEPT !.stage = "get", !.comp = c]]
    BY <1>5 DEF BulkItem
  <2> QED  BY <1>a, <2>1, <2>2, Started, NothingWritten, <1>p DEF Unstored
<1>6. CASE Reinstall \/ ProbeExpires  BY <1>6, <1>p, NothingWritten DEF Reinstall, ProbeExpires
<1>7. CASE Restart
  <2>1. CallType'  BY <1>7, NewCall DEF Restart, ScanInv, CallType
  <2>2. HonestCalls'  BY <1>7, NewCall DEF Restart, HonestCalls, HonestCall, FreshCall
  <2>3. NoFalseClean'  BY <1>7 DEF Restart, ScanInv, NoFalseClean
  <2> QED  BY <2>1, <2>2, <2>3 DEF ScanInv
<1>8. CASE UNCHANGED vars  BY <1>8, <1>p, NothingWritten DEF vars
<1> QED  BY <1>1, <1>2, <1>3, <1>4, <1>5, <1>6, <1>7, <1>8 DEF Next

(* scan_service.go: every way a scan goes wrong (a failing run, a timeout, a refusal, a
   write that is lost, a component deleted or a server restarted in the middle) leaves a
   failure or nothing; only a report that could not be parsed, or that a request asked of
   another image, calls clean what is vulnerable; and what is shown is of the content the
   component has, unless it was pushed again between a scan and its write, or its push
   was not registered. *)
THEOREM NeverFalselyClean == ASSUME ScanConstants PROVE Spec => []NoFalseClean
<1>1. Init => ScanInv  BY InitScanInv
<1>2. ScanInv /\ [Next]_vars => ScanInv'  BY NextScanInv
<1>3. ScanInv => NoFalseClean  BY DEF ScanInv
<1> QED  BY <1>1, <1>2, <1>3, PTL DEF Spec
-----------------------------------------------------------------------------
(* The administration of repositories.  Every request checks what it is about to
   write against tables that others change before it writes.  What the promise needs
   is what a request may rely on as long as nothing was written behind it; a request
   something was written behind is no longer promised anything, and its row is loose
   from its write on. *)
CONSTANTS Repos, Formats, Unaddressable, Policies, Rules, Stores, Existing, NewRows, Bodies, Clients, MaxOps, None
VARIABLES repo, policy, rule, store, op, loose, ops

Repos_ == INSTANCE RepositoryAdmin

(* The columns of a row, and what each may hold in a row and in a request. *)
AllColumns == Repos_!Fields \cup {"type", "format"}
Column(f) ==
  CASE f = "type" -> {"hosted", "proxy", "group"}
    [] f = "format" -> Formats
    [] f = "members" -> SUBSET Repos
    [] f = "policies" -> SUBSET Policies
    [] f = "store" -> Stores \cup {None}
    [] f = "quota" -> Nat \cup {None}
    [] f = "rule" -> Rules \cup {None}
    [] f \in {"online", "anon"} -> BOOLEAN
Sent(f) ==
  IF f \in {"store", "rule"} THEN (Column(f) \cup {Repos_!Empty}) \ {None}
  ELSE Column(f) \ {None}

IsProxy(p) == p = [url |-> p.url, secret |-> p.secret]
IsRow(row) ==
  /\ DOMAIN row = AllColumns
  /\ \A f \in AllColumns \ {"proxy"} : row[f] \in Column(f)
  /\ row.proxy # None => IsProxy(row.proxy)
IsRequest(q) ==
  /\ DOMAIN q \subseteq Repos_!Fields 
  /\ \A f \in DOMAIN q \ {"proxy"} : q[f] \in Sent(f)
  /\ "proxy" \in DOMAIN q => IsProxy(q.proxy)
IsOp(o) ==
  \/ /\ o.pc = "insert" /\ DOMAIN o = {"pc", "repo", "row", "moved"}
     /\ o.repo \in Repos /\ IsRow(o.row)
  \/ /\ o.pc \in {"read", "check", "write"}
     /\ DOMAIN o = {"pc", "repo", "req", "named", "row", "moved"}
     /\ o.repo \in Repos /\ IsRow(o.row) /\ IsRequest(o.req) /\ o.named \subseteq DOMAIN o.req
  \/ /\ o.pc = "remove" /\ DOMAIN o = {"pc", "policy", "moved"} /\ o.policy \in Policies

(* What a row refers to is there and fits it. *)
Fits(r, row) ==
  /\ \A m \in row.members : row.type = "group" =>
       (m # r /\ repo[m] # None /\ repo[m].type \in {"hosted", "proxy"} /\ repo[m].format = row.format)
  /\ \A p \in row.policies : policy[p] \in {"*", row.format}
  /\ (row.rule # None => row.rule \in rule)
  /\ (row.store # None => (store[row.store] # None /\ (row.quota # None => row.quota <= store[row.store])))

(* What holds of a row that is about to be written, up to its foreign keys, which
   the write itself looks up. *)
Vetted(r, row) == Repos_!ForeignKeys(row) => Fits(r, row)

(* None is no name, no number and no row; the rows to start from, the rows that are
   created and the bodies of updates are what the handlers decode, and the tables to
   start from refer to what there is. *)
AdminConstants ==
  /\ ~IsRow(None) /\ ~IsOp(None) /\ None \notin Formats \cup {"*"} /\ None \notin Nat
  /\ "*" \notin Formats /\ Repos_!Empty \notin Stores \cup Rules
  /\ None \notin Stores \cup Rules \cup BOOLEAN \cup SUBSET Repos \cup SUBSET Policies
  /\ \A row \in NewRows : IsRow(row)
  /\ \A b \in Bodies : IsRequest(b)
  /\ \A t \in Existing :
       /\ t = [r \in Repos |-> t[r]]
       /\ \A r \in Repos : t[r] # None =>
            /\ IsRow(t[r])
            /\ \A m \in t[r].members : t[r].type = "group" =>
                 (m # r /\ t[m] # None /\ t[m].type \in {"hosted", "proxy"} /\ t[m].format = t[r].format)
            /\ (t[r].store # None /\ t[r].quota # None => t[r].quota <= 2)

AdminType ==
  /\ repo = [r \in Repos |-> repo[r]] /\ \A r \in Repos : repo[r] # None => IsRow(repo[r])
  /\ policy \in [Policies -> Formats \cup {"*", None}] /\ rule \subseteq Rules
  /\ store \in [Stores -> Nat \cup {None}]
  /\ op = [c \in Clients |-> op[c]] /\ \A c \in Clients : op[c] # None => IsOp(op[c])

(* What an update leaves alone: the fields its caller did not name, and in a proxy
   configuration a secret it did not send. *)
Spares(o, was, is) ==
  /\ \A f \in Repos_!Fields \ o.named : is[f] = was[f]
  /\ "proxy" \in o.named /\ o.req.proxy.secret = Repos_!Kept /\ was.proxy # None => is.proxy.secret = was.proxy.secret

(* What a request that nothing was written behind may rely on: a row it creates has
   no name yet, the row it replaces is the one it read, and what it is about to
   write was checked against the tables as they are. *)
Reliable(o) ==
  /\ o.pc = "insert" => repo[o.repo] = None /\ Vetted(o.repo, o.row)
  /\ o.pc \in {"read", "check"} =>
       o.row = repo[o.repo] /\ repo[o.repo] # None /\ Spares(o, o.row, Repos_!Applied(o.row, o.req))
  /\ o.pc = "write" =>
       /\ repo[o.repo] # None /\ o.row.type = repo[o.repo].type /\ o.row.format = repo[o.repo].format
       /\ Vetted(o.repo, o.row) /\ Spares(o, repo[o.repo], o.row)
  /\ o.pc = "remove" => \A r \in Repos : repo[r] # None => o.policy \notin repo[r].policies
AllReliable == \A c \in Clients : op[c] # None /\ ~op[c].moved => Reliable(op[c])

AdminInv == AdminType /\ Repos_!ReferencesHold /\ AllReliable

----------------------------------------------------------------------------
(* The requests and the tables, apart. *)
AdminOps == op = [c \in Clients |-> op[c]] /\ \A c \in Clients : op[c] # None => IsOp(op[c])
Tables ==
  /\ repo = [r \in Repos |-> repo[r]] /\ \A r \in Repos : repo[r] # None => IsRow(repo[r])
  /\ policy \in [Policies -> Formats \cup {"*", None}] /\ rule \subseteq Rules
  /\ store \in [Stores -> Nat \cup {None}]

LEMMA TypeParts == AdminType <=> AdminOps /\ Tables
  BY DEF AdminType, AdminOps, Tables

(* A request that is told of a write is still a request. *)
LEMMA MovedOp ==
  ASSUME NEW o, IsOp(o)
  PROVE  IsOp([o EXCEPT !.moved = TRUE]) /\ [o EXCEPT !.moved = TRUE].moved = TRUE
<1> DEFINE n == [o EXCEPT !.moved = TRUE]
<1>1. /\ DOMAIN n = DOMAIN o /\ n.pc = o.pc /\ n.moved = TRUE
      /\ o.pc # "remove" => n.repo = o.repo /\ n.row = o.row
      /\ o.pc \in {"read", "check", "write"} => n.req = o.req /\ n.named = o.named
      /\ o.pc = "remove" => n.policy = o.policy
  BY DEF IsOp
<1> HIDE DEF n
<1>2. IsOp(n)  BY <1>1 DEF IsOp
<1> QED  BY <1>1, <1>2 DEF n

(* A write leaves no request that nothing was written behind. *)
LEMMA EndsOps ==
  ASSUME AdminConstants, AdminOps, NEW c \in Clients, Repos_!Ends(c)
  PROVE  AdminOps' /\ AllReliable' /\ \A d \in Clients \ {c} : op[d] # None => op'[d] # None
<1>1. ASSUME NEW d \in Clients
      PROVE  (d = c \/ op[d] = None => op'[d] = None)
             /\ (d # c /\ op[d] # None => IsOp(op'[d]) /\ op'[d].moved = TRUE)
  <2>1. op'[d] = IF d = c \/ op[d] = None THEN None ELSE [op[d] EXCEPT !.moved = TRUE]  BY DEF Repos_!Ends
  <2>2. ASSUME op[d] # None PROVE IsOp([op[d] EXCEPT !.moved = TRUE]) /\ [op[d] EXCEPT !.moved = TRUE].moved = TRUE
    BY <2>2, MovedOp DEF AdminOps
  <2> QED  BY <2>1, <2>2
<1>2. AdminOps'
  <2>1. op' = [d \in Clients |-> op'[d]]  BY DEF Repos_!Ends
  <2> QED  BY <1>1, <2>1 DEF AdminOps
<1>3. AllReliable'  BY <1>1 DEF AllReliable
<1> QED  BY <1>1, <1>2, <1>3 DEF AdminConstants

(* A request takes a step of its own: the tables and the other requests stay. *)
LEMMA AdminOwnStep ==
  ASSUME AdminConstants, AdminInv, NEW c \in Clients, NEW rec,
         rec # None => IsOp(rec) /\ (~rec.moved => Reliable(rec)),
         op' = [op EXCEPT ![c] = rec], UNCHANGED <<repo, policy, rule, store, loose>>
  PROVE  AdminInv'
<1>1. op'[c] = rec /\ \A d \in Clients \ {c} : op'[d] = op[d]  BY DEF AdminInv, AdminType
<1>2. op' = [d \in Clients |-> op'[d]]  BY DEF AdminInv, AdminType
<1>3. AdminType'  BY <1>1, <1>2 DEF AdminInv, AdminType
<1>4. Repos_!ReferencesHold'  BY DEF AdminInv, Repos_!ReferencesHold
<1>5. ASSUME NEW d \in Clients, op'[d] # None, ~op'[d].moved PROVE Reliable(op[d])'
  <2>1. Reliable(op'[d])  BY <1>1, <1>5 DEF AdminInv, AllReliable
  <2> DEFINE o == op'[d]
  <2>2. Reliable(o) /\ o = op'[d]  BY <2>1
  <2> HIDE DEF o
  <2>3. Vetted(o.repo, o.row) => Vetted(op[d].repo, op[d].row)'  BY <2>2 DEF Vetted, Fits, Repos_!ForeignKeys
  <2>4. Spares(o, repo[o.repo], o.row) => Spares(op[d], repo[op[d].repo], op[d].row)'  BY <2>2 DEF Spares
  <2>5. Spares(o, o.row, Repos_!Applied(o.row, o.req)) => Spares(op[d], op[d].row, Repos_!Applied(op[d].row, op[d].req))'
    BY <2>2 DEF Spares
  <2> QED  BY <2>2, <2>3, <2>4, <2>5 DEF Reliable
<1> QED  BY <1>3, <1>4, <1>5 DEF AdminInv, AllReliable

LEMMA FailsAdmin ==
  ASSUME AdminConstants, AdminInv, NEW c \in Clients, Repos_!Fails(c)
  PROVE  AdminInv'
  BY AdminOwnStep DEF Repos_!Fails

----------------------------------------------------------------------------
(* What the checks of create and update say of a row. *)
LEMMA CheckedFits ==
  ASSUME AdminConstants, AdminType, NEW r \in Repos, NEW row, IsRow(row), Repos_!Checked(row),
         repo[r] # None => repo[r].type = row.type
  PROVE  Vetted(r, row)
<1>1. row.members \subseteq Repos /\ row.policies \subseteq Policies /\ row.store \in Stores \cup {None}
      /\ row.quota \in Nat \cup {None} /\ row.rule \in Rules \cup {None} /\ row.format \in Formats
      /\ row.type \in {"hosted", "proxy", "group"}
  BY DEF IsRow, AllColumns, Repos_!Fields, Column
<1>2. ASSUME NEW m \in row.members, row.type = "group"
      PROVE  m # r /\ repo[m] # None /\ repo[m].type \in {"hosted", "proxy"} /\ repo[m].format = row.format
  <2>1. repo[m] # None /\ repo[m].type # "group" /\ repo[m].format = row.format
    BY <1>2 DEF Repos_!Checked, Repos_!validateGroupMembers
  <2>2. repo[m].type \in {"hosted", "proxy", "group"}
    BY <1>1, <1>2, <2>1 DEF AdminType, IsRow, AllColumns, Repos_!Fields, Column
  <2> QED  BY <1>2, <2>1, <2>2
<1>3. \A p \in row.policies : policy[p] \in {"*", row.format}
  BY DEF Repos_!Checked, Repos_!validateCleanupPolicies
<1>4. ASSUME row.store # None, store[row.store] # None, row.quota # None PROVE row.quota <= store[row.store]
  BY <1>4 DEF Repos_!Checked, Repos_!validateRepoQuotaAgainstStore
<1> QED  BY <1>2, <1>3, <1>4 DEF Vetted, Repos_!ForeignKeys, Fits

LEMMA CreateCheckAdmin ==
  ASSUME AdminConstants, AdminInv, NEW c \in Clients, Repos_!CreateCheck(c)
  PROVE  AdminInv'
<1>1. PICK r \in Repos, row \in NewRows :
        /\ repo[r] = None /\ Repos_!Checked(row)
        /\ op' = [op EXCEPT ![c] = [pc |-> "insert", repo |-> r, row |-> [row EXCEPT !.online = TRUE], moved |-> FALSE]]
        /\ UNCHANGED <<repo, policy, rule, store, loose>>
  BY Zenon DEF Repos_!CreateCheck, Repos_!Begin
<1> DEFINE on == [row EXCEPT !.online = TRUE]
<1> DEFINE o == [pc |-> "insert", repo |-> r, row |-> on, moved |-> FALSE]
<1>2. IsRow(row)  BY DEF AdminConstants
<1>3. /\ IsRow(on) /\ on.type = row.type /\ on.format = row.format /\ on.members = row.members
      /\ on.policies = row.policies /\ on.store = row.store /\ on.quota = row.quota /\ on.rule = row.rule
  BY <1>2 DEF IsRow, AllColumns, Repos_!Fields, Column, IsProxy
<1> HIDE DEF on
<1>4. Repos_!Checked(on)
  BY <1>1, <1>3 DEF Repos_!Checked, Repos_!validateGroupMembers, Repos_!validateCleanupPolicies,
      Repos_!validateRepoQuotaAgainstStore
<1>5. Vetted(r, on)  BY <1>1, <1>3, <1>4, CheckedFits DEF AdminInv
<1>6. IsOp(o)  BY <1>3 DEF IsOp
<1>7. Reliable(o)  BY <1>1, <1>5 DEF Reliable
<1> HIDE DEF o
<1>8. op' = [op EXCEPT ![c] = o]  BY <1>1 DEF o, on
<1> QED  BY <1>1, <1>6, <1>7, <1>8, AdminOwnStep

(* A write of the tables. *)
LEMMA RowWritten ==
  ASSUME AdminConstants, AdminInv, NEW c \in Clients, Repos_!Ends(c), Tables', Repos_!ReferencesHold'
  PROVE  AdminInv'
<1>1. AdminOps  BY TypeParts DEF AdminInv
<1>2. AdminOps' /\ AllReliable'  BY <1>1, EndsOps
<1>3. AdminType'  BY <1>2 DEF AdminType, AdminOps, Tables
<1> QED  BY <1>2, <1>3 DEF AdminInv

LEMMA CreateInsertAdmin ==
  ASSUME AdminConstants, AdminInv, NEW c \in Clients, Repos_!CreateInsert(c)
  PROVE  AdminInv'
<1> DEFINE r == op[c].repo
           row == op[c].row
<1>0. r \in Repos /\ IsRow(row) /\ op[c] # None  BY DEF Repos_!CreateInsert, AdminInv, AdminType, IsOp
<1>1. CASE repo[r] = None /\ Repos_!ForeignKeys(row)
  <2>1. /\ repo' = [repo EXCEPT ![r] = row] /\ Repos_!Ends(c) /\ UNCHANGED <<policy, rule, store>>
        /\ loose' = IF op[c].moved THEN loose \cup {r} ELSE loose \ {r}
    BY <1>1 DEF Repos_!CreateInsert
  <2>2. repo'[r] = row /\ \A q \in Repos \ {r} : repo'[q] = repo[q]  BY <1>0, <2>1 DEF AdminInv, AdminType
  <2>3. Tables'
    <3>1. repo' = [q \in Repos |-> repo'[q]]  BY <2>1 DEF AdminInv, AdminType
    <3> QED  BY <1>0, <2>1, <2>2, <3>1 DEF Tables, AdminInv, AdminType
  <2>4. row # None  BY <1>0 DEF AdminConstants
  <2>5. ASSUME NEW q \in Repos, q \notin loose', repo'[q] # None PROVE Fits(q, repo[q])'
    <3>1. Fits(q, repo'[q])
      <4>1. CASE q = r
        <5>1. ~op[c].moved  BY <2>1, <2>5, <4>1
        <5>2. Vetted(r, row)  BY <1>0, <5>1 DEF AdminInv, AllReliable, Reliable, Repos_!CreateInsert
        <5> QED  BY <1>1, <2>2, <4>1, <5>2 DEF Vetted
      <4>2. CASE q # r
        <5>1. q \notin loose /\ repo'[q] = repo[q]  BY <2>1, <2>2, <2>5, <4>2
        <5> QED  BY <2>5, <5>1 DEF AdminInv, Repos_!ReferencesHold, Fits
      <4> QED  BY <4>1, <4>2
    <3>2. repo'[q].members \subseteq Repos  BY <2>3, <2>5 DEF Tables, IsRow, AllColumns, Repos_!Fields, Column
    <3>3. ASSUME NEW m \in repo'[q].members, repo[m] # None PROVE repo'[m] = repo[m]
      BY <1>1, <2>2, <3>2, <3>3
    <3> QED  BY <2>1, <3>1, <3>3 DEF Fits
  <2>6. Repos_!ReferencesHold'  BY <2>5 DEF Repos_!ReferencesHold, Fits
  <2> QED  BY <2>1, <2>3, <2>6, RowWritten
<1>2. CASE ~(repo[r] = None /\ Repos_!ForeignKeys(row))
  <2>1. Repos_!Fails(c)  BY <1>2 DEF Repos_!CreateInsert
  <2> QED  BY <2>1, FailsAdmin
<1> QED  BY <1>1, <1>2

----------------------------------------------------------------------------
(* The merge spares what the request leaves out, whoever sends it: a body that
   names fields, the form, which sends back what it was shown, and the switch. *)
LEMMA AppliedRow ==
  ASSUME AdminConstants, NEW row, IsRow(row), NEW q, IsRequest(q)
  PROVE  /\ IsRow(Repos_!Applied(row, q))
         /\ Repos_!Applied(row, q).type = row.type /\ Repos_!Applied(row, q).format = row.format
         /\ \A f \in Repos_!Fields \ DOMAIN q : Repos_!Applied(row, q)[f] = row[f]
         /\ "proxy" \in DOMAIN q => Repos_!Applied(row, q).proxy = Repos_!mergeProxyConfig(row.proxy, q.proxy)
         /\ \A f \in DOMAIN q \ {"proxy"} :
              Repos_!Applied(row, q)[f] = IF f \in {"store", "rule"} /\ q[f] = Repos_!Empty THEN None ELSE q[f]
<1> DEFINE new == Repos_!Applied(row, q)
<1>1. DOMAIN row = AllColumns /\ DOMAIN q \subseteq Repos_!Fields  BY DEF IsRow, IsRequest
<1>2. DOMAIN new = AllColumns  BY <1>1 DEF Repos_!Applied
<1>3. \A f \in AllColumns : new[f] =
        IF f \notin DOMAIN q THEN row[f]
        ELSE IF f = "proxy" THEN Repos_!mergeProxyConfig(row.proxy, q.proxy)
        ELSE IF f \in {"store", "rule"} /\ q[f] = Repos_!Empty THEN None ELSE q[f]
  BY <1>1 DEF Repos_!Applied
<1> HIDE DEF new
<1>4. \A f \in AllColumns \ {"proxy"} : new[f] \in Column(f)
  <2>1. ASSUME NEW f \in AllColumns \ {"proxy"}, f \notin DOMAIN q PROVE new[f] \in Column(f)
    BY <1>3, <2>1 DEF IsRow
  <2>2. ASSUME NEW f \in AllColumns \ {"proxy"}, f \in DOMAIN q PROVE new[f] \in Column(f)
    <3>1. q[f] \in Sent(f)  BY <2>2 DEF IsRequest
    <3>2. CASE f \in {"store", "rule"}
      <4>1. None \in Column(f)  BY <3>2 DEF Column
      <4>2. new[f] = IF q[f] = Repos_!Empty THEN None ELSE q[f]  BY <1>3, <2>2, <3>2
      <4> QED  BY <3>1, <3>2, <4>1, <4>2 DEF Sent
    <3>3. CASE f \notin {"store", "rule"}
      <4>1. new[f] = q[f]  BY <1>3, <2>2, <3>3
      <4> QED  BY <3>1, <3>3, <4>1 DEF Sent
    <3> QED  BY <3>2, <3>3
  <2> QED  BY <2>1, <2>2
<1>5. new.proxy # None => IsProxy(new.proxy)
  <2>1. "proxy" \in AllColumns  BY DEF AllColumns, Repos_!Fields
  <2>2. CASE "proxy" \notin DOMAIN q
    <3>1. new.proxy = row.proxy  BY <1>3, <2>1, <2>2
    <3> QED  BY <3>1 DEF IsRow
  <2>3. CASE "proxy" \in DOMAIN q
    <3>1. new.proxy = Repos_!mergeProxyConfig(row.proxy, q.proxy)  BY <1>3, <2>1, <2>3
    <3> QED  BY <3>1 DEF Repos_!mergeProxyConfig, IsProxy
  <2> QED  BY <2>2, <2>3
<1>6. IsRow(new)  BY <1>2, <1>4, <1>5 DEF IsRow
<1>7. new.type = row.type /\ new.format = row.format  BY <1>1, <1>3 DEF AllColumns, Repos_!Fields
<1> QED  BY <1>1, <1>3, <1>6, <1>7 DEF new, AllColumns, Repos_!Fields

LEMMA SparesNamed ==
  ASSUME AdminConstants, NEW o, IsRow(o.row), IsRequest(o.req), o.named = DOMAIN o.req
  PROVE  Spares(o, o.row, Repos_!Applied(o.row, o.req))
<1>1. \A f \in Repos_!Fields \ o.named : Repos_!Applied(o.row, o.req)[f] = o.row[f]  BY AppliedRow
<1>2. "proxy" \in o.named => Repos_!Applied(o.row, o.req).proxy = Repos_!mergeProxyConfig(o.row.proxy, o.req.proxy)  BY AppliedRow
<1>3. o.req.proxy.secret = Repos_!Kept /\ o.row.proxy # None => Repos_!mergeProxyConfig(o.row.proxy, o.req.proxy).secret = o.row.proxy.secret
  BY DEF Repos_!mergeProxyConfig, Repos_!Kept, Repos_!Empty
<1> QED  BY <1>1, <1>2, <1>3 DEF Spares

(* A request has read its row. *)
LEMMA Asked ==
  ASSUME AdminConstants, AdminInv, NEW c \in Clients, NEW r \in Repos, NEW pc \in {"read", "check"},
         NEW q, IsRequest(q), NEW named, named \subseteq DOMAIN q, repo[r] # None,
         Spares([named |-> named, req |-> q], repo[r], Repos_!Applied(repo[r], q)),
         Repos_!Ask(c, r, pc, q, named), UNCHANGED <<repo, policy, rule, store, loose>>
  PROVE  AdminInv'
<1> DEFINE o == [pc |-> pc, repo |-> r, req |-> q, named |-> named, row |-> repo[r], moved |-> FALSE]
<1>1. IsRow(repo[r])  BY DEF AdminInv, AdminType
<1>2. IsOp(o)  BY <1>1 DEF IsOp
<1>3. Reliable(o)  BY DEF Reliable, Spares
<1>4. op' = [op EXCEPT ![c] = o]  BY DEF Repos_!Ask, Repos_!Begin
<1> HIDE DEF o
<1> QED  BY <1>2, <1>3, <1>4, AdminOwnStep

LEMMA PutAdmin ==
  ASSUME AdminConstants, AdminInv, NEW c \in Clients, Repos_!Put(c)
  PROVE  AdminInv'
<1>1. PICK r \in Repos, b \in Bodies :
        /\ repo[r] # None /\ Repos_!Ask(c, r, "check", Repos_!Bound(b), DOMAIN Repos_!Bound(b))
        /\ UNCHANGED <<repo, policy, rule, store, loose>>
  BY Zenon DEF Repos_!Put
<1> DEFINE q == Repos_!Bound(b)
<1>2. IsRow(repo[r]) /\ IsRequest(b)  BY <1>1 DEF AdminInv, AdminType, AdminConstants
<1>3. IsRequest(q)
  <2>1. /\ DOMAIN q = DOMAIN b \cup {"online", "anon"}
        /\ \A f \in DOMAIN q : q[f] = IF f \in DOMAIN b THEN b[f] ELSE FALSE
    BY DEF Repos_!Bound
  <2>2. \A f \in {"online", "anon"} : FALSE \in Sent(f)  BY DEF Sent, Column, AdminConstants
  <2> HIDE DEF q
  <2>3. \A f \in DOMAIN q \ {"proxy"} : q[f] \in Sent(f)  BY <1>2, <2>1, <2>2 DEF IsRequest
  <2>4. "proxy" \in DOMAIN q => IsProxy(q.proxy)  BY <1>2, <2>1 DEF IsRequest
  <2> QED  BY <1>2, <2>1, <2>3, <2>4 DEF IsRequest, Repos_!Fields
<1> HIDE DEF q
<1> DEFINE o == [row |-> repo[r], req |-> q, named |-> DOMAIN q]
<1>4. Spares(o, o.row, Repos_!Applied(o.row, o.req))  BY <1>2, <1>3, SparesNamed
<1>5. Spares([named |-> DOMAIN q, req |-> q], repo[r], Repos_!Applied(repo[r], q))  BY <1>4 DEF Spares
<1>6. Repos_!Ask(c, r, "check", q, DOMAIN q)  BY <1>1 DEF q
<1> QED  BY <1>1, <1>3, <1>5, <1>6, Asked

LEMMA EditAdmin ==
  ASSUME AdminConstants, AdminInv, NEW c \in Clients, Repos_!Edit(c)
  PROVE  AdminInv'
<1>1. PICK r \in Repos, b \in Bodies :
        /\ repo[r] # None /\ Repos_!Ask(c, r, "read", Repos_!Form(Repos_!RedactedRepository(repo[r]), b), DOMAIN b)
        /\ UNCHANGED <<repo, policy, rule, store, loose>>
  BY Zenon DEF Repos_!Edit
<1> DEFINE row == repo[r]
           redacted == Repos_!RedactedRepository(row)
           q == Repos_!Form(redacted, b)
<1>2. IsRow(row) /\ IsRequest(b)  BY <1>1 DEF AdminInv, AdminType, AdminConstants
<1>3. \A f \in Repos_!Fields : redacted[f] = IF f = "proxy" /\ row.proxy # None THEN [row.proxy EXCEPT !.secret = Repos_!Kept] ELSE row[f]
  BY DEF Repos_!RedactedRepository
<1>4. row.proxy # None => LET p == [row.proxy EXCEPT !.secret = Repos_!Kept]
                          IN  IsProxy(p) /\ p.url = row.proxy.url /\ p.secret = Repos_!Kept
  <2>1. SUFFICES ASSUME row.proxy # None
                 PROVE  LET p == [row.proxy EXCEPT !.secret = Repos_!Kept]
                        IN  IsProxy(p) /\ p.url = row.proxy.url /\ p.secret = Repos_!Kept
    OBVIOUS
  <2>2. DOMAIN row.proxy = {"url", "secret"}  BY <1>2, <2>1 DEF IsRow, IsProxy
  <2> QED  BY <2>2 DEF IsProxy
<1>5. /\ DOMAIN q = {f \in Repos_!Fields : f \in DOMAIN b \/ (redacted[f] # None /\ (f = "rule" => redacted.members # {}))}
      /\ \A f \in DOMAIN q : q[f] = IF f \in DOMAIN b THEN b[f] ELSE redacted[f]
  BY DEF Repos_!Form
<1> HIDE DEF q, redacted
<1>6. DOMAIN b \subseteq DOMAIN q  BY <1>2, <1>5 DEF IsRequest
<1>7. IsRequest(q)
  <2>1. ASSUME NEW f \in DOMAIN q \ {"proxy"} PROVE q[f] \in Sent(f)
    <3>1. CASE f \in DOMAIN b
      BY <1>2, <1>5, <2>1, <3>1 DEF IsRequest
    <3>2. CASE f \notin DOMAIN b
      <4>1. q[f] = row[f] /\ row[f] # None /\ f \in AllColumns  BY <1>3, <1>5, <2>1, <3>2 DEF AllColumns
      <4>2. row[f] \in Column(f)  BY <1>2, <2>1, <4>1 DEF IsRow
      <4> QED  BY <4>1, <4>2 DEF Sent
    <3> QED  BY <3>1, <3>2
  <2>2. ASSUME "proxy" \in DOMAIN q PROVE IsProxy(q.proxy)
    <3>1. CASE "proxy" \in DOMAIN b
      BY <1>2, <1>5, <2>2, <3>1 DEF IsRequest
    <3>2. CASE "proxy" \notin DOMAIN b
      <4>1. q.proxy = redacted.proxy /\ redacted.proxy # None /\ "proxy" \in Repos_!Fields  BY <1>5, <2>2, <3>2
      <4>2. row.proxy # None /\ redacted.proxy = [row.proxy EXCEPT !.secret = Repos_!Kept]  BY <1>3, <4>1
      <4> QED  BY <1>4, <4>1, <4>2
    <3> QED  BY <3>1, <3>2
  <2> QED  BY <1>5, <2>1, <2>2 DEF IsRequest
<1>8. Spares([named |-> DOMAIN b, req |-> q], row, Repos_!Applied(row, q))
  <2>1. ASSUME NEW f \in Repos_!Fields, f \notin DOMAIN b PROVE Repos_!Applied(row, q)[f] = row[f]
    <3>1. CASE f \notin DOMAIN q
      BY <1>2, <1>7, <2>1, <3>1, AppliedRow
    <3>2. CASE f \in DOMAIN q /\ f # "proxy"
      <4>1. Repos_!Applied(row, q)[f] = IF f \in {"store", "rule"} /\ q[f] = Repos_!Empty THEN None ELSE q[f]
        BY <1>2, <1>7, <3>2, AppliedRow
      <4>2. q[f] = row[f] /\ row[f] # None  BY <1>3, <1>5, <2>1, <3>2
      <4>3. f \in {"store", "rule"} => row[f] # Repos_!Empty
        BY <1>2, <4>2 DEF IsRow, AllColumns, Repos_!Fields, Column, AdminConstants
      <4> QED  BY <4>1, <4>2, <4>3
    <3>3. CASE f = "proxy" /\ "proxy" \in DOMAIN q
      <4>1. q.proxy = redacted.proxy /\ redacted.proxy # None  BY <1>5, <2>1, <3>3
      <4>2. row.proxy # None /\ redacted.proxy = [row.proxy EXCEPT !.secret = Repos_!Kept]  BY <1>3, <2>1, <3>3, <4>1
      <4>3. Repos_!Applied(row, q).proxy = Repos_!mergeProxyConfig(row.proxy, q.proxy)  BY <1>2, <1>7, <3>3, AppliedRow
      <4>4. q.proxy.url = row.proxy.url /\ q.proxy.secret = Repos_!Kept  BY <1>4, <4>1, <4>2
      <4>5. Repos_!mergeProxyConfig(row.proxy, q.proxy) = [url |-> row.proxy.url, secret |-> row.proxy.secret]
        BY <4>2, <4>4 DEF Repos_!mergeProxyConfig, Repos_!Kept, Repos_!Empty
      <4>6. row.proxy = [url |-> row.proxy.url, secret |-> row.proxy.secret]  BY <1>2, <4>2 DEF IsRow, IsProxy
      <4> QED  BY <3>3, <4>3, <4>5, <4>6
    <3> QED  BY <3>1, <3>2, <3>3
  <2>2. ASSUME "proxy" \in DOMAIN b, q.proxy.secret = Repos_!Kept, row.proxy # None
        PROVE  Repos_!Applied(row, q).proxy.secret = row.proxy.secret
    <3>1. Repos_!Applied(row, q).proxy = Repos_!mergeProxyConfig(row.proxy, q.proxy)  BY <1>2, <1>6, <1>7, <2>2, AppliedRow
    <3> QED  BY <2>2, <3>1 DEF Repos_!mergeProxyConfig, Repos_!Kept, Repos_!Empty
  <2> QED  BY <2>1, <2>2 DEF Spares
<1>9. Repos_!Ask(c, r, "read", q, DOMAIN b)  BY <1>1 DEF q, redacted
<1> QED  BY <1>1, <1>6, <1>7, <1>8, <1>9, Asked

LEMMA PatchAdmin ==
  ASSUME AdminConstants, AdminInv, NEW c \in Clients, Repos_!Patch(c)
  PROVE  AdminInv'
<1>1. PICK r \in Repos, on \in BOOLEAN :
        /\ repo[r] # None /\ Repos_!Ask(c, r, "read", [online |-> on, anon |-> repo[r].anon], {"online"})
        /\ UNCHANGED <<repo, policy, rule, store, loose>>
  BY Zenon DEF Repos_!Patch
<1> DEFINE q == [online |-> on, anon |-> repo[r].anon]
<1>2. IsRow(repo[r])  BY <1>1 DEF AdminInv, AdminType
<1>3. repo[r].anon \in BOOLEAN  BY <1>2 DEF IsRow, AllColumns, Repos_!Fields, Column
<1>4. DOMAIN q = {"online", "anon"} /\ q["anon"] = repo[r].anon /\ q["online"] = on  OBVIOUS
<1> HIDE DEF q
<1>5. IsRequest(q)
  <2>1. \A f \in {"online", "anon"} : q[f] \in Sent(f)
    BY <1>3, <1>4 DEF Sent, Column, AdminConstants
  <2> QED  BY <1>4, <2>1 DEF IsRequest, Repos_!Fields
<1>6. Spares([named |-> {"online"}, req |-> q], repo[r], Repos_!Applied(repo[r], q))
  <2>1. \A f \in Repos_!Fields \ {"online"} : Repos_!Applied(repo[r], q)[f] = repo[r][f]
    BY <1>2, <1>4, <1>5, AppliedRow
  <2> QED  BY <2>1 DEF Spares
<1>7. Repos_!Ask(c, r, "read", q, {"online"})  BY <1>1 DEF q
<1> QED  BY <1>1, <1>4, <1>5, <1>6, <1>7, Asked

(* Update reads the row again, and checks what it is about to write. *)
LEMMA UpdateReadAdmin ==
  ASSUME AdminConstants, AdminInv, NEW c \in Clients, Repos_!UpdateRead(c)
  PROVE  AdminInv'
<1>1. CASE repo[op[c].repo] = None
  BY <1>1, FailsAdmin DEF Repos_!UpdateRead
<1>2. CASE repo[op[c].repo] # None
  <2> DEFINE o == [op[c] EXCEPT !.pc = "check", !.row = repo[op[c].repo]]
  <2>1. op' = [op EXCEPT ![c] = o] /\ UNCHANGED <<repo, policy, rule, store, loose>>
    BY <1>2 DEF Repos_!UpdateRead, Repos_!Begin
  <2>2. /\ DOMAIN op[c] = {"pc", "repo", "req", "named", "row", "moved"} /\ op[c].repo \in Repos
        /\ IsRequest(op[c].req) /\ op[c].named \subseteq DOMAIN op[c].req /\ op[c] # None /\ op[c].pc = "read"
    BY DEF Repos_!UpdateRead, AdminInv, AdminType, IsOp
  <2>3. /\ DOMAIN o = DOMAIN op[c] /\ o.pc = "check" /\ o.row = repo[op[c].repo] /\ o.repo = op[c].repo
        /\ o.req = op[c].req /\ o.named = op[c].named /\ o.moved = op[c].moved
    BY <2>2
  <2> HIDE DEF o
  <2>4. IsOp(o)
    <3>1. IsRow(o.row)  BY <1>2, <2>2, <2>3 DEF AdminInv, AdminType
    <3> QED  BY <2>2, <2>3, <3>1 DEF IsOp
  <2>5. ASSUME ~o.moved PROVE Reliable(o)
    <3>1. Reliable(op[c])  BY <2>2, <2>3, <2>5 DEF AdminInv, AllReliable
    <3> QED  BY <1>2, <2>2, <2>3, <3>1 DEF Reliable, Spares
  <2> QED  BY <2>1, <2>4, <2>5, AdminOwnStep
<1> QED  BY <1>1, <1>2

LEMMA UpdateCheckAdmin ==
  ASSUME AdminConstants, AdminInv, NEW c \in Clients, Repos_!UpdateCheck(c)
  PROVE  AdminInv'
<1> DEFINE row == Repos_!Applied(op[c].row, op[c].req)
           o == [op[c] EXCEPT !.pc = "write", !.row = row]
<1>1. CASE Repos_!Fails(c)  BY <1>1, FailsAdmin
<1>2. CASE Repos_!Checked(row) /\ Repos_!Begin(c, o) /\ UNCHANGED <<repo, policy, rule, store, loose>>
  <2>2. /\ DOMAIN op[c] = {"pc", "repo", "req", "named", "row", "moved"} /\ op[c].repo \in Repos
        /\ IsRequest(op[c].req) /\ op[c].named \subseteq DOMAIN op[c].req /\ op[c] # None /\ op[c].pc = "check"
        /\ IsRow(op[c].row)
    BY DEF Repos_!UpdateCheck, AdminInv, AdminType, IsOp
  <2>3. /\ DOMAIN o = DOMAIN op[c] /\ o.pc = "write" /\ o.row = row /\ o.repo = op[c].repo
        /\ o.req = op[c].req /\ o.named = op[c].named /\ o.moved = op[c].moved
    BY <2>2
  <2>1. op' = [op EXCEPT ![c] = o]  BY <1>2 DEF Repos_!Begin
  <2>4. IsRow(row) /\ row.type = op[c].row.type /\ row.format = op[c].row.format  BY <2>2, AppliedRow
  <2> HIDE DEF o, row
  <2>5. IsOp(o)  BY <2>2, <2>3, <2>4 DEF IsOp
  <2>6. ASSUME ~o.moved PROVE Reliable(o)
    <3>1. Reliable(op[c])  BY <2>2, <2>3, <2>6 DEF AdminInv, AllReliable
    <3>2. op[c].row = repo[o.repo] /\ repo[o.repo] # None /\ Spares(op[c], op[c].row, row)
      BY <2>2, <2>3, <3>1 DEF Reliable, row
    <3>3. Vetted(o.repo, row)  BY <1>2, <2>2, <2>3, <2>4, <3>2, CheckedFits DEF AdminInv
    <3> QED  BY <2>3, <2>4, <3>2, <3>3 DEF Reliable, Spares
  <2> QED  BY <1>2, <2>1, <2>5, <2>6, AdminOwnStep
<1> QED  BY <1>1, <1>2 DEF Repos_!UpdateCheck

(* Rows that keep their types and formats fit what refers to them. *)
LEMMA FitsStays ==
  ASSUME NEW r \in Repos, NEW row, IsRow(row), Fits(r, row),
         \A q \in Repos : repo[q] # None =>
           repo'[q] # None /\ repo'[q].type = repo[q].type /\ repo'[q].format = repo[q].format,
         UNCHANGED <<policy, rule, store>>
  PROVE  Fits(r, row)'
<1>1. row.members \subseteq Repos  BY DEF IsRow, AllColumns, Repos_!Fields, Column
<1> QED  BY <1>1 DEF Fits

(* repositoryRepo.Update, by name. *)
LEMMA UpdateWriteAdmin ==
  ASSUME AdminConstants, AdminInv, NEW c \in Clients, Repos_!UpdateWrite(c)
  PROVE  AdminInv'
<1> DEFINE r == op[c].repo
           row == op[c].row
           new == [f \in DOMAIN repo[r] |-> IF f \in Repos_!Fields THEN row[f] ELSE repo[r][f]]
<1>0. r \in Repos /\ IsRow(row) /\ op[c] # None /\ op[c].pc = "write"
  BY DEF Repos_!UpdateWrite, AdminInv, AdminType, IsOp
<1>1. CASE Repos_!Fails(c)  BY <1>1, FailsAdmin
<1>2. CASE /\ repo[r] # None /\ Repos_!ForeignKeys(row) /\ repo' = [repo EXCEPT ![r] = new] /\ Repos_!Ends(c)
           /\ loose' = IF op[c].moved THEN loose \cup {r} ELSE loose \ {r}
           /\ UNCHANGED <<policy, rule, store>>
  <2>1. IsRow(repo[r])  BY <1>0, <1>2 DEF AdminInv, AdminType
  <2>2. /\ DOMAIN new = AllColumns /\ \A f \in Repos_!Fields : new[f] = row[f]
        /\ new.type = repo[r].type /\ new.format = repo[r].format
    BY <2>1 DEF IsRow, AllColumns, Repos_!Fields
  <2>3. repo'[r] = new /\ \A q \in Repos \ {r} : repo'[q] = repo[q]  BY <1>0, <1>2 DEF AdminInv, AdminType
  <2> HIDE DEF new
  <2>4. IsRow(new)  BY <1>0, <2>1, <2>2 DEF IsRow, AllColumns, Repos_!Fields
  <2>5. new # None  BY <2>4 DEF AdminConstants
  <2>6. Tables'
    <3>1. repo' = [q \in Repos |-> repo'[q]]  BY <1>2 DEF AdminInv, AdminType
    <3> QED  BY <1>2, <2>3, <2>4, <3>1 DEF Tables, AdminInv, AdminType
  <2>7. \A q \in Repos : repo[q] # None =>
          repo'[q] # None /\ repo'[q].type = repo[q].type /\ repo'[q].format = repo[q].format
    BY <2>2, <2>3, <2>5
  <2>8. ASSUME NEW q \in Repos, q \notin loose', repo'[q] # None PROVE Fits(q, repo[q])'
    <3>1. Fits(q, repo'[q])
      <4>1. CASE q = r
        <5>1. ~op[c].moved  BY <1>2, <2>8, <4>1
        <5>2. row.type = repo[r].type /\ row.format = repo[r].format /\ Vetted(r, row)
          BY <1>0, <5>1 DEF AdminInv, AllReliable, Reliable
        <5>3. /\ new.members = row.members /\ new.policies = row.policies /\ new.rule = row.rule
              /\ new.store = row.store /\ new.quota = row.quota
          BY <2>2 DEF Repos_!Fields
        <5>4. Fits(r, row)  BY <1>2, <5>2 DEF Vetted
        <5> QED  BY <2>2, <2>3, <4>1, <5>2, <5>3, <5>4 DEF Fits
      <4>2. CASE q # r
        <5>1. q \notin loose /\ repo'[q] = repo[q]  BY <1>2, <2>3, <2>8, <4>2
        <5> QED  BY <2>8, <5>1 DEF AdminInv, Repos_!ReferencesHold, Fits
      <4> QED  BY <4>1, <4>2
    <3>2. IsRow(repo'[q])  BY <2>6, <2>8 DEF Tables
    <3> DEFINE now == repo'[q]
    <3>3. Fits(q, now) /\ IsRow(now)  BY <3>1, <3>2
    <3>4. now = repo'[q]  OBVIOUS
    <3> HIDE DEF now
    <3>5. now.members \subseteq Repos  BY <3>3 DEF IsRow, AllColumns, Repos_!Fields, Column
    <3> QED  BY <1>2, <2>7, <3>3, <3>4, <3>5 DEF Fits
  <2>9. Repos_!ReferencesHold'  BY <2>8 DEF Repos_!ReferencesHold, Fits
  <2> QED  BY <1>2, <2>6, <2>9, RowWritten
<1> QED  BY <1>1, <1>2 DEF Repos_!UpdateWrite

(* A repository is deleted: the groups that list it are left loose. *)
LEMMA DeleteAdmin ==
  ASSUME AdminConstants, AdminInv, NEW c \in Clients, Repos_!Delete(c)
  PROVE  AdminInv'
<1>1. PICK r \in Repos :
        /\ repo' = [repo EXCEPT ![r] = None] /\ Repos_!Ends(c) /\ UNCHANGED <<policy, rule, store>>
        /\ loose' = (loose \ {r}) \cup {g \in Repos \ {r} : repo[g] # None /\ r \in repo[g].members}
  BY Zenon DEF Repos_!Delete
<1>2. repo'[r] = None /\ \A q \in Repos \ {r} : repo'[q] = repo[q]  BY <1>1 DEF AdminInv, AdminType
<1>3. Tables'
  <2>1. repo' = [q \in Repos |-> repo'[q]]  BY <1>1 DEF AdminInv, AdminType
  <2> QED  BY <1>1, <1>2, <2>1 DEF Tables, AdminInv, AdminType
<1>4. ASSUME NEW q \in Repos, q \notin loose', repo'[q] # None PROVE Fits(q, repo[q])'
  <2>1. q # r /\ q \notin loose /\ repo'[q] = repo[q] /\ r \notin repo[q].members /\ repo[q].members \subseteq Repos
    <3>1. q # r /\ repo'[q] = repo[q]  BY <1>2, <1>4
    <3>2. q \notin loose /\ r \notin repo[q].members  BY <1>1, <1>4, <3>1
    <3> QED  BY <1>4, <3>1, <3>2 DEF AdminInv, AdminType, IsRow, AllColumns, Repos_!Fields, Column
  <2>2. Fits(q, repo[q])  BY <1>4, <2>1 DEF AdminInv, Repos_!ReferencesHold, Fits
  <2>3. \A m \in repo[q].members : repo'[m] = repo[m]  BY <1>2, <2>1
  <2> QED  BY <1>1, <2>1, <2>2, <2>3 DEF Fits
<1>5. Repos_!ReferencesHold'  BY <1>4 DEF Repos_!ReferencesHold, Fits
<1> QED  BY <1>1, <1>3, <1>5, RowWritten

----------------------------------------------------------------------------
(* What rows refer to changes: the rows a change does not ask about, and that no
   longer fit, are loose. *)
LEMMA PolicySaveAdmin ==
  ASSUME AdminConstants, AdminInv, NEW c \in Clients, Repos_!PolicySave(c)
  PROVE  AdminInv'
<1>1. PICK p \in Policies, f \in Formats :
        /\ policy' = [policy EXCEPT ![p] = f] /\ Repos_!Ends(c) /\ UNCHANGED <<repo, rule, store>>
        /\ loose' = loose \cup {r \in Repos : repo[r] # None /\ p \in repo[r].policies /\ repo[r].format # f}
  BY Zenon DEF Repos_!PolicySave
<1>2. policy'[p] = f /\ \A x \in Policies \ {p} : policy'[x] = policy[x]  BY <1>1 DEF AdminInv, AdminType
<1>3. Tables'  BY <1>1 DEF Tables, AdminInv, AdminType
<1>4. ASSUME NEW q \in Repos, q \notin loose', repo'[q] # None PROVE Fits(q, repo[q])'
  <2>1. q \notin loose /\ repo'[q] = repo[q] /\ repo[q].policies \subseteq Policies
        /\ (p \in repo[q].policies => repo[q].format = f)
    <3>1. repo'[q] = repo[q] /\ q \notin loose  BY <1>1, <1>4
    <3>2. repo[q].policies \subseteq Policies
      BY <1>4, <3>1 DEF AdminInv, AdminType, IsRow, AllColumns, Repos_!Fields, Column
    <3> QED  BY <1>1, <1>4, <3>1, <3>2
  <2>2. Fits(q, repo[q])  BY <1>4, <2>1 DEF AdminInv, Repos_!ReferencesHold, Fits
  <2>3. \A x \in repo[q].policies : policy'[x] \in {"*", repo[q].format}  BY <1>2, <2>1, <2>2 DEF Fits
  <2> QED  BY <1>1, <2>1, <2>2, <2>3 DEF Fits
<1>5. Repos_!ReferencesHold'  BY <1>4 DEF Repos_!ReferencesHold, Fits
<1> QED  BY <1>1, <1>3, <1>5, RowWritten

LEMMA PolicyDetachAdmin ==
  ASSUME AdminConstants, AdminInv, NEW c \in Clients, Repos_!PolicyDetach(c)
  PROVE  AdminInv'
<1>1. PICK p \in Policies :
        /\ repo' = Repos_!DetachCleanupPolicyID(p) /\ UNCHANGED <<policy, rule, store, loose>>
        /\ op' = [d \in Clients |-> IF d = c THEN [pc |-> "remove", policy |-> p, moved |-> FALSE]
                                    ELSE IF op[d] = None THEN None ELSE [op[d] EXCEPT !.moved = TRUE]]
  BY Zenon DEF Repos_!PolicyDetach
<1>2. ASSUME NEW q \in Repos, repo[q] # None
      PROVE  /\ repo'[q] # None /\ IsRow(repo'[q]) /\ repo'[q].policies = repo[q].policies \ {p}
             /\ \A f \in AllColumns \ {"policies"} : repo'[q][f] = repo[q][f]
  <2> DEFINE new == [repo[q] EXCEPT !.policies = @ \ {p}]
  <2>1. repo'[q] = new  BY <1>1, <1>2 DEF Repos_!DetachCleanupPolicyID
  <2>2. IsRow(repo[q])  BY <1>2 DEF AdminInv, AdminType
  <2>3. DOMAIN new = AllColumns /\ new.policies = repo[q].policies \ {p}
        /\ \A f \in AllColumns \ {"policies"} : new[f] = repo[q][f]
    BY <2>2 DEF IsRow, AllColumns, Repos_!Fields
  <2> HIDE DEF new
  <2>4. \A f \in AllColumns \ {"proxy"} : new[f] \in Column(f)
    <3>1. repo[q].policies \subseteq Policies  BY <2>2 DEF IsRow, AllColumns, Repos_!Fields, Column
    <3>2. Column("policies") = SUBSET Policies  BY DEF Column
    <3> QED  BY <2>2, <2>3, <3>1, <3>2 DEF IsRow
  <2>5. new.proxy = repo[q].proxy  BY <2>3 DEF AllColumns, Repos_!Fields
  <2>6. IsRow(new)  BY <2>2, <2>3, <2>4, <2>5 DEF IsRow
  <2> QED  BY <2>1, <2>3, <2>6 DEF AdminConstants
<1>3. \A q \in Repos : repo[q] = None => repo'[q] = None  BY <1>1 DEF Repos_!DetachCleanupPolicyID
<1>4. Tables'
  <2>1. repo' = [q \in Repos |-> repo'[q]]  BY <1>1 DEF Repos_!DetachCleanupPolicyID
  <2> QED  BY <1>1, <1>2, <1>3, <2>1 DEF Tables, AdminInv, AdminType
<1>5. ASSUME NEW q \in Repos, q \notin loose', repo'[q] # None PROVE Fits(q, repo[q])'
  <2>1. repo[q] # None  BY <1>3, <1>5
  <2>2. Fits(q, repo[q]) /\ IsRow(repo[q])
    BY <1>1, <1>5, <2>1 DEF AdminInv, AdminType, Repos_!ReferencesHold, Fits
  <2>3. Fits(q, repo[q])'
    <3>1. /\ repo'[q].members = repo[q].members /\ repo'[q].type = repo[q].type /\ repo'[q].format = repo[q].format
          /\ repo'[q].rule = repo[q].rule /\ repo'[q].store = repo[q].store /\ repo'[q].quota = repo[q].quota
          /\ repo'[q].policies \subseteq repo[q].policies
      BY <1>2, <2>1 DEF AllColumns, Repos_!Fields
    <3>2. ASSUME NEW m \in repo[q].members, repo[m] # None
          PROVE  repo'[m] # None /\ repo'[m].type = repo[m].type /\ repo'[m].format = repo[m].format
      <4>1. m \in Repos  BY <2>2 DEF IsRow, AllColumns, Repos_!Fields, Column
      <4> QED  BY <1>2, <3>2, <4>1 DEF AllColumns, Repos_!Fields
    <3> QED  BY <1>1, <2>2, <3>1, <3>2 DEF Fits
  <2> QED  BY <2>3
<1>6. Repos_!ReferencesHold'  BY <1>5 DEF Repos_!ReferencesHold, Fits
<1> DEFINE mine == [pc |-> "remove", policy |-> p, moved |-> FALSE]
<1>7. op'[c] = mine /\ IsOp(mine)  BY <1>1 DEF IsOp
<1>8. ASSUME NEW d \in Clients \ {c}, op'[d] # None PROVE IsOp(op'[d]) /\ op'[d].moved = TRUE
  <2>1. op[d] # None /\ op'[d] = [op[d] EXCEPT !.moved = TRUE]  BY <1>1, <1>8
  <2>2. IsOp(op[d])  BY <2>1 DEF AdminInv, AdminType
  <2> QED  BY <2>1, <2>2, MovedOp
<1>9. AdminType'
  <2>1. op' = [d \in Clients |-> op'[d]]  BY <1>1
  <2> QED  BY <1>4, <1>7, <1>8, <2>1 DEF AdminType, Tables
<1>10. AllReliable'
  <2>1. ASSUME NEW r \in Repos, repo'[r] # None PROVE p \notin repo'[r].policies
    BY <1>2, <1>3, <2>1
  <2>2. Reliable(op[c])'  BY <1>7, <2>1 DEF Reliable
  <2> QED  BY <1>8, <2>2 DEF AllReliable
<1> QED  BY <1>6, <1>9, <1>10 DEF AdminInv

LEMMA PolicyRemoveAdmin ==
  ASSUME AdminConstants, AdminInv, NEW c \in Clients, Repos_!PolicyRemove(c)
  PROVE  AdminInv'
<1> DEFINE p == op[c].policy
<1>1. /\ op[c] # None /\ op[c].pc = "remove" /\ policy' = [policy EXCEPT ![p] = None]
      /\ loose' = IF op[c].moved THEN loose \cup {r \in Repos : repo[r] # None /\ p \in repo[r].policies} ELSE loose
      /\ Repos_!Ends(c) /\ UNCHANGED <<repo, rule, store>>
  BY DEF Repos_!PolicyRemove
<1>2. p \in Policies  BY <1>1 DEF AdminInv, AdminType, IsOp
<1>3. policy'[p] = None /\ \A x \in Policies \ {p} : policy'[x] = policy[x]  BY <1>1, <1>2 DEF AdminInv, AdminType
<1>4. Tables'  BY <1>1 DEF Tables, AdminInv, AdminType
<1>5. ASSUME NEW q \in Repos, q \notin loose', repo'[q] # None PROVE Fits(q, repo[q])'
  <2>1. q \notin loose /\ repo'[q] = repo[q] /\ repo[q] # None  BY <1>1, <1>5
  <2>2. p \notin repo[q].policies
    <3>1. CASE op[c].moved
      BY <1>1, <1>5, <2>1, <3>1
    <3>2. CASE ~op[c].moved
      BY <1>1, <2>1, <3>2 DEF AdminInv, AllReliable, Reliable
    <3> QED  BY <3>1, <3>2
  <2>3. repo[q].policies \subseteq Policies
    BY <2>1 DEF AdminInv, AdminType, IsRow, AllColumns, Repos_!Fields, Column
  <2>4. Fits(q, repo[q])  BY <2>1 DEF AdminInv, Repos_!ReferencesHold, Fits
  <2>5. \A x \in repo[q].policies : policy'[x] = policy[x]  BY <1>3, <2>2, <2>3
  <2> QED  BY <1>1, <2>1, <2>4, <2>5 DEF Fits
<1>6. Repos_!ReferencesHold'  BY <1>5 DEF Repos_!ReferencesHold, Fits
<1> QED  BY <1>1, <1>4, <1>6, RowWritten

LEMMA RuleDeleteAdmin ==
  ASSUME AdminConstants, AdminInv, NEW c \in Clients, Repos_!RuleDelete(c)
  PROVE  AdminInv'
<1>1. PICK x \in Rules :
        /\ rule' = rule \ {x} /\ Repos_!Ends(c) /\ UNCHANGED <<policy, store, loose>>
        /\ repo' = [r \in Repos |-> IF repo[r] # None /\ repo[r].rule = x THEN [repo[r] EXCEPT !.rule = None] ELSE repo[r]]
  BY Zenon DEF Repos_!RuleDelete
<1>2. ASSUME NEW q \in Repos, repo[q] # None
      PROVE  /\ repo'[q] # None /\ IsRow(repo'[q]) /\ repo'[q].rule = (IF repo[q].rule = x THEN None ELSE repo[q].rule)
             /\ \A f \in AllColumns \ {"rule"} : repo'[q][f] = repo[q][f]
  <2>0. IsRow(repo[q])  BY <1>2 DEF AdminInv, AdminType
  <2>1. CASE repo[q].rule # x
    <3>1. repo'[q] = repo[q]  BY <1>1, <2>1
    <3> QED  BY <1>2, <2>0, <2>1, <3>1
  <2>2. CASE repo[q].rule = x
    <3> DEFINE new == [repo[q] EXCEPT !.rule = None]
    <3>1. repo'[q] = new  BY <1>1, <1>2, <2>2
    <3>3. DOMAIN new = AllColumns /\ new.rule = None /\ \A f \in AllColumns \ {"rule"} : new[f] = repo[q][f]
      BY <2>0 DEF IsRow, AllColumns, Repos_!Fields
    <3> HIDE DEF new
    <3>4. \A f \in AllColumns \ {"proxy"} : new[f] \in Column(f)
      <4>1. None \in Column("rule")  BY DEF Column
      <4> QED  BY <2>0, <3>3, <4>1 DEF IsRow
    <3>5. new.proxy = repo[q].proxy  BY <3>3 DEF AllColumns, Repos_!Fields
    <3>6. IsRow(new)  BY <2>0, <3>3, <3>4, <3>5 DEF IsRow
    <3> QED  BY <2>2, <3>1, <3>3, <3>6 DEF AdminConstants
  <2> QED  BY <2>1, <2>2
<1>3. \A q \in Repos : repo[q] = None => repo'[q] = None  BY <1>1
<1>4. Tables'
  <2>1. repo' = [q \in Repos |-> repo'[q]]  BY <1>1
  <2> QED  BY <1>1, <1>2, <1>3, <2>1 DEF Tables, AdminInv, AdminType
<1>5. ASSUME NEW q \in Repos, q \notin loose', repo'[q] # None PROVE Fits(q, repo[q])'
  <2>1. repo[q] # None  BY <1>3, <1>5
  <2>2. Fits(q, repo[q]) /\ IsRow(repo[q])
    BY <1>1, <1>5, <2>1 DEF AdminInv, AdminType, Repos_!ReferencesHold, Fits
  <2>3. /\ repo'[q].members = repo[q].members /\ repo'[q].type = repo[q].type /\ repo'[q].format = repo[q].format
        /\ repo'[q].store = repo[q].store /\ repo'[q].quota = repo[q].quota
        /\ repo'[q].policies = repo[q].policies
    BY <1>2, <2>1 DEF AllColumns, Repos_!Fields
  <2>4. repo'[q].rule # None => repo'[q].rule \in rule'
    <3>1. repo'[q].rule = (IF repo[q].rule = x THEN None ELSE repo[q].rule)  BY <1>2, <2>1
    <3>2. repo[q].rule # None => repo[q].rule \in rule  BY <2>2 DEF Fits
    <3> QED  BY <1>1, <3>1, <3>2
  <2>5. ASSUME NEW m \in repo[q].members, repo[m] # None
        PROVE  repo'[m] # None /\ repo'[m].type = repo[m].type /\ repo'[m].format = repo[m].format
    <3>1. m \in Repos  BY <2>2 DEF IsRow, AllColumns, Repos_!Fields, Column
    <3> QED  BY <1>2, <2>5, <3>1 DEF AllColumns, Repos_!Fields
  <2> QED  BY <1>1, <2>2, <2>3, <2>4, <2>5 DEF Fits
<1>6. Repos_!ReferencesHold'  BY <1>5 DEF Repos_!ReferencesHold, Fits
<1> QED  BY <1>1, <1>4, <1>6, RowWritten

LEMMA StoreQuotaAdmin ==
  ASSUME AdminConstants, AdminInv, NEW c \in Clients, Repos_!StoreQuota(c)
  PROVE  AdminInv'
<1>1. PICK s \in Stores, n \in 1..2 :
        /\ store' = [store EXCEPT ![s] = n] /\ Repos_!Ends(c) /\ UNCHANGED <<repo, policy, rule>>
        /\ loose' = loose \cup {r \in Repos : repo[r] # None /\ repo[r].store = s /\ repo[r].quota # None /\ repo[r].quota > n}
  BY Zenon DEF Repos_!StoreQuota
<1>2. store'[s] = n /\ \A x \in Stores \ {s} : store'[x] = store[x]  BY <1>1 DEF AdminInv, AdminType
<1>3. Tables'  BY <1>1 DEF Tables, AdminInv, AdminType
<1>4. ASSUME NEW q \in Repos, q \notin loose', repo'[q] # None PROVE Fits(q, repo[q])'
  <2>1. q \notin loose /\ repo'[q] = repo[q] /\ repo[q] # None  BY <1>1, <1>4
  <2>2. repo[q].store \in Stores \cup {None} /\ repo[q].quota \in Nat \cup {None}
    BY <2>1 DEF AdminInv, AdminType, IsRow, AllColumns, Repos_!Fields, Column
  <2>3. Fits(q, repo[q])  BY <2>1 DEF AdminInv, Repos_!ReferencesHold, Fits
  <2>4. ASSUME repo[q].store # None
        PROVE  store'[repo[q].store] # None /\ (repo[q].quota # None => repo[q].quota <= store'[repo[q].store])
    <3>1. CASE repo[q].store = s
      <4>1. repo[q].quota # None => ~(repo[q].quota > n)  BY <1>1, <1>4, <2>1, <3>1
      <4>2. n \in Nat /\ n # None  BY DEF AdminConstants
      <4> QED  BY <1>2, <2>2, <3>1, <4>1, <4>2
    <3>2. CASE repo[q].store # s
      BY <1>2, <2>2, <2>3, <2>4, <3>2 DEF Fits
    <3> QED  BY <3>1, <3>2
  <2> QED  BY <1>1, <2>1, <2>3, <2>4 DEF Fits
<1>5. Repos_!ReferencesHold'  BY <1>4 DEF Repos_!ReferencesHold, Fits
<1> QED  BY <1>1, <1>3, <1>5, RowWritten

LEMMA StoreDeleteAdmin ==
  ASSUME AdminConstants, AdminInv, NEW c \in Clients, Repos_!StoreDelete(c)
  PROVE  AdminInv'
<1>1. PICK s \in Stores :
        /\ \A r \in Repos : repo[r] # None => repo[r].store # s
        /\ store' = [store EXCEPT ![s] = None] /\ Repos_!Ends(c) /\ UNCHANGED <<repo, policy, rule, loose>>
  BY Zenon DEF Repos_!StoreDelete
<1>2. \A x \in Stores \ {s} : store'[x] = store[x]  BY <1>1 DEF AdminInv, AdminType
<1>3. Tables'  BY <1>1 DEF Tables, AdminInv, AdminType
<1>4. ASSUME NEW q \in Repos, q \notin loose', repo'[q] # None PROVE Fits(q, repo[q])'
  <2>1. q \notin loose /\ repo'[q] = repo[q] /\ repo[q] # None /\ repo[q].store # s  BY <1>1, <1>4
  <2>2. repo[q].store \in Stores \cup {None}
    BY <2>1 DEF AdminInv, AdminType, IsRow, AllColumns, Repos_!Fields, Column
  <2>3. Fits(q, repo[q])  BY <2>1 DEF AdminInv, Repos_!ReferencesHold, Fits
  <2> QED  BY <1>1, <1>2, <2>1, <2>2, <2>3 DEF Fits
<1>5. Repos_!ReferencesHold'  BY <1>4 DEF Repos_!ReferencesHold, Fits
<1> QED  BY <1>1, <1>3, <1>5, RowWritten

----------------------------------------------------------------------------
LEMMA InitAdmin == ASSUME AdminConstants, Repos_!Init PROVE AdminInv
<1>1. /\ repo \in Existing /\ policy = [p \in Policies |-> "*"] /\ rule = Rules /\ store = [s \in Stores |-> 2]
      /\ op = [c \in Clients |-> None] /\ loose = {}
  <2>1. policy \in [Policies -> {"*"}] /\ store \in [Stores -> {2}]  BY DEF Repos_!Init
  <2> QED  BY <2>1 DEF Repos_!Init
<1>2. AdminType  BY <1>1 DEF AdminType, AdminConstants
<1>3. ASSUME NEW r \in Repos, repo[r] # None PROVE Fits(r, repo[r])
  <2>1. IsRow(repo[r])  BY <1>1, <1>3 DEF AdminConstants
  <2>2. /\ repo[r].policies \subseteq Policies /\ repo[r].rule \in Rules \cup {None}
        /\ repo[r].store \in Stores \cup {None}
    BY <2>1 DEF IsRow, AllColumns, Repos_!Fields, Column
  <2>3. 2 # None  BY DEF AdminConstants
  <2> QED  BY <1>1, <1>3, <2>2, <2>3 DEF AdminConstants, Fits
<1>4. Repos_!ReferencesHold  BY <1>3 DEF Repos_!ReferencesHold, Fits
<1>5. AllReliable  BY <1>1 DEF AllReliable
<1> QED  BY <1>2, <1>4, <1>5 DEF AdminInv

LEMMA NextAdmin == ASSUME AdminConstants, AdminInv, [Repos_!Next]_Repos_!vars PROVE AdminInv'
<1>1. ASSUME NEW c \in Clients,
             Repos_!CreateCheck(c) \/ Repos_!CreateInsert(c) \/ Repos_!Put(c) \/ Repos_!Edit(c) \/ Repos_!Patch(c) \/ Repos_!UpdateRead(c) \/ Repos_!UpdateCheck(c)
             \/ Repos_!UpdateWrite(c) \/ Repos_!Delete(c)
      PROVE  AdminInv'
  BY <1>1, CreateCheckAdmin, CreateInsertAdmin, PutAdmin, EditAdmin, PatchAdmin, UpdateReadAdmin, UpdateCheckAdmin,
     UpdateWriteAdmin, DeleteAdmin
<1>2. ASSUME NEW c \in Clients,
             Repos_!PolicySave(c) \/ Repos_!PolicyDetach(c) \/ Repos_!PolicyRemove(c) \/ Repos_!RuleDelete(c) \/ Repos_!StoreQuota(c) \/ Repos_!StoreDelete(c)
      PROVE  AdminInv'
  BY <1>2, PolicySaveAdmin, PolicyDetachAdmin, PolicyRemoveAdmin, RuleDeleteAdmin, StoreQuotaAdmin, StoreDeleteAdmin
<1>3. CASE UNCHANGED Repos_!vars
  <2>1. UNCHANGED <<repo, policy, rule, store, op, loose>>  BY <1>3 DEF Repos_!vars
  <2>2. AdminType' /\ Repos_!ReferencesHold'  BY <2>1 DEF AdminInv, AdminType, Repos_!ReferencesHold
  <2>3. ASSUME NEW c \in Clients, op'[c] # None, ~op'[c].moved PROVE Reliable(op[c])'
    <3>1. Reliable(op[c])  BY <2>1, <2>3 DEF AdminInv, AllReliable
    <3> QED  BY <2>1, <3>1 DEF Reliable, Vetted, Fits, Repos_!ForeignKeys, Spares
  <2> QED  BY <2>2, <2>3 DEF AdminInv, AllReliable
<1> QED  BY <1>1, <1>2, <1>3 DEF Repos_!Next

(* repository_service.go: the checks of Create and Update, the foreign keys of the
   write and the detaching of a policy or a rule before it goes keep what a row refers
   to there and fitting, for every row whose checks no other write overlapped. *)
THEOREM RowsFit == ASSUME AdminConstants PROVE Repos_!Spec => []Repos_!ReferencesHold
<1>1. Repos_!Init => AdminInv  BY InitAdmin
<1>2. AdminInv /\ [Repos_!Next]_Repos_!vars => AdminInv'  BY NextAdmin
<1>3. AdminInv => Repos_!ReferencesHold  BY DEF AdminInv
<1> QED  BY <1>1, <1>2, <1>3, PTL DEF Repos_!Spec

(* Nobody ends another's request. *)
LEMMA OthersKept ==
  ASSUME AdminConstants, AdminInv, NEW c \in Clients, op[c] # None, NEW d \in Clients \ {c},
         \/ Repos_!CreateCheck(d) \/ Repos_!CreateInsert(d) \/ Repos_!Put(d) \/ Repos_!Edit(d) \/ Repos_!Patch(d) \/ Repos_!UpdateRead(d) \/ Repos_!UpdateCheck(d)
         \/ Repos_!UpdateWrite(d) \/ Repos_!Delete(d) \/ Repos_!PolicySave(d) \/ Repos_!PolicyDetach(d) \/ Repos_!PolicyRemove(d) \/ Repos_!RuleDelete(d)
         \/ Repos_!StoreQuota(d) \/ Repos_!StoreDelete(d)
  PROVE  op'[c] # None
<1>1. op = [x \in Clients |-> op[x]] /\ IsOp(op[c])  BY DEF AdminInv, AdminType
<1>2. [op[c] EXCEPT !.moved = TRUE] # None  BY <1>1, MovedOp DEF AdminConstants
<1>3. ASSUME NEW rec, op' = [op EXCEPT ![d] = rec] PROVE op'[c] # None  BY <1>1, <1>3
<1>4. ASSUME Repos_!Ends(d) PROVE op'[c] # None  BY <1>2, <1>4 DEF Repos_!Ends
<1>5. CASE Repos_!CreateCheck(d) \/ Repos_!Put(d) \/ Repos_!Edit(d) \/ Repos_!Patch(d) \/ Repos_!UpdateRead(d) \/ Repos_!UpdateCheck(d)
  BY <1>3, <1>5, Zenon DEF Repos_!CreateCheck, Repos_!Put, Repos_!Edit, Repos_!Patch, Repos_!UpdateRead,
      Repos_!UpdateCheck, Repos_!Ask, Repos_!Begin, Repos_!Fails
<1>6. CASE Repos_!CreateInsert(d) \/ Repos_!UpdateWrite(d)
  BY <1>3, <1>4, <1>6, Zenon DEF Repos_!CreateInsert, Repos_!UpdateWrite, Repos_!Fails
<1>7. CASE Repos_!Delete(d) \/ Repos_!PolicySave(d) \/ Repos_!PolicyRemove(d) \/ Repos_!RuleDelete(d) \/ Repos_!StoreQuota(d) \/ Repos_!StoreDelete(d)
  BY <1>4, <1>7, Zenon DEF Repos_!Delete, Repos_!PolicySave, Repos_!PolicyRemove, Repos_!RuleDelete,
      Repos_!StoreQuota, Repos_!StoreDelete
<1>8. CASE Repos_!PolicyDetach(d)
  <2>1. op'[c] = [op[c] EXCEPT !.moved = TRUE]  BY <1>8 DEF Repos_!PolicyDetach
  <2> QED  BY <1>2, <2>1
<1> QED  BY <1>5, <1>6, <1>7, <1>8

(* The step that ends a write is the write itself, or its refusal. *)
LEMMA StepKeepsOmitted ==
  ASSUME AdminConstants, AdminInv, [Repos_!Next]_Repos_!vars
  PROVE  Repos_!KeepsOmitted
<1> SUFFICES ASSUME NEW c \in Clients, op[c] # None, op[c].pc = "write", op'[c] = None, ~op[c].moved,
                    repo'[op[c].repo] # None, repo[op[c].repo] # None
             PROVE  Spares(op[c], repo[op[c].repo], repo'[op[c].repo]) \/ repo'[op[c].repo] = repo[op[c].repo]
  BY DEF Repos_!KeepsOmitted, Spares
<1>1. op' # op  OBVIOUS
<1>2. PICK d \in Clients :
         \/ Repos_!CreateCheck(d) \/ Repos_!CreateInsert(d) \/ Repos_!Put(d) \/ Repos_!Edit(d) \/ Repos_!Patch(d) \/ Repos_!UpdateRead(d) \/ Repos_!UpdateCheck(d)
         \/ Repos_!UpdateWrite(d) \/ Repos_!Delete(d) \/ Repos_!PolicySave(d) \/ Repos_!PolicyDetach(d) \/ Repos_!PolicyRemove(d) \/ Repos_!RuleDelete(d)
         \/ Repos_!StoreQuota(d) \/ Repos_!StoreDelete(d)
  BY <1>1, Zenon DEF Repos_!Next, Repos_!vars
<1>3. d = c  BY <1>2, OthersKept
<1>4. ~Repos_!Idle(c) /\ op[c].pc \notin {"insert", "read", "check", "remove"}  BY DEF Repos_!Idle
<1>5. Repos_!UpdateWrite(c)
  BY <1>2, <1>3, <1>4, Zenon DEF Repos_!CreateCheck, Repos_!CreateInsert, Repos_!Put, Repos_!Edit, Repos_!Patch,
      Repos_!UpdateRead, Repos_!UpdateCheck, Repos_!Delete, Repos_!PolicySave,
     Repos_!PolicyDetach, Repos_!PolicyRemove, Repos_!RuleDelete, Repos_!StoreQuota, Repos_!StoreDelete
<1> DEFINE r == op[c].repo
           row == op[c].row
           new == [f \in DOMAIN repo[r] |-> IF f \in Repos_!Fields THEN row[f] ELSE repo[r][f]]
<1>6. CASE Repos_!Fails(c)
  BY <1>6 DEF Repos_!Fails
<1>7. CASE repo' = [repo EXCEPT ![r] = new]
  <2>1. r \in Repos /\ Spares(op[c], repo[r], row)
    BY DEF AdminInv, AdminType, IsOp, AllReliable, Reliable
  <2>2. IsRow(repo[r])  BY <2>1 DEF AdminInv, AdminType
  <2>3. \A f \in Repos_!Fields : new[f] = row[f]  BY <2>2 DEF IsRow, AllColumns
  <2>4. repo'[r] = new  BY <1>7, <2>1 DEF AdminInv, AdminType
  <2> HIDE DEF new
  <2>5. Spares(op[c], repo[r], new)  BY <2>1, <2>3 DEF Spares, Repos_!Fields
  <2> QED  BY <2>4, <2>5
<1> QED  BY <1>5, <1>6, <1>7 DEF Repos_!UpdateWrite

(* repository_service.go: the row an update writes has in every field its caller did
   not name what the stored row has, and the secret a proxy's caller was never shown:
   each of its three ways (the form, the switch, the request of an API client) reads
   the row first, and a request that nothing was written behind read what is stored. *)
THEOREM FieldsKept == ASSUME AdminConstants PROVE Repos_!Spec => Repos_!OmittedKept
<1>1. Repos_!Init => AdminInv  BY InitAdmin
<1>2. AdminInv /\ [Repos_!Next]_Repos_!vars => AdminInv'  BY NextAdmin
<1>3. AdminInv /\ [Repos_!Next]_Repos_!vars => [Repos_!KeepsOmitted]_Repos_!vars  BY StepKeepsOmitted
<1> QED  BY <1>1, <1>2, <1>3, PTL DEF Repos_!Spec, Repos_!OmittedKept
-----------------------------------------------------------------------------
(* The administration of blob stores.  RegistryCurrent compares an instance with a row
   by the id of the row: the invariant has to know that the id of a store that is
   about to be made is nobody's yet, and that an instance that differs from the row of
   its id is one an update has still to tell the registry of. *)
CONSTANTS Nodes, FirstStores, Members, Policy, MaxUses, MaxTurns
VARIABLES storeRow, linked, full, cache, counter, storeOp, use, picked, behind, looseStores, budget

Stores_ == INSTANCE BlobStoreAdmin WITH Existing <- FirstStores, row <- storeRow, op <- storeOp, loose <- looseStores

StoreRow(r) ==
  /\ DOMAIN r = {"type", "id", "config", "secret", "members"}
  /\ r.type \in {"s3", "group"} /\ r.id \in Nat /\ r.members \in Seq(Stores)
StoreOp(o) ==
  \/ o.pc = "insert" /\ DOMAIN o = {"pc", "store", "moved", "row"} /\ o.store \in Stores /\ StoreRow(o.row)
  \/ /\ o.pc \in {"check", "write", "invalidate"}
     /\ DOMAIN o = {"pc", "store", "node", "sent", "id", "row", "moved"}
     /\ o.store \in Stores /\ o.node \in Nodes /\ StoreRow(o.row)
  \/ o.pc = "delete" /\ DOMAIN o = {"pc", "store", "moved"} /\ o.store \in Stores
StoreUse(u) ==
  \/ u.pc = "get" /\ DOMAIN u = {"pc", "store", "desc"} /\ u.store \in Stores /\ StoreRow(u.desc)
  \/ /\ u.pc = "pick" /\ DOMAIN u = {"pc", "store", "there", "room"}
     /\ u.there \in Seq(Stores) /\ u.there # <<>> /\ u.room \subseteq Stores_!Listed(u.there)

(* The stores to start from, and None, are what the code has: a row is not the
   absence of one, nor is a request or the name of a store. *)
StoreConstants ==
  /\ ~StoreRow(None) /\ ~StoreOp(None) /\ ~StoreUse(None) /\ None \notin Stores
  /\ FirstStores \subseteq Stores /\ Members \subseteq Seq(Stores)

StoresType ==
  /\ storeRow = [s \in Stores |-> storeRow[s]] /\ \A s \in Stores : storeRow[s] # None => StoreRow(storeRow[s])
  /\ cache = [n \in Nodes |-> [s \in Stores |-> cache[n][s]]]
  /\ \A n \in Nodes, s \in Stores : cache[n][s] # None => StoreRow(cache[n][s])
  /\ storeOp = [c \in Clients |-> storeOp[c]] /\ \A c \in Clients : storeOp[c] # None => StoreOp(storeOp[c])
  /\ use = [n \in Nodes |-> use[n]] /\ \A n \in Nodes : use[n] # None => StoreUse(use[n])
  /\ counter \in [Nodes -> Nat]
  /\ DOMAIN budget = {"ops", "uses", "turns"} /\ budget.ops \in Nat

(* The id of a store that is about to be made is nobody's. *)
Inserting(c) == storeOp[c] # None /\ storeOp[c].pc = "insert"
FreshIds ==
  /\ \A c \in Clients : Inserting(c) =>
       /\ storeOp[c].row.id <= budget.ops
       /\ \A s \in Stores : storeRow[s] # None => storeRow[s].id # storeOp[c].row.id
       /\ \A n \in Nodes, s \in Stores : cache[n][s] # None => cache[n][s].id # storeOp[c].row.id
       /\ \A n \in Nodes : use[n] # None /\ use[n].pc = "get" => use[n].desc.id # storeOp[c].row.id
       /\ \A d \in Clients \ {c} : Inserting(d) => storeOp[d].row.id # storeOp[c].row.id
  /\ \A s \in Stores : storeRow[s] # None => storeRow[s].id <= budget.ops
  /\ \A n \in Nodes, s \in Stores : cache[n][s] # None => cache[n][s].id <= budget.ops
  /\ \A n \in Nodes : use[n] # None /\ use[n].pc = "get" => use[n].desc.id <= budget.ops

(* What a node has open of a store, or is about to open, is what the row says, or
   the update that changed the row has still to tell the node. *)
Telling(c, n, s) ==
  /\ storeOp[c] # None /\ storeOp[c].pc = "invalidate" /\ storeOp[c].store = s /\ storeOp[c].node = n /\ storeOp[c].id = storeRow[s].id
OpenedSound == \A n \in Nodes, s \in Stores : storeRow[s] # None /\ <<n, s>> \notin behind =>
  /\ cache[n][s] # None /\ cache[n][s].id = storeRow[s].id =>
       cache[n][s] = storeRow[s] \/ \E c \in Clients : Telling(c, n, s)
  /\ use[n] # None /\ use[n].pc = "get" /\ use[n].store = s /\ use[n].desc.id = storeRow[s].id => use[n].desc = storeRow[s]

(* The members of a group are stores. *)
Whole(r) == r.type = "group" => \A s \in Stores_!Listed(r.members) : storeRow[s] # None /\ storeRow[s].type = "s3"

(* What a request may rely on that nothing was written behind. *)
StoreReliable(o) ==
  /\ o.pc = "insert" => Whole(o.row)
  /\ o.pc \in {"check", "write"} =>
       /\ storeRow[o.store] # None /\ o.row.type = storeRow[o.store].type
       /\ o.sent.config # None /\ o.sent.secret = Stores_!Kept => o.row.secret = storeRow[o.store].secret
  /\ o.pc = "write" => Whole(o.row)
  /\ o.pc = "delete" => \A g \in Stores : storeRow[g] # None /\ storeRow[g].type = "group" => o.store \notin Stores_!Listed(storeRow[g].members)
AllStoresReliable == \A c \in Clients : storeOp[c] # None /\ ~storeOp[c].moved => StoreReliable(storeOp[c])

StoresInv == StoresType /\ FreshIds /\ OpenedSound /\ Stores_!MembersExist /\ AllStoresReliable /\ Stores_!PickSound

----------------------------------------------------------------------------
(* The other requests after a step of c: the same calls, which may have been told
   of a write. *)
SameCall(o, p) ==
  /\ StoreOp(p) /\ p.pc = o.pc /\ p.store = o.store
  /\ o.pc = "insert" => p.row = o.row
  /\ o.pc = "invalidate" => p.node = o.node /\ p.id = o.id
Others(c) == \A d \in Clients \ {c} :
  /\ storeOp[d] = None => storeOp'[d] = None
  /\ storeOp[d] # None => storeOp'[d] # None /\ SameCall(storeOp[d], storeOp'[d])
StoreOps == storeOp = [c \in Clients |-> storeOp[c]] /\ \A c \in Clients : storeOp[c] # None => StoreOp(storeOp[c])

LEMMA MovedCall ==
  ASSUME StoreConstants, NEW o, StoreOp(o)
  PROVE  LET p == [o EXCEPT !.moved = TRUE] IN SameCall(o, p) /\ p # None /\ p.moved = TRUE
<1> DEFINE p == [o EXCEPT !.moved = TRUE]
<1>1. /\ DOMAIN p = DOMAIN o /\ p.pc = o.pc /\ p.moved = TRUE /\ p.store = o.store
      /\ o.pc = "insert" => p.row = o.row
      /\ o.pc \in {"check", "write", "invalidate"} => p.node = o.node /\ p.id = o.id /\ p.row = o.row /\ p.sent = o.sent
  BY DEF StoreOp
<1> HIDE DEF p
<1>2. StoreOp(p)  BY <1>1 DEF StoreOp
<1>3. SameCall(o, p)
  <2>1. o.pc \in {"insert", "check", "write", "invalidate", "delete"}  BY DEF StoreOp
  <2> QED  BY <1>1, <1>2, <2>1 DEF SameCall
<1> QED  BY <1>1, <1>2, <1>3 DEF p, StoreConstants

(* A write tells every other request. *)
LEMMA MovedOps ==
  ASSUME StoreConstants, StoreOps, NEW c \in Clients, NEW rec, rec # None => StoreOp(rec), storeOp' = Stores_!Moved(c, rec)
  PROVE  /\ StoreOps' /\ Others(c) /\ storeOp'[c] = rec
         /\ \A d \in Clients \ {c} : storeOp'[d] # None => storeOp'[d].moved = TRUE
<1>1. ASSUME NEW d \in Clients \ {c}
      PROVE  /\ storeOp[d] = None => storeOp'[d] = None
             /\ storeOp[d] # None => storeOp'[d] # None /\ SameCall(storeOp[d], storeOp'[d]) /\ storeOp'[d].moved = TRUE
  <2>1. storeOp'[d] = IF storeOp[d] = None THEN None ELSE [storeOp[d] EXCEPT !.moved = TRUE]  BY DEF Stores_!Moved
  <2>2. storeOp[d] # None => StoreOp(storeOp[d])  BY DEF StoreOps
  <2> QED  BY <2>1, <2>2, MovedCall
<1>2. storeOp'[c] = rec /\ storeOp' = [d \in Clients |-> storeOp'[d]]  BY DEF Stores_!Moved
<1>3. Others(c)  BY <1>1 DEF Others
<1>4. StoreOps'  BY <1>1, <1>2 DEF StoreOps, SameCall
<1> QED  BY <1>1, <1>2, <1>3, <1>4

LEMMA OwnOps ==
  ASSUME StoreConstants, StoreOps, NEW c \in Clients, NEW rec, rec # None => StoreOp(rec), storeOp' = [storeOp EXCEPT ![c] = rec]
  PROVE  StoreOps' /\ Others(c) /\ storeOp'[c] = rec /\ \A d \in Clients \ {c} : storeOp'[d] = storeOp[d]
<1>1. storeOp'[c] = rec /\ \A d \in Clients \ {c} : storeOp'[d] = storeOp[d]  BY DEF StoreOps
<1>2. storeOp' = [d \in Clients |-> storeOp'[d]]  BY DEF StoreOps
<1>3. StoreOps'  BY <1>1, <1>2 DEF StoreOps
<1>4. Others(c)  BY <1>1 DEF Others, SameCall, StoreOps
<1> QED  BY <1>1, <1>3, <1>4

LEMMA SameOps ==
  ASSUME StoreConstants, StoresInv, storeOp' = storeOp
  PROVE  \A c \in Clients : Others(c) /\ (Inserting(c)' <=> Inserting(c))
  BY DEF Others, SameCall, StoresInv, StoresType, Inserting

(* Ids stay fresh when rows, instances and descriptors take no id that was not
   there, but for the row that an insert adds as it ends. *)
LEMMA FreshStays ==
  ASSUME StoreConstants, StoresInv, NEW c \in Clients, Others(c),
         budget.ops <= budget'.ops, budget'.ops \in Nat,
         Inserting(c)' => storeOp'[c].row.id = budget.ops + 1 /\ budget'.ops = budget.ops + 1,
         \A s \in Stores : storeRow'[s] # None =>
           (storeRow[s] # None /\ storeRow'[s].id = storeRow[s].id) \/ (Inserting(c) /\ storeRow'[s].id = storeOp[c].row.id),
         \A n \in Nodes, s \in Stores : cache'[n][s] # None =>
           \/ cache[n][s] # None /\ cache'[n][s].id = cache[n][s].id
           \/ use[n] # None /\ use[n].pc = "get" /\ cache'[n][s].id = use[n].desc.id,
         \A n \in Nodes : use'[n] # None /\ use'[n].pc = "get" =>
           \/ use[n] # None /\ use[n].pc = "get" /\ use'[n].desc.id = use[n].desc.id
           \/ \E s \in Stores : storeRow[s] # None /\ use'[n].desc.id = storeRow[s].id
  PROVE  FreshIds'
<1>0. budget.ops \in Nat  BY DEF StoresInv, StoresType
<1>1. ASSUME NEW d \in Clients \ {c}, Inserting(d)' PROVE Inserting(d) /\ storeOp'[d].row.id = storeOp[d].row.id
  BY <1>1 DEF Others, SameCall, Inserting
<1>2. \A d \in Clients : Inserting(d) => storeOp[d].row.id \in Nat /\ storeOp[d].row.id <= budget.ops
  BY DEF StoresInv, StoresType, StoreOp, StoreRow, FreshIds, Inserting
<1>3. \A s \in Stores : storeRow'[s] # None => storeRow'[s].id \in Nat /\ storeRow'[s].id <= budget.ops
  BY <1>2 DEF StoresInv, StoresType, StoreRow, FreshIds
<1>4. \A n \in Nodes, s \in Stores : cache'[n][s] # None => cache'[n][s].id \in Nat /\ cache'[n][s].id <= budget.ops
  BY DEF StoresInv, StoresType, StoreRow, StoreUse, FreshIds
<1>5. \A n \in Nodes : use'[n] # None /\ use'[n].pc = "get" => use'[n].desc.id \in Nat /\ use'[n].desc.id <= budget.ops
  BY DEF StoresInv, StoresType, StoreRow, StoreUse, FreshIds
<1>6. ASSUME NEW d \in Clients, Inserting(d)'
      PROVE  /\ storeOp'[d].row.id <= budget'.ops
             /\ \A s \in Stores : storeRow'[s] # None => storeRow'[s].id # storeOp'[d].row.id
             /\ \A n \in Nodes, s \in Stores : cache'[n][s] # None => cache'[n][s].id # storeOp'[d].row.id
             /\ \A n \in Nodes : use'[n] # None /\ use'[n].pc = "get" => use'[n].desc.id # storeOp'[d].row.id
  <2>1. CASE d = c
    BY <1>0, <1>3, <1>4, <1>5, <1>6, <2>1
  <2>2. CASE d # c
    <3>1. Inserting(d) /\ storeOp'[d].row.id = storeOp[d].row.id  BY <1>1, <1>6, <2>2
    <3>2. storeOp[d].row.id \in Nat /\ storeOp[d].row.id <= budget.ops  BY <1>2, <3>1
    <3>3. \A s \in Stores : storeRow'[s] # None => storeRow'[s].id # storeOp[d].row.id
      BY <2>2, <3>1 DEF StoresInv, FreshIds
    <3>4. \A n \in Nodes, s \in Stores : cache'[n][s] # None => cache'[n][s].id # storeOp[d].row.id
      BY <3>1 DEF StoresInv, FreshIds
    <3>5. \A n \in Nodes : use'[n] # None /\ use'[n].pc = "get" => use'[n].desc.id # storeOp[d].row.id
      BY <3>1 DEF StoresInv, FreshIds
    <3> QED  BY <1>0, <3>1, <3>2, <3>3, <3>4, <3>5
  <2> QED  BY <2>1, <2>2
<1>7. ASSUME NEW d \in Clients, NEW e \in Clients \ {d}, Inserting(d)', Inserting(e)'
      PROVE  storeOp'[d].row.id # storeOp'[e].row.id
  <2>1. CASE d = c
    BY <1>0, <1>1, <1>2, <1>7, <2>1
  <2>2. CASE e = c
    BY <1>0, <1>1, <1>2, <1>7, <2>2
  <2>3. CASE d # c /\ e # c
    BY <1>1, <1>7, <2>3 DEF StoresInv, FreshIds
  <2> QED  BY <2>1, <2>2, <2>3
<1>8. /\ \A s \in Stores : storeRow'[s] # None => storeRow'[s].id <= budget'.ops
      /\ \A n \in Nodes, s \in Stores : cache'[n][s] # None => cache'[n][s].id <= budget'.ops
      /\ \A n \in Nodes : use'[n] # None /\ use'[n].pc = "get" => use'[n].desc.id <= budget'.ops
  BY <1>0, <1>3, <1>4, <1>5
<1> QED  BY <1>6, <1>7, <1>8, Zenon DEF FreshIds

(* A request takes a step of its own: no row, no instance and no other request
   changes. *)
LEMMA OwnStep ==
  ASSUME StoreConstants, StoresInv, NEW c \in Clients, NEW rec,
         rec # None => StoreOp(rec) /\ (~rec.moved => StoreReliable(rec)),
         rec # None /\ rec.pc = "insert" => rec.row.id = budget.ops + 1 /\ budget'.ops = budget.ops + 1,
         storeOp[c] = None \/ storeOp[c].pc # "invalidate",
         storeOp' = [storeOp EXCEPT ![c] = rec], UNCHANGED <<storeRow, behind, looseStores, cache, use, counter, picked>>,
         DOMAIN budget' = {"ops", "uses", "turns"}, budget'.ops \in Nat, budget.ops <= budget'.ops
  PROVE  StoresInv'
<1>0. StoreOps  BY DEF StoresInv, StoresType, StoreOps
<1>1. StoreOps' /\ Others(c) /\ storeOp'[c] = rec /\ \A d \in Clients \ {c} : storeOp'[d] = storeOp[d]  BY <1>0, OwnOps
<1>2. StoresType'  BY <1>1 DEF StoresInv, StoresType, StoreOps
<1>3. FreshIds'
  <2>1. Inserting(c)' => storeOp'[c].row.id = budget.ops + 1 /\ budget'.ops = budget.ops + 1
    BY <1>1 DEF Inserting
  <2> QED  BY <1>1, <2>1, FreshStays
<1>4. OpenedSound'
  <2>1. \A n \in Nodes, s \in Stores, d \in Clients : Telling(d, n, s) => Telling(d, n, s)'
    BY <1>1 DEF Telling
  <2> QED  BY <2>1 DEF StoresInv, OpenedSound
<1>5. Stores_!MembersExist' /\ Stores_!PickSound'  BY DEF StoresInv, Stores_!MembersExist, Stores_!PickSound
<1>6. ASSUME NEW d \in Clients, storeOp'[d] # None, ~storeOp'[d].moved PROVE StoreReliable(storeOp[d])'
  <2>1. StoreReliable(storeOp'[d])  BY <1>1, <1>6 DEF StoresInv, AllStoresReliable
  <2> QED  BY <2>1 DEF StoreReliable, Whole
<1> QED  BY <1>2, <1>3, <1>4, <1>5, <1>6 DEF StoresInv, AllStoresReliable

LEMMA FailsStores ==
  ASSUME StoreConstants, StoresInv, NEW c \in Clients, storeOp[c] = None \/ storeOp[c].pc # "invalidate", Stores_!Fails(c)
  PROVE  StoresInv'
<1>1. /\ storeOp' = [storeOp EXCEPT ![c] = None] /\ UNCHANGED <<storeRow, behind, looseStores, cache, use, counter, picked>> /\ budget' = budget
  BY DEF Stores_!Fails, Stores_!Do
<1>2. DOMAIN budget = {"ops", "uses", "turns"} /\ budget.ops \in Nat  BY DEF StoresInv, StoresType
<1>3. DOMAIN budget' = {"ops", "uses", "turns"} /\ budget'.ops \in Nat /\ budget.ops <= budget'.ops  BY <1>1, <1>2
<1> QED  BY <1>1, <1>3, OwnStep

(* A request begins. *)
LEMMA RequestCounted ==
  ASSUME StoresInv, NEW c, Stores_!Idle(c)
  PROVE  /\ storeOp[c] = None /\ DOMAIN budget' = {"ops", "uses", "turns"} /\ budget'.ops = budget.ops + 1
         /\ budget.ops \in Nat /\ budget'.ops \in Nat /\ budget.ops <= budget'.ops
<1>1. DOMAIN budget = {"ops", "uses", "turns"} /\ budget.ops \in Nat  BY DEF StoresInv, StoresType
<1>2. budget' = [budget EXCEPT !.ops = @ + 1] /\ storeOp[c] = None  BY DEF Stores_!Idle
<1>3. DOMAIN budget' = {"ops", "uses", "turns"} /\ budget'.ops = budget.ops + 1  BY <1>1, <1>2
<1> QED  BY <1>1, <1>2, <1>3

(* A list of members that was checked. *)
LEMMA CheckedWhole ==
  ASSUME StoresInv, NEW r, r.members \in Seq(Stores), r.type = "group" => Stores_!validateGroupConfig(r.members)
  PROVE  Whole(r)
<1>1. Stores_!Listed(r.members) \subseteq Stores  BY DEF Stores_!Listed
<1>2. ASSUME NEW s \in Stores_!Listed(r.members), r.type = "group" PROVE storeRow[s] # None /\ storeRow[s].type = "s3"
  BY <1>1, <1>2 DEF Stores_!validateGroupConfig, StoresInv, StoresType, StoreRow
<1> QED  BY <1>2 DEF Whole

LEMMA NoMembers == <<>> \in Seq(Stores)
  OBVIOUS

LEMMA CreateCheckStores ==
  ASSUME StoreConstants, StoresInv, NEW c \in Clients, Stores_!CreateCheck(c)
  PROVE  StoresInv'
<1>1. PICK s \in Stores, m \in Members \cup {<<>>} :
        /\ Stores_!Idle(c) /\ (m # <<>> => Stores_!validateGroupConfig(m))
        /\ Stores_!Do(c, [pc |-> "insert", store |-> s, moved |-> FALSE,
                          row |-> [type |-> IF m = <<>> THEN "s3" ELSE "group", id |-> budget.ops + 1, config |-> 1,
                                   secret |-> IF m = <<>> THEN "sk" ELSE None, members |-> m]])
        /\ UNCHANGED <<storeRow, linked, behind, looseStores>> /\ UNCHANGED Stores_!Used
  BY Zenon DEF Stores_!CreateCheck
<1> DEFINE r == [type |-> IF m = <<>> THEN "s3" ELSE "group", id |-> budget.ops + 1, config |-> 1,
                 secret |-> IF m = <<>> THEN "sk" ELSE None, members |-> m]
           o == [pc |-> "insert", store |-> s, moved |-> FALSE, row |-> r]
<1>2. /\ storeOp[c] = None /\ DOMAIN budget' = {"ops", "uses", "turns"} /\ budget'.ops = budget.ops + 1
      /\ budget.ops \in Nat /\ budget'.ops \in Nat /\ budget.ops <= budget'.ops
  BY <1>1, RequestCounted
<1>3. m \in Seq(Stores)  BY NoMembers DEF StoreConstants
<1>4. /\ DOMAIN r = {"type", "id", "config", "secret", "members"} /\ r.type = IF m = <<>> THEN "s3" ELSE "group"
      /\ r.id = budget.ops + 1 /\ r.members = m
  OBVIOUS
<1> HIDE DEF r
<1>5. StoreRow(r)  BY <1>2, <1>3, <1>4 DEF StoreRow
<1>6. Whole(r)  BY <1>1, <1>3, <1>4, CheckedWhole
<1>7. StoreOp(o)  BY <1>5 DEF StoreOp
<1>8. StoreReliable(o)  BY <1>6 DEF StoreReliable
<1>9. o.pc = "insert" /\ o.row.id = budget.ops + 1  BY <1>4
<1>10. storeOp' = [storeOp EXCEPT ![c] = o]  BY <1>1 DEF Stores_!Do, r
<1> HIDE DEF o
<1>11. UNCHANGED <<storeRow, behind, looseStores, cache, use, counter, picked>>  BY <1>1 DEF Stores_!Used
<1> QED  BY <1>2, <1>7, <1>8, <1>9, <1>10, <1>11, OwnStep

(* The merge keeps the type, and a secret that is not sent. *)
LEMMA Merged ==
  ASSUME NEW stored, StoreRow(stored), NEW sent, sent.members \in Seq(Stores)
  PROVE  LET r == Stores_!mergeBlobStoreConfig(stored, sent)
         IN  /\ StoreRow(r) /\ r.type = stored.type
             /\ sent.config # None /\ sent.secret = Stores_!Kept => r.secret = stored.secret
<1>1. CASE sent.config = None
  <2> DEFINE r == [stored EXCEPT !.config = None, !.secret = None, !.members = <<>>]
  <2>1. r = Stores_!mergeBlobStoreConfig(stored, sent)  BY <1>1 DEF Stores_!mergeBlobStoreConfig
  <2>2. DOMAIN r = DOMAIN stored /\ r.type = stored.type /\ r.id = stored.id /\ r.members = <<>>
    BY DEF StoreRow
  <2>3. <<>> \in Seq(Stores)  OBVIOUS
  <2> HIDE DEF r
  <2> QED  BY <1>1, <2>1, <2>2, <2>3 DEF StoreRow
<1>2. CASE sent.config # None
  <2> DEFINE sec == IF sent.secret = Stores_!Empty THEN None ELSE IF sent.secret = Stores_!Kept THEN stored.secret ELSE sent.secret
             r == [stored EXCEPT !.config = sent.config, !.members = sent.members, !.secret = sec]
  <2>1. r = Stores_!mergeBlobStoreConfig(stored, sent)  BY <1>2 DEF Stores_!mergeBlobStoreConfig, StoreRow
  <2>2. sent.secret = Stores_!Kept => sec = stored.secret  BY DEF Stores_!Kept, Stores_!Empty
  <2> HIDE DEF sec
  <2>3. DOMAIN r = DOMAIN stored /\ r.type = stored.type /\ r.id = stored.id /\ r.members = sent.members /\ r.secret = sec
    BY DEF StoreRow
  <2> HIDE DEF r
  <2> QED  BY <2>1, <2>2, <2>3 DEF StoreRow
<1> QED  BY <1>1, <1>2

LEMMA UpdateReadStores ==
  ASSUME StoreConstants, StoresInv, NEW c \in Clients, Stores_!UpdateRead(c)
  PROVE  StoresInv'
<1>1. PICK s \in Stores, n \in Nodes, cfg \in {2, None}, sec \in {Stores_!Kept, Stores_!Empty}, m \in Members \cup {<<>>} :
        /\ Stores_!Idle(c) /\ storeRow[s] # None
        /\ ((storeRow[s].type = "group") = (m # <<>>) \/ cfg = None) /\ (m # <<>> \/ cfg = None => sec = Stores_!Kept)
        /\ LET sent == [config |-> cfg, secret |-> sec, members |-> m]
           IN  Stores_!Do(c, [pc |-> "check", store |-> s, node |-> n, sent |-> sent, id |-> storeRow[s].id,
                              row |-> Stores_!mergeBlobStoreConfig(storeRow[s], sent), moved |-> FALSE])
        /\ UNCHANGED <<storeRow, linked, behind, looseStores>> /\ UNCHANGED Stores_!Used
  BY Zenon DEF Stores_!UpdateRead
<1> DEFINE sent == [config |-> cfg, secret |-> sec, members |-> m]
           r == Stores_!mergeBlobStoreConfig(storeRow[s], sent)
           o == [pc |-> "check", store |-> s, node |-> n, sent |-> sent, id |-> storeRow[s].id, row |-> r, moved |-> FALSE]
<1>2. /\ storeOp[c] = None /\ DOMAIN budget' = {"ops", "uses", "turns"} /\ budget'.ops = budget.ops + 1
      /\ budget.ops \in Nat /\ budget'.ops \in Nat /\ budget.ops <= budget'.ops
  BY <1>1, RequestCounted
<1>3. StoreRow(storeRow[s])  BY <1>1 DEF StoresInv, StoresType
<1>4. sent.members \in Seq(Stores)
  <2>1. m \in Seq(Stores)  BY NoMembers DEF StoreConstants
  <2> QED  BY <2>1
<1> HIDE DEF sent
<1>5. StoreRow(r) /\ r.type = storeRow[s].type /\ (sent.config # None /\ sent.secret = Stores_!Kept => r.secret = storeRow[s].secret)
  BY <1>3, <1>4, Merged
<1> HIDE DEF r
<1>6. StoreOp(o)  BY <1>5 DEF StoreOp
<1>7. StoreReliable(o)  BY <1>1, <1>5 DEF StoreReliable
<1>8. o.pc = "check"  OBVIOUS
<1>9. storeOp' = [storeOp EXCEPT ![c] = o]  BY <1>1, Zenon DEF Stores_!Do, r, sent
<1> HIDE DEF o
<1>10. UNCHANGED <<storeRow, behind, looseStores, cache, use, counter, picked>>  BY <1>1 DEF Stores_!Used
<1> QED  BY <1>2, <1>6, <1>7, <1>8, <1>9, <1>10, OwnStep

LEMMA UpdateCheckStores ==
  ASSUME StoreConstants, StoresInv, NEW c \in Clients, Stores_!UpdateCheck(c)
  PROVE  StoresInv'
<1>1. storeOp[c] # None /\ storeOp[c].pc = "check" /\ StoreOp(storeOp[c])  BY DEF Stores_!UpdateCheck, StoresInv, StoresType
<1>2. CASE Stores_!Fails(c)  BY <1>1, <1>2, FailsStores
<1>3. CASE /\ storeOp[c].row.type = "group" => Stores_!validateGroupConfig(storeOp[c].row.members)
           /\ Stores_!Do(c, [storeOp[c] EXCEPT !.pc = "write"]) /\ UNCHANGED <<storeRow, linked, behind, looseStores, budget>> /\ UNCHANGED Stores_!Used
  <2> DEFINE o == [storeOp[c] EXCEPT !.pc = "write"]
  <2>1. /\ DOMAIN o = DOMAIN storeOp[c] /\ o.pc = "write" /\ o.store = storeOp[c].store /\ o.node = storeOp[c].node
        /\ o.sent = storeOp[c].sent /\ o.id = storeOp[c].id /\ o.row = storeOp[c].row /\ o.moved = storeOp[c].moved
    BY <1>1 DEF StoreOp
  <2>2. storeOp' = [storeOp EXCEPT ![c] = o]  BY <1>3 DEF Stores_!Do
  <2> HIDE DEF o
  <2>3. StoreOp(o)  BY <1>1, <2>1 DEF StoreOp
  <2>4. StoreRow(storeOp[c].row)  BY <1>1 DEF StoreOp
  <2>5. Whole(storeOp[c].row)  BY <1>3, <2>4, CheckedWhole DEF StoreRow
  <2>6. ASSUME ~o.moved PROVE StoreReliable(o)
    <3>1. StoreReliable(storeOp[c])  BY <1>1, <2>1, <2>6 DEF StoresInv, AllStoresReliable
    <3> QED  BY <1>1, <2>1, <2>5, <3>1 DEF StoreReliable
  <2>7. UNCHANGED <<storeRow, behind, looseStores, cache, use, counter, picked>> /\ budget' = budget  BY <1>3 DEF
      Stores_!Used
  <2>8. DOMAIN budget' = {"ops", "uses", "turns"} /\ budget'.ops \in Nat /\ budget.ops <= budget'.ops
    BY <2>7 DEF StoresInv, StoresType
  <2> QED  BY <1>1, <2>1, <2>2, <2>3, <2>6, <2>7, <2>8, OwnStep
<1> QED  BY <1>2, <1>3 DEF Stores_!UpdateCheck

LEMMA DeleteCheckStores ==
  ASSUME StoreConstants, StoresInv, NEW c \in Clients, Stores_!DeleteCheck(c)
  PROVE  StoresInv'
<1>1. PICK s \in Stores, unread \in BOOLEAN :
        /\ Stores_!Idle(c) /\ (unread \/ Stores_!checkNotGroupMember(s))
        /\ Stores_!Do(c, [pc |-> "delete", store |-> s, moved |-> unread])
        /\ UNCHANGED <<storeRow, linked, behind, looseStores>> /\ UNCHANGED Stores_!Used
  BY Zenon DEF Stores_!DeleteCheck
<1> DEFINE o == [pc |-> "delete", store |-> s, moved |-> unread]
<1>2. /\ storeOp[c] = None /\ DOMAIN budget' = {"ops", "uses", "turns"} /\ budget'.ops = budget.ops + 1
      /\ budget.ops \in Nat /\ budget'.ops \in Nat /\ budget.ops <= budget'.ops
  BY <1>1, RequestCounted
<1>3. StoreOp(o) /\ o.pc = "delete"  BY DEF StoreOp
<1>4. ~o.moved => StoreReliable(o)  BY <1>1 DEF StoreReliable, Stores_!checkNotGroupMember
<1>5. storeOp' = [storeOp EXCEPT ![c] = o]  BY <1>1 DEF Stores_!Do
<1> HIDE DEF o
<1>6. UNCHANGED <<storeRow, behind, looseStores, cache, use, counter, picked>>  BY <1>1 DEF Stores_!Used
<1> QED  BY <1>2, <1>3, <1>4, <1>5, <1>6, OwnStep

----------------------------------------------------------------------------
(* The writes. *)
LEMMA StillTelling ==
  ASSUME NEW c \in Clients, Others(c), NEW d \in Clients \ {c}, NEW n \in Nodes, NEW s \in Stores,
         Telling(d, n, s), storeRow'[s].id = storeRow[s].id
  PROVE  Telling(d, n, s)'
  BY DEF Telling, Others, SameCall

LEMMA CreateInsertStores ==
  ASSUME StoreConstants, StoresInv, NEW c \in Clients, Stores_!CreateInsert(c)
  PROVE  StoresInv'
<1> DEFINE s == storeOp[c].store
<1>1. /\ storeOp[c] # None /\ storeOp[c].pc = "insert" /\ StoreOp(storeOp[c]) /\ s \in Stores /\ StoreRow(storeOp[c].row)
  BY DEF Stores_!CreateInsert, StoresInv, StoresType, StoreOp
<1>2. CASE Stores_!Fails(c)  BY <1>1, <1>2, FailsStores
<1>3. CASE /\ storeRow[s] = None /\ storeRow' = [storeRow EXCEPT ![s] = storeOp[c].row] /\ storeOp' = Stores_!Moved(c, None)
           /\ looseStores' = IF storeOp[c].moved THEN looseStores \cup {s} ELSE looseStores \ {s}
           /\ UNCHANGED <<linked, behind, budget>> /\ UNCHANGED Stores_!Used
  <2>0. StoreOps  BY DEF StoresInv, StoresType, StoreOps
  <2>1. /\ StoreOps' /\ Others(c) /\ storeOp'[c] = None /\ \A d \in Clients \ {c} : storeOp'[d] # None => storeOp'[d].moved = TRUE
    BY <1>3, <2>0, MovedOps
  <2>2. UNCHANGED <<behind, budget, full, cache, counter, use, picked>>  BY <1>3 DEF Stores_!Used
  <2>3. storeRow'[s] = storeOp[c].row /\ \A t \in Stores \ {s} : storeRow'[t] = storeRow[t]  BY <1>1, <1>3 DEF
      StoresInv, StoresType
  <2>4. storeRow' = [t \in Stores |-> storeRow'[t]]  BY <1>3 DEF StoresInv, StoresType
  <2> HIDE DEF s
  <2>5. StoresType'
    <3>1. \A t \in Stores : storeRow'[t] # None => StoreRow(storeRow'[t])  BY <1>1, <2>3 DEF StoresInv, StoresType
    <3> QED  BY <2>1, <2>2, <2>4, <3>1 DEF StoresInv, StoresType, StoreOps
  <2>6. FreshIds'
    <3>1. ~Inserting(c)' /\ Inserting(c)  BY <1>1, <2>1 DEF Inserting
    <3>2. budget.ops \in Nat  BY DEF StoresInv, StoresType
    <3>3. \A t \in Stores : storeRow'[t] # None =>
           (storeRow[t] # None /\ storeRow'[t].id = storeRow[t].id) \/ (Inserting(c) /\ storeRow'[t].id = storeOp[c].row.id)
      BY <2>3, <3>1
    <3> QED  BY <2>1, <2>2, <3>1, <3>2, <3>3, FreshStays
  <2>7. OpenedSound'
    <3>1. SUFFICES ASSUME NEW n \in Nodes, NEW t \in Stores, storeRow'[t] # None, <<n, t>> \notin behind'
                   PROVE  /\ cache'[n][t] # None /\ cache'[n][t].id = storeRow'[t].id =>
                               cache'[n][t] = storeRow'[t] \/ \E d \in Clients : Telling(d, n, t)'
                          /\ use'[n] # None /\ use'[n].pc = "get" /\ use'[n].store = t /\ use'[n].desc.id = storeRow'[t].id
                               => use'[n].desc = storeRow'[t]
      BY Zenon DEF OpenedSound
    <3>2. CASE t = s
      BY <1>1, <2>2, <2>3, <3>2 DEF StoresInv, FreshIds, Inserting
    <3>3. CASE t # s
      <4>1. \A d \in Clients : Telling(d, n, t) => Telling(d, n, t)'
        <5>1. ~Telling(c, n, t)  BY <1>1 DEF Telling
        <5> QED  BY <2>1, <2>3, <3>3, <5>1, StillTelling
      <4>2. storeRow'[t] = storeRow[t] /\ storeRow[t] # None /\ <<n, t>> \notin behind /\ cache' = cache /\ use' = use
        BY <2>2, <2>3, <3>1, <3>3
      <4> QED  BY <4>1, <4>2 DEF StoresInv, OpenedSound
    <3> QED  BY <3>2, <3>3
  <2>8. Stores_!MembersExist'
    <3>1. SUFFICES ASSUME NEW g \in Stores, g \notin looseStores', storeRow'[g] # None, storeRow'[g].type = "group",
                          NEW m \in Stores_!Listed(storeRow'[g].members)
                   PROVE  storeRow'[m] # None /\ storeRow'[m].type = "s3"
      BY DEF Stores_!MembersExist
    <3>2. StoreRow(storeRow'[g])  BY <2>5, <3>1 DEF StoresType
    <3>3. m \in Stores  BY <3>1, <3>2 DEF StoreRow, Stores_!Listed
    <3>4. storeRow[m] # None /\ storeRow[m].type = "s3"
      <4>1. CASE g = s
        <5>1. ~storeOp[c].moved  BY <1>3, <3>1, <4>1 DEF s
        <5>2. Whole(storeOp[c].row)  BY <1>1, <5>1 DEF StoresInv, AllStoresReliable, StoreReliable
        <5> QED  BY <2>3, <3>1, <4>1, <5>2 DEF Whole
      <4>2. CASE g # s
        <5>1. g \notin looseStores  BY <1>3, <3>1, <4>2 DEF s
        <5> QED  BY <2>3, <3>1, <4>2, <5>1 DEF StoresInv, Stores_!MembersExist
      <4> QED  BY <4>1, <4>2
    <3>5. m # s  BY <1>3, <3>4 DEF s
    <3> QED  BY <2>3, <3>3, <3>4, <3>5
  <2>9. AllStoresReliable'  BY <2>1 DEF AllStoresReliable
  <2>10. Stores_!PickSound'  BY <2>2 DEF StoresInv, Stores_!PickSound
  <2> QED  BY <2>5, <2>6, <2>7, <2>8, <2>9, <2>10 DEF StoresInv
<1> QED  BY <1>1, <1>2, <1>3 DEF Stores_!CreateInsert

LEMMA UpdateWriteStores ==
  ASSUME StoreConstants, StoresInv, NEW c \in Clients, Stores_!UpdateWrite(c)
  PROVE  StoresInv'
<1> DEFINE s == storeOp[c].store
           told == [storeOp[c] EXCEPT !.pc = "invalidate"]
           new == [storeOp[c].row EXCEPT !.id = storeRow[s].id]
<1>1. /\ storeOp[c] # None /\ storeOp[c].pc = "write" /\ StoreOp(storeOp[c]) /\ s \in Stores /\ storeOp[c].node \in Nodes /\ StoreRow(storeOp[c].row)
  BY DEF Stores_!UpdateWrite, StoresInv, StoresType, StoreOp
<1>2. /\ DOMAIN told = DOMAIN storeOp[c] /\ told.pc = "invalidate" /\ told.store = s /\ told.node = storeOp[c].node
      /\ told.id = storeOp[c].id /\ told.row = storeOp[c].row
  BY <1>1 DEF StoreOp
<1>3. /\ storeOp' = Stores_!Moved(c, told) /\ UNCHANGED <<linked, budget>> /\ UNCHANGED Stores_!Used  BY Zenon DEF
    Stores_!UpdateWrite
<1>4. \/ storeRow[s] = None /\ UNCHANGED <<storeRow, behind, looseStores>>
      \/ /\ storeRow[s] # None /\ storeRow' = [storeRow EXCEPT ![s] = new]
         /\ behind' = behind \cup {<<n, s>> : n \in
              {x \in Nodes : x # storeOp[c].node \/ storeRow[s].id # storeOp[c].id \/ (use[x] # None /\ use[x].store = s)}}
         /\ looseStores' = IF storeOp[c].moved THEN looseStores \cup {s} \cup Stores_!Listing(s) ELSE looseStores \ {s}
  BY Zenon DEF Stores_!UpdateWrite
<1>5. storeRow[s] # None => /\ DOMAIN new = DOMAIN storeOp[c].row /\ new.type = storeOp[c].row.type /\ new.id = storeRow[s].id
                            /\ new.members = storeOp[c].row.members
  BY <1>1 DEF StoreRow
<1>6. StoreOp(told)
  <2> HIDE DEF told, new
  <2> QED  BY <1>1, <1>2 DEF StoreOp
<1> HIDE DEF told, new
<1>7. storeRow[s] # None => StoreRow(new)  BY <1>1, <1>5 DEF StoreRow, StoresInv, StoresType
<1>8. StoreOps  BY DEF StoresInv, StoresType, StoreOps
<1>9. /\ StoreOps' /\ Others(c) /\ storeOp'[c] = told /\ \A d \in Clients \ {c} : storeOp'[d] # None => storeOp'[d].moved = TRUE
  BY <1>3, <1>6, <1>8, MovedOps
<1>10. UNCHANGED <<budget, full, cache, counter, use, picked>>  BY <1>3 DEF Stores_!Used
<1>11. told # None  BY <1>6 DEF StoreConstants
<1>12. /\ storeRow' = [t \in Stores |-> storeRow'[t]] /\ \A t \in Stores \ {s} : storeRow'[t] = storeRow[t]
       /\ storeRow[s] = None => storeRow'[s] = None
       /\ storeRow[s] # None => storeRow'[s] = new
  BY <1>1, <1>4 DEF StoresInv, StoresType
<1>13. StoresType'
  <2>1. \A t \in Stores : storeRow'[t] # None => StoreRow(storeRow'[t])  BY <1>1, <1>7, <1>12 DEF StoresInv, StoresType
  <2> QED  BY <1>9, <1>10, <1>12, <2>1 DEF StoresInv, StoresType, StoreOps
<1>14. FreshIds'
  <2>1. ~Inserting(c)'  BY <1>2, <1>9 DEF Inserting
  <2>2. budget.ops \in Nat  BY DEF StoresInv, StoresType
  <2>3. \A t \in Stores : storeRow'[t] # None => storeRow[t] # None /\ storeRow'[t].id = storeRow[t].id
    BY <1>1, <1>5, <1>12
  <2> QED  BY <1>9, <1>10, <2>1, <2>2, <2>3, FreshStays
<1>15. OpenedSound'
  <2>1. SUFFICES ASSUME NEW n \in Nodes, NEW t \in Stores, storeRow'[t] # None, <<n, t>> \notin behind'
                 PROVE  /\ cache'[n][t] # None /\ cache'[n][t].id = storeRow'[t].id =>
                             cache'[n][t] = storeRow'[t] \/ \E d \in Clients : Telling(d, n, t)'
                        /\ use'[n] # None /\ use'[n].pc = "get" /\ use'[n].store = t /\ use'[n].desc.id = storeRow'[t].id
                             => use'[n].desc = storeRow'[t]
    BY Zenon DEF OpenedSound
  <2>2. <<n, t>> \notin behind  BY <1>4, <2>1
  <2>3. CASE t = s
    <3>1. storeRow[s] # None  BY <1>12, <2>1, <2>3
    <3>2. n = storeOp[c].node /\ storeRow[s].id = storeOp[c].id /\ ~(use[n] # None /\ use[n].store = s)
      BY <1>4, <2>1, <2>3, <3>1
    <3>3. storeRow'[s] = new /\ new.id = storeRow[s].id  BY <1>5, <1>12, <3>1
    <3>4. Telling(c, n, t)'  BY <1>2, <1>9, <1>11, <2>3, <3>2, <3>3 DEF Telling
    <3> QED  BY <1>10, <2>3, <3>2, <3>4
  <2>4. CASE t # s
    <3>1. \A d \in Clients : Telling(d, n, t) => Telling(d, n, t)'
      <4>1. ~Telling(c, n, t)  BY <1>1 DEF Telling
      <4> QED  BY <1>9, <1>12, <2>4, <4>1, StillTelling
    <3>2. storeRow'[t] = storeRow[t] /\ storeRow[t] # None /\ cache' = cache /\ use' = use  BY <1>10, <1>12, <2>1, <2>4
    <3> QED  BY <2>2, <3>1, <3>2 DEF StoresInv, OpenedSound
  <2> QED  BY <2>3, <2>4
<1>16. Stores_!MembersExist'
  <2>1. SUFFICES ASSUME NEW g \in Stores, g \notin looseStores', storeRow'[g] # None, storeRow'[g].type = "group",
                        NEW m \in Stores_!Listed(storeRow'[g].members)
                 PROVE  storeRow'[m] # None /\ storeRow'[m].type = "s3"
    BY DEF Stores_!MembersExist
  <2>2. StoreRow(storeRow'[g])  BY <1>13, <2>1 DEF StoresType
  <2>3. m \in Stores  BY <2>1, <2>2 DEF StoreRow, Stores_!Listed
  <2>4. CASE storeRow[s] = None
    <3>1. storeRow' = storeRow /\ looseStores' = looseStores  BY <1>4, <2>4
    <3> QED  BY <2>1, <3>1 DEF StoresInv, Stores_!MembersExist
  <2>5. CASE storeRow[s] # None /\ storeOp[c].moved
    <3>1. looseStores' = looseStores \cup {s} \cup Stores_!Listing(s)  BY <1>4, <2>5
    <3>2. g # s /\ g \notin looseStores /\ storeRow'[g] = storeRow[g]  BY <1>12, <2>1, <3>1
    <3>3. m # s  BY <2>1, <3>1, <3>2 DEF Stores_!Listing
    <3> QED  BY <1>12, <2>1, <2>3, <3>2, <3>3 DEF StoresInv, Stores_!MembersExist
  <2>6. CASE storeRow[s] # None /\ ~storeOp[c].moved
    <3>1. looseStores' = looseStores \ {s} /\ storeRow'[s] = new  BY <1>4, <1>12, <2>6
    <3>2. Whole(storeOp[c].row) /\ storeOp[c].row.type = storeRow[s].type  BY <1>1, <2>6 DEF
        StoresInv, AllStoresReliable, StoreReliable
    <3>3. storeRow[m] # None /\ storeRow[m].type = "s3"
      <4>1. CASE g = s  BY <1>5, <2>1, <2>6, <3>1, <3>2, <4>1 DEF Whole
      <4>2. CASE g # s  BY <1>12, <2>1, <3>1, <4>2 DEF StoresInv, Stores_!MembersExist
      <4> QED  BY <4>1, <4>2
    <3>4. CASE m = s
      <4>1. new # None  BY <2>6, <1>7 DEF StoreConstants
      <4> QED  BY <1>5, <2>6, <3>1, <3>2, <3>3, <3>4, <4>1
    <3>5. CASE m # s  BY <1>12, <2>3, <3>3, <3>5
    <3> QED  BY <3>4, <3>5
  <2> QED  BY <2>4, <2>5, <2>6
<1>17. AllStoresReliable'  BY <1>2, <1>9 DEF AllStoresReliable, StoreReliable
<1>18. Stores_!PickSound'  BY <1>10 DEF StoresInv, Stores_!PickSound
<1> QED  BY <1>13, <1>14, <1>15, <1>16, <1>17, <1>18 DEF StoresInv

LEMMA UpdateInvalidateStores ==
  ASSUME StoreConstants, StoresInv, NEW c \in Clients, Stores_!UpdateInvalidate(c)
  PROVE  StoresInv'
<1> DEFINE s == storeOp[c].store
<1>1. /\ storeOp[c] # None /\ storeOp[c].pc = "invalidate" /\ StoreOp(storeOp[c]) /\ s \in Stores /\ storeOp[c].node \in Nodes
  BY DEF Stores_!UpdateInvalidate, StoresInv, StoresType, StoreOp
<1>2. /\ cache' = Stores_!Invalidate(c) /\ storeOp' = [storeOp EXCEPT ![c] = None] /\ UNCHANGED <<storeRow, counter, use, picked, looseStores, budget>>
      /\ behind' = IF use[storeOp[c].node] = None /\ (storeRow[s] # None => storeRow[s].id = storeOp[c].id)
                   THEN behind \ {<<storeOp[c].node, s>>} ELSE behind
  BY DEF Stores_!UpdateInvalidate, Stores_!Do
<1>3. cache' = [n \in Nodes |-> [t \in Stores |-> IF n = storeOp[c].node /\ t = s /\ cache[n][t] # None /\ cache[n][t].id = storeOp[c].id
                                                  THEN None ELSE cache[n][t]]]
  <2>1. cache = [n \in Nodes |-> [t \in Stores |-> cache[n][t]]]  BY DEF StoresInv, StoresType
  <2> QED  BY <1>2, <2>1 DEF Stores_!Invalidate
<1> HIDE DEF s
<1>4. StoreOps  BY DEF StoresInv, StoresType, StoreOps
<1>5. /\ StoreOps' /\ Others(c) /\ storeOp'[c] = None /\ \A d \in Clients \ {c} : storeOp'[d] = storeOp[d]  BY <1>2, <1>4, OwnOps
<1>6. \A n \in Nodes, t \in Stores : cache'[n][t] = None \/ cache'[n][t] = cache[n][t]  BY <1>3
<1>7. cache' = [n \in Nodes |-> [t \in Stores |-> cache'[n][t]]]  BY <1>3
<1>8. StoresType'  BY <1>2, <1>5, <1>6, <1>7 DEF StoresInv, StoresType, StoreOps
<1>9. FreshIds'
  <2>1. ~Inserting(c)'  BY <1>5 DEF Inserting
  <2>2. budget.ops \in Nat  BY DEF StoresInv, StoresType
  <2> QED  BY <1>2, <1>5, <1>6, <2>1, <2>2, FreshStays
<1>10. OpenedSound'
  <2>1. SUFFICES ASSUME NEW n \in Nodes, NEW t \in Stores, storeRow[t] # None, <<n, t>> \notin behind'
                 PROVE  /\ cache'[n][t] # None /\ cache'[n][t].id = storeRow[t].id =>
                             cache'[n][t] = storeRow[t] \/ \E d \in Clients : Telling(d, n, t)'
                        /\ use[n] # None /\ use[n].pc = "get" /\ use[n].store = t /\ use[n].desc.id = storeRow[t].id
                             => use[n].desc = storeRow[t]
    BY <1>2, Zenon DEF OpenedSound
  <2>2. CASE <<n, t>> \in behind
    <3>1. n = storeOp[c].node /\ t = s /\ use[n] = None /\ storeRow[t].id = storeOp[c].id  BY <1>2, <2>1, <2>2
    <3> QED  BY <1>3, <3>1
  <2>3. CASE <<n, t>> \notin behind
    <3>1. \A d \in Clients \ {c} : Telling(d, n, t) => Telling(d, n, t)'  BY <1>2, <1>5 DEF Telling
    <3>2. Telling(c, n, t) => cache'[n][t] = None \/ cache'[n][t].id # storeRow[t].id  BY <1>3, <1>1 DEF Telling, s
    <3> QED  BY <1>6, <2>1, <2>3, <3>1, <3>2 DEF StoresInv, OpenedSound
  <2> QED  BY <2>2, <2>3
<1>11. Stores_!MembersExist' /\ Stores_!PickSound'  BY <1>2 DEF StoresInv, Stores_!MembersExist, Stores_!PickSound
<1>12. ASSUME NEW d \in Clients, storeOp'[d] # None, ~storeOp'[d].moved PROVE StoreReliable(storeOp[d])'
  <2>1. StoreReliable(storeOp'[d])  BY <1>5, <1>12 DEF StoresInv, AllStoresReliable
  <2> QED  BY <1>2, <2>1 DEF StoreReliable, Whole
<1> QED  BY <1>8, <1>9, <1>10, <1>11, <1>12 DEF StoresInv, AllStoresReliable

LEMMA DeleteRowStores ==
  ASSUME StoreConstants, StoresInv, NEW c \in Clients, Stores_!DeleteRow(c)
  PROVE  StoresInv'
<1> DEFINE s == storeOp[c].store
<1>1. storeOp[c] # None /\ storeOp[c].pc = "delete" /\ StoreOp(storeOp[c]) /\ s \in Stores
  BY DEF Stores_!DeleteRow, StoresInv, StoresType, StoreOp
<1>2. CASE Stores_!Fails(c)  BY <1>1, <1>2, FailsStores
<1>3. CASE /\ storeRow' = [storeRow EXCEPT ![s] = None] /\ storeOp' = Stores_!Moved(c, None)
           /\ looseStores' = (looseStores \ {s}) \cup (IF storeOp[c].moved THEN Stores_!Listing(s) ELSE {})
           /\ UNCHANGED <<linked, behind, budget>> /\ UNCHANGED Stores_!Used
  <2>0. StoreOps  BY DEF StoresInv, StoresType, StoreOps
  <2>1. /\ StoreOps' /\ Others(c) /\ storeOp'[c] = None /\ \A d \in Clients \ {c} : storeOp'[d] # None => storeOp'[d].moved = TRUE
    BY <1>3, <2>0, MovedOps
  <2>2. UNCHANGED <<behind, budget, full, cache, counter, use, picked>>  BY <1>3 DEF Stores_!Used
  <2>3. storeRow'[s] = None /\ \A t \in Stores \ {s} : storeRow'[t] = storeRow[t]  BY <1>1, <1>3 DEF StoresInv, StoresType
  <2>4. storeRow' = [t \in Stores |-> storeRow'[t]]  BY <1>3 DEF StoresInv, StoresType
  <2> HIDE DEF s
  <2>5. StoresType'
    <3>1. \A t \in Stores : storeRow'[t] # None => StoreRow(storeRow'[t])  BY <2>3 DEF StoresInv, StoresType
    <3> QED  BY <2>1, <2>2, <2>4, <3>1 DEF StoresInv, StoresType, StoreOps
  <2>6. FreshIds'
    <3>1. ~Inserting(c)'  BY <2>1 DEF Inserting
    <3>2. budget.ops \in Nat  BY DEF StoresInv, StoresType
    <3>3. \A t \in Stores : storeRow'[t] # None => storeRow[t] # None /\ storeRow'[t].id = storeRow[t].id  BY <2>3
    <3> QED  BY <2>1, <2>2, <3>1, <3>2, <3>3, FreshStays
  <2>7. OpenedSound'
    <3>1. SUFFICES ASSUME NEW n \in Nodes, NEW t \in Stores, storeRow'[t] # None, <<n, t>> \notin behind'
                   PROVE  /\ cache'[n][t] # None /\ cache'[n][t].id = storeRow'[t].id =>
                               cache'[n][t] = storeRow'[t] \/ \E d \in Clients : Telling(d, n, t)'
                          /\ use'[n] # None /\ use'[n].pc = "get" /\ use'[n].store = t /\ use'[n].desc.id = storeRow'[t].id
                               => use'[n].desc = storeRow'[t]
      BY Zenon DEF OpenedSound
    <3>2. t # s  BY <2>3, <3>1
    <3>3. \A d \in Clients : Telling(d, n, t) => Telling(d, n, t)'
      <4>1. ~Telling(c, n, t)  BY <1>1 DEF Telling
      <4> QED  BY <2>1, <2>3, <3>2, <4>1, StillTelling
    <3>4. storeRow'[t] = storeRow[t] /\ storeRow[t] # None /\ <<n, t>> \notin behind /\ cache' = cache /\ use' = use
      BY <2>2, <2>3, <3>1, <3>2
    <3> QED  BY <3>3, <3>4 DEF StoresInv, OpenedSound
  <2>8. Stores_!MembersExist'
    <3>1. SUFFICES ASSUME NEW g \in Stores, g \notin looseStores', storeRow'[g] # None, storeRow'[g].type = "group",
                          NEW m \in Stores_!Listed(storeRow'[g].members)
                   PROVE  storeRow'[m] # None /\ storeRow'[m].type = "s3"
      BY DEF Stores_!MembersExist
    <3>2. StoreRow(storeRow'[g])  BY <2>5, <3>1 DEF StoresType
    <3>3. m \in Stores  BY <3>1, <3>2 DEF StoreRow, Stores_!Listed
    <3>4. g # s /\ g \notin looseStores /\ storeRow'[g] = storeRow[g]  BY <1>3, <2>3, <3>1 DEF s
    <3>5. m # s
      <4>1. CASE storeOp[c].moved  BY <1>3, <3>1, <3>4, <4>1 DEF s, Stores_!Listing
      <4>2. CASE ~storeOp[c].moved  BY <1>1, <3>1, <3>4, <4>2 DEF s, StoresInv, AllStoresReliable, StoreReliable
      <4> QED  BY <4>1, <4>2
    <3> QED  BY <2>3, <3>1, <3>3, <3>4, <3>5 DEF StoresInv, Stores_!MembersExist
  <2>9. AllStoresReliable'  BY <2>1 DEF AllStoresReliable
  <2>10. Stores_!PickSound'  BY <2>2 DEF StoresInv, Stores_!PickSound
  <2> QED  BY <2>5, <2>6, <2>7, <2>8, <2>9, <2>10 DEF StoresInv
<1> QED  BY <1>1, <1>2, <1>3 DEF Stores_!DeleteRow

----------------------------------------------------------------------------
(* The requests that use a store. *)
LEMMA QuietStores ==
  ASSUME StoreConstants, StoresInv, UNCHANGED <<storeRow, storeOp, behind, looseStores, cache>>,
         DOMAIN budget' = {"ops", "uses", "turns"}, budget'.ops = budget.ops,
         counter' \in [Nodes -> Nat], use' = [n \in Nodes |-> use'[n]],
         \A n \in Nodes : use'[n] # None => StoreUse(use'[n]),
         \A n \in Nodes : use'[n] # None /\ use'[n].pc = "get" =>
           use'[n] = use[n] \/ \E s \in Stores : storeRow[s] # None /\ use'[n].desc = storeRow[s] /\ use'[n].store = s,
         Stores_!PickSound'
  PROVE  StoresInv'
<1>1. StoresType'  BY DEF StoresInv, StoresType
<1>2. FreshIds'
  <2>1. \A c \in Clients : Inserting(c)' => Inserting(c)  BY DEF Inserting
  <2> QED  BY <2>1 DEF StoresInv, FreshIds, Inserting
<1>3. OpenedSound'
  <2>1. SUFFICES ASSUME NEW n \in Nodes, NEW s \in Stores, storeRow[s] # None, <<n, s>> \notin behind
                 PROVE  /\ cache[n][s] # None /\ cache[n][s].id = storeRow[s].id =>
                             cache[n][s] = storeRow[s] \/ \E c \in Clients : Telling(c, n, s)'
                        /\ use'[n] # None /\ use'[n].pc = "get" /\ use'[n].store = s /\ use'[n].desc.id = storeRow[s].id
                             => use'[n].desc = storeRow[s]
    BY Zenon DEF OpenedSound
  <2>2. \A c \in Clients : Telling(c, n, s) => Telling(c, n, s)'  BY DEF Telling
  <2> QED  BY <2>1, <2>2 DEF StoresInv, OpenedSound
<1>4. Stores_!MembersExist' /\ AllStoresReliable'  BY DEF StoresInv, Stores_!MembersExist, AllStoresReliable,
    StoreReliable, Whole
<1> QED  BY <1>1, <1>2, <1>3, <1>4 DEF StoresInv

LEMMA LinkFillStores ==
  ASSUME StoreConstants, StoresInv, NEW s \in Stores, Stores_!Link(s) \/ Stores_!Fill(s)
  PROVE  StoresInv'
<1>1. UNCHANGED <<storeRow, storeOp, behind, looseStores, cache, counter, use, picked>> /\ budget' = [budget EXCEPT !.turns = @ + 1]
  BY DEF Stores_!Link, Stores_!Fill, Stores_!Used
<1>2. DOMAIN budget' = {"ops", "uses", "turns"} /\ budget'.ops = budget.ops  BY <1>1 DEF StoresInv, StoresType
<1>3. Stores_!PickSound'  BY <1>1 DEF StoresInv, Stores_!PickSound
<1>4. counter' \in [Nodes -> Nat] /\ use' = [n \in Nodes |-> use'[n]] /\ \A n \in Nodes : use'[n] # None => StoreUse(use'[n])
  BY <1>1 DEF StoresInv, StoresType
<1> QED  BY <1>1, <1>2, <1>3, <1>4, QuietStores

LEMMA Used1 ==
  ASSUME StoresInv, NEW n \in Nodes, NEW u, u # None => StoreUse(u), use' = [use EXCEPT ![n] = u]
  PROVE  /\ use' = [k \in Nodes |-> use'[k]] /\ use'[n] = u /\ \A k \in Nodes \ {n} : use'[k] = use[k]
         /\ \A k \in Nodes : use'[k] # None => StoreUse(use'[k])
<1>1. use'[n] = u /\ \A k \in Nodes \ {n} : use'[k] = use[k]  BY DEF StoresInv, StoresType
<1>2. use' = [k \in Nodes |-> use'[k]]  BY DEF StoresInv, StoresType
<1> QED  BY <1>1, <1>2 DEF StoresInv, StoresType

LEMMA Begun ==
  ASSUME StoresInv, NEW n \in Nodes, Stores_!Using(n)
  PROVE  DOMAIN budget' = {"ops", "uses", "turns"} /\ budget'.ops = budget.ops
<1>1. DOMAIN budget = {"ops", "uses", "turns"} /\ budget' = [budget EXCEPT !.uses = @ + 1]  BY DEF
    Stores_!Using, StoresInv, StoresType
<1> QED  BY <1>1

LEMMA OpenReadStores ==
  ASSUME StoreConstants, StoresInv, NEW n \in Nodes, NEW s \in Stores, Stores_!OpenRead(n, s)
  PROVE  StoresInv'
<1> DEFINE u == [pc |-> "get", store |-> s, desc |-> storeRow[s]]
<1>1. /\ Stores_!Using(n) /\ storeRow[s] # None /\ use' = [use EXCEPT ![n] = u]
      /\ UNCHANGED <<storeRow, cache, counter, storeOp, picked, behind, looseStores>>
  BY DEF Stores_!OpenRead
<1>2. StoreRow(storeRow[s])  BY <1>1 DEF StoresInv, StoresType
<1>3. StoreUse(u)  BY <1>2 DEF StoreUse
<1>4. u.store = s /\ u.desc = storeRow[s]  OBVIOUS
<1> HIDE DEF u
<1>5. /\ use' = [k \in Nodes |-> use'[k]] /\ use'[n] = u /\ \A k \in Nodes \ {n} : use'[k] = use[k]
      /\ \A k \in Nodes : use'[k] # None => StoreUse(use'[k])
  BY <1>1, <1>3, Used1
<1>6. Stores_!PickSound' /\ counter' \in [Nodes -> Nat]  BY <1>1 DEF StoresInv, Stores_!PickSound, StoresType
<1>7. DOMAIN budget' = {"ops", "uses", "turns"} /\ budget'.ops = budget.ops  BY <1>1, Begun
<1>8. \A k \in Nodes : use'[k] # None /\ use'[k].pc = "get" =>
        use'[k] = use[k] \/ \E t \in Stores : storeRow[t] # None /\ use'[k].desc = storeRow[t] /\ use'[k].store = t
  BY <1>1, <1>4, <1>5
<1>9. UNCHANGED <<storeRow, storeOp, behind, looseStores, cache>>  BY <1>1
<1> QED  BY <1>5, <1>6, <1>7, <1>8, <1>9, QuietStores

LEMMA Least ==
  ASSUME NEW S, S \subseteq Nat, S # {}
  PROVE  \E m \in S : \A k \in S : m <= k
<1>1. PICK m \in S : \A y \in S : ~(<<y, m>> \in OpToRel(<, Nat))
  BY NatLessThanWellFounded, WFMin
<1>2. \A y \in S : ~(y < m)  BY <1>1 DEF OpToRel
<1> QED  BY <1>2

(* The members that are there are stores. *)
LEMMA PresentStores ==
  ASSUME NEW m \in Seq(Stores)
  PROVE  Stores_!Present(m) \in Seq(Stores)
<1> DEFINE Upto(f, k) == f = [i \in 0..k |-> IF i = 0 THEN <<>> ELSE IF storeRow[m[i]] = None THEN f[i - 1] ELSE Append(f[i - 1], m[i])]
           first == CHOOSE f : Upto(f, Len(m))
<1>1. Stores_!Present(m) = first[Len(m)]  BY Zenon DEF Stores_!Present
<1>2. Len(m) \in Nat  OBVIOUS
<1>3. \A k \in 0..Len(m) : \E f : Upto(f, k)
  <2> DEFINE S == {k \in 0..Len(m) : ~ \E f : Upto(f, k)}
  <2>1. SUFFICES ASSUME S # {} PROVE FALSE  OBVIOUS
  <2>2. S \subseteq Nat  BY <1>2
  <2>3. PICK k \in S : \A j \in S : k <= j  BY <2>1, <2>2, Least, Zenon
  <2>4. k \in 0..Len(m) /\ ~ \E f : Upto(f, k)  BY <2>3, Zenon
  <2>5. k # 0
    <3> DEFINE f == [i \in 0..0 |-> <<>>]
    <3>1. f = [i \in 0..0 |-> IF i = 0 THEN <<>> ELSE IF storeRow[m[i]] = None THEN f[i - 1] ELSE Append(f[i - 1], m[i])]
      OBVIOUS
    <3>2. Upto(f, 0)  BY <3>1, Zenon
    <3> QED  BY <2>4, <3>2, Zenon
  <2>6. k - 1 \in 0..Len(m) /\ ~(k <= k - 1)  BY <1>2, <2>4, <2>5
  <2>7. k - 1 \notin S  BY <2>3, <2>6, Zenon
  <2>8. PICK f : Upto(f, k - 1)  BY <2>6, <2>7, Zenon
  <2> DEFINE g == [i \in 0..k |-> IF i = k THEN IF storeRow[m[k]] = None THEN f[k - 1] ELSE Append(f[k - 1], m[k]) ELSE f[i]]
  <2>9. ASSUME NEW i \in 0..k
        PROVE g[i] = IF i = 0 THEN <<>> ELSE IF storeRow[m[i]] = None THEN g[i - 1] ELSE Append(g[i - 1], m[i])
    <3>0. k \in Nat /\ k - 1 \in Nat  BY <1>2, <2>4, <2>5
    <3>1. \A x \in 0..k - 1 : g[x] = f[x]  BY <3>0
    <3>2. \A x \in 0..k - 1 : f[x] = IF x = 0 THEN <<>> ELSE IF storeRow[m[x]] = None THEN f[x - 1] ELSE Append(f[x - 1], m[x])
      <4> HIDE DEF g
      <4> QED  BY <2>8
    <3>3. CASE i = k
      <4>1. g[i] = IF storeRow[m[k]] = None THEN f[k - 1] ELSE Append(f[k - 1], m[k])  BY <3>3
      <4>2. g[k - 1] = f[k - 1]  BY <3>0, <3>1
      <4> HIDE DEF g
      <4> QED  BY <2>5, <3>3, <4>1, <4>2
    <3>4. CASE i # k
      <4>1. i \in 0..k - 1 /\ (i # 0 => i - 1 \in 0..k - 1)  BY <3>0, <3>4
      <4> HIDE DEF g
      <4> QED  BY <3>1, <3>2, <4>1
    <3> QED  BY <3>3, <3>4
  <2>10. g = [i \in 0..k |-> IF i = 0 THEN <<>> ELSE IF storeRow[m[i]] = None THEN g[i - 1] ELSE Append(g[i - 1], m[i])]
    <3>1. g = [i \in 0..k |-> g[i]]  OBVIOUS
    <3> HIDE DEF g
    <3> QED  BY <2>9, <3>1
  <2>11. Upto(g, k)  BY <2>10, Zenon
  <2> QED  BY <2>4, <2>11, Zenon
<1>4. Upto(first, Len(m))
  <2>1. Len(m) \in 0..Len(m)  BY <1>2
  <2>2. \E f : Upto(f, Len(m))  BY <1>3, <2>1, Zenon
  <2> QED  BY <2>2, Zenon
<1>5. \A i \in 0..Len(m) : first[i] = IF i = 0 THEN <<>> ELSE IF storeRow[m[i]] = None THEN first[i - 1] ELSE Append(first[i - 1], m[i])
  <2> HIDE DEF first
  <2> QED  BY <1>4
<1> HIDE DEF first
<1>6. \A i \in 0..Len(m) : first[i] \in Seq(Stores)
  <2> DEFINE S == {i \in 0..Len(m) : first[i] \notin Seq(Stores)}
  <2>1. SUFFICES ASSUME S # {} PROVE FALSE  OBVIOUS
  <2>2. S \subseteq Nat  BY <1>2
  <2>3. PICK k \in S : \A j \in S : k <= j  BY <2>1, <2>2, Least, Zenon
  <2>4. k \in 0..Len(m) /\ first[k] \notin Seq(Stores)  BY <2>3, Zenon
  <2> HIDE DEF S
  <2>5. k # 0  BY <1>5, <2>4, NoMembers
  <2>6. k - 1 \in 0..Len(m) /\ ~(k <= k - 1)  BY <1>2, <2>4, <2>5
  <2>7. first[k - 1] \in Seq(Stores)  BY <2>3, <2>6, Zenon DEF S
  <2>8. m[k] \in Stores  BY <2>4, <2>5
  <2>9. first[k] = IF storeRow[m[k]] = None THEN first[k - 1] ELSE Append(first[k - 1], m[k])  BY <1>5, <2>4, <2>5
  <2>10. Append(first[k - 1], m[k]) \in Seq(Stores)  BY <2>7, <2>8
  <2> QED  BY <2>4, <2>7, <2>9, <2>10
<1> QED  BY <1>1, <1>2, <1>6

(* From any place on, every member of the list is met. *)
LEMMA Rotation ==
  ASSUME NEW L \in Nat \ {0}, NEW from \in Nat, NEW j \in 0..L - 1
  PROVE  \E i \in 0..L - 1 : (from + i) % L = j
<1> DEFINE S == {n \in Nat : \E k \in Nat : from = L * k + n}
<1>1. from \in S
  <2>1. 0 \in Nat /\ from = L * 0 + from  OBVIOUS
  <2> QED  BY <2>1
<1>2. S \subseteq Nat  OBVIOUS
<1>3. PICK n \in S : \A x \in S : n <= x  BY <1>1, <1>2, Least, Zenon
<1>4. PICK k \in Nat : from = L * k + n  BY <1>3
<1>5. n \in Nat  BY <1>3
<1>6. n < L
  <2>1. SUFFICES ASSUME n >= L PROVE FALSE  BY <1>5
  <2>2. n - L \in Nat /\ k + 1 \in Nat  BY <1>5, <2>1
  <2>3. from = L * (k + 1) + (n - L)
    <3>1. L * (k + 1) = L * k + L  OBVIOUS
    <3> QED  BY <1>4, <1>5, <3>1
  <2>4. n - L \in S  BY <2>2, <2>3
  <2>5. n <= n - L  BY <1>3, <2>4
  <2> QED  BY <1>5, <2>5
<1> HIDE DEF S
<1>7. \A q \in Nat, r \in 0..L - 1 : (L * q + r) % L = r  OBVIOUS
<1>8. CASE n <= j
  <2>1. j - n \in 0..L - 1  BY <1>5, <1>8
  <2>2. from + (j - n) = L * k + j  BY <1>4, <1>5
  <2> QED  BY <1>7, <2>1, <2>2
<1>9. CASE j < n
  <2>1. L + j - n \in 0..L - 1  BY <1>5, <1>6, <1>9
  <2>2. L * (k + 1) = L * k + L  OBVIOUS
  <2>3. from + (L + j - n) = L * (k + 1) + j  BY <1>4, <1>5, <2>2
  <2>4. k + 1 \in Nat  OBVIOUS
  <2>5. (L * (k + 1) + j) % L = j  BY <1>7, <2>4
  <2> QED  BY <2>1, <2>3, <2>5
<1> QED  BY <1>5, <1>8, <1>9

(* The choice is a member with room, when there is one. *)
LEMMA ChoiceSound ==
  ASSUME StoreConstants, NEW there \in Seq(Stores), there # <<>>, NEW room \in SUBSET Stores_!Listed(there), NEW from \in Nat
  PROVE  LET x == Stores_!FirstWithRoom(there, room, from)
         IN  (x = None) = (room = {}) /\ (x # None => x \in room)
<1> DEFINE L == Len(there)
           at(i) == there[((from + i) % L) + 1]
           fit == {i \in 0..L - 1 : at(i) \in room}
           i0 == CHOOSE i \in fit : \A j \in fit : i <= j
<1>1. Stores_!FirstWithRoom(there, room, from) = IF fit = {} THEN None ELSE at(i0)  BY Zenon DEF Stores_!FirstWithRoom
<1>2. L \in Nat \ {0}  OBVIOUS
<1>3. room \subseteq Stores  BY DEF Stores_!Listed
<1>4. fit = {} => room = {}
  <2>1. SUFFICES ASSUME NEW s \in room PROVE fit # {}  OBVIOUS
  <2>2. PICK p \in 1..L : there[p] = s  BY <2>1 DEF Stores_!Listed
  <2>3. p - 1 \in 0..L - 1  BY <1>2
  <2>4. PICK i \in 0..L - 1 : (from + i) % L = p - 1
    <3> HIDE DEF L
    <3> QED  BY <1>2, <2>3, Rotation
  <2>5. at(i) = s
    <3>1. ((from + i) % L) + 1 = p  BY <2>4
    <3> QED  BY <2>2, <3>1
  <2>6. i \in fit  BY <2>1, <2>4, <2>5, Zenon
  <2> QED  BY <2>6
<1>5. fit # {} => at(i0) \in room
  <2>1. SUFFICES ASSUME fit # {} PROVE at(i0) \in room  OBVIOUS
  <2>2. fit \subseteq Nat  OBVIOUS
  <2>3. \E i \in fit : \A j \in fit : i <= j  BY <2>1, <2>2, Least, Zenon
  <2>4. i0 \in fit  BY <2>3, Zenon
  <2> QED  BY <2>4, Zenon
<1> HIDE DEF fit, at, i0
<1> QED  BY <1>1, <1>3, <1>4, <1>5 DEF StoreConstants

LEMMA GetStores ==
  ASSUME StoreConstants, StoresInv, NEW n \in Nodes, Stores_!Get(n)
  PROVE  StoresInv'
<1> DEFINE s == use[n].store
           d == use[n].desc
<1>1. /\ use[n] # None /\ use[n].pc = "get" /\ s \in Stores /\ StoreRow(d)
      /\ use' = [use EXCEPT ![n] = None]
      /\ UNCHANGED <<storeRow, counter, storeOp, picked, behind, looseStores, budget>>
  BY DEF Stores_!Get, StoresInv, StoresType, StoreUse
<1>2. cache' = cache \/ cache' = [cache EXCEPT ![n][s] = d]
  BY DEF Stores_!Get, Stores_!newFromDescriptor
<1> HIDE DEF s, d
<1>3. /\ use' = [k \in Nodes |-> use'[k]] /\ use'[n] = None /\ \A k \in Nodes \ {n} : use'[k] = use[k]
      /\ \A k \in Nodes : use'[k] # None => StoreUse(use'[k])
  BY <1>1, Used1
<1>4. /\ cache' = [k \in Nodes |-> [x \in Stores |-> cache'[k][x]]]
      /\ \A k \in Nodes, x \in Stores : cache'[k][x] = cache[k][x] \/ (k = n /\ x = s /\ cache'[k][x] = d)
  <2>0. cache = [k \in Nodes |-> [x \in Stores |-> cache[k][x]]]  BY DEF StoresInv, StoresType
  <2>1. CASE cache' = cache  BY <2>0, <2>1
  <2>2. CASE cache' = [cache EXCEPT ![n][s] = d]
    <3>1. cache' = [k \in Nodes |-> [x \in Stores |-> IF k = n /\ x = s THEN d ELSE cache[k][x]]]
      BY <1>1, <2>0, <2>2
    <3>2. \A k \in Nodes, x \in Stores : cache'[k][x] = IF k = n /\ x = s THEN d ELSE cache[k][x]  BY <3>1
    <3>3. cache' = [k \in Nodes |-> [x \in Stores |-> cache'[k][x]]]  BY <3>1
    <3> QED  BY <3>2, <3>3
  <2> QED  BY <1>2, <2>1, <2>2
<1>5. StoresType'
  <2>1. ASSUME NEW k \in Nodes, NEW x \in Stores, cache'[k][x] # None PROVE StoreRow(cache'[k][x])
    <3>1. cache[k][x] # None => StoreRow(cache[k][x])  BY DEF StoresInv, StoresType
    <3> QED  BY <1>1, <1>4, <2>1, <3>1
  <2>2. counter' \in [Nodes -> Nat] /\ budget' = budget /\ DOMAIN budget' = {"ops", "uses", "turns"} /\ budget'.ops \in Nat
    BY <1>1 DEF StoresInv, StoresType
  <2>3. /\ storeRow' = [x \in Stores |-> storeRow'[x]] /\ \A x \in Stores : storeRow'[x] # None => StoreRow(storeRow'[x])
        /\ storeOp' = [c \in Clients |-> storeOp'[c]] /\ \A c \in Clients : storeOp'[c] # None => StoreOp(storeOp'[c])
    BY <1>1 DEF StoresInv, StoresType
  <2>4. cache' = [k \in Nodes |-> [x \in Stores |-> cache'[k][x]]]  BY <1>4
  <2>5. /\ use' = [k \in Nodes |-> use'[k]] /\ \A k \in Nodes : use'[k] # None => StoreUse(use'[k])  BY <1>3
  <2> QED  BY <2>1, <2>2, <2>3, <2>4, <2>5, Zenon DEF StoresType
<1>6. FreshIds'
  <2>1. \A c \in Clients : Inserting(c)' <=> Inserting(c)  BY <1>1 DEF Inserting
  <2>2. \A k \in Nodes, x \in Stores : cache'[k][x] # None =>
          \/ cache[k][x] # None /\ cache'[k][x].id = cache[k][x].id
          \/ use[n] # None /\ use[n].pc = "get" /\ cache'[k][x].id = use[n].desc.id
    BY <1>1, <1>4 DEF d
  <2>3. \A k \in Nodes : use'[k] # None /\ use'[k].pc = "get" => use[k] = use'[k]  BY <1>3
  <2> QED  BY <1>1, <2>1, <2>2, <2>3 DEF StoresInv, FreshIds
<1>7. OpenedSound'
  <2>1. SUFFICES ASSUME NEW k \in Nodes, NEW x \in Stores, storeRow[x] # None, <<k, x>> \notin behind
                 PROVE  /\ cache'[k][x] # None /\ cache'[k][x].id = storeRow[x].id =>
                             cache'[k][x] = storeRow[x] \/ \E c \in Clients : Telling(c, k, x)'
                        /\ use'[k] # None /\ use'[k].pc = "get" /\ use'[k].store = x /\ use'[k].desc.id = storeRow[x].id
                             => use'[k].desc = storeRow[x]
    BY <1>1, ZenonT(60) DEF OpenedSound
  <2>2. \A c \in Clients : Telling(c, k, x) => Telling(c, k, x)'  BY <1>1 DEF Telling
  <2>3. cache'[k][x] # cache[k][x] /\ cache'[k][x].id = storeRow[x].id => cache'[k][x] = storeRow[x]
    BY <1>1, <1>4, <2>1 DEF StoresInv, OpenedSound, s, d
  <2>4. use'[k] # None => use'[k] = use[k]  BY <1>3
  <2> QED  BY <2>1, <2>2, <2>3, <2>4 DEF StoresInv, OpenedSound
<1>8. Stores_!MembersExist' /\ AllStoresReliable' /\ Stores_!PickSound'
  BY <1>1 DEF StoresInv, Stores_!MembersExist, AllStoresReliable, StoreReliable, Whole, Stores_!PickSound
<1> QED  BY <1>5, <1>6, <1>7, <1>8 DEF StoresInv

LEMMA ResolveGroupStores ==
  ASSUME StoreConstants, StoresInv, NEW n \in Nodes, NEW g \in Stores, Stores_!ResolveGroup(n, g)
  PROVE  StoresInv'
<1> DEFINE there == Stores_!Present(storeRow[g].members)
           u == [pc |-> "pick", store |-> g, there |-> there, room |-> {s \in Stores_!Listed(there) : s \notin full}]
<1>1. /\ Stores_!Using(n) /\ storeRow[g] # None /\ UNCHANGED <<storeRow, cache, counter, storeOp, picked, behind, looseStores>>
      /\ use' = use \/ (there # <<>> /\ use' = [use EXCEPT ![n] = u])
  BY Zenon DEF Stores_!ResolveGroup
<1>2. there \in Seq(Stores)
  <2>1. storeRow[g].members \in Seq(Stores)  BY <1>1 DEF StoresInv, StoresType, StoreRow
  <2> QED  BY <2>1, PresentStores
<1> HIDE DEF there
<1>3. there # <<>> => StoreUse(u)
  <2>1. u.room \subseteq Stores_!Listed(there) /\ u.there = there /\ u.store = g /\ u.pc = "pick"  OBVIOUS
  <2>2. DOMAIN u = {"pc", "store", "there", "room"}  OBVIOUS
  <2> HIDE DEF u
  <2> QED  BY <1>2, <2>1, <2>2 DEF StoreUse
<1>4. u.pc = "pick"  OBVIOUS
<1> HIDE DEF u
<1>5. /\ use' = [k \in Nodes |-> use'[k]]
      /\ \A k \in Nodes : use'[k] # None => StoreUse(use'[k])
      /\ \A k \in Nodes : use'[k] # None /\ use'[k].pc = "get" => use'[k] = use[k]
  <2>1. CASE use' = use  BY <2>1 DEF StoresInv, StoresType
  <2>2. CASE there # <<>> /\ use' = [use EXCEPT ![n] = u]  BY <1>3, <1>4, <2>2, Used1
  <2> QED  BY <1>1, <2>1, <2>2
<1>6. Stores_!PickSound' /\ counter' \in [Nodes -> Nat]  BY <1>1 DEF StoresInv, Stores_!PickSound, StoresType
<1>7. DOMAIN budget' = {"ops", "uses", "turns"} /\ budget'.ops = budget.ops  BY <1>1, Begun
<1>8. UNCHANGED <<storeRow, storeOp, behind, looseStores, cache>>  BY <1>1
<1> QED  BY <1>5, <1>6, <1>7, <1>8, QuietStores

LEMMA PickMemberStores ==
  ASSUME StoreConstants, StoresInv, NEW n \in Nodes, Stores_!PickMember(n)
  PROVE  StoresInv'
<1> DEFINE from == IF Stores_!Rotates THEN counter[n] ELSE 0
           x == Stores_!FirstWithRoom(use[n].there, use[n].room, from)
<1>1. /\ use[n] # None /\ use[n].pc = "pick"
      /\ picked' = [there |-> use[n].there, room |-> use[n].room, from |-> from, chosen |-> x]
      /\ counter' = IF Stores_!Rotates THEN [counter EXCEPT ![n] = @ + 1] ELSE counter
      /\ use' = [use EXCEPT ![n] = None]
      /\ UNCHANGED <<storeRow, cache, storeOp, behind, looseStores, budget>>
  BY Zenon DEF Stores_!PickMember, Stores_!Choose
<1>2. use[n].there \in Seq(Stores) /\ use[n].there # <<>> /\ use[n].room \in SUBSET Stores_!Listed(use[n].there)
  BY <1>1 DEF StoresInv, StoresType, StoreUse
<1>3. from \in Nat  BY DEF StoresInv, StoresType
<1>4. (x = None) = (use[n].room = {}) /\ (x # None => x \in use[n].room)
  <2> HIDE DEF from
  <2> QED  BY <1>2, <1>3, ChoiceSound
<1> HIDE DEF x, from
<1>5. Stores_!PickSound'  BY <1>1, <1>4 DEF Stores_!PickSound
<1>6. /\ use' = [k \in Nodes |-> use'[k]] /\ use'[n] = None /\ \A k \in Nodes \ {n} : use'[k] = use[k]
      /\ \A k \in Nodes : use'[k] # None => StoreUse(use'[k])
  BY <1>1, Used1
<1>7. counter' \in [Nodes -> Nat]  BY <1>1 DEF StoresInv, StoresType
<1>8. DOMAIN budget' = {"ops", "uses", "turns"} /\ budget'.ops = budget.ops  BY <1>1 DEF StoresInv, StoresType
<1>9. \A k \in Nodes : use'[k] # None /\ use'[k].pc = "get" => use'[k] = use[k]  BY <1>6
<1>10. UNCHANGED <<storeRow, storeOp, behind, looseStores, cache>>  BY <1>1
<1> QED  BY <1>5, <1>6, <1>7, <1>8, <1>9, <1>10, QuietStores

----------------------------------------------------------------------------
LEMMA StoresStart == StoreConstants /\ Stores_!Init => StoresInv
<1> SUFFICES ASSUME StoreConstants, Stores_!Init PROVE StoresInv  OBVIOUS
<1>1. \A s \in Stores : storeRow[s] = IF s \in FirstStores THEN [type |-> "s3", id |-> 0, config |-> 1, secret |-> "sk", members |-> <<>>] ELSE None
  BY DEF Stores_!Init
<1>2. \A s \in Stores : storeRow[s] # None => StoreRow(storeRow[s]) /\ storeRow[s].type = "s3" /\ storeRow[s].id = 0
  <2> DEFINE r == [type |-> "s3", id |-> 0, config |-> 1, secret |-> "sk", members |-> <<>>]
  <2>1. DOMAIN r = {"type", "id", "config", "secret", "members"} /\ r.type = "s3" /\ r.id = 0 /\ r.members = <<>>  OBVIOUS
  <2>2. \A s \in Stores : storeRow[s] # None => storeRow[s] = r  BY <1>1
  <2> HIDE DEF r
  <2>3. StoreRow(r)  BY <2>1, NoMembers DEF StoreRow
  <2> QED  BY <2>1, <2>2, <2>3
<1>3. /\ storeRow = [s \in Stores |-> storeRow[s]] /\ cache = [n \in Nodes |-> [s \in Stores |-> cache[n][s]]]
      /\ storeOp = [c \in Clients |-> storeOp[c]] /\ use = [n \in Nodes |-> use[n]]
  BY DEF Stores_!Init
<1>4. /\ \A n \in Nodes, s \in Stores : cache[n][s] = None
      /\ \A c \in Clients : storeOp[c] = None /\ \A n \in Nodes : use[n] = None
      /\ counter \in [Nodes -> Nat] /\ picked = None
  BY DEF Stores_!Init
<1>5. DOMAIN budget = {"ops", "uses", "turns"} /\ budget.ops = 0  BY DEF Stores_!Init
<1>6. StoresType
  <2>1. \A c \in Clients : storeOp[c] # None => StoreOp(storeOp[c])  BY DEF Stores_!Init
  <2>2. \A n \in Nodes : use[n] # None => StoreUse(use[n])  BY DEF Stores_!Init
  <2> QED  BY <1>2, <1>3, <1>4, <1>5, <2>1, <2>2 DEF StoresType
<1>7. FreshIds
  <2>1. \A c \in Clients : storeOp[c] = None  BY DEF Stores_!Init
  <2>2. \A n \in Nodes : use[n] = None  BY DEF Stores_!Init
  <2>3. \A c \in Clients : ~Inserting(c)  BY <2>1 DEF Inserting
  <2> QED  BY <1>2, <1>4, <1>5, <2>2, <2>3 DEF FreshIds
<1>8. OpenedSound /\ AllStoresReliable /\ Stores_!PickSound  BY <1>4 DEF OpenedSound, AllStoresReliable,
    Stores_!PickSound, Stores_!Init
<1>9. Stores_!MembersExist  BY <1>2 DEF Stores_!MembersExist
<1> QED  BY <1>6, <1>7, <1>8, <1>9 DEF StoresInv

LEMMA StoresStep == StoreConstants /\ StoresInv /\ [Stores_!Next]_Stores_!vars => StoresInv'
<1> SUFFICES ASSUME StoreConstants, StoresInv, [Stores_!Next]_Stores_!vars PROVE StoresInv'  OBVIOUS
<1>1. ASSUME NEW c \in Clients, Stores_!CreateCheck(c) PROVE StoresInv'  BY <1>1, CreateCheckStores
<1>2. ASSUME NEW c \in Clients, Stores_!CreateInsert(c) PROVE StoresInv'  BY <1>2, CreateInsertStores
<1>3. ASSUME NEW c \in Clients, Stores_!UpdateRead(c) PROVE StoresInv'  BY <1>3, UpdateReadStores
<1>4. ASSUME NEW c \in Clients, Stores_!UpdateCheck(c) PROVE StoresInv'  BY <1>4, UpdateCheckStores
<1>5. ASSUME NEW c \in Clients, Stores_!UpdateWrite(c) PROVE StoresInv'  BY <1>5, UpdateWriteStores
<1>6. ASSUME NEW c \in Clients, Stores_!UpdateInvalidate(c) PROVE StoresInv'  BY <1>6, UpdateInvalidateStores
<1>7. ASSUME NEW c \in Clients, Stores_!DeleteCheck(c) PROVE StoresInv'  BY <1>7, DeleteCheckStores
<1>8. ASSUME NEW c \in Clients, Stores_!DeleteRow(c) PROVE StoresInv'  BY <1>8, DeleteRowStores
<1>9. ASSUME NEW n \in Nodes, Stores_!Get(n) PROVE StoresInv'  BY <1>9, GetStores
<1>10. ASSUME NEW n \in Nodes, Stores_!PickMember(n) PROVE StoresInv'  BY <1>10, PickMemberStores
<1>11. ASSUME NEW n \in Nodes, NEW s \in Stores, Stores_!OpenRead(n, s) PROVE StoresInv'  BY <1>11, OpenReadStores
<1>12. ASSUME NEW n \in Nodes, NEW s \in Stores, Stores_!ResolveGroup(n, s) PROVE StoresInv'  BY <1>12, ResolveGroupStores
<1>13. ASSUME NEW s \in Stores, Stores_!Link(s) \/ Stores_!Fill(s) PROVE StoresInv'  BY <1>13, LinkFillStores
<1>14. CASE UNCHANGED Stores_!vars
  <2>1. UNCHANGED <<storeRow, storeOp, behind, looseStores, cache, use, picked, counter, budget>>  BY <1>14 DEF Stores_!vars
  <2>2. /\ DOMAIN budget' = {"ops", "uses", "turns"} /\ budget'.ops = budget.ops
        /\ counter' \in [Nodes -> Nat] /\ use' = [n \in Nodes |-> use'[n]]
        /\ \A n \in Nodes : use'[n] # None => StoreUse(use'[n])
    BY <2>1 DEF StoresInv, StoresType
  <2>3. Stores_!PickSound'  BY <2>1 DEF StoresInv, Stores_!PickSound
  <2> QED  BY <2>1, <2>2, <2>3, QuietStores
<1> QED
  BY <1>1, <1>2, <1>3, <1>4, <1>5, <1>6, <1>7, <1>8, <1>9, <1>10, <1>11, <1>12, <1>13, <1>14, Zenon DEF Stores_!Next

LEMMA OpenedCurrent == StoresInv => Stores_!RegistryCurrent
<1> SUFFICES ASSUME StoresInv, NEW n \in Nodes, NEW s \in Stores,
                    storeRow[s] # None, cache[n][s] # None, cache[n][s].id = storeRow[s].id, <<n, s>> \notin behind,
                    \A c \in Clients : storeOp[c] # None => (storeOp[c].pc = "invalidate" => storeOp[c].store # s)
             PROVE  cache[n][s] = storeRow[s]
  BY Zenon DEF Stores_!RegistryCurrent
<1>1. \A c \in Clients : ~Telling(c, n, s)  BY DEF Telling
<1> QED  BY <1>1 DEF StoresInv, OpenedSound

(* blobstores.go and registry.go: what a node has open of a store is what its row says
   once the update that changed the row returned, the members of a group exist, and a
   member with room is found whenever there is one. *)
THEOREM StoresSound == ASSUME StoreConstants PROVE Stores_!Spec => [](Stores_!RegistryCurrent /\ Stores_!MembersExist /\ Stores_!PickSound)
<1>1. Stores_!Init => StoresInv  BY StoresStart
<1>2. StoresInv /\ [Stores_!Next]_Stores_!vars => StoresInv'  BY StoresStep
<1>3. StoresInv => Stores_!RegistryCurrent /\ Stores_!MembersExist /\ Stores_!PickSound  BY OpenedCurrent DEF StoresInv
<1> QED  BY <1>1, <1>2, <1>3, PTL DEF Stores_!Spec

(* Only the write of an update goes on to tell the registry. *)
LEMMA OnlyWrites ==
  ASSUME StoreConstants, StoresInv, Stores_!Next, NEW c \in Clients, storeOp[c] # None, storeOp[c].pc = "write", storeOp'[c].pc = "invalidate"
  PROVE  Stores_!UpdateWrite(c)
<1>0. StoreOp(storeOp[c]) /\ StoreOps  BY DEF StoresInv, StoresType, StoreOps
<1>1. ASSUME NEW d \in Clients \ {c}, NEW rec, Stores_!Do(d, rec) PROVE FALSE
  <2>1. storeOp'[c] = storeOp[c]  BY <1>0, <1>1 DEF Stores_!Do, StoreOps
  <2> QED  BY <2>1
<1>2. ASSUME NEW d \in Clients \ {c}, NEW rec, storeOp' = Stores_!Moved(d, rec) PROVE FALSE
  <2>1. storeOp'[c] = [storeOp[c] EXCEPT !.moved = TRUE]  BY <1>2 DEF Stores_!Moved
  <2>2. storeOp'[c].pc = storeOp[c].pc  BY <1>0, <2>1 DEF StoreOp
  <2> QED  BY <2>2
<1>3. storeOp' # storeOp
  OBVIOUS
<1>4. ASSUME NEW d \in Clients, Stores_!CreateCheck(d) \/ Stores_!UpdateRead(d) \/ Stores_!UpdateCheck(d) \/ Stores_!DeleteCheck(d) \/ Stores_!UpdateInvalidate(d) PROVE FALSE
  <2>1. d = c => FALSE  BY <1>4 DEF Stores_!CreateCheck, Stores_!UpdateRead, Stores_!UpdateCheck,
      Stores_!DeleteCheck, Stores_!UpdateInvalidate, Stores_!Idle
  <2>2. d # c => FALSE  BY <1>1, <1>4, ZenonT(60) DEF Stores_!CreateCheck, Stores_!UpdateRead, Stores_!UpdateCheck,
      Stores_!DeleteCheck, Stores_!UpdateInvalidate, Stores_!Fails
  <2> QED  BY <2>1, <2>2
<1>5. ASSUME NEW d \in Clients, Stores_!CreateInsert(d) \/ Stores_!DeleteRow(d) PROVE FALSE
  <2>1. d = c => FALSE  BY <1>5 DEF Stores_!CreateInsert, Stores_!DeleteRow
  <2>2. d # c => FALSE  BY <1>1, <1>2, <1>5, Zenon DEF Stores_!CreateInsert, Stores_!DeleteRow, Stores_!Fails
  <2> QED  BY <2>1, <2>2
<1>6. ASSUME NEW d \in Clients, Stores_!UpdateWrite(d) PROVE d = c  BY <1>2, <1>6, Zenon DEF Stores_!UpdateWrite
<1>7. ASSUME NEW n \in Nodes, Stores_!Get(n) \/ Stores_!PickMember(n) \/ \E s \in Stores : Stores_!OpenRead(n, s) \/ Stores_!ResolveGroup(n, s) PROVE FALSE
  BY <1>3, <1>7, Zenon DEF Stores_!Get, Stores_!PickMember, Stores_!OpenRead, Stores_!ResolveGroup
<1>8. ASSUME NEW s \in Stores, Stores_!Link(s) \/ Stores_!Fill(s) PROVE FALSE  BY <1>3, <1>8, Zenon DEF
    Stores_!Link, Stores_!Fill
<1> QED  BY <1>4, <1>5, <1>6, <1>7, <1>8, Zenon DEF Stores_!Next

LEMMA WriteKeeps ==
  ASSUME StoreConstants, StoresInv, NEW c \in Clients, Stores_!UpdateWrite(c), ~storeOp[c].moved,
         storeOp[c].sent.config # None, storeOp[c].sent.secret = Stores_!Kept, storeRow[storeOp[c].store] # None
  PROVE  storeRow'[storeOp[c].store].secret = storeRow[storeOp[c].store].secret
<1>1. StoreOp(storeOp[c]) /\ storeOp[c] # None /\ storeOp[c].pc = "write"  BY DEF Stores_!UpdateWrite, StoresInv, StoresType
<1>2. storeRow' = [storeRow EXCEPT ![storeOp[c].store] = [storeOp[c].row EXCEPT !.id = storeRow[storeOp[c].store].id]]
  BY Zenon DEF Stores_!UpdateWrite
<1>3. storeOp[c].row.secret = storeRow[storeOp[c].store].secret  BY <1>1 DEF StoresInv, AllStoresReliable, StoreReliable
<1>4. StoreRow(storeOp[c].row) /\ storeOp[c].store \in Stores  BY <1>1 DEF StoreOp
<1>5. storeRow'[storeOp[c].store] = [storeOp[c].row EXCEPT !.id = storeRow[storeOp[c].store].id]  BY <1>2, <1>4 DEF
    StoresInv, StoresType
<1> QED  BY <1>3, <1>4, <1>5 DEF StoreRow

(* blobstores.go, mergeBlobStoreConfig: an update that sends a configuration without
   the secret keeps the secret. *)
THEOREM SecretsKept == ASSUME StoreConstants PROVE Stores_!Spec => Stores_!SecretKept
<1>1. Stores_!Init => StoresInv  BY StoresStart
<1>2. StoresInv /\ [Stores_!Next]_Stores_!vars => StoresInv'  BY StoresStep
<1>3. StoresInv /\ [Stores_!Next]_Stores_!vars => [Stores_!KeepsSecret]_Stores_!vars
  <2> SUFFICES ASSUME StoresInv, Stores_!Next PROVE Stores_!KeepsSecret  BY DEF Stores_!vars
  <2> SUFFICES ASSUME NEW c \in Clients, storeOp[c] # None, storeOp[c].pc = "write", storeOp'[c].pc = "invalidate", ~storeOp[c].moved,
                      storeOp[c].sent.config # None, storeOp[c].sent.secret = Stores_!Kept, storeRow[storeOp[c].store] # None
               PROVE  storeRow'[storeOp[c].store].secret = storeRow[storeOp[c].store].secret
    BY Zenon DEF Stores_!KeepsSecret
  <2> QED  BY OnlyWrites, WriteKeeps, Zenon
<1> QED  BY <1>1, <1>2, <1>3, PTL DEF Stores_!Spec, Stores_!SecretKept
-----------------------------------------------------------------------------
(* The login guard.  The shared entry is behind by the one failure that the one try
   under way has still to write; the delay doubles with every failure, which is the
   number of subsets of a growing set. *)
CONSTANTS Threshold, MaxDelay, TTL, MaxTime, Outages
VARIABLES entry, shared, redis, try, clock, excused, checked

Guard == INSTANCE LoginGuard

(* The threshold and the cap are numbers. *)
GuardConstants == Threshold \in Nat /\ MaxDelay \in Nat

(* An entry, whatever its numbers. *)
GuardEntry == [failures : Nat, until : Nat, seen : Nat]
GuardType ==
  /\ entry \in [Nodes -> GuardEntry] /\ shared \in GuardEntry /\ redis \in BOOLEAN
  /\ try \in [Nodes -> [pc : {"idle", "check", "failed", "save", "passed"}, failures : Nat]]
  /\ clock \in Nat /\ checked \in Nat
  /\ \A n \in Nodes : try[n].pc = "idle" => try[n] = Guard!Idle

(* No entry makes the account wait longer than the cap, nor for a failure that is free. *)
Bounded(e) == e.until <= clock + MaxDelay /\ (e.failures <= Threshold => e.until <= clock)
AllBounded == Bounded(shared) /\ \A n \in Nodes : Bounded(entry[n])

(* The account has waited for the failed checks there were. *)
Charged == shared.failures >= checked /\ shared.until >= shared.seen + Guard!penalty(checked)
(* What the one try under way knows of the shared entry. *)
Knows(n) ==
  /\ try[n].pc = "check" => shared.until <= clock
  /\ try[n].pc = "failed" => shared.failures + 1 >= checked
  /\ try[n].pc = "save" => try[n].failures >= checked
  /\ try[n].pc = "passed" => checked = 0
FailuresCounted == ~excused =>
  /\ redis
  /\ \A m, n \in Nodes : try[m] # Guard!Idle /\ try[n] # Guard!Idle => m = n
  /\ \A n \in Nodes : Knows(n)
  /\ (\A n \in Nodes : try[n].pc \in {"idle", "check"}) /\ checked > 0 => Charged

GuardInv == GuardType /\ AllBounded /\ FailuresCounted

----------------------------------------------------------------------------
(* The delay doubles with every failure, as the subsets of a growing set do. *)
LEMMA Doubles ==
  ASSUME NEW a \in Nat, NEW b \in Nat, a <= b
  PROVE  2 ^ a \in Nat /\ 2 ^ b \in Nat /\ 2 ^ a <= 2 ^ b
<1>1. /\ IsFiniteSet(1..a) /\ Cardinality(1..a) = a /\ IsFiniteSet(1..b) /\ Cardinality(1..b) = b
  <2>1. 1 \in Int /\ a \in Int /\ b \in Int  OBVIOUS
  <2>2. /\ IsFiniteSet(1..a) /\ Cardinality(1..a) = (IF 1 > a THEN 0 ELSE a - 1 + 1)
        /\ IsFiniteSet(1..b) /\ Cardinality(1..b) = (IF 1 > b THEN 0 ELSE b - 1 + 1)
    BY <2>1, FS_Interval, Zenon
  <2> QED  BY <2>2
<1>2. /\ IsFiniteSet(SUBSET (1..a)) /\ Cardinality(SUBSET (1..a)) = 2 ^ a
      /\ IsFiniteSet(SUBSET (1..b)) /\ Cardinality(SUBSET (1..b)) = 2 ^ b
  BY <1>1, FS_SUBSET
<1>3. SUBSET (1..a) \subseteq SUBSET (1..b)
  <2>1. 1..a \subseteq 1..b  OBVIOUS
  <2> QED  BY <2>1, Zenon
<1>4. Cardinality(SUBSET (1..a)) <= Cardinality(SUBSET (1..b))  BY <1>2, <1>3, FS_Subset, Zenon
<1>5. Cardinality(SUBSET (1..a)) \in Nat /\ Cardinality(SUBSET (1..b)) \in Nat  BY <1>2, FS_CardinalityType, Zenon
<1> QED  BY <1>2, <1>4, <1>5, Zenon

LEMMA Penalty ==
  ASSUME GuardConstants, NEW f \in Nat
  PROVE  /\ Guard!penalty(f) \in 0..MaxDelay /\ (f <= Threshold => Guard!penalty(f) = 0)
         /\ \A g \in Nat : f <= g => Guard!penalty(f) <= Guard!penalty(g)
<1>1. \A g \in Nat : g > Threshold => g - Threshold - 1 \in Nat /\ 2 ^ (g - Threshold - 1) \in Nat
  <2>1. \A g \in Nat : g > Threshold => g - Threshold - 1 \in Nat  BY DEF GuardConstants
  <2>2. \A a \in Nat : a <= a  OBVIOUS
  <2> QED  BY <2>1, <2>2, Doubles, Zenon
<1>2. \A g \in Nat : Guard!penalty(g) \in 0..MaxDelay /\ (g <= Threshold => Guard!penalty(g) = 0)
  BY <1>1 DEF Guard!penalty, GuardConstants
<1>3. ASSUME NEW g \in Nat, f <= g PROVE Guard!penalty(f) <= Guard!penalty(g)
  <2>1. CASE f <= Threshold  BY <1>2, <2>1 DEF GuardConstants
  <2>2. CASE ~(f <= Threshold)
    <3> DEFINE x == f - Threshold - 1
               y == g - Threshold - 1
    <3>1. x \in Nat /\ y \in Nat /\ x <= y /\ ~(g <= Threshold)  BY <1>3, <2>2 DEF GuardConstants
    <3>2. Guard!penalty(f) = (IF 2 ^ x > MaxDelay THEN MaxDelay ELSE 2 ^ x) /\ Guard!penalty(g) = (IF 2 ^ y > MaxDelay THEN MaxDelay ELSE 2 ^ y)
      BY <2>2, <3>1, Zenon DEF Guard!penalty
    <3> HIDE DEF x, y
    <3>3. 2 ^ x \in Nat /\ 2 ^ y \in Nat /\ 2 ^ x <= 2 ^ y  BY <3>1, Doubles
    <3> QED  BY <3>2, <3>3 DEF GuardConstants
  <2> QED  BY <2>1, <2>2
<1> QED  BY <1>2, <1>3

LEMMA GuardStart == GuardConstants /\ Guard!Init => GuardInv
<1> SUFFICES ASSUME GuardConstants, Guard!Init PROVE GuardInv  OBVIOUS
<1>1. Guard!NoEntry \in GuardEntry /\ Guard!NoEntry.until = 0 /\ Guard!Idle \in [pc : {"idle", "check", "failed", "save", "passed"}, failures : Nat]
  BY DEF Guard!NoEntry, GuardEntry, Guard!Idle
<1>2. GuardType  BY <1>1 DEF GuardType, Guard!Init
<1>3. AllBounded  BY <1>1, <1>2 DEF AllBounded, Bounded, Guard!Init, GuardConstants
<1>4. FailuresCounted  BY DEF FailuresCounted, Knows, Guard!Init, Guard!Idle
<1> QED  BY <1>2, <1>3, <1>4 DEF GuardInv

(* An entry that was bounded stays so, however late it is read. *)
LEMMA Later ==
  ASSUME GuardConstants, NEW e \in GuardEntry, Bounded(e), clock \in Nat, clock' \in Nat, clock <= clock'
  PROVE  Bounded(e)'
  BY DEF Bounded, GuardEntry, GuardConstants

LEMMA TickGuard == ASSUME GuardConstants, GuardInv, Guard!Tick PROVE GuardInv'
<1>1. Guard!NoEntry \in GuardEntry /\ Guard!NoEntry.until = 0 /\ Guard!NoEntry.failures = 0  BY DEF Guard!NoEntry, GuardEntry
<1>2. /\ clock \in Nat /\ clock' = clock + 1 /\ UNCHANGED <<entry, redis, try, checked>>
      /\ shared' = shared \/ shared' = Guard!NoEntry
      /\ ~excused' => ~excused /\ shared' = shared
  <2> DEFINE over == shared # Guard!NoEntry /\ clock' > shared.seen + TTL
  <2>1. clock \in Nat  BY DEF GuardInv, GuardType
  <2>2. /\ clock' = clock + 1 /\ UNCHANGED <<entry, redis, try, checked>>
        /\ shared' = (IF over THEN Guard!NoEntry ELSE shared) /\ excused' = (excused \/ over)
    BY DEF Guard!Tick
  <2> HIDE DEF over
  <2>3. ~excused' => ~excused /\ ~over  BY <2>2
  <2> QED  BY <2>1, <2>2, <2>3, Zenon
<1>3. GuardType'
  <2>1. shared' \in GuardEntry /\ clock' \in Nat  BY <1>1, <1>2 DEF GuardInv, GuardType
  <2> QED  BY <1>2, <2>1 DEF GuardInv, GuardType
<1>4. AllBounded'
  <2>1. Bounded(shared)'
    <3>1. clock' \in Nat /\ clock <= clock' /\ shared \in GuardEntry  BY <1>2 DEF GuardInv, GuardType
    <3>2. CASE shared' = Guard!NoEntry  BY <1>1, <3>1, <3>2 DEF Bounded, GuardConstants
    <3>3. CASE shared' = shared  BY <1>2, <3>1, <3>3 DEF GuardInv, AllBounded, Bounded, GuardEntry, GuardConstants
    <3> QED  BY <1>2, <3>2, <3>3
  <2>2. \A n \in Nodes : Bounded(entry[n])'  BY <1>2, Later DEF GuardInv, GuardType, AllBounded, Bounded
  <2> QED  BY <2>1, <2>2 DEF AllBounded
<1>5. FailuresCounted'
  <2>1. SUFFICES ASSUME ~excused' PROVE FailuresCounted'  BY DEF FailuresCounted
  <2>2. shared' = shared /\ ~excused  BY <1>2, <2>1
  <2>3. \A n \in Nodes : Knows(n)'
    <3>1. shared.until \in Nat  BY DEF GuardInv, GuardType, GuardEntry
    <3> QED  BY <1>2, <2>2, <3>1 DEF GuardInv, FailuresCounted, Knows
  <2>4. Charged <=> Charged'  BY <1>2, <2>2 DEF Charged
  <2> QED  BY <1>2, <2>2, <2>3, <2>4 DEF GuardInv, FailuresCounted
<1> QED  BY <1>3, <1>4, <1>5 DEF GuardInv

LEMMA OutageGuard == ASSUME GuardConstants, GuardInv, Guard!Outage PROVE GuardInv'
<1>1. redis' = ~redis /\ excused' = TRUE /\ UNCHANGED <<entry, shared, try, clock, checked>>  BY DEF Guard!Outage
<1> QED  BY <1>1 DEF GuardInv, GuardType, AllBounded, Bounded, FailuresCounted

(* One node's try moves on. *)
LEMMA Tries ==
  ASSUME GuardInv, NEW n \in Nodes, NEW t, t \in [pc : {"idle", "check", "failed", "save", "passed"}, failures : Nat],
         t.pc = "idle" => t = Guard!Idle, try' = [try EXCEPT ![n] = t]
  PROVE  /\ try' \in [Nodes -> [pc : {"idle", "check", "failed", "save", "passed"}, failures : Nat]]
         /\ try'[n] = t /\ \A m \in Nodes \ {n} : try'[m] = try[m]
         /\ \A m \in Nodes : try'[m].pc = "idle" => try'[m] = Guard!Idle
<1>1. try' \in [Nodes -> [pc : {"idle", "check", "failed", "save", "passed"}, failures : Nat]]  BY DEF GuardInv, GuardType
<1>2. try'[n] = t /\ \A m \in Nodes \ {n} : try'[m] = try[m]  BY DEF GuardInv, GuardType
<1> QED  BY <1>1, <1>2 DEF GuardInv, GuardType

(* A try that is not idle is alone, unless excused. *)
LEMMA Alone ==
  ASSUME GuardInv, ~excused, NEW n \in Nodes, try[n].pc # "idle"
  PROVE  \A m \in Nodes \ {n} : try[m] = Guard!Idle /\ try[m].pc = "idle"
  BY DEF GuardInv, FailuresCounted, Guard!Idle

LEMMA RetryGuard == ASSUME GuardConstants, GuardInv, NEW n \in Nodes, Guard!RetryAfter(n) PROVE GuardInv'
<1>1. /\ try[n] = Guard!Idle /\ Guard!load(n).until <= clock /\ UNCHANGED <<entry, shared, redis, clock, checked>>
      /\ excused' = (excused \/ \E m \in Nodes : try[m] # Guard!Idle)
      /\ try' = [try EXCEPT ![n] = [pc |-> "check", failures |-> 0]]
  <2>1. [Guard!Idle EXCEPT !.pc = "check"] = [pc |-> "check", failures |-> 0]  BY DEF Guard!Idle
  <2>2. try' = [try EXCEPT ![n] = [try[n] EXCEPT !.pc = "check"]]  BY DEF Guard!RetryAfter
  <2> QED  BY <2>1, <2>2 DEF Guard!RetryAfter
<1>2. /\ try' \in [Nodes -> [pc : {"idle", "check", "failed", "save", "passed"}, failures : Nat]]
      /\ try'[n].pc = "check" /\ \A m \in Nodes \ {n} : try'[m] = try[m]
      /\ \A m \in Nodes : try'[m].pc = "idle" => try'[m] = Guard!Idle
  BY <1>1, Tries
<1>3. GuardType'  BY <1>1, <1>2 DEF GuardInv, GuardType
<1>4. AllBounded'  BY <1>1 DEF GuardInv, AllBounded, Bounded
<1>5. FailuresCounted'
  <2>1. SUFFICES ASSUME ~excused' PROVE FailuresCounted'  BY DEF FailuresCounted
  <2>2. ~excused /\ redis /\ \A m \in Nodes : try[m] = Guard!Idle  BY <1>1, <2>1 DEF GuardInv, FailuresCounted
  <2>3. Guard!Idle.pc = "idle"  BY DEF Guard!Idle
  <2>4. shared.until <= clock
    <3>1. Guard!NoEntry.until = 0 /\ clock \in Nat  BY DEF Guard!NoEntry, GuardInv, GuardType
    <3> QED  BY <1>1, <2>2, <3>1 DEF Guard!load
  <2>5. \A m \in Nodes : Knows(m)'  BY <1>1, <1>2, <2>2, <2>3, <2>4 DEF Knows
  <2>6. \A m \in Nodes \ {n} : try'[m] = Guard!Idle  BY <1>2, <2>2
  <2>7. checked > 0 => Charged'
    <3>1. Charged <=> Charged'  BY <1>1 DEF Charged
    <3> QED  BY <2>2, <2>3, <3>1 DEF GuardInv, FailuresCounted
  <2> QED  BY <1>1, <2>2, <2>5, <2>6, <2>7 DEF FailuresCounted
<1> QED  BY <1>3, <1>4, <1>5 DEF GuardInv

LEMMA CheckGuard == ASSUME GuardConstants, GuardInv, NEW n \in Nodes, Guard!Check(n) PROVE GuardInv'
<1>0. try[n] \in [pc : {"idle", "check", "failed", "save", "passed"}, failures : Nat] /\ clock \in Nat /\ checked \in Nat
  BY DEF GuardInv, GuardType
<1>1. /\ try[n].pc = "check" /\ clock' = clock + 1 /\ UNCHANGED <<entry, shared, redis, excused>>
      /\ \E p \in {"failed", "passed"} : /\ try' = [try EXCEPT ![n] = [try[n] EXCEPT !.pc = p]]
                                         /\ checked' = IF p = "failed" THEN checked + 1 ELSE 0
  BY DEF Guard!Check
<1>2. PICK p \in {"failed", "passed"} : /\ try' = [try EXCEPT ![n] = [try[n] EXCEPT !.pc = p]]
                                        /\ checked' = IF p = "failed" THEN checked + 1 ELSE 0
  BY <1>1
<1> DEFINE t == [try[n] EXCEPT !.pc = p]
<1>3. t \in [pc : {"idle", "check", "failed", "save", "passed"}, failures : Nat] /\ t.pc = p  BY <1>0
<1> HIDE DEF t
<1>4. /\ try' \in [Nodes -> [pc : {"idle", "check", "failed", "save", "passed"}, failures : Nat]]
      /\ try'[n].pc = p /\ \A m \in Nodes \ {n} : try'[m] = try[m]
      /\ \A m \in Nodes : try'[m].pc = "idle" => try'[m] = Guard!Idle
  <2>1. try' = [try EXCEPT ![n] = t] /\ t.pc # "idle"  BY <1>2, <1>3 DEF t
  <2> QED  BY <1>3, <2>1, Tries
<1>5. GuardType'  BY <1>0, <1>1, <1>2, <1>4 DEF GuardInv, GuardType
<1>6. AllBounded'
  <2>1. Bounded(shared)'  BY <1>0, <1>1, Later DEF GuardInv, GuardType, AllBounded, Bounded
  <2>2. \A m \in Nodes : Bounded(entry[m])'  BY <1>0, <1>1, Later DEF GuardInv, GuardType, AllBounded, Bounded
  <2> QED  BY <2>1, <2>2 DEF AllBounded
<1>7. FailuresCounted'
  <2>1. SUFFICES ASSUME ~excused' PROVE FailuresCounted'  BY DEF FailuresCounted
  <2>2. ~excused /\ redis  BY <1>1, <2>1 DEF GuardInv, FailuresCounted
  <2>3. \A m \in Nodes \ {n} : try[m] = Guard!Idle /\ try[m].pc = "idle"  BY <1>1, <2>2, Alone
  <2>4. checked > 0 => shared.failures >= checked
    BY <1>1, <2>2, <2>3 DEF GuardInv, FailuresCounted, Charged
  <2>5. shared.failures \in Nat  BY DEF GuardInv, GuardType, GuardEntry
  <2>6. Knows(n)'  BY <1>0, <1>1, <1>2, <1>4, <2>4, <2>5 DEF Knows
  <2>7. \A m \in Nodes \ {n} : Knows(m)'  BY <1>4, <2>3 DEF Knows
  <2> QED  BY <1>1, <1>4, <2>2, <2>3, <2>6, <2>7 DEF FailuresCounted
<1> QED  BY <1>5, <1>6, <1>7 DEF GuardInv

LEMMA CountGuard == ASSUME GuardConstants, GuardInv, NEW n \in Nodes, Guard!CountFailure(n) PROVE GuardInv'
<1> DEFINE t == [pc |-> "save", failures |-> Guard!load(n).failures + 1]
<1>1. try[n].pc = "failed" /\ try' = [try EXCEPT ![n] = t] /\ UNCHANGED <<entry, shared, redis, clock, excused, checked>>
  BY DEF Guard!CountFailure
<1>2. Guard!load(n) \in GuardEntry  BY DEF Guard!load, GuardInv, GuardType
<1>3. t \in [pc : {"idle", "check", "failed", "save", "passed"}, failures : Nat] /\ t.pc = "save" /\ t.failures = Guard!load(n).failures + 1
  BY <1>2 DEF GuardEntry
<1> HIDE DEF t
<1>4. /\ try' \in [Nodes -> [pc : {"idle", "check", "failed", "save", "passed"}, failures : Nat]]
      /\ try'[n] = t /\ \A m \in Nodes \ {n} : try'[m] = try[m]
      /\ \A m \in Nodes : try'[m].pc = "idle" => try'[m] = Guard!Idle
  BY <1>1, <1>3, Tries
<1>5. GuardType'  BY <1>1, <1>4 DEF GuardInv, GuardType
<1>6. AllBounded'  BY <1>1 DEF GuardInv, AllBounded, Bounded
<1>7. FailuresCounted'
  <2>1. SUFFICES ASSUME ~excused' PROVE FailuresCounted'  BY DEF FailuresCounted
  <2>2. ~excused /\ redis /\ shared.failures + 1 >= checked  BY <1>1, <2>1 DEF GuardInv, FailuresCounted, Knows
  <2>3. \A m \in Nodes \ {n} : try[m] = Guard!Idle /\ try[m].pc = "idle"  BY <1>1, <2>2, Alone
  <2>4. t.failures >= checked
    <3>1. Guard!NoEntry.failures = 0 /\ Guard!load(n).failures \in Nat /\ checked \in Nat  BY <1>2 DEF
        Guard!NoEntry, GuardEntry, GuardInv, GuardType
    <3>2. Guard!load(n) = shared \/ shared = Guard!NoEntry  BY <2>2 DEF Guard!load
    <3> QED  BY <1>3, <2>2, <3>1, <3>2 DEF GuardInv, GuardType
  <2>5. Knows(n)'  BY <1>1, <1>3, <1>4, <2>4 DEF Knows
  <2>6. \A m \in Nodes \ {n} : Knows(m)'  BY <1>4, <2>3 DEF Knows
  <2> QED  BY <1>1, <1>3, <1>4, <2>2, <2>3, <2>5, <2>6 DEF FailuresCounted
<1> QED  BY <1>5, <1>6, <1>7 DEF GuardInv

LEMMA SweepGuard == ASSUME GuardConstants, GuardInv, NEW n \in Nodes, Guard!sweep(n) PROVE GuardInv'
<1>1. entry' = [entry EXCEPT ![n] = Guard!NoEntry] /\ UNCHANGED <<shared, redis, try, clock, excused, checked>>
  BY DEF Guard!sweep
<1>2. Guard!NoEntry \in GuardEntry /\ Guard!NoEntry.until = 0 /\ clock \in Nat  BY DEF Guard!NoEntry, GuardEntry, GuardInv, GuardType
<1>3. /\ entry' \in [Nodes -> GuardEntry] /\ entry'[n] = Guard!NoEntry /\ \A m \in Nodes \ {n} : entry'[m] = entry[m]
  BY <1>1, <1>2 DEF GuardInv, GuardType
<1>4. GuardType'  BY <1>1, <1>3 DEF GuardInv, GuardType
<1>5. Bounded(Guard!NoEntry)  BY <1>2 DEF Bounded, GuardConstants
<1>6. AllBounded'  BY <1>1, <1>3, <1>5 DEF GuardInv, AllBounded, Bounded
<1>7. FailuresCounted'  BY <1>1 DEF GuardInv, FailuresCounted, Knows, Charged
<1> QED  BY <1>4, <1>6, <1>7 DEF GuardInv

LEMMA RecordGuard == ASSUME GuardConstants, GuardInv, NEW n \in Nodes, Guard!RecordFailure(n) PROVE GuardInv'
<1> DEFINE f == try[n].failures
           e == [failures |-> f, until |-> clock + Guard!penalty(f), seen |-> clock]
<1>1. /\ try[n].pc = "save" /\ entry' = [entry EXCEPT ![n] = e] /\ shared' = (IF redis THEN e ELSE shared)
      /\ try' = [try EXCEPT ![n] = Guard!Idle] /\ UNCHANGED <<redis, clock, excused, checked>>
  BY DEF Guard!RecordFailure
<1>2. f \in Nat /\ clock \in Nat /\ checked \in Nat  BY DEF GuardInv, GuardType
<1>3. Guard!penalty(f) \in 0..MaxDelay /\ (f <= Threshold => Guard!penalty(f) = 0)  BY <1>2, Penalty
<1>4. e.failures = f /\ e.until = clock + Guard!penalty(f) /\ e.seen = clock /\ e \in GuardEntry  BY <1>2, <1>3 DEF
    GuardEntry, GuardConstants
<1> HIDE DEF e, f
<1>5. Guard!Idle \in [pc : {"idle", "check", "failed", "save", "passed"}, failures : Nat] /\ Guard!Idle.pc = "idle"  BY DEF
    Guard!Idle
<1>6. /\ try' \in [Nodes -> [pc : {"idle", "check", "failed", "save", "passed"}, failures : Nat]]
      /\ try'[n] = Guard!Idle /\ \A m \in Nodes \ {n} : try'[m] = try[m]
      /\ \A m \in Nodes : try'[m].pc = "idle" => try'[m] = Guard!Idle
  BY <1>1, <1>5, Tries
<1>7. /\ entry' \in [Nodes -> GuardEntry] /\ entry'[n] = e /\ \A m \in Nodes \ {n} : entry'[m] = entry[m]
  BY <1>1, <1>4 DEF GuardInv, GuardType
<1>8. GuardType'  BY <1>1, <1>4, <1>6, <1>7 DEF GuardInv, GuardType
<1>9. Bounded(e)  BY <1>2, <1>3, <1>4 DEF Bounded, GuardConstants
<1>10. AllBounded'  BY <1>1, <1>7, <1>9 DEF GuardInv, AllBounded, Bounded
<1>11. FailuresCounted'
  <2>1. SUFFICES ASSUME ~excused' PROVE FailuresCounted'  BY DEF FailuresCounted
  <2>2. ~excused /\ redis /\ f >= checked  BY <1>1, <2>1 DEF GuardInv, FailuresCounted, Knows, f
  <2>3. \A m \in Nodes \ {n} : try[m] = Guard!Idle /\ try[m].pc = "idle"  BY <1>1, <2>2, Alone
  <2>4. \A m \in Nodes : try'[m] = Guard!Idle /\ Knows(m)'  BY <1>5, <1>6, <2>3 DEF Knows
  <2>5. Charged'
    <3>1. Guard!penalty(checked) <= Guard!penalty(f)  BY <1>2, <2>2, Penalty
    <3>2. Guard!penalty(checked) \in Nat /\ Guard!penalty(f) \in Nat  BY <1>2, Penalty DEF GuardConstants
    <3>3. shared' = e /\ checked' = checked  BY <1>1, <2>2
    <3> HIDE DEF Guard!penalty
    <3>4. e.failures >= checked /\ e.until >= e.seen + Guard!penalty(checked)  BY <1>2, <1>4, <2>2, <3>1, <3>2
    <3>5. Guard!penalty(checked)' = Guard!penalty(checked)  BY <3>3 DEF Guard!penalty
    <3> QED  BY <3>3, <3>4, <3>5 DEF Charged
  <2> QED  BY <1>1, <2>2, <2>4, <2>5 DEF FailuresCounted
<1> QED  BY <1>8, <1>10, <1>11 DEF GuardInv

LEMMA SuccessGuard == ASSUME GuardConstants, GuardInv, NEW n \in Nodes, Guard!RecordSuccess(n) PROVE GuardInv'
<1>1. /\ try[n].pc = "passed" /\ entry' = [entry EXCEPT ![n] = Guard!NoEntry] /\ shared' = (IF redis THEN Guard!NoEntry ELSE shared)
      /\ try' = [try EXCEPT ![n] = Guard!Idle] /\ UNCHANGED <<redis, clock, excused, checked>>
  BY DEF Guard!RecordSuccess
<1>2. Guard!Idle \in [pc : {"idle", "check", "failed", "save", "passed"}, failures : Nat] /\ Guard!Idle.pc = "idle"  BY DEF
    Guard!Idle
<1>3. /\ try' \in [Nodes -> [pc : {"idle", "check", "failed", "save", "passed"}, failures : Nat]]
      /\ try'[n] = Guard!Idle /\ \A m \in Nodes \ {n} : try'[m] = try[m]
      /\ \A m \in Nodes : try'[m].pc = "idle" => try'[m] = Guard!Idle
  BY <1>1, <1>2, Tries
<1>4. Guard!NoEntry \in GuardEntry  BY DEF Guard!NoEntry, GuardEntry
<1>5. /\ entry' \in [Nodes -> GuardEntry] /\ entry'[n] = Guard!NoEntry /\ \A m \in Nodes \ {n} : entry'[m] = entry[m]
  BY <1>1, <1>4 DEF GuardInv, GuardType
<1>6. GuardType'  BY <1>1, <1>3, <1>4, <1>5 DEF GuardInv, GuardType
<1>7. Bounded(Guard!NoEntry)
  <2>1. clock \in Nat  BY DEF GuardInv, GuardType
  <2> QED  BY <2>1 DEF Bounded, Guard!NoEntry, GuardConstants
<1>8. AllBounded'  BY <1>1, <1>5, <1>7 DEF GuardInv, AllBounded, Bounded
<1>9. FailuresCounted'
  <2>1. SUFFICES ASSUME ~excused' PROVE FailuresCounted'  BY DEF FailuresCounted
  <2>2. ~excused /\ redis /\ checked = 0  BY <1>1, <2>1 DEF GuardInv, FailuresCounted, Knows
  <2>3. \A m \in Nodes \ {n} : try[m] = Guard!Idle /\ try[m].pc = "idle"  BY <1>1, <2>2, Alone
  <2>4. \A m \in Nodes : try'[m] = Guard!Idle /\ Knows(m)'  BY <1>2, <1>3, <2>3 DEF Knows
  <2> QED  BY <1>1, <2>2, <2>4 DEF FailuresCounted
<1> QED  BY <1>6, <1>8, <1>9 DEF GuardInv

LEMMA GuardStep == GuardConstants /\ GuardInv /\ [Guard!Next]_Guard!vars => GuardInv'
<1> SUFFICES ASSUME GuardConstants, GuardInv, [Guard!Next]_Guard!vars PROVE GuardInv'  OBVIOUS
<1>1. ASSUME NEW n \in Nodes, Guard!RetryAfter(n) PROVE GuardInv'  BY <1>1, RetryGuard
<1>2. ASSUME NEW n \in Nodes, Guard!Check(n) PROVE GuardInv'  BY <1>2, CheckGuard
<1>3. ASSUME NEW n \in Nodes, Guard!CountFailure(n) PROVE GuardInv'  BY <1>3, CountGuard
<1>4. ASSUME NEW n \in Nodes, Guard!RecordFailure(n) PROVE GuardInv'  BY <1>4, RecordGuard
<1>5. ASSUME NEW n \in Nodes, Guard!RecordSuccess(n) PROVE GuardInv'  BY <1>5, SuccessGuard
<1>6. ASSUME NEW n \in Nodes, Guard!sweep(n) PROVE GuardInv'  BY <1>6, SweepGuard
<1>7. CASE UNCHANGED Guard!vars
  BY <1>7 DEF Guard!vars, GuardInv, GuardType, AllBounded, Bounded, FailuresCounted, Knows, Charged
<1> QED  BY <1>1, <1>2, <1>3, <1>4, <1>5, <1>6, <1>7, TickGuard, OutageGuard DEF Guard!Next

LEMMA GuardPromises == GuardConstants /\ GuardInv => Guard!BoundedWait /\ Guard!OneBudget
<1> SUFFICES ASSUME GuardConstants, GuardInv PROVE Guard!BoundedWait /\ Guard!OneBudget  OBVIOUS
<1>1. Guard!BoundedWait  BY DEF Guard!BoundedWait, Guard!load, GuardInv, AllBounded, Bounded
<1>2. Guard!OneBudget  BY DEF Guard!OneBudget, GuardInv, FailuresCounted, Charged, Knows
<1> QED  BY <1>1, <1>2

(* loginguard.go: the failures of an account are charged to it whatever the node, as
   long as Redis answers and no two checks overlap, and in no case does anyone wait
   longer than the cap or for a failure that is free. *)
THEOREM GuardSound == ASSUME GuardConstants PROVE Guard!Spec => [](Guard!BoundedWait /\ Guard!OneBudget)
<1>1. Guard!Init => GuardInv  BY GuardStart
<1>2. GuardInv /\ [Guard!Next]_Guard!vars => GuardInv'  BY GuardStep
<1>3. GuardInv => Guard!BoundedWait /\ Guard!OneBudget  BY GuardPromises
<1> QED  BY <1>1, <1>2, <1>3, PTL DEF Guard!Spec
-----------------------------------------------------------------------------
(* The promises as one reads them beside each other. *)
ReferencesHold == Repos_!ReferencesHold /\ Stores_!MembersExist
RegistrySound == Stores_!RegistryCurrent /\ Stores_!PickSound
OmittedKept == Repos_!OmittedKept /\ Stores_!SecretKept
GuardCounts == Guard!OneBudget /\ Guard!BoundedWait

(* What a repository or a group of stores refers to is there: repository_service.go
   and blobstores.go check it before they write. *)
THEOREM ReferencesSafe == ASSUME AdminConstants, StoreConstants PROVE Repos_!Spec /\ Stores_!Spec => []ReferencesHold
<1>1. Repos_!Spec => []Repos_!ReferencesHold  BY RowsFit
<1>2. Stores_!Spec => [](Stores_!RegistryCurrent /\ Stores_!MembersExist /\ Stores_!PickSound)  BY StoresSound
<1> QED  BY <1>1, <1>2, PTL DEF ReferencesHold

(* A node writes to the store its row describes, and to a member with room:
   Registry.Invalidate after an update, PickMember from the counter on. *)
THEOREM RegistrySafe == ASSUME StoreConstants PROVE Stores_!Spec => []RegistrySound
<1>1. Stores_!Spec => [](Stores_!RegistryCurrent /\ Stores_!MembersExist /\ Stores_!PickSound)  BY StoresSound
<1> QED  BY <1>1, PTL DEF RegistrySound

(* An update changes what its caller named and nothing else, in a repository
   (mergeProxyConfig, Patch) and in a blob store (mergeBlobStoreConfig). *)
THEOREM OmittedSafe == ASSUME AdminConstants, StoreConstants PROVE Repos_!Spec /\ Stores_!Spec => OmittedKept
<1>1. Repos_!Spec => Repos_!OmittedKept  BY FieldsKept
<1>2. Stores_!Spec => Stores_!SecretKept  BY SecretsKept
<1> QED  BY <1>1, <1>2, PTL DEF OmittedKept

(* The login guard charges the account, and never locks it out (loginguard.go). *)
THEOREM GuardSafe == ASSUME GuardConstants PROVE Guard!Spec => []GuardCounts
<1>1. Guard!Spec => [](Guard!BoundedWait /\ Guard!OneBudget)  BY GuardSound
<1> QED  BY <1>1, PTL DEF GuardCounts
=============================================================================
