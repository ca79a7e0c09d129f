------------------------------ MODULE AuditLog ------------------------------
(* The audit log: the middleware that writes an event after a mutating request
   (api/audit_middleware.go), the monthly partitions the events are inserted into,
   and the rotator that makes partitions ahead of time and drops old ones
   (audit/rotator.go, audit/partition_store.go).

   Data: time is a day; a month is its number and has its own length.  An event is
   the day of its insertion. *)
EXTENDS Integers, Sequences, FiniteSets

CONSTANTS Lengths,          \* the lengths of the months
          FirstDays,        \* days on which the server may be installed
          LookaheadMonths, RetentionDays,
          RotationInterval, \* in days, positive
          MaxEvents,        \* bound on events in flight
          MaxFaults         \* bound on failed statements and restarts

VARIABLES now, up,
          parts,     \* partitions that are attached
          tick,      \* the rotator: what it does, and what is left to do
          due,       \* the day of the next tick
          pending,   \* events whose goroutine has not written them
          rows,      \* days of the events in the table
          ensured,   \* history: the last day on which every partition was asked for
          faults

vars == <<now, up, parts, tick, due, pending, rows, ensured, faults>>

Months == 1..Len(Lengths)
Before[m \in 1..Len(Lengths) + 1] == IF m = 1 THEN 0 ELSE Before[m - 1] + Lengths[m - 1]
LastDay == Before[Len(Lengths) + 1]
MonthOf(d) == CHOOSE m \in Months : Before[m] < d /\ d <= Before[m + 1]
(* AddDate(0, i, 0) keeps the day of the month, and a day the month lacks runs
   over into the next one. *)
AddMonths(d, i) == Before[MonthOf(d) + i] + (d - Before[MonthOf(d)])

TypeOK ==
  /\ now \in 1..LastDay /\ up \in {"down", "starting", "up"} /\ parts \subseteq Months
  /\ tick.pc \in {"idle", "ensure", "list", "drop"} /\ tick.old \subseteq Months
  /\ pending \in 0..MaxEvents /\ rows \subseteq 1..LastDay /\ ensured \in 0..LastDay /\ faults \in 0..MaxFaults

(* The months a tick asks for. *)
lookahead == IF LookaheadMonths < 0 THEN 0 ELSE LookaheadMonths
(* Fault: the current month is taken for granted. *)
Fault_FromNext == 1..lookahead
Wanted == 0..lookahead
Idle == [pc |-> "idle", i |-> 0, old |-> {}]
Ticking == [pc |-> "ensure", i |-> CHOOSE i \in Wanted : \A j \in Wanted : i <= j, old |-> {}]

Init ==
  /\ now \in FirstDays /\ up = "starting" /\ parts = {} /\ tick = Ticking /\ due = now + RotationInterval
  /\ pending = 0 /\ rows = {} /\ ensured = 0 /\ faults = 0

Fault == faults < MaxFaults /\ faults' = faults + 1

(* --- the rotator ------------------------------------------------------- *)
ensureFuturePartitions ==
  /\ tick.pc = "ensure" /\ parts' = parts \cup {MonthOf(AddMonths(now, tick.i))}
  /\ IF tick.i + 1 \in Wanted THEN tick' = [tick EXCEPT !.i = @ + 1] /\ UNCHANGED ensured
     ELSE tick' = [tick EXCEPT !.pc = "list"] /\ ensured' = now
  /\ UNCHANGED <<now, up, due, pending, rows, faults>>
EnsureFails == /\ tick.pc = "ensure" /\ Fault /\ tick' = [tick EXCEPT !.pc = "list"]
               /\ UNCHANGED <<now, up, parts, due, pending, rows, ensured>>
(* Fault: the end of a partition is taken for one of its days. *)
Fault_LastDay(m) == Before[m + 1] <= now - RetentionDays
Expired(m) == Before[m + 1] + 1 <= now - RetentionDays
(* dropOldPartitions goes on when one cannot be dropped; checkSoftCap only warns. *)
ListOld == /\ tick.pc = "list" /\ tick' = [tick EXCEPT !.pc = "drop", !.old = {m \in parts : Expired(m)}]
           /\ UNCHANGED <<now, up, parts, due, pending, rows, ensured, faults>>
ListFails == /\ tick.pc = "list" /\ Fault /\ tick' = [tick EXCEPT !.pc = "drop"]
             /\ UNCHANGED <<now, up, parts, due, pending, rows, ensured>>
DropPartition == \E m \in tick.old :
  /\ tick.pc = "drop" /\ tick' = [tick EXCEPT !.old = @ \ {m}]
  /\ \/ /\ parts' = parts \ {m} /\ rows' = {d \in rows : MonthOf(d) # m} /\ UNCHANGED faults
     \/ Fault /\ UNCHANGED <<parts, rows>>
  /\ UNCHANGED <<now, up, due, pending, ensured>>
TickEnds == /\ tick.pc = "drop" /\ tick.old = {} /\ tick' = Idle
            /\ up' = IF up = "starting" THEN "up" ELSE up
            /\ UNCHANGED <<now, parts, due, pending, rows, ensured, faults>>
Tick == /\ up = "up" /\ tick.pc = "idle" /\ now = due /\ due' = now + RotationInterval /\ tick' = Ticking
        /\ UNCHANGED <<now, up, parts, pending, rows, ensured, faults>>
(* A day passes.  The ticker is on time, within the day. *)
Advance == /\ MonthOf(now + 1) + lookahead < Len(Lengths) /\ tick.pc = "idle" /\ (up = "up" => now < due)
           /\ now' = now + 1 /\ UNCHANGED <<up, parts, tick, due, pending, rows, ensured, faults>>

(* --- requests ---------------------------------------------------------- *)
(* AuditMiddleware leaves the insert to a goroutine and forgets its error. *)
Request == /\ up = "up" /\ pending < MaxEvents /\ pending' = pending + 1
           /\ UNCHANGED <<now, up, parts, tick, due, rows, ensured, faults>>
Write == /\ pending > 0 /\ pending' = pending - 1
         /\ rows' = IF MonthOf(now) \in parts THEN rows \cup {now} ELSE rows
         /\ UNCHANGED <<now, up, parts, tick, due, ensured, faults>>
WriteFails == /\ pending > 0 /\ Fault /\ pending' = pending - 1
              /\ UNCHANGED <<now, up, parts, tick, due, rows, ensured>>
Crash == /\ up = "up" /\ Fault /\ up' = "down" /\ pending' = 0 /\ tick' = Idle
         /\ UNCHANGED <<now, parts, due, rows, ensured>>
(* RunOnce before traffic. *)
Start == /\ up = "down" /\ up' = "starting" /\ tick' = Ticking /\ due' = now + RotationInterval
         /\ UNCHANGED <<now, parts, pending, rows, ensured, faults>>

Next == \/ ensureFuturePartitions \/ EnsureFails \/ ListOld \/ ListFails \/ DropPartition \/ TickEnds \/ Tick \/ Advance
        \/ Request \/ Write \/ WriteFails \/ Crash \/ Start
Spec == Init /\ [][Next]_vars

(* Once a tick has gone through in a month, events of that month find their
   partition until the month ends, whatever is dropped and however often the server
   restarts ("guarantees the current month's partition exists", main.go:161). *)
MonthOpen == (ensured > 0 /\ MonthOf(ensured) = MonthOf(now)) => MonthOf(now) \in parts

(* An event that was recorded is kept for the retention period: its partition is
   dropped only when the last of its days is older (rotator.go:89). *)
DropsOld == \A d \in rows \ rows' : d < now - RetentionDays
EventsKept == [][DropsOld]_vars

(* "Rotator pre-creates partitions for the next `lookahead_months` ahead"
   (config.yaml.example:186): after a tick that met no error the next months have
   their partitions, so no event is lost when a month begins. *)
AheadOfTime == (ensured = now /\ tick.pc = "list" /\ faults = 0)
  => \A i \in 0..lookahead : MonthOf(now) + i \in parts
=============================================================================
