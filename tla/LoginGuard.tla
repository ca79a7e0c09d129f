---------------------------- MODULE LoginGuard ----------------------------
(* The failed-login throttle of one account (auth/loginguard): per-node counters,
   the Redis entry they share when it answers, and clients that try again and
   again, one at each node.  A failure is recorded in two steps, the count is read
   and then written back, and nothing holds the two together.

   Data: an entry is the number of failures and the moment the account is blocked
   until; a penalty is counted in the ticks of the model's clock. *)
EXTENDS Naturals, FiniteSets

CONSTANTS Nodes,
          Threshold,    \* failures before delays begin
          MaxDelay,     \* cap of a penalty, in ticks
          TTL,          \* entryTTL, in ticks
          MaxTime,      \* bound on the clock
          Outages       \* whether Redis may stop answering

VARIABLES entry,     \* node -> its own entry
          shared,    \* the entry in Redis
          redis,     \* whether it answers
          try,       \* node -> the password check under way there
          clock,
          excused,   \* history: Redis did not answer, an entry ran out, or two checks overlapped
          checked    \* failed checks since the account last logged in

vars == <<entry, shared, redis, try, clock, excused, checked>>

NoEntry == [failures |-> 0, until |-> 0, seen |-> 0]
Entries == [failures : 0..MaxTime, until : 0..MaxTime + MaxDelay, seen : 0..MaxTime]
Idle == [pc |-> "idle", failures |-> 0]

TypeOK ==
  /\ entry \in [Nodes -> Entries] /\ shared \in Entries /\ redis \in BOOLEAN /\ excused \in BOOLEAN
  /\ try \in [Nodes -> [pc : {"idle", "check", "failed", "save", "passed"}, failures : 0..MaxTime]]
  /\ clock \in 0..MaxTime /\ checked \in 0..MaxTime

Init ==
  /\ entry = [n \in Nodes |-> NoEntry] /\ shared = NoEntry /\ redis = TRUE
  /\ try = [n \in Nodes |-> Idle] /\ clock = 0 /\ excused = FALSE /\ checked = 0

\* Redis drops the entry when its TTL is over.
Tick ==
  /\ clock < MaxTime /\ clock' = clock + 1
  /\ LET over == shared # NoEntry /\ clock' > shared.seen + TTL
     IN  shared' = (IF over THEN NoEntry ELSE shared) /\ excused' = (excused \/ over)
  /\ UNCHANGED <<entry, redis, try, checked>>
Outage ==
  /\ Outages /\ redis' = ~redis /\ excused' = TRUE
  /\ UNCHANGED <<entry, shared, try, clock, checked>>

\* Fault: the node trusts its own entry before the shared one.
Fault_OwnFirst(n) == IF entry[n] # NoEntry THEN entry[n] ELSE IF redis THEN shared ELSE NoEntry

load(n) == IF redis /\ shared # NoEntry THEN shared ELSE entry[n]
\* Fault: the delay doubles without the cap.
Fault_NoCap(failures) == IF failures <= Threshold THEN 0 ELSE 2 ^ (failures - Threshold - 1)

penalty(failures) ==
  IF failures <= Threshold THEN 0
  ELSE LET d == 2 ^ (failures - Threshold - 1) IN IF d > MaxDelay THEN MaxDelay ELSE d

\* A throttled account is answered with the wait and no password is checked.
RetryAfter(n) ==
  /\ try[n] = Idle /\ load(n).until <= clock
  /\ try' = [try EXCEPT ![n].pc = "check"]
  /\ excused' = (excused \/ \E m \in Nodes : try[m] # Idle)
  /\ UNCHANGED <<entry, shared, redis, clock, checked>>
Check(n) ==
  /\ try[n].pc = "check" /\ clock < MaxTime /\ clock' = clock + 1   \* bcrypt takes its time
  /\ \/ try' = [try EXCEPT ![n].pc = "failed"] /\ checked' = checked + 1
     \/ try' = [try EXCEPT ![n].pc = "passed"] /\ checked' = 0
  /\ UNCHANGED <<entry, shared, redis, excused>>
CountFailure(n) ==
  /\ try[n].pc = "failed"
  /\ try' = [try EXCEPT ![n] = [pc |-> "save", failures |-> load(n).failures + 1]]
  /\ UNCHANGED <<entry, shared, redis, clock, excused, checked>>
RecordFailure(n) ==
  /\ try[n].pc = "save"
  /\ LET f == try[n].failures
         e == [failures |-> f, until |-> clock + penalty(f), seen |-> clock]
     IN  /\ entry' = [entry EXCEPT ![n] = e]
         /\ shared' = IF redis THEN e ELSE shared
  /\ try' = [try EXCEPT ![n] = Idle] /\ UNCHANGED <<redis, clock, excused, checked>>
\* A failure of another account at the node, which sweeps the node's map and no other.
sweep(n) ==
  /\ entry[n] # NoEntry /\ entry[n].seen + TTL < clock
  /\ entry' = [entry EXCEPT ![n] = NoEntry]
  /\ UNCHANGED <<shared, redis, try, clock, excused, checked>>
RecordSuccess(n) ==
  /\ try[n].pc = "passed"
  /\ entry' = [entry EXCEPT ![n] = NoEntry]
  /\ shared' = IF redis THEN NoEntry ELSE shared
  /\ try' = [try EXCEPT ![n] = Idle] /\ UNCHANGED <<redis, clock, excused, checked>>

Next ==
  \/ Tick \/ Outage
  \/ \E n \in Nodes : RetryAfter(n) \/ Check(n) \/ CountFailure(n) \/ RecordFailure(n) \/ sweep(n) \/ RecordSuccess(n)
Spec == Init /\ [][Next]_vars
----------------------------------------------------------------------------
(* The count follows the account, not the node: while Redis answers, no entry runs
   out and no two checks overlap, a client that spreads its tries over the nodes is
   throttled at least as if there were one, so after f failed checks the account
   waits at least what f failures cost and no check is let through before that.
   (At least: a success clears the shared entry and the node's own, so another
   node's old entry, hidden until then, is counted again by its next failure.  When
   checks overlap both count from the same entry and one failure is lost.) *)
OneBudget ==
  (~excused /\ checked > 0 /\ \A n \in Nodes : try[n].pc \in {"idle", "check"}) =>
    /\ shared.failures >= checked
    /\ shared.until >= shared.seen + penalty(checked)
    /\ (\E n \in Nodes : try[n].pc = "check") => shared.until <= clock

(* No lockout: whatever Redis and the nodes do, the wait never exceeds the cap,
   and an account with at most Threshold failures on record waits for nothing. *)
BoundedWait ==
  \A n \in Nodes : /\ load(n).until <= clock + MaxDelay
                   /\ load(n).failures <= Threshold => load(n).until <= clock
=============================================================================
