---------------------------- MODULE EventBroker ----------------------------
(* What happens to an event (artifact pushed, repository created, ...) once a
   handler has dispatched it (service/multi_dispatcher.go): the webhook service
   leaves it to a goroutine that reads the subscribed hooks and calls them one after
   the other (service/webhook_service.go); the broker hands it to the browsers that
   are listening, each behind a channel of its own (events/broker.go,
   api/handlers/events.go).

   Data: events are numbered in the order they were dispatched. *)
EXTENDS Naturals, Sequences, FiniteSets

CONSTANTS Hooks, Listeners,
          Publishers,    \* handlers that dispatch
          BufLen,        \* bufLen
          MaxEvents,     \* bound on events
          MaxChanges,    \* bound on changes of hooks
          MaxFaults,     \* bound on broken calls and connections
          None

VARIABLES hook,      \* rows: the version of the active hook, 0 for one switched off, or None
          job,       \* webhook-dispatch goroutines: the hooks each has still to call
          called,    \* calls made: event, hook, version of the row
          chan,      \* per listener: "none", "open" or "closed", and its buffer
          seen,      \* what each listener was sent on its stream
          dropped,   \* DroppedCount
          lock,      \* publishers inside the broker's read lock: whom each has still to serve
          offered,   \* history: events a listener was subscribed for
          panicked,  \* history: a send on a closed channel
          events, budget

vars == <<hook, job, called, chan, seen, dropped, lock, offered, panicked, events, budget>>

Webhooks == <<hook, job, called>>
Broker == <<chan, seen, dropped, lock, offered, panicked>>

Init ==
  /\ hook \in [Hooks -> {None, 1}] /\ job = [e \in 1..MaxEvents |-> None] /\ called = {}
  /\ chan = [l \in Listeners |-> [state |-> "none", buf |-> <<>>]] /\ seen = [l \in Listeners |-> <<>>]
  /\ dropped = [l \in Listeners |-> 0] /\ lock = [p \in Publishers |-> None]
  /\ offered = [l \in Listeners |-> 0] /\ panicked = FALSE /\ events = 0 /\ budget = [changes |-> 0, faults |-> 0]

TypeOK ==
  /\ hook \in [Hooks -> {None} \cup 0..MaxChanges + 1]
  /\ \A l \in Listeners : /\ chan[l].state \in {"none", "open", "closed"} /\ Len(chan[l].buf) <= BufLen
                          /\ dropped[l] <= events /\ Len(seen[l]) <= events
  /\ \A p \in Publishers : lock[p] # None => (lock[p].event \in 1..events /\ lock[p].todo \subseteq Listeners)
  /\ events \in 0..MaxEvents /\ panicked \in BOOLEAN

(* --- a handler dispatches: first the webhooks, then the broker --------- *)
Subscribed == {l \in Listeners : chan[l].state = "open"}
Dispatch(p) ==
  /\ lock[p] = None /\ events < MaxEvents /\ events' = events + 1
  /\ job' = [job EXCEPT ![events + 1] = [pc |-> "list", todo |-> {}]]
  /\ lock' = [lock EXCEPT ![p] = [event |-> events + 1, todo |-> Subscribed]]
  /\ offered' = [l \in Listeners |-> IF l \in Subscribed THEN offered[l] + 1 ELSE offered[l]]
  /\ UNCHANGED <<hook, called, chan, seen, dropped, panicked, budget>>
(* A send never waits: a full channel drops the event. *)
Send(p, l) ==
  /\ lock[p] # None /\ l \in lock[p].todo /\ lock' = [lock EXCEPT ![p].todo = @ \ {l}]
  /\ IF chan[l].state # "open" THEN panicked' = TRUE /\ UNCHANGED <<chan, dropped>>
     ELSE IF Len(chan[l].buf) < BufLen
     THEN chan' = [chan EXCEPT ![l].buf = Append(@, lock[p].event)] /\ UNCHANGED <<dropped, panicked>>
     ELSE dropped' = [dropped EXCEPT ![l] = @ + 1] /\ UNCHANGED <<chan, panicked>>
  /\ UNCHANGED <<seen, offered, events, budget>> /\ UNCHANGED Webhooks
Unlock(p) == /\ lock[p] # None /\ lock[p].todo = {} /\ lock' = [lock EXCEPT ![p] = None]
             /\ UNCHANGED <<chan, seen, dropped, offered, panicked, events, budget>> /\ UNCHANGED Webhooks

(* --- listeners --------------------------------------------------------- *)
(* Fault: only the list of the subscribers is read under the lock. *)
Fault_Snapshot == TRUE
(* Subscribe and Unsubscribe take the lock for writing. *)
WriteLock == \A p \in Publishers : lock[p] = None
Subscribe(l) ==
  /\ WriteLock /\ chan[l].state = "none" /\ chan' = [chan EXCEPT ![l].state = "open"]
  /\ UNCHANGED <<seen, dropped, lock, offered, panicked, events, budget>> /\ UNCHANGED Webhooks
(* The connection ended, or a write to it failed. *)
Unsubscribe(l) ==
  /\ WriteLock /\ chan[l].state = "open" /\ chan' = [chan EXCEPT ![l].state = "closed"]
  /\ budget.faults < MaxFaults /\ budget' = [budget EXCEPT !.faults = @ + 1]
  /\ UNCHANGED <<seen, dropped, lock, offered, panicked, events>> /\ UNCHANGED Webhooks
Stream(l) ==
  /\ chan[l].state = "open" /\ chan[l].buf # <<>>
  /\ seen' = [seen EXCEPT ![l] = Append(@, Head(chan[l].buf))] /\ chan' = [chan EXCEPT ![l].buf = Tail(@)]
  /\ UNCHANGED <<dropped, lock, offered, panicked, events, budget>> /\ UNCHANGED Webhooks

(* --- webhooks ---------------------------------------------------------- *)
Save(h) ==
  /\ budget.changes < MaxChanges /\ budget' = [budget EXCEPT !.changes = @ + 1]
  /\ hook' = [hook EXCEPT ![h] = budget.changes + 2] /\ UNCHANGED <<job, called, events>> /\ UNCHANGED Broker
SwitchOff(h) ==
  /\ budget.changes < MaxChanges /\ budget' = [budget EXCEPT !.changes = @ + 1] /\ hook[h] # None
  /\ hook' \in {[hook EXCEPT ![h] = 0], [hook EXCEPT ![h] = None]}
  /\ UNCHANGED <<job, called, events>> /\ UNCHANGED Broker
ListByEvent(e) ==
  /\ job[e] # None /\ job[e].pc = "list"
  /\ LET active == {h \in Hooks : hook[h] \notin {None, 0}}
     IN  job' = [job EXCEPT ![e] = IF active = {} THEN None ELSE [pc |-> "call", todo |-> active, rows |-> hook]]
  /\ UNCHANGED <<hook, called, events, budget>> /\ UNCHANGED Broker
(* An error of the list, and of a call, is dropped. *)
ListFails(e) ==
  /\ job[e] # None /\ job[e].pc = "list" /\ budget.faults < MaxFaults /\ budget' = [budget EXCEPT !.faults = @ + 1]
  /\ job' = [job EXCEPT ![e] = None] /\ UNCHANGED <<hook, called, events>> /\ UNCHANGED Broker
Deliver(e, h) ==
  /\ job[e] # None /\ job[e].pc = "call" /\ h \in job[e].todo
  /\ job' = [job EXCEPT ![e] = IF job[e].todo = {h} THEN None ELSE [@ EXCEPT !.todo = @ \ {h}]]
  /\ \/ called' = called \cup {<<e, h, job[e].rows[h]>>} /\ UNCHANGED budget
     \/ UNCHANGED called /\ budget.faults < MaxFaults /\ budget' = [budget EXCEPT !.faults = @ + 1]
  /\ UNCHANGED <<hook, events>> /\ UNCHANGED Broker

Next ==
  \/ \E p \in Publishers : Dispatch(p) \/ Unlock(p) \/ \E l \in Listeners : Send(p, l)
  \/ \E l \in Listeners : Subscribe(l) \/ Unsubscribe(l) \/ Stream(l)
  \/ \E h \in Hooks : Save(h) \/ SwitchOff(h)
  \/ \E e \in 1..MaxEvents : ListByEvent(e) \/ ListFails(e) \/ \E h \in Hooks : Deliver(e, h)
Spec == Init /\ [][Next]_vars

(* A handler never dies of a browser that goes away: nothing is sent on a closed
   channel (broker.go:66, "panic with send on closed channel").  And what a listener
   misses is counted: every event dispatched while it was subscribed was streamed,
   waits in its channel, or is in DroppedCount, once the publishers are done. *)
Accounted ==
  /\ ~panicked
  /\ \A l \in Listeners : (chan[l].state = "open" /\ \A p \in Publishers : lock[p] # None => l \notin lock[p].todo)
       => offered[l] = Len(seen[l]) + Len(chan[l].buf) + dropped[l]
=============================================================================
