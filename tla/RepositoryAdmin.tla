-------------------------- MODULE RepositoryAdmin --------------------------
(* The administration of repositories (service/repository_service.go and its
   handler): create, replace, switch and delete a repository, with what a row
   refers to: the members of a group, the cleanup policies, the blob store and the
   routing rule.  Every change reads the row, checks it and writes it back whole,
   in calls of their own, and other administrators work beside it.

   Data: a proxy configuration is its remote address and one secret (the proxy
   password and the remote password are treated alike).  A request is a record of
   the fields it sends.  The events sent to webhooks are left out. *)
EXTENDS Naturals, FiniteSets

CONSTANTS Repos,          \* names of repositories
          Formats,
          Unaddressable,  \* pairs of a name and a format whose clients cannot name it
          Policies, Rules, Stores,
          Existing,       \* tables of repositories to start from
          NewRows,        \* what repositories are created with
          Bodies,         \* what updates send
          Clients,        \* requests in flight at a time
          MaxOps,         \* bound on requests
          None

VARIABLES repo,     \* rows of repositories
          policy,   \* cleanup policies: the format of each, or None
          rule,     \* routing rules that exist
          store,    \* blob stores: the quota of each, or None
          op,       \* requests in flight
          loose,    \* history: rows whose references changed behind their last check
          ops

vars == <<repo, policy, rule, store, op, loose, ops>>

Fields == {"online", "anon", "proxy", "members", "policies", "store", "quota", "rule"}
Empty == "empty"        \* the value that clears a reference or a secret
Kept == "kept"          \* a secret that is not sent

TypeOK ==
  /\ \A r \in Repos : repo[r] # None =>
       /\ DOMAIN repo[r] = Fields \cup {"type", "format"}
       /\ repo[r].members \subseteq Repos /\ repo[r].policies \subseteq Policies /\ repo[r].store \in Stores \cup {None}
  /\ policy \in [Policies -> Formats \cup {"*", None}] /\ rule \subseteq Rules /\ store \in [Stores -> 1..2 \cup {None}]
  /\ \A c \in Clients : op[c] # None => op[c].pc \in {"read", "check", "write", "insert", "remove"}
  /\ loose \subseteq Repos /\ ops \in 0..MaxOps

\* Requests are alike: the first free number takes the next one.
Idle(c) == op[c] = None /\ (\A d \in Clients : d < c => op[d] # None) /\ ops < MaxOps /\ ops' = ops + 1
Begin(c, rec) == op' = [op EXCEPT ![c] = rec]
(* A write ends the request of c; the others may have read what it changed. *)
Ends(c) == op' = [d \in Clients |-> IF d = c \/ op[d] = None THEN None ELSE [op[d] EXCEPT !.moved = TRUE]]
Fails(c) == op' = [op EXCEPT ![c] = None] /\ UNCHANGED <<repo, policy, rule, store, loose, ops>>

(* --- what a row is checked for ----------------------------------------- *)
validateNameForFormat(r, f) == <<r, f>> \notin Unaddressable
validateRemoteURL(row) == row.type = "proxy" => (row.proxy # None /\ row.proxy.url # None)

(* Fault: a group may name any repository of its format. *)
Fault_Nested(row) == row.members # {} /\ \A m \in row.members : repo[m] # None /\ repo[m].format = row.format
validateGroupMembers(row) ==
  /\ row.members # {}
  /\ \A m \in row.members : repo[m] # None /\ repo[m].type # "group" /\ repo[m].format = row.format
validateCleanupPolicies(row) == \A p \in row.policies : policy[p] # None /\ policy[p] \in {"*", row.format}
validateRepoQuotaAgainstStore(row) ==
  (row.store # None /\ row.quota # None) => (store[row.store] # None => row.quota <= store[row.store])

Checked(row) ==
  /\ (row.type = "group" => validateGroupMembers(row))
  /\ validateCleanupPolicies(row) /\ validateRepoQuotaAgainstStore(row)
ForeignKeys(row) == (row.store # None => store[row.store] # None) /\ (row.rule # None => row.rule \in rule)

Init ==
  /\ repo \in Existing
  /\ policy \in [Policies -> {"*"}] /\ rule = Rules /\ store \in [Stores -> {2}]
  /\ op = [c \in Clients |-> None] /\ loose = {} /\ ops = 0

(* --- create ------------------------------------------------------------ *)
CreateCheck(c) == \E r \in Repos, row \in NewRows :
  /\ Idle(c) /\ validateNameForFormat(r, row.format) /\ repo[r] = None
  /\ validateRemoteURL(row) /\ Checked(row) /\ (row.store # None => store[row.store] # None)
  /\ Begin(c, [pc |-> "insert", repo |-> r, row |-> [row EXCEPT !.online = TRUE], moved |-> FALSE])
  /\ UNCHANGED <<repo, policy, rule, store, loose>>
CreateInsert(c) ==
  /\ op[c] # None /\ op[c].pc = "insert"
  /\ IF repo[op[c].repo] = None /\ ForeignKeys(op[c].row)
     THEN /\ repo' = [repo EXCEPT ![op[c].repo] = op[c].row] /\ Ends(c)
          /\ loose' = IF op[c].moved THEN loose \cup {op[c].repo} ELSE loose \ {op[c].repo}
          /\ UNCHANGED <<policy, rule, store, ops>>
     ELSE Fails(c)

(* --- update ------------------------------------------------------------ *)
(* Fault: the replacement wins wholesale, the secrets included. *)
Fault_Wholesale(stored, sent) == [url |-> sent.url, secret |-> IF sent.secret \in {Kept, Empty} THEN None ELSE sent.secret]
mergeProxyConfig(stored, sent) ==
  [url |-> sent.url,
   secret |-> IF sent.secret = Empty THEN None
              ELSE IF sent.secret # Kept THEN sent.secret
              ELSE IF stored # None THEN stored.secret ELSE None]

(* The row with what the request names; online and anon are always written. *)
Applied(row, q) == [f \in DOMAIN row |->
  IF f \notin DOMAIN q THEN row[f]
  ELSE IF f = "proxy" THEN mergeProxyConfig(row.proxy, q.proxy)
  ELSE IF f \in {"store", "rule"} /\ q[f] = Empty THEN None ELSE q[f]]

(* What a client is shown: the row without its secrets. *)
RedactedRepository(row) == [f \in Fields |->
  IF f = "proxy" /\ row.proxy # None THEN [row.proxy EXCEPT !.secret = Kept] ELSE row[f]]
(* The settings form sends back what it was shown with a few fields changed; an
   empty field of the form is not sent, nor is the routing rule but of a group. *)
Form(shown, body) ==
  LET sent == {f \in Fields : f \in DOMAIN body \/ (shown[f] # None /\ (f = "rule" => shown.members # {}))}
  IN  [f \in sent |-> IF f \in DOMAIN body THEN body[f] ELSE shown[f]]

(* A field of type bool that is not sent is bound to false, so a PUT names both: one
   that leaves them out takes the repository offline and closes it. *)
Bound(b) == [f \in DOMAIN b \cup {"online", "anon"} |-> IF f \in DOMAIN b THEN b[f] ELSE FALSE]
Ask(c, r, pc, q, named) ==
  Begin(c, [pc |-> pc, repo |-> r, req |-> q, named |-> named, row |-> repo[r], moved |-> FALSE])
Put(c) == \E r \in Repos, b \in Bodies :
  /\ Idle(c) /\ repo[r] # None /\ Ask(c, r, "check", Bound(b), DOMAIN Bound(b))
  /\ UNCHANGED <<repo, policy, rule, store, loose>>
Edit(c) == \E r \in Repos, b \in Bodies :
  /\ Idle(c) /\ repo[r] # None /\ Ask(c, r, "read", Form(RedactedRepository(repo[r]), b), DOMAIN b)
  /\ UNCHANGED <<repo, policy, rule, store, loose>>
(* Patch reads the row for its anon, and Update reads it again. *)
Patch(c) == \E r \in Repos, on \in BOOLEAN :
  /\ Idle(c) /\ repo[r] # None /\ Ask(c, r, "read", [online |-> on, anon |-> repo[r].anon], {"online"})
  /\ UNCHANGED <<repo, policy, rule, store, loose>>
UpdateRead(c) ==
  /\ op[c] # None /\ op[c].pc = "read"
  /\ IF repo[op[c].repo] = None THEN Fails(c)
     ELSE /\ Begin(c, [op[c] EXCEPT !.pc = "check", !.row = repo[op[c].repo]])
          /\ UNCHANGED <<repo, policy, rule, store, loose, ops>>
UpdateCheck(c) ==
  /\ op[c] # None /\ op[c].pc = "check"
  /\ LET row == Applied(op[c].row, op[c].req) IN
     IF /\ ("proxy" \in DOMAIN op[c].req => validateRemoteURL(row)) /\ Checked(row)
        /\ ("store" \in DOMAIN op[c].req => (row.store # None => store[row.store] # None))
     THEN /\ Begin(c, [op[c] EXCEPT !.pc = "write", !.row = row])
          /\ UNCHANGED <<repo, policy, rule, store, loose, ops>>
     ELSE Fails(c)
(* repositoryRepo.Update: every column but the format and the type, by name. *)
UpdateWrite(c) ==
  /\ op[c] # None /\ op[c].pc = "write"
  /\ LET r == op[c].repo IN
     IF repo[r] # None /\ ForeignKeys(op[c].row)
     THEN /\ repo' = [repo EXCEPT ![r] = [f \in DOMAIN repo[r] |-> IF f \in Fields THEN op[c].row[f] ELSE repo[r][f]]]
          /\ loose' = IF op[c].moved THEN loose \cup {r} ELSE loose \ {r}
          /\ Ends(c) /\ UNCHANGED <<policy, rule, store, ops>>
     ELSE Fails(c)

(* Nothing asks who lists the repository as a member. *)
Delete(c) == \E r \in Repos :
  /\ Idle(c) /\ repo[r] # None /\ repo' = [repo EXCEPT ![r] = None] /\ Ends(c)
  /\ loose' = (loose \ {r}) \cup {g \in Repos \ {r} : repo[g] # None /\ r \in repo[g].members}
  /\ UNCHANGED <<policy, rule, store>>

(* --- what rows refer to ------------------------------------------------ *)
PolicySave(c) == \E p \in Policies, f \in Formats :
  /\ Idle(c) /\ policy' = [policy EXCEPT ![p] = f] /\ Ends(c)
  /\ loose' = loose \cup {r \in Repos : repo[r] # None /\ p \in repo[r].policies /\ repo[r].format # f}
  /\ UNCHANGED <<repo, rule, store>>
(* Fault: the rows keep the deleted policy. *)
Fault_NoDetach(p) == repo
DetachCleanupPolicyID(p) == [r \in Repos |-> IF repo[r] = None THEN None ELSE [repo[r] EXCEPT !.policies = @ \ {p}]]
PolicyDetach(c) == \E p \in Policies :
  /\ Idle(c) /\ policy[p] # None /\ repo' = DetachCleanupPolicyID(p)
  /\ op' = [d \in Clients |-> IF d = c THEN [pc |-> "remove", policy |-> p, moved |-> FALSE]
                              ELSE IF op[d] = None THEN None ELSE [op[d] EXCEPT !.moved = TRUE]]
  /\ UNCHANGED <<policy, rule, store, loose>>
PolicyRemove(c) ==
  /\ op[c] # None /\ op[c].pc = "remove" /\ policy' = [policy EXCEPT ![op[c].policy] = None]
  /\ loose' = IF op[c].moved THEN loose \cup {r \in Repos : repo[r] # None /\ op[c].policy \in repo[r].policies} ELSE loose
  /\ Ends(c) /\ UNCHANGED <<repo, rule, store, ops>>
RuleDelete(c) == \E x \in Rules :
  /\ Idle(c) /\ rule' = rule \ {x} /\ Ends(c)
  /\ repo' = [r \in Repos |-> IF repo[r] # None /\ repo[r].rule = x THEN [repo[r] EXCEPT !.rule = None] ELSE repo[r]]
  /\ UNCHANGED <<policy, store, loose>>
StoreQuota(c) == \E s \in Stores, n \in 1..2 :
  /\ Idle(c) /\ store[s] # None /\ store' = [store EXCEPT ![s] = n] /\ Ends(c)
  /\ loose' = loose \cup {r \in Repos : repo[r] # None /\ repo[r].store = s /\ repo[r].quota # None /\ repo[r].quota > n}
  /\ UNCHANGED <<repo, policy, rule>>
StoreDelete(c) == \E s \in Stores :
  /\ Idle(c) /\ store[s] # None /\ (\A r \in Repos : repo[r] # None => repo[r].store # s)
  /\ store' = [store EXCEPT ![s] = None] /\ Ends(c) /\ UNCHANGED <<repo, policy, rule, loose>>

Next == \E c \in Clients :
  \/ CreateCheck(c) \/ CreateInsert(c) \/ Put(c) \/ Edit(c) \/ Patch(c) \/ UpdateRead(c) \/ UpdateCheck(c)
  \/ UpdateWrite(c) \/ Delete(c) \/ PolicySave(c) \/ PolicyDetach(c) \/ PolicyRemove(c) \/ RuleDelete(c)
  \/ StoreQuota(c) \/ StoreDelete(c)
Spec == Init /\ [][Next]_vars

(* What a row refers to is there and fits it: the members of a group are
   repositories of its format and no groups, its policies exist and are of its
   format, its store and rule exist, its quota fits in its store's.  Not promised
   for a row written while something it was checked against changed, nor once a
   member was deleted, a policy given another format or a store a lower quota: none
   of those looks at the repositories (repository_service.go:387). *)
ReferencesHold == \A r \in Repos \ loose : repo[r] # None =>
  /\ \A m \in repo[r].members : repo[r].type = "group" =>
       (m # r /\ repo[m] # None /\ repo[m].type \in {"hosted", "proxy"} /\ repo[m].format = repo[r].format)
  /\ \A p \in repo[r].policies : policy[p] \in {"*", repo[r].format}
  /\ (repo[r].rule # None => repo[r].rule \in rule)
  /\ (repo[r].store # None => (store[repo[r].store] # None /\ (repo[r].quota # None => repo[r].quota <= store[repo[r].store])))

(* An update changes what its caller named and nothing else: a secret the client
   was never shown survives the form that saves the row, the switch that takes a
   repository offline leaves its anonymous access alone (mergeProxyConfig and
   Patch).  A PUT counts as naming the two booleans it does not send (Bound).  Not
   promised when another write came between its reads and its write. *)
KeepsOmitted == \A c \in Clients :
  (/\ op[c] # None /\ op[c].pc = "write" /\ op'[c] = None /\ ~op[c].moved /\ repo'[op[c].repo] # None
   /\ repo[op[c].repo] # None)
  => LET was == repo[op[c].repo]
         is == repo'[op[c].repo]
     IN  /\ \A f \in Fields \ op[c].named : is[f] = was[f]
         /\ ("proxy" \in op[c].named => ((op[c].req.proxy.secret = Kept /\ was.proxy # None)
              => (is = was \/ is.proxy.secret = was.proxy.secret)))
OmittedKept == [][KeepsOmitted]_vars
=============================================================================
