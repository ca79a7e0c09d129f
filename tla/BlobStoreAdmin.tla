--------------------------- MODULE BlobStoreAdmin ---------------------------
(* The administration of blob stores (api/handlers/blobstores.go) beside the
   requests that use them: the rows, the registry in which each node keeps the
   stores it has opened (storage/registry.go), and the choice of a member when the
   store is a group of stores (resolveBlobStoreRef and PickMember).

   Data: a configuration is a number, and a secret; a store is full or not. *)
EXTENDS Naturals, FiniteSets, Sequences

CONSTANTS Stores,      \* names
          Existing,    \* S3 stores at the start
          Nodes,
          Clients,     \* administrators' requests in flight at a time
          Members,     \* the member lists groups are given
          Policy,      \* the fill policy of groups
          MaxOps,      \* bound on administrators' requests
          MaxUses,     \* bound on requests that open or pick a store
          MaxTurns,    \* bound on how often a store fills or empties
          None

VARIABLES row,      \* blob_stores
          linked,   \* stores some repository or asset refers to
          full,     \* stores without room
          cache,    \* registry: what each node's instance of a store was built from
          counter,  \* rrCounters of each node
          op,       \* requests in flight
          use,      \* a request of an artifact that opens or picks a store, on each node
          picked,   \* history: the last choice of a member
          behind,   \* history: instances nothing invalidates
          loose,    \* history: groups that lost a member by a delete whose check other
                    \* writes overlapped or that could not read
          budget

vars == <<row, linked, full, cache, counter, op, use, picked, behind, loose, budget>>

Kept == "kept"
Empty == "empty"
Rotates == Policy = "round_robin"
Listed(s) == {s[i] : i \in 1..Len(s)}

Init ==
  /\ row = [s \in Stores |-> IF s \in Existing THEN [type |-> "s3", id |-> 0, config |-> 1, secret |-> "sk", members |-> <<>>] ELSE None]
  /\ linked = {} /\ full = {}
  /\ cache = [n \in Nodes |-> [s \in Stores |-> None]] /\ counter = [n \in Nodes |-> 0]
  /\ op = [c \in Clients |-> None] /\ use = [n \in Nodes |-> None]
  /\ picked = None /\ behind = {} /\ loose = {} /\ budget = [ops |-> 0, uses |-> 0, turns |-> 0]

TypeOK ==
  /\ \A s \in Stores : row[s] # None =>
       /\ row[s].type \in {"s3", "group"} /\ row[s].members \in Members \cup {<<>>} /\ row[s].secret \in {None, "sk"}
  /\ linked \subseteq Stores /\ full \subseteq Stores /\ behind \subseteq Nodes \X Stores /\ loose \subseteq Stores
  /\ \A c \in Clients : op[c] # None => op[c].pc \in {"insert", "check", "write", "invalidate", "delete"}
  /\ \A n \in Nodes : (use[n] # None => use[n].pc \in {"get", "pick"}) /\ counter[n] \in 0..MaxUses

\* Of a request, moved says that what it read need not be so any more, or was not read.
\* Requests are alike: the first free number takes the next one.
Idle(c) == op[c] = None /\ (\A d \in Clients : d < c => op[d] # None) /\ budget.ops < MaxOps /\ budget' = [budget EXCEPT !.ops = @ + 1]
Do(c, rec) == op' = [op EXCEPT ![c] = rec]
(* The groups that list a store. *)
Listing(s) == {g \in Stores : row[g] # None /\ s \in Listed(row[g].members)}
(* A write: the others may have read what it changed. *)
Moved(c, rec) == [d \in Clients |-> IF d = c THEN rec ELSE IF op[d] = None THEN None ELSE [op[d] EXCEPT !.moved = TRUE]]
Fails(c) == Do(c, None) /\ UNCHANGED <<row, linked, full, cache, counter, use, picked, behind, loose, budget>>
Used == <<full, cache, counter, use, picked>>

(* --- the administrator ------------------------------------------------- *)
validateGroupConfig(m) == m # <<>> /\ \A s \in Listed(m) : row[s] # None /\ row[s].type # "group"
(* Fault: the list of the stores is not looked at. *)
Fault_NotAsked(s) == TRUE
checkNotGroupMember(s) == \A g \in Stores : (row[g] # None /\ row[g].type = "group") => s \notin Listed(row[g].members)

CreateCheck(c) == \E s \in Stores, m \in Members \cup {<<>>} :
  /\ Idle(c) /\ (m # <<>> => validateGroupConfig(m))
  /\ Do(c, [pc |-> "insert", store |-> s, moved |-> FALSE,
            row |-> [type |-> IF m = <<>> THEN "s3" ELSE "group", id |-> budget.ops + 1, config |-> 1,
                     secret |-> IF m = <<>> THEN "sk" ELSE None, members |-> m]])
  /\ UNCHANGED <<row, linked, behind, loose>> /\ UNCHANGED Used
CreateInsert(c) ==
  /\ op[c] # None /\ op[c].pc = "insert"
  /\ IF row[op[c].store] # None THEN Fails(c)
     ELSE /\ row' = [row EXCEPT ![op[c].store] = op[c].row] /\ op' = Moved(c, None)
          /\ loose' = IF op[c].moved THEN loose \cup {op[c].store} ELSE loose \ {op[c].store}
          /\ UNCHANGED <<linked, behind, budget>> /\ UNCHANGED Used

(* Fault: the replacement wins, the secret included. *)
Fault_Forget(stored, sent) == IF sent.config = None THEN [stored EXCEPT !.config = None, !.secret = None, !.members = <<>>]
  ELSE [stored EXCEPT !.config = sent.config, !.members = sent.members, !.secret = IF sent.secret \in {Kept, Empty} THEN None ELSE sent.secret]
(* A body without a configuration clears it, and the secret with it. *)
mergeBlobStoreConfig(stored, sent) ==
  IF sent.config = None THEN [stored EXCEPT !.config = None, !.secret = None, !.members = <<>>]
  ELSE [stored EXCEPT !.config = sent.config, !.members = sent.members,
          !.secret = IF sent.secret = Empty THEN None ELSE IF sent.secret = Kept THEN @ ELSE sent.secret]

UpdateRead(c) == \E s \in Stores, n \in Nodes, cfg \in {2, None}, sec \in {Kept, Empty}, m \in Members \cup {<<>>} :
  /\ Idle(c) /\ row[s] # None
  /\ ((row[s].type = "group") = (m # <<>>) \/ cfg = None) /\ (m # <<>> \/ cfg = None => sec = Kept)
  /\ LET sent == [config |-> cfg, secret |-> sec, members |-> m]
     IN  Do(c, [pc |-> "check", store |-> s, node |-> n, sent |-> sent, id |-> row[s].id,
                row |-> mergeBlobStoreConfig(row[s], sent), moved |-> FALSE])
  /\ UNCHANGED <<row, linked, behind, loose>> /\ UNCHANGED Used
UpdateCheck(c) ==
  /\ op[c] # None /\ op[c].pc = "check"
  /\ IF op[c].row.type = "group" /\ ~validateGroupConfig(op[c].row.members) THEN Fails(c)
     ELSE /\ Do(c, [op[c] EXCEPT !.pc = "write"]) /\ UNCHANGED <<row, linked, behind, loose, budget>> /\ UNCHANGED Used
(* By name; no row, no error.  The other nodes keep what they have open, a request
   that has read the row before keeps what it read, and what is open of a store that
   was deleted and made again has another id than the row that was read.  The type
   written is the one that was read, too. *)
UpdateWrite(c) ==
  /\ op[c] # None /\ op[c].pc = "write"
  /\ LET s == op[c].store IN
     /\ op' = Moved(c, [op[c] EXCEPT !.pc = "invalidate"])
     /\ IF row[s] = None THEN UNCHANGED <<row, behind, loose>>
        ELSE /\ row' = [row EXCEPT ![s] = [op[c].row EXCEPT !.id = row[s].id]]
             /\ behind' = behind \cup {<<n, s>> : n \in
                  {x \in Nodes : x # op[c].node \/ row[s].id # op[c].id \/ (use[x] # None /\ use[x].store = s)}}
             /\ loose' = IF op[c].moved THEN loose \cup {s} \cup Listing(s) ELSE loose \ {s}
  /\ UNCHANGED <<linked, budget>> /\ UNCHANGED Used
(* Fault: the node keeps its instance. *)
Fault_KeepInstance(c) == cache
Invalidate(c) == [cache EXCEPT ![op[c].node] = [s \in Stores |->
  IF s = op[c].store /\ @[s] # None /\ @[s].id = op[c].id THEN None ELSE @[s]]]
UpdateInvalidate(c) ==
  /\ op[c] # None /\ op[c].pc = "invalidate" /\ cache' = Invalidate(c) /\ Do(c, None)
  /\ behind' = IF /\ use[op[c].node] = None
                  /\ row[op[c].store] # None => row[op[c].store].id = op[c].id
               THEN behind \ {<<op[c].node, op[c].store>>} ELSE behind
  /\ UNCHANGED <<row, linked, full, counter, use, picked, loose, budget>>

(* When the store or the list of stores cannot be read, nothing is checked and the
   delete goes on. *)
DeleteCheck(c) == \E s \in Stores, unread \in BOOLEAN :
  /\ Idle(c) /\ (unread \/ checkNotGroupMember(s))
  /\ Do(c, [pc |-> "delete", store |-> s, moved |-> unread])
  /\ UNCHANGED <<row, linked, behind, loose>> /\ UNCHANGED Used
(* The foreign keys of repositories and assets refuse; group members have none. *)
DeleteRow(c) ==
  /\ op[c] # None /\ op[c].pc = "delete"
  /\ LET s == op[c].store IN
     IF s \in linked THEN Fails(c)
     ELSE /\ row' = [row EXCEPT ![s] = None] /\ op' = Moved(c, None)
          /\ loose' = (loose \ {s}) \cup (IF op[c].moved THEN Listing(s) ELSE {})
          /\ UNCHANGED <<linked, behind, budget>> /\ UNCHANGED Used
(* A repository is pointed at the store, or away from it. *)
Link(s) ==
  /\ row[s] # None /\ budget.turns < MaxTurns /\ budget' = [budget EXCEPT !.turns = @ + 1]
  /\ linked' = IF s \in linked THEN linked \ {s} ELSE linked \cup {s}
  /\ UNCHANGED <<row, op, behind, loose>> /\ UNCHANGED Used

(* --- requests that use a store ----------------------------------------- *)
Using(n) == use[n] = None /\ budget.uses < MaxUses /\ budget' = [budget EXCEPT !.uses = @ + 1]
(* ResolveBlobStore: the row is read, then the registry is asked. *)
OpenRead(n, s) ==
  /\ Using(n) /\ row[s] # None /\ row[s].type # "group"
  /\ use' = [use EXCEPT ![n] = [pc |-> "get", store |-> s, desc |-> row[s]]]
  /\ UNCHANGED <<row, linked, full, cache, counter, op, picked, behind, loose>>
(* Without a bucket there is no instance. *)
newFromDescriptor(d) == IF d.config = None THEN None ELSE d
(* The first instance is kept; without one the request falls back to the default
   store (PhysicalStore). *)
Get(n) ==
  /\ use[n] # None /\ use[n].pc = "get"
  /\ LET s == use[n].store
         d == use[n].desc
         hit == cache[n][s] # None /\ cache[n][s].id = d.id
     IN  /\ cache' = IF hit \/ newFromDescriptor(d) = None THEN cache ELSE [cache EXCEPT ![n][s] = newFromDescriptor(d)]
  /\ use' = [use EXCEPT ![n] = None]
  /\ UNCHANGED <<row, linked, full, counter, op, picked, behind, loose, budget>>

(* The members that have a row, in the order of the list. *)
Present(m) ==
  LET first[i \in 0..Len(m)] ==
        IF i = 0 THEN <<>> ELSE IF row[m[i]] = None THEN first[i - 1] ELSE Append(first[i - 1], m[i])
  IN  first[Len(m)]
ResolveGroup(n, g) ==
  /\ Using(n) /\ row[g] # None /\ row[g].type = "group"
  /\ LET there == Present(row[g].members)
     IN  IF there = <<>> THEN UNCHANGED use
         ELSE use' = [use EXCEPT ![n] = [pc |-> "pick", store |-> g, there |-> there, room |-> {s \in Listed(there) : s \notin full}]]
  /\ UNCHANGED <<row, linked, full, cache, counter, op, picked, behind, loose>>
(* The first with room, from the counter on or from the front. *)
FirstWithRoom(there, room, from) ==
  LET at(i) == there[((from + i) % Len(there)) + 1]
      fit == {i \in 0..Len(there) - 1 : at(i) \in room}
  IN  IF fit = {} THEN None ELSE at(CHOOSE i \in fit : \A j \in fit : i <= j)
(* Fault: the rotation takes the member whose turn it is. *)
Fault_Blind(there, room, from) == there[(from % Len(there)) + 1]
Choose(there, room, from) == FirstWithRoom(there, room, from)
PickMember(n) ==
  /\ use[n] # None /\ use[n].pc = "pick"
  /\ LET from == IF Rotates THEN counter[n] ELSE 0
     IN  picked' = [there |-> use[n].there, room |-> use[n].room, from |-> from, chosen |-> Choose(use[n].there, use[n].room, from)]
  /\ counter' = IF Rotates THEN [counter EXCEPT ![n] = @ + 1] ELSE counter
  /\ use' = [use EXCEPT ![n] = None]
  /\ UNCHANGED <<row, linked, full, cache, op, behind, loose, budget>>
Fill(s) ==
  /\ row[s] # None /\ budget.turns < MaxTurns /\ budget' = [budget EXCEPT !.turns = @ + 1]
  /\ full' = IF s \in full THEN full \ {s} ELSE full \cup {s}
  /\ UNCHANGED <<row, linked, cache, counter, op, use, picked, behind, loose>>

Next ==
  \/ \E c \in Clients : \/ CreateCheck(c) \/ CreateInsert(c) \/ UpdateRead(c) \/ UpdateCheck(c) \/ UpdateWrite(c)
                        \/ UpdateInvalidate(c) \/ DeleteCheck(c) \/ DeleteRow(c)
  \/ \E n \in Nodes : Get(n) \/ PickMember(n) \/ \E s \in Stores : OpenRead(n, s) \/ ResolveGroup(n, s)
  \/ \E s \in Stores : Link(s) \/ Fill(s)
Spec == Init /\ [][Next]_vars

(* A node writes to the store its row describes: once an update of the row has
   returned, the node that served it has no instance built from the old
   configuration.  Not promised on the other nodes, which are not told, nor when a
   request had read the row before the update and asks the registry after it, nor
   when the store was deleted and made again behind the update's read, whose id the
   registry is then told (registry.go:44, blobstores.go:261). *)
RegistryCurrent == \A n \in Nodes, s \in Stores :
  (/\ row[s] # None /\ cache[n][s] # None /\ cache[n][s].id = row[s].id /\ <<n, s>> \notin behind
   /\ \A c \in Clients : op[c] # None => (op[c].pc = "invalidate" => op[c].store # s))
  => cache[n][s] = row[s]

(* An update that sends a configuration without the secret keeps the secret: the
   client was never shown it (blobstores.go:85).  Not promised for a body without
   a configuration, nor when another write came between its read and its own. *)
KeepsSecret == \A c \in Clients :
  (/\ op[c] # None /\ op[c].pc = "write" /\ op'[c].pc = "invalidate" /\ ~op[c].moved
   /\ op[c].sent.config # None /\ op[c].sent.secret = Kept /\ row[op[c].store] # None)
  => row'[op[c].store].secret = row[op[c].store].secret
SecretKept == [][KeepsSecret]_vars

(* The members of a group exist and are no groups, so an upload finds one: a store
   that is a member is not deleted (docs/blob-store-groups.md:52).  Not promised of
   loose groups.  One is loose when the check of one request overlapped the write of
   another: a delete that was checked before the group was made, or an update that was
   read before its store was deleted and made again with another type.  And it is when
   a member's delete could not read the store or the list of the stores: it then takes
   the store for no member (blobstores.go:171-178). *)
MembersExist == \A g \in Stores \ loose : (row[g] # None /\ row[g].type = "group") =>
  \A s \in Listed(row[g].members) : row[s] # None /\ row[s].type = "s3"

(* An upload is refused only when every member was full, never given to a full one,
   whichever member's turn it is: the comment of PickMember, "every policy skips full
   members" (registry.go:91).  docs/blob-store-groups.md:16 and :56 say the opposite of
   round_robin, that a member's quota is not looked at when it is picked, so that an
   upload may fail although another member has room.  The code does not do what these
   lines say: this property holds for the rotation too. *)
PickSound == picked # None =>
  /\ (picked.chosen = None) = (picked.room = {})
  /\ (picked.chosen # None => picked.chosen \in picked.room)
=============================================================================
