------------------------------- MODULE Listing -------------------------------
(* A client walks through a listing or a search page by page (api/handlers/
   components.go): drainFilteredPage fetches rows from an offset, drops what the
   caller may not see, refills the page, and answers with the offset to go on from.
   Rows and rights change meanwhile.

   Data: a row has a repository and a key it is ordered by, which rows of two
   repositories may share (ORDER BY name, version, or path).  Search and SearchAssets
   differ from List in the page size alone: theirs is fixed and below the repository's
   cap.  The rows are those that match what is searched for; what a caller may see is
   a set of rows here, and a decision in Access. *)
EXTENDS Naturals, FiniteSets, SequencesExt

CONSTANTS Ids,
          KeyOf,      \* row -> its place in the order
          RepoOf,     \* row -> its repository
          Tables,     \* sets of rows a walk may start with
          Limits,     \* page sizes a client asks for
          MaxPage,    \* rows one query returns at most (maxComponentPageSize)
          MaxScan,    \* queries of one request (maxFilterScanPages)
          MaxChanges, \* bound on changes beside a walk
          MaxFaults,  \* bound on failed calls
          None

VARIABLES table,    \* rows that are there
          members,  \* repositories the name expands to
          visible,  \* rows the caller may see
          limit,    \* page size of the walk
          token,    \* offset the client goes on from; None: the walk is over
          req,      \* the request being served, or None
          page,     \* the last answer: rows, offset it began at, queries it took
          shown,    \* row -> how often it was shown in this walk
          steady,   \* history: rows that have been there, listed and visible all along
          moved,    \* history: "shrunk": a row has gone, "grown": one has come
          changes, faults

vars == <<table, members, visible, limit, token, req, page, shown, steady, moved, changes, faults>>

Repos == {RepoOf[i] : i \in Ids}
Listed(t, m) == {i \in t : RepoOf[i] \in m}
NoPage == [items |-> <<>>, from |-> 0, scanned |-> 0]

TypeOK ==
  /\ table \subseteq Ids /\ members \subseteq Repos /\ visible \subseteq Ids /\ limit \in Limits
  /\ token = None \/ token \in Nat
  /\ req = None \/ (req.cur \in Nat /\ req.scanned \in 0..MaxScan /\ Len(req.out) < limit)
  /\ shown \in [Ids -> Nat] /\ steady \subseteq Ids /\ moved \subseteq {"shrunk", "grown"}
  /\ changes \in 0..MaxChanges /\ faults \in 0..MaxFaults

Init ==
  /\ table \in Tables /\ members = Repos /\ visible \in SUBSET Ids /\ limit \in Limits
  /\ token = 0 /\ req = None /\ page = NoPage
  /\ shown = [i \in Ids |-> 0] /\ steady = table \cap visible /\ moved = {} /\ changes = 0 /\ faults = 0

Fault == faults < MaxFaults /\ faults' = faults + 1

(* --- the queries --------------------------------------------------------- *)
\* ORDER BY leaves rows of one key in any order, which may differ from query to query.
Ordered(S) == {s \in SetToSeqs(S) : \A i, j \in 1..Len(s) : i < j => KeyOf[s[i]] <= KeyOf[s[j]]}
Clamp(l) == IF l > MaxPage THEN MaxPage ELSE l

PageOf(s, l, o) == SubSeq(s, o + 1, IF o + l < Len(s) THEN o + l ELSE Len(s))

\* Fault: whether there is more is judged by the size asked for, not the size given.
Fault_Unclamped(s, l, o) == [items |-> PageOf(s, Clamp(l), o), next |-> Len(s) > o + l]

\* One row more than the page is asked for, to know whether there is a next one.
ListByRepoNames(s, l, o) ==
  [items |-> PageOf(s, Clamp(l), o), next |-> Len(s) > o + Clamp(l)]

(* --- List, Search, SearchAssets ------------------------------------------ *)
\* A group stands for its members as they are when the request begins.
expandGroupMemberRepoNames ==
  /\ token # None /\ req = None
  /\ req' = [names |-> members, cur |-> token, scanned |-> 0, out |-> <<>>, got |-> None]
  /\ UNCHANGED <<table, members, visible, limit, token, page, shown, steady, moved, changes, faults>>
Fetch ==
  /\ req # None /\ req.got = None
  /\ \E s \in Ordered(Listed(table, req.names)) : req' = [req EXCEPT !.got = ListByRepoNames(s, limit, req.cur)]
  /\ UNCHANGED <<table, members, visible, limit, token, page, shown, steady, moved, changes, faults>>
FetchFails ==                            \* the client asks again
  /\ req # None /\ req.got = None /\ Fault /\ req' = None
  /\ UNCHANGED <<table, members, visible, limit, token, page, shown, steady, moved, changes>>

Kept(items, kept, n) == SelectSeq(SubSeq(items, 1, n), LAMBDA i : i \in kept)

\* Fault: every row that was fetched counts as taken.
Fault_PageEnd(out, items, kept) == Len(items)

\* How many of the rows the page has room for: up to the one that fills it.
Consumed(out, items, kept) ==
  LET full == {n \in 1..Len(items) : items[n] \in kept /\ Len(out) + Len(Kept(items, kept, n)) = limit}
  IN IF full = {} THEN Len(items) ELSE CHOOSE n \in full : TRUE
Answer(items, next) ==
  /\ token' = next /\ req' = None
  /\ page' = [items |-> items, from |-> token, scanned |-> req.scanned + 1]
  /\ shown' = [i \in Ids |-> shown[i] + Cardinality({n \in 1..Len(items) : items[n] = i})]
\* The rows kept join the page; it is answered when it is full, when nothing comes
\* after, or when the request has made as many queries as it may.
drainFilteredPage(kept) ==
  LET items == req.got.items
      n == Consumed(req.out, items, kept)
      out == req.out \o Kept(items, kept, n)
      more == n < Len(items) \/ req.got.next
      cur == req.cur + n
  IN IF Len(out) >= limit \/ ~more \/ req.scanned + 1 = MaxScan
     THEN Answer(out, IF more THEN cur ELSE None)
     ELSE /\ req' = [req EXCEPT !.cur = cur, !.out = out, !.scanned = @ + 1, !.got = None]
          /\ UNCHANGED <<token, page, shown>>
\* The rights are read after the rows; if they cannot be read the caller has none.
Filter ==
  /\ req # None /\ req.got # None
  /\ \/ drainFilteredPage(visible) /\ UNCHANGED <<steady, faults>>
     \/ Fault /\ drainFilteredPage({}) /\ steady' = steady \ Range(req.got.items)
  /\ UNCHANGED <<table, members, visible, limit, moved, changes>>

(* --- changes beside the walk --------------------------------------------- *)
Change == changes < MaxChanges /\ changes' = changes + 1 /\ token # None /\ UNCHANGED <<limit, token, req, page, shown, faults>>
Become(t, m, v) ==
  /\ table' = t /\ members' = m /\ visible' = v /\ steady' = steady \cap Listed(t, m) \cap v
  /\ moved' = moved \cup (IF table \subseteq t /\ members \subseteq m THEN {} ELSE {"shrunk"})
                    \cup (IF t \subseteq table /\ m \subseteq members THEN {} ELSE {"grown"})
Insert(i) == Change /\ i \notin table /\ Become(table \cup {i}, members, visible)
Withdraw(i) == Change /\ i \in table /\ Become(table \ {i}, members, visible)
SetMembers(m) == Change /\ m # members /\ Become(table, m, visible)
Grant(i) == Change /\ i \notin visible /\ Become(table, members, visible \cup {i})
Revoke(i) == Change /\ i \in visible /\ Become(table, members, visible \ {i})

Next ==
  \/ expandGroupMemberRepoNames \/ Fetch \/ FetchFails \/ Filter
  \/ \E i \in Ids : Insert(i) \/ Withdraw(i) \/ Grant(i) \/ Revoke(i)
  \/ \E m \in SUBSET Repos : SetMembers(m)
Spec == Init /\ [][Next]_vars

-----------------------------------------------------------------------------
Single == {i \in Ids : \A j \in Ids : KeyOf[j] = KeyOf[i] => j = i}

(* A walk that is over has shown every row that was there and visible all along, and
   has a place of its own in the order, however rows are added, and rights change,
   beside it; rows that go shift the others past the offset. *)
NothingMissed == token = None /\ "shrunk" \notin moved => \A i \in steady \cap Single : shown[i] > 0

(* No row is shown twice, whatever goes and whatever rights change, unless rows come. *)
NothingTwice == "grown" \notin moved => \A i \in Single : shown[i] <= 1

(* A page is short only where the walk ends or the request has made all its queries
   (the dangling short pages of drainFilteredPage's comment), and never too long. *)
PagesFull ==
  /\ Len(page.items) <= limit
  /\ page # NoPage /\ token # None /\ Len(page.items) < limit => page.scanned = MaxScan

(* Every page takes the client further, so that a walk over what does not grow ends. *)
WalkAdvances == page # NoPage /\ token # None => token > page.from

WalkShowsAll == NothingMissed /\ NothingTwice /\ PagesFull /\ WalkAdvances
=============================================================================
