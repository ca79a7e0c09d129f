------------------------------- MODULE Group -------------------------------
(* Group repositories: artifacts come from the first member that answers, index
   documents are merged over all members.  One client looks an artifact up in the
   index and downloads it, walks a paged list, or checks the documents a signed
   Release describes; the members are asked one after another while other clients
   publish and delete and proxy members come and go.

   Data: an artifact is a name (names are ordered, as versions and tags are) and
   the build of its bytes; path 0 is the index.  A member's answer is "ok",
   "down" (an error status) or "garbled" (a document that cannot be read). *)
EXTENDS Naturals, Sequences, FiniteSets, FiniteSetsExt

CONSTANTS Members,   \* sequence of member kinds, "hosted" or "proxy", in priority order
          Formats,   \* the formats the group may have
          LastName, Builds,
          PageSize,
          Rules,     \* routing rules the administrator sets
          MaxChanges, \* format -> bound on changes
          None

Ids == 1..Len(Members)
Names == 1..LastName

VARIABLES format,    \* the group's format
          online, answers,
          held,      \* member -> name -> build, 0 when it is not there
          rule,      \* the routing rule, or None
          req,       \* the client's request
          client,    \* what the client has read so far
          stable,    \* what members held, reachable, since the client began
          calm,      \* nothing changed since the client began
          changes

vars == <<format, online, answers, held, rule, req, client, stable, calm, changes>>
world == <<online, answers, held, rule>>

Strict == {"oci-tags", "oci-referrers"}
Dependent == {"apt", "yum"}
NoReq == [kind |-> "none", path |-> 0, rule |-> None, next |-> 1, parts |-> <<>>]
NoClient == [goal |-> "none", index |-> None, cursor |-> 0, walked |-> <<>>, described |-> None, got |-> None, whole |-> FALSE, done |-> FALSE]

TypeOK ==
  /\ format \in Formats /\ online \in [Ids -> BOOLEAN] /\ answers \in [Ids -> {"ok", "down", "garbled"}]
  /\ held \in [Ids -> [Names -> 0..Builds]] /\ rule \in Rules \cup {None}
  /\ req.kind \in {"none", "index", "release", "described", "artifact"} /\ req.next \in 1..Len(Members) + 1
  /\ stable \subseteq Ids \X Names /\ calm \in BOOLEAN /\ changes \in 0..MaxChanges[format]

Init ==
  /\ format \in Formats /\ rule \in Rules \cup {None}
  /\ online = [m \in Ids |-> TRUE] /\ answers = [m \in Ids |-> "ok"]
  /\ held \in [Ids -> [Names -> {0, 1}]]
  /\ req = NoReq /\ client = NoClient /\ stable = {} /\ calm = TRUE /\ changes = 0

----------------------------------------------------------------------------
(* Everybody else *)
Holding == {<<m, n>> \in Ids \X Names : held[m][n] # 0 /\ online[m]}
Change ==
  /\ changes < MaxChanges[format] /\ changes' = changes + 1
  /\ calm' = FALSE /\ stable' = stable \cap Holding' \cap {<<m, n>> \in Ids \X Names : answers'[m] = "ok"}
  /\ UNCHANGED <<format, req, client>>

\* A write through the group goes to the member it names, or to its first hosted one.
Hosted == {m \in Ids : Members[m] = "hosted" /\ online[m]}
serveWrite(n, writable) ==
  LET target == IF writable # None THEN writable ELSE IF Hosted = {} THEN None ELSE Min(Hosted)
  IN  /\ target \in Hosted                     \* else 405 or 409
      /\ \E b \in 1..Builds : held' = [held EXCEPT ![target][n] = b]
      /\ UNCHANGED <<online, answers, rule>> /\ Change
MemberChanges(m, n) ==
  /\ \E b \in 0..Builds : held' = [held EXCEPT ![m][n] = b]
  /\ held' # held /\ UNCHANGED <<online, answers, rule>> /\ Change
MemberFails(m) ==
  /\ \E a \in {"ok", "down", "garbled"} : answers' = [answers EXCEPT ![m] = a]
  /\ answers' # answers /\ UNCHANGED <<online, held, rule>> /\ Change
MemberOnline(m) ==
  /\ online' = [online EXCEPT ![m] = ~@] /\ UNCHANGED <<answers, held, rule>> /\ Change
UpdateRule ==
  /\ \E r \in Rules \cup {None} : rule' = r
  /\ rule' # rule /\ UNCHANGED <<online, answers, held>> /\ Change

----------------------------------------------------------------------------
(* The routing rule, and one request *)
Allow(r, path) ==
  IF r = None THEN TRUE ELSE IF r.mode = "ALLOW" THEN path \in r.matchers ELSE path \notin r.matchers

\* The rule is read once; a read that fails counts as no rule.
serveGet(kind, path) ==
  /\ req.kind = "none"
  /\ req' = [NoReq EXCEPT !.kind = kind, !.path = path, !.rule = rule]

eligibleMember(m) == online[m]
Items(m) == [member |-> m, readable |-> answers[m] = "ok", items |-> held[m]]

\* Fault: the first member that answers is the index.
Fault_FirstAnswer ==
  /\ req.kind \in {"index", "release", "described"} /\ req.next <= Len(Members)
  /\ LET m == req.next
     IN  req' = IF ~Allow(req.rule, req.path) \/ ~eligibleMember(m) \/ answers[m] = "down" THEN [req EXCEPT !.next = m + 1]
                ELSE [req EXCEPT !.next = Len(Members) + 1, !.parts = Append(@, Items(m))]
  /\ UNCHANGED <<world, format, client, stable, calm, changes>>

\* The next member's document; a strict index fails with a member that fails.
collectIndexParts ==
  /\ req.kind \in {"index", "release", "described"} /\ req.next <= Len(Members)
  /\ LET m == req.next
     IN  CASE ~Allow(req.rule, req.path) \/ ~eligibleMember(m) -> req' = [req EXCEPT !.next = m + 1] /\ UNCHANGED client
           [] answers[m] = "down" /\ format \in Strict -> req' = NoReq /\ client' = [client EXCEPT !.done = TRUE]
           [] answers[m] = "down" /\ format \notin Strict -> req' = [req EXCEPT !.next = m + 1] /\ UNCHANGED client
           [] OTHER -> req' = [req EXCEPT !.next = m + 1, !.parts = Append(@, Items(m))] /\ UNCHANGED client
  /\ UNCHANGED <<world, format, stable, calm, changes>>

----------------------------------------------------------------------------
(* The mergers.  An entry is <<member, name, build>>; a document also says which
   name is the latest (0 when it does not). *)
Readable(parts) == SelectSeq(parts, LAMBDA p : p.readable)
Entries(p) == {<<p.member, n, p.items[n]>> : n \in {k \in Names : p.items[k] # 0}}

firstWins(parts, key) ==      \* key: the fields two members' entries are compared by
  {e \in UNION {Entries(parts[i]) : i \in DOMAIN parts} :
     ~\E i \in DOMAIN parts : parts[i].member < e[1] /\ \E f \in Entries(parts[i]) : \A k \in key : f[k] = e[k]}
ByName == {2}
ByDigest == {2, 3}
Doc(entries, latest) == [entries |-> entries, latest |-> latest]
MaxName(entries) == Max({0} \cup {e[2] : e \in entries})

npm_Merge(parts) ==        \* dist-tags: the first member that has the tag wins
  LET tagged == {i \in DOMAIN parts : Entries(parts[i]) # {}}
  IN  Doc(firstWins(parts, ByName), IF tagged = {} THEN 0 ELSE MaxName(Entries(parts[Min(tagged)])))
maven_Merge(parts) ==      \* latest is computed anew over the union
  LET all == firstWins(parts, ByName) IN Doc(all, MaxName(all))
gomod_Merge(parts) ==      \* the list is a union, @latest the best of the members'
  Doc(firstWins(parts, ByName), Max({0} \cup {MaxName(Entries(parts[i])) : i \in DOMAIN parts}))
nuget_Merge(parts) == Doc(firstWins(parts, ByName), 0)       \* version list
pypi_Merge(parts) == Doc(firstWins(parts, ByName), 0)        \* anchors by file name
conda_Merge(parts) == Doc(firstWins(parts, ByName), 0)       \* packages by file name
cran_Merge(parts) == Doc(firstWins(parts, ByName), 0)        \* stanzas by Package and Version
apt_mergePackages(parts) == Doc(firstWins(parts, ByName), 0) \* stanzas by Filename
yum_mergePrimary(parts) == Doc(firstWins(parts, ByName), 0)  \* packages by location
terraform_Merge(parts) == Doc(firstWins(parts, ByName), 0)   \* provider and module versions
oci_mergeTagLists(parts) == Doc(firstWins(parts, ByName), 0)
oci_mergeReferrers(parts) == Doc(firstWins(parts, ByDigest), 0)

MergeGroupIndex(parts) ==
  CASE format = "npm" -> npm_Merge(parts)
    [] format = "maven2" -> maven_Merge(parts)
    [] format = "go" -> gomod_Merge(parts)
    [] format = "nuget" -> nuget_Merge(parts)
    [] format = "pypi" -> pypi_Merge(parts)
    [] format = "conda" -> conda_Merge(parts)
    [] format = "cran" -> cran_Merge(parts)
    [] format = "apt" -> apt_mergePackages(parts)
    [] format = "yum" -> yum_mergePrimary(parts)
    [] format = "terraform" -> terraform_Merge(parts)
    [] format = "oci-tags" -> oci_mergeTagLists(parts)
    [] format = "oci-referrers" -> oci_mergeReferrers(parts)

Unmergeable(parts) == IF format \in Strict THEN \E i \in DOMAIN parts : ~parts[i].readable
                      ELSE Readable(parts) = <<>>
Collected == req.next > Len(Members)

\* Paginate: the page after the cursor, and whether entries remain.
Paginate(entries, last, n) ==
  LET rest == {k \in {e[2] : e \in entries} : k > last}
      page == {k \in rest : Cardinality({j \in rest : j < k}) < n}
  IN  [page |-> page, more |-> page # rest]

\* serveMergedIndex: a strict list pages, a page with a successor sends a cursor.
MergedIndex ==
  /\ req.kind = "index" /\ Collected /\ req' = NoReq
  /\ LET merged == MergeGroupIndex(Readable(req.parts))
         cut == Paginate(merged.entries, client.cursor, PageSize)
     IN  client' =
           CASE req.parts = <<>> -> [client EXCEPT !.done = TRUE]                              \* 404
             [] req.parts # <<>> /\ Unmergeable(req.parts) -> [client EXCEPT !.done = TRUE]    \* 502, or a member's own bytes
             [] OTHER ->
                  IF client.goal = "walk"
                  THEN [client EXCEPT !.walked = Append(@, cut.page), !.done = ~cut.more, !.whole = ~cut.more,
                                      !.cursor = IF cut.page = {} THEN @ ELSE Max(cut.page)]
                  ELSE [client EXCEPT !.index = merged, !.done = client.goal # "lookup" \/ merged.entries = {}]
  /\ UNCHANGED <<world, format, stable, calm, changes>>

\* A document that describes others: the members' own copies say what there is to
\* describe, then the group's own index is merged afresh for the checksums.
\* Fault: the checksums are those of the first member's copy.
Fault_MemberChecksums ==
  /\ req.kind = "described" /\ Collected /\ req' = NoReq
  /\ client' = IF Readable(req.parts) = <<>> THEN [client EXCEPT !.done = TRUE]
               ELSE [client EXCEPT !.described = MergeGroupIndex(<<Readable(req.parts)[1]>>).entries]
  /\ UNCHANGED <<world, format, stable, calm, changes>>

mergeRelease ==
  /\ req.kind = "release" /\ Collected
  /\ IF req.parts = <<>> THEN req' = NoReq /\ client' = [client EXCEPT !.done = TRUE]
     ELSE req' = [req EXCEPT !.kind = "described", !.next = 1, !.parts = <<>>] /\ UNCHANGED client
  /\ UNCHANGED <<world, format, stable, calm, changes>>
subIndexFetcher ==
  /\ req.kind = "described" /\ Collected /\ req' = NoReq
  /\ client' = IF Readable(req.parts) = <<>> THEN [client EXCEPT !.done = TRUE]
               ELSE [client EXCEPT !.described = MergeGroupIndex(Readable(req.parts)).entries]
  /\ UNCHANGED <<world, format, stable, calm, changes>>

\* An artifact: the first member whose answer is not 404 is the group's answer.
callMember ==
  /\ req.kind = "artifact" /\ req.next <= Len(Members)
  /\ LET m == req.next
     IN  IF ~Allow(req.rule, req.path) \/ ~eligibleMember(m) \/ (answers[m] # "down" /\ held[m][req.path] = 0)
         THEN req' = [req EXCEPT !.next = m + 1] /\ UNCHANGED client
         ELSE /\ req' = NoReq
              /\ client' = [client EXCEPT !.done = TRUE,
                              !.got = IF answers[m] = "down" THEN None ELSE <<m, req.path, held[m][req.path]>>]
  /\ UNCHANGED <<world, format, stable, calm, changes>>
NotFound ==
  /\ req.kind = "artifact" /\ Collected /\ req' = NoReq /\ client' = [client EXCEPT !.done = TRUE]
  /\ UNCHANGED <<world, format, stable, calm, changes>>

----------------------------------------------------------------------------
(* The client *)
Goals == {"lookup"} \cup (IF format = "oci-tags" THEN {"walk"} ELSE {}) \cup (IF format \in Dependent THEN {"verify"} ELSE {})
Begin(goal) ==
  /\ client = NoClient /\ client' = [NoClient EXCEPT !.goal = goal]
  /\ stable' = {<<m, n>> \in Holding : answers[m] = "ok"} /\ calm' = TRUE
  /\ serveGet(IF goal = "verify" THEN "release" ELSE "index", 0)
  /\ UNCHANGED <<world, format, changes>>
Continue ==
  /\ client.goal # "none" /\ ~client.done
  /\ \/ client.goal = "walk" /\ serveGet("index", 0)
     \/ client.goal = "verify" /\ serveGet("index", 0)
     \/ client.goal = "lookup" /\ client.index # None /\ \E e \in client.index.entries : serveGet("artifact", e[2])
  /\ UNCHANGED <<world, format, client, stable, calm, changes>>

Next ==
  \/ \E g \in Goals : Begin(g)
  \/ \E n \in Names, w \in Ids \cup {None} : serveWrite(n, w)
  \/ \E m \in Ids : MemberFails(m) \/ MemberOnline(m) \/ \E n \in Names : MemberChanges(m, n)
  \/ UpdateRule \/ Continue
  \/ collectIndexParts \/ MergedIndex \/ mergeRelease \/ subIndexFetcher \/ callMember \/ NotFound
Spec == Init /\ [][Next]_vars
----------------------------------------------------------------------------
(* No member hides another (the reason indexes are merged): a name that a reachable
   member held all the while is in the merged index, whatever the members before it
   answered and however the others came and went; and the latest version the index
   names is one it lists. *)
NothingShadowed ==
  (client.index # None) =>
    LET listed == {e[2] : e \in client.index.entries}
    IN  /\ \A s \in stable : s[2] \in listed
        /\ client.index.latest # 0 => client.index.latest \in listed

(* A list that must never be short (OCI): a walk that came to its last page has
   listed every tag that some member held from the first page on, and none twice,
   whatever was pushed or deleted between the pages. *)
WalkComplete ==
  client.whole =>
    /\ \A s \in stable : \E i \in DOMAIN client.walked : s[2] \in client.walked[i]
    /\ \A i, j \in DOMAIN client.walked : i # j => client.walked[i] \cap client.walked[j] = {}

(* What the index promises is what the download brings: while nothing changes, the
   bytes served for a name listed in the merged index are the ones its entry came
   from, and a path the routing rule keeps out is not served.  (Not while a member's
   index cannot be read: it is merged around, its artifacts are still served.) *)
DownloadMatches ==
  (client.got # None /\ calm /\ \A m \in Ids : answers[m] # "garbled") =>
    client.got \in client.index.entries /\ Allow(rule, client.got[2])

(* A Release or repomd.xml describes what the group itself serves, not what one of
   its members does: while nothing changes, the index read after it is the one its
   checksums are of. *)
ReleaseMatches ==
  (client.goal = "verify" /\ client.index # None /\ client.described # None /\ calm) =>
    client.index.entries = client.described
=============================================================================
