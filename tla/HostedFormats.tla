---------------------------- MODULE HostedFormats ----------------------------
(* Hosted repositories, one package format at a time (formats/<format>/): what a
   publish and a removal do beyond the artifact store - component row, index line,
   dist-tag - and how each format builds its index from the rows, in one read, in
   two, or page by page, while publishers and removers are at work.

   Data: an artifact is <<name, version>>, its bytes a build number.  A name search
   is a substring match: name 2 contains name 1, the package the reader asks for.
   Rows and paths are ordered by name, then version.  How the bytes and the asset
   row get in and out is module ArtifactStore. *)
EXTENDS Naturals, FiniteSets, FiniteSetsExt

CONSTANTS Formats,
          Clients,      \* 1..n: requests that may be in progress at once
          LastVersion,
          Arts,         \* artifacts: pairs of a name, 1 or 2, and a version
          Builds,       \* build 1 is what was published before
          Limit,        \* rows of one component search, and of one page of rubygems
          FileLimit,    \* rows of one asset listing
          MaxOps,       \* format -> bound on publishes, removals and taggings
          Published,    \* sets of artifacts to start from
          MaxFaults, None

Names == 1..2
Wanted == 1

VARIABLES format,
          comp,      \* artifact -> component row: its id, the build its index line describes, tagged
          asset,     \* artifact -> asset row: its component's id and its build
          ids, op,
          acked,     \* history: artifact -> build of the last publish acknowledged, 0 once a removal began
          tagged,    \* history: name -> version the last acknowledged dist-tag names, 0 for none
          spoilt,    \* history: artifacts whose operations overlapped or failed
          raced,     \* history: names whose dist-tag writers overlapped or failed
          rd, clock, faults

vars == <<format, comp, asset, ids, op, acked, tagged, spoilt, raced, rd, clock, faults>>

(* What a format's writes do: whether a publish goes on to write an index line to
   the component row after StoreArtifact, and whether there is a removal, of the
   file alone or of the component row as well. *)
Ops(line, removal) == [line |-> line, removal |-> removal]
npm_ops == Ops(TRUE, "row")
rubygems_ops == Ops(TRUE, "row")
conan_ops == Ops(FALSE, "row")
conda_ops == Ops(TRUE, "file")
cargo_ops == Ops(FALSE, "file")
helm_ops == Ops(FALSE, "file")
nuget_ops == Ops(FALSE, "file")
apt_ops == Ops(FALSE, "file")
yum_ops == Ops(FALSE, "file")
cran_ops == Ops(FALSE, "file")
maven_ops == Ops(FALSE, "file")
raw_ops == Ops(FALSE, "file")
pypi_ops == Ops(FALSE, "none")
gomod_ops == Ops(FALSE, "none")
terraform_ops == Ops(FALSE, "none")
Format_ops ==
  CASE format = "npm" -> npm_ops [] format = "rubygems" -> rubygems_ops [] format = "conan" -> conan_ops
    [] format = "conda" -> conda_ops [] format = "cargo" -> cargo_ops [] format = "helm" -> helm_ops
    [] format = "nuget" -> nuget_ops [] format = "apt" -> apt_ops [] format = "yum" -> yum_ops
    [] format = "cran" -> cran_ops [] format = "maven" -> maven_ops [] format = "raw" -> raw_ops
    [] format = "pypi" -> pypi_ops [] format = "go" -> gomod_ops [] OTHER -> terraform_ops
ByPath == {"maven", "conan"}                         \* index from the asset paths alone
Joined == {"apt", "yum", "cran", "pypi", "conda"}    \* index from component and asset rows
Exact == ByPath \cup Joined \cup {"npm", "rubygems"}
Whole == {"helm", "apt", "yum", "cran", "conda"}     \* one index for the repository
Idle == [kind |-> "none"]
NoReader == [pc |-> "idle"]

TypeOK ==
  /\ format \in Formats /\ ids \in 0..MaxOps[format] + 2 * LastVersion /\ acked \in [Arts -> 0..Builds] /\ tagged \in [Names -> 0..LastVersion]
  /\ \A a \in Arts : comp[a] = None \/ (comp[a].id \in 1..ids /\ comp[a].line \in 0..Builds /\ comp[a].tag \in BOOLEAN)
  /\ \A a \in Arts : asset[a] = None \/ (comp[a] # None /\ asset[a].comp = comp[a].id /\ asset[a].build \in 1..Builds)
  /\ \A c \in Clients : op[c].kind \in {"none", "publish", "remove", "tag"}
  /\ spoilt \subseteq Arts /\ raced \subseteq Names /\ clock \in 0..1 /\ faults \in 0..MaxFaults
  /\ rd.pc \in {"idle", "rows", "files", "fill", "done"}

\* A repository with some artifacts published before.
Rank(a) == (a[1] - 1) * LastVersion + a[2]
Init ==
  /\ format \in Formats
  /\ \E S \in Published :
       /\ comp = [a \in Arts |-> IF a \in S THEN [id |-> Rank(a), line |-> IF Format_ops.line THEN 1 ELSE 0, tag |-> FALSE] ELSE None]
       /\ asset = [a \in Arts |-> IF a \in S THEN [comp |-> Rank(a), build |-> 1] ELSE None]
       /\ acked = [a \in Arts |-> IF a \in S THEN 1 ELSE 0]
  /\ ids = 2 * LastVersion /\ op = [c \in Clients |-> Idle] /\ tagged = [n \in Names |-> 0]
  /\ spoilt = {} /\ raced = {} /\ rd = NoReader /\ clock = 0 /\ faults = 0

----------------------------------------------------------------------------
(* What the reader's request overlaps with *)
Busy(a) == \E c \in Clients : op[c].kind \in {"publish", "remove"} /\ op[c].art = a
Tagging(n) == \E c \in Clients : op[c].kind # "none" /\ op[c].art[1] = n /\ (op[c].pc \in {"tags", "move"} \/ op[c].kind = "remove")
Settled == {<<a, asset[a].build>> : a \in {x \in Arts : asset[x] # None /\ ~Busy(x)}}
Touched == {a \in Arts : asset[a] # None \/ Busy(a)}
Rows == {a \in Arts : comp[a] # None}
Watch ==
  /\ rd' = IF rd.pc = "idle" THEN rd ELSE IF rd.pc = "done" THEN [rd EXCEPT !.calm = FALSE]
           ELSE [rd EXCEPT !.stable = @ \cap Settled', !.seen = @ \cup Touched', !.calm = FALSE,
                           !.shifted = @ \/ ~(Rows \subseteq Rows')]
  /\ UNCHANGED <<format, clock>>
Goto(c, pc) == op' = [op EXCEPT ![c].pc = pc]
Filling(a) == rd.pc = "fill" /\ rd.fill.art = a

Begin(c, o) ==
  /\ op[c].kind = "none" /\ (\A d \in Clients : d < c => op[d].kind # "none") /\ ids < MaxOps[format] + 2 * LastVersion
  /\ op' = [op EXCEPT ![c] = o] /\ ids' = ids + 1
  /\ spoilt' = IF Busy(o.art) \/ Filling(o.art) THEN spoilt \cup {o.art} ELSE spoilt
Finish(c) == op' = [op EXCEPT ![c] = Idle]
Fails(c) == Finish(c) /\ spoilt' = spoilt \cup {op[c].art}

----------------------------------------------------------------------------
(* Publishing: StoreArtifact upserts the component - whose extra it resets - and
   then the asset, which refers to it *)
Publish(c, a, b) ==
  /\ Begin(c, [kind |-> "publish", art |-> a, build |-> b, id |-> ids + 1, pc |-> "row", todo |-> {}])
  /\ UNCHANGED <<comp, asset, acked, tagged, raced, faults>> /\ Watch
Create(c) ==
  /\ op[c].kind = "publish" /\ op[c].pc = "row"
  /\ LET a == op[c].art
         id == IF comp[a] = None THEN op[c].id ELSE comp[a].id
     IN  /\ comp' = [comp EXCEPT ![a] = [id |-> id, line |-> 0, tag |-> IF comp[a] = None THEN FALSE ELSE comp[a].tag]]
         /\ op' = [op EXCEPT ![c].id = id, ![c].pc = "asset"]
  /\ UNCHANGED <<asset, ids, acked, tagged, spoilt, raced, faults>> /\ Watch
Acknowledge(c) == acked' = [acked EXCEPT ![op[c].art] = op[c].build]
\* The row the asset refers to may be gone: the insert fails.
Upsert(c) ==
  /\ op[c].kind = "publish" /\ op[c].pc = "asset"
  /\ LET a == op[c].art
         there == IF comp[a] = None THEN FALSE ELSE comp[a].id = op[c].id
     IN  IF there
         THEN /\ asset' = [asset EXCEPT ![a] = [comp |-> op[c].id, build |-> op[c].build]]
              /\ IF Format_ops.line THEN Goto(c, "line") /\ UNCHANGED acked ELSE Finish(c) /\ Acknowledge(c)
              /\ UNCHANGED spoilt
         ELSE Fails(c) /\ UNCHANGED <<asset, acked>>
  /\ UNCHANGED <<comp, ids, tagged, raced, faults>> /\ Watch

\* The manifest, info line or build metadata, by component id; conda ignores a failure.
SetLine(a, id, b) == comp' = IF comp[a] = None THEN comp ELSE IF comp[a].id # id THEN comp ELSE [comp EXCEPT ![a].line = b]
UpdateExtra(c) ==
  /\ op[c].kind = "publish" /\ op[c].pc = "line"
  /\ \/ /\ SetLine(op[c].art, op[c].id, op[c].build) /\ UNCHANGED <<spoilt, faults>>
        /\ IF format = "npm" THEN Goto(c, "tags") /\ UNCHANGED acked ELSE Finish(c) /\ Acknowledge(c)
     \/ /\ faults < MaxFaults /\ faults' = faults + 1 /\ Fails(c) /\ UNCHANGED comp
        /\ IF format = "conda" THEN Acknowledge(c) ELSE UNCHANGED acked
  /\ UNCHANGED <<asset, ids, tagged, raced>> /\ Watch

----------------------------------------------------------------------------
(* npm dist-tags: the versions are read, then each row that differs is written *)
Tag(c, a) ==
  /\ format = "npm" /\ Begin(c, [kind |-> "tag", art |-> a, build |-> 0, id |-> 0, pc |-> "tags", todo |-> {}])
  /\ raced' = IF Tagging(a[1]) THEN raced \cup {a[1]} ELSE raced
  /\ UNCHANGED <<comp, asset, acked, tagged, faults>> /\ Watch
packageComponents(n) == {a \in Rows : a[1] = n}

\* Fault: the tag is put on the version and left on the one that held it.
Fault_NotMoved(n, v) == {<<a, comp[a].id, TRUE>> : a \in {x \in packageComponents(n) : x[2] = v /\ ~comp[x].tag}}
setDistTag(n, v) == {<<a, comp[a].id, a[2] = v>> : a \in {x \in packageComponents(n) : comp[x].tag # (x[2] = v)}}
ReadTags(c) ==
  /\ op[c].kind \in {"publish", "tag"} /\ op[c].pc = "tags"
  /\ LET a == op[c].art
         others == \E d \in Clients \ {c} : op[d].kind # "none" /\ op[d].art[1] = a[1] /\ (op[d].pc \in {"tags", "move"} \/ op[d].kind = "remove")
     IN  /\ IF comp[a] # None
            THEN op' = [op EXCEPT ![c].pc = "move", ![c].todo = setDistTag(a[1], a[2])] /\ UNCHANGED spoilt
            ELSE Fails(c)
         /\ raced' = IF others \/ comp[a] = None THEN raced \cup {a[1]} ELSE raced
  /\ UNCHANGED <<comp, asset, ids, acked, tagged, faults>> /\ Watch
SetTags(c) ==
  /\ op[c].kind \in {"publish", "tag"} /\ op[c].pc = "move" /\ op[c].todo # {}
  /\ LET t == CHOOSE t \in op[c].todo : \A u \in op[c].todo : Rank(t[1]) <= Rank(u[1])
         there == IF comp[t[1]] = None THEN FALSE ELSE comp[t[1]].id = t[2]
     IN  \/ /\ comp' = IF there THEN [comp EXCEPT ![t[1]].tag = t[3]] ELSE comp
            /\ op' = [op EXCEPT ![c].todo = @ \ {t}] /\ UNCHANGED <<spoilt, raced, faults>>
         \/ /\ faults < MaxFaults /\ faults' = faults + 1
            /\ Fails(c) /\ raced' = raced \cup {op[c].art[1]} /\ UNCHANGED comp
  /\ UNCHANGED <<asset, ids, acked, tagged>> /\ Watch
Tagged(c) ==
  /\ op[c].kind \in {"publish", "tag"} /\ op[c].pc = "move" /\ op[c].todo = {}
  /\ Finish(c) /\ tagged' = [tagged EXCEPT ![op[c].art[1]] = op[c].art[2]]
  /\ IF op[c].kind = "publish" THEN Acknowledge(c) ELSE UNCHANGED acked
  /\ UNCHANGED <<comp, asset, ids, spoilt, raced, faults>> /\ Watch

----------------------------------------------------------------------------
(* Removing: the artifact, and in three formats the component *)
Remove(c, a) ==
  /\ Format_ops.removal # "none" /\ asset[a] # None
  /\ Begin(c, [kind |-> "remove", art |-> a, build |-> 0, id |-> asset[a].comp, pc |-> "asset", todo |-> {}])
  /\ acked' = [acked EXCEPT ![a] = 0] /\ tagged' = IF tagged[a[1]] = a[2] THEN [tagged EXCEPT ![a[1]] = 0] ELSE tagged
  /\ raced' = IF Tagging(a[1]) THEN raced \cup {a[1]} ELSE raced
  /\ UNCHANGED <<comp, asset, faults>> /\ Watch
DeleteArtifact(c) ==
  /\ op[c].kind = "remove" /\ op[c].pc = "asset"
  /\ asset' = [asset EXCEPT ![op[c].art] = None]
  /\ IF Format_ops.removal = "row" THEN Goto(c, IF format = "npm" THEN "check" ELSE "comp") ELSE Finish(c)
  /\ UNCHANGED <<comp, ids, acked, tagged, spoilt, raced, faults>> /\ Watch

\* A component takes its assets with it.
Drop(S) ==
  /\ comp' = [a \in Arts |-> IF a \in S THEN None ELSE comp[a]]
  /\ asset' = [a \in Arts |-> IF a \in S THEN None ELSE asset[a]]
\* npm: the component goes when it has no file left, found by a read of its own.
deleteAsset(c) ==
  /\ op[c].kind = "remove" /\ op[c].pc = "check"
  /\ IF asset[op[c].art] = None THEN Goto(c, "comp") ELSE Finish(c)
  /\ UNCHANGED <<comp, asset, ids, acked, tagged, spoilt, raced, faults>> /\ Watch
npm_Delete(c) == {a \in Rows : a = op[c].art /\ comp[a].id = op[c].id}

\* Fault: the name is not compared once more after the search.
Fault_LooseName(c) == {a \in Rows : a[1] >= op[c].art[1] /\ a[2] = op[c].art[2]}
\* Fault: the component stays.
Fault_KeepComponent(c) == {}
rubygems_handleYank(c) == {a \in Rows : a[1] >= op[c].art[1] /\ a[2] = op[c].art[2] /\ a[1] = op[c].art[1]}
conan_DeleteOrphans == {a \in Rows : asset[a] = None}
DeleteComponent(c) ==
  /\ op[c].kind = "remove" /\ op[c].pc = "comp"
  /\ \/ /\ Drop(CASE format = "npm" -> npm_Delete(c) [] format = "rubygems" -> rubygems_handleYank(c) [] OTHER -> conan_DeleteOrphans)
        /\ Finish(c) /\ UNCHANGED <<spoilt, faults>>
     \/ /\ faults < MaxFaults /\ faults' = faults + 1 /\ Fails(c) /\ UNCHANGED <<comp, asset>>
  /\ UNCHANGED <<ids, acked, tagged, raced>> /\ Watch

----------------------------------------------------------------------------
(* The indexes.  C holds the component rows read, A the asset rows; an entry is an
   artifact the index offers and the build it says it is, 0 when it does not say. *)
Entry(a, b) == [art |-> a, build |-> b]
Build(A, a) == IF a \notin Arts THEN 0 ELSE IF A[a] = None THEN 0 ELSE A[a].build
First(S, n) == {a \in S : Cardinality({x \in S : Rank(x) <= Rank(a)}) <= n}
Files(A) == {a \in Arts : A[a] # None}

npm_serveMetadata(C) == {Entry(r.art, r.line) : r \in {x \in C : x.art[1] = Wanted}}
cargo_serveIndexEntry(C, A) == {Entry(r.art, Build(A, <<Wanted, r.art[2]>>)) : r \in C}
helm_serveIndex(C) == {Entry(r.art, 0) : r \in C}
\* The version of any package the search found, under the name asked for.
nuget_serveRegistration(C) == {Entry(<<Wanted, r.art[2]>>, 0) : r \in C}
gomod_serveList(C) == {Entry(<<Wanted, r.art[2]>>, 0) : r \in C}
terraform_handleVersions(C) == {Entry(<<Wanted, r.art[2]>>, 0) : r \in C}
rubygems_infoBody(C) == {Entry(r.art, r.line) : r \in {x \in C : x.art[1] = Wanted /\ x.line # 0}}

InPage(A, C, a) == A[a] # None /\ \E r \in C : r.art = a /\ r.id = A[a].comp
pypi_servePackageIndex(C, A) == {Entry(a, A[a].build) : a \in {x \in First(Files(A), FileLimit) : InPage(A, C, x)}}
apt_buildPackagesIndex(C, A) == {Entry(a, A[a].build) : a \in {x \in First(Files(A), FileLimit) : InPage(A, C, x)}}
yum_buildRepodata(C, A) == {Entry(a, A[a].build) : a \in {x \in First(Files(A), FileLimit) : InPage(A, C, x)}}
cran_buildPackagesIndex(C, A) == {Entry(a, 0) : a \in {x \in First(Files(A), FileLimit) : InPage(A, C, x)}}
conda_buildRepodata(C, A) == {Entry(a, A[a].build) : a \in {x \in Files(A) : InPage(A, C, x)}}
maven_generateMetadata(A) == {Entry(a, 0) : a \in {x \in Files(A) : x[1] = Wanted}}
conan_v2Search(A) == {Entry(a, 0) : a \in {x \in Files(A) : x[1] = Wanted}}

Index(C, A) ==
  CASE format = "npm" -> npm_serveMetadata(C)        [] format = "cargo" -> cargo_serveIndexEntry(C, A)
    [] format = "helm" -> helm_serveIndex(C)         [] format = "nuget" -> nuget_serveRegistration(C)
    [] format = "go" -> gomod_serveList(C)           [] format = "terraform" -> terraform_handleVersions(C)
    [] format = "rubygems" -> rubygems_infoBody(C)   [] format = "pypi" -> pypi_servePackageIndex(C, A)
    [] format = "apt" -> apt_buildPackagesIndex(C, A) [] format = "yum" -> yum_buildRepodata(C, A)
    [] format = "cran" -> cran_buildPackagesIndex(C, A) [] format = "conda" -> conda_buildRepodata(C, A)
    [] format = "maven" -> maven_generateMetadata(A) [] OTHER -> conan_v2Search(A)

\* Fault: the Release carries the time it was made.
Fault_WallClock(doc) == clock + 1
\* The Release's date is the newest package's; an empty repository has the present time.
releaseDate(doc) == IF doc = {} THEN clock + 1 ELSE 0

----------------------------------------------------------------------------
(* One reader: an index, and in an apt repository its signature, built anew *)
Request(first, calm) ==
  [pc |-> IF format \in ByPath THEN "files" ELSE "rows", offset |-> 0, rows |-> {}, doc |-> {}, date |-> 0, fill |-> None,
   stable |-> Settled, seen |-> Touched, calm |-> calm, full |-> FALSE, shifted |-> FALSE, first |-> first]
ServeIndex ==
  /\ rd.pc = "idle" /\ format # "raw" /\ rd' = Request(None, TRUE)
  /\ UNCHANGED <<format, comp, asset, ids, op, acked, tagged, spoilt, raced, clock, faults>>
serveReleaseSignature ==
  /\ rd.pc = "done" /\ format = "apt" /\ rd.first = None
  /\ rd' = Request([doc |-> rd.doc, date |-> rd.date], rd.calm)
  /\ clock' \in {clock, 1} /\ UNCHANGED <<format, comp, asset, ids, op, acked, tagged, spoilt, raced, faults>>

\* Components.Search; the gem index asks for page after page by offset.
Search ==
  /\ rd.pc = "rows"
  /\ LET found == {a \in Rows : format \in Whole \cup {"rubygems"} \/ a[1] >= Wanted}
         page == First(found, rd.offset + Limit) \ First(found, rd.offset)
         more == found # First(found, rd.offset + Limit)
         rows == rd.rows \cup {[art |-> a, id |-> comp[a].id, line |-> comp[a].line] : a \in page}
     IN  rd' = IF more /\ format = "rubygems" THEN [rd EXCEPT !.rows = rows, !.offset = @ + Limit]
               ELSE [rd EXCEPT !.rows = rows, !.full = @ \/ more, !.pc = "files"]
  /\ UNCHANGED <<format, comp, asset, ids, op, acked, tagged, spoilt, raced, clock, faults>>
\* npm reads a manifest that is not on its row out of the tarball, and caches it there.
Missing == {r \in rd.rows : r.art[1] = Wanted /\ r.line = 0 /\ InPage(asset, {r}, r.art)}
List ==
  /\ rd.pc = "files" /\ (format = "npm" => Missing = {})
  /\ LET doc == Index(rd.rows, asset)
     IN  rd' = [rd EXCEPT !.doc = doc, !.date = releaseDate(doc), !.pc = "done",
                          !.full = @ \/ (format \in Joined \ {"conda"} /\ Cardinality(Files(asset)) > FileLimit)]
  /\ UNCHANGED <<format, comp, asset, ids, op, acked, tagged, spoilt, raced, clock, faults>>
backfillManifest ==
  /\ rd.pc = "files" /\ format = "npm"
  /\ \E r \in Missing :
       /\ rd' = [rd EXCEPT !.pc = "fill", !.fill = [art |-> r.art, id |-> r.id, build |-> asset[r.art].build]]
       /\ spoilt' = IF Busy(r.art) THEN spoilt \cup {r.art} ELSE spoilt
  /\ UNCHANGED <<format, comp, asset, ids, op, acked, tagged, raced, clock, faults>>
StoreManifest ==
  /\ rd.pc = "fill" /\ SetLine(rd.fill.art, rd.fill.id, rd.fill.build)
  /\ rd' = [rd EXCEPT !.pc = "files", !.rows = {r \in @ : r.art # rd.fill.art} \cup {[art |-> rd.fill.art, id |-> rd.fill.id, line |-> rd.fill.build]}]
  /\ UNCHANGED <<format, asset, ids, op, acked, tagged, spoilt, raced, clock, faults>>

Next ==
  \/ \E c \in Clients :
       \/ \E a \in Arts, b \in 2..Builds : Publish(c, a, b)
       \/ \E a \in Arts : Remove(c, a) \/ Tag(c, a)
       \/ Create(c) \/ Upsert(c) \/ UpdateExtra(c) \/ ReadTags(c) \/ SetTags(c) \/ Tagged(c)
       \/ DeleteArtifact(c) \/ deleteAsset(c) \/ DeleteComponent(c)
  \/ ServeIndex \/ serveReleaseSignature \/ Search \/ List \/ backfillManifest \/ StoreManifest

Spec == Init /\ [][Next]_vars

----------------------------------------------------------------------------
(* A publish that was acknowledged stays: its bytes are served, and its index line
   describes these bytes and not those of another build - whatever is published,
   tagged and removed beside it, and although every publish first resets the line
   (component_repo.go Create) and writes it in a later statement.  Excused: an
   artifact whose own publishes and removals overlapped, and one a failed call left
   halfway. *)
PublishedStays ==
  \A a \in Arts \ spoilt : (acked[a] # 0 /\ ~Busy(a)) =>
    /\ Build(asset, a) = acked[a] /\ comp[a] # None
    /\ Format_ops.line => comp[a].line = acked[a]

(* A dist-tag names one version, the one it was last pointed at, unless that version
   was removed or tag writers overlapped (npm/disttags.go setDistTag "points tag at
   version, moving it off whatever version held it"). *)
TagsPoint ==
  \A n \in Names \ raced : (format = "npm" /\ ~Tagging(n)) =>
    /\ Cardinality({a \in packageComponents(n) : comp[a].tag}) <= 1
    /\ (tagged[n] # 0 /\ <<n, tagged[n]>> \notin spoilt) => comp[<<n, tagged[n]>>] # None /\ comp[<<n, tagged[n]>>].tag

(* An index offers what was there throughout the request, with the right build, and
   - where removals clean up or the files are consulted - nothing that was never
   there, although it is put together from several reads.  Excused: a repository
   larger than the search's limit, gem pages shifted by a removal, and artifacts
   whose operations overlapped or failed. *)
IndexHonest ==
  rd.pc = "done" =>
    /\ \A s \in rd.stable :
         (~rd.full /\ ~(format = "rubygems" /\ rd.shifted) /\ s[1] \notin spoilt /\ (format \notin Whole => s[1][1] = Wanted))
         => \E e \in rd.doc : e.art = s[1] /\ e.build \in {0, s[2]}
    /\ format \in Exact => \A e \in rd.doc : e.art \in rd.seen \cup spoilt

(* The Release an apt client has read and the one that was signed for it are the same
   document as long as nothing was published or removed in between
   (apt/handler.go buildRelease "must be byte-identical across requests"). *)
SignatureVerifies ==
  (rd.pc = "done" /\ rd.calm) => (rd.first # None => (rd.doc = {} \/ rd.first = [doc |-> rd.doc, date |-> rd.date]))
=============================================================================
