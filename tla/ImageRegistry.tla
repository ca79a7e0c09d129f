--------------------------- MODULE ImageRegistry ---------------------------
(* The images of a hosted registry repository (formats/oci/handler.go and
   referrers.go, api/handlers/browse_docker.go and browse_oci_referrers.go): manifests
   pushed under a tag or a digest, the alias under the digest, the index of what
   refers to a manifest, and the removals, by the registry API, of a component, and
   by the browse API with its sweep of the layers.

   Data: one image.  A manifest is its content and stands for its digest as well; its
   layers and its subject are functions of it.  The row of a manifest has the digest
   of what was stored and the blob key, which is the path it was first stored under.
   A layer is a row with its bytes.  StoreArtifact and DeleteArtifact are taken at the
   grain of rows and bytes: their locks and crashes are in ArtifactStore. *)
EXTENDS Naturals, FiniteSets

CONSTANTS Tags, Manifests,
          LayersOf,   \* manifest -> its layers and config
          SubjectOf,  \* manifest -> the manifest it refers to, or None
          Clients,    \* 1..n: requests in flight at a time
          MaxOps,     \* bound on requests that change something
          MaxFaults,  \* bound on failed calls
          None

VARIABLES man,      \* reference -> row of a manifest, or None
          comp,     \* reference -> the component's extra, its subject; or None
          obj,      \* blob key of a manifest -> its bytes, or None
          lay,      \* layers that are there
          op,       \* requests in flight
          replaced, \* history: digests whose row names bytes another push has replaced
          loose,    \* history: manifests whose push overlapped a removal or another push
                    \*   of the reference, lost a write, or whose layers a client deleted
          ops, faults

vars == <<man, comp, obj, lay, op, replaced, loose, ops, faults>>

Refs == Tags \cup Manifests
Layers == UNION {LayersOf[m] : m \in Manifests}
Rows == {r \in Refs : man[r] # None}

TypeOK ==
  /\ \A r \in Rows : man[r].sum \in Manifests /\ man[r].key \in Refs /\ comp[r] # None
  /\ \A r \in Refs : comp[r] = None \/ comp[r].subject \in Manifests \cup {None}
  /\ obj \in [Refs -> Manifests \cup {None}] /\ lay \subseteq Layers
  /\ \A c \in Clients : op[c] = None \/ op[c].kind \in {"push", "remove"}
  /\ replaced \subseteq Manifests /\ loose \subseteq Manifests /\ ops \in 0..MaxOps /\ faults \in 0..MaxFaults

Init ==
  /\ man = [r \in Refs |-> None] /\ comp = [r \in Refs |-> None] /\ obj = [r \in Refs |-> None] /\ lay = {}
  /\ op = [c \in Clients |-> None] /\ replaced = {} /\ loose = {} /\ ops = 0 /\ faults = 0

Pushing == {c \in Clients : op[c] # None /\ op[c].kind = "push"}
Removing == {c \in Clients : op[c] # None /\ op[c].kind = "remove"}
InPush == {op[c].m : c \in Pushing}

Count == ops < MaxOps /\ ops' = ops + 1
Fault == faults < MaxFaults /\ faults' = faults + 1
\* Requests are alike: the first free number takes the next one.
Begin(c, rec) ==
  /\ op[c] = None /\ (\A d \in Clients : d < c => op[d] # None) /\ Count
  /\ op' = [op EXCEPT ![c] = rec]
Goto(c, pc) == op' = [op EXCEPT ![c].pc = pc]
End(c) == op' = [op EXCEPT ![c] = None]

(* --- what is served ------------------------------------------------------ *)
Body(r) == IF man[r] = None THEN None ELSE obj[man[r].key]
parseManifestDigests(m) == IF m = None THEN {} ELSE LayersOf[m]

\* The components that name m as their subject, then the manifest behind each:
\* one that has gone is passed over, and a tag and its alias are one entry.
ListOCIReferrers(m) == {r \in Refs : comp[r] # None /\ comp[r].subject = m}
descriptorOf(r) == IF man[r] = None THEN {} ELSE {man[r].sum}
handleReferrers(m) == UNION {descriptorOf(r) : r \in ListOCIReferrers(m)}

\* The panel opens on a tag or a digest, and shows what has no manifest any more too.
subjectDigestOf(r) == IF r \in Manifests THEN r ELSE IF man[r] = None THEN None ELSE man[r].sum
referrersOf(r) == IF subjectDigestOf(r) = None THEN {} ELSE ListOCIReferrers(subjectDigestOf(r))

(* --- pushManifest -------------------------------------------------------- *)
\* Fault: a digest is taken at the client's word.
Fault_Unverified(r, m) == FALSE

digestMismatch(r, m) == r \in Manifests /\ r # m

\* The client has the layers uploaded, then sends the manifest.
PushBegins(c, r, m) ==
  /\ ~digestMismatch(r, m)
  /\ Begin(c, [kind |-> "push", pc |-> "put", ref |-> r, m |-> m]) /\ lay' = lay \cup LayersOf[m]
  /\ loose' = loose \cup (IF Removing # {} THEN {m} ELSE {})
                    \cup UNION {{m, op[d].m} : d \in {e \in Pushing : op[e].ref = r}}
  /\ UNCHANGED <<man, comp, obj, replaced, faults>>
\* The bytes go to the key of the path, which earlier digests may name as well.
PutManifest(c) ==
  /\ c \in Pushing /\ op[c].pc = "put"
  /\ obj' = [obj EXCEPT ![op[c].ref] = op[c].m]
  /\ replaced' = replaced \cup {d \in Manifests \ {op[c].m} : man[d] # None /\ man[d].key = op[c].ref}
  /\ Goto(c, "row") /\ UNCHANGED <<man, comp, lay, loose, ops, faults>>

\* Fault: what a component says of itself outlives what it was said of.
Fault_Merge(r) == IF comp[r] = None THEN [subject |-> None] ELSE comp[r]

\* Components.Create: the row is there, and its extra is empty.
Create(r) == [subject |-> None]
RegisterStoredBlob(r, m, key) ==
  /\ comp' = [comp EXCEPT ![r] = Create(r)] /\ man' = [man EXCEPT ![r] = [sum |-> m, key |-> key]]
  /\ replaced' = IF r \in Tags THEN replaced ELSE IF obj[key] = m THEN replaced \ {r} ELSE replaced \cup {r}
StoreManifest(c) ==
  /\ c \in Pushing /\ op[c].pc = "row" /\ RegisterStoredBlob(op[c].ref, op[c].m, op[c].ref)
  /\ Goto(c, "type") /\ UNCHANGED <<obj, lay, loose, ops, faults>>
PutFails(c) ==
  /\ c \in Pushing /\ op[c].pc = "put" /\ Fault /\ End(c)
  /\ UNCHANGED <<man, comp, obj, lay, replaced, loose, ops>>
\* The component may have been written, and with it emptied, when its row fails.
RegistrationFails(c, r) ==
  /\ Fault /\ End(c) /\ UNCHANGED <<man, replaced>>
  /\ \/ UNCHANGED <<comp, loose>>
     \/ comp' = [comp EXCEPT ![r] = Create(r)] /\ loose' = loose \cup descriptorOf(r)
StoreFails(c) ==
  /\ c \in Pushing /\ op[c].pc = "row" /\ RegistrationFails(c, op[c].ref) /\ UNCHANGED <<obj, lay, ops>>
\* UpdateExtra, best effort; then the alias, unless the push was by digest.
Typed(c, r) ==
  \/ /\ comp' = IF comp[r] = None \/ SubjectOf[op[c].m] = None THEN comp ELSE [comp EXCEPT ![r].subject = SubjectOf[op[c].m]]
     /\ UNCHANGED <<loose, faults>>
  \/ Fault /\ loose' = loose \cup {op[c].m} /\ UNCHANGED comp
UpdateExtra(c) ==
  /\ c \in Pushing /\ op[c].pc = "type" /\ Typed(c, op[c].ref)
  /\ IF op[c].ref = op[c].m THEN End(c) ELSE Goto(c, "alias")
  /\ UNCHANGED <<man, obj, lay, replaced, ops>>
RegisterAlias(c) ==
  /\ c \in Pushing /\ op[c].pc = "alias"
  /\ \/ RegisterStoredBlob(op[c].m, op[c].m, op[c].ref) /\ Goto(c, "typeAlias") /\ UNCHANGED <<loose, faults>>
     \/ RegistrationFails(c, op[c].m)                    \* the push is acknowledged nevertheless
  /\ UNCHANGED <<obj, lay, ops>>
UpdateAliasExtra(c) ==
  /\ c \in Pushing /\ op[c].pc = "typeAlias" /\ Typed(c, op[c].m) /\ End(c)
  /\ UNCHANGED <<man, obj, lay, replaced, ops>>

(* --- removals ------------------------------------------------------------ *)
\* Fault: the bytes go with the first of the rows that name them.
Fault_Sole(r) == FALSE

Shared(r) == \E q \in Rows \ {r} : man[q].key = man[r].key
\* DeleteArtifact: the row, its bytes if no other row names them, not the component.
DeleteArtifact(r) ==
  IF man[r] = None THEN UNCHANGED <<man, obj>>
  ELSE /\ man' = [man EXCEPT ![r] = None]
       /\ obj' = IF Shared(r) THEN obj ELSE [obj EXCEPT ![man[r].key] = None]
deleteManifest(r) ==
  /\ Count /\ man[r] # None /\ DeleteArtifact(r) /\ loose' = loose \cup InPush
  /\ UNCHANGED <<comp, lay, op, replaced, faults>>
deleteBlob(l) ==
  /\ Count /\ l \in lay /\ lay' = lay \ {l} /\ loose' = loose \cup {m \in Manifests : l \in LayersOf[m]}
  /\ UNCHANGED <<man, comp, obj, op, replaced, faults>>
\* Deleting a component takes its rows along and leaves the bytes to the blob GC.
DeleteComponent(r) ==
  /\ Count /\ comp[r] # None
  /\ comp' = [comp EXCEPT ![r] = None] /\ man' = [man EXCEPT ![r] = None] /\ loose' = loose \cup InPush
  /\ UNCHANGED <<obj, lay, op, replaced, faults>>

\* A removal of the browse API: the manifests to go, whether the layers are to be
\* compared with what remains, and the layers to go.
Remove(c, todo, compare, doomed) ==
  /\ Begin(c, [kind |-> "remove", pc |-> "rows", todo |-> todo, compare |-> compare, doomed |-> doomed])
  /\ UNCHANGED <<man, comp, obj, lay, replaced>>
\* A manifest that cannot be read has no layers to look after.
DeleteDockerTag(c, r) ==
  /\ man[r] # None /\ loose' = loose \cup InPush
  /\ \/ Remove(c, {r, man[r].sum}, TRUE, parseManifestDigests(Body(r))) /\ UNCHANGED faults
     \/ Remove(c, {r, man[r].sum}, TRUE, {}) /\ Fault
\* Either list of the image may fail, which is then as good as empty.
DeleteDockerImage(c) ==
  \/ Remove(c, Rows, FALSE, lay) /\ loose' = loose \cup InPush /\ UNCHANGED faults
  \/ Remove(c, Rows, FALSE, {}) /\ loose' = loose \cup InPush /\ Fault
  \/ Remove(c, {}, FALSE, lay) /\ loose' = loose \cup InPush \cup ({Body(r) : r \in Rows} \ {None}) /\ Fault
DeleteByPath(c) ==                       \* below the manifests of the image
  /\ Remove(c, Rows, FALSE, {}) /\ loose' = loose \cup InPush /\ UNCHANGED faults
\* The tag goes before its alias; the rows of a list go by path, as tags are named.
RemoveRow(c) == \E r \in op[c].todo :
  /\ c \in Removing /\ op[c].pc = "rows" /\ (op[c].compare /\ r \in Manifests => op[c].todo \cap Tags = {})
  /\ DeleteArtifact(r)
  /\ op' = [op EXCEPT ![c].todo = @ \ {r}, ![c].pc = IF op[c].todo # {r} THEN "rows" ELSE IF op[c].compare THEN "compare" ELSE "sweep"]
  /\ UNCHANGED <<comp, lay, replaced, loose, ops, faults>>
NoRows(c) ==
  /\ c \in Removing /\ op[c].pc = "rows" /\ op[c].todo = {} /\ Goto(c, "sweep")
  /\ UNCHANGED <<man, comp, obj, lay, replaced, loose, ops, faults>>
RemovalFails(c) ==
  /\ c \in Removing /\ Fault /\ End(c) /\ UNCHANGED <<man, comp, obj, lay, replaced, loose, ops>>

\* Fault: only what has a tag counts as remaining.
Fault_TagsOnly(R) == UNION {parseManifestDigests(Body(r)) : r \in R \cap Tags}

stillUsed(R) == UNION {parseManifestDigests(Body(r)) : r \in R}
\* What the remaining manifests of the image use stays; one that cannot be read
\* does not count, and none does when they cannot be listed.
CompareLayers(c) ==
  /\ c \in Removing /\ op[c].pc = "compare"
  /\ \/ /\ op' = [op EXCEPT ![c].doomed = @ \ stillUsed(Rows), ![c].pc = "sweep"] /\ UNCHANGED <<loose, faults>>
     \/ /\ Fault /\ \E lost \in {{q} : q \in Rows} \cup {Rows} :
             /\ op' = [op EXCEPT ![c].doomed = @ \ stillUsed(Rows \ lost), ![c].pc = "sweep"]
             /\ loose' = loose \cup ({Body(q) : q \in lost} \ {None})
  /\ UNCHANGED <<man, comp, obj, lay, replaced, ops>>
SweepLayer(c) ==
  /\ c \in Removing /\ op[c].pc = "sweep" /\ \E l \in op[c].doomed : lay' = lay \ {l} /\ op' = [op EXCEPT ![c].doomed = @ \ {l}]
  /\ UNCHANGED <<man, comp, obj, replaced, loose, ops, faults>>
DeleteOrphans(c) ==
  /\ c \in Removing /\ op[c].pc = "sweep" /\ op[c].doomed = {} /\ End(c)
  /\ comp' = [r \in Refs |-> IF man[r] = None THEN None ELSE comp[r]]
  /\ UNCHANGED <<man, obj, lay, replaced, loose, ops, faults>>

Next ==
  \/ \E c \in Clients : \/ \E r \in Refs, m \in Manifests : PushBegins(c, r, m)
                        \/ PutManifest(c) \/ PutFails(c) \/ StoreManifest(c) \/ StoreFails(c) \/ UpdateExtra(c) \/ RegisterAlias(c)
                        \/ UpdateAliasExtra(c) \/ DeleteDockerImage(c) \/ DeleteByPath(c) \/ (\E r \in Refs : DeleteDockerTag(c, r))
                        \/ (c \in Removing /\ RemoveRow(c)) \/ NoRows(c) \/ RemovalFails(c)
                        \/ CompareLayers(c) \/ SweepLayer(c) \/ DeleteOrphans(c)
  \/ \E r \in Refs : deleteManifest(r) \/ DeleteComponent(r)
  \/ \E l \in Layers : deleteBlob(l)
Spec == Init /\ [][Next]_vars

----------------------------------------------------------------------------
(* What a pull by digest gets has that digest, although the bytes may be those of a
   tag that has been deleted since, in either order with its alias. *)
PullsByDigest == \A d \in Manifests \ (loose \cup replaced) : man[d] # None => Body(d) = d

(* A manifest that can be pulled has its layers, whatever other images of the same
   layers are being removed. *)
LayersKept == \A r \in Rows : Body(r) # None /\ Body(r) \notin loose => LayersOf[Body(r)] \subseteq lay

(* The index of referrers is the manifests that are there and refer to the subject:
   none is missing, and none is listed for what a tag held before; the panel of the
   browse API shows them all. *)
ReferrersExact ==
  \A s \in Manifests :
    LET there == {m \in Manifests : SubjectOf[m] = s /\ \E r \in Rows : man[r].sum = m}
    IN /\ handleReferrers(s) \ (loose \cup InPush) = there \ (loose \cup InPush)
       /\ \A r \in Refs : subjectDigestOf(r) = s => \A m \in handleReferrers(s) : \E q \in referrersOf(r) : m \in descriptorOf(q)

ImagesServe == PullsByDigest /\ LayersKept /\ ReferrersExact
=============================================================================
