------------------------- MODULE NexusImportProofs -------------------------
(* What an import promises, for any source, scope and number of administrators,
   and through any number of pauses, crashes and failures of the source: an active
   job has a runner behind it, unless the start that should have resumed it could not
   list the jobs; no manifest is here before what it names; and a job that ends done
   with no error counted has brought everything it was asked for, and has granted each
   role what it resolves to, unless a lookup of one of its privileges failed.

   The last one is a statement about a whole pass, possibly the tenth one, made of
   the state it leaves behind.  The invariant therefore says at every step of a
   pass what the stages behind it, and the items of its stage that it no longer
   has to do, have left here, provided that the pass has counted no error; and that
   nothing of it is taken away again by what comes later. *)
EXTENDS NexusImport, TLAPS

Statuses == {"none", "pending", "running", "paused", "done", "error", "deleted"}
Kinds == UNION {KindsOf[s] : s \in DOMAIN KindsOf} \cup {"blob"}
Walking == {"list", "pick", "item", "link", "image", "alias"}
OnItem == {"item", "link", "image", "alias"}

(* The source lists items of the kinds it has, each artifact under the repository
   that holds it.  Blobs are a part of the stage of repositories (runStages), so a
   job that does not ask for the repositories does not ask for them.  One panic or
   one failed write of the status may happen, as NoWedge says. *)
ImportConstants ==
  /\ KindOf \in [Items -> Kinds] /\ Names \in [Items -> SUBSET Items]
  /\ \A i \in Of("blobs") : \E r \in Names[i] : KindOf[r] = "hosted"
  /\ Scope \subseteq {Stages[k] : k \in 1..7} /\ ("blobs" \in Scope => "repositories" \in Scope)
  /\ MaxFaults \in {0, 1} /\ MaxTroubles \in Nat

JobSet == [status : Statuses, errors : BOOLEAN]
RunSet == [pc : Walking \cup {"none", "start", "end", "settle", "leave"}, stage : 1..8,
           todo : SUBSET Items, need : SUBSET Items, item : Items \cup {0}, hosted : SUBSET Items,
           errors : BOOLEAN, hard : BOOLEAN, cancelled : BOOLEAN]
RequestSet == [pc : {"idle", "launch", "pause", "wait", "delete"}, saw : Statuses, delete : BOOLEAN]
BudgetSet == [faults : 0..1, troubles : Nat]

ImportType ==
  /\ job \in JobSet
  /\ here \in SUBSET Items /\ linked \in [Items -> SUBSET Items]
  /\ run \in RunSet /\ admin \in [Admins -> RequestSet]
  /\ boot \in BOOLEAN /\ missed \in SUBSET Items /\ stranded \in BOOLEAN /\ budget \in BudgetSet

(* What is behind an active job: a run that works is that of a running job, one that
   leaves has settled it, and one that finds it still active can write its status. *)
RunnerBehind ==
  /\ job.status = "none" => At("none") /\ \A a \in Admins : admin[a].pc # "launch"
  /\ run.pc \in Walking \cup {"end"} => job.status \in {"running", "deleted"}
  /\ At("settle") /\ IsActive(job.status) => budget.faults = 0
  /\ At("leave") => ~IsActive(job.status)
  /\ NoWedge

(* An image under way: what it has no longer to fetch is here. *)
ImageKept ==
  /\ run.pc \in {"image", "alias"} =>
       /\ run.item \in Items /\ KindOf[run.item] = "manifest"
       /\ run.need \subseteq Parts(run.item) \cup {run.item}
       /\ (Parts(run.item) \cup {run.item}) \ run.need \subseteq here
  /\ ManifestsWhole

(* The item is here with all that it is promised to have. *)
Brought(i) ==
  \/ KindOf[i] = "loose"
  \/ /\ i \in here
     /\ KindOf[i] = "manifest" => Parts(i) \subseteq here
     /\ KindOf[i] = "role" /\ "privileges" \in Scope =>
          effective(i) \subseteq here /\ (i \in missed \/ effective(i) \subseteq linked[i])
BroughtStage(k) == Stages[k] \in Scope => \A i \in Of(Stages[k]) : Brought(i)
HostedKnown == "repositories" \in Scope => \A i \in Items : KindOf[i] = "hosted" => i \in run.hosted
NoErrorYet == ~run.errors /\ ~run.hard

(* What a pass without an error has brought when it is at its stage, and what a job
   that is done has. *)
StagesBehind ==
  run.pc \in Walking /\ NoErrorYet =>
     /\ \A k \in 1..7 : k < run.stage => BroughtStage(k)
     /\ run.stage > 1 => HostedKnown
ItemsBehind ==
  run.pc \in Walking \ {"list"} =>
     /\ run.stage <= 7 /\ Stage \in Scope /\ run.todo \subseteq Of(Stage)
     /\ NoErrorYet => \A i \in Of(Stage) \ run.todo : (run.pc \in OnItem /\ i = run.item) \/
                        (Brought(i) /\ (KindOf[i] = "hosted" => i \in run.hosted))
ItemInHand ==
  /\ run.pc \in OnItem => run.item \in Of(Stage)
  /\ At("item") => KindOf[run.item] # "manifest"
  /\ At("link") => run.item \in here /\ KindOf[run.item] \in {"role", "user"}
PassKept ==
  /\ At("start") => run.stage = 1
  /\ StagesBehind /\ ItemsBehind /\ ItemInHand
  /\ At("end") /\ ~run.cancelled => job.errors = run.errors /\ (NoErrorYet => \A k \in 1..7 : BroughtStage(k))
DoneKept == job.status = "done" /\ ~job.errors => \A k \in 1..7 : BroughtStage(k)

ImportInv == ImportType /\ RunnerBehind /\ ImageKept /\ PassKept /\ DoneKept

----------------------------------------------------------------------------
(* The stages in their order, and what each brings. *)
LEMMA StageFacts ==
  /\ Len(Stages) = 7
  /\ Stages[1] = "repositories" /\ Stages[2] = "blobs" /\ Stages[3] = "selectors" /\ Stages[4] = "privileges"
  /\ Stages[5] = "roles" /\ Stages[6] = "users" /\ Stages[7] = "rules"
  /\ KindsOf["repositories"] = {"hosted", "proxy", "group"} /\ KindsOf["blobs"] = {"asset", "loose", "manifest"}
  /\ KindsOf["selectors"] = {"selector"} /\ KindsOf["privileges"] = {"privilege"} /\ KindsOf["roles"] = {"role"}
  /\ KindsOf["users"] = {"user"} /\ KindsOf["rules"] = {"rule"}
  BY DEF Stages, KindsOf

(* What an item reaches through items of its kind is what it names and what those
   of its kind among them reach; it is closed under naming. *)
LEMMA ReachClosed ==
  ASSUME ImportConstants, NEW i \in Items
  PROVE  Reach[i] \subseteq Items /\ Expanded(i, Reach[i])
<1>1. Reach[i] = {x \in Items : \A S \in SUBSET Items : Expanded(i, S) => x \in S}  BY DEF Reach
<1>2. Names[i] \subseteq Items  BY DEF ImportConstants
<1>3. Names[i] \subseteq Reach[i]  BY <1>1, <1>2 DEF Expanded
<1>4. ASSUME NEW j \in Reach[i], KindOf[j] = KindOf[i], NEW x \in Names[j]  PROVE x \in Reach[i]
  <2>1. j \in Items /\ x \in Items  BY <1>1, <1>4 DEF ImportConstants
  <2>2. ASSUME NEW S \in SUBSET Items, Expanded(i, S)  PROVE x \in S
    <3>1. j \in S  BY <1>1, <2>2, <1>4
    <3> QED  BY <3>1, <2>2, <1>4 DEF Expanded
  <2> QED  BY <2>1, <2>2, <1>1
<1> QED  BY <1>1, <1>3, <1>4 DEF Expanded

LEMMA ReachSplits ==
  ASSUME ImportConstants, NEW i \in Items, NEW x \in Reach[i]
  PROVE  x \in Names[i] \/ \E m \in Names[i] : KindOf[m] = KindOf[i] /\ x \in Reach[m]
<1> DEFINE S == Names[i] \cup UNION {Reach[m] : m \in {n \in Names[i] : KindOf[n] = KindOf[i]}}
<1>1. Names[i] \subseteq Items  BY DEF ImportConstants
<1>2. \A m \in Names[i] : Reach[m] \subseteq Items /\ Expanded(m, Reach[m])  BY <1>1, ReachClosed
<1>3. S \subseteq Items  BY <1>1, <1>2
<1>4. ASSUME NEW j \in S, KindOf[j] = KindOf[i]  PROVE Names[j] \subseteq S
  <2>1. CASE j \in Names[i]
    <3>1. Names[j] \subseteq Reach[j]  BY <2>1, <1>2 DEF Expanded
    <3> QED  BY <3>1, <2>1, <1>4
  <2>2. CASE \E m \in Names[i] : KindOf[m] = KindOf[i] /\ j \in Reach[m]
    <3>1. PICK m \in Names[i] : KindOf[m] = KindOf[i] /\ j \in Reach[m]  BY <2>2
    <3>2. Names[j] \subseteq Reach[m]  BY <3>1, <1>2, <1>4 DEF Expanded
    <3> QED  BY <3>1, <3>2
  <2> QED  BY <2>1, <2>2, <1>4
<1>5. Expanded(i, S)  BY <1>4 DEF Expanded
<1>6. Reach[i] = {y \in Items : \A T \in SUBSET Items : Expanded(i, T) => y \in T}  BY DEF Reach
<1>7. x \in S  BY <1>3, <1>5, <1>6
<1> QED  BY <1>7

(* What a manifest names is a part of every image it is a part of; what a part of
   it is a part of, too. *)
LEMMA PartsOfParts ==
  ASSUME ImportConstants, NEW i \in Items, KindOf[i] = "manifest",
         NEW b \in Parts(i) \cup {i}, KindOf[b] = "manifest"
  PROVE  /\ b \in Items
         /\ \A x \in Names[b] : KindOf[x] \in {"blob", "manifest"} => x \in Parts(i) \cup {i}
         /\ \A x \in Parts(b) : x \in Names[b] \/ \E m \in Names[b] : KindOf[m] = "manifest" /\ x \in Parts(m) \cup {m}
<1>1. Reach[i] \subseteq Items /\ Expanded(i, Reach[i])  BY ReachClosed
<1>2. b \in Items  BY <1>1 DEF Parts, Under
<1>3. b \in Reach[i] \cup {i}  BY DEF Parts, Under
<1>4. Names[b] \subseteq Reach[i]  BY <1>1, <1>3 DEF Expanded
<1>5. ASSUME NEW x \in Parts(b)
      PROVE  x \in Names[b] \/ \E m \in Names[b] : KindOf[m] = "manifest" /\ x \in Parts(m) \cup {m}
  <2>1. x \in Reach[b] /\ KindOf[x] \in {"blob", "manifest"}  BY <1>5 DEF Parts, Under
  <2>2. x \in Names[b] \/ \E m \in Names[b] : KindOf[m] = KindOf[b] /\ x \in Reach[m]  BY <2>1, <1>2, ReachSplits
  <2> QED  BY <2>1, <2>2 DEF Parts, Under
<1> QED  BY <1>2, <1>4, <1>5 DEF Parts, Under

(* The part of an image that is fetched when nothing it names is still to be fetched
   is whole. *)
LEMMA WholeWhenFetched ==
  ASSUME ImportConstants, ManifestsWhole, NEW i \in Items, KindOf[i] = "manifest", NEW need,
         need \subseteq Parts(i) \cup {i}, (Parts(i) \cup {i}) \ need \subseteq here,
         NEW b \in need, KindOf[b] = "manifest", Names[b] \cap need = {}
  PROVE  b \in Items /\ Parts(b) \subseteq here
<1>1. /\ b \in Items
      /\ \A x \in Names[b] : KindOf[x] \in {"blob", "manifest"} => x \in Parts(i) \cup {i}
      /\ \A x \in Parts(b) : x \in Names[b] \/ \E m \in Names[b] : KindOf[m] = "manifest" /\ x \in Parts(m) \cup {m}
  BY PartsOfParts
<1>2. \A x \in Names[b] : KindOf[x] \in {"blob", "manifest"} => x \in here  BY <1>1
<1>3. ASSUME NEW x \in Parts(b)  PROVE x \in here
  <2>1. KindOf[x] \in {"blob", "manifest"}  BY <1>3 DEF Parts
  <2>2. CASE x \in Names[b]  BY <2>1, <2>2, <1>2
  <2>3. CASE \E m \in Names[b] : KindOf[m] = "manifest" /\ x \in Parts(m) \cup {m}
    <3>1. PICK m \in Names[b] : KindOf[m] = "manifest" /\ x \in Parts(m) \cup {m}  BY <2>3
    <3>2. m \in here  BY <3>1, <1>2
    <3> QED  BY <3>1, <3>2 DEF ManifestsWhole
  <2> QED  BY <1>1, <1>3, <2>2, <2>3
<1> QED  BY <1>1, <1>3

(* The types are kept. *)
LEMMA FreshRecords ==
  /\ Launched \in {[NoRun EXCEPT !.pc = "start"], run}
  /\ NoRun \in RunSet /\ [NoRun EXCEPT !.pc = "start"] \in RunSet
  /\ NoRequest \in RequestSet /\ [NoRequest EXCEPT !.pc = "launch"] \in RequestSet
<1>1. Launched \in {[NoRun EXCEPT !.pc = "start"], run}  BY DEF Launched
<1>2. NoRun \in RunSet  BY DEF NoRun, RunSet
<1>3. [NoRun EXCEPT !.pc = "start"] \in RunSet  BY <1>2 DEF RunSet
<1>4. NoRequest \in RequestSet  BY DEF NoRequest, RequestSet, Statuses
<1>5. [NoRequest EXCEPT !.pc = "launch"] \in RequestSet  BY <1>4 DEF RequestSet
<1> QED  BY <1>1, <1>2, <1>3, <1>4, <1>5

LEMMA RunFields ==
  ASSUME run \in RunSet
  PROVE  /\ [run EXCEPT !.pc = "pick"] \in RunSet /\ [run EXCEPT !.pc = "pick", !.errors = TRUE] \in RunSet
         /\ \A t \in SUBSET Items : /\ [run EXCEPT !.pc = "pick", !.todo = t] \in RunSet
                                    /\ [run EXCEPT !.pc = "pick", !.todo = t, !.errors = TRUE] \in RunSet
         /\ \A st \in 1..8 : /\ [run EXCEPT !.stage = st] \in RunSet /\ [run EXCEPT !.pc = "list", !.stage = st] \in RunSet
                             /\ [run EXCEPT !.stage = st, !.hard = TRUE] \in RunSet
<1>1. [run EXCEPT !.pc = "pick"] \in RunSet /\ [run EXCEPT !.pc = "pick", !.errors = TRUE] \in RunSet  BY DEF RunSet, Walking
<1>2. ASSUME NEW t \in SUBSET Items
      PROVE  [run EXCEPT !.pc = "pick", !.todo = t] \in RunSet /\ [run EXCEPT !.pc = "pick", !.todo = t, !.errors = TRUE] \in RunSet
  BY DEF RunSet, Walking
<1>3. ASSUME NEW st \in 1..8
      PROVE  /\ [run EXCEPT !.stage = st] \in RunSet /\ [run EXCEPT !.pc = "list", !.stage = st] \in RunSet
             /\ [run EXCEPT !.stage = st, !.hard = TRUE] \in RunSet
  <2>1. [run EXCEPT !.stage = st] \in RunSet /\ [run EXCEPT !.pc = "list", !.stage = st] \in RunSet  BY DEF RunSet, Walking
  <2>2. [run EXCEPT !.stage = st, !.hard = TRUE] \in RunSet  BY DEF RunSet, Walking
  <2> QED  BY <2>1, <2>2
<1> QED  BY <1>1, <1>2, <1>3

LEMMA PartsTyped ==
  ASSUME ImportConstants, NEW i \in Items
  PROVE  Parts(i) \subseteq Items
  BY ReachClosed DEF Parts, Under

LEMMA ItemTyped ==
  ASSUME PassKept, run.pc \in OnItem
  PROVE  run.item \in Items /\ KindOf[run.item] \in KindsOf[Stage] /\ Stage \in Scope /\ run.stage <= 7
  BY DEF PassKept, ItemsBehind, ItemInHand, OnItem, Walking, Of

LEMMA BudgetTyped ==
  ASSUME ImportType, Trouble \/ UNCHANGED budget
  PROVE  budget' \in BudgetSet
<1>1. CASE Trouble
  <2>1. budget.troubles \in Nat /\ budget.troubles > 0 /\ budget' = [budget EXCEPT !.troubles = @ - 1]
    BY <1>1 DEF Trouble, ImportType, BudgetSet
  <2> QED  BY <2>1 DEF ImportType, BudgetSet
<1> QED  BY <1>1 DEF ImportType

LEMMA TypeKept ==
  ASSUME ImportConstants, ImportType, PassKept, Next
  PROVE  ImportType'
<1> USE DEF ImportType
<1>1. ASSUME NEW a \in Admins, Create(a)  PROVE ImportType'
  BY <1>1, FreshRecords DEF Create, Ask, Local, RequestSet, JobSet, Statuses
<1>2. ASSUME NEW a \in Admins, Resume(a)  PROVE ImportType'
  BY <1>2, FreshRecords DEF Resume, Ask, Local, RequestSet
<1>3. ASSUME NEW a \in Admins, Launch(a)  PROVE ImportType'
  BY <1>3, FreshRecords DEF Launch, Ask, Local
<1>4. ASSUME NEW a \in Admins, PauseRead(a)  PROVE ImportType'
  BY <1>4 DEF PauseRead, Ask, Deleted, Trouble, Local, RunSet, JobSet, RequestSet, BudgetSet, Statuses, Walking, OnItem
<1>5. ASSUME NEW a \in Admins, PauseCancels(a)  PROVE ImportType'
  <2>1. run' \in RunSet  BY <1>5 DEF PauseCancels, RunSet
  <2>2. admin' \in [Admins -> RequestSet]  BY <1>5 DEF PauseCancels, Ask, RequestSet
  <2> QED  BY <1>5, <2>1, <2>2 DEF PauseCancels, Local
<1>6. ASSUME NEW a \in Admins, PauseParks(a)  PROVE ImportType'
  BY <1>6 DEF PauseParks, Ask, After, NoRequest, At, Write, Fault, Deleted, Local, RunSet, JobSet, RequestSet, BudgetSet, Statuses, Walking, OnItem
<1>7. ASSUME NEW a \in Admins, PauseReturns(a)  PROVE ImportType'
  BY <1>7 DEF PauseReturns, Ask, After, NoRequest, Local, RunSet, JobSet, RequestSet, BudgetSet, Statuses, Walking, OnItem
<1>8. ASSUME NEW a \in Admins, Delete(a)  PROVE ImportType'
  BY <1>8 DEF Delete, Ask, NoRequest, Local, RunSet, JobSet, RequestSet, BudgetSet, Statuses, Walking, OnItem
<1>9. ASSUME Start  PROVE ImportType'
  BY <1>9 DEF Start, At, Go, Deleted, Fault, Local, RunSet, JobSet, RequestSet, BudgetSet, Statuses, Walking, OnItem
<1>10. ASSUME List  PROVE ImportType'
  <2>1. run.stage + 1 \in 1..8  BY <1>10, StageFacts DEF List, RunSet
  <2>2. {i \in Of(Stage) : Stage = "blobs" => RepoOf(i) \in run.hosted} \in SUBSET Items  BY DEF Of
  <2>3. run' \in RunSet  BY <1>10, <2>1, <2>2, RunFields DEF List
  <2> QED  BY <1>10, <2>3 DEF List, Local
<1>11. ASSUME StageEnds  PROVE ImportType'
  <2>1. run.stage + 1 \in 1..8  BY <1>11 DEF StageEnds, At, PassKept, ItemsBehind, Walking, RunSet
  <2> QED  BY <1>11, <2>1, RunFields DEF StageEnds, Local
<1>12. ASSUME StagesEnd  PROVE ImportType'
  BY <1>12 DEF StagesEnd, At, Go, Local, RunSet, JobSet, RequestSet, BudgetSet, Statuses, Walking, OnItem
<1>13. ASSUME Unwind  PROVE ImportType'
  BY <1>13 DEF Unwind, At, Go, Local, RunSet, JobSet, RequestSet, BudgetSet, Statuses, Walking, OnItem
<1>14. ASSUME NEW i \in Items, Pick(i)  PROVE ImportType'
  BY <1>14, PartsTyped DEF Pick, At, Local, RunSet, JobSet, RequestSet, BudgetSet, Statuses, Walking, OnItem
<1>15. ASSUME Skip  PROVE ImportType'
  BY <1>15, ItemTyped DEF Skip, At, I, HostedNow, Local, RunSet, JobSet, RequestSet, BudgetSet, Statuses, Walking, OnItem
<1>16. ASSUME Reconcile  PROVE ImportType'
  <2>1. [job EXCEPT !.errors = TRUE] \in JobSet  BY DEF JobSet
  <2>2. run' \in RunSet /\ job' \in JobSet  BY <1>16, <2>1, RunFields DEF Reconcile, Failed, Go
  <2> QED  BY <1>16, <2>2 DEF Reconcile, Local
<1>17. ASSUME EnsureRepository  PROVE ImportType'
  BY <1>17, ItemTyped DEF ImportConstants, EnsureRepository, At, I, HostedNow, Local, RunSet, JobSet, RequestSet, BudgetSet, Statuses, Walking, OnItem
<1>18. ASSUME Store  PROVE ImportType'
  <2>1. I \in Items  BY <1>18, ItemTyped DEF Store, At, OnItem, I
  <2>2. run' \in RunSet /\ job' \in JobSet
    <3>1. [job EXCEPT !.errors = TRUE] \in JobSet  BY DEF JobSet
    <3> QED  BY <1>18, <3>1, RunFields DEF Store, Failed, Go
  <2>3. here' \in SUBSET Items  BY <1>18, <2>1 DEF Store
  <2> QED  BY <1>18, <2>2, <2>3 DEF Store, Local
<1>19. ASSUME CreateAccount  PROVE ImportType'
  BY <1>19, ItemTyped DEF CreateAccount, At, Go, I, Local, RunSet, JobSet, RequestSet, BudgetSet, Statuses, Walking, OnItem
<1>20. ASSUME SetGrants  PROVE ImportType'
  <2>1. run.item \in Items /\ run' \in RunSet  BY <1>20, ItemTyped, RunFields DEF SetGrants, At, Go, OnItem
  <2>2. Granted \subseteq Items  BY DEF Granted
  <2>3. linked' \in [Items -> SUBSET Items] /\ missed' \in SUBSET Items  BY <1>20, <2>1, <2>2 DEF SetGrants, I
  <2>4. budget' \in BudgetSet  BY <1>20, BudgetTyped DEF SetGrants
  <2> QED  BY <1>20, <2>1, <2>3, <2>4 DEF SetGrants
<1>21. ASSUME Alias  PROVE ImportType'
  BY <1>21 DEF Alias, At, Go, I, Trouble, Local, RunSet, JobSet, RequestSet, BudgetSet, Statuses, Walking, OnItem
<1>22. ASSUME RenamedFails  PROVE ImportType'
  BY <1>22 DEF RenamedFails, At, Failed, I, Local, RunSet, JobSet, RequestSet, BudgetSet, Statuses, Walking, OnItem
<1>23. ASSUME NEW b \in Items, Transfer(b)  PROVE ImportType'
  BY <1>23 DEF Transfer, At, I, Local, RunSet, JobSet, RequestSet, BudgetSet, Statuses, Walking, OnItem
<1>24. ASSUME ItemFails  PROVE ImportType'
  <2>1. run' \in RunSet /\ job' \in JobSet  
    <3>1. [job EXCEPT !.errors = TRUE] \in JobSet  BY DEF JobSet
    <3> QED  BY <1>24, <3>1, RunFields DEF ItemFails, Failed
  <2> QED  BY <1>24, <2>1 DEF ItemFails, Trouble, Local, BudgetSet
<1>25. ASSUME End  PROVE ImportType'
  BY <1>25 DEF End, At, Go, Write, Fault, Deleted, Local, RunSet, JobSet, RequestSet, BudgetSet, Statuses, Walking, OnItem
<1>26. ASSUME Settle  PROVE ImportType'
  BY <1>26 DEF Settle, At, Go, Write, Fault, Deleted, Local, RunSet, JobSet, RequestSet, BudgetSet, Statuses, Walking, OnItem
<1>27. ASSUME Leave  PROVE ImportType'
  BY <1>27, FreshRecords DEF Leave, Local
<1>28. ASSUME StartFails  PROVE ImportType'
  BY <1>28 DEF StartFails, At, Go, Deleted, Trouble, Local, RunSet, JobSet, RequestSet, BudgetSet, Statuses, Walking, OnItem
<1>29. ASSUME ListFails  PROVE ImportType'
  <2>1. run.stage + 1 \in 1..8 /\ (Stage = "selectors" => run.stage + 2 \in 1..8)
    <3>1. run.stage <= 7  BY <1>29, StageFacts DEF ListFails
    <3> QED  BY <3>1, StageFacts DEF RunSet, Stage
  <2>2. UNCHANGED <<Local, admin, boot, stranded>> /\ (Trouble \/ UNCHANGED budget)  BY <1>29 DEF ListFails
  <2>3. budget' \in BudgetSet  BY <2>2, BudgetTyped
  <2>4. CASE Stage = "blobs"
    <3>1. PICK some \in SUBSET run.hosted :
             run' = [run EXCEPT !.pc = "pick", !.todo = {i \in Of(Stage) : RepoOf(i) \in some}, !.errors = TRUE]
      BY <1>29, <2>4 DEF ListFails
    <3>2. {i \in Of(Stage) : RepoOf(i) \in some} \in SUBSET Items  BY DEF Of
    <3>3. run' \in RunSet  BY <3>1, <3>2, RunFields
    <3>4. job' \in JobSet  BY <1>29, <2>4 DEF ListFails, JobSet
    <3> QED  BY <2>2, <2>3, <3>3, <3>4 DEF Local
  <2>5. CASE Stage # "blobs"
    <3>1. run' \in RunSet /\ job' = job  BY <1>29, <2>1, <2>5, RunFields DEF ListFails
    <3> QED  BY <2>2, <2>3, <3>1 DEF Local
  <2> QED  BY <2>4, <2>5
<1>30. ASSUME Panic  PROVE ImportType'
  BY <1>30 DEF ImportConstants, Panic, Fault, Go, Local, RunSet, JobSet, RequestSet, BudgetSet, Statuses, Walking, OnItem
<1>31. ASSUME Crash  PROVE ImportType'
  BY <1>31, FreshRecords, BudgetTyped DEF Crash, Local
<1>32. ASSUME ResumeAll  PROVE ImportType'
  BY <1>32, FreshRecords DEF ResumeAll, Local
<1>33. ASSUME ResumeAllFails  PROVE ImportType'
  <2>1. budget' \in BudgetSet  BY <1>33, BudgetTyped DEF ResumeAllFails
  <2>2. stranded' \in BOOLEAN
    <3>1. IsActive(job.status) \in BOOLEAN  BY DEF IsActive
    <3> QED  BY <1>33, <3>1 DEF ResumeAllFails
  <2>3. UNCHANGED <<job, Local, run, admin>> /\ boot' = FALSE  BY <1>33 DEF ResumeAllFails
  <2> QED  BY <2>1, <2>2, <2>3 DEF Local
<1> QED  BY <1>1, <1>2, <1>3, <1>4, <1>5, <1>6, <1>7, <1>8, <1>9, <1>10, <1>11, <1>12, <1>13, <1>14, <1>15, <1>16, <1>17, <1>18, <1>19, <1>20, <1>21, <1>22, <1>23, <1>24, <1>25, <1>26, <1>27, <1>28, <1>29, <1>30, <1>31, <1>32, <1>33 DEF Next, Runner, Transferring

(* An active job has a runner behind it. *)
LEMMA RunnerKept ==
  ASSUME ImportConstants, ImportType, RunnerBehind, Next
  PROVE  RunnerBehind'
<1> USE DEF ImportType, RunnerBehind, NoWedge, IsActive
<1>1. ASSUME NEW a \in Admins, Create(a)  PROVE RunnerBehind'
  BY <1>1 DEF Create, Ask, NoRequest, At, Local, RunSet, JobSet, RequestSet, BudgetSet, Statuses, Walking
<1>2. ASSUME NEW a \in Admins, Resume(a)  PROVE RunnerBehind'
  BY <1>2 DEF Resume, Ask, NoRequest, At, Local, RunSet, JobSet, RequestSet, BudgetSet, Statuses, Walking, IsResumable
<1>3. ASSUME NEW a \in Admins, Launch(a)  PROVE RunnerBehind'
  BY <1>3 DEF Launch, Ask, NoRequest, Launched, NoRun, At, Local, RunSet, JobSet, RequestSet, BudgetSet, Statuses, Walking
<1>4. ASSUME NEW a \in Admins, PauseRead(a)  PROVE RunnerBehind'
  BY <1>4 DEF PauseRead, Ask, Deleted, Trouble, At, Local, RunSet, JobSet, RequestSet, BudgetSet, Statuses, Walking
<1>5. ASSUME NEW a \in Admins, PauseCancels(a)  PROVE RunnerBehind'
  BY <1>5 DEF PauseCancels, Ask, At, Local, RunSet, JobSet, RequestSet, BudgetSet, Statuses, Walking
<1>6. ASSUME NEW a \in Admins, PauseParks(a)  PROVE RunnerBehind'
  BY <1>6 DEF PauseParks, Ask, After, NoRequest, At, Write, Fault, Deleted, Local, RunSet, JobSet, RequestSet, BudgetSet, Statuses, Walking
<1>7. ASSUME NEW a \in Admins, PauseReturns(a)  PROVE RunnerBehind'
  BY <1>7 DEF PauseReturns, Ask, After, NoRequest, At, Local, RunSet, JobSet, RequestSet, BudgetSet, Statuses, Walking
<1>8. ASSUME NEW a \in Admins, Delete(a)  PROVE RunnerBehind'
  BY <1>8 DEF Delete, Ask, NoRequest, At, Local, RunSet, JobSet, RequestSet, BudgetSet, Statuses, Walking
<1>9. ASSUME Start  PROVE RunnerBehind'
  BY <1>9 DEF Start, At, Go, Deleted, Fault, Local, RunSet, JobSet, RequestSet, BudgetSet, Statuses, Walking, ImportConstants
<1>10. ASSUME List  PROVE RunnerBehind'
  BY <1>10 DEF List, At, Asked, Stage, Local, RunSet, JobSet, RequestSet, BudgetSet, Statuses, Walking
<1>11. ASSUME StageEnds  PROVE RunnerBehind'
  BY <1>11 DEF StageEnds, At, Local, RunSet, JobSet, RequestSet, BudgetSet, Statuses, Walking
<1>12. ASSUME StagesEnd  PROVE RunnerBehind'
  BY <1>12 DEF StagesEnd, At, Go, Local, RunSet, JobSet, RequestSet, BudgetSet, Statuses, Walking
<1>13. ASSUME Unwind  PROVE RunnerBehind'
  BY <1>13 DEF Unwind, At, Go, Local, RunSet, JobSet, RequestSet, BudgetSet, Statuses, Walking
<1>14. ASSUME NEW i \in Items, Pick(i)  PROVE RunnerBehind'
  BY <1>14 DEF Pick, At, Local, RunSet, JobSet, RequestSet, BudgetSet, Statuses, Walking
<1>15. ASSUME Skip  PROVE RunnerBehind'
  BY <1>15 DEF Skip, At, I, HostedNow, Local, RunSet, JobSet, RequestSet, BudgetSet, Statuses, Walking
<1>16. ASSUME Reconcile  PROVE RunnerBehind'
  BY <1>16 DEF Reconcile, At, Go, I, Failed, Local, RunSet, JobSet, RequestSet, BudgetSet, Statuses, Walking
<1>17. ASSUME EnsureRepository  PROVE RunnerBehind'
  BY <1>17 DEF EnsureRepository, At, I, HostedNow, Local, RunSet, JobSet, RequestSet, BudgetSet, Statuses, Walking
<1>18. ASSUME Store  PROVE RunnerBehind'
  <2>1. run.pc = "item" /\ admin' = admin /\ boot' = boot /\ stranded' = stranded  BY <1>18 DEF Store, At
  <2>2. run'.pc = "pick" /\ job'.status = job.status
    <3>1. CASE Failed  BY <3>1 DEF Failed, RunSet, JobSet
    <3>2. CASE Go("pick") /\ UNCHANGED job  BY <3>2 DEF Go, RunSet
    <3> QED  BY <1>18, <3>1, <3>2 DEF Store
  <2> QED  BY <2>1, <2>2 DEF At, Walking
<1>19. ASSUME CreateAccount  PROVE RunnerBehind'
  BY <1>19 DEF CreateAccount, At, Go, I, Local, RunSet, JobSet, RequestSet, BudgetSet, Statuses, Walking
<1>20. ASSUME SetGrants  PROVE RunnerBehind'
  BY <1>20 DEF SetGrants, At, Go, I, Local, RunSet, JobSet, RequestSet, BudgetSet, Statuses, Walking
<1>21. ASSUME Alias  PROVE RunnerBehind'
  BY <1>21 DEF Alias, At, Go, I, Trouble, Local, RunSet, JobSet, RequestSet, BudgetSet, Statuses, Walking
<1>22. ASSUME RenamedFails  PROVE RunnerBehind'
  BY <1>22 DEF RenamedFails, At, Failed, I, Local, RunSet, JobSet, RequestSet, BudgetSet, Statuses, Walking
<1>23. ASSUME NEW b \in Items, Transfer(b)  PROVE RunnerBehind'
  BY <1>23 DEF Transfer, At, I, Local, RunSet, JobSet, RequestSet, BudgetSet, Statuses, Walking
<1>24. ASSUME ItemFails  PROVE RunnerBehind'
  BY <1>24 DEF ItemFails, Trouble, Failed, I, At, Local, RunSet, JobSet, RequestSet, BudgetSet, Statuses, Walking
<1>25. ASSUME End  PROVE RunnerBehind'
  BY <1>25 DEF End, At, Go, Write, Fault, Deleted, Local, RunSet, JobSet, RequestSet, BudgetSet, Statuses, Walking, ImportConstants
<1>26. ASSUME Settle  PROVE RunnerBehind'
  BY <1>26 DEF Settle, At, Go, Write, Fault, Deleted, Local, RunSet, JobSet, RequestSet, BudgetSet, Statuses, Walking, ImportConstants
<1>27. ASSUME Leave  PROVE RunnerBehind'
  BY <1>27 DEF Leave, At, NoRun, Local, RunSet, JobSet, RequestSet, BudgetSet, Statuses, Walking
<1>28. ASSUME StartFails  PROVE RunnerBehind'
  BY <1>28 DEF StartFails, At, Go, Deleted, Trouble, Local, RunSet, JobSet, RequestSet, BudgetSet, Statuses, Walking
<1>29. ASSUME ListFails  PROVE RunnerBehind'
  <2>1. run.pc = "list" /\ run'.pc \in {"list", "pick"} /\ job'.status = job.status /\ admin' = admin /\ boot' = boot /\ stranded' = stranded
    BY <1>29 DEF ListFails, At, RunSet, JobSet
  <2> QED  BY <2>1 DEF At, Walking
<1>30. ASSUME Panic  PROVE RunnerBehind'
  BY <1>30 DEF Panic, Fault, Go, At, Local, RunSet, JobSet, RequestSet, BudgetSet, Statuses, Walking, ImportConstants
<1>31. ASSUME Crash  PROVE RunnerBehind'
  BY <1>31 DEF Crash, Trouble, NoRun, NoRequest, At, Local, RunSet, JobSet, RequestSet, BudgetSet, Statuses, Walking
<1>32. ASSUME ResumeAll  PROVE RunnerBehind'
  BY <1>32 DEF ResumeAll, Launched, NoRun, At, Local, RunSet, JobSet, RequestSet, BudgetSet, Statuses, Walking
<1>33. ASSUME ResumeAllFails  PROVE RunnerBehind'
  BY <1>33 DEF ResumeAllFails, Trouble, At, Local, RunSet, JobSet, RequestSet, BudgetSet, Statuses, Walking
<1> QED  BY <1>1, <1>2, <1>3, <1>4, <1>5, <1>6, <1>7, <1>8, <1>9, <1>10, <1>11, <1>12, <1>13, <1>14, <1>15, <1>16, <1>17, <1>18, <1>19, <1>20, <1>21, <1>22, <1>23, <1>24, <1>25, <1>26, <1>27, <1>28, <1>29, <1>30, <1>31, <1>32, <1>33 DEF Next, Runner, Transferring

(* What an image under way has fetched is here, and every manifest that is here is whole. *)
LEMMA ImageStays ==
  ASSUME ImportConstants, ImportType, PassKept, ImageKept, Next
  PROVE  ImageKept'
<1> USE DEF ImportType, ImageKept, ManifestsWhole
<1>1. ASSUME NEW a \in Admins, Create(a)  PROVE ImageKept'
  BY <1>1 DEF Create, Local, RunSet
<1>2. ASSUME NEW a \in Admins, Resume(a)  PROVE ImageKept'
  BY <1>2 DEF Resume, Local, RunSet
<1>3. ASSUME NEW a \in Admins, Launch(a)  PROVE ImageKept'
  BY <1>3 DEF Launch, Launched, NoRun, At, Local, RunSet
<1>4. ASSUME NEW a \in Admins, PauseRead(a)  PROVE ImageKept'
  BY <1>4 DEF PauseRead, Local, RunSet
<1>5. ASSUME NEW a \in Admins, PauseCancels(a)  PROVE ImageKept'
  BY <1>5 DEF PauseCancels, At, Local, RunSet
<1>6. ASSUME NEW a \in Admins, PauseParks(a)  PROVE ImageKept'
  BY <1>6 DEF PauseParks, At, Local, RunSet
<1>7. ASSUME NEW a \in Admins, PauseReturns(a)  PROVE ImageKept'
  BY <1>7 DEF PauseReturns, Local, RunSet
<1>8. ASSUME NEW a \in Admins, Delete(a)  PROVE ImageKept'
  BY <1>8 DEF Delete, Local, RunSet
<1>9. ASSUME Start  PROVE ImageKept'
  BY <1>9 DEF Start, At, Go, Local, RunSet
<1>10. ASSUME List  PROVE ImageKept'
  BY <1>10 DEF List, At, Asked, Stage, Local, RunSet, PassKept, ItemsBehind, ItemInHand, Walking
<1>11. ASSUME StageEnds  PROVE ImageKept'
  BY <1>11 DEF StageEnds, At, Local, RunSet
<1>12. ASSUME StagesEnd  PROVE ImageKept'
  BY <1>12 DEF StagesEnd, At, Go, Local, RunSet
<1>13. ASSUME Unwind  PROVE ImageKept'
  BY <1>13 DEF Unwind, At, Go, Local, RunSet
<1>14. ASSUME NEW i \in Items, Pick(i)  PROVE ImageKept'
  BY <1>14, PartsTyped DEF Pick, At, Local, RunSet, PassKept, ItemsBehind, ItemInHand, Walking
<1>15. ASSUME Skip  PROVE ImageKept'
  BY <1>15 DEF Skip, At, HostedNow, Local, RunSet
<1>16. ASSUME Reconcile  PROVE ImageKept'
  BY <1>16 DEF Reconcile, At, Go, Failed, Local, RunSet
<1>17. ASSUME EnsureRepository  PROVE ImageKept'
  BY <1>17, StageFacts DEF EnsureRepository, At, HostedNow, I, Local, RunSet
<1>18. ASSUME Store  PROVE ImageKept'
  <2>1. KindOf[run.item] # "manifest" /\ run'.pc = "pick"
    BY <1>18 DEF Store, At, Go, Failed, I, RunSet
  <2>2. here' \in {here, here \cup {run.item}} /\ here \subseteq here'  BY <1>18 DEF Store, I
  <2> QED  BY <2>1, <2>2
<1>19. ASSUME CreateAccount  PROVE ImageKept'
  BY <1>19, StageFacts DEF CreateAccount, At, Go, I, Local, RunSet
<1>20. ASSUME SetGrants  PROVE ImageKept'
  BY <1>20 DEF SetGrants, At, Go, Local, RunSet
<1>21. ASSUME Alias  PROVE ImageKept'
  BY <1>21 DEF Alias, At, Go, Local, RunSet
<1>22. ASSUME RenamedFails  PROVE ImageKept'
  BY <1>22 DEF RenamedFails, At, Failed, Local, RunSet
<1>23. ASSUME NEW b \in Items, Transfer(b)  PROVE ImageKept'
  <2>1. /\ run.item \in Items /\ KindOf[run.item] = "manifest" /\ b \in run.need /\ Names[b] \cap run.need = {}
        /\ here' = here \cup {b} /\ linked' = linked
        /\ run'.need = run.need \ {b} /\ run'.item = run.item /\ run'.pc \in {"alias", "pick", "image"}
    BY <1>23 DEF Transfer, At, RunSet
  <2>2. KindOf[b] = "manifest" => Parts(b) \subseteq here  BY <2>1, WholeWhenFetched, <1>23 DEF Transfer, At
  <2>3. ManifestsWhole'  BY <2>1, <2>2
  <2>4. (Parts(run.item) \cup {run.item}) \ run'.need \subseteq here'  BY <2>1, <1>23 DEF Transfer, At
  <2> QED  BY <2>1, <2>3, <2>4, <1>23 DEF Transfer, At
<1>24. ASSUME ItemFails  PROVE ImageKept'
  BY <1>24 DEF ItemFails, Failed, Local, RunSet
<1>25. ASSUME End  PROVE ImageKept'
  BY <1>25 DEF End, At, Go, Local, RunSet
<1>26. ASSUME Settle  PROVE ImageKept'
  BY <1>26 DEF Settle, At, Go, Local, RunSet
<1>27. ASSUME Leave  PROVE ImageKept'
  BY <1>27 DEF Leave, At, NoRun, Local, RunSet
<1>28. ASSUME StartFails  PROVE ImageKept'
  BY <1>28 DEF StartFails, At, Go, Local, RunSet
<1>29. ASSUME ListFails  PROVE ImageKept'
  <2>1. run'.pc \in {"list", "pick"} /\ here' = here  BY <1>29 DEF ListFails, At, Local, RunSet
  <2> QED  BY <2>1
<1>30. ASSUME Panic  PROVE ImageKept'
  BY <1>30 DEF Panic, Go, Local, RunSet
<1>31. ASSUME Crash  PROVE ImageKept'
  BY <1>31 DEF Crash, NoRun, Local, RunSet
<1>32. ASSUME ResumeAll  PROVE ImageKept'
  BY <1>32 DEF ResumeAll, Launched, NoRun, At, Local, RunSet
<1>33. ASSUME ResumeAllFails  PROVE ImageKept'
  BY <1>33 DEF ResumeAllFails, Local
<1> QED  BY <1>1, <1>2, <1>3, <1>4, <1>5, <1>6, <1>7, <1>8, <1>9, <1>10, <1>11, <1>12, <1>13, <1>14, <1>15, <1>16, <1>17, <1>18, <1>19, <1>20, <1>21, <1>22, <1>23, <1>24, <1>25, <1>26, <1>27, <1>28, <1>29, <1>30, <1>31, <1>32, <1>33 DEF Next, Runner, Transferring

(* What a role or a user is granted, if no lookup fails. *)
LEMMA GrantsSet ==
  ASSUME ImportType, PassKept, SetGrants
  PROVE  run.item \in missed' \/ (Granted # {} => linked'[run.item] = Granted)
<1>1. run.item \in Items  BY ItemTyped DEF SetGrants, At, OnItem
<1>2. PICK silent \in SUBSET Granted :
        /\ linked' = IF Granted = silent THEN linked ELSE [linked EXCEPT ![run.item] = Granted \ silent]
        /\ missed' = IF silent = {} THEN missed \ {run.item} ELSE missed \cup {run.item}
  BY DEF SetGrants, I
<1>3. CASE silent = {}  BY <1>1, <1>2, <1>3 DEF ImportType
<1>4. CASE silent # {}  BY <1>2, <1>4
<1> QED  BY <1>3, <1>4

(* What has been brought stays: items are added only, and the grants of a role are
   replaced by all that are here, unless a lookup fails. *)
LEMMA BroughtStays ==
  ASSUME ImportConstants, ImportType, ImageKept, PassKept, DoneKept, Next
  PROVE  /\ here \subseteq here'
         /\ \A i \in Items : Brought(i) => Brought(i)'
         /\ \A k \in 1..7 : BroughtStage(k) => BroughtStage(k)'
<1> DEFINE Grants == /\ here \subseteq here'
                     /\ \A i \in Items : KindOf[i] = "role" /\ effective(i) \subseteq here /\ (i \in missed \/ effective(i) \subseteq linked[i])
                          => i \in missed' \/ effective(i) \subseteq linked'[i]
<1>1. ASSUME UNCHANGED Local  PROVE Grants  BY <1>1 DEF Local
<1>2. ASSUME EnsureRepository  PROVE Grants
  <2>1. KindOf[run.item] # "role"  BY <1>2, StageFacts DEF EnsureRepository, I
  <2>2. \A i \in Items : KindOf[i] = "role" => linked'[i] = linked[i]
    BY <1>2, <2>1 DEF EnsureRepository, I, ImportType
  <2> QED  BY <1>2, <2>2 DEF EnsureRepository
<1>3. ASSUME Store  PROVE Grants  BY <1>3 DEF Store
<1>4. ASSUME CreateAccount  PROVE Grants  BY <1>4 DEF CreateAccount
<1>5. ASSUME SetGrants  PROVE Grants
  <2>1. here' = here /\ \A i \in Items \ {run.item} : linked'[i] = linked[i] /\ (i \in missed <=> i \in missed')
    BY <1>5 DEF SetGrants, I, ImportType
  <2>2. run.item \in missed' \/ (Granted # {} => linked'[run.item] = Granted)  BY <1>5, GrantsSet
  <2>3. KindOf[run.item] = "role" /\ effective(run.item) \subseteq here => effective(run.item) = Granted  BY DEF Granted, I
  <2> QED  BY <2>1, <2>2, <2>3
<1>6. ASSUME Alias  PROVE Grants
  <2>1. KindOf[run.item] # "role" /\ here' = here  BY <1>6 DEF Alias, ImageKept, At
  <2>2. \A i \in Items : KindOf[i] = "role" => linked'[i] = linked[i]
    BY <1>6, <2>1 DEF Alias, I, ImportType
  <2> QED  BY <1>6, <2>1, <2>2 DEF Alias
<1>7. ASSUME NEW b \in Items, Transfer(b)  PROVE Grants  BY <1>7 DEF Transfer
<1>8. Grants
  BY <1>1, <1>2, <1>3, <1>4, <1>5, <1>6, <1>7
  DEF Next, Runner, Transferring, Create, Resume, Launch, PauseRead, PauseCancels, PauseParks, PauseReturns, Delete,
      Start, List, StageEnds, StagesEnd, Unwind, Pick, Skip, Reconcile, RenamedFails, ItemFails, End, Settle, Leave,
      StartFails, ListFails, Panic, Crash, ResumeAll, ResumeAllFails, Local
<1>9. \A i \in Items : Brought(i) => Brought(i)'  BY <1>8 DEF Brought
<1> QED  BY <1>8, <1>9 DEF BroughtStage, Of

(* The item in hand is done with, and brought unless an error is counted. *)
LEMMA ItemDone ==
  ASSUME ImportType, PassKept, run.pc \in OnItem,
         \A i \in Items : Brought(i) => Brought(i)', \A k \in 1..7 : BroughtStage(k) => BroughtStage(k)',
         run'.pc = "pick", run'.item = run.item, run'.stage = run.stage, run'.todo = run.todo, run'.hard = run.hard,
         run.hosted \subseteq run'.hosted, ~run'.errors => ~run.errors,
         NoErrorYet' => Brought(run.item)' /\ (KindOf[run.item] = "hosted" => run.item \in run'.hosted)
  PROVE  PassKept'
<1>1. StagesBehind'  BY DEF PassKept, StagesBehind, HostedKnown, NoErrorYet, Walking, OnItem
<1>2. ItemsBehind'  BY DEF PassKept, ItemsBehind, NoErrorYet, Walking, OnItem, Stage, Of
<1> QED  BY <1>1, <1>2 DEF PassKept, ItemInHand, OnItem, At

(* A pass has brought what it has behind it. *)
LEMMA PassStays ==
  ASSUME ImportConstants, ImportType, RunnerBehind, ImageKept, PassKept, DoneKept, Next
  PROVE  PassKept'
<1> USE DEF ImportType
<1>0. /\ \A i \in Items : Brought(i) => Brought(i)'
      /\ \A k \in 1..7 : BroughtStage(k) => BroughtStage(k)'
  BY BroughtStays
<1>1. ASSUME NEW a \in Admins, Create(a)  PROVE PassKept'
  BY <1>1, <1>0 DEF Create, Local, PassKept, StagesBehind, ItemsBehind, ItemInHand, HostedKnown, NoErrorYet, Stage, Walking, OnItem, At, RunSet, Of, JobSet
<1>2. ASSUME NEW a \in Admins, Resume(a)  PROVE PassKept'
  BY <1>2, <1>0 DEF Resume, Local, PassKept, StagesBehind, ItemsBehind, ItemInHand, HostedKnown, NoErrorYet, Stage, Walking, OnItem, At, RunSet, Of, JobSet
<1>3. ASSUME NEW a \in Admins, Launch(a)  PROVE PassKept'
  BY <1>3, <1>0 DEF Launch, Launched, NoRun, Local, PassKept, StagesBehind, ItemsBehind, ItemInHand, HostedKnown, NoErrorYet, Stage, Walking, OnItem, At, RunSet, Of, JobSet
<1>4. ASSUME NEW a \in Admins, PauseRead(a)  PROVE PassKept'
  BY <1>4, <1>0 DEF PauseRead, Local, PassKept, StagesBehind, ItemsBehind, ItemInHand, HostedKnown, NoErrorYet, Stage, Walking, OnItem, At, RunSet, Of, JobSet
<1>5. ASSUME NEW a \in Admins, PauseCancels(a)  PROVE PassKept'
  BY <1>5, <1>0 DEF PauseCancels, Local, PassKept, StagesBehind, ItemsBehind, ItemInHand, HostedKnown, NoErrorYet, Stage, Walking, OnItem, At, RunSet, Of, JobSet
<1>6. ASSUME NEW a \in Admins, PauseParks(a)  PROVE PassKept'
  BY <1>6, <1>0 DEF PauseParks, Write, Local, PassKept, StagesBehind, ItemsBehind, ItemInHand, HostedKnown, NoErrorYet, Stage, Walking, OnItem, At, RunSet, Of, JobSet
<1>7. ASSUME NEW a \in Admins, PauseReturns(a)  PROVE PassKept'
  BY <1>7, <1>0 DEF PauseReturns, Local, PassKept, StagesBehind, ItemsBehind, ItemInHand, HostedKnown, NoErrorYet, Stage, Walking, OnItem, At, RunSet, Of, JobSet
<1>8. ASSUME NEW a \in Admins, Delete(a)  PROVE PassKept'
  BY <1>8, <1>0 DEF Delete, Local, PassKept, StagesBehind, ItemsBehind, ItemInHand, HostedKnown, NoErrorYet, Stage, Walking, OnItem, At, RunSet, Of, JobSet
<1>9. ASSUME Start  PROVE PassKept'
  BY <1>9, <1>0 DEF Start, Go, Local, PassKept, StagesBehind, ItemsBehind, ItemInHand, HostedKnown, NoErrorYet, Stage, Walking, OnItem, At, RunSet, Of, JobSet
<1>10. ASSUME List  PROVE PassKept'
  <2>1. Local' = Local /\ job' = job /\ run.stage <= 7 /\ run.pc = "list"  BY <1>10, StageFacts DEF List, At, Local
  <2>2. ASSUME NoErrorYet, Stage = "blobs", Stage \in Scope, NEW i \in Of(Stage)
        PROVE  RepoOf(i) \in run.hosted
    <3>1. run.stage = 2  BY <2>1, <2>2, StageFacts DEF Stage, RunSet
    <3>2. HostedKnown  BY <3>1, <2>1, <2>2 DEF PassKept, StagesBehind, Walking
    <3>3. RepoOf(i) \in Names[i] /\ KindOf[RepoOf(i)] = "hosted"  BY <2>2 DEF RepoOf, ImportConstants
    <3>4. RepoOf(i) \in Items  BY <3>3, <2>2 DEF ImportConstants, Of
    <3> QED  BY <3>2, <3>3, <3>4, <2>2 DEF HostedKnown, ImportConstants
  <2>3. CASE Asked
    <3>1. /\ run'.pc = "pick" /\ run'.stage = run.stage /\ run'.errors = run.errors /\ run'.hard = run.hard /\ run'.hosted = run.hosted
          /\ run'.todo = {i \in Of(Stage) : Stage = "blobs" => RepoOf(i) \in run.hosted}
      BY <2>1, <2>3, <1>10 DEF List, RunSet
    <3>2. NoErrorYet => Of(Stage) \subseteq run'.todo  BY <3>1, <2>2, <2>3 DEF Asked
    <3>3. StagesBehind'  BY <3>1, <2>1, <1>0 DEF PassKept, StagesBehind, HostedKnown, NoErrorYet, Walking
    <3>4. ItemsBehind'  BY <3>1, <3>2, <2>1, <2>3 DEF ItemsBehind, Asked, Stage, NoErrorYet
    <3> QED  BY <3>1, <3>3, <3>4 DEF PassKept, ItemInHand, OnItem, At
  <2>4. CASE ~Asked
    <3>1. /\ run'.pc = "list" /\ run'.stage = run.stage + 1 /\ run'.errors = run.errors /\ run'.hard = run.hard
          /\ run'.hosted = run.hosted
      BY <2>1, <2>4, <1>10 DEF List, RunSet
    <3>2. NoErrorYet => BroughtStage(run.stage)
      <4>1. SUFFICES ASSUME NoErrorYet, Stage \in Scope, NEW i \in Of(Stage)  PROVE FALSE  BY DEF BroughtStage, Stage
      <4> QED  BY <4>1, <2>2, <2>4 DEF Asked
    <3>3. NoErrorYet => HostedKnown
      <4>1. CASE run.stage = 1  BY <4>1, <2>4, StageFacts DEF Asked, Stage, HostedKnown
      <4>2. CASE run.stage > 1  BY <4>2, <2>1 DEF PassKept, StagesBehind, Walking
      <4> QED  BY <4>1, <4>2 DEF RunSet
    <3>4. StagesBehind'
      <4>1. \A k \in 1..7 : k < run.stage + 1 => k < run.stage \/ k = run.stage  BY DEF RunSet
      <4>2. ASSUME NoErrorYet, NEW k \in 1..7, k < run.stage + 1  PROVE BroughtStage(k)'
        BY <4>1, <4>2, <3>2, <2>1, <1>0 DEF PassKept, StagesBehind, Walking
      <4> QED  BY <3>1, <3>3, <4>2 DEF StagesBehind, HostedKnown, NoErrorYet
    <3> QED  BY <3>1, <3>4 DEF PassKept, ItemsBehind, ItemInHand, OnItem, At
  <2> QED  BY <2>3, <2>4
<1>11. ASSUME StageEnds  PROVE PassKept'
  <2>1. /\ run.pc = "pick" /\ run.todo = {} /\ run'.pc = "list" /\ run'.stage = run.stage + 1
        /\ run'.errors = run.errors /\ run'.hard = run.hard /\ run'.hosted = run.hosted
    BY <1>11 DEF StageEnds, At, RunSet
  <2>2. NoErrorYet => \A i \in Of(Stage) : Brought(i) /\ (KindOf[i] = "hosted" => i \in run.hosted)
    BY <2>1 DEF PassKept, ItemsBehind, Walking, OnItem
  <2>3. NoErrorYet => BroughtStage(run.stage)  BY <2>2 DEF BroughtStage, Stage
  <2>4. NoErrorYet => HostedKnown
    <3>1. CASE run.stage = 1  BY <3>1, <2>2, StageFacts DEF Stage, HostedKnown, Of
    <3>2. CASE run.stage > 1  BY <3>2, <2>1 DEF PassKept, StagesBehind, Walking
    <3> QED  BY <3>1, <3>2 DEF RunSet
  <2>5. StagesBehind'
    <3>1. \A k \in 1..7 : k < run.stage + 1 => k < run.stage \/ k = run.stage  BY DEF RunSet
    <3>2. ASSUME NoErrorYet, NEW k \in 1..7, k < run.stage + 1  PROVE BroughtStage(k)'
      BY <3>1, <3>2, <2>1, <2>3, <1>0 DEF PassKept, StagesBehind, Walking
    <3> QED  BY <2>1, <2>4, <3>2 DEF StagesBehind, HostedKnown, NoErrorYet
  <2> QED  BY <2>1, <2>5 DEF PassKept, ItemsBehind, ItemInHand, OnItem, At
<1>12. ASSUME StagesEnd  PROVE PassKept'
  <2>1. run.pc = "list" /\ run.stage > 7 /\ run'.pc = "end" /\ job'.errors = run.errors /\ run'.errors = run.errors /\ run'.hard = run.hard
    BY <1>12, StageFacts DEF StagesEnd, At, Go, RunSet, JobSet
  <2>2. NoErrorYet => \A k \in 1..7 : BroughtStage(k)'  BY <2>1, <1>0 DEF PassKept, StagesBehind, Walking, RunSet
  <2> QED  BY <2>1, <2>2 DEF PassKept, StagesBehind, ItemsBehind, ItemInHand, NoErrorYet, Walking, OnItem, At
<1>13. ASSUME Unwind  PROVE PassKept'
  BY <1>13, <1>0 DEF Unwind, Go, Local, PassKept, StagesBehind, ItemsBehind, ItemInHand, HostedKnown, NoErrorYet, Stage, Walking, OnItem, At, RunSet, Of, JobSet
<1>14. ASSUME NEW i \in Items, Pick(i)  PROVE PassKept'
  BY <1>14, <1>0 DEF Pick, Local, PassKept, StagesBehind, ItemsBehind, ItemInHand, HostedKnown, NoErrorYet, Stage, Walking, OnItem, At, RunSet, Of, JobSet
<1>15. ASSUME Skip  PROVE PassKept'
  <2>1. /\ run.pc = "item" /\ run'.pc = "pick" /\ run'.stage = run.stage /\ run'.todo = run.todo /\ run'.hard = run.hard /\ run'.item = run.item
        /\ run'.errors = run.errors /\ run.hosted \subseteq run'.hosted /\ (KindOf[run.item] = "hosted" => run.item \in run'.hosted)
    BY <1>15 DEF Skip, At, I, HostedNow, RunSet
  <2>2. Brought(run.item)  BY <1>15 DEF Skip, At, I, Brought, PassKept, ItemInHand
  <2>3. run.item \in Items  BY <2>1, ItemTyped DEF OnItem
  <2> QED  BY <2>1, <2>2, <2>3, <1>0, ItemDone DEF OnItem
<1>16. ASSUME Reconcile  PROVE PassKept'
  <2>1. /\ run.pc = "item" /\ run'.pc = "pick" /\ run'.stage = run.stage /\ run'.todo = run.todo /\ run'.hard = run.hard /\ run'.item = run.item
        /\ (~run'.errors => ~run.errors) /\ run'.hosted = run.hosted /\ KindOf[run.item] = "loose"
    BY <1>16 DEF Reconcile, At, I, Go, Failed, RunSet
  <2>2. Brought(run.item)'  BY <2>1 DEF Brought
  <2> QED  BY <2>1, <2>2, <1>0, ItemDone DEF OnItem
<1>17. ASSUME EnsureRepository  PROVE PassKept'
  <2>1. /\ run.pc = "item" /\ run'.pc = "pick" /\ run'.stage = run.stage /\ run'.todo = run.todo /\ run'.hard = run.hard /\ run'.item = run.item
        /\ (~run'.errors => ~run.errors) /\ run.hosted \subseteq run'.hosted
        /\ (KindOf[run.item] = "hosted" => run.item \in run'.hosted)
    BY <1>17 DEF EnsureRepository, At, I, HostedNow, RunSet
  <2>2. Brought(run.item)'  BY <1>17, StageFacts DEF EnsureRepository, I, Brought
  <2> QED  BY <2>1, <2>2, <1>0, ItemDone DEF OnItem
<1>18. ASSUME Store  PROVE PassKept'
  <2>1. /\ run.pc = "item" /\ run'.pc = "pick" /\ run'.stage = run.stage /\ run'.todo = run.todo /\ run'.hard = run.hard /\ run'.item = run.item
        /\ (~run'.errors => ~run.errors) /\ run'.hosted = run.hosted /\ KindOf[run.item] \in {"asset", "selector", "privilege", "rule"}
    <3>1. CASE run' = [run EXCEPT !.pc = "pick", !.errors = TRUE]  BY <3>1, <1>18 DEF Store, At, I, RunSet
    <3>2. CASE run' = [run EXCEPT !.pc = "pick"]  BY <3>2, <1>18 DEF Store, At, I, RunSet
    <3> QED  BY <1>18, <3>1, <3>2 DEF Store, Failed, Go
  <2>2. ASSUME ~run'.errors PROVE Brought(run.item)'
    <3>1. here' = here \cup {run.item}  BY <1>18, <2>2 DEF Store, I, Failed, RunSet
    <3> QED  BY <2>1, <3>1 DEF Brought
  <2> QED  BY <2>1, <2>2, <1>0, ItemDone DEF OnItem, NoErrorYet
<1>19. ASSUME CreateAccount  PROVE PassKept'
  BY <1>19, <1>0 DEF CreateAccount, Go, Local, PassKept, StagesBehind, ItemsBehind, ItemInHand, HostedKnown, NoErrorYet, Stage, Walking, OnItem, At, RunSet, Of, JobSet, I
<1>20. ASSUME SetGrants  PROVE PassKept'
  <2>1. /\ run.pc = "link" /\ run'.pc = "pick" /\ run'.stage = run.stage /\ run'.todo = run.todo /\ run'.hard = run.hard /\ run'.item = run.item
        /\ run'.errors = run.errors /\ run'.hosted = run.hosted /\ here' = here
    BY <1>20 DEF SetGrants, At, I, Go, RunSet
  <2>2. run.item \in Items /\ run.item \in here /\ KindOf[run.item] \in {"role", "user"} /\ KindOf[run.item] \in KindsOf[Stage] /\ run.stage <= 7
    BY <2>1, ItemTyped DEF PassKept, ItemInHand, At, OnItem
  <2>3. ASSUME NoErrorYet, KindOf[run.item] = "role", "privileges" \in Scope  PROVE effective(run.item) \subseteq here
    <3>1. run.stage \in 1..7 /\ Stages[run.stage] = Stage  BY <2>2 DEF RunSet, Stage
    <3>2. run.stage = 5  BY <3>1, <2>2, <2>3, StageFacts
    <3>3. BroughtStage(4)  BY <3>2, <2>1, <2>3 DEF PassKept, StagesBehind, Walking
    <3>4. \A p \in Of("privileges") : p \in here  BY <3>3, <2>3, StageFacts DEF BroughtStage, Brought, Of
    <3>5. effective(run.item) \subseteq Of("privileges")  BY <2>2, ReachClosed, StageFacts DEF effective, Under, Of
    <3> QED  BY <3>4, <3>5
  <2>4. KindOf[run.item] = "role" /\ effective(run.item) \subseteq here =>
          run.item \in missed' \/ effective(run.item) \subseteq linked'[run.item]
    <3>1. run.item \in missed' \/ (Granted # {} => linked'[run.item] = Granted)  BY <1>20, GrantsSet
    <3> QED  BY <3>1 DEF Granted, I
  <2>5. NoErrorYet => Brought(run.item)'  BY <2>1, <2>2, <2>3, <2>4 DEF Brought
  <2> QED  BY <2>1, <2>2, <2>5, <1>0, ItemDone DEF OnItem, NoErrorYet
<1>21. ASSUME Alias  PROVE PassKept'
  <2>1. /\ run.pc = "alias" /\ run'.pc = (IF run.need = {} THEN "pick" ELSE "image") /\ run'.stage = run.stage /\ run'.todo = run.todo
        /\ run'.hard = run.hard /\ run'.item = run.item /\ run'.errors = run.errors /\ run'.hosted = run.hosted /\ here' = here
    BY <1>21 DEF Alias, At, Go, RunSet
  <2>2. CASE run.need = {}
    <3>1. run.item \in Items /\ KindOf[run.item] = "manifest" /\ Parts(run.item) \cup {run.item} \subseteq here
      BY <2>1, <2>2 DEF ImageKept
    <3>2. Brought(run.item)  BY <3>1 DEF Brought
    <3> QED  BY <2>1, <2>2, <3>1, <3>2, <1>0, ItemDone DEF OnItem
  <2>3. CASE run.need # {}
    BY <2>1, <2>3, <1>0 DEF PassKept, StagesBehind, ItemsBehind, ItemInHand, HostedKnown, NoErrorYet, Stage, Walking, OnItem, At, Of
  <2> QED  BY <2>2, <2>3
<1>22. ASSUME RenamedFails  PROVE PassKept'
  BY <1>22, <1>0 DEF RenamedFails, Failed, Local, PassKept, StagesBehind, ItemsBehind, ItemInHand, HostedKnown, NoErrorYet, Stage, Walking, OnItem, At, RunSet, Of, JobSet
<1>23. ASSUME NEW b \in Items, Transfer(b)  PROVE PassKept'
  <2>1. /\ run.pc = "image" /\ run'.pc \in {"alias", "pick", "image"} /\ run'.stage = run.stage /\ run'.todo = run.todo
        /\ run'.hard = run.hard /\ run'.item = run.item /\ run'.errors = run.errors /\ run'.hosted = run.hosted
        /\ here' = here \cup {b} /\ (run'.pc = "pick" => run.need = {b})
    BY <1>23 DEF Transfer, At, RunSet
  <2>2. CASE run'.pc = "pick"
    <3>1. run.item \in Items /\ KindOf[run.item] = "manifest" /\ Parts(run.item) \cup {run.item} \subseteq here'
      BY <2>1, <2>2 DEF ImageKept
    <3>2. Brought(run.item)'  BY <3>1, <2>1 DEF Brought
    <3> QED  BY <2>1, <2>2, <3>1, <3>2, <1>0, ItemDone DEF OnItem
  <2>3. CASE run'.pc # "pick"
    BY <2>1, <2>3, <1>0 DEF PassKept, StagesBehind, ItemsBehind, ItemInHand, HostedKnown, NoErrorYet, Stage, Walking, OnItem, At, Of
  <2> QED  BY <2>2, <2>3
<1>24. ASSUME ItemFails  PROVE PassKept'
  BY <1>24, <1>0 DEF ItemFails, Failed, Local, PassKept, StagesBehind, ItemsBehind, ItemInHand, HostedKnown, NoErrorYet, Stage, Walking, OnItem, At, RunSet, Of, JobSet
<1>25. ASSUME End  PROVE PassKept'
  BY <1>25, <1>0 DEF End, Go, Write, Local, PassKept, StagesBehind, ItemsBehind, ItemInHand, HostedKnown, NoErrorYet, Stage, Walking, OnItem, At, RunSet, Of, JobSet
<1>26. ASSUME Settle  PROVE PassKept'
  BY <1>26, <1>0 DEF Settle, Go, Write, Local, PassKept, StagesBehind, ItemsBehind, ItemInHand, HostedKnown, NoErrorYet, Stage, Walking, OnItem, At, RunSet, Of, JobSet
<1>27. ASSUME Leave  PROVE PassKept'
  BY <1>27, <1>0 DEF Leave, NoRun, Local, PassKept, StagesBehind, ItemsBehind, ItemInHand, HostedKnown, NoErrorYet, Stage, Walking, OnItem, At, RunSet, Of, JobSet
<1>28. ASSUME StartFails  PROVE PassKept'
  BY <1>28, <1>0 DEF StartFails, Go, Local, PassKept, StagesBehind, ItemsBehind, ItemInHand, HostedKnown, NoErrorYet, Stage, Walking, OnItem, At, RunSet, Of, JobSet
<1>29. ASSUME ListFails  PROVE PassKept'
  <2>1. run.pc = "list" /\ run.stage <= 7 /\ Stage \in Scope  BY <1>29, StageFacts DEF ListFails, At, Asked
  <2>2. CASE Stage = "blobs"
    <3>1. /\ run'.pc = "pick" /\ run'.stage = run.stage /\ run'.errors /\ run'.todo \subseteq Of(Stage)
      <4>1. PICK some \in SUBSET run.hosted :
               run' = [run EXCEPT !.pc = "pick", !.todo = {i \in Of(Stage) : RepoOf(i) \in some}, !.errors = TRUE]
        BY <1>29, <2>2 DEF ListFails
      <4> QED  BY <4>1 DEF RunSet
    <3> QED  BY <2>1, <3>1 DEF PassKept, StagesBehind, ItemsBehind, ItemInHand, NoErrorYet, Stage, OnItem, At, Of
  <2>3. CASE Stage # "blobs"
    <3>1. run'.pc = "list" /\ run'.hard  BY <1>29, <2>3 DEF ListFails, At, RunSet
    <3> QED  BY <3>1 DEF PassKept, StagesBehind, ItemsBehind, ItemInHand, NoErrorYet, OnItem, At
  <2> QED  BY <2>2, <2>3
<1>30. ASSUME Panic  PROVE PassKept'
  BY <1>30, <1>0 DEF Panic, Go, Local, PassKept, StagesBehind, ItemsBehind, ItemInHand, HostedKnown, NoErrorYet, Stage, Walking, OnItem, At, RunSet, Of, JobSet
<1>31. ASSUME Crash  PROVE PassKept'
  BY <1>31, <1>0 DEF Crash, NoRun, Local, PassKept, StagesBehind, ItemsBehind, ItemInHand, HostedKnown, NoErrorYet, Stage, Walking, OnItem, At, RunSet, Of, JobSet
<1>32. ASSUME ResumeAll  PROVE PassKept'
  <2>1. run' \in {[NoRun EXCEPT !.pc = "start"], run} /\ UNCHANGED <<job, here, linked>>
    BY <1>32, FreshRecords DEF ResumeAll, Local
  <2>2. CASE run' = run
    BY <2>1, <2>2, <1>0 DEF PassKept, StagesBehind, ItemsBehind, ItemInHand, HostedKnown, NoErrorYet, Stage, At, Of
  <2>3. CASE run' = [NoRun EXCEPT !.pc = "start"]
    BY <2>3 DEF PassKept, StagesBehind, ItemsBehind, ItemInHand, NoRun, Walking, OnItem, At
  <2> QED  BY <2>1, <2>2, <2>3
<1>33. ASSUME ResumeAllFails  PROVE PassKept'
  BY <1>33, <1>0 DEF ResumeAllFails, Local, PassKept, StagesBehind, ItemsBehind, ItemInHand, HostedKnown, NoErrorYet, Stage, At, Of
<1> QED  BY <1>1, <1>2, <1>3, <1>4, <1>5, <1>6, <1>7, <1>8, <1>9, <1>10, <1>11, <1>12, <1>13, <1>14, <1>15, <1>16, <1>17, <1>18, <1>19, <1>20, <1>21, <1>22, <1>23, <1>24, <1>25, <1>26, <1>27, <1>28, <1>29, <1>30, <1>31, <1>32, <1>33 DEF Next, Runner, Transferring

(* What a job that is done has brought stays. *)
LEMMA DoneStays ==
  ASSUME ImportConstants, ImportType, RunnerBehind, ImageKept, PassKept, DoneKept, Next
  PROVE  DoneKept'
<1> USE DEF ImportType
<1>0. \A k \in 1..7 : BroughtStage(k) => BroughtStage(k)'  BY BroughtStays
<1> DEFINE Done == job'.status = "done" /\ ~job'.errors => \A k \in 1..7 : BroughtStage(k)
<1>1. ASSUME NEW a \in Admins, Create(a)  PROVE Done
  BY <1>1 DEF Create, Local, JobSet, DoneKept
<1>2. ASSUME NEW a \in Admins, Resume(a)  PROVE Done
  BY <1>2 DEF Resume, Local, JobSet, DoneKept
<1>3. ASSUME NEW a \in Admins, Launch(a)  PROVE Done
  BY <1>3 DEF Launch, At, Local, JobSet, DoneKept
<1>4. ASSUME NEW a \in Admins, PauseRead(a)  PROVE Done
  BY <1>4 DEF PauseRead, Deleted, Local, JobSet, DoneKept
<1>5. ASSUME NEW a \in Admins, PauseCancels(a)  PROVE Done
  BY <1>5 DEF PauseCancels, At, Local, JobSet, DoneKept
<1>6. ASSUME NEW a \in Admins, PauseParks(a)  PROVE Done
  BY <1>6 DEF PauseParks, At, Write, Fault, Deleted, Local, JobSet, DoneKept
<1>7. ASSUME NEW a \in Admins, PauseReturns(a)  PROVE Done
  BY <1>7 DEF PauseReturns, Local, JobSet, DoneKept
<1>8. ASSUME NEW a \in Admins, Delete(a)  PROVE Done
  BY <1>8 DEF Delete, Local, JobSet, DoneKept
<1>9. ASSUME Start  PROVE Done
  BY <1>9 DEF Start, At, Go, Deleted, Fault, Local, JobSet, DoneKept, RunnerBehind, Walking
<1>10. ASSUME List  PROVE Done
  BY <1>10 DEF List, At, Asked, Local, JobSet, DoneKept
<1>11. ASSUME StageEnds  PROVE Done
  BY <1>11 DEF StageEnds, At, Local, JobSet, DoneKept
<1>12. ASSUME StagesEnd  PROVE Done
  BY <1>12 DEF StagesEnd, At, Go, Local, JobSet, DoneKept, RunnerBehind, Walking
<1>13. ASSUME Unwind  PROVE Done
  BY <1>13 DEF Unwind, At, Go, Local, JobSet, DoneKept
<1>14. ASSUME NEW i \in Items, Pick(i)  PROVE Done
  BY <1>14 DEF Pick, At, Local, JobSet, DoneKept
<1>15. ASSUME Skip  PROVE Done
  BY <1>15 DEF Skip, At, Local, JobSet, DoneKept
<1>16. ASSUME Reconcile  PROVE Done
  BY <1>16 DEF Reconcile, At, Go, Failed, Local, JobSet, DoneKept
<1>17. ASSUME EnsureRepository  PROVE Done
  BY <1>17 DEF EnsureRepository, At, Local, JobSet, DoneKept
<1>18. ASSUME Store  PROVE Done
  BY <1>18 DEF Store, At, Go, Failed, Local, JobSet, DoneKept
<1>19. ASSUME CreateAccount  PROVE Done
  BY <1>19 DEF CreateAccount, At, Go, Local, JobSet, DoneKept
<1>20. ASSUME SetGrants  PROVE Done
  BY <1>20 DEF SetGrants, At, Go, Local, JobSet, DoneKept
<1>21. ASSUME Alias  PROVE Done
  BY <1>21 DEF Alias, At, Go, Local, JobSet, DoneKept
<1>22. ASSUME RenamedFails  PROVE Done
  BY <1>22 DEF RenamedFails, At, Failed, Local, JobSet, DoneKept
<1>23. ASSUME NEW b \in Items, Transfer(b)  PROVE Done
  BY <1>23 DEF Transfer, At, Local, JobSet, DoneKept
<1>24. ASSUME ItemFails  PROVE Done
  BY <1>24 DEF ItemFails, Failed, Local, JobSet, DoneKept
<1>25. ASSUME End  PROVE Done
  BY <1>25 DEF End, At, Go, Write, Fault, Deleted, Local, JobSet, DoneKept, PassKept, NoErrorYet, RunSet
<1>26. ASSUME Settle  PROVE Done
  BY <1>26 DEF Settle, At, Go, Write, Fault, Deleted, Local, JobSet, DoneKept
<1>27. ASSUME Leave  PROVE Done
  BY <1>27 DEF Leave, At, Local, JobSet, DoneKept
<1>28. ASSUME StartFails  PROVE Done
  BY <1>28 DEF StartFails, At, Go, Deleted, Local, JobSet, DoneKept
<1>29. ASSUME ListFails  PROVE Done
  <2>1. job' = job \/ job'.errors  BY <1>29 DEF ListFails, JobSet
  <2> QED  BY <2>1 DEF DoneKept
<1>30. ASSUME Panic  PROVE Done
  BY <1>30 DEF Panic, Fault, Go, Local, JobSet, DoneKept
<1>31. ASSUME Crash  PROVE Done
  BY <1>31 DEF Crash, Local, JobSet, DoneKept
<1>32. ASSUME ResumeAll  PROVE Done
  BY <1>32 DEF ResumeAll, At, Local, JobSet, DoneKept
<1>33. ASSUME ResumeAllFails  PROVE Done
  BY <1>33 DEF ResumeAllFails, DoneKept
<1>34. Done  BY <1>1, <1>2, <1>3, <1>4, <1>5, <1>6, <1>7, <1>8, <1>9, <1>10, <1>11, <1>12, <1>13, <1>14, <1>15, <1>16, <1>17, <1>18, <1>19, <1>20, <1>21, <1>22, <1>23, <1>24, <1>25, <1>26, <1>27, <1>28, <1>29, <1>30, <1>31, <1>32, <1>33 DEF Next, Runner, Transferring
<1> QED  BY <1>0, <1>34 DEF DoneKept

----------------------------------------------------------------------------
LEMMA ImportInit ==
  ASSUME ImportConstants, Init
  PROVE  ImportInv
<1>1. ImportType
  <2>1. job \in JobSet  BY DEF Init, JobSet, Statuses
  <2>2. budget \in BudgetSet  BY DEF Init, BudgetSet, ImportConstants
  <2>3. run \in RunSet /\ admin \in [Admins -> RequestSet]  BY FreshRecords DEF Init
  <2> QED  BY <2>1, <2>2, <2>3 DEF Init, ImportType
<1>2. RunnerBehind  BY DEF Init, RunnerBehind, NoWedge, NoRun, NoRequest, At, IsActive, Walking
<1>3. ImageKept /\ DoneKept  BY DEF Init, ImageKept, ManifestsWhole, DoneKept, NoRun
<1>4. PassKept  BY DEF Init, PassKept, StagesBehind, ItemsBehind, ItemInHand, NoRun, At, Walking, OnItem
<1> QED  BY <1>1, <1>2, <1>3, <1>4 DEF ImportInv

LEMMA ImportStep ==
  ASSUME ImportConstants, ImportInv, [Next]_vars
  PROVE  ImportInv'
<1>1. CASE Next
  BY <1>1, TypeKept, RunnerKept, ImageStays, PassStays, DoneStays DEF ImportInv
<1>2. CASE UNCHANGED vars
  BY <1>2 DEF vars, ImportInv, ImportType, RunnerBehind, NoWedge, ImageKept, ManifestsWhole, PassKept, StagesBehind,
     ItemsBehind, ItemInHand, HostedKnown, NoErrorYet, DoneKept, BroughtStage, Brought, Stage, At
<1> QED  BY <1>1, <1>2

LEMMA ImportImplies ==
  ASSUME ImportConstants, ImportInv
  PROVE  ImportSound
<1>1. NoWedge /\ ManifestsWhole  BY DEF ImportInv, RunnerBehind, ImageKept
<1>2. ASSUME job.status = "done", ~job.errors, NEW st \in Scope, NEW i \in Of(st), KindOf[i] # "loose"
      PROVE  /\ i \in here /\ (KindOf[i] = "manifest" => Parts(i) \subseteq here)
             /\ KindOf[i] = "role" /\ "privileges" \in Scope /\ i \notin missed => effective(i) \subseteq linked[i]
  <2>1. PICK k \in 1..7 : Stages[k] = st  BY <1>2 DEF ImportConstants
  <2>2. BroughtStage(k)  BY <1>2 DEF ImportInv, DoneKept
  <2> QED  BY <2>1, <2>2, <1>2 DEF BroughtStage, Brought
<1> QED  BY <1>1, <1>2 DEF ImportSound, DoneIsPresent

(* Invariant of the specification: the types of the job, its runner and the requests
   of the administrators, and what the import keeps. *)
THEOREM ImportKeeps == ASSUME ImportConstants PROVE Spec => []ImportInv
<1>1. Init => ImportInv  BY ImportInit
<1>2. ImportInv /\ [Next]_vars => ImportInv'  BY ImportStep
<1> QED  BY <1>1, <1>2, PTL DEF Spec

(* An active import has a runner behind it, through pauses, crashes and one panic or
   failed write of its status, unless the last start could not list the jobs; no
   manifest is here before its blobs and children; and a job that is done without an
   error counted has brought every item of its scope that a listing of the source names
   and has granted each role what it resolves to, unless a lookup of one of its
   privileges failed (nexus_migration_service.go), for any source and administrators. *)
THEOREM ImportsSound == ASSUME ImportConstants PROVE Spec => []ImportSound
<1>1. ImportInv => ImportSound  BY ImportImplies
<1> QED  BY <1>1, ImportKeeps, PTL
=============================================================================
