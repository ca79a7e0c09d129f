---------------------- MODULE BlobStoreMigrationProofs ----------------------
(* Rows are served the bytes last stored under their key while a repository moves
   from store to store, for any number of servers, migrations, stores, clients and
   uploads, with failures, crashes and restarts.

   RowsServeLatest speaks of rows and objects only.  The induction also needs to know
   that every copy of a key is one of the last bytes, that a request between its
   bytes and its row keeps them in place, and what the goroutine's place in its loop
   has established: a copy it is to make is of the last bytes and no row is in the
   target yet, a key it is to flip is in the target, no row names the copy it is to
   drop, and nobody stores the key in its hand. *)
EXTENDS BlobStoreMigration, TLAPS

(* From the choice of a row to the end of what is done about it. *)
InHandPC == {"exists", "read", "put", "recheck", "flipLock", "flipSize", "flip", "count", "drop"}

MigrationRows == [Migrations -> [status : Status, target : Stores]]

MigType ==
    /\ obj \in [Stores -> [Keys -> Contents \cup {None}]]
    /\ row \in [Paths -> Row \cup {None}]
    /\ repoStore \in Stores
    /\ mig \in MigrationRows
    /\ run \in [Migrations -> Run]
    /\ client \in [Clients -> Request]
    /\ writes \in 0 .. MaxWrites
    /\ last \in [Keys -> Contents \cup {None}]
    /\ contested \subseteq Keys

(* A goroutine works on a migration that is recorded, with a row in hand. *)
RunsRecorded ==
    \A i \in Migrations :
        /\ run[i].pc # "none" => mig[i].status # "none"
        /\ run[i].pc \in InHandPC => run[i].cur # None
        /\ run[i].pc \in {"put", "recheck"} => run[i].got # None

(* A request has its path to itself, and what its step needs. *)
ClientsApart ==
    /\ \A b, c \in Clients : client[b].path # None /\ client[b].path = client[c].path => b = c
    /\ \A c \in Clients :
        /\ client[c].pc # "idle" => client[c].path # None
        /\ client[c].pc \in {"resolved", "stored"} =>
              client[c].store # None /\ KeyOf[client[c].path] = client[c].path
        /\ client[c].pc = "stored" => client[c].data # None
        /\ client[c].pc = "delete" => client[c].snap # None

(* No row of the key is in the store; there is no row of the key at all. *)
Unnamed(s, k) == \A p \in Paths : row[p] # None /\ KeyOf[p] = k => row[p].store # s
Free(k) == \A p \in Paths : row[p] # None => KeyOf[p] # k

(* What a goroutine at pc has established about the item in its hand, t being the
   migration's target. *)
Established(pc, item, data, t) ==
    /\ pc = "put" => data = last[item.key]
    /\ pc \in {"read", "put", "recheck"} => Unnamed(t, item.key)
    /\ pc \in {"recheck", "flipLock", "flipSize", "flip"} => obj[t][item.key] # None \/ Free(item.key)
    /\ pc = "drop" => Unnamed(item.src, item.key)

(* The copies of a key are those of the bytes last stored under it, its rows and the
   requests about to register one have a copy where they name it, and one goroutine
   at most works, knowing what it has established. *)
Copies(k) == \A s \in Stores : obj[s][k] \in {None, last[k]}
Named(k) == \A p \in Paths : row[p] # None /\ KeyOf[p] = k => obj[row[p].store][k] # None
Kept(k) == \A c \in Clients : client[c].pc = "stored" /\ client[c].path = k => obj[client[c].store][k] # None
Handled(k) ==
    \A i \in Migrations : run[i].pc \in InHandPC /\ run[i].cur.key = k =>
        Established(run[i].pc, run[i].cur, run[i].got, mig[i].target) /\ ~Storing(k)
Single == \A i, j \in Migrations : run[i].pc # "none" /\ run[j].pc # "none" => i = j

KeyOK(k) == Copies(k) /\ Named(k) /\ Kept(k) /\ Handled(k) /\ Single

MigInv == MigType /\ RunsRecorded /\ ClientsApart /\ \A k \in Keys \ contested : KeyOK(k)

-----------------------------------------------------------------------------
(* Before the first migration every row's bytes are at home. *)
LEMMA InitHolds == ASSUME Init PROVE MigInv
<1> USE MigrationAssumption, NoneAssumption
<1>1. PICK f \in [Paths -> Contents] :
        /\ row = [p \in Paths |-> [store |-> Home, data |-> f[p], ver |-> 0]]
        /\ last = [k \in Keys |-> IF KeyOf[k] = k THEN f[k] ELSE None]
        /\ obj = [s \in Stores |-> IF s = Home THEN last ELSE [k \in Keys |-> None]]
  BY DEF Init
<1>2. MigType
  <2>1. last \in [Keys -> Contents \cup {None}]  BY <1>1 DEF Keys
  <2>2. obj \in [Stores -> [Keys -> Contents \cup {None}]]  BY <1>1, <2>1
  <2>3. row \in [Paths -> Row \cup {None}]  BY <1>1 DEF Row
  <2>4. run \in [Migrations -> Run]  BY DEF Init, NoRun, Run, RunPC
  <2>5. client \in [Clients -> Request]  BY DEF Init, NoRequest, Request
  <2>6. mig \in MigrationRows  BY DEF Init, MigrationRows, Status
  <2> QED  BY <2>1, <2>2, <2>3, <2>4, <2>5, <2>6 DEF MigType, Init
<1>3. RunsRecorded  BY DEF Init, NoRun, RunsRecorded, InHandPC
<1>4. ClientsApart  BY DEF Init, NoRequest, ClientsApart
<1>5. ASSUME NEW k \in Keys PROVE KeyOK(k)
  <2>1. Copies(k)  BY <1>1 DEF Copies
  <2>2. Named(k)
    <3>1. SUFFICES ASSUME NEW p \in Paths, KeyOf[p] = k PROVE obj[row[p].store][k] # None
      BY DEF Named
    <3>2. row[p].store = Home /\ KeyOf[k] = k  BY <1>1, <3>1
    <3>3. obj[Home][k] = f[k] /\ f[k] \in Contents  BY <1>1, <3>2 DEF Keys
    <3> QED  BY <3>2, <3>3
  <2>3. Kept(k)  BY DEF Kept, Init, NoRequest
  <2>4. Handled(k) /\ Single  BY DEF Handled, Single, Init, NoRun, InHandPC
  <2> QED  BY <2>1, <2>2, <2>3, <2>4 DEF KeyOK
<1> QED  BY <1>2, <1>3, <1>4, <1>5 DEF MigInv

(* The invariant is stronger than the property. *)
LEMMA ImpliesServed == ASSUME MigInv PROVE RowsServeLatest
<1> USE MigrationAssumption, NoneAssumption
<1>1. SUFFICES ASSUME NEW p \in Paths, row[p] # None, KeyOf[p] \notin contested
               PROVE  obj[row[p].store][KeyOf[p]] = last[KeyOf[p]]
  BY DEF RowsServeLatest
<1>2. KeyOf[p] \in Keys /\ row[p].store \in Stores  BY <1>1 DEF MigInv, MigType, Keys, Row
<1>3. Copies(KeyOf[p]) /\ Named(KeyOf[p])  BY <1>1, <1>2 DEF MigInv, KeyOK
<1> QED  BY <1>1, <1>2, <1>3 DEF Copies, Named

-----------------------------------------------------------------------------
(* Steps of a goroutine.                                                    *)

(* The goroutine i goes on to pc with that item and data, and the others stay. *)
Moves(i, pc, item, data) ==
    /\ run' \in [Migrations -> Run]
    /\ run'[i].pc = pc /\ run'[i].cur = item /\ run'[i].got = data
    /\ \A j \in Migrations \ {i} : run'[j] = run[j]

(* What every such step leaves in place. *)
RunFrame(i, pc, item, data) ==
    /\ run[i].pc # "none"
    /\ Moves(i, pc, item, data)
    /\ pc \in InHandPC => item # None
    /\ pc \in {"put", "recheck"} => data # None
    /\ mig' \in MigrationRows
    /\ \A j \in Migrations : mig'[j].target = mig[j].target /\ (mig[j].status # "none" => mig'[j].status # "none")
    /\ repoStore' \in Stores
    /\ UNCHANGED <<client, writes, last>>
    /\ Track

(* Types, records and requests, and no second goroutine. *)
LEMMA Bookkeeping ==
  ASSUME MigInv, NEW i \in Migrations, NEW pc, NEW item, NEW data, RunFrame(i, pc, item, data),
         obj' \in [Stores -> [Keys -> Contents \cup {None}]], row' \in [Paths -> Row \cup {None}]
  PROVE  /\ MigType' /\ RunsRecorded' /\ ClientsApart'
         /\ contested \subseteq contested'
         /\ Single => Single'
<1>1. contested \subseteq contested' /\ contested' \subseteq Keys
  BY DEF RunFrame, Track, MigInv, MigType
<1>2. MigType'  BY <1>1 DEF RunFrame, Moves, MigInv, MigType
<1>3. RunsRecorded'  BY DEF RunFrame, Moves, MigInv, MigType, RunsRecorded, InHandPC
<1>4. ClientsApart'  BY DEF RunFrame, MigInv, ClientsApart
<1>5. ASSUME Single PROVE Single'
  <2>1. \A j \in Migrations : run'[j].pc # "none" => run[j].pc # "none"  BY DEF RunFrame, Moves
  <2> QED  BY <1>5, <2>1 DEF Single
<1> QED  BY <1>1, <1>2, <1>3, <1>4, <1>5

(* A client that is storing bytes under the key in a goroutine's hand is on record. *)
LEMMA NotStoring ==
  ASSUME Track, NEW k \in Keys \ contested', NEW i \in Migrations,
         run'[i].pc \in InHandPC, run'[i].cur.key = k
  PROVE  ~Storing(k)'
<1>1. InHand(k)'  BY DEF InHand, InHandPC
<1> QED  BY <1>1 DEF Track

(* Only the goroutine that moves can be at work on a key that is not contested. *)
LEMMA HandledBy ==
  ASSUME MigInv, NEW i \in Migrations, NEW pc, NEW item, NEW data, RunFrame(i, pc, item, data),
         NEW k \in Keys \ contested', Single,
         pc \in InHandPC /\ item.key = k => Established(pc, item, data, mig[i].target)'
  PROVE  Handled(k)'
<1>1. SUFFICES ASSUME NEW j \in Migrations, run'[j].pc \in InHandPC, run'[j].cur.key = k
               PROVE  (Established(run[j].pc, run[j].cur, run[j].got, mig[j].target) /\ ~Storing(k))'
  BY DEF Handled
<1>2. j = i  BY <1>1 DEF RunFrame, Moves, Single, InHandPC
<1>3. ~Storing(k)'  BY <1>1, NotStoring DEF RunFrame
<1>4. run'[i].pc = pc /\ run'[i].cur = item /\ run'[i].got = data  BY DEF RunFrame, Moves
<1>5. Established(pc, item, data, mig[i].target)'  BY <1>1, <1>2, <1>4
<1> QED  BY <1>2, <1>3, <1>4, <1>5 DEF Established

(* A step that touches neither objects nor rows. *)
LEMMA ControlHolds ==
  ASSUME MigInv, NEW i \in Migrations, NEW pc, NEW item, NEW data, RunFrame(i, pc, item, data),
         UNCHANGED <<obj, row>>,
         \A k \in Keys \ contested : KeyOK(k) /\ pc \in InHandPC /\ item.key = k =>
            Established(pc, item, data, mig[i].target)
  PROVE  MigInv'
<1>1. MigType' /\ RunsRecorded' /\ ClientsApart' /\ contested \subseteq contested' /\ (Single => Single')
  BY Bookkeeping DEF MigInv, MigType
<1>2. ASSUME NEW k \in Keys \ contested' PROVE KeyOK(k)'
  <2>1. k \in Keys \ contested /\ KeyOK(k)  BY <1>1 DEF MigInv
  <2>2. Copies(k)' /\ Named(k)' /\ Kept(k)'  BY <2>1 DEF KeyOK, Copies, Named, Kept, RunFrame
  <2>3. pc \in InHandPC /\ item.key = k => Established(pc, item, data, mig[i].target)'
    BY <2>1 DEF Established, Unnamed, Free, RunFrame
  <2>4. Handled(k)'  BY <2>1, <2>3, HandledBy DEF KeyOK
  <2> QED  BY <1>1, <2>1, <2>2, <2>4 DEF KeyOK
<1> QED  BY <1>1, <1>2 DEF MigInv

-----------------------------------------------------------------------------
(* The goroutine's records.                                                *)

(* The record of one goroutine is replaced. *)
LEMMA SetMoves ==
  ASSUME run \in [Migrations -> Run], NEW i \in Migrations, NEW r \in Run, run' = [run EXCEPT ![i] = r]
  PROVE  Moves(i, r.pc, r.cur, r.got)
  BY DEF Moves

(* It goes to another place in its loop. *)
LEMMA GotoMoves ==
  ASSUME run \in [Migrations -> Run], NEW i \in Migrations, NEW pc \in RunPC, Goto(i, pc)
  PROVE  Moves(i, pc, run[i].cur, run[i].got)
<1>1. [run[i] EXCEPT !.pc = pc] \in Run  BY DEF Run
<1>2. run' = [run EXCEPT ![i] = [run[i] EXCEPT !.pc = pc]]  BY DEF Goto
<1> QED  BY <1>1, <1>2, SetMoves DEF Run

(* It is gone. *)
LEMMA ExitMoves ==
  ASSUME run \in [Migrations -> Run], NEW i \in Migrations, Exit(i)
  PROVE  Moves(i, "none", None, None)
<1>1. NoRun \in Run  BY DEF NoRun, Run, RunPC
<1> QED  BY <1>1, SetMoves DEF Exit, NoRun

(* A migration that ends stays recorded, with its target. *)
LEMMA FinishRecorded ==
  ASSUME mig \in MigrationRows, NEW i \in Migrations, NEW s \in Status \ {"none"}, FinishMigration(i, s)
  PROVE  /\ mig' \in MigrationRows
         /\ \A j \in Migrations : mig'[j].target = mig[j].target /\ (mig[j].status # "none" => mig'[j].status # "none")
  BY DEF MigrationRows, FinishMigration

(* A goroutine that returns leaves what is stored and named as it is. *)
LEMMA ExitHolds ==
  ASSUME MigInv, NEW i \in Migrations, run[i].pc # "none", Exit(i),
         UNCHANGED mig \/ \E s \in Status \ {"none"} : FinishMigration(i, s),
         UNCHANGED <<obj, row>>, UNCHANGED repoStore, Quiet
  PROVE  MigInv'
<1>1. Moves(i, "none", None, None)  BY ExitMoves DEF MigInv, MigType
<1>2. /\ mig' \in MigrationRows
      /\ \A j \in Migrations : mig'[j].target = mig[j].target /\ (mig[j].status # "none" => mig'[j].status # "none")
  BY FinishRecorded DEF MigInv, MigType
<1>3. RunFrame(i, "none", None, None)
  BY <1>1, <1>2 DEF RunFrame, Quiet, InHandPC, MigInv, MigType
<1> QED  BY <1>3, ControlHolds DEF InHandPC

(* The same for one that goes on, if it knows what its next step relies on. *)
LEMMA GoesOn ==
  ASSUME MigInv, NEW i \in Migrations, run[i].pc # "none", NEW pc, NEW item, NEW data,
         Moves(i, pc, item, data), pc \in InHandPC => item # None, pc \in {"put", "recheck"} => data # None,
         UNCHANGED <<obj, row, mig>>, repoStore' \in Stores, Quiet,
         \A k \in Keys \ contested : KeyOK(k) /\ pc \in InHandPC /\ item.key = k =>
            Established(pc, item, data, mig[i].target)
  PROVE  MigInv'
<1>1. RunFrame(i, pc, item, data)  BY DEF RunFrame, Quiet, MigInv, MigType
<1> QED  BY <1>1, ControlHolds

(* UpdateStatus("running"), or the return of a run that lost the race. *)
LEMMA RunStartHolds ==
  ASSUME MigInv, NEW i \in Migrations, RunStart(i)
  PROVE  MigInv'
<1>1. CASE ActiveMigrations \subseteq {i}
  <2>1. Moves(i, "list", run[i].cur, run[i].got)  BY <1>1, GotoMoves DEF RunStart, RunPC, MigInv, MigType
  <2>2. FinishMigration(i, "running") /\ "running" \in Status \ {"none"}
    BY <1>1 DEF RunStart, FinishMigration, Status, Active
  <2>3. RunFrame(i, "list", run[i].cur, run[i].got)
    BY <2>1, <2>2, FinishRecorded DEF RunFrame, RunStart, Quiet, world, InHandPC, MigInv, MigType
  <2> QED  BY <2>3, ControlHolds DEF InHandPC, RunStart, world
<1>2. CASE ~(ActiveMigrations \subseteq {i})
  BY <1>2, ExitHolds DEF RunStart, world
<1> QED  BY <1>1, <1>2

(* The items listed name keys and stores. *)
LEMMA RunListHolds ==
  ASSUME MigInv, NEW i \in Migrations, RunList(i)
  PROVE  MigInv'
<1> DEFINE items == {[key |-> KeyOf[p], src |-> row[p].store, size |-> SizeOf[row[p].data]] :
                     p \in {q \in Paths \ Foreign : row[q] # None /\ row[q].store # mig[i].target}}
           r == [run[i] EXCEPT !.pc = "row", !.since = writes, !.todo = items]
<1>1. items \subseteq Item
  <2>1. \A p \in Paths : row[p] # None => row[p].store \in Stores /\ row[p].data \in Contents
    BY DEF MigInv, MigType, Row
  <2> QED  BY <2>1, MigrationAssumption DEF Item, Keys
<1>2. writes \in Nat  BY MigrationAssumption DEF MigInv, MigType
<1>3. run[i] \in Run  BY DEF MigInv, MigType
<1> HIDE DEF items
<1>4. r \in Run /\ r.pc = "row" /\ r.cur = run[i].cur /\ r.got = run[i].got  BY <1>1, <1>2, <1>3 DEF Run, RunPC
<1>5. run' = [run EXCEPT ![i] = r]  BY DEF RunList, items, MigInv, MigType
<1>6. Moves(i, "row", run[i].cur, run[i].got)  BY <1>4, <1>5, SetMoves DEF MigInv, MigType
<1>7. repoStore' \in Stores  BY DEF RunList, world, MigInv, MigType
<1>8. run[i].pc # "none" /\ UNCHANGED <<obj, row, mig>> /\ Quiet  BY DEF RunList, world
<1> QED  BY <1>6, <1>7, <1>8, GoesOn DEF InHandPC

(* The next item is in hand; nothing is known of it yet. *)
LEMMA RunRowHolds ==
  ASSUME MigInv, NEW i \in Migrations, RunRow(i)
  PROVE  MigInv'
<1>1. CASE run[i].past \/ run[i].cancelled
  BY <1>1, ExitHolds DEF RunRow, FinishAs, Status, Active, world
<1>2. CASE ~(run[i].past \/ run[i].cancelled)
  <2>1. PICK r \in run[i].todo : run' = [run EXCEPT ![i].pc = "exists", ![i].cur = r, ![i].todo = @ \ {r}]
    BY <1>2 DEF RunRow
  <2> DEFINE x == [run[i] EXCEPT !.pc = "exists", !.cur = r, !.todo = @ \ {r}]
  <2>2. r \in Item /\ run[i] \in Run  BY DEF MigInv, MigType, Run
  <2>3. x \in Run /\ x.pc = "exists" /\ x.cur = r /\ x.got = run[i].got  BY <2>2 DEF Run, RunPC
  <2>4. run' = [run EXCEPT ![i] = x]  BY <2>1 DEF MigInv, MigType
  <2>5. Moves(i, "exists", r, run[i].got)  BY <2>3, <2>4, SetMoves DEF MigInv, MigType
  <2>6. r # None  BY <2>2, NoneAssumption
  <2>7. \A k \in Keys : Established("exists", r, run[i].got, mig[i].target)  BY DEF Established
  <2>8. repoStore' \in Stores  BY DEF RunRow, world, MigInv, MigType
  <2>9. run[i].pc # "none" /\ UNCHANGED <<obj, row, mig>> /\ Quiet  BY <1>2 DEF RunRow, world
  <2> QED  BY <2>5, <2>6, <2>7, <2>8, <2>9, GoesOn
<1> QED  BY <1>1, <1>2

(* The end of the loop, of the run, and of a run that fails. *)
LEMMA RunRowsDoneHolds ==
  ASSUME MigInv, NEW i \in Migrations, RunRowsDone(i)
  PROVE  MigInv'
<1>1. Moves(i, "finish", run[i].cur, run[i].got)  BY GotoMoves DEF RunRowsDone, RunPC, MigInv, MigType
<1>2. repoStore' \in Stores  BY DEF RunRowsDone, world, MigInv, MigType
<1> QED  BY <1>1, <1>2, GoesOn DEF RunRowsDone, world, InHandPC

LEMMA RunFinishHolds ==
  ASSUME MigInv, NEW i \in Migrations, RunFinish(i)
  PROVE  MigInv'
<1>1. Moves(i, "done", run[i].cur, run[i].got)  BY GotoMoves DEF RunFinish, RunPC, MigInv, MigType
<1>2. repoStore' \in Stores  BY DEF RunFinish, MigInv, MigType, MigrationRows
<1> QED  BY <1>1, <1>2, GoesOn DEF RunFinish, InHandPC

LEMMA RunDoneHolds ==
  ASSUME MigInv, NEW i \in Migrations, RunDone(i)
  PROVE  MigInv'
  BY ExitHolds DEF RunDone, FinishAs, Status, world

LEMMA RunFailHolds ==
  ASSUME MigInv, NEW i \in Migrations, RunFail(i)
  PROVE  MigInv'
  BY ExitHolds DEF RunFail, FinishAs, Status, world

(* A copy in the target is one of the bytes last stored; without one, no row is
   there. *)
LEMMA RunExistsHolds ==
  ASSUME MigInv, NEW i \in Migrations, RunExists(i)
  PROVE  MigInv'
<1> DEFINE item == run[i].cur
           t == mig[i].target
           r == IF obj[t][item.key] # None THEN [run[i] EXCEPT !.pc = "flipLock", !.expect = item.size]
                ELSE [run[i] EXCEPT !.pc = "read"]
<1>1. run[i] \in Run /\ item \in Item /\ item # None
  BY DEF RunExists, MigInv, MigType, RunsRecorded, InHandPC, Run
<1>2. r \in Run /\ r.cur = item /\ r.got = run[i].got /\ r.pc \in {"flipLock", "read"}
  BY <1>1 DEF Run, RunPC, Item
<1>3. run' = [run EXCEPT ![i] = r]  BY DEF RunExists, MigInv, MigType
<1>4. Moves(i, r.pc, item, run[i].got)  BY <1>2, <1>3, SetMoves DEF MigInv, MigType
<1>5. ASSUME NEW k \in Keys \ contested, KeyOK(k), item.key = k
      PROVE  Established(r.pc, item, run[i].got, t)
  <2>1. CASE obj[t][k] # None  BY <1>1, <1>5, <2>1 DEF Established, Run
  <2>2. CASE obj[t][k] = None
    <3>1. Unnamed(t, k)  BY <1>5, <2>2 DEF KeyOK, Named, Unnamed
    <3>2. r.pc = "read"  BY <1>1, <1>5, <2>2 DEF Run
    <3> QED  BY <1>5, <3>1, <3>2 DEF Established
  <2> QED  BY <2>1, <2>2
<1>6. repoStore' \in Stores  BY DEF RunExists, world, MigInv, MigType
<1>7. run[i].pc # "none" /\ UNCHANGED <<obj, row, mig>> /\ Quiet  BY DEF RunExists, world
<1> HIDE DEF r, item, t
<1>8. \A k \in Keys \ contested : KeyOK(k) /\ r.pc \in InHandPC /\ item.key = k =>
         Established(r.pc, item, run[i].got, mig[i].target)
  BY <1>5 DEF t
<1> QED  BY <1>1, <1>2, <1>4, <1>6, <1>7, <1>8, GoesOn

(* What is read from the source are the bytes last stored. *)
LEMMA RunReadHolds ==
  ASSUME MigInv, NEW i \in Migrations, RunRead(i)
  PROVE  MigInv'
<1> DEFINE item == run[i].cur
           d == obj[item.src][item.key]
<1>1. run[i] \in Run /\ item \in Item /\ item # None
  BY DEF RunRead, MigInv, MigType, RunsRecorded, InHandPC, Run
<1>2. CASE d = None
  BY <1>2, ExitHolds DEF RunRead, FinishAs, Status, world
<1>3. CASE d # None
  <2> DEFINE r == [run[i] EXCEPT !.pc = "put", !.got = d]
  <2>1. d \in Contents  BY <1>1, <1>3 DEF MigInv, MigType, Item
  <2>2. r \in Run /\ r.pc = "put" /\ r.cur = item /\ r.got = d  BY <1>1, <2>1 DEF Run, RunPC
  <2>3. run' = [run EXCEPT ![i] = r]  BY <1>3 DEF RunRead, MigInv, MigType
  <2>4. Moves(i, "put", item, d)  BY <2>2, <2>3, SetMoves DEF MigInv, MigType
  <2>5. ASSUME NEW k \in Keys \ contested, KeyOK(k), item.key = k
        PROVE  Established("put", item, d, mig[i].target)
    <3>1. d = last[k]  BY <1>1, <1>3, <2>5 DEF KeyOK, Copies, Item
    <3>2. Established("read", item, run[i].got, mig[i].target)  BY <2>5 DEF KeyOK, Handled, RunRead, InHandPC
    <3> QED  BY <2>5, <3>1, <3>2 DEF Established
  <2>6. repoStore' \in Stores  BY DEF RunRead, world, MigInv, MigType
  <2>7. run[i].pc # "none" /\ UNCHANGED <<obj, row, mig>> /\ Quiet  BY <1>3 DEF RunRead, world
  <2> QED  BY <1>1, <1>3, <2>4, <2>5, <2>6, <2>7, GoesOn
<1> QED  BY <1>2, <1>3

(* Between the copy and the flip nothing about the target is lost. *)
LEMMA RunFlipLockHolds ==
  ASSUME MigInv, NEW i \in Migrations, RunFlipLock(i)
  PROVE  MigInv'
<1>1. run[i].cur # None  BY DEF RunFlipLock, MigInv, RunsRecorded, InHandPC
<1>2. Moves(i, "flipSize", run[i].cur, run[i].got)  BY GotoMoves DEF RunFlipLock, RunPC, MigInv, MigType
<1>3. ASSUME NEW k \in Keys \ contested, KeyOK(k), run[i].cur.key = k
      PROVE  Established("flipSize", run[i].cur, run[i].got, mig[i].target)
  BY <1>3 DEF KeyOK, Handled, RunFlipLock, InHandPC, Established
<1>4. repoStore' \in Stores  BY DEF RunFlipLock, world, MigInv, MigType
<1> QED  BY <1>1, <1>2, <1>3, <1>4, GoesOn DEF RunFlipLock, world

(* A source that changed size ends the run before the flip. *)
LEMMA RunFlipSizeHolds ==
  ASSUME MigInv, NEW i \in Migrations, RunFlipSize(i)
  PROVE  MigInv'
<1>1. CASE Holds(run[i].cur.src, run[i].cur.key, run[i].expect)
  <2>1. run[i].cur # None  BY DEF RunFlipSize, MigInv, RunsRecorded, InHandPC
  <2>2. Moves(i, "flip", run[i].cur, run[i].got)  BY <1>1, GotoMoves DEF RunFlipSize, RunPC, MigInv, MigType
  <2>3. ASSUME NEW k \in Keys \ contested, KeyOK(k), run[i].cur.key = k
        PROVE  Established("flip", run[i].cur, run[i].got, mig[i].target)
    BY <2>3 DEF KeyOK, Handled, RunFlipSize, InHandPC, Established
  <2>4. repoStore' \in Stores  BY DEF RunFlipSize, world, MigInv, MigType
  <2> QED  BY <1>1, <2>1, <2>2, <2>3, <2>4, GoesOn DEF RunFlipSize, world
<1>2. CASE ~Holds(run[i].cur.src, run[i].cur.key, run[i].expect)
  BY <1>2, ExitHolds DEF RunFlipSize, FinishAs, Status, world
<1> QED  BY <1>1, <1>2

(* The source copy is dropped only when no row names it. *)
LEMMA RunCountHolds ==
  ASSUME MigInv, NEW i \in Migrations, RunCount(i)
  PROVE  MigInv'
<1> DEFINE item == run[i].cur
<1>1. item # None  BY DEF RunCount, MigInv, RunsRecorded, InHandPC
<1>2. repoStore' \in Stores  BY DEF RunCount, world, MigInv, MigType
<1>3. run[i].pc # "none" /\ UNCHANGED <<obj, row, mig>> /\ Quiet  BY DEF RunCount, world
<1>4. CASE Unnamed(item.src, item.key) /\ Goto(i, "drop")
  <2>1. Moves(i, "drop", item, run[i].got)  BY <1>4, GotoMoves DEF RunPC, MigInv, MigType
  <2>2. Established("drop", item, run[i].got, mig[i].target)  BY <1>4 DEF Established
  <2> QED  BY <1>1, <1>2, <1>3, <2>1, <2>2, GoesOn
<1>5. CASE NextRow(i)
  <2>1. Moves(i, "row", item, run[i].got)  BY <1>5, GotoMoves DEF NextRow, Goto, RunPC, MigInv, MigType
  <2> QED  BY <1>2, <1>3, <2>1, GoesOn DEF InHandPC
<1> QED  BY <1>4, <1>5 DEF RunCount, Unnamed

(* The copy that is made is one of the bytes last stored. *)
LEMMA RunPutHolds ==
  ASSUME MigInv, NEW i \in Migrations, RunPut(i)
  PROVE  MigInv'
<1> DEFINE item == run[i].cur
           t == mig[i].target
           d == run[i].got
<1>1. item \in Item /\ item # None /\ t \in Stores /\ d \in Contents /\ d # None
  BY DEF RunPut, MigInv, MigType, MigrationRows, RunsRecorded, InHandPC, Run
<1>2. item.key \in Keys /\ item.src \in Stores  BY <1>1 DEF Item
<1>3. Moves(i, "recheck", item, d)  BY GotoMoves DEF RunPut, RunPC, MigInv, MigType
<1>4. RunFrame(i, "recheck", item, d)
  BY <1>1, <1>3 DEF RunFrame, RunPut, Quiet, MigInv, MigType
<1>5. obj' \in [Stores -> [Keys -> Contents \cup {None}]] /\ row' \in [Paths -> Row \cup {None}]
  BY <1>1, <1>2 DEF RunPut, Put, MigInv, MigType
<1>6. \A s \in Stores, k \in Keys : obj'[s][k] = IF s = t /\ k = item.key THEN d ELSE obj[s][k]
  BY <1>1, <1>2 DEF RunPut, Put, MigInv, MigType
<1>7. MigType' /\ RunsRecorded' /\ ClientsApart' /\ contested \subseteq contested' /\ (Single => Single')
  BY <1>4, <1>5, Bookkeeping
<1>8. row' = row /\ client' = client /\ last' = last /\ mig' = mig  BY DEF RunPut, Quiet
<1>9. ASSUME NEW k \in Keys \ contested' PROVE KeyOK(k)'
  <2>1. k \in Keys \ contested /\ KeyOK(k)  BY <1>7 DEF MigInv
  <2>2. item.key = k => Established("put", item, d, t)  BY <2>1 DEF KeyOK, Handled, RunPut, InHandPC
  <2>3. Copies(k)'  BY <1>6, <1>8, <2>1, <2>2 DEF KeyOK, Copies, Established
  <2>4. Named(k)'
    <3>1. \A p \in Paths : row[p] # None => row[p].store \in Stores  BY DEF MigInv, MigType, Row
    <3> QED  BY <1>1, <1>6, <1>8, <2>1, <3>1 DEF KeyOK, Named
  <2>5. Kept(k)'
    <3>1. \A c \in Clients : client[c].pc = "stored" => client[c].store \in Stores
      BY DEF MigInv, MigType, ClientsApart, Request
    <3> QED  BY <1>1, <1>6, <1>8, <2>1, <3>1 DEF KeyOK, Kept
  <2>6. item.key = k => Established("recheck", item, d, mig[i].target)'
    BY <1>1, <1>2, <1>3, <1>6, <1>8, <2>1, <2>2 DEF Established, Unnamed, Moves
  <2>7. Handled(k)'  BY <1>3, <1>4, <2>1, <2>6, HandledBy DEF KeyOK, Established, Moves, InHandPC
  <2> QED  BY <1>7, <2>1, <2>3, <2>4, <2>5, <2>7 DEF KeyOK
<1> QED  BY <1>7, <1>9 DEF MigInv

(* A copy that no row names can go: nobody is storing the key that is in hand. *)
LEMMA DropHolds ==
  ASSUME MigInv, NEW i \in Migrations, run[i].pc \in InHandPC,
         NEW pc, NEW item, NEW data, RunFrame(i, pc, item, data), pc \notin InHandPC,
         NEW s \in Stores, Delete(s, run[i].cur.key), UNCHANGED row,
         \A k \in Keys \ contested : KeyOK(k) /\ run[i].cur.key = k => Unnamed(s, k)
  PROVE  MigInv'
<1> DEFINE key == run[i].cur.key
<1>1. key \in Keys  BY DEF MigInv, MigType, RunsRecorded, Run, Item
<1>2. obj' \in [Stores -> [Keys -> Contents \cup {None}]] /\ row' \in [Paths -> Row \cup {None}]
  BY <1>1 DEF Delete, MigInv, MigType
<1>3. \A x \in Stores, k \in Keys : obj'[x][k] = IF x = s /\ k = key THEN None ELSE obj[x][k]
  BY <1>1 DEF Delete, MigInv, MigType
<1>4. MigType' /\ RunsRecorded' /\ ClientsApart' /\ contested \subseteq contested' /\ (Single => Single')
  BY <1>2, Bookkeeping
<1>5. client' = client /\ last' = last  BY DEF RunFrame
<1>6. ASSUME NEW k \in Keys \ contested' PROVE KeyOK(k)'
  <2>1. k \in Keys \ contested /\ KeyOK(k)  BY <1>4 DEF MigInv
  <2>2. key = k => Unnamed(s, k) /\ ~Storing(k)  BY <2>1 DEF KeyOK, Handled
  <2>3. Copies(k)'  BY <1>3, <1>5, <2>1 DEF KeyOK, Copies
  <2>4. Named(k)'
    <3>1. \A p \in Paths : row[p] # None => row[p].store \in Stores  BY DEF MigInv, MigType, Row
    <3> QED  BY <1>3, <2>1, <2>2, <3>1 DEF KeyOK, Named, Unnamed
  <2>5. Kept(k)'
    <3>1. \A c \in Clients : client[c].pc = "stored" => client[c].store \in Stores
      BY DEF MigInv, MigType, ClientsApart, Request
    <3> QED  BY <1>3, <1>5, <2>1, <2>2, <3>1 DEF KeyOK, Kept, Storing
  <2>6. Handled(k)'  BY <2>1, HandledBy DEF KeyOK
  <2> QED  BY <1>4, <2>1, <2>3, <2>4, <2>5, <2>6 DEF KeyOK
<1> QED  BY <1>4, <1>6 DEF MigInv

(* A copy whose source changed is taken away again: no row is in the target yet. *)
LEMMA RunRecheckHolds ==
  ASSUME MigInv, NEW i \in Migrations, RunRecheck(i)
  PROVE  MigInv'
<1> DEFINE item == run[i].cur
           n == SizeOf[run[i].got]
           t == mig[i].target
<1>1. run[i] \in Run /\ item # None /\ n \in Nat /\ t \in Stores
  BY MigrationAssumption DEF RunRecheck, MigInv, MigType, MigrationRows, RunsRecorded, InHandPC, Run
<1>2. repoStore' \in Stores  BY DEF RunRecheck, MigInv, MigType
<1>3. CASE run' = [run EXCEPT ![i].pc = "flipLock", ![i].expect = n] /\ UNCHANGED <<obj, mig>>
  <2> DEFINE r == [run[i] EXCEPT !.pc = "flipLock", !.expect = n]
  <2>1. r \in Run /\ r.pc = "flipLock" /\ r.cur = item /\ r.got = run[i].got  BY <1>1 DEF Run, RunPC
  <2>2. run' = [run EXCEPT ![i] = r]  BY <1>3 DEF MigInv, MigType
  <2>3. Moves(i, "flipLock", item, run[i].got)  BY <2>1, <2>2, SetMoves DEF MigInv, MigType
  <2>4. ASSUME NEW k \in Keys \ contested, KeyOK(k), item.key = k
        PROVE  Established("flipLock", item, run[i].got, t)
    BY <2>4 DEF KeyOK, Handled, RunRecheck, InHandPC, Established
  <2>5. run[i].pc # "none" /\ UNCHANGED <<obj, row, mig>> /\ Quiet  BY <1>3 DEF RunRecheck
  <2> QED  BY <1>1, <1>2, <2>3, <2>4, <2>5, GoesOn
<1>4. CASE FinishAs(i, "failed") /\ (Delete(t, item.key) \/ UNCHANGED obj)
  <2>1. CASE UNCHANGED obj
    BY <1>4, <2>1, ExitHolds DEF RunRecheck, FinishAs, Status
  <2>2. CASE Delete(t, item.key)
    <3>1. Moves(i, "none", None, None)  BY <1>4, ExitMoves DEF FinishAs, MigInv, MigType
    <3>2. FinishMigration(i, "failed") /\ "failed" \in Status \ {"none"}  BY <1>4 DEF FinishAs, Status, Active
    <3>3. RunFrame(i, "none", None, None)
      BY <1>2, <3>1, <3>2, FinishRecorded DEF RunFrame, RunRecheck, Quiet, InHandPC, MigInv, MigType
    <3>4. ASSUME NEW k \in Keys \ contested, KeyOK(k), item.key = k PROVE Unnamed(t, k)
      BY <3>4 DEF KeyOK, Handled, RunRecheck, InHandPC, Established
    <3>5. run[i].pc \in InHandPC /\ UNCHANGED row  BY DEF RunRecheck, InHandPC
    <3> QED  BY <1>1, <2>2, <3>3, <3>4, <3>5, DropHolds DEF InHandPC
  <2> QED  BY <1>4, <2>1, <2>2
<1> QED  BY <1>3, <1>4 DEF RunRecheck

(* The source copy goes after the count found no row of it. *)
LEMMA RunDropHolds ==
  ASSUME MigInv, NEW i \in Migrations, RunDrop(i)
  PROVE  MigInv'
<1> DEFINE item == run[i].cur
<1>1. item \in Item  BY DEF RunDrop, MigInv, MigType, RunsRecorded, InHandPC, Run
<1>2. item.src \in Stores  BY <1>1 DEF Item
<1>3. Moves(i, "row", item, run[i].got)  BY GotoMoves DEF RunDrop, NextRow, Goto, RunPC, MigInv, MigType
<1>4. RunFrame(i, "row", item, run[i].got)
  BY <1>3 DEF RunFrame, RunDrop, Quiet, InHandPC, MigInv, MigType
<1>5. ASSUME NEW k \in Keys \ contested, KeyOK(k), item.key = k PROVE Unnamed(item.src, k)
  BY <1>5 DEF KeyOK, Handled, RunDrop, InHandPC, Established
<1>6. run[i].pc \in InHandPC /\ Delete(item.src, item.key) /\ UNCHANGED row  BY DEF RunDrop, InHandPC
<1> QED  BY <1>2, <1>4, <1>5, <1>6, DropHolds DEF InHandPC

(* A row that is pointed at the target finds its bytes there. *)
LEMMA RunFlipHolds ==
  ASSUME MigInv, NEW i \in Migrations, RunFlip(i)
  PROVE  MigInv'
<1> DEFINE item == run[i].cur
           t == mig[i].target
           Flipped(p) == p \notin Foreign /\ row[p] # None /\ KeyOf[p] = item.key
<1>1. item \in Item /\ item # None /\ t \in Stores
  BY DEF RunFlip, MigInv, MigType, MigrationRows, RunsRecorded, InHandPC, Run
<1>2. item.key \in Keys  BY <1>1 DEF Item
<1>3. Moves(i, "count", item, run[i].got)  BY GotoMoves DEF RunFlip, RunPC, MigInv, MigType
<1>4. RunFrame(i, "count", item, run[i].got)
  BY <1>1, <1>3 DEF RunFrame, RunFlip, Quiet, MigInv, MigType
<1>5. \A p \in Paths : row'[p] = IF Flipped(p) THEN [row[p] EXCEPT !.store = t] ELSE row[p]
  BY DEF RunFlip
<1>6. row' \in [Paths -> Row \cup {None}]
  <2>1. \A p \in Paths : row'[p] \in Row \cup {None}  BY <1>1, <1>5 DEF MigInv, MigType, Row
  <2>2. row' = [p \in Paths |-> row'[p]]  BY DEF RunFlip
  <2> QED  BY <2>1, <2>2
<1>7. obj' = obj /\ client' = client /\ last' = last  BY DEF RunFlip, Quiet
<1>8. MigType' /\ RunsRecorded' /\ ClientsApart' /\ contested \subseteq contested' /\ (Single => Single')
  BY <1>4, <1>6, <1>7, Bookkeeping DEF MigInv, MigType
<1>9. ASSUME NEW k \in Keys \ contested' PROVE KeyOK(k)'
  <2>1. k \in Keys \ contested /\ KeyOK(k)  BY <1>8 DEF MigInv
  <2>2. Copies(k)' /\ Kept(k)'  BY <1>7, <2>1 DEF KeyOK, Copies, Kept
  <2>3. Named(k)'
    <3>1. SUFFICES ASSUME NEW p \in Paths, row'[p] # None, KeyOf[p] = k PROVE obj[row'[p].store][k] # None
      BY <1>7 DEF Named
    <3>2. row[p] # None  BY <1>5, <3>1
    <3>3. CASE Flipped(p)
      <4>1. Established("flip", item, run[i].got, t)  BY <2>1, <3>1, <3>3 DEF KeyOK, Handled, RunFlip, InHandPC
      <4>2. obj[t][k] # None  BY <3>1, <3>2, <3>3, <4>1 DEF Established, Free
      <4>3. row'[p].store = t  BY <1>5, <3>2, <3>3 DEF MigInv, MigType, Row
      <4> QED  BY <4>2, <4>3
    <3>4. CASE ~Flipped(p)  BY <1>5, <2>1, <3>1, <3>2, <3>4 DEF KeyOK, Named
    <3> QED  BY <3>3, <3>4
  <2>4. Handled(k)'  BY <1>4, <2>1, HandledBy DEF KeyOK, Established
  <2> QED  BY <1>8, <2>1, <2>2, <2>3, <2>4 DEF KeyOK
<1> QED  BY <1>8, <1>9 DEF MigInv

-----------------------------------------------------------------------------
(* Start, Cancel, and the life of a server.                                *)

(* A goroutine is told something or disappears; a recorded migration keeps its
   target. *)
LEMMA LifeHolds ==
  ASSUME MigInv, run' \in [Migrations -> Run], mig' \in MigrationRows,
         \A j \in Migrations :
            /\ run'[j].pc = "none" \/ (run'[j].pc = run[j].pc /\ run'[j].cur = run[j].cur /\ run'[j].got = run[j].got)
            /\ mig'[j].target = mig[j].target
            /\ mig[j].status # "none" => mig'[j].status # "none",
         UNCHANGED <<obj, row, repoStore, client>>, UNCHANGED <<writes, last, contested>>
  PROVE  MigInv'
<1>1. MigType'  BY DEF MigInv, MigType
<1>2. RunsRecorded'  BY DEF MigInv, RunsRecorded, InHandPC
<1>3. ClientsApart'  BY DEF MigInv, ClientsApart
<1>4. ASSUME NEW k \in Keys \ contested' PROVE KeyOK(k)'
  <2>1. KeyOK(k)  BY <1>4 DEF MigInv
  <2>2. Copies(k)' /\ Named(k)' /\ Kept(k)'  BY <2>1 DEF KeyOK, Copies, Named, Kept
  <2>3. Single'  BY <2>1 DEF KeyOK, Single
  <2>4. Handled(k)'
    <3>1. SUFFICES ASSUME NEW j \in Migrations, run'[j].pc \in InHandPC, run'[j].cur.key = k
                   PROVE  (Established(run[j].pc, run[j].cur, run[j].got, mig[j].target) /\ ~Storing(k))'
      BY DEF Handled
    <3>2. run'[j].pc = run[j].pc /\ run'[j].cur = run[j].cur /\ run'[j].got = run[j].got  BY <3>1 DEF InHandPC
    <3>3. Established(run[j].pc, run[j].cur, run[j].got, mig[j].target) /\ ~Storing(k)
      BY <2>1, <3>1, <3>2 DEF KeyOK, Handled
    <3> QED  BY <3>2, <3>3 DEF Established, Unnamed, Free, Storing
  <2> QED  BY <2>2, <2>3, <2>4 DEF KeyOK
<1> QED  BY <1>1, <1>2, <1>3, <1>4 DEF MigInv

(* Cancel leaves a note to the goroutine. *)
LEMMA CancelHolds ==
  ASSUME MigInv, NEW i \in Migrations, Cancel(i)
  PROVE  MigInv'
<1>1. run \in [Migrations -> Run] /\ mig \in MigrationRows  BY DEF MigInv, MigType
<1>2. [run[i] EXCEPT !.cancelled = TRUE] \in Run  BY <1>1 DEF Run
<1>3. run' = [run EXCEPT ![i] = [run[i] EXCEPT !.cancelled = TRUE]]  BY DEF Cancel
<1>4. run' \in [Migrations -> Run]  BY <1>1, <1>2, <1>3
<1>5. \A j \in Migrations : run'[j].pc = run[j].pc /\ run'[j].cur = run[j].cur /\ run'[j].got = run[j].got
  BY <1>1, <1>3 DEF Run
<1> QED  BY <1>1, <1>4, <1>5, LifeHolds DEF Cancel, history

(* So does the end of the lock's TTL, if the token is a live one. *)
LEMMA ExpireHolds ==
  ASSUME MigInv, Expire
  PROVE  MigInv'
<1>1. run \in [Migrations -> Run] /\ mig \in MigrationRows  BY DEF MigInv, MigType
<1>2. CASE redis \notin Migrations
  <2>1. run' = run  BY <1>1, <1>2 DEF Expire
  <2> QED  BY <1>1, <2>1, LifeHolds DEF Expire, history
<1>3. CASE redis \in Migrations /\ redis # 0
  <2>1. [run[redis] EXCEPT !.past = TRUE] \in Run  BY <1>1, <1>3 DEF Run
  <2>2. run' = [run EXCEPT ![redis] = [run[redis] EXCEPT !.past = TRUE]]  BY <1>3 DEF Expire
  <2>3. run' \in [Migrations -> Run]  BY <1>1, <2>1, <2>2
  <2>4. \A j \in Migrations : run'[j].pc = run[j].pc /\ run'[j].cur = run[j].cur /\ run'[j].got = run[j].got
    BY <1>1, <1>3, <2>2 DEF Run
  <2> QED  BY <1>1, <2>3, <2>4, LifeHolds DEF Expire, history
<1>4. CASE redis = 0  BY <1>1, <1>4, LifeHolds DEF Expire, history
<1> QED  BY <1>2, <1>3, <1>4

(* The goroutines of a dead server are gone. *)
LEMMA CrashHolds ==
  ASSUME MigInv, NEW n \in Nodes, Crash(n)
  PROVE  MigInv'
<1>1. run \in [Migrations -> Run] /\ mig \in MigrationRows  BY DEF MigInv, MigType
<1>2. NoRun \in Run /\ NoRun.pc = "none"  BY DEF NoRun, Run, RunPC
<1>3. \A j \in Migrations : run'[j] \in {NoRun, run[j]}  BY DEF Crash
<1>4. run' \in [Migrations -> Run]  BY <1>1, <1>2 DEF Crash
<1> QED  BY <1>1, <1>2, <1>3, <1>4, LifeHolds DEF Crash, history

(* ResumeAll cancels what is recorded, if it does not fail; goroutines of other servers
   go on. *)
LEMMA RestartHolds ==
  ASSUME MigInv, NEW n \in Nodes, Restart(n)
  PROVE  MigInv'
<1>1. run \in [Migrations -> Run] /\ mig \in MigrationRows  BY DEF MigInv, MigType
<1>2. \A j \in Migrations : mig'[j] \in {mig[j], [mig[j] EXCEPT !.status = "cancelled"]}
  BY DEF Restart, ResumeAll
<1>3. mig' \in MigrationRows
  <2>1. \A j \in Migrations : mig'[j] \in [status : Status, target : Stores]
    BY <1>1, <1>2 DEF MigrationRows, Status
  <2>2. mig' = [j \in Migrations |-> mig'[j]]  BY <1>1 DEF Restart, ResumeAll, MigrationRows
  <2> QED  BY <2>1, <2>2 DEF MigrationRows
<1>4. \A j \in Migrations : mig'[j].target = mig[j].target /\ (mig[j].status # "none" => mig'[j].status # "none")
  BY <1>1, <1>2 DEF MigrationRows
<1> QED  BY <1>1, <1>3, <1>4, LifeHolds DEF Restart

(* A second goroutine next to a running one makes every key contested; the first one
   has nothing in hand. *)
LEMMA StartHolds ==
  ASSUME MigInv, NEW n \in Nodes, NEW t \in Stores, Start(n, t)
  PROVE  MigInv'
<1>1. PICK i \in Migrations :
        /\ mig[i].status = "none"
        /\ mig' = [mig EXCEPT ![i] = [status |-> "pending", target |-> t]]
        /\ run' = [run EXCEPT ![i] = [NoRun EXCEPT !.pc = "start", !.node = n]]
  BY DEF Start
<1>2. run \in [Migrations -> Run] /\ mig \in MigrationRows  BY DEF MigInv, MigType
<1>3. [NoRun EXCEPT !.pc = "start", !.node = n] \in Run  BY DEF NoRun, Run, RunPC
<1>4. run' \in [Migrations -> Run] /\ run'[i].pc = "start" /\ \A j \in Migrations \ {i} : run'[j] = run[j]
  BY <1>1, <1>2, <1>3 DEF NoRun
<1>5. mig' \in MigrationRows /\ mig'[i].status = "pending" /\ \A j \in Migrations \ {i} : mig'[j] = mig[j]
  BY <1>1, <1>2 DEF MigrationRows, Status, Active
<1>6. UNCHANGED <<obj, row, repoStore, client, writes, last>> /\ contested \subseteq contested' /\ contested' \subseteq Keys
  BY DEF Start, MigInv, MigType
<1>7. MigType'  BY <1>4, <1>5, <1>6 DEF MigInv, MigType
<1>8. RunsRecorded'  BY <1>4, <1>5 DEF MigInv, RunsRecorded, InHandPC
<1>9. ClientsApart'  BY <1>6 DEF MigInv, ClientsApart
<1>10. ASSUME NEW k \in Keys \ contested' PROVE KeyOK(k)'
  <2>1. KeyOK(k)  BY <1>6, <1>10 DEF MigInv
  <2>2. \A j \in Migrations : run[j].pc = "none"  BY <1>10 DEF Start
  <2>3. Copies(k)' /\ Named(k)' /\ Kept(k)'  BY <1>6, <2>1 DEF KeyOK, Copies, Named, Kept
  <2>4. Single' /\ Handled(k)'  BY <1>4, <2>2 DEF Single, Handled, InHandPC
  <2> QED  BY <2>3, <2>4 DEF KeyOK
<1> QED  BY <1>7, <1>8, <1>9, <1>10 DEF MigInv

-----------------------------------------------------------------------------
(* Clients.                                                                *)

(* What a step of a client's request leaves in place. *)
ClientFrame(c, r) ==
    /\ client' = [client EXCEPT ![c] = r]
    /\ UNCHANGED <<repoStore, mig, run>>
    /\ contested \subseteq contested' /\ contested' \subseteq Keys

(* It is enough to look at objects, rows and requests. *)
LEMMA ClientHolds ==
  ASSUME MigInv, NEW c \in Clients, NEW r \in Request, ClientFrame(c, r),
         obj' \in [Stores -> [Keys -> Contents \cup {None}]], row' \in [Paths -> Row \cup {None}],
         last' \in [Keys -> Contents \cup {None}], writes' \in 0 .. MaxWrites, ClientsApart',
         \A k \in Keys \ contested' : KeyOK(k) => Copies(k)' /\ Named(k)' /\ Kept(k)' /\ Handled(k)'
  PROVE  MigInv'
<1>1. MigType'  BY DEF ClientFrame, MigInv, MigType
<1>2. RunsRecorded'  BY DEF ClientFrame, MigInv, RunsRecorded
<1>3. ASSUME NEW k \in Keys \ contested' PROVE KeyOK(k)'
  <2>1. KeyOK(k)  BY <1>3 DEF ClientFrame, MigInv
  <2>2. Single'  BY <2>1 DEF KeyOK, Single, ClientFrame
  <2> QED  BY <2>1, <2>2 DEF KeyOK
<1> QED  BY <1>1, <1>2, <1>3 DEF MigInv

(* A request that neither stores nor removes anything, and is not storing after. *)
LEMMA RequestHolds ==
  ASSUME MigInv, NEW c \in Clients, NEW r \in Request, ClientFrame(c, r), ClientsApart',
         r.pc # "stored", UNCHANGED <<obj, row, writes, last>>
  PROVE  MigInv'
<1>1. \A b \in Clients : client'[b].pc = "stored" => client'[b] = client[b]
  BY DEF ClientFrame, MigInv, MigType
<1>2. ASSUME NEW k \in Keys, KeyOK(k) PROVE Copies(k)' /\ Named(k)' /\ Kept(k)' /\ Handled(k)'
  <2>1. Copies(k)' /\ Named(k)'  BY <1>2 DEF KeyOK, Copies, Named
  <2>2. Kept(k)'  BY <1>1, <1>2 DEF KeyOK, Kept
  <2>3. Storing(k)' => Storing(k)  BY <1>1 DEF Storing
  <2>4. Handled(k)'  BY <1>2, <2>3 DEF KeyOK, Handled, Established, Unnamed, Free, ClientFrame
  <2> QED  BY <2>1, <2>2, <2>4
<1> QED  BY <1>2, ClientHolds DEF MigInv, MigType

(* A request that ends leaves the others apart. *)
LEMMA EndApart ==
  ASSUME MigInv, NEW c \in Clients, client' = [client EXCEPT ![c] = NoRequest]
  PROVE  NoRequest \in Request /\ NoRequest.pc = "idle" /\ ClientsApart'
<1>1. NoRequest \in Request /\ NoRequest.pc = "idle" /\ NoRequest.path = None  BY DEF NoRequest, Request
<1>2. ClientsApart'  BY <1>1 DEF MigInv, MigType, ClientsApart
<1> QED  BY <1>1, <1>2

(* A request that begins has its path to itself. *)
LEMMA BeginApart ==
  ASSUME MigInv, NEW c \in Clients, NEW r \in Request, client' = [client EXCEPT ![c] = r],
         \A b \in Clients : client[b].path # r.path, r.path # None,
         \/ r.pc = "resolved" /\ r.store # None /\ KeyOf[r.path] = r.path
         \/ r.pc = "delete" /\ r.snap # None
  PROVE  ClientsApart'
<1>1. \A b \in Clients : client'[b] = IF b = c THEN r ELSE client[b]  BY DEF MigInv, MigType
<1> QED  BY <1>1 DEF MigInv, ClientsApart

(* An upload resolves the repository's store. *)
LEMMA UploadResolveHolds ==
  ASSUME MigInv, NEW c \in Clients, NEW p \in Paths, UploadResolve(c, p)
  PROVE  MigInv'
<1> DEFINE r == [NoRequest EXCEPT !.pc = "resolved", !.path = p, !.store = repoStore]
<1>1. /\ r \in Request /\ r.pc = "resolved" /\ r.path = p /\ r.store # None /\ p # None
  BY NoneAssumption DEF NoRequest, Request, MigInv, MigType
<1>2. ClientFrame(c, r) /\ UNCHANGED <<obj, row, writes, last>>
  BY DEF UploadResolve, Become, ClientFrame, history, MigInv, MigType
<1> HIDE DEF r
<1>3. ClientsApart'  BY <1>1, <1>2, BeginApart DEF UploadResolve, ClientFrame
<1> QED  BY <1>1, <1>2, <1>3, RequestHolds

(* A delete reads its row. *)
LEMMA DeleteReadHolds ==
  ASSUME MigInv, NEW c \in Clients, NEW p \in Paths, DeleteRead(c, p)
  PROVE  MigInv'
<1> DEFINE r == [NoRequest EXCEPT !.pc = "delete", !.path = p, !.snap = row[p]]
<1>1. /\ r \in Request /\ r.pc = "delete" /\ r.path = p /\ r.snap # None /\ p # None
  BY NoneAssumption DEF DeleteRead, NoRequest, Request, MigInv, MigType
<1>2. ClientFrame(c, r) /\ UNCHANGED <<obj, row, writes, last>>
  BY DEF DeleteRead, Become, ClientFrame, history, MigInv, MigType
<1> HIDE DEF r
<1>3. ClientsApart'  BY <1>1, <1>2, BeginApart DEF DeleteRead, ClientFrame
<1> QED  BY <1>1, <1>2, <1>3, RequestHolds

(* An upload that gives up. *)
LEMMA UploadAbortHolds ==
  ASSUME MigInv, NEW c \in Clients, UploadAbort(c)
  PROVE  MigInv'
<1>1. ClientFrame(c, NoRequest) /\ UNCHANGED <<obj, row, writes, last>>
  BY DEF UploadAbort, Become, ClientFrame, Track, MigInv, MigType
<1>2. NoRequest \in Request /\ NoRequest.pc = "idle" /\ ClientsApart'  BY <1>1, EndApart DEF ClientFrame
<1> QED  BY <1>1, <1>2, RequestHolds

(* Bytes that are stored next to no other copy, while no goroutine has the key in
   hand, are the only ones of the key. *)
LEMMA UploadPutHolds ==
  ASSUME MigInv, NEW c \in Clients, NEW d \in Contents, UploadPut(c, d)
  PROVE  MigInv'
<1> DEFINE key == client[c].path
           s == client[c].store
           r == [client[c] EXCEPT !.pc = "stored", !.data = d]
<1>1. client[c] \in Request /\ key \in Keys /\ key # None /\ s \in Stores /\ s # None /\ KeyOf[key] = key /\ d # None
  BY NoneAssumption DEF UploadPut, MigInv, MigType, ClientsApart, Request, Keys
<1>2. r \in Request /\ r.pc = "stored" /\ r.path = key /\ r.store = s /\ r.data = d  BY <1>1 DEF Request
<1>3. ClientFrame(c, r) /\ UNCHANGED <<row, writes>>
  BY DEF UploadPut, Become, ClientFrame, Track, MigInv, MigType
<1>4. \A b \in Clients : client'[b] = IF b = c THEN r ELSE client[b]  BY <1>3 DEF ClientFrame, MigInv, MigType
<1>5. /\ obj' \in [Stores -> [Keys -> Contents \cup {None}]] /\ last' \in [Keys -> Contents \cup {None}]
      /\ \A t \in Stores, k \in Keys : obj'[t][k] = IF t = s /\ k = key THEN d ELSE obj[t][k]
      /\ \A k \in Keys : last'[k] = IF k = key THEN d ELSE last[k]
  BY <1>1 DEF UploadPut, Put, MigInv, MigType
<1> HIDE DEF r
<1>6. ClientsApart'
  BY <1>1, <1>2, <1>4 DEF UploadPut, MigInv, ClientsApart
<1>7. \A p \in Paths : row[p] # None => row[p].store \in Stores  BY DEF MigInv, MigType, Row
<1>8. \A b \in Clients : client[b].pc = "stored" => client[b].store \in Stores
  BY DEF MigInv, MigType, ClientsApart, Request
<1>9. \A b \in Clients : client'[b].pc = "stored" /\ client'[b].path = key => b = c
  BY <1>1, <1>2, <1>4 DEF MigInv, ClientsApart
<1>10. ASSUME NEW k \in Keys, k = key PROVE Storing(k)' /\ ~Storing(k)
  <2>1. Storing(k)'  BY <1>2, <1>4, <1>10 DEF Storing
  <2>2. ~Storing(k)  BY <1>1, <1>10 DEF UploadPut, Storing, MigInv, ClientsApart
  <2> QED  BY <2>1, <2>2
<1>11. ASSUME NEW k \in Keys \ contested', KeyOK(k)
       PROVE  Copies(k)' /\ Named(k)' /\ Kept(k)' /\ Handled(k)'
  <2>1. CASE k = key
    <3>1. ~InHand(k)' /\ \A t \in Stores \ {s} : obj'[t][k] = None
      <4>1. Track /\ k \in Keys /\ k \notin contested' /\ Storing(k)' /\ ~Storing(k)
        BY <1>10, <1>11, <2>1 DEF UploadPut
      <4>2. ~InHand(k)' /\ ~(\E x, t \in Stores : x # t /\ obj'[x][k] # None /\ obj'[t][k] # None)
        BY <4>1 DEF Track
      <4>3. obj'[s][k] # None  BY <1>1, <1>5, <2>1
      <4> QED  BY <1>1, <4>2, <4>3
    <3>2. Copies(k)'  BY <1>5, <2>1, <3>1 DEF Copies
    <3>3. Named(k)'  BY <1>1, <1>3, <1>5, <1>7, <1>11, <2>1, <3>1 DEF KeyOK, Named
    <3>4. Kept(k)'  BY <1>1, <1>2, <1>4, <1>5, <1>9, <2>1 DEF Kept
    <3>5. Handled(k)'  BY <3>1 DEF Handled, InHand, InHandPC
    <3> QED  BY <3>2, <3>3, <3>4, <3>5
  <2>2. CASE k # key
    <3>1. Copies(k)' /\ Named(k)'  BY <1>3, <1>5, <1>7, <1>11, <2>2 DEF KeyOK, Copies, Named
    <3>2. Kept(k)'  BY <1>2, <1>4, <1>5, <1>8, <1>11, <2>2 DEF KeyOK, Kept
    <3>3. Storing(k)' => Storing(k)  BY <1>2, <1>4, <2>2 DEF Storing
    <3>4. Handled(k)'
      <4>1. SUFFICES ASSUME NEW i \in Migrations, run[i].pc \in InHandPC, run[i].cur.key = k
                     PROVE  Established(run[i].pc, run[i].cur, run[i].got, mig[i].target)' /\ ~Storing(k)'
        BY <1>3 DEF Handled, ClientFrame
      <4>2. Established(run[i].pc, run[i].cur, run[i].got, mig[i].target) /\ ~Storing(k)
        BY <1>11, <4>1 DEF KeyOK, Handled
      <4>3. mig[i].target \in Stores  BY DEF MigInv, MigType, MigrationRows
      <4> QED  BY <1>3, <1>5, <2>2, <3>3, <4>1, <4>2, <4>3 DEF Established, Unnamed, Free, ClientFrame
    <3> QED  BY <3>1, <3>2, <3>4
  <2> QED  BY <2>1, <2>2
<1> QED  BY <1>2, <1>3, <1>5, <1>6, <1>11, ClientHolds DEF MigInv, MigType

(* The row that is registered finds the bytes its request has stored. *)
LEMMA UploadRegisterHolds ==
  ASSUME MigInv, NEW c \in Clients, UploadRegister(c)
  PROVE  MigInv'
<1> DEFINE key == client[c].path
           s == client[c].store
           r == [store |-> s, data |-> client[c].data, ver |-> writes']
<1>1. /\ key \in Paths /\ s \in Stores /\ client[c].data \in Contents /\ KeyOf[key] = key
      /\ writes' \in 0 .. MaxWrites
  BY MigrationAssumption DEF UploadRegister, MigInv, MigType, ClientsApart, Request
<1>2. r \in Row /\ r # None /\ r.store = s  BY <1>1, NoneAssumption DEF Row
<1>3. ClientFrame(c, NoRequest) /\ UNCHANGED <<obj, last>>
  BY DEF UploadRegister, Become, ClientFrame, Track, MigInv, MigType
<1>4. row' = [row EXCEPT ![key] = r]  BY DEF UploadRegister
<1> HIDE DEF r
<1>5. /\ row' \in [Paths -> Row \cup {None}]
      /\ \A p \in Paths : row'[p] = IF p = key THEN r ELSE row[p]
  BY <1>1, <1>2, <1>4 DEF MigInv, MigType
<1>6. NoRequest \in Request /\ NoRequest.pc = "idle" /\ ClientsApart'  BY <1>3, EndApart DEF ClientFrame
<1>7. \A b \in Clients : client'[b].pc = "stored" => client'[b] = client[b]
  BY <1>3, <1>6 DEF ClientFrame, MigInv, MigType
<1>8. Storing(key)  BY DEF Storing, UploadRegister
<1>9. ASSUME NEW k \in Keys \ contested', KeyOK(k)
      PROVE  Copies(k)' /\ Named(k)' /\ Kept(k)' /\ Handled(k)'
  <2>1. Copies(k)' /\ Kept(k)'  BY <1>3, <1>7, <1>9 DEF KeyOK, Copies, Kept
  <2>2. Named(k)'
    <3>1. k = key => obj[s][k] # None  BY <1>9 DEF KeyOK, Kept, UploadRegister
    <3> QED  BY <1>1, <1>2, <1>3, <1>5, <1>9, <3>1 DEF KeyOK, Named
  <2>3. Storing(k)' => Storing(k)  BY <1>7 DEF Storing
  <2>4. Handled(k)'
    <3>1. SUFFICES ASSUME NEW i \in Migrations, run[i].pc \in InHandPC, run[i].cur.key = k
                   PROVE  Established(run[i].pc, run[i].cur, run[i].got, mig[i].target)' /\ ~Storing(k)'
      BY <1>3 DEF Handled, ClientFrame
    <3>2. Established(run[i].pc, run[i].cur, run[i].got, mig[i].target) /\ ~Storing(k)
      BY <1>9, <3>1 DEF KeyOK, Handled
    <3>3. \A p \in Paths : KeyOf[p] = k => row'[p] = row[p]  BY <1>1, <1>5, <1>8, <3>2
    <3> QED  BY <1>3, <2>3, <3>1, <3>2, <3>3 DEF Established, Unnamed, Free, ClientFrame
  <2> QED  BY <2>1, <2>2, <2>4
<1> QED  BY <1>1, <1>3, <1>5, <1>6, <1>9, ClientHolds DEF MigInv, MigType

(* A delete takes the bytes only with the last row of their key, and a client that is
   storing the key again is on record. *)
LEMMA DeleteLockedHolds ==
  ASSUME MigInv, NEW c \in Clients, DeleteLocked(c)
  PROVE  MigInv'
<1> DEFINE p == client[c].path
           key == KeyOf[p]
           s == client[c].snap.store
<1>1. p \in Paths /\ key \in Keys /\ client[c].snap \in Row /\ s \in Stores
  BY MigrationAssumption DEF DeleteLocked, MigInv, MigType, ClientsApart, Request, Row, Keys
<1>2. ClientFrame(c, NoRequest) /\ UNCHANGED <<last, writes>>
  BY DEF DeleteLocked, Become, ClientFrame, Track, MigInv, MigType
<1>3. NoRequest \in Request /\ NoRequest.pc = "idle" /\ ClientsApart'  BY <1>2, EndApart DEF ClientFrame
<1>4. CASE UNCHANGED <<row, obj>>  BY <1>2, <1>3, <1>4, RequestHolds
<1>5. CASE /\ row' = [row EXCEPT ![p] = None]
           /\ \/ UNCHANGED obj
              \/ Delete(s, key) /\ \A q \in Paths \ {p} : row[q] # None => KeyOf[q] # key
  <2>1. /\ row' \in [Paths -> Row \cup {None}]
        /\ \A q \in Paths : row'[q] = IF q = p THEN None ELSE row[q]
    BY <1>1, <1>5 DEF MigInv, MigType
  <2>2. /\ obj' \in [Stores -> [Keys -> Contents \cup {None}]]
        /\ \A t \in Stores, k \in Keys : obj'[t][k] \in {None, obj[t][k]}
    <3>1. CASE UNCHANGED obj  BY <3>1 DEF MigInv, MigType
    <3>2. CASE Delete(s, key)  BY <1>1, <3>2 DEF Delete, MigInv, MigType
    <3> QED  BY <1>5, <3>1, <3>2
  <2>3. \A k \in Keys : (\E t \in Stores : obj'[t][k] # obj[t][k]) => Free(k)'
    BY <1>1, <1>5, <2>1 DEF Delete, Free, MigInv, MigType
  <2>4. \A b \in Clients : client'[b].pc = "stored" => client'[b] = client[b]
    BY <1>2, <1>3 DEF ClientFrame, MigInv, MigType
  <2>5. ASSUME NEW k \in Keys \ contested', KeyOK(k)
        PROVE  Copies(k)' /\ Named(k)' /\ Kept(k)' /\ Handled(k)'
    <3>1. Copies(k)'  BY <1>2, <2>2, <2>5 DEF KeyOK, Copies
    <3>2. Named(k)'
      <4>1. SUFFICES ASSUME NEW q \in Paths, row'[q] # None, KeyOf[q] = k PROVE obj'[row'[q].store][k] # None
        BY DEF Named
      <4>2. row[q] # None /\ row'[q] = row[q] /\ row[q].store \in Stores  BY <2>1, <4>1 DEF MigInv, MigType, Row
      <4>3. ~Free(k)'  BY <4>1 DEF Free
      <4> QED  BY <2>3, <2>5, <4>1, <4>2, <4>3 DEF KeyOK, Named
    <3>3. Kept(k)'
      <4>1. SUFFICES ASSUME NEW b \in Clients, client'[b].pc = "stored", client'[b].path = k
                     PROVE  obj'[client'[b].store][k] # None
        BY DEF Kept
      <4>2. Storing(k)'  BY <4>1 DEF Storing
      <4>3. client'[b] = client[b] /\ client[b].store \in Stores
        BY <2>4, <4>1 DEF MigInv, MigType, ClientsApart, Request
      <4>4. obj[client[b].store][k] # None  BY <2>5, <4>1, <4>3 DEF KeyOK, Kept
      <4> QED  BY <2>5, <4>2, <4>3, <4>4 DEF DeleteLocked, Track
    <3>4. Storing(k)' => Storing(k)  BY <2>4 DEF Storing
    <3>5. Handled(k)'
      <4>1. SUFFICES ASSUME NEW i \in Migrations, run[i].pc \in InHandPC, run[i].cur.key = k
                     PROVE  Established(run[i].pc, run[i].cur, run[i].got, mig[i].target)' /\ ~Storing(k)'
        BY <1>2 DEF Handled, ClientFrame
      <4>2. Established(run[i].pc, run[i].cur, run[i].got, mig[i].target) /\ ~Storing(k)
        BY <2>5, <4>1 DEF KeyOK, Handled
      <4>3. mig[i].target \in Stores  BY DEF MigInv, MigType, MigrationRows
      <4>4. \A t : Unnamed(t, k) => Unnamed(t, k)'  BY <2>1 DEF Unnamed
      <4>5. Free(k) => Free(k)'  BY <2>1 DEF Free
      <4>6. obj'[mig[i].target][k] # obj[mig[i].target][k] => Free(k)'  BY <2>3, <4>3
      <4>7. UNCHANGED <<last, mig, run>>  BY <1>2 DEF ClientFrame
      <4> QED  BY <3>4, <4>1, <4>2, <4>4, <4>5, <4>6, <4>7 DEF Established
    <3> QED  BY <3>1, <3>2, <3>3, <3>5
  <2> QED  BY <1>2, <1>3, <2>1, <2>2, <2>5, ClientHolds DEF MigInv, MigType
<1> QED  BY <1>4, <1>5 DEF DeleteLocked

-----------------------------------------------------------------------------
(* Every step keeps the invariant. *)
LEMMA StepHolds == ASSUME MigInv, [Next]_vars PROVE MigInv'
<1>1. ASSUME NEW n \in Nodes, (\E t \in Stores : Start(n, t)) \/ Crash(n) \/ Restart(n) PROVE MigInv'
  BY <1>1, StartHolds, CrashHolds, RestartHolds
<1>2. CASE Expire  BY <1>2, ExpireHolds
<1>3. ASSUME NEW i \in Migrations, Cancel(i) \/ RunStep(i) \/ RunFlipLock(i) \/ RunFail(i) PROVE MigInv'
  BY <1>3, CancelHolds, RunFlipLockHolds, RunFailHolds, RunStartHolds, RunListHolds, RunRowHolds,
     RunRowsDoneHolds, RunExistsHolds, RunReadHolds, RunPutHolds, RunRecheckHolds, RunFlipSizeHolds,
     RunFlipHolds, RunCountHolds, RunDropHolds, RunFinishHolds, RunDoneHolds DEF RunStep
<1>4. ASSUME NEW c \in Clients, ClientStep(c) PROVE MigInv'
  BY <1>4, UploadResolveHolds, DeleteReadHolds, UploadPutHolds, UploadRegisterHolds, UploadAbortHolds,
     DeleteLockedHolds DEF ClientStep
<1>5. CASE UNCHANGED vars
  BY <1>5 DEF vars, MigInv, MigType, RunsRecorded, ClientsApart, KeyOK, Copies, Named, Kept, Handled,
     Established, Unnamed, Free, Storing, Single
<1> QED  BY <1>1, <1>2, <1>3, <1>4, <1>5 DEF Next

(* Copy, then flip, then drop: whatever the interleaving of the migration's goroutine
   with uploads, deletes, failures, crashes and restarts, a row is served the bytes
   last stored under its key, unless a client stored them while a migration handled
   the key, next to another copy or during a delete of its last row, or two
   migrations ran at one time (blob_store_migration_service.go runMigration). *)
THEOREM MigrationServesLatest == Spec => []RowsServeLatest
<1>1. Init => MigInv  BY InitHolds
<1>2. MigInv /\ [Next]_vars => MigInv'  BY StepHolds
<1>3. MigInv => RowsServeLatest  BY ImpliesServed
<1> QED  BY <1>1, <1>2, <1>3, PTL DEF Spec

-----------------------------------------------------------------------------
(* What a migration that is done has moved.                                *)

(* One server, or none that fails or is restarted: migrations follow each other. *)
InTurn == ~Restarts /\ (Failures => \E n : Nodes = {n})

PreFlip == {"exists", "read", "put", "recheck", "flipLock", "flipSize", "flip"}
Listed == PreFlip \cup {"row", "count", "drop", "finish", "done"}

(* A row that was there when the goroutine listed them is in the target, or its key is
   still to be handled. *)
Awaits(i, k) == (\E r \in run[i].todo : r.key = k) \/ (run[i].pc \in PreFlip /\ run[i].cur.key = k)
MovedOrAwaited(i) ==
    /\ run[i].since <= writes
    /\ \A p \in Paths \ Foreign :
        row[p] # None /\ row[p].ver <= run[i].since => row[p].store = mig[i].target \/ Awaits(i, KeyOf[p])

(* A goroutine's migration is active, and it knows how far it is; at most one
   migration is active, as the partial unique index has it. *)
Progress(i) ==
    /\ run[i].pc # "none" => mig[i].status \in Active /\ run[i].node \in up
    /\ run[i].pc \in Listed => MovedOrAwaited(i)
    /\ run[i].pc \in {"finish", "done"} => run[i].todo = {}
    /\ run[i].pc = "done" /\ ~Failures => repoStore = mig[i].target
OneActive == \A i, j \in Migrations : mig[i].status \in Active /\ mig[j].status \in Active => i = j

MovedInv ==
    /\ up \subseteq Nodes /\ (~Failures => up = Nodes)
    /\ OneActive
    /\ \A i \in Migrations : Progress(i)

(* Nothing has been listed yet. *)
LEMMA InitMoved == ASSUME Init PROVE MovedInv
  BY DEF Init, NoRun, MovedInv, Progress, Listed, PreFlip, OneActive, Active

(* The step of a goroutine; there is no other. *)
LEMMA OneMoves ==
  ASSUME MigInv, MovedInv, NEW i \in Migrations, run[i].pc # "none", UNCHANGED up,
         \A j \in Migrations \ {i} : run'[j] = run[j] /\ mig'[j] = mig[j],
         Progress(i)'
  PROVE  MovedInv'
<1>1. \A j \in Migrations \ {i} : run[j].pc = "none" /\ mig[j].status \notin Active
  BY DEF MovedInv, Progress, OneActive
<1>2. \A j \in Migrations \ {i} : Progress(j)'  BY <1>1 DEF Progress, Listed, PreFlip
<1>3. OneActive'  BY <1>1 DEF OneActive
<1> QED  BY <1>2, <1>3 DEF MovedInv

(* It returns. *)
LEMMA ExitMoved ==
  ASSUME MigInv, MovedInv, NEW i \in Migrations, run[i].pc # "none", Exit(i),
         UNCHANGED mig \/ \E s : FinishMigration(i, s), UNCHANGED up
  PROVE  MovedInv'
<1>1. run'[i] = NoRun /\ \A j \in Migrations \ {i} : run'[j] = run[j]  BY DEF Exit, MigInv, MigType
<1>2. \A j \in Migrations \ {i} : mig'[j] = mig[j]  BY DEF FinishMigration, MigInv, MigType, MigrationRows
<1>3. Progress(i)'  BY <1>1 DEF Progress, NoRun, Listed, PreFlip
<1> QED  BY <1>1, <1>2, <1>3, OneMoves

(* It goes on with the item in its hand, or past it. *)
LEMMA GoesMoved ==
  ASSUME MigInv, MovedInv, NEW i \in Migrations, NEW r \in Run, run' = [run EXCEPT ![i] = r],
         run[i].pc \in Listed, r.pc \in Listed, run[i].pc \in PreFlip => r.pc \in PreFlip,
         r.pc \in {"finish", "done"} => run[i].todo = {},
         r.pc = "done" /\ ~Failures => repoStore' = mig[i].target,
         r.cur = run[i].cur, r.todo = run[i].todo, r.since = run[i].since, r.node = run[i].node,
         UNCHANGED <<row, writes, up, mig>>
  PROVE  MovedInv'
<1>1. run'[i] = r /\ \A j \in Migrations \ {i} : run'[j] = run[j]  BY DEF MigInv, MigType
<1>2. Progress(i) /\ run[i].pc # "none"  BY DEF MovedInv, Listed, PreFlip
<1>3. MovedOrAwaited(i)'  BY <1>1, <1>2 DEF Progress, MovedOrAwaited, Awaits
<1>4. Progress(i)'  BY <1>1, <1>2, <1>3 DEF Progress
<1> QED  BY <1>1, <1>2, <1>4, OneMoves

(* The same for a step that only changes its place. *)
LEMMA GotoMoved ==
  ASSUME MigInv, MovedInv, NEW i \in Migrations, NEW pc \in Listed, Goto(i, pc),
         run[i].pc \in Listed, run[i].pc \in PreFlip => pc \in PreFlip,
         pc \in {"finish", "done"} => run[i].todo = {},
         pc = "done" /\ ~Failures => repoStore' = mig[i].target,
         UNCHANGED <<row, writes, up, mig>>
  PROVE  MovedInv'
<1> DEFINE r == [run[i] EXCEPT !.pc = pc]
<1>1. r \in Run /\ r.pc = pc /\ r.cur = run[i].cur /\ r.todo = run[i].todo
      /\ r.since = run[i].since /\ r.node = run[i].node
  <2>1. run[i] \in Run  BY DEF MigInv, MigType
  <2>2. pc \in RunPC  BY DEF RunPC, Listed, PreFlip
  <2> QED  BY <2>1, <2>2 DEF Run
<1>2. run' = [run EXCEPT ![i] = r]  BY DEF Goto
<1> HIDE DEF r
<1> QED  BY <1>1, <1>2, GoesMoved

(* The steps that do one of these. *)
LEMMA RoutineMoved ==
  ASSUME MigInv, MovedInv, NEW i \in Migrations,
         \/ RunRowsDone(i) \/ RunPut(i) \/ RunFlipLock(i) \/ RunFlipSize(i) \/ RunCount(i) \/ RunDrop(i)
         \/ RunFinish(i) \/ RunDone(i) \/ RunFail(i)
  PROVE  MovedInv'
<1> USE DEF Listed, PreFlip, world, Quiet
<1>1. CASE RunRowsDone(i)  BY <1>1, GotoMoved DEF RunRowsDone
<1>2. CASE RunPut(i)  BY <1>2, GotoMoved DEF RunPut
<1>3. CASE RunFlipLock(i)  BY <1>3, GotoMoved DEF RunFlipLock
<1>4. CASE RunFlipSize(i)  BY <1>4, GotoMoved, ExitMoved DEF RunFlipSize, FinishAs
<1>5. CASE RunCount(i)  BY <1>5, GotoMoved DEF RunCount, NextRow, Goto
<1>6. CASE RunDrop(i)  BY <1>6, GotoMoved DEF RunDrop, NextRow, Goto
<1>7. CASE RunFinish(i)  BY <1>7, GotoMoved DEF RunFinish, MovedInv, Progress
<1>8. CASE RunDone(i)  BY <1>8, ExitMoved DEF RunDone, FinishAs
<1>9. CASE RunFail(i)  BY <1>9, ExitMoved DEF RunFail, FinishAs
<1> QED  BY <1>1, <1>2, <1>3, <1>4, <1>5, <1>6, <1>7, <1>8, <1>9

(* A goroutine that starts has listed nothing. *)
LEMMA RunStartMoved ==
  ASSUME MigInv, MovedInv, NEW i \in Migrations, RunStart(i)
  PROVE  MovedInv'
<1>1. CASE ActiveMigrations \subseteq {i}
  <2>1. /\ run'[i] = [run[i] EXCEPT !.pc = "list"] /\ mig'[i].status = "running"
        /\ \A j \in Migrations \ {i} : run'[j] = run[j] /\ mig'[j] = mig[j]
    BY <1>1 DEF RunStart, Goto, MigInv, MigType, MigrationRows
  <2>2. run'[i].pc = "list" /\ run'[i].node = run[i].node  BY <2>1 DEF MigInv, MigType, Run
  <2>3. Progress(i)'
    BY <2>1, <2>2 DEF Progress, Listed, PreFlip, Active, RunStart, Quiet, MovedInv
  <2> QED  BY <2>1, <2>3, OneMoves DEF RunStart, Quiet
<1>2. CASE ~(ActiveMigrations \subseteq {i})  BY <1>2, ExitMoved DEF RunStart, Quiet
<1> QED  BY <1>1, <1>2

(* Every row that is not in the target is listed. *)
LEMMA RunListMoved ==
  ASSUME MigInv, MovedInv, NEW i \in Migrations, RunList(i)
  PROVE  MovedInv'
<1> DEFINE items == {[key |-> KeyOf[p], src |-> row[p].store, size |-> SizeOf[row[p].data]] :
                     p \in {q \in Paths \ Foreign : row[q] # None /\ row[q].store # mig[i].target}}
<1>1. /\ run'[i] = [run[i] EXCEPT !.pc = "row", !.since = writes, !.todo = items]
      /\ \A j \in Migrations \ {i} : run'[j] = run[j]
  BY DEF RunList, MigInv, MigType
<1>2. UNCHANGED <<row, writes, up, mig>> /\ run[i].pc = "list"  BY DEF RunList, world, Quiet
<1>3. \A p \in Paths \ Foreign : row[p] # None /\ row[p].store # mig[i].target => \E r \in items : r.key = KeyOf[p]
  <2>1. SUFFICES ASSUME NEW p \in Paths \ Foreign, row[p] # None, row[p].store # mig[i].target
                 PROVE  \E r \in items : r.key = KeyOf[p]
    OBVIOUS
  <2>2. [key |-> KeyOf[p], src |-> row[p].store, size |-> SizeOf[row[p].data]] \in items  BY <2>1
  <2> QED  BY <2>2
<1> HIDE DEF items
<1>4. run'[i].pc = "row" /\ run'[i].since = writes /\ run'[i].todo = items /\ run'[i].node = run[i].node
  BY <1>1 DEF MigInv, MigType, Run
<1>5. MovedOrAwaited(i)'
  <2>1. writes <= writes  BY MigrationAssumption DEF MigInv, MigType
  <2> QED  BY <1>2, <1>3, <1>4, <2>1 DEF MovedOrAwaited, Awaits
<1>6. Progress(i)'  BY <1>2, <1>4, <1>5 DEF Progress, MovedInv
<1> QED  BY <1>1, <1>2, <1>6, OneMoves

(* The row that is taken is in hand. *)
LEMMA RunRowMoved ==
  ASSUME MigInv, MovedInv, NEW i \in Migrations, RunRow(i)
  PROVE  MovedInv'
<1>1. CASE run[i].past \/ run[i].cancelled  BY <1>1, ExitMoved DEF RunRow, FinishAs, Quiet
<1>2. CASE ~(run[i].past \/ run[i].cancelled)
  <2>1. PICK r \in run[i].todo : run' = [run EXCEPT ![i].pc = "exists", ![i].cur = r, ![i].todo = @ \ {r}]
    BY <1>2 DEF RunRow
  <2>2. /\ run'[i].pc = "exists" /\ run'[i].cur = r /\ run'[i].todo = run[i].todo \ {r}
        /\ run'[i].since = run[i].since /\ run'[i].node = run[i].node
        /\ \A j \in Migrations \ {i} : run'[j] = run[j]
    BY <2>1 DEF MigInv, MigType, Run
  <2>3. UNCHANGED <<row, writes, up, mig>> /\ run[i].pc = "row"  BY <1>2 DEF RunRow, world, Quiet
  <2>4. Progress(i) /\ MovedOrAwaited(i)  BY <2>3 DEF MovedInv, Progress, Listed
  <2>5. \A k : Awaits(i, k) => Awaits(i, k)'  BY <2>2, <2>3 DEF Awaits, PreFlip
  <2>6. MovedOrAwaited(i)'  BY <2>2, <2>3, <2>4, <2>5 DEF MovedOrAwaited
  <2>7. Progress(i)'  BY <2>2, <2>3, <2>4, <2>6 DEF Progress
  <2> QED  BY <2>2, <2>3, <2>7, OneMoves
<1> QED  BY <1>1, <1>2

(* An item that is copied, or is there already, stays in hand. *)
LEMMA RunExistsMoved ==
  ASSUME MigInv, MovedInv, NEW i \in Migrations, RunExists(i)
  PROVE  MovedInv'
<1> DEFINE r == IF obj[mig[i].target][run[i].cur.key] # None
                THEN [run[i] EXCEPT !.pc = "flipLock", !.expect = run[i].cur.size]
                ELSE [run[i] EXCEPT !.pc = "read"]
<1>1. run[i] \in Run /\ run[i].cur \in Item  BY DEF RunExists, MigInv, MigType, RunsRecorded, InHandPC, Run
<1>2. /\ r \in Run /\ r.pc \in {"flipLock", "read"} /\ r.cur = run[i].cur /\ r.todo = run[i].todo
      /\ r.since = run[i].since /\ r.node = run[i].node
  BY <1>1 DEF Run, RunPC, Item
<1>3. run' = [run EXCEPT ![i] = r]  BY DEF RunExists, MigInv, MigType
<1> HIDE DEF r
<1>4. UNCHANGED <<row, writes, up, mig>> /\ run[i].pc = "exists"  BY DEF RunExists, world, Quiet
<1> QED  BY <1>2, <1>3, <1>4, GoesMoved DEF Listed, PreFlip

(* So does one that was read, unless the run ends there. *)
LEMMA RunReadMoved ==
  ASSUME MigInv, MovedInv, NEW i \in Migrations, RunRead(i)
  PROVE  MovedInv'
<1> DEFINE d == obj[run[i].cur.src][run[i].cur.key]
           r == [run[i] EXCEPT !.pc = "put", !.got = d]
<1>1. run[i] \in Run /\ run[i].cur \in Item  BY DEF RunRead, MigInv, MigType, RunsRecorded, InHandPC, Run
<1>2. CASE d = None  BY <1>2, ExitMoved DEF RunRead, FinishAs, Quiet
<1>3. CASE d # None
  <2>1. d \in Contents  BY <1>1, <1>3 DEF MigInv, MigType, Item
  <2> HIDE DEF d
  <2>2. /\ r \in Run /\ r.pc = "put" /\ r.cur = run[i].cur /\ r.todo = run[i].todo
        /\ r.since = run[i].since /\ r.node = run[i].node
    BY <1>1, <2>1 DEF Run, RunPC
  <2>3. run' = [run EXCEPT ![i] = r]  BY <1>3 DEF RunRead, d, MigInv, MigType
  <2>4. UNCHANGED <<row, writes, up, mig>> /\ run[i].pc = "read"  BY <1>3 DEF RunRead, d, world, Quiet
  <2> HIDE DEF r
  <2> QED  BY <2>2, <2>3, <2>4, GoesMoved DEF Listed, PreFlip
<1> QED  BY <1>2, <1>3

(* And one whose copy stands. *)
LEMMA RunRecheckMoved ==
  ASSUME MigInv, MovedInv, NEW i \in Migrations, RunRecheck(i)
  PROVE  MovedInv'
<1> DEFINE n == SizeOf[run[i].got]
           r == [run[i] EXCEPT !.pc = "flipLock", !.expect = n]
<1>1. run[i] \in Run /\ n \in Nat /\ run[i].pc = "recheck" /\ UNCHANGED <<row, writes, up>>
  BY MigrationAssumption DEF RunRecheck, Quiet, MigInv, MigType, RunsRecorded, Run
<1>2. CASE run' = [run EXCEPT ![i].pc = "flipLock", ![i].expect = n] /\ UNCHANGED mig
  <2>1. /\ r \in Run /\ r.pc = "flipLock" /\ r.cur = run[i].cur /\ r.todo = run[i].todo
        /\ r.since = run[i].since /\ r.node = run[i].node
    BY <1>1 DEF Run, RunPC
  <2>2. run' = [run EXCEPT ![i] = r]  BY <1>2 DEF MigInv, MigType
  <2> HIDE DEF r
  <2> QED  BY <1>1, <1>2, <2>1, <2>2, GoesMoved DEF Listed, PreFlip
<1>3. CASE FinishAs(i, "failed")  BY <1>1, <1>3, ExitMoved DEF FinishAs
<1> QED  BY <1>2, <1>3 DEF RunRecheck

(* The flip moves the rows of the item. *)
LEMMA RunFlipMoved ==
  ASSUME MigInv, MovedInv, NEW i \in Migrations, RunFlip(i)
  PROVE  MovedInv'
<1>1. /\ run'[i].pc = "count" /\ run'[i].todo = run[i].todo
      /\ run'[i].since = run[i].since /\ run'[i].node = run[i].node
      /\ \A j \in Migrations \ {i} : run'[j] = run[j]
  BY DEF RunFlip, Goto, MigInv, MigType, Run
<1>2. UNCHANGED <<writes, up, mig>> /\ run[i].pc = "flip"  BY DEF RunFlip, Quiet
<1>3. Progress(i) /\ MovedOrAwaited(i)  BY <1>2 DEF MovedInv, Progress, Listed, PreFlip
<1>4. ASSUME NEW p \in Paths \ Foreign, row'[p] # None, row'[p].ver <= run[i].since
      PROVE  row'[p].store = mig[i].target \/ Awaits(i, KeyOf[p])'
  <2>1. CASE row[p] # None /\ KeyOf[p] = run[i].cur.key
    BY <2>1 DEF RunFlip, MigInv, MigType, Row
  <2>2. CASE ~(row[p] # None /\ KeyOf[p] = run[i].cur.key)
    <3>1. row'[p] = row[p]  BY <2>2 DEF RunFlip
    <3>2. row[p].store = mig[i].target \/ Awaits(i, KeyOf[p])  BY <1>3, <1>4, <3>1 DEF MovedOrAwaited
    <3>3. Awaits(i, KeyOf[p]) => \E r \in run[i].todo : r.key = KeyOf[p]  BY <1>4, <2>2, <3>1 DEF Awaits
    <3> QED  BY <1>1, <3>1, <3>2, <3>3 DEF Awaits
  <2> QED  BY <2>1, <2>2
<1>5. MovedOrAwaited(i)'  BY <1>1, <1>2, <1>3, <1>4 DEF MovedOrAwaited
<1>6. Progress(i)'  BY <1>1, <1>2, <1>3, <1>5 DEF Progress
<1> QED  BY <1>1, <1>2, <1>6, OneMoves

(* A migration begins when none is active, so no goroutine runs. *)
LEMMA StartMoved ==
  ASSUME MigInv, MovedInv, NEW n \in Nodes, NEW t \in Stores, Start(n, t)
  PROVE  MovedInv'
<1>1. \A j \in Migrations : mig[j].status \notin Active /\ run[j].pc = "none"
  BY DEF MovedInv, Progress, Start, ActiveMigrations
<1>2. PICK i \in Migrations :
        /\ mig' = [mig EXCEPT ![i] = [status |-> "pending", target |-> t]]
        /\ run' = [run EXCEPT ![i] = [NoRun EXCEPT !.pc = "start", !.node = n]]
  BY DEF Start
<1>3. /\ run'[i].pc = "start" /\ run'[i].node = n /\ mig'[i].status = "pending"
      /\ \A j \in Migrations \ {i} : run'[j] = run[j] /\ mig'[j] = mig[j]
  BY <1>2 DEF NoRun, MigInv, MigType, MigrationRows
<1>4. OneActive'  BY <1>1, <1>3 DEF OneActive
<1>5. \A j \in Migrations : Progress(j)'
  BY <1>1, <1>3 DEF Progress, Listed, PreFlip, Active, Start
<1> QED  BY <1>4, <1>5 DEF MovedInv, Start

(* A goroutine is told something or is gone, and the migrations of those that go on
   stay as they are. *)
LEMMA LifeMoved ==
  ASSUME MigInv, MovedInv, UNCHANGED <<row, repoStore, writes>>,
         up' \subseteq Nodes, ~Failures => up' = Nodes,
         \A j \in Migrations :
            /\ mig'[j].status \in Active => mig[j].status \in Active
            /\ \/ run'[j].pc = "none"
               \/ /\ run'[j].pc = run[j].pc /\ run'[j].cur = run[j].cur /\ run'[j].todo = run[j].todo
                  /\ run'[j].since = run[j].since /\ run'[j].node = run[j].node /\ mig'[j] = mig[j]
                  /\ run[j].node \in up'
  PROVE  MovedInv'
<1>1. OneActive'  BY DEF MovedInv, OneActive
<1>2. ASSUME NEW j \in Migrations PROVE Progress(j)'
  <2>1. CASE run'[j].pc = "none"  BY <2>1 DEF Progress, Listed, PreFlip
  <2>2. CASE run'[j].pc # "none"
    <3>1. Progress(j)  BY DEF MovedInv
    <3>2. MovedOrAwaited(j) => MovedOrAwaited(j)'  BY <2>2 DEF MovedOrAwaited, Awaits
    <3> QED  BY <2>2, <3>1, <3>2 DEF Progress
  <2> QED  BY <2>1, <2>2
<1> QED  BY <1>1, <1>2 DEF MovedInv

(* Cancellations, the end of the TTL, crashes and restarts, one server at a time. *)
LEMMA ServerMoved ==
  ASSUME MigInv, MovedInv, InTurn,
         Expire \/ (\E i \in Migrations : Cancel(i)) \/ \E n \in Nodes : Crash(n) \/ Restart(n)
  PROVE  MovedInv'
<1>1. run \in [Migrations -> Run]  BY DEF MigInv, MigType
<1>2. \A j \in Migrations : run[j].pc # "none" => run[j].node \in up  BY DEF MovedInv, Progress
<1>3. ASSUME NEW i \in Migrations, Cancel(i) PROVE MovedInv'
  <2>1. \A j \in Migrations :
          /\ run'[j].pc = run[j].pc /\ run'[j].cur = run[j].cur /\ run'[j].todo = run[j].todo
          /\ run'[j].since = run[j].since /\ run'[j].node = run[j].node
    BY <1>1, <1>3 DEF Cancel, Run
  <2>2. UNCHANGED <<row, repoStore, writes, up, mig>>  BY <1>3 DEF Cancel, history
  <2> QED  BY <1>2, <2>1, <2>2, LifeMoved DEF MovedInv
<1>4. CASE Expire
  <2>1. \A j \in Migrations :
          /\ run'[j].pc = run[j].pc /\ run'[j].cur = run[j].cur /\ run'[j].todo = run[j].todo
          /\ run'[j].since = run[j].since /\ run'[j].node = run[j].node
    BY <1>1, <1>4 DEF Expire, Run
  <2>2. UNCHANGED <<row, repoStore, writes, up, mig>>  BY <1>4 DEF Expire, history
  <2> QED  BY <1>2, <2>1, <2>2, LifeMoved DEF MovedInv
<1>5. ASSUME NEW n \in Nodes, Crash(n) PROVE MovedInv'
  <2>1. \A j \in Migrations : run'[j] = IF run[j].node = n THEN NoRun ELSE run[j]  BY <1>5 DEF Crash
  <2>2. UNCHANGED <<row, repoStore, writes, mig>> /\ up' = up \ {n} /\ Failures  BY <1>5 DEF Crash, history
  <2> QED  BY <1>2, <2>1, <2>2, LifeMoved DEF MovedInv, NoRun
<1>6. ASSUME NEW n \in Nodes, Restart(n) PROVE MovedInv'
  <2>1. n \notin up /\ Failures  BY <1>6 DEF Restart, InTurn, MovedInv
  <2>2. up = {}  BY <2>1 DEF InTurn, MovedInv
  <2>3. \A j \in Migrations : run'[j].pc = "none"  BY <1>2, <1>6, <2>2 DEF Restart
  <2>4. \A j \in Migrations : mig'[j].status \in Active => mig[j].status \in Active
    BY <1>6 DEF Restart, ResumeAll, ActiveMigrations, MigInv, MigType, MigrationRows
  <2>5. UNCHANGED <<row, repoStore, writes>> /\ up' \subseteq Nodes  BY <1>6 DEF Restart, history, MovedInv
  <2> QED  BY <2>1, <2>3, <2>4, <2>5, LifeMoved
<1> QED  BY <1>3, <1>4, <1>5, <1>6

(* A row that a client registers is newer than any listing; the others stay or go. *)
LEMMA ClientMoved ==
  ASSUME MigInv, MovedInv, NEW c \in Clients, ClientStep(c)
  PROVE  MovedInv'
<1>1. UNCHANGED <<run, mig, up, repoStore>>
  BY DEF ClientStep, UploadResolve, UploadPut, UploadRegister, UploadAbort, DeleteRead, DeleteLocked
<1>2. writes \in Nat  BY MigrationAssumption DEF MigInv, MigType
<1>3. /\ writes' \in Nat /\ writes <= writes'
      /\ \A p \in Paths : row'[p] \in {row[p], None} \/ (row'[p].ver = writes + 1 /\ writes' = writes + 1)
  <2>1. CASE UploadRegister(c)
    <3>1. client[c].path \in Paths  BY <2>1 DEF UploadRegister, MigInv, MigType, ClientsApart, Request
    <3> QED  BY <1>2, <2>1, <3>1 DEF UploadRegister, MigInv, MigType
  <2>2. CASE DeleteLocked(c)  BY <1>2, <2>2 DEF DeleteLocked, MigInv, MigType
  <2>3. CASE ~(UploadRegister(c) \/ DeleteLocked(c))
    <3>1. UNCHANGED <<row, writes>>
      BY <2>3 DEF ClientStep, UploadResolve, UploadPut, UploadAbort, DeleteRead, history
    <3> QED  BY <1>2, <3>1
  <2> QED  BY <2>1, <2>2, <2>3
<1>4. ASSUME NEW i \in Migrations PROVE Progress(i)'
  <2>1. run[i].since \in Nat  BY DEF MigInv, MigType, Run
  <2>2. MovedOrAwaited(i) => MovedOrAwaited(i)'
    <3>1. SUFFICES ASSUME MovedOrAwaited(i) PROVE MovedOrAwaited(i)'  OBVIOUS
    <3>2. run[i].since <= writes'  BY <1>2, <1>3, <2>1, <3>1 DEF MovedOrAwaited
    <3>3. ASSUME NEW p \in Paths \ Foreign, row'[p] # None, row'[p].ver <= run[i].since
          PROVE  row[p].store = mig[i].target \/ Awaits(i, KeyOf[p])
      BY <1>2, <1>3, <2>1, <3>1, <3>3 DEF MovedOrAwaited
    <3>4. \A p \in Paths : row'[p] # None /\ row'[p].ver <= run[i].since => row'[p] = row[p]
      BY <1>2, <1>3, <2>1, <3>1 DEF MovedOrAwaited
    <3> QED  BY <1>1, <3>2, <3>3, <3>4 DEF MovedOrAwaited, Awaits
  <2> QED  BY <1>1, <2>2 DEF MovedInv, Progress
<1> QED  BY <1>1, <1>4 DEF MovedInv, OneActive

(* Every step keeps the invariant. *)
LEMMA StepMoved == ASSUME InTurn, MigInv, MovedInv, [Next]_vars PROVE MovedInv'
<1>1. ASSUME NEW n \in Nodes, NEW t \in Stores, Start(n, t) PROVE MovedInv'  BY <1>1, StartMoved
<1>2. ASSUME NEW n \in Nodes, Crash(n) \/ Restart(n) PROVE MovedInv'  BY <1>2, ServerMoved
<1>3. CASE Expire  BY <1>3, ServerMoved
<1>4. ASSUME NEW i \in Migrations, Cancel(i) PROVE MovedInv'  BY <1>4, ServerMoved
<1>5. ASSUME NEW i \in Migrations, RunStep(i) \/ RunFlipLock(i) \/ RunFail(i) PROVE MovedInv'
  BY <1>5, RoutineMoved, RunStartMoved, RunListMoved, RunRowMoved, RunExistsMoved, RunReadMoved,
     RunRecheckMoved, RunFlipMoved DEF RunStep
<1>6. ASSUME NEW c \in Clients, ClientStep(c) PROVE MovedInv'  BY <1>6, ClientMoved
<1>7. CASE UNCHANGED vars
  BY <1>7 DEF vars, MovedInv, OneActive, Progress, MovedOrAwaited, Awaits
<1> QED  BY <1>1, <1>2, <1>3, <1>4, <1>5, <1>6, <1>7 DEF Next

(* Only a goroutine at its end reports "done". *)
LEMMA EndsAtDone ==
  ASSUME MigInv, [Next]_vars, NEW i \in Migrations, Ends(i)
  PROVE  RunDone(i)
<1>1. ASSUME NEW n \in Nodes, NEW t \in Stores, Start(n, t) PROVE FALSE
  BY <1>1 DEF Start, Ends, MigInv, MigType, MigrationRows
<1>2. ASSUME NEW n \in Nodes, Crash(n) \/ Restart(n) PROVE FALSE
  BY <1>2 DEF Crash, Restart, ResumeAll, Ends, MigInv, MigType, MigrationRows
<1>3. ASSUME NEW j \in Migrations, RunStep(j) \/ RunFlipLock(j) \/ RunFail(j) PROVE RunDone(i)
  <2>1. ASSUME NEW s, FinishMigration(j, s) PROVE i = j /\ s = "done"
    BY <2>1 DEF FinishMigration, Ends, MigInv, MigType, MigrationRows
  <2>2. mig' # mig  BY DEF Ends
  <2>3. CASE RunStart(j)  BY <2>2, <2>3, <2>1 DEF RunStart, FinishMigration
  <2>4. CASE RunRow(j) \/ RunRead(j) \/ RunRecheck(j) \/ RunFlipSize(j) \/ RunDone(j)
    <3>1. (\E t \in {"cancelled", "failed"} : FinishMigration(j, t)) \/ RunDone(j)
      BY <2>2, <2>4 DEF RunRow, RunRead, RunRecheck, RunFlipSize, FinishAs
    <3>2. RunDone(j) => FinishMigration(j, "done")  BY DEF RunDone, FinishAs
    <3> QED  BY <2>1, <3>1, <3>2
  <2>5. CASE \/ RunList(j) \/ RunRowsDone(j) \/ RunExists(j) \/ RunPut(j) \/ RunFlip(j) \/ RunCount(j)
             \/ RunDrop(j) \/ RunFinish(j)
    BY <2>2, <2>5 DEF RunList, RunRowsDone, RunExists, RunPut, RunFlip, RunCount, RunDrop, RunFinish
  <2>6. CASE RunFlipLock(j) \/ RunFail(j)  BY <2>1, <2>2, <2>6 DEF RunFlipLock, RunFail, FinishAs
  <2> QED  BY <1>3, <2>3, <2>4, <2>5, <2>6 DEF RunStep
<1>4. mig' # mig  BY DEF Ends
<1>5. ASSUME NEW c \in Clients, ClientStep(c) PROVE FALSE
  BY <1>4, <1>5 DEF ClientStep, UploadResolve, UploadPut, UploadRegister, UploadAbort, DeleteRead, DeleteLocked
<1> QED  BY <1>1, <1>2, <1>3, <1>4, <1>5 DEF Next, Expire, Cancel, vars

(* A goroutine at its end awaits nothing. *)
LEMMA DoneMoved ==
  ASSUME MigInv, MovedInv, [Next]_vars
  PROVE  RowsMoved /\ (~Failures => EndsMoved)
<1>1. ASSUME NEW i \in Migrations, Ends(i)
      PROVE  /\ \A p \in Paths \ Foreign :
                  row[p] # None /\ row[p].ver <= run[i].since => row[p].store = mig[i].target
             /\ ~Failures => repoStore = mig[i].target
  <2>1. run[i].pc = "done"  BY <1>1, EndsAtDone DEF RunDone
  <2>2. MovedOrAwaited(i) /\ run[i].todo = {} /\ (~Failures => repoStore = mig[i].target)
    BY <2>1 DEF MovedInv, Progress, Listed
  <2> QED  BY <2>1, <2>2 DEF MovedOrAwaited, Awaits, PreFlip
<1> QED  BY <1>1 DEF RowsMoved, EndsMoved

(* A migration that reports "done" has moved every row that it listed and that nobody
   rewrote since, whatever calls failed, clients did and servers crashed before, while
   migrations follow each other (blob_store_migration_service.go runMigration,
   ListForBlobStoreMigration). *)
THEOREM DoneMovedRows == ASSUME InTurn PROVE Spec => [][RowsMoved]_vars
<1>1. Init => MigInv /\ MovedInv  BY InitHolds, InitMoved
<1>2. MigInv /\ MovedInv /\ [Next]_vars => MigInv' /\ MovedInv'  BY StepHolds, StepMoved
<1>3. MigInv /\ MovedInv /\ [Next]_vars => RowsMoved  BY DoneMoved
<1> QED  BY <1>1, <1>2, <1>3, PTL DEF Spec

(* Without a failing call the repository itself is in the target too. *)
THEOREM DoneMovedAll == ASSUME InTurn, ~Failures PROVE Spec => DoneMeansMoved
<1>1. Init => MigInv /\ MovedInv  BY InitHolds, InitMoved
<1>2. MigInv /\ MovedInv /\ [Next]_vars => MigInv' /\ MovedInv'  BY StepHolds, StepMoved
<1>3. MigInv /\ MovedInv /\ [Next]_vars => EndsMoved  BY DoneMoved
<1> QED  BY <1>1, <1>2, <1>3, PTL DEF Spec, DoneMeansMoved

=============================================================================
