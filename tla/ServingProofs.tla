--------------------------- MODULE ServingProofs ---------------------------
(* Promises to the clients of a running registry, for any number of them.

   Proxy repositories.  CacheCoherent speaks of the row, the bytes and the copy a 304
   is about to serve.  An induction also has to know where each request stands: that
   at most one of them writes while nothing is counted as an overlap, that what it
   writes is what the upstream has, that a request which asks "modified since?" asks
   about a moment no later than the row's own, as long as the row it read is there,
   and that the copy it keeps open is the upstream's version if nothing is newer than
   that moment.

   Event broker.  Its promise speaks of the moments at which no publisher still has
   the listener on its list.  What an induction can carry says how many of them have:
   the ledger of a listener balances at every moment if each publisher that has not
   served it yet is entered in it.  A channel on such a list is open because Subscribe
   and Unsubscribe wait for every publisher's read lock.

   Upload sessions.  DigestHolds speaks of what is registered, and the finalising PUT
   reads the session twice.  In between, whatever is or may still become the content of
   the session begins with the digest's (Begins): the object, what the state object has
   staged, and what the other requests carry in their own copies of it.  A content that
   begins with the digest's and has its length is the digest's.

   Images.  A row serves what its key has now, so the invariant follows the pushes from
   the bytes they put to the rows they write: unless two overlap, a push finds under its
   reference what it put there (PutDone) and its layers beside it (LayersPushed), a row
   whose component does not say what it refers to has a push that will (RowsTold), and a
   removal that has compared its layers takes none a row needs (LayersSpared). *)
EXTENDS ProxyCache, Sequences, FiniteSetTheorems, SequenceTheorems, WellFoundedInduction, TLAPS

(* There is a first version, and None is neither a version nor a row. *)
ProxyConstants == MaxVersion \in Nat \ {0} /\ None \notin Nat /\ None \notin Rows

Writing(r) == get[r].pc \in {"fill", "register", "refused", "drop"}
Asking(r) == get[r].pc \in {"ask", "touch"}

(* What a request has open or has fetched is a whole version. *)
HoldsWhole == \A r \in Readers : Writing(r) \/ Asking(r) => get[r].got # Cut

(* A reader whose answer is cut was cut off by the upstream, or read a row and bytes
   of two fills. *)
AnswersOK == /\ answer \in [Readers -> Versions \cup {Cut, None}] /\ broken \subseteq Readers
             /\ \A r \in Readers : answer[r] = Cut => r \in broken

OneWriter == \A q, r \in Readers : Writing(q) /\ Writing(r) => q = r
WriterOK ==
  \A r \in Readers :
    /\ Writing(r) => get[r].got = upstream
    /\ Writing(r) /\ get[r].pc # "fill" => blob = get[r].got
    /\ get[r].pc = "drop" => row = None
AskerOK ==
  \A r \in Readers : Asking(r) =>
    /\ get[r].since <= upstream
    /\ upstream <= get[r].since => get[r].got = upstream
    /\ get[r].pc = "touch" => upstream <= get[r].since
    /\ row # None /\ get[r].live => get[r].since <= row.modified
RowOK ==
  row # None =>
    /\ row.modified = row.version /\ row.modified <= upstream
    /\ blob \in {row.version, None} \/ \E r \in Readers : At(r, "register") \/ At(r, "refused")

Undisturbed == OneWriter /\ WriterOK /\ AskerOK /\ RowOK
ProxyInv == TypeOK /\ HoldsWhole /\ AnswersOK /\ (~overlap => Undisturbed)

(* The requests of TypeOK. *)
Requests == [pc : {"idle", "ask", "touch", "open", "fill", "register", "refused", "drop"},
             since : 0..MaxVersion, says : 0..MaxVersion, live : BOOLEAN, got : 0..MaxVersion]
----------------------------------------------------------------------------
(* An empty cache. *)
LEMMA InitHolds == ASSUME ProxyConstants, Init PROVE ProxyInv
<1> USE DEF ProxyConstants, Init, Idle, Versions, Cut, Writing, Asking, At
<1>1. TypeOK
  <2>1. Idle \in Requests  BY DEF Requests
  <2>2. get \in [Readers -> Requests]  BY <2>1
  <2>3. overlap \in BOOLEAN  BY Zenon
  <2> QED  BY <2>2, <2>3 DEF TypeOK, Requests
<1>2. \A r \in Readers : ~Writing(r) /\ ~Asking(r)  OBVIOUS
<1>3. AnswersOK  BY DEF AnswersOK
<1> QED  BY <1>1, <1>2, <1>3 DEF ProxyInv, HoldsWhole, Undisturbed, OneWriter, WriterOK, AskerOK, RowOK

(* A request that stops asking or writing, or that waits for the upstream's answer,
   disturbs nothing, unless it was about to register what it has written. *)
LEMMA Leaves ==
  ASSUME ProxyConstants, ProxyInv, NEW r \in Readers,
         UNCHANGED <<upstream, row, blob, overlap>>,
         get' \in [Readers -> Requests], AnswersOK',
         \A q \in Readers \ {r} : get'[q] = get[q],
         get'[r].pc \in {"idle", "open"}, get[r].pc \notin {"register", "refused"}
  PROVE  ProxyInv'
<1> USE DEF Writing, Asking, At
<1>1. ~(Writing(r)') /\ ~(Asking(r)')  OBVIOUS
<1>2. TypeOK'  BY DEF ProxyInv, TypeOK, Requests, AnswersOK
<1>3. HoldsWhole'  BY <1>1 DEF ProxyInv, HoldsWhole
<1>4. ASSUME ~overlap' PROVE Undisturbed'
  <2>1. Undisturbed  BY <1>4 DEF ProxyInv
  <2>2. OneWriter'  BY <1>1, <2>1 DEF Undisturbed, OneWriter
  <2>3. WriterOK'  BY <1>1, <2>1 DEF Undisturbed, WriterOK
  <2>4. AskerOK'  BY <1>1, <2>1 DEF Undisturbed, AskerOK
  <2>5. RowOK'  BY <2>1 DEF Undisturbed, RowOK
  <2> QED  BY <2>2, <2>3, <2>4, <2>5 DEF Undisturbed
<1> QED  BY <1>2, <1>3, <1>4 DEF ProxyInv

(* A whole answer is not cut, and one that breaks off is recorded. *)
LEMMA Answered ==
  ASSUME ProxyConstants, ProxyInv, NEW r \in Readers,
         \/ \E v \in Versions : Given(r, v)
         \/ BrokenOff(r) \/ NotGiven
  PROVE  AnswersOK'
  BY DEF ProxyConstants, ProxyInv, AnswersOK, Given, BrokenOff, NotGiven, Versions, Cut
LEMMA Unanswered == ASSUME ProxyInv, NotGiven PROVE AnswersOK'
  BY DEF ProxyInv, AnswersOK, NotGiven

(* The steps of that kind: an answer from the cache, a miss, a copy that is out of
   date or cannot be confirmed, a fetch that fails or is passed on, a broken write. *)
Retreat(r) == \/ ServeCached(r) \/ Miss(r) \/ Modified(r) \/ Unconfirmed(r)
              \/ FetchFails(r) \/ PassOn(r) \/ CacheWriteFails(r)

LEMMA RetreatHolds ==
  ASSUME ProxyConstants, ProxyInv, NEW r \in Readers, Retreat(r)
  PROVE  ProxyInv'
<1> USE DEF ProxyConstants, ProxyInv, TypeOK, Requests, Versions, Cut, At, Go, End, Idle
<1>1. /\ UNCHANGED <<upstream, row, blob, overlap>>
      /\ get[r].pc \notin {"register", "refused"}
  BY DEF Retreat, ServeCached, Miss, Modified, Unconfirmed, FetchFails, PassOn, CacheWriteFails
<1>2. AnswersOK'
  <2>1. \/ \E v \in Versions : Given(r, v)
        \/ BrokenOff(r) \/ NotGiven
    <3>1. Asking(r) \/ Writing(r) => get[r].got \in Versions  BY DEF HoldsWhole
    <3> QED  BY <3>1 DEF Retreat, ServeCached, Miss, Modified, Unconfirmed, FetchFails, PassOn,
                         CacheWriteFails, Serve, Asking, Writing
  <2> QED  BY <2>1, Answered
<1>3. \/ get' = get /\ get[r].pc = "idle"
      \/ get' = [get EXCEPT ![r] = Idle]
      \/ get' = [get EXCEPT ![r].pc = "open"]
  BY Zenon DEF Retreat, ServeCached, Miss, Modified, Unconfirmed, FetchFails, PassOn, CacheWriteFails
<1>4. /\ get' \in [Readers -> Requests] /\ get'[r].pc \in {"idle", "open"}
      /\ \A q \in Readers \ {r} : get'[q] = get[q]
  <2>1. Idle \in Requests  OBVIOUS
  <2>2. CASE get' = get /\ get[r].pc = "idle"  BY <2>2
  <2>3. CASE get' = [get EXCEPT ![r] = Idle]  BY <2>1, <2>3
  <2>4. CASE get' = [get EXCEPT ![r].pc = "open"]  BY <2>4
  <2> QED  BY <1>3, <2>2, <2>3, <2>4
<1> QED  BY <1>1, <1>2, <1>4, Leaves

(* A stale copy is asked about with the row's own moment; its bytes are those the row
   describes or those of the one writer, which are the upstream's. *)
LEMMA StaleHolds ==
  ASSUME ProxyConstants, ProxyInv, NEW r \in Readers, Stale(r)
  PROVE  ProxyInv'
<1> USE DEF ProxyConstants, Versions, Cut, Rows, At, Go, End, Idle, Filling, Writing, Asking
<1>0. AnswersOK'  BY Unanswered DEF Stale
<1>1. TypeOK'
  <2>1. [pc |-> "ask", since |-> row.modified, says |-> row.version, live |-> TRUE, got |-> blob] \in Requests
    BY DEF ProxyInv, TypeOK, Stale, Requests
  <2>2. get' \in [Readers -> Requests]  BY <2>1 DEF ProxyInv, TypeOK, Requests, Stale
  <2> QED  BY <1>0, <2>2 DEF AnswersOK, ProxyInv, TypeOK, Requests, Stale
<1>2. HoldsWhole'
  BY DEF ProxyInv, TypeOK, HoldsWhole, Stale
<1>3. ASSUME ~overlap' PROVE Undisturbed'
  <2>1. ~overlap /\ Undisturbed  BY <1>3 DEF ProxyInv, TypeOK, Stale
  <2>2. OneWriter'  BY <1>3, <2>1 DEF ProxyInv, TypeOK, Undisturbed, OneWriter, Stale
  <2>3. WriterOK'  BY <1>3, <2>1 DEF ProxyInv, TypeOK, Undisturbed, WriterOK, Stale
  <2>4. AskerOK'  BY <1>3, <2>1 DEF ProxyInv, TypeOK, Undisturbed, WriterOK, AskerOK, RowOK, Stale
  <2>5. RowOK'  BY <1>3, <2>1 DEF ProxyInv, TypeOK, Undisturbed, RowOK, Stale
  <2> QED  BY <2>2, <2>3, <2>4, <2>5 DEF Undisturbed
<1> QED  BY <1>0, <1>1, <1>2, <1>3 DEF ProxyInv

(* A 304 means that nothing is newer than the moment asked about. *)
LEMMA NotModifiedHolds ==
  ASSUME ProxyConstants, ProxyInv, NEW r \in Readers, NotModified(r)
  PROVE  ProxyInv'
<1> USE DEF ProxyConstants, Versions, Cut, Rows, At, Go, End, Idle, Filling, Writing, Asking
<1>0. AnswersOK'  BY Unanswered DEF NotModified
<1>1. TypeOK'
  <2>1. get' \in [Readers -> Requests]  BY DEF ProxyInv, TypeOK, Requests, NotModified
  <2> QED  BY <1>0, <2>1 DEF AnswersOK, ProxyInv, TypeOK, Requests, NotModified
<1>2. HoldsWhole'
  BY DEF ProxyInv, TypeOK, HoldsWhole, NotModified
<1>3. ASSUME ~overlap' PROVE Undisturbed'
  <2>1. ~overlap /\ Undisturbed  BY <1>3 DEF ProxyInv, TypeOK, NotModified
  <2>2. OneWriter'  BY <1>3, <2>1 DEF ProxyInv, TypeOK, Undisturbed, OneWriter, NotModified
  <2>3. WriterOK'  BY <1>3, <2>1 DEF ProxyInv, TypeOK, Undisturbed, WriterOK, NotModified
  <2>4. AskerOK'  BY <1>3, <2>1 DEF ProxyInv, TypeOK, Undisturbed, AskerOK, NotModified
  <2>5. RowOK'  BY <1>3, <2>1 DEF ProxyInv, TypeOK, Undisturbed, RowOK, NotModified
  <2> QED  BY <2>2, <2>3, <2>4, <2>5 DEF Undisturbed
<1> QED  BY <1>0, <1>1, <1>2, <1>3 DEF ProxyInv

(* The row that is touched describes the upstream's version: its moment is no earlier
   than the one asked about, and that is the upstream's. *)
LEMMA TouchLastModifiedHolds ==
  ASSUME ProxyConstants, ProxyInv, NEW r \in Readers, TouchLastModified(r)
  PROVE  ProxyInv'
<1> USE DEF ProxyConstants, Versions, Cut, Rows, At, Go, End, Idle, Filling, Writing, Asking, Touched
<1>0. AnswersOK'
  <2>1. get[r].got \in Versions  BY DEF ProxyInv, TypeOK, HoldsWhole, TouchLastModified
  <2> QED  BY <2>1, Answered DEF TouchLastModified, Serve
<1>1. TypeOK'
  <2>1. Idle \in Requests  BY DEF Requests
  <2>2. get' \in [Readers -> Requests]  BY <2>1 DEF ProxyInv, TypeOK, Requests, TouchLastModified
  <2>3. row' \in Rows \cup {None}  BY DEF ProxyInv, TypeOK, TouchLastModified
  <2> QED  BY <1>0, <2>2, <2>3 DEF AnswersOK, ProxyInv, TypeOK, Requests, TouchLastModified
<1>2. HoldsWhole'
  BY DEF ProxyInv, TypeOK, HoldsWhole, TouchLastModified
<1>3. ASSUME ~overlap' PROVE Undisturbed'
  <2>1. ~overlap /\ Undisturbed  BY <1>3 DEF ProxyInv, TypeOK, TouchLastModified
  <2>2. OneWriter'  BY <1>3, <2>1 DEF ProxyInv, TypeOK, Undisturbed, OneWriter, TouchLastModified
  <2>3. WriterOK'  BY <1>3, <2>1 DEF ProxyInv, TypeOK, Undisturbed, WriterOK, TouchLastModified
  <2>4. AskerOK'  BY <1>3, <2>1 DEF ProxyInv, TypeOK, Undisturbed, AskerOK, TouchLastModified
  <2>5. RowOK'  BY <1>3, <2>1 DEF ProxyInv, TypeOK, Undisturbed, AskerOK, RowOK, TouchLastModified
  <2> QED  BY <2>2, <2>3, <2>4, <2>5 DEF Undisturbed
<1> QED  BY <1>0, <1>1, <1>2, <1>3 DEF ProxyInv

(* A fetch that finds another writer or a 304 in progress is an overlap. *)
LEMMA FetchHolds ==
  ASSUME ProxyConstants, ProxyInv, NEW r \in Readers, Fetch(r)
  PROVE  ProxyInv'
<1> USE DEF ProxyConstants, Versions, Cut, Rows, At, Go, End, Idle, Filling, Writing, Asking
<1>0. AnswersOK'  BY Unanswered DEF Fetch
<1>1. TypeOK'
  <2>1. overlap' \in BOOLEAN  BY Zenon DEF ProxyInv, TypeOK, Fetch
  <2>2. get[r] \in Requests /\ upstream \in 0..MaxVersion  BY DEF ProxyInv, TypeOK, Requests
  <2>3. get' = [get EXCEPT ![r] = [get[r] EXCEPT !.pc = "fill", !.got = upstream]]  BY DEF ProxyInv, TypeOK, Fetch
  <2>4. [get[r] EXCEPT !.pc = "fill", !.got = upstream] \in Requests  BY <2>2 DEF Requests
  <2>5. get' \in [Readers -> Requests]  BY <2>3, <2>4 DEF ProxyInv, TypeOK, Requests
  <2> QED  BY <1>0, <2>1, <2>5 DEF AnswersOK, ProxyInv, TypeOK, Requests, Fetch
<1>2. HoldsWhole'
  BY DEF ProxyInv, TypeOK, HoldsWhole, Fetch
<1>3. ASSUME ~overlap' PROVE Undisturbed'
  <2>1. ~overlap /\ Undisturbed  BY <1>3 DEF ProxyInv, TypeOK, Fetch
  <2>2. OneWriter'  BY <1>3, <2>1 DEF ProxyInv, TypeOK, Undisturbed, OneWriter, Fetch
  <2>3. WriterOK'  BY <1>3, <2>1 DEF ProxyInv, TypeOK, Undisturbed, OneWriter, WriterOK, Fetch
  <2>4. AskerOK'  BY <1>3, <2>1 DEF ProxyInv, TypeOK, Undisturbed, AskerOK, Fetch
  <2>5. RowOK'  BY <1>3, <2>1 DEF ProxyInv, TypeOK, Undisturbed, RowOK, Fetch
  <2> QED  BY <2>2, <2>3, <2>4, <2>5 DEF Undisturbed
<1> QED  BY <1>0, <1>1, <1>2, <1>3 DEF ProxyInv

(* The bytes at the key may differ from the row's until the writer registers them. *)
LEMMA CacheWriteHolds ==
  ASSUME ProxyConstants, ProxyInv, NEW r \in Readers, CacheWrite(r)
  PROVE  ProxyInv'
<1> USE DEF ProxyConstants, Versions, Cut, Rows, At, Go, End, Idle, Filling, Writing, Asking
<1>0. AnswersOK'
  <2>1. get[r].got \in Versions  BY DEF ProxyInv, TypeOK, HoldsWhole, CacheWrite
  <2> QED  BY <2>1, Answered DEF CacheWrite
<1>1. TypeOK'
  BY <1>0 DEF AnswersOK, ProxyInv, TypeOK, HoldsWhole, CacheWrite
<1>2. HoldsWhole'
  BY DEF ProxyInv, TypeOK, HoldsWhole, CacheWrite
<1>3. ASSUME ~overlap' PROVE Undisturbed'
  <2>1. ~overlap /\ Undisturbed  BY <1>3 DEF ProxyInv, TypeOK, CacheWrite
  <2>2. OneWriter'  BY <1>3, <2>1 DEF ProxyInv, TypeOK, Undisturbed, OneWriter, CacheWrite
  <2>3. WriterOK'  BY <1>3, <2>1 DEF ProxyInv, TypeOK, Undisturbed, OneWriter, WriterOK, CacheWrite
  <2>4. AskerOK'  BY <1>3, <2>1 DEF ProxyInv, TypeOK, Undisturbed, AskerOK, CacheWrite
  <2>5. RowOK'  BY <1>3, <2>1 DEF ProxyInv, TypeOK, Undisturbed, RowOK, CacheWrite
  <2> QED  BY <2>2, <2>3, <2>4, <2>5 DEF Undisturbed
<1> QED  BY <1>0, <1>1, <1>2, <1>3 DEF ProxyInv

(* A registration that is refused is an overlap; one that is not describes the bytes
   at the key. *)
LEMMA RegisterStoredBlobHolds ==
  ASSUME ProxyConstants, ProxyInv, NEW r \in Readers, RegisterStoredBlob(r)
  PROVE  ProxyInv'
<1> USE DEF ProxyConstants, Versions, Cut, Rows, At, Go, End, Idle, Filling, Writing, Asking
<1>0. AnswersOK'  BY Unanswered DEF RegisterStoredBlob
<1>1. TypeOK'
  <2>1. Idle \in Requests  BY DEF Requests
  <2>2. get' \in [Readers -> Requests]  BY <2>1 DEF ProxyInv, TypeOK, Requests, RegisterStoredBlob
  <2>3. row' \in Rows \cup {None}  BY DEF ProxyInv, TypeOK, HoldsWhole, RegisterStoredBlob
  <2>4. overlap' \in BOOLEAN  BY Zenon DEF ProxyInv, TypeOK, RegisterStoredBlob
  <2> QED  BY <1>0, <2>2, <2>3, <2>4 DEF AnswersOK, ProxyInv, TypeOK, Requests, RegisterStoredBlob
<1>2. HoldsWhole'
  BY DEF ProxyInv, TypeOK, HoldsWhole, RegisterStoredBlob
<1>3. ASSUME ~overlap' PROVE Undisturbed'
  <2>1. ~overlap /\ Undisturbed  BY <1>3 DEF ProxyInv, TypeOK, RegisterStoredBlob
  <2>2. OneWriter'  BY <1>3, <2>1 DEF ProxyInv, TypeOK, Undisturbed, OneWriter, RegisterStoredBlob
  <2>3. WriterOK'  BY <1>3, <2>1 DEF ProxyInv, TypeOK, Undisturbed, OneWriter, WriterOK, RegisterStoredBlob
  <2>4. AskerOK'  BY <1>3, <2>1 DEF ProxyInv, TypeOK, Undisturbed, AskerOK, RegisterStoredBlob
  <2>5. row' = [version |-> get[r].got, modified |-> upstream]  BY <1>3 DEF RegisterStoredBlob
  <2>6. RowOK'  BY <2>5, <2>1 DEF ProxyInv, TypeOK, Undisturbed, WriterOK, RowOK, RegisterStoredBlob
  <2> QED  BY <2>2, <2>3, <2>4, <2>6 DEF Undisturbed
<1> QED  BY <1>0, <1>1, <1>2, <1>3 DEF ProxyInv

(* Bytes that were refused are kept if a row names the key, and that is an overlap. *)
LEMMA DropCheckHolds ==
  ASSUME ProxyConstants, ProxyInv, NEW r \in Readers, DropCheck(r)
  PROVE  ProxyInv'
<1> USE DEF ProxyConstants, Versions, Cut, Rows, At, Go, End, Idle, Filling, Writing, Asking
<1>0. AnswersOK'  BY Unanswered DEF DropCheck
<1>1. TypeOK'
  <2>1. overlap' \in BOOLEAN  BY Zenon DEF ProxyInv, TypeOK, DropCheck
  <2>2. ASSUME row = None PROVE get' \in [Readers -> Requests]
    <3>1. get' = [get EXCEPT ![r].pc = "drop"]  BY <2>2 DEF DropCheck
    <3> QED  BY <3>1 DEF ProxyInv, TypeOK, Requests
  <2>3. ASSUME row # None PROVE get' \in [Readers -> Requests]
    <3>1. get' = [get EXCEPT ![r] = Idle]  BY <2>3 DEF DropCheck
    <3>2. Idle \in Requests  BY DEF Requests
    <3> QED  BY <3>1, <3>2 DEF ProxyInv, TypeOK, Requests
  <2>4. get' \in [Readers -> Requests]  BY <2>2, <2>3
  <2> QED  BY <1>0, <2>1, <2>4 DEF AnswersOK, ProxyInv, TypeOK, Requests, DropCheck
<1>2. HoldsWhole'
  BY DEF ProxyInv, TypeOK, HoldsWhole, DropCheck
<1>3. ASSUME ~overlap' PROVE Undisturbed'
  <2>1. ~overlap /\ Undisturbed  BY <1>3 DEF ProxyInv, TypeOK, DropCheck
  <2>2. OneWriter'  BY <1>3, <2>1 DEF ProxyInv, TypeOK, Undisturbed, OneWriter, DropCheck
  <2>3. WriterOK'  BY <1>3, <2>1 DEF ProxyInv, TypeOK, Undisturbed, WriterOK, DropCheck
  <2>4. AskerOK'  BY <1>3, <2>1 DEF ProxyInv, TypeOK, Undisturbed, AskerOK, DropCheck
  <2>5. RowOK'  BY <1>3, <2>1 DEF ProxyInv, TypeOK, Undisturbed, RowOK, DropCheck
  <2> QED  BY <2>2, <2>3, <2>4, <2>5 DEF Undisturbed
<1> QED  BY <1>0, <1>1, <1>2, <1>3 DEF ProxyInv

(* Bytes are dropped only while there is no row. *)
LEMMA DropUnreferencedBlobHolds ==
  ASSUME ProxyConstants, ProxyInv, NEW r \in Readers, DropUnreferencedBlob(r)
  PROVE  ProxyInv'
<1> USE DEF ProxyConstants, Versions, Cut, Rows, At, Go, End, Idle, Filling, Writing, Asking
<1>0. AnswersOK'  BY Unanswered DEF DropUnreferencedBlob
<1>1. TypeOK'
  <2>1. Idle \in Requests  BY DEF Requests
  <2>2. get' \in [Readers -> Requests]  BY <2>1 DEF ProxyInv, TypeOK, Requests, DropUnreferencedBlob
  <2> QED  BY <1>0, <2>2 DEF AnswersOK, ProxyInv, TypeOK, Requests, DropUnreferencedBlob
<1>2. HoldsWhole'
  BY DEF ProxyInv, TypeOK, HoldsWhole, DropUnreferencedBlob
<1>3. ASSUME ~overlap' PROVE Undisturbed'
  <2>1. ~overlap /\ Undisturbed  BY <1>3 DEF ProxyInv, TypeOK, DropUnreferencedBlob
  <2>2. OneWriter'  BY <1>3, <2>1 DEF ProxyInv, TypeOK, Undisturbed, OneWriter, DropUnreferencedBlob
  <2>3. WriterOK'  BY <1>3, <2>1 DEF ProxyInv, TypeOK, Undisturbed, OneWriter, WriterOK, DropUnreferencedBlob
  <2>4. AskerOK'  BY <1>3, <2>1 DEF ProxyInv, TypeOK, Undisturbed, AskerOK, DropUnreferencedBlob
  <2>5. RowOK'  BY <1>3, <2>1 DEF ProxyInv, TypeOK, Undisturbed, WriterOK, RowOK, DropUnreferencedBlob
  <2> QED  BY <2>2, <2>3, <2>4, <2>5 DEF Undisturbed
<1> QED  BY <1>0, <1>1, <1>2, <1>3 DEF ProxyInv

(* A new version is newer than any moment asked about, and an overlap if someone fills. *)
LEMMA PublishHolds ==
  ASSUME ProxyConstants, ProxyInv, Publish
  PROVE  ProxyInv'
<1> USE DEF ProxyConstants, Versions, Cut, Rows, At, Go, End, Idle, Filling, Writing, Asking
<1>0. AnswersOK'  BY Unanswered DEF Publish
<1>1. TypeOK'
  BY <1>0 DEF AnswersOK, ProxyInv, TypeOK, HoldsWhole, Publish
<1>2. HoldsWhole'
  BY DEF ProxyInv, TypeOK, HoldsWhole, Publish
<1>3. ASSUME ~overlap' PROVE Undisturbed'
  <2>1. ~overlap /\ Undisturbed  BY <1>3 DEF ProxyInv, TypeOK, Publish
  <2>2. OneWriter'  BY <1>3, <2>1 DEF ProxyInv, TypeOK, Undisturbed, OneWriter, Publish
  <2>3. WriterOK'  BY <1>3, <2>1 DEF ProxyInv, TypeOK, Undisturbed, WriterOK, Publish
  <2>4. \A r \in Readers : ~Filling(r)  BY <1>3 DEF Publish
  <2>5. AskerOK'  BY <2>4, <2>1 DEF ProxyInv, TypeOK, Undisturbed, AskerOK, Publish
  <2>6. RowOK'  BY <1>3, <2>1 DEF ProxyInv, TypeOK, Undisturbed, RowOK, Publish
  <2> QED  BY <2>2, <2>3, <2>5, <2>6 DEF Undisturbed
<1> QED  BY <1>0, <1>1, <1>2, <1>3 DEF ProxyInv

(* Nobody who asks is taken for a reader of a later row. *)
LEMMA EvictHolds ==
  ASSUME ProxyConstants, ProxyInv, Evict
  PROVE  ProxyInv'
<1> USE DEF ProxyConstants, Versions, Cut, Rows, At, Go, End, Idle, Filling, Writing, Asking
<1>0. AnswersOK'  BY Unanswered DEF Evict
<1>1. TypeOK'
  BY <1>0, ZenonT(60) DEF AnswersOK, ProxyInv, TypeOK, HoldsWhole, Evict
<1>2. HoldsWhole'
  BY DEF ProxyInv, TypeOK, HoldsWhole, Evict
<1>3. ASSUME ~overlap' PROVE Undisturbed'
  <2>1. ~overlap /\ Undisturbed  BY <1>3 DEF ProxyInv, TypeOK, Evict
  <2>2. \A r \in Readers : ~Filling(r)  BY <1>3 DEF Evict
  <2>3. \A r \in Readers : get'[r].pc = get[r].pc  BY DEF ProxyInv, TypeOK, Evict
  <2>4. \A r \in Readers : ~(Writing(r)')  BY <2>2, <2>3
  <2>5. OneWriter'  BY <2>4 DEF OneWriter
  <2>6. WriterOK'  BY <2>4 DEF WriterOK
  <2>7. AskerOK'  BY <1>3, <2>1 DEF ProxyInv, TypeOK, Undisturbed, AskerOK, Evict
  <2>8. RowOK'  BY <1>3, <2>1 DEF ProxyInv, TypeOK, Undisturbed, RowOK, Evict
  <2> QED  BY <2>5, <2>6, <2>7, <2>8 DEF Undisturbed
<1> QED  BY <1>0, <1>1, <1>2, <1>3 DEF ProxyInv

(* Lost bytes leave a row that a reader takes for a miss. *)
LEMMA LoseBytesHolds ==
  ASSUME ProxyConstants, ProxyInv, LoseBytes
  PROVE  ProxyInv'
<1> USE DEF ProxyConstants, Versions, Cut, Rows, At, Go, End, Idle, Filling, Writing, Asking
<1>0. AnswersOK'  BY Unanswered DEF LoseBytes
<1>1. TypeOK'
  BY <1>0 DEF AnswersOK, ProxyInv, TypeOK, HoldsWhole, LoseBytes
<1>2. HoldsWhole'
  BY DEF ProxyInv, TypeOK, HoldsWhole, LoseBytes
<1>3. ASSUME ~overlap' PROVE Undisturbed'
  <2>1. ~overlap /\ Undisturbed  BY <1>3 DEF ProxyInv, TypeOK, LoseBytes
  <2>2. OneWriter'  BY <1>3, <2>1 DEF ProxyInv, TypeOK, Undisturbed, OneWriter, LoseBytes
  <2>3. WriterOK'  BY <1>3, <2>1 DEF ProxyInv, TypeOK, Undisturbed, WriterOK, LoseBytes
  <2>4. AskerOK'  BY <1>3, <2>1 DEF ProxyInv, TypeOK, Undisturbed, AskerOK, LoseBytes
  <2>5. RowOK'  BY <1>3, <2>1 DEF ProxyInv, TypeOK, Undisturbed, RowOK, LoseBytes
  <2> QED  BY <2>2, <2>3, <2>4, <2>5 DEF Undisturbed
<1> QED  BY <1>0, <1>1, <1>2, <1>3 DEF ProxyInv

(* Every step keeps the invariant. *)
LEMMA StepHolds ==
  ASSUME ProxyConstants, ProxyInv, [Next]_vars
  PROVE  ProxyInv'
<1>1. CASE Publish  BY <1>1, PublishHolds
<1>2. CASE Evict  BY <1>2, EvictHolds
<1>3. CASE LoseBytes  BY <1>3, LoseBytesHolds
<1>4. ASSUME NEW r \in Readers, Retreat(r) PROVE ProxyInv'
  BY <1>4, RetreatHolds
<1>5. ASSUME NEW r \in Readers,
             \/ Stale(r) \/ NotModified(r) \/ TouchLastModified(r) \/ Fetch(r) \/ CacheWrite(r)
             \/ RegisterStoredBlob(r) \/ DropCheck(r) \/ DropUnreferencedBlob(r)
      PROVE  ProxyInv'
  BY <1>5, StaleHolds, NotModifiedHolds, TouchLastModifiedHolds, FetchHolds, CacheWriteHolds,
     RegisterStoredBlobHolds, DropCheckHolds, DropUnreferencedBlobHolds
<1>6. CASE UNCHANGED vars
  BY <1>6 DEF vars, ProxyInv, TypeOK, HoldsWhole, AnswersOK, Undisturbed, OneWriter, WriterOK, AskerOK, RowOK, Writing, Asking, At
<1> QED  BY <1>1, <1>2, <1>3, <1>4, <1>5, <1>6 DEF Next, Retreat

(* The invariant is stronger than the property. *)
LEMMA ImpliesCoherent == ASSUME ProxyConstants, ProxyInv PROVE CacheCoherent
  BY DEF ProxyConstants, ProxyInv, TypeOK, HoldsWhole, AnswersOK, Undisturbed, WriterOK, AskerOK, RowOK,
         CacheCoherent, Writing, Asking, At, Cut, Versions

(* The cache of a proxy repository holds whole documents only, so that an answer is cut
   only by the upstream or by the length of a row of another fill; and unless a
   fill met a change, another fill or a loss, its checksums and validators belong to
   its bytes and a 304 serves the upstream's version (repoproxy.go fetchAndCache,
   storeAndServeResponse, revalidateAndServe). *)
THEOREM ProxyCoherent == ASSUME ProxyConstants PROVE Spec => []CacheCoherent
<1>1. Init => ProxyInv  BY InitHolds
<1>2. ProxyInv /\ [Next]_vars => ProxyInv'  BY StepHolds
<1>3. ProxyInv => CacheCoherent  BY ImpliesCoherent
<1> QED  BY <1>1, <1>2, <1>3, PTL DEF Spec

----------------------------------------------------------------------------
(* The event broker, beside the cache. *)
CONSTANTS Hooks, Listeners, Publishers, BufLen, MaxEvents, MaxChanges, MaxFaults
VARIABLES hook, job, called, chan, seen, dropped, lock, offered, panicked, events, budget

Events == INSTANCE EventBroker

(* What a publisher holds while it is inside the read lock. *)
Round == [event : Nat, todo : SUBSET Listeners]

(* The server has finitely many handlers at work, a channel has a capacity, and
   None, which stands for a publisher outside the lock, is not a round. *)
BrokerConstants ==
  /\ IsFiniteSet(Publishers)
  /\ BufLen \in Nat
  /\ None \notin Round

BrokerType ==
  /\ chan \in [Listeners -> [state : {"none", "open", "closed"}, buf : Seq(Nat)]]
  /\ seen \in [Listeners -> Seq(Nat)]
  /\ dropped \in [Listeners -> Nat] /\ offered \in [Listeners -> Nat]
  /\ lock \in [Publishers -> {None} \cup Round]
  /\ events \in Nat /\ panicked \in BOOLEAN

(* The publishers that have still to serve l. *)
Waiting(l) == {p \in Publishers : lock[p] # None /\ l \in lock[p].todo}

(* A channel a publisher is about to send on is open. *)
OpenWhileListed == \A l \in Listeners : Waiting(l) # {} => chan[l].state = "open"

Balance(l) == offered[l] = Len(seen[l]) + Len(chan[l].buf) + dropped[l] + Cardinality(Waiting(l))

BrokerInv ==
  /\ BrokerType
  /\ OpenWhileListed
  /\ ~panicked
  /\ \A l \in Listeners : Balance(l)

----------------------------------------------------------------------------
(* Counting publishers: the set of those that wait is finite, one more enters it
   with a dispatch, one leaves it with a send. *)
LEMMA WaitingFinite ==
  ASSUME BrokerConstants, NEW l
  PROVE  IsFiniteSet(Waiting(l)) /\ Cardinality(Waiting(l)) \in Nat
  BY FS_Subset, FS_CardinalityType DEF BrokerConstants, Waiting

LEMMA WaitingGains ==
  ASSUME BrokerConstants, NEW l, NEW p, p \notin Waiting(l), Waiting(l)' = Waiting(l) \cup {p}
  PROVE  Cardinality(Waiting(l))' = Cardinality(Waiting(l)) + 1
<1>1. IsFiniteSet(Waiting(l))  BY WaitingFinite
<1>2. Cardinality(Waiting(l) \cup {p}) = Cardinality(Waiting(l)) + 1  BY <1>1, FS_AddElement
<1> QED  BY <1>2

LEMMA WaitingLoses ==
  ASSUME BrokerConstants, NEW l, NEW p \in Waiting(l), Waiting(l)' = Waiting(l) \ {p}
  PROVE  Cardinality(Waiting(l))' = Cardinality(Waiting(l)) - 1
<1>1. IsFiniteSet(Waiting(l))  BY WaitingFinite
<1>2. Cardinality(Waiting(l) \ {p}) = Cardinality(Waiting(l)) - 1  BY <1>1, FS_RemoveElement
<1> QED  BY <1>2

(* The columns of a listener's ledger: what it was offered is what it has seen, what
   its buffer holds, what was dropped and what waits.  A dispatch adds to both sides;
   a send, a drop and a stream move one event from a column to another. *)
LEMMA Columns ==
  ASSUME NEW o \in Nat, NEW s \in Nat, NEW b \in Nat, NEW d \in Nat, NEW w \in Nat,
         o = s + b + d + w
  PROVE  /\ o + 1 = s + b + d + (w + 1)
         /\ o = s + (b + 1) + d + (w - 1)
         /\ o = s + b + (d + 1) + (w - 1)
         /\ o = (s + 1) + (b - 1) + d + w
         /\ w = 0 => o = s + b + d
  OBVIOUS

(* The same of a listener's columns. *)
LEMMA Shifts ==
  ASSUME BrokerConstants, BrokerInv, NEW l \in Listeners
  PROVE  /\ offered[l] + 1 = Len(seen[l]) + Len(chan[l].buf) + dropped[l] + (Cardinality(Waiting(l)) + 1)
         /\ offered[l] = Len(seen[l]) + (Len(chan[l].buf) + 1) + dropped[l] + (Cardinality(Waiting(l)) - 1)
         /\ offered[l] = Len(seen[l]) + Len(chan[l].buf) + (dropped[l] + 1) + (Cardinality(Waiting(l)) - 1)
         /\ offered[l] = (Len(seen[l]) + 1) + (Len(chan[l].buf) - 1) + dropped[l] + Cardinality(Waiting(l))
         /\ Cardinality(Waiting(l)) = 0 => offered[l] = Len(seen[l]) + Len(chan[l].buf) + dropped[l]
<1>1. PICK w \in Nat : w = Cardinality(Waiting(l))  BY WaitingFinite
<1>2. PICK b \in Nat : b = Len(chan[l].buf)
  <2>1. chan[l].buf \in Seq(Nat)  BY DEF BrokerInv, BrokerType
  <2> QED  BY <2>1
<1>3. PICK s \in Nat : s = Len(seen[l])
  <2>1. seen[l] \in Seq(Nat)  BY DEF BrokerInv, BrokerType
  <2> QED  BY <2>1
<1>4. PICK d \in Nat : d = dropped[l]  BY DEF BrokerInv, BrokerType
<1>5. PICK o \in Nat : o = offered[l]  BY DEF BrokerInv, BrokerType
<1>6. o = s + b + d + w  BY <1>1, <1>2, <1>3, <1>4, <1>5, Zenon DEF BrokerInv, Balance
<1>7. /\ o + 1 = s + b + d + (w + 1)
      /\ o = s + (b + 1) + d + (w - 1)
      /\ o = s + b + (d + 1) + (w - 1)
      /\ o = (s + 1) + (b - 1) + d + w
      /\ w = 0 => o = s + b + d
  BY <1>6, Columns
<1> QED  BY <1>1, <1>2, <1>3, <1>4, <1>5, <1>7, Zenon

----------------------------------------------------------------------------
(* At the start nobody listens and nobody publishes. *)
LEMMA InitBrokerInv == ASSUME BrokerConstants, Events!Init PROVE BrokerInv
<1>0. <<>> \in Seq(Nat) /\ Len(<<>>) = 0  OBVIOUS
<1>1. BrokerType
  <2>1. [state |-> "none", buf |-> <<>>] \in [state : {"none", "open", "closed"}, buf : Seq(Nat)]  BY <1>0
  <2>2. chan \in [Listeners -> [state : {"none", "open", "closed"}, buf : Seq(Nat)]]  BY <2>1 DEF Events!Init
  <2>3. seen \in [Listeners -> Seq(Nat)]  BY <1>0 DEF Events!Init
  <2> QED  BY <2>2, <2>3 DEF Events!Init, BrokerType
<1>2. \A l \in Listeners : Waiting(l) = {}  BY DEF Events!Init, Waiting
<1>3. OpenWhileListed  BY <1>2 DEF OpenWhileListed
<1>4. ASSUME NEW l \in Listeners PROVE Balance(l)
  <2>1. Cardinality(Waiting(l)) = 0  BY <1>2, FS_EmptySet
  <2>2. offered[l] = 0 /\ seen[l] = <<>> /\ chan[l].buf = <<>> /\ dropped[l] = 0  BY DEF Events!Init
  <2> QED  BY <1>0, <2>1, <2>2 DEF Balance
<1> QED  BY <1>1, <1>3, <1>4 DEF BrokerInv, Events!Init

(* A handler dispatches: every subscribed listener is offered the event and is on
   one more list. *)
LEMMA DispatchBrokerInv ==
  ASSUME BrokerConstants, BrokerInv, NEW p \in Publishers, Events!Dispatch(p)
  PROVE  BrokerInv'
<1> USE DEF BrokerInv
<1> DEFINE round == [event |-> events + 1, todo |-> Events!Subscribed]
<1>0. round \in Round /\ round # None /\ lock' = [lock EXCEPT ![p] = round] /\ lock[p] = None
  BY DEF BrokerConstants, Round, BrokerType, Events!Subscribed, Events!Dispatch
<1>1. BrokerType'
  <2>1. lock' \in [Publishers -> {None} \cup Round]  BY <1>0 DEF BrokerType
  <2>2. offered' \in [Listeners -> Nat]  BY DEF BrokerType, Events!Dispatch
  <2>3. events' \in Nat  BY DEF BrokerType, Events!Dispatch
  <2> QED  BY <2>1, <2>2, <2>3 DEF BrokerType, Events!Dispatch
<1>2. ASSUME NEW l \in Listeners, l \in Events!Subscribed
      PROVE  p \notin Waiting(l) /\ Waiting(l)' = Waiting(l) \cup {p}
  BY <1>0, <1>2 DEF Waiting, BrokerType
<1>3. ASSUME NEW l \in Listeners, l \notin Events!Subscribed
      PROVE  Waiting(l)' = Waiting(l)
  BY <1>0, <1>3 DEF Waiting, BrokerType
<1>4. OpenWhileListed'
  BY <1>2, <1>3 DEF OpenWhileListed, Events!Subscribed, Events!Dispatch
<1>5. ASSUME NEW l \in Listeners PROVE Balance(l)'
  <2>u. seen' = seen /\ chan' = chan /\ dropped' = dropped  BY DEF Events!Dispatch
  <2>1. CASE l \in Events!Subscribed
    <3>1. Cardinality(Waiting(l))' = Cardinality(Waiting(l)) + 1  BY <2>1, <1>2, WaitingGains
    <3>2. offered'[l] = offered[l] + 1  BY <2>1 DEF Events!Dispatch
    <3>3. offered[l] + 1 = Len(seen[l]) + Len(chan[l].buf) + dropped[l] + (Cardinality(Waiting(l)) + 1)
      BY Shifts
    <3> QED  BY <2>u, <3>1, <3>2, <3>3 DEF Balance
  <2>2. CASE l \notin Events!Subscribed
    <3>1. Cardinality(Waiting(l))' = Cardinality(Waiting(l))  BY <2>2, <1>3
    <3>2. offered'[l] = offered[l]  BY <2>2 DEF Events!Dispatch
    <3> QED  BY <2>u, <3>1, <3>2 DEF Balance
  <2> QED  BY <2>1, <2>2
<1> QED  BY <1>1, <1>4, <1>5 DEF Events!Dispatch

(* One send: the channel is open, so the event is in its buffer or is counted, and
   the publisher has one listener less to serve. *)
LEMMA SendBrokerInv ==
  ASSUME BrokerConstants, BrokerInv, NEW p \in Publishers, NEW l \in Listeners, Events!Send(p, l)
  PROVE  BrokerInv'
<1> USE DEF BrokerInv
<1>0. lock[p] \in Round /\ lock[p] # None /\ l \in lock[p].todo /\ p \in Waiting(l)
  BY DEF Events!Send, BrokerType, Waiting
<1>1. chan[l].state = "open"  BY <1>0 DEF OpenWhileListed
<1>2. lock' = [lock EXCEPT ![p] = [lock[p] EXCEPT !.todo = @ \ {l}]]  BY DEF Events!Send
<1>3. lock'[p] \in Round /\ lock'[p] # None /\ lock'[p].todo = lock[p].todo \ {l}
      /\ \A q \in Publishers \ {p} : lock'[q] = lock[q]
  <2>1. lock'[p] = [lock[p] EXCEPT !.todo = lock[p].todo \ {l}] /\ \A q \in Publishers \ {p} : lock'[q] = lock[q]
    BY <1>2 DEF BrokerType
  <2>2. lock'[p] \in Round /\ lock'[p].todo = lock[p].todo \ {l}  BY <1>0, <2>1 DEF Round
  <2> QED  BY <2>1, <2>2 DEF BrokerConstants
<1>4. lock' \in [Publishers -> {None} \cup Round]  BY <1>2, <1>3 DEF BrokerType
<1>5. Waiting(l)' = Waiting(l) \ {p}  BY <1>0, <1>3 DEF Waiting
<1>6. \A m \in Listeners \ {l} : Waiting(m)' = Waiting(m)  BY <1>0, <1>3 DEF Waiting
<1>7. Cardinality(Waiting(l))' = Cardinality(Waiting(l)) - 1  BY <1>0, <1>5, WaitingLoses
<1>9. CASE Len(chan[l].buf) < BufLen
  <2>1. /\ chan' = [chan EXCEPT ![l].buf = Append(@, lock[p].event)]
        /\ dropped' = dropped /\ panicked' = panicked /\ seen' = seen /\ offered' = offered /\ events' = events
    BY <1>1, <1>9 DEF Events!Send
  <2>2. lock[p].event \in Nat /\ chan[l].buf \in Seq(Nat)  BY <1>0 DEF Round, BrokerType
  <2>3. /\ chan'[l].buf = Append(chan[l].buf, lock[p].event) /\ chan'[l].state = "open"
        /\ \A m \in Listeners \ {l} : chan'[m] = chan[m]
        /\ chan' \in [Listeners -> [state : {"none", "open", "closed"}, buf : Seq(Nat)]]
    <3>1. chan'[l] = [chan[l] EXCEPT !.buf = Append(chan[l].buf, lock[p].event)]
          /\ \A m \in Listeners \ {l} : chan'[m] = chan[m]
      BY <2>1 DEF BrokerType
    <3>2. chan[l] \in [state : {"none", "open", "closed"}, buf : Seq(Nat)]  BY DEF BrokerType
    <3>3. Append(chan[l].buf, lock[p].event) \in Seq(Nat)  BY <2>2
    <3>4. /\ chan'[l] \in [state : {"none", "open", "closed"}, buf : Seq(Nat)]
          /\ chan'[l].buf = Append(chan[l].buf, lock[p].event) /\ chan'[l].state = "open"
      BY <3>1, <3>2, <3>3, <1>1
    <3> QED  BY <2>1, <3>1, <3>4 DEF BrokerType
  <2>4. BrokerType'  BY <1>4, <2>1, <2>3 DEF BrokerType
  <2>5. OpenWhileListed'  BY <1>6, <2>3 DEF OpenWhileListed
  <2>6. Balance(l)'
    <3>1. Len(chan'[l].buf) = Len(chan[l].buf) + 1  BY <2>2, <2>3
    <3>2. offered[l] = Len(seen[l]) + (Len(chan[l].buf) + 1) + dropped[l] + (Cardinality(Waiting(l)) - 1)
      BY Shifts
    <3> QED  BY <1>7, <2>1, <3>1, <3>2 DEF Balance
  <2>7. \A m \in Listeners \ {l} : Balance(m)'  BY <1>6, <2>1, <2>3 DEF Balance
  <2> QED  BY <2>1, <2>4, <2>5, <2>6, <2>7
<1>10. CASE ~(Len(chan[l].buf) < BufLen)
  <2>1. /\ dropped' = [dropped EXCEPT ![l] = @ + 1] /\ chan' = chan
        /\ panicked' = panicked /\ seen' = seen /\ offered' = offered /\ events' = events
    BY <1>1, <1>10 DEF Events!Send
  <2>2. /\ dropped'[l] = dropped[l] + 1 /\ \A m \in Listeners \ {l} : dropped'[m] = dropped[m]
        /\ dropped' \in [Listeners -> Nat]
    BY <2>1 DEF BrokerType
  <2>4. BrokerType'  BY <1>4, <2>1, <2>2 DEF BrokerType
  <2>5. OpenWhileListed'  BY <1>1, <1>6, <2>1 DEF OpenWhileListed
  <2>6. Balance(l)'
    <3>1. offered[l] = Len(seen[l]) + Len(chan[l].buf) + (dropped[l] + 1) + (Cardinality(Waiting(l)) - 1)
      BY Shifts
    <3> QED  BY <1>7, <2>1, <2>2, <3>1 DEF Balance
  <2>7. \A m \in Listeners \ {l} : Balance(m)'  BY <1>6, <2>1, <2>2 DEF Balance
  <2> QED  BY <2>1, <2>4, <2>5, <2>6, <2>7
<1> QED  BY <1>9, <1>10

(* A publisher that has served everyone leaves the lock. *)
LEMMA UnlockBrokerInv ==
  ASSUME BrokerConstants, BrokerInv, NEW p \in Publishers, Events!Unlock(p)
  PROVE  BrokerInv'
<1> USE DEF BrokerInv
<1>1. \A l \in Listeners : Waiting(l)' = Waiting(l)  BY DEF Events!Unlock, Waiting, BrokerType
<1>2. BrokerType'  BY DEF Events!Unlock, BrokerType
<1>3. OpenWhileListed'  BY <1>1 DEF Events!Unlock, OpenWhileListed
<1>4. \A l \in Listeners : Balance(l)'  BY <1>1 DEF Events!Unlock, Balance
<1> QED  BY <1>2, <1>3, <1>4 DEF Events!Unlock

(* A browser comes or goes: the write lock says that nobody is being served. *)
LEMMA ListenerBrokerInv ==
  ASSUME BrokerConstants, BrokerInv, NEW l \in Listeners, Events!Subscribe(l) \/ Events!Unsubscribe(l)
  PROVE  BrokerInv'
<1> USE DEF BrokerInv
<1>1. \A m \in Listeners : Waiting(m) = {} /\ Waiting(m)' = {}
  BY DEF Events!Subscribe, Events!Unsubscribe, Events!WriteLock, Waiting
<1>2. /\ chan' \in [Listeners -> [state : {"none", "open", "closed"}, buf : Seq(Nat)]]
      /\ \A m \in Listeners : chan'[m].buf = chan[m].buf
  <2>1. PICK s \in {"open", "closed"} : chan' = [chan EXCEPT ![l].state = s]  BY DEF Events!Subscribe, Events!Unsubscribe
  <2>2. chan[l] \in [state : {"none", "open", "closed"}, buf : Seq(Nat)]  BY DEF BrokerType
  <2>3. chan'[l] = [chan[l] EXCEPT !.state = s] /\ \A m \in Listeners \ {l} : chan'[m] = chan[m]
    BY <2>1 DEF BrokerType
  <2>4. chan'[l] \in [state : {"none", "open", "closed"}, buf : Seq(Nat)] /\ chan'[l].buf = chan[l].buf
    BY <2>2, <2>3
  <2> QED  BY <2>1, <2>3, <2>4 DEF BrokerType
<1>3. /\ seen' = seen /\ dropped' = dropped /\ lock' = lock /\ offered' = offered
      /\ panicked' = panicked /\ events' = events
  BY DEF Events!Subscribe, Events!Unsubscribe
<1>4. BrokerType'  BY <1>2, <1>3 DEF BrokerType
<1>5. OpenWhileListed'  BY <1>1 DEF OpenWhileListed
<1>6. \A m \in Listeners : Balance(m)'  BY <1>1, <1>2, <1>3 DEF Balance
<1> QED  BY <1>3, <1>4, <1>5, <1>6

(* The stream takes the oldest event out of the buffer. *)
LEMMA StreamBrokerInv ==
  ASSUME BrokerConstants, BrokerInv, NEW l \in Listeners, Events!Stream(l)
  PROVE  BrokerInv'
<1> USE DEF BrokerInv
<1>1. \A m \in Listeners : Waiting(m)' = Waiting(m)  BY DEF Events!Stream, Waiting
<1>2. /\ chan[l].buf \in Seq(Nat) /\ chan[l].buf # <<>> /\ seen[l] \in Seq(Nat)
  BY DEF Events!Stream, BrokerType
<1>3. /\ Head(chan[l].buf) \in Nat /\ Tail(chan[l].buf) \in Seq(Nat)
      /\ Len(Tail(chan[l].buf)) = Len(chan[l].buf) - 1
  BY <1>2
<1>4. /\ chan'[l].buf = Tail(chan[l].buf) /\ chan'[l].state = chan[l].state
      /\ \A m \in Listeners \ {l} : chan'[m] = chan[m]
      /\ chan' \in [Listeners -> [state : {"none", "open", "closed"}, buf : Seq(Nat)]]
  BY <1>3 DEF Events!Stream, BrokerType
<1>5. /\ seen'[l] = Append(seen[l], Head(chan[l].buf))
      /\ \A m \in Listeners \ {l} : seen'[m] = seen[m]
      /\ seen' \in [Listeners -> Seq(Nat)]
  BY <1>3 DEF Events!Stream, BrokerType
<1>6. dropped' = dropped /\ lock' = lock /\ offered' = offered /\ panicked' = panicked /\ events' = events
  BY DEF Events!Stream
<1>7. BrokerType'  BY <1>4, <1>5, <1>6 DEF BrokerType
<1>8. OpenWhileListed'  BY <1>1, <1>4 DEF OpenWhileListed
<1>9. Balance(l)'
  <2>1. Len(seen'[l]) = Len(seen[l]) + 1  BY <1>2, <1>3, <1>5
  <2>2. offered[l] = (Len(seen[l]) + 1) + (Len(chan[l].buf) - 1) + dropped[l] + Cardinality(Waiting(l))
    BY Shifts
  <2> QED  BY <1>1, <1>3, <1>4, <1>6, <2>1, <2>2 DEF Balance
<1>10. \A m \in Listeners \ {l} : Balance(m)'  BY <1>1, <1>4, <1>5, <1>6 DEF Balance
<1> QED  BY <1>6, <1>7, <1>8, <1>9, <1>10

(* The webhooks never touch the broker. *)
LEMMA OtherBrokerInv ==
  ASSUME BrokerInv, UNCHANGED Events!Broker, events' = events
  PROVE  BrokerInv'
  BY DEF BrokerInv, BrokerType, OpenWhileListed, Balance, Waiting, Events!Broker

LEMMA NextBrokerInv == ASSUME BrokerConstants, BrokerInv, [Events!Next]_Events!vars PROVE BrokerInv'
<1>1. ASSUME NEW p \in Publishers, Events!Dispatch(p) \/ Events!Unlock(p) \/ \E l \in Listeners : Events!Send(p, l)
      PROVE  BrokerInv'
  BY <1>1, DispatchBrokerInv, UnlockBrokerInv, SendBrokerInv
<1>2. ASSUME NEW l \in Listeners, Events!Subscribe(l) \/ Events!Unsubscribe(l) \/ Events!Stream(l)
      PROVE  BrokerInv'
  BY <1>2, ListenerBrokerInv, StreamBrokerInv
<1>3. ASSUME NEW h \in Hooks, Events!Save(h) \/ Events!SwitchOff(h)
      PROVE  BrokerInv'
  BY <1>3, OtherBrokerInv DEF Events!Save, Events!SwitchOff
<1>4. ASSUME NEW e \in 1..MaxEvents, Events!ListByEvent(e) \/ Events!ListFails(e) \/ \E h \in Hooks : Events!Deliver(e, h)
      PROVE  BrokerInv'
  <2>1. UNCHANGED Events!Broker /\ events' = events  BY <1>4 DEF Events!ListByEvent, Events!ListFails, Events!Deliver
  <2> QED  BY <2>1, OtherBrokerInv
<1>5. CASE UNCHANGED Events!vars
  BY <1>5, OtherBrokerInv DEF Events!vars, Events!Broker
<1> QED  BY <1>1, <1>2, <1>3, <1>4, <1>5 DEF Events!Next

(* A listener on nobody's list has an empty column of waiting publishers. *)
LEMMA InvAccounted == ASSUME BrokerConstants, BrokerInv PROVE Events!Accounted
<1>1. ASSUME NEW l \in Listeners, \A p \in Publishers : lock[p] # None => l \notin lock[p].todo
      PROVE  offered[l] = Len(seen[l]) + Len(chan[l].buf) + dropped[l]
  <2>1. Waiting(l) = {}  BY <1>1 DEF Waiting
  <2>2. Cardinality(Waiting(l)) = 0  BY <2>1, FS_EmptySet
  <2> QED  BY <2>2, Shifts
<1> QED  BY <1>1 DEF BrokerInv, Events!Accounted

(* Broker.Publish and Unsubscribe (events/broker.go): nothing is sent on a closed
   channel, and every event dispatched while a listener was subscribed was
   streamed, waits in its channel, or is in DroppedCount, whatever the capacity of
   the channels and however the publishers and the browsers interleave. *)
THEOREM EventsAccounted == ASSUME BrokerConstants PROVE Events!Spec => []Events!Accounted
<1>1. Events!Init => BrokerInv  BY InitBrokerInv
<1>2. BrokerInv /\ [Events!Next]_Events!vars => BrokerInv'  BY NextBrokerInv
<1>3. BrokerInv => Events!Accounted  BY InvAccounted
<1> QED  BY <1>1, <1>2, <1>3, PTL DEF Events!Spec
----------------------------------------------------------------------------
(* Upload sessions, beside both. *)
CONSTANTS Clients, Chunks, Digests, PartSize, Limit, MaxUploads, MultiPart, Bytes
VARIABLES object, meta, mpu, acked, req, blobs, torn

Up == INSTANCE OCIUpload

(* Bodies and digests are contents, None is neither, and the limits are numbers. *)
UploadConstants ==
  /\ Chunks \subseteq Seq(Bytes) /\ Digests \subseteq Seq(Bytes)
  /\ None \notin Seq(Bytes) /\ PartSize \in Nat /\ Limit \in Nat /\ MultiPart \in BOOLEAN

----------------------------------------------------------------------------
(* A set of numbers has a least one. *)
LEMMA Least ==
  ASSUME NEW S, S \subseteq Nat, S # {}
  PROVE  \E m \in S : \A k \in S : m <= k
<1>1. PICK m \in S : \A y \in S : ~(<<y, m>> \in OpToRel(<, Nat))
  BY NatLessThanWellFounded, WFMin
<1>2. \A y \in S : ~(y < m)  BY <1>1 DEF OpToRel
<1> QED  BY <1>2

(* What FlattenSeq computes, up to the k-th sequence. *)
Joins(f, s, k) == f = [i \in 1..k |-> IF i = 1 THEN s[i] ELSE f[i - 1] \o s[i]]

LEMMA JoinSteps ==
  ASSUME NEW f, NEW s, NEW k \in Nat, Joins(f, s, k)
  PROVE  \A i \in 1..k : f[i] = IF i = 1 THEN s[i] ELSE f[i - 1] \o s[i]
<1>1. f = [i \in 1..k |-> IF i = 1 THEN s[i] ELSE f[i - 1] \o s[i]]  BY DEF Joins
<1> QED  BY <1>1

LEMMA JoinExists ==
  ASSUME NEW s, NEW k \in Nat
  PROVE  \E f : Joins(f, s, k)
<1> DEFINE S == {j \in Nat : ~ \E f : Joins(f, s, j)}
<1>1. SUFFICES ASSUME S # {} PROVE FALSE  OBVIOUS
<1>2. PICK j \in S : \A i \in S : j <= i
  <2>1. S \subseteq Nat  OBVIOUS
  <2> QED  BY <1>1, <2>1, Least, Zenon
<1>3. j \in Nat /\ ~ \E f : Joins(f, s, j)  BY <1>2, Zenon
<1>4. j # 0
  <2> DEFINE f == [i \in 1..0 |-> <<>>]
  <2>1. f = [i \in 1..0 |-> IF i = 1 THEN s[i] ELSE f[i - 1] \o s[i]]  OBVIOUS
  <2>2. Joins(f, s, 0)  BY <2>1, Zenon DEF Joins
  <2> QED  BY <1>3, <2>2, Zenon
<1>5. j - 1 \in Nat /\ ~(j <= j - 1)  BY <1>3, <1>4
<1>6. PICK f : Joins(f, s, j - 1)  BY <1>2, <1>5, Zenon
<1>7. \A i \in 1..j - 1 : f[i] = IF i = 1 THEN s[i] ELSE f[i - 1] \o s[i]  BY <1>5, <1>6, JoinSteps
<1> DEFINE g == [i \in 1..j |-> IF i = j THEN IF j = 1 THEN s[j] ELSE f[j - 1] \o s[j] ELSE f[i]]
<1>8. ASSUME NEW i \in 1..j PROVE g[i] = IF i = 1 THEN s[i] ELSE g[i - 1] \o s[i]
  <2>1. \A x \in 1..j - 1 : g[x] = f[x]  BY <1>3
  <2>2. g[j] = IF j = 1 THEN s[j] ELSE f[j - 1] \o s[j]  BY <1>3, <1>4
  <2> HIDE DEF g, S
  <2>3. CASE i = j
    <3>1. j # 1 => g[j - 1] = f[j - 1]  BY <1>3, <1>4, <2>1
    <3> QED  BY <2>2, <2>3, <3>1
  <2>4. CASE i # j
    <3>1. i \in 1..j - 1 /\ (i # 1 => i - 1 \in 1..j - 1)  BY <1>3, <2>4
    <3> QED  BY <1>7, <2>1, <3>1
  <2> QED  BY <2>3, <2>4
<1>9. Joins(g, s, j)
  <2>1. g = [i \in 1..j |-> g[i]]  OBVIOUS
  <2> HIDE DEF g
  <2>2. g = [i \in 1..j |-> IF i = 1 THEN s[i] ELSE g[i - 1] \o s[i]]  BY <1>8, <2>1
  <2> QED  BY <2>2, Zenon DEF Joins
<1> QED  BY <1>3, <1>9, Zenon

LEMMA JoinsAgree ==
  ASSUME NEW s, NEW t, NEW f, NEW g, NEW k \in Nat, Joins(f, s, k), Joins(g, t, k + 1),
         \A i \in 1..k : s[i] = t[i]
  PROVE  \A i \in 1..k : f[i] = g[i]
<1>1. \A i \in 1..k : f[i] = IF i = 1 THEN s[i] ELSE f[i - 1] \o s[i]  BY JoinSteps
<1>2. \A i \in 1..k + 1 : g[i] = IF i = 1 THEN t[i] ELSE g[i - 1] \o t[i]
  <2>1. k + 1 \in Nat  OBVIOUS
  <2> QED  BY <2>1, JoinSteps
<1> DEFINE S == {i \in 1..k : f[i] # g[i]}
<1>3. SUFFICES ASSUME S # {} PROVE FALSE  OBVIOUS
<1>4. PICK i \in S : \A x \in S : i <= x
  <2>1. S \subseteq Nat  OBVIOUS
  <2> QED  BY <1>3, <2>1, Least, Zenon
<1>5. i \in 1..k /\ f[i] # g[i]  BY <1>4, Zenon
<1>6. i = 1 => f[i] = g[i]  BY <1>1, <1>2, <1>5
<1>7. i # 1 => i - 1 \in 1..k /\ ~(i <= i - 1)  BY <1>5
<1>8. i # 1 => f[i - 1] = g[i - 1]  BY <1>4, <1>7, Zenon
<1>9. i # 1 => f[i] = g[i]  BY <1>1, <1>2, <1>5, <1>8
<1> QED  BY <1>5, <1>6, <1>9

(* One more sequence is appended to what the others make. *)
LEMMA JoinsOneMore ==
  ASSUME NEW s \in Seq(Seq(Bytes)), NEW x \in Seq(Bytes), s # <<>>,
         NEW f, Joins(f, s, Len(s)), NEW g, Joins(g, Append(s, x), Len(s) + 1)
  PROVE  g[Len(s) + 1] = f[Len(s)] \o x
<1> DEFINE t == Append(s, x)
<1>1. PICK k \in Nat : k = Len(s)  OBVIOUS
<1>2. /\ k # 0 /\ k \in 1..k /\ k + 1 \in Nat /\ k + 1 \in 1..k + 1 /\ t[k + 1] = x
      /\ \A i \in 1..k : s[i] = t[i]
  BY <1>1, AppendProperties
<1>3. Joins(f, s, k) /\ Joins(g, t, k + 1)  BY <1>1
<1> HIDE DEF t
<1>4. \A i \in 1..k : f[i] = g[i]
  <2>1. PICK u, v : u = s /\ v = t  OBVIOUS
  <2>2. Joins(f, u, k) /\ Joins(g, v, k + 1) /\ \A i \in 1..k : u[i] = v[i]  BY <1>2, <1>3, <2>1
  <2> QED  BY <2>2, JoinsAgree
<1>5. \A i \in 1..k + 1 : g[i] = IF i = 1 THEN t[i] ELSE g[i - 1] \o t[i]  BY <1>2, <1>3, JoinSteps
<1>6. k + 1 # 1 /\ (k + 1) - 1 = k  BY <1>2
<1>7. g[k + 1] = g[k] \o x  BY <1>2, <1>5, <1>6
<1>8. g[k] = f[k]  BY <1>2, <1>4
<1> QED  BY <1>1, <1>7, <1>8

LEMMA JoinsType ==
  ASSUME NEW s \in Seq(Seq(Bytes)), NEW f, Joins(f, s, Len(s))
  PROVE  \A i \in 1..Len(s) : f[i] \in Seq(Bytes)
<1>1. \A i \in 1..Len(s) : f[i] = IF i = 1 THEN s[i] ELSE f[i - 1] \o s[i]  BY JoinSteps
<1> DEFINE S == {i \in 1..Len(s) : f[i] \notin Seq(Bytes)}
<1>3. SUFFICES ASSUME S # {} PROVE FALSE  OBVIOUS
<1>4. PICK i \in S : \A x \in S : i <= x
  <2>1. S \subseteq Nat  OBVIOUS
  <2> QED  BY <1>3, <2>1, Least, Zenon
<1>5. i \in 1..Len(s) /\ f[i] \notin Seq(Bytes)  BY <1>4, Zenon
<1>6. s[i] \in Seq(Bytes)  BY <1>5
<1>7. i # 1 => i - 1 \in 1..Len(s) /\ ~(i <= i - 1)  BY <1>5
<1>8. i # 1 => f[i - 1] \in Seq(Bytes)  BY <1>4, <1>7, Zenon
<1> HIDE DEF S
<1>9. i # 1 => f[i - 1] \o s[i] \in Seq(Bytes)  BY <1>6, <1>8
<1> QED  BY <1>1, <1>5, <1>6, <1>9

LEMMA FlattenIs ==
  ASSUME NEW s \in Seq(Seq(Bytes)), s # <<>>
  PROVE  \E f : Joins(f, s, Len(s)) /\ Up!FlattenSeq(s) = f[Len(s)]
<1> DEFINE f == CHOOSE h : Joins(h, s, Len(s))
<1>1. Len(s) # 0 /\ Len(s) \in Nat  OBVIOUS
<1>2. Up!FlattenSeq(s) = f[Len(s)]  BY <1>1, Zenon DEF Up!FlattenSeq, Joins
<1>3. \E h : Joins(h, s, Len(s))  BY <1>1, JoinExists
<1>4. Joins(f, s, Len(s))  BY <1>3, Zenon
<1> QED  BY <1>2, <1>4, Zenon

(* The parts joined are a content, and one more part is appended to it. *)
LEMMA FlattenFacts ==
  ASSUME NEW s \in Seq(Seq(Bytes))
  PROVE  /\ Up!FlattenSeq(s) \in Seq(Bytes) /\ (s = <<>> => Up!FlattenSeq(s) = <<>>)
         /\ \A x \in Seq(Bytes) : Up!FlattenSeq(Append(s, x)) = Up!FlattenSeq(s) \o x
<1>1. s = <<>> => Up!FlattenSeq(s) = <<>>  BY DEF Up!FlattenSeq
<1>2. Up!FlattenSeq(s) \in Seq(Bytes)
  <2>0. <<>> \in Seq(Bytes)  OBVIOUS
  <2>1. CASE s = <<>>  BY <1>1, <2>0, <2>1, Zenon
  <2>2. CASE s # <<>>
    <3>1. PICK f : Joins(f, s, Len(s)) /\ Up!FlattenSeq(s) = f[Len(s)]  BY <2>2, FlattenIs
    <3>2. Len(s) \in 1..Len(s)  BY <2>2
    <3> QED  BY <3>1, <3>2, JoinsType
  <2> QED  BY <2>1, <2>2
<1>3. ASSUME NEW x \in Seq(Bytes) PROVE Up!FlattenSeq(Append(s, x)) = Up!FlattenSeq(s) \o x
  <2>1. /\ Append(s, x) \in Seq(Seq(Bytes)) /\ Append(s, x) # <<>> /\ Len(s) \in Nat /\ Len(Append(s, x)) = Len(s) + 1
        /\ Append(s, x)[Len(s) + 1] = x
    BY AppendProperties
  <2>2. PICK g : Joins(g, Append(s, x), Len(Append(s, x))) /\ Up!FlattenSeq(Append(s, x)) = g[Len(Append(s, x))]  BY <2>1, FlattenIs
  <2>3. Joins(g, Append(s, x), Len(s) + 1) /\ Up!FlattenSeq(Append(s, x)) = g[Len(s) + 1]  BY <2>1, <2>2
  <2>4. CASE s = <<>>
    <3>1. Len(s) + 1 = 1 /\ 1 \in 1..1 /\ 1 \in Nat  BY <2>4
    <3>2. Joins(g, Append(s, x), 1)  BY <2>3, <3>1
    <3>3. \A i \in 1..1 : g[i] = IF i = 1 THEN Append(s, x)[i] ELSE g[i - 1] \o Append(s, x)[i]
      BY <3>1, <3>2, JoinSteps
    <3>4. Up!FlattenSeq(Append(s, x)) = x  BY <2>1, <2>3, <3>1, <3>3
    <3> QED  BY <1>1, <2>4, <3>4
  <2>5. CASE s # <<>>
    <3>1. PICK f : Joins(f, s, Len(s)) /\ Up!FlattenSeq(s) = f[Len(s)]  BY <2>5, FlattenIs
    <3>2. g[Len(s) + 1] = f[Len(s)] \o x  BY <2>3, <2>5, <3>1, JoinsOneMore
    <3> QED  BY <2>3, <3>1, <3>2
  <2> QED  BY <2>4, <2>5
<1> QED  BY <1>1, <1>2, <1>3
----------------------------------------------------------------------------
(* A content begins with a digest's. *)
Content == Seq(Bytes)
Starts(d, s) == Len(d) <= Len(s) /\ \A i \in 1..Len(d) : s[i] = d[i]

LEMMA StartsGrown ==
  ASSUME NEW d \in Content, NEW s \in Content, NEW x \in Content, Starts(d, s)
  PROVE  Starts(d, s \o x)
<1>1. /\ Len(s \o x) = Len(s) + Len(x) /\ \A i \in 1..Len(s) : (s \o x)[i] = s[i]
      /\ Len(s) \in Nat /\ Len(x) \in Nat /\ Len(d) \in Nat
  BY ConcatProperties DEF Content
<1> QED  BY <1>1 DEF Starts

LEMMA StartsWhole ==
  ASSUME NEW d \in Content, NEW s \in Content
  PROVE  Starts(d, d) /\ (Starts(d, s) /\ Len(s) = Len(d) => s = d) /\ (Starts(d, s) /\ d # <<>> => s # <<>> /\ Len(s) # 0)
<1>1. Len(d) \in Nat /\ Len(s) \in Nat /\ (d # <<>> => Len(d) # 0)  BY EmptySeq DEF Content
<1>2. Starts(d, d)  BY <1>1 DEF Starts
<1>3. Starts(d, s) /\ Len(s) = Len(d) => s = d  BY SeqEqual DEF Starts, Content
<1>4. Starts(d, s) /\ d # <<>> => Len(s) # 0  BY <1>1 DEF Starts
<1>5. Len(<<>>) = 0  OBVIOUS
<1> QED  BY <1>2, <1>3, <1>4, <1>5

(* The lesser of two numbers. *)
LEMMA MinOfTwo ==
  ASSUME NEW a \in Int, NEW b \in Int
  PROVE  Up!Min({a, b}) \in {a, b} /\ Up!Min({a, b}) <= a /\ Up!Min({a, b}) <= b
<1>1. \E x \in {a, b} : \A y \in {a, b} : x =< y
  <2>1. CASE a <= b  BY <2>1
  <2>2. CASE b <= a  BY <2>2
  <2> QED  BY <2>1, <2>2
<1>2. Up!Min({a, b}) \in {a, b} /\ \A y \in {a, b} : Up!Min({a, b}) =< y  BY <1>1, Zenon DEF Up!Min
<1> QED  BY <1>2

----------------------------------------------------------------------------
(* Types.  The state of a session is that of a multipart upload there is, with a
   rest that is no longer than a part. *)
PatchPcs == {"load", "seed", "feed", "save", "last", "truncate", "write", "cut"}
ReadPcs == {"publish", "complete", "unmeta", "get"}
PutPcs == ReadPcs \cup {"hash", "abort", "delete"}
UpState == [upload : Nat, parts : Seq(Content), pending : Content]
UpRequest == [pc : {"idle"} \cup PatchPcs \cup PutPcs, round : {1, 2}, todo : Content, st : UpState \cup {None},
              stored : Nat, digest : Digests \cup {None}]
UpPart == [parts : Seq(Content), state : {"open", "completed", "aborted"}]

StateOK(st) == st \in UpState /\ st.upload \in 1..Len(mpu) /\ Len(st.pending) <= PartSize
ShapeOK(r) ==
  /\ r.pc \in {"seed", "feed", "save", "last", "complete"} => StateOK(r.st)
  /\ r.pc = "seed" => r.st.parts = <<>> /\ r.st.pending = <<>>
  /\ r.pc \in PutPcs <=> r.digest # None
  /\ r.pc = "hash" => r.round = 2
  /\ ~MultiPart => r.pc \notin {"load", "seed", "feed", "save", "last", "truncate", "complete", "unmeta"}
UpType ==
  /\ object \in Content \cup {None} /\ blobs = [d \in Digests |-> blobs[d]] /\ mpu \in Seq(UpPart)
  /\ meta # None => StateOK(meta) /\ MultiPart
  /\ req \in [Clients -> UpRequest] /\ \A c \in Clients : ShapeOK(req[c])

(* Whatever is, or may still become, the content of the session begins with d. *)
Open(n) == mpu[n].state = "open"
BeginsAt(d, r) ==
  /\ r.pc \in {"feed", "save", "last"} => Starts(d, Up!Staged(r.st))
  /\ r.pc = "complete" /\ Open(r.st.upload) => Starts(d, Up!FlattenSeq(r.st.parts))
BeginsHere(d) == /\ object # None /\ Starts(d, object)
                 /\ meta # None => Starts(d, Up!Staged(meta))
Begins(d) == BeginsHere(d) /\ \A c \in Clients : BeginsAt(d, req[c])

(* Multipart uploads are added and closed. *)
Closes == Len(mpu) <= Len(mpu') /\ \A n \in 1..Len(mpu) : Open(n)' => Open(n)
Others(c) == \A e \in Clients \ {c} : req'[e] = req[e]

(* A step of one request. *)
LEMMA UpStep ==
  ASSUME UploadConstants, UpType, NEW c \in Clients, Others(c), Closes,
         req' \in [Clients -> UpRequest], ShapeOK(req[c])',
         object' \in Content \cup {None}, blobs' = [d \in Digests |-> blobs'[d]], mpu' \in Seq(UpPart),
         meta' # None => StateOK(meta)' /\ MultiPart
  PROVE  UpType' /\ \A d : Begins(d) /\ BeginsHere(d)' /\ BeginsAt(d, req[c])' => Begins(d)'
<1>1. Len(mpu) \in Nat /\ Len(mpu') \in Nat  BY DEF UpType
<1>2. ASSUME NEW e \in Clients PROVE ShapeOK(req[e])'
  <2>1. CASE e = c  BY <2>1
  <2>2. CASE e # c
    <3>1. req'[e] = req[e] /\ ShapeOK(req[e])  BY <2>2 DEF Others, UpType
    <3> QED  BY <1>1, <3>1 DEF ShapeOK, StateOK, Closes
  <2> QED  BY <2>1, <2>2
<1>3. UpType'  BY <1>2 DEF UpType
<1>4. ASSUME NEW d, Begins(d), BeginsHere(d)', BeginsAt(d, req[c])', NEW e \in Clients PROVE BeginsAt(d, req[e])'
  <2>1. CASE e = c  BY <1>4, <2>1
  <2>2. CASE e # c
    <3>1. req'[e] = req[e] /\ ShapeOK(req[e]) /\ BeginsAt(d, req[e])  BY <1>4, <2>2 DEF Others, UpType, Begins
    <3>2. req[e].pc = "complete" => req[e].st.upload \in 1..Len(mpu)  BY <3>1 DEF ShapeOK, StateOK
    <3>3. req[e].pc = "complete" /\ Open(req[e].st.upload)' => Open(req[e].st.upload)  BY <3>1, <3>2 DEF Closes, Open
    <3> QED  BY <3>1, <3>3 DEF BeginsAt, Up!Staged, Open
  <2> QED  BY <2>1, <2>2
<1> QED  BY <1>3, <1>4 DEF Begins

(* The request that takes the step, by the way it does. *)
LEMMA GoStep ==
  ASSUME UpType, NEW c \in Clients, NEW pc \in {"idle"} \cup PatchPcs \cup PutPcs, Up!Go(c, pc)
  PROVE  /\ req' \in [Clients -> UpRequest] /\ Others(c)
         /\ req'[c].pc = pc /\ req'[c].round = req[c].round /\ req'[c].todo = req[c].todo /\ req'[c].st = req[c].st
         /\ req'[c].stored = req[c].stored /\ req'[c].digest = req[c].digest
<1>1. req[c] \in UpRequest  BY DEF UpType
<1>2. req' = [req EXCEPT ![c] = [req[c] EXCEPT !.pc = pc]]  BY DEF Up!Go
<1>3. PICK r : r = [req[c] EXCEPT !.pc = pc]  OBVIOUS
<1>4. /\ r \in UpRequest /\ r.pc = pc /\ r.round = req[c].round /\ r.todo = req[c].todo /\ r.st = req[c].st
      /\ r.stored = req[c].stored /\ r.digest = req[c].digest
  BY <1>1, <1>3 DEF UpRequest
<1>5. req' \in [Clients -> UpRequest] /\ req'[c] = r /\ Others(c)  BY <1>2, <1>3, <1>4 DEF UpType, Others
<1> QED  BY <1>4, <1>5

LEMMA GoWithStep ==
  ASSUME UpType, NEW c \in Clients, NEW pc \in {"idle"} \cup PatchPcs \cup PutPcs, NEW st \in UpState, Up!GoWith(c, pc, st)
  PROVE  /\ req' \in [Clients -> UpRequest] /\ Others(c)
         /\ req'[c].pc = pc /\ req'[c].round = req[c].round /\ req'[c].todo = req[c].todo /\ req'[c].st = st
         /\ req'[c].stored = req[c].stored /\ req'[c].digest = req[c].digest
<1>1. req[c] \in UpRequest  BY DEF UpType
<1>2. req' = [req EXCEPT ![c] = [req[c] EXCEPT !.pc = pc, !.st = st]]  BY DEF Up!GoWith
<1>3. PICK r : r = [req[c] EXCEPT !.pc = pc, !.st = st]  OBVIOUS
<1>4. /\ r \in UpRequest /\ r.pc = pc /\ r.round = req[c].round /\ r.todo = req[c].todo /\ r.st = st
      /\ r.stored = req[c].stored /\ r.digest = req[c].digest
  BY <1>1, <1>3 DEF UpRequest
<1>5. req' \in [Clients -> UpRequest] /\ req'[c] = r /\ Others(c)  BY <1>2, <1>3, <1>4 DEF UpType, Others
<1> QED  BY <1>4, <1>5

LEMMA IdleIs == Up!Idle \in UpRequest /\ Up!Idle.pc = "idle" /\ Up!Idle.digest = None /\ Up!Idle.round = 1
<1>1. <<>> \in Content  BY DEF Content
<1> QED  BY <1>1 DEF Up!Idle, UpRequest

LEMMA EndStep ==
  ASSUME UpType, NEW c \in Clients, Up!End(c)
  PROVE  /\ req' \in [Clients -> UpRequest] /\ Others(c) /\ req'[c] = Up!Idle
         /\ ShapeOK(req[c])' /\ \A d : BeginsAt(d, req[c])'
<1>1. req' \in [Clients -> UpRequest] /\ req'[c] = Up!Idle /\ Others(c)  BY IdleIs DEF Up!End, UpType, Others
<1>2. ShapeOK(req[c])'  BY <1>1, IdleIs DEF ShapeOK, PutPcs, ReadPcs
<1> QED  BY <1>1, <1>2, IdleIs DEF BeginsAt

----------------------------------------------------------------------------
(* What is staged, and what flushing a part makes of it. *)
LEMMA StagedFacts ==
  ASSUME NEW st \in UpState
  PROVE  /\ Up!FlattenSeq(st.parts) \in Content /\ st.pending \in Content /\ Up!Staged(st) \in Content
         /\ Len(Up!Staged(st)) = Len(Up!FlattenSeq(st.parts)) + Len(st.pending)
<1>1. st.parts \in Seq(Content) /\ st.pending \in Content  BY DEF UpState
<1>2. Up!FlattenSeq(st.parts) \in Content  BY <1>1, FlattenFacts DEF Content
<1> QED  BY <1>1, <1>2, ConcatProperties DEF Up!Staged, Content

LEMMA FlushFacts ==
  ASSUME NEW st \in UpState, NEW x \in Content
  PROVE  /\ Up!Flushed(st, x) \in UpState /\ Up!Flushed(st, x).upload = st.upload /\ Up!Flushed(st, x).pending = <<>>
         /\ Up!Flushed(st, x).parts = Append(st.parts, x)
         /\ Up!FlattenSeq(Up!Flushed(st, x).parts) = Up!FlattenSeq(st.parts) \o x
         /\ Up!Staged(Up!Flushed(st, x)) = Up!FlattenSeq(st.parts) \o x
<1>1. st.parts \in Seq(Content) /\ st.pending \in Content /\ <<>> \in Content  BY DEF UpState, Content
<1>2. /\ Up!Flushed(st, x) \in UpState /\ Up!Flushed(st, x).upload = st.upload /\ Up!Flushed(st, x).pending = <<>>
      /\ Up!Flushed(st, x).parts = Append(st.parts, x)
  <2>1. Append(st.parts, x) \in Seq(Content)  BY <1>1
  <2> QED  BY <1>1, <2>1 DEF Up!Flushed, UpState
<1>3. Up!FlattenSeq(Append(st.parts, x)) = Up!FlattenSeq(st.parts) \o x /\ Up!FlattenSeq(st.parts) \o x \in Content
  BY <1>1, FlattenFacts, ConcatProperties DEF Content
<1>4. Up!FlattenSeq(Append(st.parts, x)) \o <<>> = Up!FlattenSeq(st.parts) \o x  BY <1>3, ConcatEmptySeq DEF Content
<1> QED  BY <1>2, <1>3, <1>4 DEF Up!Staged

LEMMA PartStep ==
  ASSUME UpType, NEW u \in 1..Len(mpu), NEW y \in UpPart, mpu' = [mpu EXCEPT ![u] = y],
         y.state = "open" => Open(u)
  PROVE  mpu' \in Seq(UpPart) /\ Len(mpu') = Len(mpu) /\ mpu'[u] = y /\ Closes
<1>1. mpu \in Seq(UpPart) /\ Len(mpu) \in Nat  BY DEF UpType
<1>2. mpu' \in Seq(UpPart) /\ Len(mpu') = Len(mpu) /\ \A n \in 1..Len(mpu) : mpu'[n] = IF n = u THEN y ELSE mpu[n]
  BY <1>1, ExceptSeq
<1> QED  BY <1>1, <1>2 DEF Closes, Open

LEMMA WriteStep ==
  ASSUME UpType, NEW st, StateOK(st), NEW x \in Content, mpu' = Up!WritePart(st, x)
  PROVE  mpu' \in Seq(UpPart) /\ Len(mpu') = Len(mpu) /\ Closes
<1> DEFINE u == st.upload
           p == mpu[u].parts
           q == IF Len(st.parts) < Len(p) THEN [p EXCEPT ![Len(st.parts) + 1] = x] ELSE Append(p, x)
<1>1. u \in 1..Len(mpu) /\ mpu[u] \in UpPart /\ p \in Seq(Content) /\ Len(st.parts) \in Nat
  <2>1. u \in 1..Len(mpu) /\ mpu \in Seq(UpPart)  BY DEF StateOK, UpType
  <2>2. mpu[u] \in UpPart  BY <2>1
  <2>3. p \in Seq(Content)  BY <2>2 DEF UpPart
  <2>4. st.parts \in Seq(Content)  BY DEF StateOK, UpState
  <2> QED  BY <2>1, <2>2, <2>3, <2>4
<1>2. q \in Seq(Content)
  <2>1. CASE Len(st.parts) < Len(p)
    <3>1. Len(st.parts) + 1 \in 1..Len(p)  BY <1>1, <2>1
    <3>2. [p EXCEPT ![Len(st.parts) + 1] = x] \in Seq(Content)  BY <1>1, <3>1, ExceptSeq
    <3> QED  BY <2>1, <3>2
  <2>2. CASE ~(Len(st.parts) < Len(p))  BY <1>1, <2>2
  <2> QED  BY <2>1, <2>2
<1>3. mpu' = [mpu EXCEPT ![u] = [mpu[u] EXCEPT !.parts = q]]  BY DEF Up!WritePart
<1>4. PICK y : y = [mpu[u] EXCEPT !.parts = q]  OBVIOUS
<1>5. y \in UpPart /\ y.state = mpu[u].state  BY <1>1, <1>2, <1>4 DEF UpPart
<1> HIDE DEF p, q
<1> QED  BY <1>1, <1>3, <1>4, <1>5, PartStep DEF Open

LEMMA CloseStep ==
  ASSUME UpType, NEW u \in 1..Len(mpu), NEW x \in {"completed", "aborted", mpu[u].state}, x # "open",
         mpu' = [mpu EXCEPT ![u].state = x]
  PROVE  mpu' \in Seq(UpPart) /\ Len(mpu') = Len(mpu) /\ Closes /\ ~Open(u)'
<1>1. mpu[u] \in UpPart  BY DEF UpType
<1>2. PICK y : y = [mpu[u] EXCEPT !.state = x]  OBVIOUS
<1>3. y \in UpPart /\ y.state = x  BY <1>1, <1>2 DEF UpPart
<1>4. mpu' = [mpu EXCEPT ![u] = y]  BY <1>2
<1> QED  BY <1>3, <1>4, PartStep DEF Open

LEMMA SameUploads == ASSUME UpType, mpu' = mpu PROVE mpu' \in Seq(UpPart) /\ Closes
<1>1. Len(mpu) \in Nat  BY DEF UpType
<1> QED  BY <1>1 DEF UpType, Closes, Open

(* The parts of the step that leave object, side object and blobs alone. *)
LEMMA SameSession ==
  ASSUME UpType, Closes, object' = object, meta' = meta, blobs' = blobs
  PROVE  /\ object' \in Content \cup {None} /\ blobs' = [d \in Digests |-> blobs'[d]]
         /\ (meta' # None => StateOK(meta)' /\ MultiPart) /\ \A d : Begins(d) => BeginsHere(d)'
<1>1. meta # None => meta.upload \in 1..Len(mpu')  BY DEF UpType, StateOK, Closes
<1>2. \A d : Begins(d) => BeginsHere(d)'  BY DEF Begins, BeginsHere, Up!Staged
<1> QED  BY <1>1, <1>2 DEF UpType, StateOK

----------------------------------------------------------------------------
(* Every step keeps the types, and all but the three that are recorded as tearing
   keep what the session begins with and shorten no local file. *)
Grows == UpType' /\ \A d \in Digests \ {<<>>} : Begins(d) => Begins(d)'
Lengthens == ~MultiPart /\ object # None => object' # None /\ Len(object) <= Len(object')

LEMMA FailGrows ==
  ASSUME UploadConstants, UpType, NEW c \in Clients, Up!Fail(c)
  PROVE  Grows
<1>1. mpu' \in Seq(UpPart) /\ Closes  BY SameUploads DEF Up!Fail
<1>2. /\ req' \in [Clients -> UpRequest] /\ Others(c) /\ ShapeOK(req[c])' /\ \A d : BeginsAt(d, req[c])'
  BY EndStep DEF Up!Fail
<1>3. /\ object' \in Content \cup {None} /\ blobs' = [d \in Digests |-> blobs'[d]]
      /\ (meta' # None => StateOK(meta)' /\ MultiPart) /\ \A d : Begins(d) => BeginsHere(d)'
  BY <1>1, SameSession DEF Up!Fail
<1> QED  BY <1>1, <1>2, <1>3, UpStep DEF Grows

LEMMA PutGrows ==
  ASSUME UploadConstants, UpType, NEW c \in Clients, NEW d \in Digests, Up!Put(c, d)
  PROVE  Grows /\ Others(c) /\ req'[c].pc = "publish" /\ req'[c].round = 1 /\ req'[c].digest = d
<1> DEFINE r == [Up!Idle EXCEPT !.pc = "publish", !.digest = d]
<1>1. r \in UpRequest /\ r.pc = "publish" /\ r.digest = d /\ r.round = 1
  <2>1. <<>> \in Content  BY DEF Content
  <2> QED  BY <2>1 DEF Up!Idle, UpRequest, PutPcs, ReadPcs
<1>2. req' = [req EXCEPT ![c] = r]  BY DEF Up!Put
<1> HIDE DEF r
<1>3. req' \in [Clients -> UpRequest] /\ req'[c] = r /\ Others(c)  BY <1>1, <1>2 DEF UpType, Others
<1>4. ShapeOK(req[c])' /\ \A x : BeginsAt(x, req[c])'
  <2>1. d # None  BY DEF UploadConstants, Content
  <2> QED  BY <1>1, <1>3, <2>1 DEF ShapeOK, BeginsAt, PutPcs, ReadPcs
<1>5. mpu' \in Seq(UpPart) /\ Closes  BY SameUploads DEF Up!Put
<1>6. /\ object' \in Content \cup {None} /\ blobs' = [x \in Digests |-> blobs'[x]]
      /\ (meta' # None => StateOK(meta)' /\ MultiPart) /\ \A x : Begins(x) => BeginsHere(x)'
  BY <1>5, SameSession DEF Up!Put
<1>7. Grows  BY <1>3, <1>4, <1>5, <1>6, UpStep DEF Grows
<1> QED  BY <1>1, <1>3, <1>7

LEMMA SizeIsNumber ==
  ASSUME UploadConstants, UpType, Up!Known
  PROVE  Up!Size \in Nat
<1>1. CASE meta # None
  <2>1. Up!Staged(meta) \in Content  BY <1>1, StagedFacts DEF UpType, StateOK
  <2> QED  BY <1>1, <2>1 DEF Up!Size, Content
<1>2. CASE meta = None
  <2>1. object \in Content  BY <1>2 DEF UpType, Up!Known
  <2> QED  BY <1>2, <2>1 DEF Up!Size, Content
<1> QED  BY <1>1, <1>2

LEMMA PatchGrows ==
  ASSUME UploadConstants, UpType, NEW c \in Clients, NEW chunk \in Chunks, Up!Patch(c, chunk)
  PROVE  Grows /\ Others(c) /\ req'[c].pc \in PatchPcs
<1> DEFINE n == Up!Min({Len(chunk), Limit - Up!Size + 1})
           todo == SubSeq(chunk, 1, n)
           pc == IF MultiPart THEN "load" ELSE "write"
           r == [Up!Idle EXCEPT !.pc = pc, !.stored = Up!Size, !.todo = todo]
<1>1. Up!Size \in Nat /\ Up!Size < Limit /\ Limit \in Nat  BY SizeIsNumber DEF Up!Patch, UploadConstants
<1>2. todo \in Content
  <2>1. chunk \in Content /\ Len(chunk) \in Nat  BY DEF UploadConstants, Content
  <2>2. n \in {Len(chunk), Limit - Up!Size + 1} /\ n <= Len(chunk)
    <3>1. Len(chunk) \in Int /\ Limit - Up!Size + 1 \in Int  BY <1>1, <2>1
    <3> QED  BY <3>1, MinOfTwo
  <2>3. n \in Nat /\ n <= Len(chunk)  BY <1>1, <2>1, <2>2
  <2> HIDE DEF n
  <2> QED  BY <2>1, <2>3, SubSeqProperties DEF Content
<1> HIDE DEF todo
<1>3. r \in UpRequest /\ r.pc = pc /\ r.digest = None
  BY <1>1, <1>2 DEF Up!Idle, UpRequest, PatchPcs, Content
<1>4. req' = [req EXCEPT ![c] = r]  BY DEF Up!Patch, todo
<1> HIDE DEF r
<1>5. req' \in [Clients -> UpRequest] /\ req'[c] = r /\ Others(c)  BY <1>3, <1>4 DEF UpType, Others
<1>6. ShapeOK(req[c])' /\ \A x : BeginsAt(x, req[c])'  BY <1>3, <1>5 DEF ShapeOK, BeginsAt, PutPcs, ReadPcs
<1>7. mpu' \in Seq(UpPart) /\ Closes  BY SameUploads DEF Up!Patch
<1>8. /\ object' \in Content \cup {None} /\ blobs' = [x \in Digests |-> blobs'[x]]
      /\ (meta' # None => StateOK(meta)' /\ MultiPart) /\ \A x : Begins(x) => BeginsHere(x)'
  BY <1>7, SameSession DEF Up!Patch
<1>9. Grows  BY <1>5, <1>6, <1>7, <1>8, UpStep DEF Grows
<1> QED  BY <1>3, <1>5, <1>9 DEF PatchPcs

(* The local disk: there is no side object, and the file is all there is. *)
LEMMA LocalAppendGrows ==
  ASSUME UploadConstants, UpType, NEW c \in Clients, Up!LocalAppend(c)
  PROVE  Grows /\ Others(c) /\ req'[c].pc \in {"cut", "idle"}
<1> DEFINE old == IF object = None THEN <<>> ELSE object
<1>1. old \in Content /\ req[c].todo \in Content /\ object' = old \o req[c].todo /\ object' \in Content
  <2>1. old \in Content  BY DEF UpType, Content
  <2>2. req[c].todo \in Content  BY DEF UpType, UpRequest
  <2>3. object' = old \o req[c].todo  BY DEF Up!LocalAppend
  <2> QED  BY <2>1, <2>2, <2>3, ConcatProperties DEF Content
<1>2. mpu' \in Seq(UpPart) /\ Closes  BY SameUploads DEF Up!LocalAppend
<1>3. /\ req' \in [Clients -> UpRequest] /\ Others(c) /\ ShapeOK(req[c])' /\ (\A d : BeginsAt(d, req[c])')
      /\ req'[c].pc \in {"cut", "idle"}
  <2>1. CASE Up!Go(c, "cut")
    <3>1. /\ req' \in [Clients -> UpRequest] /\ Others(c) /\ req'[c].pc = "cut" /\ req'[c].digest = req[c].digest
      BY <2>1, GoStep DEF PatchPcs
    <3>2. ShapeOK(req[c]) /\ req[c].pc = "write"  BY DEF UpType, Up!LocalAppend, Up!At
    <3> QED  BY <3>1, <3>2 DEF ShapeOK, BeginsAt, PutPcs, ReadPcs
  <2>2. CASE Up!End(c)  BY <2>2, EndStep, IdleIs
  <2> QED  BY <2>1, <2>2 DEF Up!LocalAppend
<1>4. ASSUME NEW d \in Digests \ {<<>>}, Begins(d) PROVE BeginsHere(d)'
  <2>1. d \in Content  BY DEF UploadConstants, Content
  <2>2. Starts(d, object) /\ object # None  BY <1>4 DEF Begins, BeginsHere
  <2>3. Starts(d, object')  BY <1>1, <2>1, <2>2, StartsGrown
  <2>4. meta' = meta  BY DEF Up!LocalAppend
  <2>5. object' # None  BY <1>1 DEF UploadConstants, Content
  <2> QED  BY <1>4, <2>3, <2>4, <2>5 DEF Begins, BeginsHere, Up!Staged
<1>5. blobs' = [d \in Digests |-> blobs'[d]] /\ (meta' # None => StateOK(meta)' /\ MultiPart)
  BY DEF Up!LocalAppend, UpType, StateOK
<1> QED  BY <1>1, <1>2, <1>3, <1>4, <1>5, UpStep DEF Grows

LEMMA LocalAppendCutGrows ==
  ASSUME UploadConstants, UpType, NEW c \in Clients, Up!LocalAppendCut(c)
  PROVE  Grows /\ Others(c) /\ req'[c].pc = "idle"
<1> DEFINE one == <<Head(req[c].todo)>>
<1>1. one \in Content /\ object \in Content /\ object' = object \o one /\ object' \in Content
  <2>1. req[c].todo \in Content  BY DEF UpType, UpRequest
  <2>2. req[c].todo # <<>>  BY DEF Up!LocalAppendCut
  <2>3. Head(req[c].todo) \in Bytes  BY <2>1, <2>2, HeadTailProperties DEF Content
  <2>4. object \in Content /\ object # None  BY DEF Up!LocalAppendCut, UpType
  <2>5. Append(object, Head(req[c].todo)) = object \o one  BY <2>3, <2>4, AppendIsConcat DEF Content
  <2>6. one \in Content  BY <2>3 DEF Content
  <2> HIDE DEF one
  <2> QED  BY <2>4, <2>5, <2>6, ConcatProperties DEF Content, Up!LocalAppendCut
<1> HIDE DEF one
<1>2. mpu' \in Seq(UpPart) /\ Closes  BY SameUploads DEF Up!LocalAppendCut
<1>3. /\ req' \in [Clients -> UpRequest] /\ Others(c) /\ ShapeOK(req[c])' /\ (\A d : BeginsAt(d, req[c])')
      /\ req'[c].pc = "idle"
  BY EndStep, IdleIs DEF Up!LocalAppendCut
<1>4. ASSUME NEW d \in Digests \ {<<>>}, Begins(d) PROVE BeginsHere(d)'
  <2>1. d \in Content  BY DEF UploadConstants, Content
  <2>2. Starts(d, object) /\ object # None  BY <1>4 DEF Begins, BeginsHere
  <2>3. Starts(d, object')  BY <1>1, <2>1, <2>2, StartsGrown
  <2>4. meta' = meta  BY DEF Up!LocalAppendCut
  <2>5. object' # None  BY <1>1 DEF UploadConstants, Content
  <2> QED  BY <1>4, <2>3, <2>4, <2>5 DEF Begins, BeginsHere, Up!Staged
<1>5. blobs' = [d \in Digests |-> blobs'[d]] /\ (meta' # None => StateOK(meta)' /\ MultiPart)
  BY DEF Up!LocalAppendCut, UpType, StateOK
<1> QED  BY <1>1, <1>2, <1>3, <1>4, <1>5, UpStep DEF Grows

LEMMA LocalTruncateTypes ==
  ASSUME UploadConstants, UpType, NEW c \in Clients, Up!LocalTruncate(c)
  PROVE  UpType' /\ Others(c) /\ req'[c].pc = "idle"
<1>1. object' \in Content
  <2>1. object \in Content /\ Len(object) \in Nat  BY DEF Up!LocalTruncate, UpType, Content
  <2>2. req[c].stored \in Nat  BY DEF UpType, UpRequest
  <2> DEFINE n == Up!Min({Len(object), req[c].stored})
  <2>3. n \in Nat /\ n <= Len(object)
    <3>1. Len(object) \in Int /\ req[c].stored \in Int  BY <2>1, <2>2
    <3>2. n \in {Len(object), req[c].stored} /\ n <= Len(object)  BY <3>1, MinOfTwo
    <3> HIDE DEF n
    <3> QED  BY <2>1, <2>2, <3>2
  <2>4. object' = SubSeq(object, 1, n)  BY DEF Up!LocalTruncate
  <2> HIDE DEF n
  <2> QED  BY <2>1, <2>3, <2>4, SubSeqProperties DEF Content
<1>2. mpu' \in Seq(UpPart) /\ Closes  BY SameUploads DEF Up!LocalTruncate
<1>3. req' \in [Clients -> UpRequest] /\ Others(c) /\ ShapeOK(req[c])' /\ req'[c].pc = "idle"
  BY EndStep, IdleIs DEF Up!LocalTruncate
<1>4. blobs' = [d \in Digests |-> blobs'[d]] /\ (meta' # None => StateOK(meta)' /\ MultiPart)
  BY DEF Up!LocalTruncate, UpType, StateOK
<1> QED  BY <1>1, <1>2, <1>3, <1>4, UpStep

(* S3: the state is loaded, or an empty one is made and seeded with the object. *)
LEMMA LoadGrows ==
  ASSUME UploadConstants, UpType, NEW c \in Clients, Up!LoadAppendState(c)
  PROVE  Grows /\ Others(c) /\ req'[c].pc \in PatchPcs
<1>0. MultiPart /\ ShapeOK(req[c]) /\ req[c].pc = "load" /\ Len(mpu) \in Nat
  BY DEF UpType, ShapeOK, Up!LoadAppendState, Up!At
<1>1. CASE meta # None /\ Up!GoWith(c, "feed", meta) /\ mpu' = mpu
  <2>1. StateOK(meta)  BY <1>1 DEF UpType
  <2>2. /\ req' \in [Clients -> UpRequest] /\ Others(c) /\ req'[c].pc = "feed" /\ req'[c].st = meta
        /\ req'[c].digest = req[c].digest
    BY <1>1, <2>1, GoWithStep DEF PatchPcs, StateOK
  <2>3. ShapeOK(req[c])'  BY <1>0, <1>1, <2>1, <2>2 DEF ShapeOK, StateOK, PutPcs, ReadPcs
  <2>4. mpu' \in Seq(UpPart) /\ Closes  BY <1>1, SameUploads
  <2>5. /\ object' \in Content \cup {None} /\ blobs' = [d \in Digests |-> blobs'[d]]
        /\ (meta' # None => StateOK(meta)' /\ MultiPart) /\ \A d : Begins(d) => BeginsHere(d)'
    BY <2>4, SameSession DEF Up!LoadAppendState
  <2>6. ASSUME NEW d, Begins(d) PROVE BeginsAt(d, req[c])'
    BY <1>1, <2>2, <2>6 DEF Begins, BeginsHere, BeginsAt, Up!Staged
  <2> QED  BY <2>2, <2>3, <2>4, <2>5, <2>6, UpStep DEF Grows, PatchPcs
<1>2. CASE /\ mpu' = Append(mpu, [parts |-> <<>>, state |-> "open"])
           /\ Up!GoWith(c, "seed", [upload |-> Len(mpu) + 1, parts |-> <<>>, pending |-> <<>>])
  <2>0. PICK p, st : /\ p = [parts |-> <<>>, state |-> "open"]
                     /\ st = [upload |-> Len(mpu) + 1, parts |-> <<>>, pending |-> <<>>]
    OBVIOUS
  <2>1. p \in UpPart /\ st \in UpState /\ st.upload = Len(mpu) + 1 /\ st.parts = <<>> /\ st.pending = <<>>
    BY <1>0, <2>0 DEF UpPart, UpState, Content
  <2>2. mpu' = Append(mpu, p) /\ Up!GoWith(c, "seed", st)  BY <1>2, <2>0
  <2>3. mpu' \in Seq(UpPart) /\ Len(mpu') = Len(mpu) + 1 /\ \A n \in 1..Len(mpu) : mpu'[n] = mpu[n]
    BY <2>1, <2>2, AppendProperties DEF UpType
  <2>4. Closes  BY <1>0, <2>3 DEF Closes, Open
  <2>5. /\ req' \in [Clients -> UpRequest] /\ Others(c) /\ req'[c].pc = "seed" /\ req'[c].st = st
        /\ req'[c].digest = req[c].digest
    BY <2>1, <2>2, GoWithStep DEF PatchPcs
  <2>6. ShapeOK(req[c])'
    <3>1. Len(<<>>) <= PartSize  BY DEF UploadConstants
    <3>2. StateOK(st)'  BY <1>0, <2>1, <2>3, <3>1 DEF StateOK
    <3>3. StateOK(req[c].st)'  BY <2>5, <3>2 DEF StateOK
    <3> QED  BY <1>0, <2>1, <2>5, <3>3 DEF ShapeOK, PutPcs, ReadPcs
  <2>7. /\ object' \in Content \cup {None} /\ blobs' = [d \in Digests |-> blobs'[d]]
        /\ (meta' # None => StateOK(meta)' /\ MultiPart) /\ \A d : Begins(d) => BeginsHere(d)'
    BY <2>4, SameSession DEF Up!LoadAppendState
  <2>8. \A d : BeginsAt(d, req[c])'  BY <2>5 DEF BeginsAt
  <2> QED  BY <2>3, <2>4, <2>5, <2>6, <2>7, <2>8, UpStep DEF Grows, PatchPcs
<1> QED  BY <1>1, <1>2 DEF Up!LoadAppendState

LEMMA StartGrows ==
  ASSUME UploadConstants, UpType, NEW c \in Clients, Up!StartAppend(c)
  PROVE  Grows /\ Others(c) /\ req'[c].pc \in PatchPcs
<1>1. PICK st : st = req[c].st  OBVIOUS
<1>2. /\ StateOK(st) /\ st \in UpState /\ st.parts = <<>> /\ st.pending = <<>> /\ req[c].digest = None /\ MultiPart
      /\ req[c].pc = "seed"
  BY <1>1 DEF Up!StartAppend, Up!At, UpType, ShapeOK, StateOK, PutPcs, ReadPcs
<1>3. Up!FlattenSeq(st.parts) = <<>>
  <2>1. <<>> \in Seq(Seq(Bytes))  OBVIOUS
  <2> QED  BY <1>2, <2>1, FlattenFacts
<1>4. PartSize \in Nat  BY DEF UploadConstants
<1>5. /\ mpu' \in Seq(UpPart) /\ Closes /\ req' \in [Clients -> UpRequest] /\ Others(c) /\ req'[c].pc = "feed"
      /\ req'[c].digest = None /\ StateOK(req[c].st)'
      /\ (object # None /\ object # <<>> => Up!Staged(req'[c].st) = object)
  <2>1. CASE object \in {None, <<>>} /\ Up!Go(c, "feed") /\ mpu' = mpu
    <3>1. mpu' \in Seq(UpPart) /\ Closes  BY <2>1, SameUploads
    <3>2. /\ req' \in [Clients -> UpRequest] /\ Others(c) /\ req'[c].pc = "feed"
          /\ req'[c].digest = None /\ req'[c].st = st
      BY <1>1, <1>2, <2>1, GoStep DEF PatchPcs
    <3>3. StateOK(req[c].st)'  BY <1>2, <2>1, <3>2 DEF StateOK
    <3> QED  BY <2>1, <3>1, <3>2, <3>3
  <2>2. CASE object # None /\ mpu' = Up!WritePart(st, object) /\ Up!GoWith(c, "feed", Up!Flushed(st, object))
    <3>1. object \in Content  BY <2>2 DEF UpType
    <3>2. mpu' \in Seq(UpPart) /\ Len(mpu') = Len(mpu) /\ Closes  BY <1>2, <2>2, <3>1, WriteStep
    <3>3. PICK f : f = Up!Flushed(st, object)  OBVIOUS
    <3>4. f \in UpState /\ f.upload = st.upload /\ f.pending = <<>> /\ Up!Staged(f) = <<>> \o object
      BY <1>2, <1>3, <3>1, <3>3, FlushFacts
    <3>5. /\ req' \in [Clients -> UpRequest] /\ Others(c) /\ req'[c].pc = "feed"
          /\ req'[c].digest = None /\ req'[c].st = f
      <4>1. Up!GoWith(c, "feed", f)  BY <2>2, <3>3
      <4>2. "feed" \in {"idle"} \cup PatchPcs \cup PutPcs  BY DEF PatchPcs
      <4> QED  BY <1>2, <3>4, <4>1, <4>2, GoWithStep
    <3>6. StateOK(req[c].st)'
      <4>1. Len(f.pending) <= PartSize  BY <1>4, <3>4
      <4> QED  BY <1>2, <3>2, <3>4, <3>5, <4>1 DEF StateOK
    <3>7. Up!Staged(f) = object  BY <3>1, <3>4, ConcatEmptySeq DEF Content
    <3> QED  BY <3>2, <3>5, <3>6, <3>7
  <2>3. CASE object # None /\ Len(object) \in 1..(PartSize - 1) /\ Up!GoWith(c, "feed", [st EXCEPT !.pending = object]) /\ mpu' = mpu
    <3>1. object \in Content  BY <2>3 DEF UpType
    <3>2. mpu' \in Seq(UpPart) /\ Closes  BY <2>3, SameUploads
    <3>3. PICK f : f = [st EXCEPT !.pending = object]  OBVIOUS
    <3>4. f \in UpState /\ f.upload = st.upload /\ f.pending = object /\ f.parts = st.parts  BY <1>2, <3>1, <3>3 DEF UpState
    <3>5. /\ req' \in [Clients -> UpRequest] /\ Others(c) /\ req'[c].pc = "feed"
          /\ req'[c].digest = None /\ req'[c].st = f
      <4>1. Up!GoWith(c, "feed", f)  BY <2>3, <3>3
      <4>2. "feed" \in {"idle"} \cup PatchPcs \cup PutPcs  BY DEF PatchPcs
      <4> QED  BY <1>2, <3>4, <4>1, <4>2, GoWithStep
    <3>6. StateOK(req[c].st)'
      <4>1. Len(f.pending) <= PartSize  BY <1>4, <2>3, <3>4
      <4> QED  BY <1>2, <2>3, <3>4, <3>5, <4>1 DEF StateOK
    <3>7. Up!Staged(f) = object  BY <1>3, <3>1, <3>4, ConcatEmptySeq DEF Content, Up!Staged
    <3> QED  BY <3>2, <3>5, <3>6, <3>7
  <2> QED  BY <1>1, <2>1, <2>2, <2>3 DEF Up!StartAppend
<1>6. ShapeOK(req[c])'  BY <1>2, <1>5 DEF ShapeOK, PutPcs, ReadPcs
<1>7. /\ object' \in Content \cup {None} /\ blobs' = [d \in Digests |-> blobs'[d]]
      /\ (meta' # None => StateOK(meta)' /\ MultiPart) /\ \A d : Begins(d) => BeginsHere(d)'
  BY <1>5, SameSession DEF Up!StartAppend
<1>8. ASSUME NEW d \in Digests \ {<<>>}, Begins(d) PROVE BeginsAt(d, req[c])'
  <2>1. Starts(d, object) /\ object # None /\ d \in Content /\ object \in Content
    BY <1>8 DEF Begins, BeginsHere, UpType, UploadConstants, Content
  <2>2. object # <<>>  BY <2>1, StartsWhole
  <2>3. Starts(d, Up!Staged(req'[c].st))  BY <1>5, <2>1, <2>2
  <2> QED  BY <1>5, <2>3 DEF BeginsAt, Up!Staged
<1> QED  BY <1>5, <1>6, <1>7, <1>8, UpStep DEF Grows, PatchPcs

LEMMA FeedGrows ==
  ASSUME UploadConstants, UpType, NEW c \in Clients, Up!AppendBlob(c)
  PROVE  Grows /\ Others(c) /\ req'[c].pc \in PatchPcs
<1> DEFINE n0 == Up!Min({PartSize - Len(req[c].st.pending), Len(req[c].todo)})
<1>1. PICK st, todo, n : st = req[c].st /\ todo = req[c].todo /\ n = n0  OBVIOUS
<1>2. /\ StateOK(st) /\ st \in UpState /\ req[c].digest = None /\ MultiPart /\ req[c].pc = "feed" /\ PartSize \in Nat
      /\ todo \in Content /\ Len(todo) \in Nat /\ Len(st.pending) \in Nat /\ st.pending \in Content
      /\ Len(st.pending) <= PartSize
  <2>1. /\ StateOK(st) /\ req[c].digest = None /\ MultiPart /\ req[c].pc = "feed" /\ req[c] \in UpRequest
    BY <1>1 DEF Up!AppendBlob, Up!At, UpType, ShapeOK, PutPcs, ReadPcs
  <2>2. st \in UpState /\ st.pending \in Content /\ Len(st.pending) <= PartSize  BY <2>1 DEF StateOK, UpState
  <2>3. todo \in Content  BY <1>1, <2>1 DEF UpRequest
  <2>4. Len(todo) \in Nat /\ Len(st.pending) \in Nat  BY <2>2, <2>3 DEF Content
  <2> QED  BY <2>1, <2>2, <2>3, <2>4 DEF UploadConstants
<1>3. n \in Nat /\ n <= Len(todo)
  <2>1. PartSize - Len(st.pending) \in Int /\ Len(todo) \in Int  BY <1>2
  <2>2. n \in {PartSize - Len(st.pending), Len(todo)} /\ n <= Len(todo)  BY <1>1, <2>1, MinOfTwo
  <2> QED  BY <1>2, <2>2
<1> HIDE DEF n0
<1>4. PICK x, rest : x = SubSeq(todo, 1, n) /\ rest = SubSeq(todo, n + 1, Len(todo))  OBVIOUS
<1>5. x \in Content /\ rest \in Content
  <2>1. x \in Content  BY <1>2, <1>3, <1>4, SubSeqProperties DEF Content
  <2>2. rest \in Content  BY <1>2, <1>3, <1>4, SubSeqProperties DEF Content
  <2> QED  BY <2>1, <2>2
<1>6. PICK buf : buf = st.pending \o x  OBVIOUS
<1>7. buf \in Content /\ Len(buf) \in Nat  BY <1>2, <1>5, <1>6, ConcatProperties DEF Content
<1>8. \/ /\ mpu' = Up!WritePart(st, buf)
         /\ req' = [req EXCEPT ![c] = [req[c] EXCEPT !.pc = "save", !.todo = rest, !.st = Up!Flushed(st, buf)]]
      \/ /\ mpu' = mpu /\ ~(Len(buf) >= PartSize)
         /\ req' = [req EXCEPT ![c] = [req[c] EXCEPT !.pc = "last", !.todo = rest, !.st = [st EXCEPT !.pending = buf]]]
  <2>1. st = req[c].st /\ buf = req[c].st.pending \o SubSeq(req[c].todo, 1, n0)
        /\ rest = SubSeq(req[c].todo, n0 + 1, Len(req[c].todo))
    BY <1>1, <1>4, <1>6
  <2>2. IF Len(buf) >= PartSize
        THEN /\ mpu' = Up!WritePart(st, buf)
             /\ req' = [req EXCEPT ![c].pc = "save", ![c].todo = rest, ![c].st = Up!Flushed(st, buf)]
        ELSE /\ mpu' = mpu
             /\ req' = [req EXCEPT ![c].pc = "last", ![c].todo = rest, ![c].st = [st EXCEPT !.pending = buf]]
    BY <2>1, Zenon DEF Up!AppendBlob, n0
  <2> QED  BY <2>2
<1>9. PICK f : /\ f \in UpState /\ f.upload = st.upload /\ Up!Staged(f) = Up!Staged(st) \o x /\ Len(f.pending) <= PartSize
               /\ mpu' \in Seq(UpPart) /\ Len(mpu') = Len(mpu) /\ Closes
               /\ \E pc \in {"save", "last"} : req' = [req EXCEPT ![c] = [req[c] EXCEPT !.pc = pc, !.todo = rest, !.st = f]]
  <2>0. Up!FlattenSeq(st.parts) \in Content  BY <1>2, StagedFacts
  <2>1. Up!FlattenSeq(st.parts) \o buf = Up!Staged(st) \o x
    <3>1. PICK a, b : a = Up!FlattenSeq(st.parts) /\ b = st.pending  OBVIOUS
    <3>2. a \in Seq(Bytes) /\ b \in Seq(Bytes) /\ x \in Seq(Bytes)  BY <1>2, <1>5, <2>0, <3>1 DEF Content
    <3>3. (a \o b) \o x = a \o (b \o x)  BY <3>2, ConcatAssociative
    <3> QED  BY <1>6, <3>1, <3>3 DEF Up!Staged
  <2>2. CASE /\ mpu' = Up!WritePart(st, buf)
             /\ req' = [req EXCEPT ![c] = [req[c] EXCEPT !.pc = "save", !.todo = rest, !.st = Up!Flushed(st, buf)]]
    <3>1. PICK f : f = Up!Flushed(st, buf)  OBVIOUS
    <3>2. f \in UpState /\ f.upload = st.upload /\ f.pending = <<>> /\ Up!Staged(f) = Up!FlattenSeq(st.parts) \o buf
      BY <1>2, <1>7, <3>1, FlushFacts
    <3>3. Len(f.pending) <= PartSize  BY <1>2, <3>2
    <3>4. mpu' \in Seq(UpPart) /\ Len(mpu') = Len(mpu) /\ Closes  BY <1>2, <1>7, <2>2, WriteStep
    <3> QED  BY <2>1, <2>2, <3>1, <3>2, <3>3, <3>4
  <2>3. CASE /\ mpu' = mpu /\ ~(Len(buf) >= PartSize)
             /\ req' = [req EXCEPT ![c] = [req[c] EXCEPT !.pc = "last", !.todo = rest, !.st = [st EXCEPT !.pending = buf]]]
    <3>1. PICK f : f = [st EXCEPT !.pending = buf]  OBVIOUS
    <3>2. f \in UpState /\ f.upload = st.upload /\ f.pending = buf /\ f.parts = st.parts  BY <1>2, <1>7, <3>1 DEF UpState
    <3>3. Len(f.pending) <= PartSize  BY <1>2, <1>7, <2>3, <3>2
    <3>4. mpu' \in Seq(UpPart) /\ Closes  BY <2>3, SameUploads
    <3>5. Up!Staged(f) = Up!Staged(st) \o x  BY <2>1, <3>2 DEF Up!Staged
    <3> QED  BY <2>3, <3>1, <3>2, <3>3, <3>4, <3>5
  <2> QED  BY <1>8, <2>2, <2>3
<1>10. /\ req' \in [Clients -> UpRequest] /\ Others(c) /\ req'[c].pc \in {"save", "last"} /\ req'[c].digest = None
       /\ req'[c].st = f
  <2>1. PICK pc \in {"save", "last"} : req' = [req EXCEPT ![c] = [req[c] EXCEPT !.pc = pc, !.todo = rest, !.st = f]]  BY <1>9
  <2>2. PICK r : r = [req[c] EXCEPT !.pc = pc, !.todo = rest, !.st = f]  OBVIOUS
  <2>3. req[c] \in UpRequest  BY DEF UpType
  <2>4. r \in UpRequest /\ r.pc = pc /\ r.digest = req[c].digest /\ r.st = f
    BY <1>5, <1>9, <2>2, <2>3 DEF UpRequest, PatchPcs
  <2>5. req' \in [Clients -> UpRequest] /\ req'[c] = r /\ Others(c)  BY <2>1, <2>2, <2>4 DEF UpType, Others
  <2> QED  BY <1>2, <2>4, <2>5
<1>11. ShapeOK(req[c])'
  <2>1. StateOK(req[c].st)'  BY <1>2, <1>9, <1>10 DEF StateOK
  <2> QED  BY <1>2, <1>10, <2>1 DEF ShapeOK, PutPcs, ReadPcs
<1>12. /\ object' \in Content \cup {None} /\ blobs' = [d \in Digests |-> blobs'[d]]
       /\ (meta' # None => StateOK(meta)' /\ MultiPart) /\ \A d : Begins(d) => BeginsHere(d)'
  BY <1>9, SameSession DEF Up!AppendBlob
<1>13. ASSUME NEW d \in Digests \ {<<>>}, Begins(d) PROVE BeginsAt(d, req[c])'
  <2>1. d \in Content /\ Starts(d, Up!Staged(st))
    <3>1. BeginsAt(d, req[c])  BY <1>13 DEF Begins
    <3>2. Starts(d, Up!Staged(st))  BY <1>1, <1>2, <3>1 DEF BeginsAt
    <3> QED  BY <3>2 DEF UploadConstants, Content
  <2>2. Starts(d, Up!Staged(f))
    <3>1. Up!Staged(st) \in Content  BY <1>2, StagedFacts
    <3>2. Starts(d, Up!Staged(st) \o x)  BY <1>5, <2>1, <3>1, StartsGrown
    <3> QED  BY <1>9, <3>2
  <2> QED  BY <1>10, <2>2 DEF BeginsAt, Up!Staged
<1> QED  BY <1>9, <1>10, <1>11, <1>12, <1>13, UpStep DEF Grows, PatchPcs

(* What a request saves is what it has staged. *)
LEMMA SavedStep ==
  ASSUME UploadConstants, UpType, NEW c \in Clients, req[c].pc \in {"save", "last"}, meta' = req[c].st,
         NEW pc \in {"idle"} \cup PatchPcs, pc \notin {"write", "cut", "seed"}, Up!Go(c, pc),
         UNCHANGED <<object, mpu, blobs>>
  PROVE  Grows /\ Others(c) /\ req'[c].pc = pc
<1>1. ShapeOK(req[c]) /\ StateOK(req[c].st) /\ MultiPart /\ req[c].digest = None
  BY DEF UpType, ShapeOK, PutPcs, ReadPcs
<1>2. /\ req' \in [Clients -> UpRequest] /\ Others(c) /\ req'[c].pc = pc /\ req'[c].digest = None /\ req'[c].st = req[c].st
  BY <1>1, GoStep
<1>3. mpu' \in Seq(UpPart) /\ Closes  BY SameUploads
<1>4. StateOK(meta)' /\ StateOK(req[c].st)'  BY <1>1, <1>2 DEF StateOK
<1>5. ShapeOK(req[c])'  BY <1>1, <1>2, <1>4 DEF ShapeOK, PutPcs, ReadPcs, PatchPcs
<1>6. object' \in Content \cup {None} /\ blobs' = [d \in Digests |-> blobs'[d]]  BY DEF UpType
<1>7. ASSUME NEW d, Begins(d) PROVE BeginsHere(d)' /\ BeginsAt(d, req[c])'
  <2>1. BeginsHere(d) /\ BeginsAt(d, req[c])  BY <1>7 DEF Begins
  <2>2. Starts(d, Up!Staged(req[c].st))  BY <2>1 DEF BeginsAt
  <2> QED  BY <1>2, <2>1, <2>2 DEF BeginsHere, BeginsAt, Up!Staged, PatchPcs
<1> QED  BY <1>1, <1>2, <1>3, <1>4, <1>5, <1>6, <1>7, UpStep DEF Grows

LEMMA SaveGrows ==
  ASSUME UploadConstants, UpType, NEW c \in Clients, Up!SaveAppendState(c)
  PROVE  Grows /\ Others(c) /\ req'[c].pc \in PatchPcs
<1>1. PICK pc \in {"last", "feed"} : Up!Go(c, pc)  BY DEF Up!SaveAppendState
<1>2. pc \in PatchPcs /\ pc \notin {"write", "cut", "seed"}  BY DEF PatchPcs
<1> QED  BY <1>1, <1>2, SavedStep DEF Up!SaveAppendState, Up!At

LEMMA EndsGrows ==
  ASSUME UploadConstants, UpType, NEW c \in Clients, Up!AppendEnds(c)
  PROVE  Grows /\ Others(c) /\ req'[c].pc \in {"truncate", "idle"}
<1>1. CASE Up!Go(c, "truncate")
  <2>1. "truncate" \in PatchPcs  BY DEF PatchPcs
  <2> QED  BY <1>1, <2>1, SavedStep DEF Up!AppendEnds, Up!At
<1>2. CASE Up!End(c)
  <2>1. StateOK(req[c].st) /\ MultiPart  BY DEF UpType, ShapeOK, Up!AppendEnds, Up!At
  <2>2. mpu' \in Seq(UpPart) /\ Closes  BY SameUploads DEF Up!AppendEnds
  <2>3. StateOK(meta)'  BY <2>1 DEF StateOK, Up!AppendEnds
  <2>4. /\ req' \in [Clients -> UpRequest] /\ Others(c) /\ ShapeOK(req[c])' /\ (\A d : BeginsAt(d, req[c])')
        /\ req'[c].pc = "idle"
    BY <1>2, EndStep, IdleIs
  <2>5. object' \in Content \cup {None} /\ blobs' = [d \in Digests |-> blobs'[d]]  BY DEF UpType, Up!AppendEnds
  <2>6. ASSUME NEW d, Begins(d) PROVE BeginsHere(d)'
    <3>1. BeginsHere(d) /\ BeginsAt(d, req[c])  BY <2>6 DEF Begins
    <3>2. Starts(d, Up!Staged(req[c].st))  BY <3>1 DEF BeginsAt, Up!AppendEnds, Up!At
    <3> QED  BY <3>1, <3>2 DEF BeginsHere, Up!Staged, Up!AppendEnds
  <2> QED  BY <2>1, <2>2, <2>3, <2>4, <2>5, <2>6, UpStep DEF Grows
<1> QED  BY <1>1, <1>2 DEF Up!AppendEnds

LEMMA TruncateTypes ==
  ASSUME UploadConstants, UpType, NEW c \in Clients, Up!TruncateBlob(c)
  PROVE  UpType' /\ Others(c) /\ req'[c].pc = "idle"
<1> DEFINE up == Len(Up!FlattenSeq(meta.parts))
<1>1. StateOK(meta) /\ meta \in UpState /\ MultiPart  BY DEF Up!TruncateBlob, UpType, StateOK
<1>2. /\ meta.pending \in Content /\ Len(meta.pending) \in Nat /\ up \in Nat /\ Len(Up!Staged(meta)) = up + Len(meta.pending)
      /\ req[c].stored \in Nat
  <2>1. Up!FlattenSeq(meta.parts) \in Content /\ meta.pending \in Content /\ Len(Up!Staged(meta)) = up + Len(meta.pending)
    BY <1>1, StagedFacts
  <2> QED  BY <2>1 DEF Content, UpType, UpRequest
<1>3. PICK n : n = req[c].stored - up  OBVIOUS
<1>4. meta' # meta => n \in Nat /\ n <= Len(meta.pending) /\ meta' = [meta EXCEPT !.pending = SubSeq(meta.pending, 1, n)]
  <2>1. SUFFICES ASSUME meta' # meta
                 PROVE  n \in Nat /\ n <= Len(meta.pending) /\ meta' = [meta EXCEPT !.pending = SubSeq(meta.pending, 1, n)]
    OBVIOUS
  <2>2. /\ req[c].stored \in up..Len(Up!Staged(meta))
        /\ meta' = [meta EXCEPT !.pending = SubSeq(meta.pending, 1, req[c].stored - up)]
    BY <2>1 DEF Up!TruncateBlob
  <2> HIDE DEF up
  <2>3. n \in Nat /\ n <= Len(meta.pending)  BY <1>2, <1>3, <2>2
  <2> QED  BY <1>3, <2>2, <2>3
<1>5. StateOK(meta)'
  <2>1. mpu' = mpu  BY DEF Up!TruncateBlob
  <2>2. CASE meta' = meta  BY <1>1, <2>1, <2>2 DEF StateOK
  <2>3. CASE meta' # meta
    <3>1. PICK x : x = SubSeq(meta.pending, 1, n)  OBVIOUS
    <3>2. x \in Content /\ Len(x) <= Len(meta.pending)
      BY <1>2, <1>4, <2>3, <3>1, SubSeqProperties DEF Content
    <3>3. meta' = [meta EXCEPT !.pending = x]  BY <1>4, <2>3, <3>1
    <3>4. meta' \in UpState /\ meta'.upload = meta.upload /\ meta'.pending = x  BY <1>1, <3>2, <3>3 DEF UpState
    <3>5. Len(x) \in Nat /\ PartSize \in Nat  BY <3>2 DEF Content, UploadConstants
    <3> QED  BY <1>1, <1>2, <2>1, <3>2, <3>4, <3>5 DEF StateOK
  <2> QED  BY <2>2, <2>3
<1>6. mpu' \in Seq(UpPart) /\ Closes  BY SameUploads DEF Up!TruncateBlob
<1>7. req' \in [Clients -> UpRequest] /\ Others(c) /\ ShapeOK(req[c])' /\ req'[c].pc = "idle"
  BY EndStep, IdleIs DEF Up!TruncateBlob
<1>8. object' \in Content \cup {None} /\ blobs' = [d \in Digests |-> blobs'[d]]  BY DEF Up!TruncateBlob, UpType
<1> QED  BY <1>1, <1>5, <1>6, <1>7, <1>8, UpStep

----------------------------------------------------------------------------
(* The finalising PUT. *)
LEMMA FinalizeGrows ==
  ASSUME UploadConstants, UpType, NEW c \in Clients, Up!FinalizeAppend(c)
  PROVE  /\ Grows /\ Others(c) /\ Closes /\ req'[c].pc \in {"get", "complete", "unmeta"}
         /\ req'[c].round = req[c].round /\ req'[c].digest = req[c].digest /\ req'[c].stored = req[c].stored
         /\ req'[c].pc = "get" => meta = None
         /\ req'[c].pc = "complete" => meta # None /\ req'[c].st.upload = meta.upload
         /\ req'[c].pc = "unmeta" => meta # None /\ meta.upload \in 1..Len(mpu) /\ ~Open(meta.upload)'
<1>0. ShapeOK(req[c]) /\ req[c].digest # None /\ (meta # None => StateOK(meta) /\ meta \in UpState /\ MultiPart)
  BY DEF Up!FinalizeAppend, Up!At, UpType, ShapeOK, StateOK, PutPcs, ReadPcs
<1>1. CASE meta = None /\ Up!Go(c, "get") /\ UNCHANGED <<mpu, object>>
  <2>1. /\ req' \in [Clients -> UpRequest] /\ Others(c) /\ req'[c].pc = "get" /\ req'[c].digest = req[c].digest
        /\ req'[c].round = req[c].round /\ req'[c].stored = req[c].stored
    BY <1>1, GoStep DEF PutPcs, ReadPcs
  <2>2. ShapeOK(req[c])' /\ \A d : BeginsAt(d, req[c])'  BY <1>0, <2>1 DEF ShapeOK, BeginsAt, PutPcs, ReadPcs
  <2>3. mpu' \in Seq(UpPart) /\ Closes  BY <1>1, SameUploads
  <2>4. /\ object' \in Content \cup {None} /\ blobs' = [d \in Digests |-> blobs'[d]]
        /\ (meta' # None => StateOK(meta)' /\ MultiPart) /\ \A d : Begins(d) => BeginsHere(d)'
    BY <1>1, <2>3, SameSession DEF Up!FinalizeAppend
  <2>5. Grows  BY <2>1, <2>2, <2>3, <2>4, UpStep DEF Grows
  <2> QED  BY <1>1, <2>1, <2>3, <2>5
<1>2. ASSUME meta # None, NEW st \in UpState, st.upload = meta.upload, Len(st.pending) <= PartSize,
             Up!FlattenSeq(st.parts) = Up!Staged(meta), Up!GoWith(c, "complete", st), object' = object,
             mpu' \in Seq(UpPart), Len(mpu') = Len(mpu), Closes
      PROVE  /\ Grows /\ Others(c) /\ Closes /\ req'[c].pc = "complete" /\ req'[c].st.upload = meta.upload
             /\ req'[c].round = req[c].round /\ req'[c].digest = req[c].digest /\ req'[c].stored = req[c].stored
  <2>1. /\ req' \in [Clients -> UpRequest] /\ Others(c) /\ req'[c].pc = "complete" /\ req'[c].digest = req[c].digest
        /\ req'[c].round = req[c].round /\ req'[c].stored = req[c].stored /\ req'[c].st = st
    BY <1>2, GoWithStep DEF PutPcs, ReadPcs
  <2>2. StateOK(req[c].st)'  BY <1>0, <1>2, <2>1 DEF StateOK
  <2>3. ShapeOK(req[c])'  BY <1>0, <1>2, <2>1, <2>2 DEF ShapeOK, PutPcs, ReadPcs
  <2>4. /\ object' \in Content \cup {None} /\ blobs' = [d \in Digests |-> blobs'[d]]
        /\ (meta' # None => StateOK(meta)' /\ MultiPart) /\ \A d : Begins(d) => BeginsHere(d)'
    BY <1>2, SameSession DEF Up!FinalizeAppend
  <2>5. ASSUME NEW d, Begins(d) PROVE BeginsAt(d, req[c])'
    <3>1. Starts(d, Up!FlattenSeq(st.parts))  BY <1>2, <2>5 DEF Begins, BeginsHere
    <3> QED  BY <2>1, <3>1 DEF BeginsAt
  <2>6. Grows  BY <1>2, <2>1, <2>3, <2>4, <2>5, UpStep DEF Grows
  <2> QED  BY <1>2, <2>1, <2>6
<1>3. CASE meta # None /\ mpu' = Up!WritePart(meta, meta.pending) /\ object' = object
           /\ Up!GoWith(c, "complete", Up!Flushed(meta, meta.pending))
  <2>1. PICK st : st = Up!Flushed(meta, meta.pending)  OBVIOUS
  <2>2. meta.pending \in Content /\ PartSize \in Nat  BY <1>0, <1>3 DEF UpState, UploadConstants
  <2>3. /\ st \in UpState /\ st.upload = meta.upload /\ st.pending = <<>>
        /\ Up!FlattenSeq(st.parts) = Up!FlattenSeq(meta.parts) \o meta.pending
    BY <1>0, <1>3, <2>1, <2>2, FlushFacts
  <2>4. Len(st.pending) <= PartSize /\ Up!FlattenSeq(st.parts) = Up!Staged(meta)  BY <2>2, <2>3 DEF Up!Staged
  <2>5. mpu' \in Seq(UpPart) /\ Len(mpu') = Len(mpu) /\ Closes  BY <1>0, <1>3, <2>2, WriteStep
  <2> QED  BY <1>2, <1>3, <2>1, <2>3, <2>4, <2>5
<1>4. CASE meta # None /\ meta.pending = <<>> /\ Up!GoWith(c, "complete", meta) /\ UNCHANGED <<mpu, object>>
  <2>1. Up!FlattenSeq(meta.parts) = Up!Staged(meta)
    <3>1. PICK a : a = Up!FlattenSeq(meta.parts)  OBVIOUS
    <3>2. a \in Seq(Bytes)  BY <1>0, <1>4, <3>1, StagedFacts DEF Content
    <3>3. a \o <<>> = a  BY <3>2, ConcatEmptySeq
    <3> QED  BY <1>4, <3>1, <3>3 DEF Up!Staged
  <2>2. mpu' \in Seq(UpPart) /\ Closes /\ Len(mpu') = Len(mpu)  BY <1>4, SameUploads
  <2>3. Len(meta.pending) <= PartSize  BY <1>0, <1>4 DEF StateOK
  <2> QED  BY <1>0, <1>2, <1>4, <2>1, <2>2, <2>3
<1>5. CASE /\ meta # None /\ Up!Staged(meta) = <<>>
           /\ mpu' = [mpu EXCEPT ![meta.upload].state = IF @ = "open" THEN "aborted" ELSE @]
           /\ object' = <<>> /\ Up!GoWith(c, "unmeta", meta)
  <2>1. /\ req' \in [Clients -> UpRequest] /\ Others(c) /\ req'[c].pc = "unmeta" /\ req'[c].digest = req[c].digest
        /\ req'[c].round = req[c].round /\ req'[c].stored = req[c].stored
    BY <1>0, <1>5, GoWithStep DEF PutPcs, ReadPcs
  <2>2. ShapeOK(req[c])' /\ \A d : BeginsAt(d, req[c])'  BY <1>0, <1>5, <2>1 DEF ShapeOK, BeginsAt, PutPcs, ReadPcs
  <2>3. meta.upload \in 1..Len(mpu)  BY <1>0, <1>5 DEF StateOK
  <2>4. mpu' \in Seq(UpPart) /\ Len(mpu') = Len(mpu) /\ Closes /\ ~Open(meta.upload)'
    <3>1. PICK u : u = meta.upload  OBVIOUS
    <3>2. PICK x : x = IF mpu[u].state = "open" THEN "aborted" ELSE mpu[u].state  OBVIOUS
    <3>3. u \in 1..Len(mpu) /\ x \in {"completed", "aborted", mpu[u].state} /\ x # "open"  BY <2>3, <3>1, <3>2
    <3>4. mpu' = [mpu EXCEPT ![u].state = x]  BY <1>5, <3>1, <3>2
    <3>5. mpu' \in Seq(UpPart) /\ Len(mpu') = Len(mpu) /\ Closes /\ ~Open(u)'  BY <3>3, <3>4, CloseStep
    <3>6. meta' = meta  BY DEF Up!FinalizeAppend
    <3> QED  BY <3>1, <3>5, <3>6 DEF Open
  <2>5. /\ object' \in Content \cup {None} /\ blobs' = [d \in Digests |-> blobs'[d]]
        /\ (meta' # None => StateOK(meta)' /\ MultiPart)
    <3>1. meta' = meta /\ blobs' = blobs  BY DEF Up!FinalizeAppend
    <3>2. StateOK(meta)'  BY <1>0, <1>5, <2>4, <3>1 DEF StateOK
    <3> QED  BY <1>0, <1>5, <3>1, <3>2 DEF UpType, Content
  <2>6. \A d \in Digests \ {<<>>} : ~Begins(d)
    <3>1. SUFFICES ASSUME NEW d \in Digests \ {<<>>}, Begins(d) PROVE FALSE  OBVIOUS
    <3>2. Starts(d, Up!Staged(meta)) /\ d \in Content /\ <<>> \in Content
      BY <1>5, <3>1 DEF Begins, BeginsHere, UploadConstants, Content
    <3>3. Starts(d, <<>>)  BY <1>5, <3>2
    <3> QED  BY <3>2, <3>3, StartsWhole
  <2>7. Grows  BY <2>1, <2>2, <2>4, <2>5, <2>6, UpStep DEF Grows
  <2> QED  BY <1>5, <2>1, <2>3, <2>4, <2>7
<1> QED
  <2>1. \/ meta = None /\ Up!Go(c, "get") /\ UNCHANGED <<mpu, object>>
        \/ meta # None /\ mpu' = Up!WritePart(meta, meta.pending) /\ object' = object
           /\ Up!GoWith(c, "complete", Up!Flushed(meta, meta.pending))
        \/ meta # None /\ meta.pending = <<>> /\ Up!GoWith(c, "complete", meta) /\ UNCHANGED <<mpu, object>>
        \/ /\ meta # None /\ Up!Staged(meta) = <<>>
           /\ mpu' = [mpu EXCEPT ![meta.upload].state = IF @ = "open" THEN "aborted" ELSE @]
           /\ object' = <<>> /\ Up!GoWith(c, "unmeta", meta)
    BY DEF Up!FinalizeAppend
  <2> QED  BY <1>1, <1>3, <1>4, <1>5, <2>1

LEMMA CompleteGrows ==
  ASSUME UploadConstants, UpType, NEW c \in Clients, Up!CompleteMultipartUpload(c)
  PROVE  /\ Grows /\ Others(c) /\ Closes /\ req'[c].pc = "unmeta" /\ req'[c].st = req[c].st /\ ~Open(req[c].st.upload)'
         /\ req'[c].round = req[c].round /\ req'[c].digest = req[c].digest /\ req'[c].stored = req[c].stored
<1>1. PICK st : st = req[c].st  OBVIOUS
<1>2. StateOK(st) /\ req[c].digest # None /\ MultiPart /\ req[c].pc = "complete" /\ Open(st.upload)
  BY <1>1 DEF Up!CompleteMultipartUpload, Up!Uploading, Open, Up!At, UpType, ShapeOK, PutPcs, ReadPcs
<1>3. mpu' = [mpu EXCEPT ![st.upload].state = "completed"] /\ object' = Up!FlattenSeq(st.parts)
  BY <1>1 DEF Up!CompleteMultipartUpload
<1>4. mpu' \in Seq(UpPart) /\ Closes /\ ~Open(st.upload)' /\ Len(mpu') = Len(mpu)
  <2>1. PICK u : u = st.upload  OBVIOUS
  <2>2. u \in 1..Len(mpu)  BY <1>2, <2>1 DEF StateOK
  <2>3. mpu' \in Seq(UpPart) /\ Len(mpu') = Len(mpu) /\ Closes /\ ~Open(u)'  BY <1>3, <2>1, <2>2, CloseStep
  <2> QED  BY <2>1, <2>3
<1>5. /\ req' \in [Clients -> UpRequest] /\ Others(c) /\ req'[c].pc = "unmeta" /\ req'[c].digest = req[c].digest
      /\ req'[c].round = req[c].round /\ req'[c].stored = req[c].stored /\ req'[c].st = st
  BY <1>1, GoStep DEF PutPcs, ReadPcs, Up!CompleteMultipartUpload
<1>6. ShapeOK(req[c])' /\ \A d : BeginsAt(d, req[c])'  BY <1>2, <1>5 DEF ShapeOK, BeginsAt, PutPcs, ReadPcs
<1>7. object' \in Content /\ object' # None
  <2>1. Up!FlattenSeq(st.parts) \in Content  BY <1>2, StagedFacts DEF StateOK
  <2> QED  BY <1>3, <2>1 DEF UploadConstants, Content
<1>8. meta' = meta /\ blobs' = [d \in Digests |-> blobs'[d]] /\ (meta' # None => StateOK(meta)' /\ MultiPart)
  BY <1>4 DEF Up!CompleteMultipartUpload, UpType, StateOK
<1>9. ASSUME NEW d, Begins(d) PROVE BeginsHere(d)'
  <2>1. BeginsHere(d) /\ BeginsAt(d, req[c])  BY <1>9 DEF Begins
  <2>2. Starts(d, Up!FlattenSeq(st.parts))  BY <1>1, <1>2, <2>1 DEF BeginsAt
  <2> QED  BY <1>3, <1>7, <1>8, <2>1, <2>2 DEF BeginsHere, Up!Staged
<1>10. Grows  BY <1>4, <1>5, <1>6, <1>7, <1>8, <1>9, UpStep DEF Grows
<1> QED  BY <1>1, <1>2, <1>4, <1>5, <1>10

LEMMA DeleteStateGrows ==
  ASSUME UploadConstants, UpType, NEW c \in Clients, Up!DeleteAppendState(c)
  PROVE  /\ Grows /\ Others(c) /\ req'[c].pc = "get"
         /\ req'[c].round = req[c].round /\ req'[c].digest = req[c].digest /\ req'[c].stored = req[c].stored
<1>1. req[c].digest # None /\ ShapeOK(req[c])  BY DEF Up!DeleteAppendState, Up!At, UpType, ShapeOK, PutPcs, ReadPcs
<1>2. /\ req' \in [Clients -> UpRequest] /\ Others(c) /\ req'[c].pc = "get" /\ req'[c].digest = req[c].digest
      /\ req'[c].round = req[c].round /\ req'[c].stored = req[c].stored
  BY GoStep DEF PutPcs, ReadPcs, Up!DeleteAppendState
<1>3. ShapeOK(req[c])' /\ \A d : BeginsAt(d, req[c])'  BY <1>1, <1>2 DEF ShapeOK, BeginsAt, PutPcs, ReadPcs
<1>4. mpu' \in Seq(UpPart) /\ Closes  BY SameUploads DEF Up!DeleteAppendState
<1>5. object' \in Content \cup {None} /\ blobs' = [d \in Digests |-> blobs'[d]] /\ meta' = None
  BY DEF Up!DeleteAppendState, UpType
<1>6. \A d : Begins(d) => BeginsHere(d)'  BY <1>5 DEF Up!DeleteAppendState, Begins, BeginsHere
<1>7. Grows  BY <1>2, <1>3, <1>4, <1>5, <1>6, UpStep DEF Grows
<1> QED  BY <1>2, <1>7

LEMMA VerifyGrows ==
  ASSUME UploadConstants, UpType, NEW c \in Clients, Up!Verify(c)
  PROVE  /\ Grows /\ Others(c)
         /\ req'[c].pc = "hash" /\ req'[c].digest = req[c].digest
         /\ req'[c].todo = object /\ req'[c].stored = Len(object)
<1>1. req[c].digest # None /\ ShapeOK(req[c]) /\ req[c] \in UpRequest /\ object \in Content
  BY DEF Up!Verify, Up!At, UpType, ShapeOK, PutPcs, ReadPcs
<1>2. mpu' \in Seq(UpPart) /\ Closes  BY SameUploads DEF Up!Verify
<1>3. /\ object' \in Content \cup {None} /\ blobs' = [d \in Digests |-> blobs'[d]]
      /\ (meta' # None => StateOK(meta)' /\ MultiPart) /\ \A d : Begins(d) => BeginsHere(d)'
  BY <1>2, SameSession DEF Up!Verify
<1>4. PICK r : r = [req[c] EXCEPT !.pc = "hash", !.round = 2, !.todo = object, !.stored = Len(object)]  OBVIOUS
<1>5. /\ r \in UpRequest /\ r.pc = "hash" /\ r.round = 2 /\ r.digest = req[c].digest
      /\ r.todo = object /\ r.stored = Len(object)
  <2>1. Len(object) \in Nat  BY <1>1 DEF Content
  <2> QED  BY <1>1, <1>4, <2>1 DEF UpRequest, PutPcs, ReadPcs
<1>6. req' = [req EXCEPT ![c] = r]  BY <1>4 DEF Up!Verify
<1>7. req' \in [Clients -> UpRequest] /\ req'[c] = r /\ Others(c)  BY <1>5, <1>6 DEF UpType, Others
<1>8. ShapeOK(req[c])' /\ \A d : BeginsAt(d, req[c])'  BY <1>1, <1>5, <1>7 DEF ShapeOK, BeginsAt, PutPcs, ReadPcs
<1>9. Grows  BY <1>2, <1>3, <1>7, <1>8, UpStep DEF Grows
<1> QED  BY <1>5, <1>7, <1>9

LEMMA HashGrows ==
  ASSUME UploadConstants, UpType, NEW c \in Clients, Up!digestMismatchStream(c)
  PROVE  /\ Grows /\ Others(c)
         /\ \/ req'[c].pc = "idle"
            \/ /\ req'[c].pc = "publish" /\ req'[c].digest = req[c].digest /\ req'[c].stored = req[c].stored
               /\ req'[c].round = req[c].round
               /\ (IF MultiPart THEN req[c].todo ELSE object) = req[c].digest
<1>1. req[c].digest # None /\ ShapeOK(req[c]) /\ req[c] \in UpRequest
  BY DEF Up!digestMismatchStream, Up!At, UpType, ShapeOK, PutPcs
<1>2. mpu' \in Seq(UpPart) /\ Closes  BY SameUploads DEF Up!digestMismatchStream
<1>3. /\ object' \in Content \cup {None} /\ blobs' = [d \in Digests |-> blobs'[d]]
      /\ (meta' # None => StateOK(meta)' /\ MultiPart) /\ \A d : Begins(d) => BeginsHere(d)'
  BY <1>2, SameSession DEF Up!digestMismatchStream
<1>4. CASE Up!End(c)
  <2>1. /\ req' \in [Clients -> UpRequest] /\ Others(c) /\ ShapeOK(req[c])' /\ (\A d : BeginsAt(d, req[c])')
        /\ req'[c].pc = "idle"
    BY <1>4, EndStep, IdleIs
  <2> QED  BY <1>2, <1>3, <2>1, UpStep DEF Grows
<1>5. CASE /\ (IF MultiPart THEN req[c].todo ELSE object) = req[c].digest
           /\ req' = [req EXCEPT ![c].pc = "publish", ![c].todo = <<>>]
  <2>1. PICK r : r = [req[c] EXCEPT !.pc = "publish", !.todo = <<>>]  OBVIOUS
  <2>2. r \in UpRequest /\ r.pc = "publish" /\ r.digest = req[c].digest /\ r.stored = req[c].stored /\ r.round = req[c].round
    <3>1. <<>> \in Content  BY DEF Content
    <3> QED  BY <1>1, <2>1, <3>1 DEF UpRequest, PutPcs, ReadPcs
  <2>3. req' \in [Clients -> UpRequest] /\ req'[c] = r /\ Others(c)  BY <1>5, <2>1, <2>2 DEF UpType, Others
  <2>4. ShapeOK(req[c])' /\ \A d : BeginsAt(d, req[c])'  BY <1>1, <2>2, <2>3 DEF ShapeOK, BeginsAt, PutPcs, ReadPcs
  <2>5. Grows  BY <1>2, <1>3, <2>3, <2>4, UpStep DEF Grows
  <2> QED  BY <1>5, <2>2, <2>3, <2>5
<1> QED  BY <1>4, <1>5 DEF Up!digestMismatchStream

LEMMA StoreGrows ==
  ASSUME UploadConstants, UpType, NEW c \in Clients, Up!Store(c)
  PROVE  /\ Grows /\ Others(c) /\ req'[c].pc \in {"idle", "abort"}
         /\ req[c].digest \in Digests /\ object \in Content
         /\ \A d \in Digests : blobs'[d] = IF d # req[c].digest THEN blobs[d]
                                           ELSE IF req[c].stored = 0 \/ Len(object) = req[c].stored THEN object ELSE None
<1>1. req[c].digest # None /\ ShapeOK(req[c]) /\ req[c] \in UpRequest /\ object \in Content
  BY DEF Up!Store, Up!At, UpType, ShapeOK, PutPcs, ReadPcs
<1>2. req[c].digest \in Digests  BY <1>1 DEF UpRequest
<1>3. mpu' \in Seq(UpPart) /\ Closes  BY SameUploads DEF Up!Store
<1>4. /\ blobs' = [d \in Digests |-> blobs'[d]]
      /\ \A d \in Digests : blobs'[d] = IF d # req[c].digest THEN blobs[d]
                                        ELSE IF req[c].stored = 0 \/ Len(object) = req[c].stored THEN object ELSE None
  BY <1>2 DEF Up!Store, UpType
<1>5. /\ object' \in Content \cup {None} /\ (meta' # None => StateOK(meta)' /\ MultiPart)
      /\ \A d : Begins(d) => BeginsHere(d)'
  BY DEF Up!Store, UpType, StateOK, Begins, BeginsHere, Up!Staged
<1>6. /\ req' \in [Clients -> UpRequest] /\ Others(c) /\ ShapeOK(req[c])' /\ (\A d : BeginsAt(d, req[c])')
      /\ req'[c].pc \in {"idle", "abort"}
  <2>1. CASE Up!End(c)  BY <2>1, EndStep, IdleIs
  <2>2. CASE Up!Go(c, "abort")
    <3>1. /\ req' \in [Clients -> UpRequest] /\ Others(c) /\ req'[c].pc = "abort" /\ req'[c].digest = req[c].digest
      BY <2>2, GoStep DEF PutPcs, ReadPcs
    <3> QED  BY <1>1, <3>1 DEF ShapeOK, BeginsAt, PutPcs, ReadPcs
  <2> QED  BY <2>1, <2>2 DEF Up!Store
<1>7. Grows  BY <1>3, <1>4, <1>5, <1>6, UpStep DEF Grows
<1> QED  BY <1>1, <1>2, <1>4, <1>6, <1>7

(* What removes a session ends its multipart upload. *)
LEMMA AbortStep ==
  ASSUME UpType, Up!AbortAppend
  PROVE  meta' = None /\ mpu' \in Seq(UpPart) /\ Closes /\ (meta # None => meta.upload \in 1..Len(mpu) /\ ~mpu'[meta.upload].state = "open")
<1>1. CASE meta = None  BY <1>1, SameUploads DEF Up!AbortAppend
<1>2. CASE meta # None
  <2>1. PICK u : u = meta.upload  OBVIOUS
  <2>2. PICK x : x = IF mpu[u].state = "open" THEN "aborted" ELSE mpu[u].state  OBVIOUS
  <2>3. u \in 1..Len(mpu)  BY <1>2, <2>1 DEF UpType, StateOK
  <2>4. x \in {"completed", "aborted", mpu[u].state} /\ x # "open"  BY <2>2
  <2>5. mpu' = [mpu EXCEPT ![u].state = x]  BY <1>2, <2>1, <2>2 DEF Up!AbortAppend
  <2>6. mpu' \in Seq(UpPart) /\ Closes /\ ~Open(u)'  BY <2>3, <2>4, <2>5, CloseStep
  <2> QED  BY <2>1, <2>3, <2>6 DEF Open, Up!AbortAppend
<1> QED  BY <1>1, <1>2

LEMMA RemoveAbortGrows ==
  ASSUME UploadConstants, UpType, NEW c \in Clients, Up!RemoveAbort(c)
  PROVE  Grows /\ Others(c) /\ req'[c].pc = "delete"
<1>1. meta' = None /\ mpu' \in Seq(UpPart) /\ Closes  BY AbortStep DEF Up!RemoveAbort
<1>2. /\ req' \in [Clients -> UpRequest] /\ Others(c) /\ req'[c].pc = "delete" /\ req'[c].digest = req[c].digest
  BY GoStep DEF PutPcs, ReadPcs, Up!RemoveAbort
<1>3. ShapeOK(req[c]) /\ req[c].digest # None  BY DEF Up!RemoveAbort, Up!At, UpType, ShapeOK, PutPcs
<1>4. ShapeOK(req[c])' /\ \A d : BeginsAt(d, req[c])'  BY <1>2, <1>3 DEF ShapeOK, BeginsAt, PutPcs, ReadPcs
<1>5. /\ object' \in Content \cup {None} /\ blobs' = [d \in Digests |-> blobs'[d]] /\ \A d : Begins(d) => BeginsHere(d)'
  BY <1>1 DEF Up!RemoveAbort, UpType, Begins, BeginsHere
<1> QED  BY <1>1, <1>2, <1>4, <1>5, UpStep DEF Grows

LEMMA RemoveDeleteTypes ==
  ASSUME UploadConstants, UpType, NEW c \in Clients, Up!RemoveDelete(c)
  PROVE  UpType' /\ Others(c) /\ req'[c].pc = "idle"
<1>1. meta' = None /\ mpu' \in Seq(UpPart) /\ Closes  BY AbortStep DEF Up!RemoveDelete
<1>2. req' \in [Clients -> UpRequest] /\ Others(c) /\ ShapeOK(req[c])' /\ req'[c].pc = "idle"
  BY EndStep, IdleIs DEF Up!RemoveDelete
<1>3. object' \in Content \cup {None} /\ blobs' = [d \in Digests |-> blobs'[d]]  BY DEF Up!RemoveDelete, UpType
<1> QED  BY <1>1, <1>2, <1>3, UpStep

(* What shortens or unlinks a local file is none of these. *)
LEMMA SameLengthens ==
  ASSUME UpType, object' = object \/ MultiPart
  PROVE  Lengthens
<1>1. object # None => Len(object) \in Nat  BY DEF UpType, Content
<1> QED  BY <1>1 DEF Lengthens

LEMMA AppendLengthens ==
  ASSUME UploadConstants, UpType, NEW c \in Clients, Up!Append_(c), ~Up!TruncateBlob(c), ~Up!LocalTruncate(c)
  PROVE  Lengthens
<1>1. CASE \/ Up!LoadAppendState(c) \/ Up!StartAppend(c) \/ Up!AppendBlob(c) \/ Up!SaveAppendState(c) \/ Up!AppendEnds(c)
  <2>1. object' = object
    BY <1>1 DEF Up!LoadAppendState, Up!StartAppend, Up!AppendBlob, Up!SaveAppendState, Up!AppendEnds
  <2> QED  BY <2>1, SameLengthens
<1>2. ASSUME NEW x \in Content, object # None, object' = object \o x PROVE Lengthens
  <2>1. object \in Content /\ object' \in Content /\ Len(object') = Len(object) + Len(x)
        /\ Len(object) \in Nat /\ Len(x) \in Nat
    <3>1. object \in Content  BY <1>2 DEF UpType
    <3> QED  BY <1>2, <3>1, ConcatProperties DEF Content
  <2> QED  BY <2>1 DEF Lengthens, UploadConstants, Content
<1>3. object = None => Lengthens  BY DEF Lengthens
<1>4. req[c].todo \in Content  BY DEF UpType, UpRequest
<1>5. CASE Up!LocalAppend(c)  BY <1>2, <1>3, <1>4, <1>5 DEF Up!LocalAppend
<1>6. CASE Up!LocalAppendCut(c)
  <2>1. object # None /\ object \in Seq(Bytes)  BY <1>6 DEF Up!LocalAppendCut, UpType, Content
  <2>2. Head(req[c].todo) \in Bytes
    <3>1. req[c].todo # <<>>  BY <1>6 DEF Up!LocalAppendCut
    <3> QED  BY <1>4, <3>1, HeadTailProperties DEF Content
  <2>3. PICK x : x = <<Head(req[c].todo)>>  OBVIOUS
  <2>4. x \in Content  BY <2>2, <2>3 DEF Content
  <2>5. object' = object \o x  BY <1>6, <2>1, <2>2, <2>3, AppendIsConcat DEF Up!LocalAppendCut
  <2> QED  BY <1>2, <2>1, <2>4, <2>5
<1> QED  BY <1>1, <1>5, <1>6 DEF Up!Append_

----------------------------------------------------------------------------
(* A PUT that verifies or stores; what the registry promises while it does, unless
   another request has torn it: until it opens the session, in S3, the other requests
   are PUTs too, which end the one multipart upload there may be; what it opened is what
   the session begins with while it hashes that, or the local file only grows; and from
   the moment it has verified its digest the session begins with it. *)
Verifying(c) == req[c].round = 1 /\ req[c].pc \in ReadPcs
Hashing(c) == req[c].round = 2 /\ req[c].pc = "hash"
Storing(c) == req[c].round = 2 /\ req[c].pc \in ReadPcs
AllHashed == \A c \in Clients : Hashing(c) /\ req[c].digest \notin torn /\ req[c].digest # <<>> =>
  IF MultiPart THEN req[c].todo = req[c].digest => req[c].stored = Len(req[c].digest) /\ Begins(req[c].digest)
  ELSE object # None /\ req[c].stored <= Len(object)
AllStored == \A c \in Clients : Storing(c) /\ req[c].digest \notin torn /\ req[c].digest # <<>> =>
  req[c].stored # 0 /\ req[c].stored <= Len(req[c].digest) /\ Begins(req[c].digest)

Quiet == \A c \in Clients : req[c].pc \in {"idle"} \cup PutPcs
Sealed == \A c \in Clients :
  /\ req[c].pc = "complete" => IF meta # None THEN req[c].st.upload = meta.upload ELSE ~Open(req[c].st.upload)
  /\ req[c].pc = "unmeta" /\ meta # None => ~Open(meta.upload)
AllVerified == MultiPart => \A c \in Clients : Verifying(c) /\ req[c].digest \notin torn =>
  Quiet /\ Sealed /\ (req[c].pc = "get" => meta = None)

UpInv == UpType /\ AllHashed /\ AllStored /\ AllVerified /\ Up!DigestHolds

LEMMA HashedStep ==
  ASSUME UploadConstants, UpInv, NEW c \in Clients, Others(c), torn \subseteq torn', Grows, Lengthens, ~Hashing(c)'
  PROVE  AllHashed'
<1> SUFFICES ASSUME NEW w \in Clients, Hashing(w)', req'[w].digest \notin torn', req'[w].digest # <<>>
             PROVE  (IF MultiPart THEN req[w].todo = req[w].digest => req[w].stored = Len(req[w].digest) /\ Begins(req[w].digest)
                     ELSE object # None /\ req[w].stored <= Len(object))'
  BY DEF AllHashed
<1>1. w # c /\ req'[w] = req[w] /\ Hashing(w)
  <2>1. w # c  BY DEF Hashing
  <2> QED  BY <2>1 DEF Others, Hashing
<1>2. IF MultiPart THEN req[w].todo = req[w].digest => req[w].stored = Len(req[w].digest) /\ Begins(req[w].digest)
      ELSE object # None /\ req[w].stored <= Len(object)
  BY <1>1 DEF UpInv, AllHashed
<1>3. req[w] \in UpRequest /\ req[w].digest \in Digests
  <2>1. req[w] \in UpRequest /\ ShapeOK(req[w]) /\ req[w].pc \in PutPcs  BY <1>1 DEF UpInv, UpType, Hashing, PutPcs
  <2> QED  BY <2>1 DEF ShapeOK, UpRequest
<1>4. CASE MultiPart
  <2>1. PICK d : d = req[w].digest  OBVIOUS
  <2>2. req[w].todo = d => req[w].stored = Len(d) /\ Begins(d)'  BY <1>1, <1>2, <1>3, <1>4, <2>1 DEF Grows
  <2>3. req'[w].digest = d  BY <1>1, <2>1
  <2> QED  BY <1>1, <1>4, <2>2, <2>3 DEF Begins, BeginsHere, BeginsAt, Up!Staged, Open
<1>5. CASE ~MultiPart
  <2>1. object \in Content /\ Len(object) \in Nat /\ req[w].stored \in Nat
    BY <1>2, <1>3, <1>5 DEF UpInv, UpType, UpRequest, Content
  <2>2. object' # None /\ Len(object) <= Len(object')  BY <1>2, <1>5 DEF Lengthens
  <2>3. object' \in Content /\ Len(object') \in Nat  BY <2>2 DEF Grows, UpType, Content
  <2> QED  BY <1>1, <1>2, <1>5, <2>1, <2>2, <2>3
<1> QED  BY <1>4, <1>5

LEMMA StoredStep ==
  ASSUME UploadConstants, UpInv, NEW c \in Clients, Others(c), torn \subseteq torn', Grows,
         Storing(c)' => Storing(c) /\ req'[c].digest = req[c].digest /\ req'[c].stored = req[c].stored
  PROVE  AllStored'
<1> SUFFICES ASSUME NEW w \in Clients, Storing(w)', req'[w].digest \notin torn', req'[w].digest # <<>>
             PROVE  req'[w].stored # 0 /\ req'[w].stored <= Len(req'[w].digest) /\ Begins(req[w].digest)'
  BY DEF AllStored
<1>1. Storing(w) /\ req'[w].digest = req[w].digest /\ req'[w].stored = req[w].stored
  <2>1. CASE w = c  BY <2>1
  <2>2. CASE w # c  BY <2>2 DEF Others, Storing
  <2> QED  BY <2>1, <2>2
<1>2. req[w].stored # 0 /\ req[w].stored <= Len(req[w].digest) /\ Begins(req[w].digest)  BY <1>1 DEF UpInv, AllStored
<1>3. req[w].digest \in Digests
  <2>1. req[w] \in UpRequest /\ ShapeOK(req[w]) /\ req[w].pc \in PutPcs  BY <1>1 DEF UpInv, UpType, Storing, PutPcs
  <2> QED  BY <2>1 DEF ShapeOK, UpRequest
<1>4. PICK d : d = req[w].digest  OBVIOUS
<1>5. Begins(d)'  BY <1>1, <1>2, <1>3, <1>4 DEF Grows
<1>6. req'[w].digest = d  BY <1>1, <1>4
<1> QED  BY <1>1, <1>2, <1>5, <1>6 DEF Begins, BeginsHere, BeginsAt, Up!Staged, Open

(* The steps that cut a session back or end it tear whoever is hashing or storing it. *)
LEMMA TornStored ==
  ASSUME UpInv, NEW c \in Clients, Others(c), Up!Tear(Up!Reading(c, 2)), req'[c].pc = "idle"
  PROVE  AllHashed' /\ AllStored' /\ torn \subseteq torn'
<1>1. torn' = torn \cup Up!Reading(c, 2)  BY DEF Up!Tear
<1>2. ASSUME NEW w \in Clients, Storing(w)' \/ Hashing(w)' PROVE req'[w].digest \in torn'
  <2>1. w # c  BY <1>2 DEF Storing, Hashing, ReadPcs
  <2>2. req'[w] = req[w] /\ (Storing(w) \/ Hashing(w))  BY <1>2, <2>1 DEF Others, Storing, Hashing
  <2>3. req[w].digest # None /\ req[w].pc \notin {"abort", "delete"} /\ req[w].round = 2
    BY <2>2 DEF Storing, Hashing, UpInv, UpType, ShapeOK, PutPcs, ReadPcs
  <2>4. req[w].digest \in Up!Reading(c, 2)  BY <2>1, <2>3 DEF Up!Reading
  <2> QED  BY <1>1, <2>2, <2>4
<1> QED  BY <1>1, <1>2 DEF AllStored, AllHashed

LEMMA VerifiedStep ==
  ASSUME UpInv, NEW c \in Clients, Others(c), torn \subseteq torn',
         MultiPart /\ Quiet /\ Sealed => Quiet' /\ Sealed' /\ (meta = None => meta' = None),
         Verifying(c)' => /\ Verifying(c) /\ req'[c].digest = req[c].digest
                          /\ MultiPart /\ Quiet /\ Sealed /\ req'[c].pc = "get" => meta' = None
  PROVE  AllVerified'
<1> SUFFICES ASSUME MultiPart, NEW w \in Clients, Verifying(w)', req'[w].digest \notin torn'
             PROVE  Quiet' /\ Sealed' /\ (req'[w].pc = "get" => meta' = None)
  BY DEF AllVerified
<1>1. Verifying(w) /\ req'[w].digest = req[w].digest
  <2>1. CASE w = c  BY <2>1
  <2>2. CASE w # c  BY <2>2 DEF Others, Verifying
  <2> QED  BY <2>1, <2>2
<1>2. Quiet /\ Sealed /\ (req[w].pc = "get" => meta = None)  BY <1>1 DEF UpInv, AllVerified
<1>3. CASE w = c  BY <1>2, <1>3
<1>4. CASE w # c
  <2>1. req'[w] = req[w]  BY <1>4 DEF Others
  <2> QED  BY <1>2, <2>1
<1> QED  BY <1>3, <1>4

(* An append is under way: no PUT is verifying undisturbed. *)
LEMMA AppendVerified ==
  ASSUME UpInv, NEW c \in Clients, Others(c), torn \subseteq torn', req[c].pc \in PatchPcs, req'[c].pc \notin ReadPcs
  PROVE  AllVerified'
<1>1. ~Quiet
  <2>1. req[c].pc \notin {"idle"} \cup PutPcs  BY DEF PatchPcs, PutPcs, ReadPcs
  <2> QED  BY <2>1 DEF Quiet
<1>2. ~Verifying(c)'  BY DEF Verifying
<1> QED  BY <1>1, <1>2, VerifiedStep

(* A PUT goes on: the upload it leaves to the others is the one they know, or closed. *)
LEMMA SealedStep ==
  ASSUME UpType, NEW c \in Clients, Others(c), Closes, Quiet, Sealed, req'[c].pc \in {"idle"} \cup PutPcs,
         meta' = meta \/ (meta' = None /\ (meta # None => ~mpu'[meta.upload].state = "open")),
         req'[c].pc = "complete" => meta' # None /\ req'[c].st.upload = meta'.upload,
         req'[c].pc = "unmeta" /\ meta' # None => ~mpu'[meta'.upload].state = "open"
  PROVE  Quiet' /\ Sealed' /\ (meta = None => meta' = None)
<1>1. Quiet'  BY DEF Quiet, Others
<1>2. ASSUME NEW e \in Clients
      PROVE  /\ req'[e].pc = "complete" => IF meta' # None THEN req'[e].st.upload = meta'.upload ELSE ~mpu'[req'[e].st.upload].state = "open"
             /\ req'[e].pc = "unmeta" /\ meta' # None => ~mpu'[meta'.upload].state = "open"
  <2>1. CASE e = c  BY <2>1
  <2>2. CASE e # c
    <3>1. req'[e] = req[e] /\ ShapeOK(req[e])  BY <2>2 DEF Others, UpType
    <3>2. /\ req[e].pc = "complete" => IF meta # None THEN req[e].st.upload = meta.upload ELSE ~Open(req[e].st.upload)
          /\ req[e].pc = "unmeta" /\ meta # None => ~Open(meta.upload)
      BY DEF Sealed
    <3>3. req[e].pc = "complete" => req[e].st.upload \in 1..Len(mpu)  BY <3>1 DEF ShapeOK, StateOK
    <3>4. meta # None => meta.upload \in 1..Len(mpu)  BY DEF UpType, StateOK
    <3>5. \A n \in 1..Len(mpu) : mpu'[n].state = "open" => mpu[n].state = "open"  BY DEF Closes, Open
    <3>6. CASE meta' = meta  BY <3>1, <3>2, <3>3, <3>4, <3>5, <3>6 DEF Open
    <3>7. CASE meta' = None /\ (meta # None => ~mpu'[meta.upload].state = "open")
      BY <3>1, <3>2, <3>3, <3>5, <3>7 DEF Open
    <3> QED  BY <3>6, <3>7
  <2> QED  BY <2>1, <2>2
<1>3. Sealed'  BY <1>2 DEF Sealed, Open
<1> QED  BY <1>1, <1>3

LEMMA HoldsStep ==
  ASSUME Up!DigestHolds, blobs' = blobs, torn \subseteq torn'
  PROVE  Up!DigestHolds'
  BY DEF Up!DigestHolds

----------------------------------------------------------------------------
(* Each action keeps the invariant. *)
LEMMA AppendInv ==
  ASSUME UploadConstants, UpInv, NEW c \in Clients, Up!Append_(c)
  PROVE  UpInv'
<1>1. ASSUME Grows, Lengthens, Others(c), req[c].pc \in PatchPcs, req'[c].pc \in PatchPcs \cup {"idle"}, torn' = torn, blobs' = blobs
      PROVE  UpInv'
  <2>1. req'[c].pc \notin ReadPcs  BY <1>1 DEF PatchPcs, ReadPcs
  <2>2. ~Storing(c)' /\ ~Hashing(c)'  BY <1>1, <2>1 DEF Storing, Hashing, PatchPcs
  <2>3. AllStored'  BY <1>1, <2>2, StoredStep
  <2>4. AllVerified'  BY <1>1, <2>1, AppendVerified
  <2>5. Up!DigestHolds'  BY <1>1, HoldsStep DEF UpInv
  <2>6. AllHashed'  BY <1>1, <2>2, HashedStep
  <2> QED  BY <1>1, <2>3, <2>4, <2>5, <2>6 DEF UpInv, Grows
<1>2. ASSUME UpType', Others(c), req[c].pc \in PatchPcs, req'[c].pc = "idle", Up!Tear(Up!Reading(c, 2)), blobs' = blobs
      PROVE  UpInv'
  <2>1. req'[c].pc \notin ReadPcs  BY <1>2 DEF ReadPcs
  <2>2. AllHashed' /\ AllStored' /\ torn \subseteq torn'  BY <1>2, TornStored
  <2>3. AllVerified'  BY <1>2, <2>1, <2>2, AppendVerified
  <2>4. Up!DigestHolds'  BY <1>2, <2>2, HoldsStep DEF UpInv
  <2> QED  BY <1>2, <2>2, <2>3, <2>4 DEF UpInv
<1>0. UpType  BY DEF UpInv
<1>12. Up!TruncateBlob(c) \/ Up!LocalTruncate(c) \/ Lengthens  BY <1>0, AppendLengthens
<1>3. CASE Up!LoadAppendState(c)
  <2>1. Grows /\ Others(c) /\ req'[c].pc \in PatchPcs  BY <1>0, <1>3, LoadGrows
  <2>2. Lengthens  BY <1>12, <1>3 DEF Up!LoadAppendState, Up!TruncateBlob, Up!LocalTruncate, Up!At
  <2> QED  BY <1>1, <1>3, <2>1, <2>2 DEF Up!LoadAppendState, Up!At, PatchPcs
<1>4. CASE Up!StartAppend(c)
  <2>1. Grows /\ Others(c) /\ req'[c].pc \in PatchPcs  BY <1>0, <1>4, StartGrows
  <2>2. Lengthens  BY <1>12, <1>4 DEF Up!StartAppend, Up!TruncateBlob, Up!LocalTruncate, Up!At
  <2> QED  BY <1>1, <1>4, <2>1, <2>2 DEF Up!StartAppend, Up!At, PatchPcs
<1>5. CASE Up!AppendBlob(c)
  <2>1. Grows /\ Others(c) /\ req'[c].pc \in PatchPcs  BY <1>0, <1>5, FeedGrows
  <2>2. Lengthens  BY <1>12, <1>5 DEF Up!AppendBlob, Up!TruncateBlob, Up!LocalTruncate, Up!At
  <2> QED  BY <1>1, <1>5, <2>1, <2>2 DEF Up!AppendBlob, Up!At, PatchPcs
<1>6. CASE Up!SaveAppendState(c)
  <2>1. Grows /\ Others(c) /\ req'[c].pc \in PatchPcs  BY <1>0, <1>6, SaveGrows
  <2>2. Lengthens  BY <1>12, <1>6 DEF Up!SaveAppendState, Up!TruncateBlob, Up!LocalTruncate, Up!At
  <2> QED  BY <1>1, <1>6, <2>1, <2>2 DEF Up!SaveAppendState, Up!At, PatchPcs
<1>7. CASE Up!AppendEnds(c)
  <2>1. Grows /\ Others(c) /\ req'[c].pc \in {"truncate", "idle"}  BY <1>0, <1>7, EndsGrows
  <2>2. Lengthens  BY <1>12, <1>7 DEF Up!AppendEnds, Up!TruncateBlob, Up!LocalTruncate, Up!At
  <2> QED  BY <1>1, <1>7, <2>1, <2>2 DEF Up!AppendEnds, Up!At, PatchPcs
<1>8. CASE Up!LocalAppend(c)
  <2>1. Grows /\ Others(c) /\ req'[c].pc \in {"cut", "idle"}  BY <1>0, <1>8, LocalAppendGrows
  <2>2. Lengthens  BY <1>12, <1>8 DEF Up!LocalAppend, Up!TruncateBlob, Up!LocalTruncate, Up!At
  <2> QED  BY <1>1, <1>8, <2>1, <2>2 DEF Up!LocalAppend, Up!At, PatchPcs
<1>9. CASE Up!LocalAppendCut(c)
  <2>1. Grows /\ Others(c) /\ req'[c].pc = "idle"  BY <1>0, <1>9, LocalAppendCutGrows
  <2>2. Lengthens  BY <1>12, <1>9 DEF Up!LocalAppendCut, Up!TruncateBlob, Up!LocalTruncate, Up!At
  <2> QED  BY <1>1, <1>9, <2>1, <2>2 DEF Up!LocalAppendCut, Up!At, PatchPcs
<1>10. CASE Up!TruncateBlob(c)
  <2>1. UpType' /\ Others(c) /\ req'[c].pc = "idle"  BY <1>0, <1>10, TruncateTypes
  <2> QED  BY <1>2, <1>10, <2>1 DEF Up!TruncateBlob, Up!At, PatchPcs
<1>11. CASE Up!LocalTruncate(c)
  <2>1. UpType' /\ Others(c) /\ req'[c].pc = "idle"  BY <1>0, <1>11, LocalTruncateTypes
  <2> QED  BY <1>2, <1>11, <2>1 DEF Up!LocalTruncate, Up!At, PatchPcs
<1> QED  BY <1>3, <1>4, <1>5, <1>6, <1>7, <1>8, <1>9, <1>10, <1>11 DEF Up!Append_

LEMMA PatchInv ==
  ASSUME UploadConstants, UpInv, NEW c \in Clients, NEW chunk \in Chunks, Up!Patch(c, chunk)
  PROVE  UpInv'
<1>1. Grows /\ Others(c) /\ req'[c].pc \in PatchPcs  BY PatchGrows DEF UpInv
<1>2. torn' = torn \cup (IF MultiPart THEN Up!Reading(c, 1) ELSE {}) /\ blobs' = blobs  BY DEF Up!Patch, Up!Tear
<1>3. req'[c].pc \notin ReadPcs /\ torn \subseteq torn'  BY <1>1, <1>2 DEF PatchPcs, ReadPcs
<1>4. AllStored'  BY <1>1, <1>3, StoredStep DEF Storing
<1>7. AllHashed'
  <2>1. ~Hashing(c)'  BY <1>1 DEF Hashing, PatchPcs
  <2>2. Lengthens  BY SameLengthens DEF Up!Patch, UpInv
  <2> QED  BY <1>1, <1>3, <2>1, <2>2, HashedStep
<1>5. AllVerified'
  <2>1. SUFFICES ASSUME MultiPart, NEW w \in Clients, Verifying(w)', req'[w].digest \notin torn' PROVE FALSE
    BY DEF AllVerified
  <2>2. w # c  BY <1>3, <2>1 DEF Verifying
  <2>3. req'[w] = req[w] /\ Verifying(w)  BY <1>1, <2>1, <2>2 DEF Others, Verifying
  <2>4. req[w].digest # None /\ req[w].pc \notin {"abort", "delete"} /\ req[w].round = 1
    BY <2>3 DEF Verifying, UpInv, UpType, ShapeOK, PutPcs, ReadPcs
  <2>5. req[w].digest \in Up!Reading(c, 1)  BY <2>2, <2>4 DEF Up!Reading
  <2> QED  BY <1>2, <2>1, <2>3, <2>5
<1>6. Up!DigestHolds'  BY <1>2, <1>3, HoldsStep DEF UpInv
<1> QED  BY <1>1, <1>4, <1>5, <1>6, <1>7 DEF UpInv, Grows

LEMMA PutInv ==
  ASSUME UploadConstants, UpInv, NEW c \in Clients, NEW d \in Digests, Up!Put(c, d)
  PROVE  UpInv'
<1>1. Grows /\ Others(c) /\ req'[c].pc = "publish" /\ req'[c].round = 1 /\ req'[c].digest = d  BY PutGrows DEF UpInv
<1>2. /\ torn' = torn \cup (IF MultiPart /\ \E e \in Clients \ {c} : ~Up!At(e, "idle") THEN {d} ELSE {})
      /\ blobs' = blobs /\ meta' = meta /\ mpu' = mpu /\ req[c].pc = "idle"
  BY DEF Up!Put, Up!Tear, Up!At
<1>3. torn \subseteq torn'  BY <1>2
<1>4. AllStored'  BY <1>1, <1>3, StoredStep DEF Storing
<1>5. Quiet /\ Sealed => Quiet' /\ Sealed' /\ (meta = None => meta' = None)
  <2>1. Closes /\ req'[c].pc \in PutPcs  BY <1>1, <1>2, SameUploads DEF UpInv, PutPcs, ReadPcs
  <2> QED  BY <1>1, <1>2, <2>1, SealedStep DEF UpInv
<1>6. AllVerified'
  <2>1. SUFFICES ASSUME MultiPart, NEW w \in Clients, Verifying(w)', req'[w].digest \notin torn'
                 PROVE  Quiet' /\ Sealed' /\ (req'[w].pc = "get" => meta' = None)
    BY DEF AllVerified
  <2>2. CASE w = c
    <3>1. \A e \in Clients \ {c} : req[e].pc = "idle"  BY <1>1, <1>2, <2>1, <2>2 DEF Up!At
    <3>2. Quiet /\ Sealed  BY <1>2, <3>1 DEF Quiet, Sealed
    <3> QED  BY <1>1, <1>5, <2>2, <3>2
  <2>3. CASE w # c
    <3>1. req'[w] = req[w] /\ Verifying(w)  BY <1>1, <2>1, <2>3 DEF Others, Verifying
    <3>2. Quiet /\ Sealed /\ (req[w].pc = "get" => meta = None)  BY <1>3, <2>1, <3>1 DEF UpInv, AllVerified
    <3> QED  BY <1>2, <1>5, <3>1, <3>2
  <2> QED  BY <2>2, <2>3
<1>7. Up!DigestHolds'  BY <1>2, <1>3, HoldsStep DEF UpInv
<1>8. AllHashed'
  <2>1. ~Hashing(c)'  BY <1>1 DEF Hashing
  <2>2. Lengthens  BY SameLengthens DEF Up!Put, UpInv
  <2> QED  BY <1>1, <1>3, <2>1, <2>2, HashedStep
<1> QED  BY <1>1, <1>4, <1>6, <1>7, <1>8 DEF UpInv, Grows

(* A PUT that goes on with what it was reading, or is done with reading. *)
LEMMA FinishStep ==
  ASSUME UploadConstants, UpInv, NEW c \in Clients, Others(c), Grows, Closes, torn' = torn, blobs' = blobs,
         object' = object \/ MultiPart, req'[c].pc # "hash",
         req[c].pc \in PutPcs, req'[c].pc \in {"idle"} \cup PutPcs,
         req'[c].pc \in ReadPcs => /\ req[c].pc \in ReadPcs /\ req'[c].round = req[c].round
                                   /\ req'[c].digest = req[c].digest /\ req'[c].stored = req[c].stored,
         meta' = meta \/ (meta' = None /\ (MultiPart /\ Quiet /\ Sealed /\ meta # None => ~mpu'[meta.upload].state = "open")),
         MultiPart /\ Quiet /\ Sealed /\ req'[c].pc = "complete" => meta' # None /\ req'[c].st.upload = meta'.upload,
         MultiPart /\ Quiet /\ Sealed /\ req'[c].pc = "unmeta" /\ meta' # None => ~mpu'[meta'.upload].state = "open",
         MultiPart /\ Quiet /\ Sealed /\ req'[c].pc = "get" => meta' = None
  PROVE  UpInv'
<1>1. Storing(c)' => Storing(c) /\ req'[c].digest = req[c].digest /\ req'[c].stored = req[c].stored  BY DEF Storing
<1>2. AllStored'  BY <1>1, StoredStep
<1>3. MultiPart /\ Quiet /\ Sealed => Quiet' /\ Sealed' /\ (meta = None => meta' = None)
  <2>1. SUFFICES ASSUME MultiPart, Quiet, Sealed PROVE Quiet' /\ Sealed' /\ (meta = None => meta' = None)
    OBVIOUS
  <2>2. meta' = meta \/ (meta' = None /\ (meta # None => ~mpu'[meta.upload].state = "open"))  BY <2>1
  <2> QED  BY <2>1, <2>2, SealedStep DEF UpInv
<1>4. Verifying(c)' => /\ Verifying(c) /\ req'[c].digest = req[c].digest
                       /\ MultiPart /\ Quiet /\ Sealed /\ req'[c].pc = "get" => meta' = None
  BY DEF Verifying
<1>5. AllVerified'  BY <1>3, <1>4, VerifiedStep
<1>6. Up!DigestHolds'  BY HoldsStep DEF UpInv
<1>7. AllHashed'
  <2>1. ~Hashing(c)'  BY DEF Hashing
  <2>2. Lengthens  BY SameLengthens DEF UpInv
  <2> QED  BY <2>1, <2>2, HashedStep
<1> QED  BY <1>2, <1>5, <1>6, <1>7 DEF UpInv, Grows

LEMMA FinalizeInv ==
  ASSUME UploadConstants, UpInv, NEW c \in Clients, Up!FinalizeAppend(c)
  PROVE  UpInv'
<1>1. /\ Grows /\ Others(c) /\ Closes /\ req'[c].pc \in {"get", "complete", "unmeta"}
      /\ req'[c].round = req[c].round /\ req'[c].digest = req[c].digest /\ req'[c].stored = req[c].stored
      /\ req'[c].pc = "get" => meta = None
      /\ req'[c].pc = "complete" => meta # None /\ req'[c].st.upload = meta.upload
      /\ req'[c].pc = "unmeta" => meta # None /\ meta.upload \in 1..Len(mpu) /\ ~Open(meta.upload)'
  BY FinalizeGrows DEF UpInv
<1>2. meta' = meta /\ torn' = torn /\ blobs' = blobs /\ req[c].pc = "publish"  BY DEF Up!FinalizeAppend, Up!At
<1>3. req'[c].pc \in PutPcs /\ req[c].pc \in PutPcs /\ req[c].pc \in ReadPcs  BY <1>1, <1>2 DEF PutPcs, ReadPcs
<1>4. req'[c].pc = "unmeta" => ~mpu'[meta'.upload].state = "open"  BY <1>1 DEF Open
<1>5. object' = object \/ MultiPart  BY DEF Up!FinalizeAppend, UpInv, UpType
<1>6. req'[c].pc # "hash"  BY <1>1
<1> QED  BY <1>1, <1>2, <1>3, <1>4, <1>5, <1>6, FinishStep

LEMMA CompleteInv ==
  ASSUME UploadConstants, UpInv, NEW c \in Clients, Up!CompleteMultipartUpload(c)
  PROVE  UpInv'
<1>1. /\ Grows /\ Others(c) /\ req'[c].pc = "unmeta" /\ ~Open(req[c].st.upload)' /\ req'[c].st = req[c].st
      /\ req'[c].round = req[c].round /\ req'[c].digest = req[c].digest /\ req'[c].stored = req[c].stored /\ Closes
  BY CompleteGrows DEF UpInv
<1>2. meta' = meta /\ torn' = torn /\ blobs' = blobs /\ req[c].pc = "complete"  BY DEF Up!CompleteMultipartUpload, Up!At
<1>3. req'[c].pc \in PutPcs /\ req[c].pc \in PutPcs /\ req[c].pc \in ReadPcs  BY <1>1, <1>2 DEF PutPcs, ReadPcs
<1>4. ~mpu'[req[c].st.upload].state = "open"  BY <1>1 DEF Open
<1>5. Sealed /\ meta # None => ~mpu'[meta.upload].state = "open"  BY <1>2, <1>4 DEF Sealed
<1>6. MultiPart /\ req'[c].pc # "hash"  BY <1>1, <1>2 DEF UpInv, UpType, ShapeOK
<1> QED  BY <1>1, <1>2, <1>3, <1>5, <1>6, FinishStep

LEMMA DeleteStateInv ==
  ASSUME UploadConstants, UpInv, NEW c \in Clients, Up!DeleteAppendState(c)
  PROVE  UpInv'
<1>1. /\ Grows /\ Others(c) /\ req'[c].pc = "get"
      /\ req'[c].round = req[c].round /\ req'[c].digest = req[c].digest /\ req'[c].stored = req[c].stored
  BY DeleteStateGrows DEF UpInv
<1>2. meta' = None /\ mpu' = mpu /\ torn' = torn /\ blobs' = blobs /\ req[c].pc = "unmeta"  BY DEF Up!DeleteAppendState, Up!At
<1>3. req'[c].pc \in PutPcs /\ req[c].pc \in PutPcs /\ req[c].pc \in ReadPcs  BY <1>1, <1>2 DEF PutPcs, ReadPcs
<1>4. Closes  BY <1>2, SameUploads DEF UpInv
<1>5. Sealed /\ meta # None => ~mpu'[meta.upload].state = "open"  BY <1>2 DEF Sealed, Open
<1>6. object' = object /\ req'[c].pc # "hash"  BY <1>1 DEF Up!DeleteAppendState
<1> QED  BY <1>1, <1>2, <1>3, <1>4, <1>5, <1>6, FinishStep

LEMMA StoreInv ==
  ASSUME UploadConstants, UpInv, NEW c \in Clients, Up!Store(c)
  PROVE  UpInv'
<1>1. /\ Grows /\ Others(c) /\ req'[c].pc \in {"idle", "abort"} /\ req[c].digest \in Digests /\ object \in Content
      /\ \A d \in Digests : blobs'[d] = IF d # req[c].digest THEN blobs[d]
                                        ELSE IF req[c].stored = 0 \/ Len(object) = req[c].stored THEN object ELSE None
  BY StoreGrows DEF UpInv
<1>2. meta' = meta /\ mpu' = mpu /\ torn' = torn /\ req[c].pc = "get" /\ req[c].round = 2  BY DEF Up!Store, Up!At
<1>3. /\ req'[c].pc \notin ReadPcs /\ req'[c].pc \notin {"complete", "unmeta", "get"} /\ req[c].pc \in ReadPcs
      /\ req'[c].pc \in {"idle"} \cup PutPcs
  BY <1>1, <1>2 DEF PutPcs, ReadPcs
<1>4. Closes  BY <1>2, SameUploads DEF UpInv
<1>5. AllStored'  BY <1>1, <1>2, <1>3, StoredStep DEF Storing
<1>6. Quiet /\ Sealed => Quiet' /\ Sealed' /\ (meta = None => meta' = None)  BY <1>1, <1>2, <1>3, <1>4, SealedStep DEF UpInv
<1>7. AllVerified'  BY <1>1, <1>2, <1>3, <1>6, VerifiedStep DEF Verifying
<1>8. ASSUME NEW d \in Digests, d # <<>>, d \notin torn' PROVE blobs'[d] \in {None, d}
  <2>1. CASE d # req[c].digest  BY <1>1, <1>2, <1>8, <2>1 DEF UpInv, Up!DigestHolds
  <2>2. CASE d = req[c].digest
    <3>1. req[c].stored # 0 /\ req[c].stored <= Len(d) /\ Begins(d)  BY <1>2, <1>3, <1>8, <2>2 DEF UpInv, AllStored, Storing
    <3>2. d \in Content /\ Starts(d, object)  BY <1>8, <3>1 DEF UploadConstants, Content, Begins, BeginsHere
    <3>3. Len(object) = Len(d) => object = d  BY <1>1, <1>8, <3>2, StartsWhole
    <3>4. Len(object) \in Nat /\ Len(d) \in Nat /\ Len(d) <= Len(object)  BY <1>1, <3>2 DEF Content, Starts
    <3>5. Len(object) = req[c].stored => Len(object) = Len(d)  BY <3>1, <3>4
    <3> QED  BY <1>1, <1>8, <2>2, <3>1, <3>3, <3>5
  <2> QED  BY <2>1, <2>2
<1>9. Up!DigestHolds'  BY <1>8 DEF Up!DigestHolds
<1>10. AllHashed'
  <2>1. ~Hashing(c)'  BY <1>1 DEF Hashing
  <2>2. Lengthens  BY SameLengthens DEF Up!Store, UpInv
  <2> QED  BY <1>1, <1>2, <2>1, <2>2, HashedStep
<1> QED  BY <1>1, <1>5, <1>7, <1>9, <1>10 DEF UpInv, Grows

LEMMA RemoveInv ==
  ASSUME UploadConstants, UpInv, NEW c \in Clients, Up!RemoveAbort(c) \/ Up!RemoveDelete(c)
  PROVE  UpInv'
<1>0. UpType  BY DEF UpInv
<1>1. /\ meta' = None /\ Closes /\ (meta # None => ~mpu'[meta.upload].state = "open") /\ blobs' = blobs
      /\ req[c].pc \in {"abort", "delete"}
  BY <1>0, AbortStep DEF Up!RemoveAbort, Up!RemoveDelete, Up!At
<1>2. req[c].pc \in PutPcs  BY <1>1 DEF PutPcs
<1>3. CASE Up!RemoveAbort(c)
  <2>1. Grows /\ Others(c) /\ req'[c].pc = "delete"  BY <1>0, <1>3, RemoveAbortGrows
  <2>2. torn' = torn  BY <1>3 DEF Up!RemoveAbort
  <2>3. req'[c].pc \notin ReadPcs /\ req'[c].pc \in PutPcs  BY <2>1 DEF PutPcs, ReadPcs
  <2>4. object' = object /\ req'[c].pc # "hash"  BY <1>3, <2>1 DEF Up!RemoveAbort
  <2> QED  BY <1>1, <1>2, <2>1, <2>2, <2>3, <2>4, FinishStep
<1>4. CASE Up!RemoveDelete(c)
  <2>1. UpType' /\ Others(c) /\ req'[c].pc = "idle"  BY <1>0, <1>4, RemoveDeleteTypes
  <2>2. Up!Tear(Up!Reading(c, 2))  BY <1>4 DEF Up!RemoveDelete
  <2>3. AllHashed' /\ AllStored' /\ torn \subseteq torn'  BY <2>1, <2>2, TornStored
  <2>4. Quiet /\ Sealed => Quiet' /\ Sealed' /\ (meta = None => meta' = None)  BY <1>0, <1>1, <2>1, SealedStep
  <2>5. ~Verifying(c)'  BY <2>1 DEF Verifying, ReadPcs
  <2>6. AllVerified'  BY <2>1, <2>3, <2>4, <2>5, VerifiedStep
  <2>7. Up!DigestHolds'  BY <1>1, <2>3, HoldsStep DEF UpInv
  <2> QED  BY <2>1, <2>3, <2>6, <2>7 DEF UpInv
<1> QED  BY <1>3, <1>4

(* The session is opened: in S3 nothing else is at work on it but PUTs, and what is
   read is what it begins with. *)
LEMMA VerifyInv ==
  ASSUME UploadConstants, UpInv, NEW c \in Clients, Up!Verify(c)
  PROVE  UpInv'
<1>1. /\ Grows /\ Others(c) /\ req'[c].pc = "hash" /\ req'[c].digest = req[c].digest
      /\ req'[c].todo = object /\ req'[c].stored = Len(object)
  BY VerifyGrows DEF UpInv
<1>2. /\ object' = object /\ meta' = meta /\ mpu' = mpu /\ torn' = torn /\ blobs' = blobs
      /\ req[c].pc = "get" /\ req[c].round = 1 /\ object # None
  BY DEF Up!Verify, Up!At
<1>3. UpType /\ UpType' /\ Closes  BY <1>1, <1>2, SameUploads DEF UpInv, Grows
<1>4. Verifying(c) /\ req[c].pc \in PutPcs /\ ~Verifying(c)' /\ ~Storing(c)'
  BY <1>1, <1>2 DEF Verifying, Storing, PutPcs, ReadPcs
<1>5. AllHashed'
  <2>1. SUFFICES ASSUME NEW w \in Clients, Hashing(w)', req'[w].digest \notin torn, req'[w].digest # <<>>
                 PROVE  (IF MultiPart THEN req[w].todo = req[w].digest => req[w].stored = Len(req[w].digest) /\ Begins(req[w].digest)
                         ELSE object # None /\ req[w].stored <= Len(object))'
    BY <1>2 DEF AllHashed
  <2>2. req'[w] \in UpRequest /\ req'[w].digest # None
    BY <1>3, <2>1 DEF UpType, ShapeOK, Hashing, PutPcs
  <2>3. PICK d \in Digests \ {<<>>} : d = req'[w].digest  BY <2>1, <2>2 DEF UpRequest
  <2>4. SUFFICES IF MultiPart THEN req'[w].todo = d => req'[w].stored = Len(d) /\ Begins(d)'
                 ELSE object # None /\ req'[w].stored <= Len(object)
    BY <1>2, <2>3 DEF Begins, BeginsHere, BeginsAt, Up!Staged, Open
  <2>5. CASE w # c
    <3>1. req'[w] = req[w] /\ Hashing(w)  BY <1>1, <2>1, <2>5 DEF Others, Hashing
    <3>2. IF MultiPart THEN req[w].todo = d => req[w].stored = Len(d) /\ Begins(d)
          ELSE object # None /\ req[w].stored <= Len(object)
      BY <2>1, <2>3, <3>1 DEF UpInv, AllHashed
    <3> QED  BY <1>1, <3>1, <3>2 DEF Grows
  <2>6. CASE w = c /\ ~MultiPart
    <3>1. Len(object) \in Nat  BY <1>2, <1>3 DEF UpType, Content
    <3> QED  BY <1>1, <1>2, <2>6, <3>1
  <2>7. CASE w = c /\ MultiPart
    <3>1. SUFFICES ASSUME req'[c].todo = d PROVE req'[c].stored = Len(d) /\ Begins(d)'  BY <2>7
    <3>2. req[c].digest = d /\ object = d /\ req'[c].stored = Len(d)  BY <1>1, <2>3, <2>7, <3>1
    <3>3. d \in Content /\ Starts(d, object)  BY <3>2, StartsWhole DEF UploadConstants, Content
    <3>4. Quiet /\ Sealed /\ meta = None
      BY <1>2, <1>4, <2>1, <2>3, <2>7, <3>2, SMTT(30) DEF UpInv, AllVerified
    <3>5. ASSUME NEW e \in Clients PROVE BeginsAt(d, req[e])
      <4>1. req[e].pc \notin {"feed", "save", "last"}  BY <3>4 DEF Quiet, PutPcs, ReadPcs
      <4>2. req[e].pc = "complete" => ~Open(req[e].st.upload)  BY <3>4 DEF Sealed
      <4> QED  BY <4>1, <4>2 DEF BeginsAt
    <3>6. Begins(d)  BY <1>2, <3>3, <3>4, <3>5 DEF Begins, BeginsHere
    <3> QED  BY <1>1, <3>2, <3>6 DEF Grows
  <2> QED  BY <2>5, <2>6, <2>7
<1>6. AllStored'  BY <1>1, <1>2, <1>4, StoredStep
<1>7. Quiet /\ Sealed => Quiet' /\ Sealed' /\ (meta = None => meta' = None)
  <2>1. req'[c].pc \in {"idle"} \cup PutPcs /\ req'[c].pc # "complete" /\ req'[c].pc # "unmeta"
    BY <1>1 DEF PutPcs
  <2> QED  BY <1>1, <1>2, <1>3, <2>1, SealedStep
<1>8. AllVerified'  BY <1>1, <1>2, <1>4, <1>7, VerifiedStep
<1>9. Up!DigestHolds'  BY <1>2, HoldsStep DEF UpInv
<1> QED  BY <1>3, <1>5, <1>6, <1>8, <1>9 DEF UpInv

(* What was hashed is the digest's content: the session begins with it, and the size
   that was taken is at most its. *)
LEMMA HashInv ==
  ASSUME UploadConstants, UpInv, NEW c \in Clients, Up!digestMismatchStream(c)
  PROVE  UpInv'
<1>1. /\ Grows /\ Others(c)
      /\ \/ req'[c].pc = "idle"
         \/ /\ req'[c].pc = "publish" /\ req'[c].digest = req[c].digest /\ req'[c].stored = req[c].stored
            /\ req'[c].round = req[c].round
            /\ (IF MultiPart THEN req[c].todo ELSE object) = req[c].digest
  BY HashGrows DEF UpInv
<1>2. /\ object' = object /\ meta' = meta /\ mpu' = mpu /\ blobs' = blobs /\ req[c].pc = "hash"
      /\ torn' = torn \cup (IF req[c].stored = 0 THEN {req[c].digest} ELSE {})
  BY DEF Up!digestMismatchStream, Up!At, Up!Tear
<1>3. UpType /\ UpType' /\ Closes /\ torn \subseteq torn'  BY <1>1, <1>2, SameUploads DEF UpInv, Grows
<1>4. Hashing(c) /\ req[c].pc \in PutPcs /\ ~Hashing(c)'  BY <1>1, <1>2, <1>3 DEF Hashing, PutPcs, UpType, ShapeOK
<1>5. Lengthens  BY <1>2, <1>3, SameLengthens
<1>6. AllHashed'  BY <1>1, <1>3, <1>4, <1>5, HashedStep
<1>7. AllStored'
  <2>1. SUFFICES ASSUME NEW w \in Clients, Storing(w)', req'[w].digest \notin torn', req'[w].digest # <<>>
                 PROVE  req'[w].stored # 0 /\ req'[w].stored <= Len(req'[w].digest) /\ Begins(req[w].digest)'
    BY DEF AllStored
  <2>2. req'[w] \in UpRequest /\ req'[w].digest # None
    BY <1>3, <2>1 DEF UpType, ShapeOK, Storing, PutPcs, ReadPcs
  <2>3. PICK d \in Digests \ {<<>>} : d = req'[w].digest  BY <2>1, <2>2 DEF UpRequest
  <2>4. SUFFICES req'[w].stored # 0 /\ req'[w].stored <= Len(d) /\ Begins(d)'
    BY <2>3 DEF Begins, BeginsHere, BeginsAt, Up!Staged, Open
  <2>5. CASE w # c
    <3>1. req'[w] = req[w] /\ Storing(w)  BY <1>1, <2>1, <2>5 DEF Others, Storing
    <3>2. req[w].stored # 0 /\ req[w].stored <= Len(d) /\ Begins(d)  BY <1>3, <2>1, <2>3, <3>1 DEF UpInv, AllStored
    <3> QED  BY <1>1, <3>1, <3>2 DEF Grows
  <2>6. CASE w = c
    <3>1. /\ req[c].digest = d /\ req'[c].stored = req[c].stored
          /\ (IF MultiPart THEN req[c].todo ELSE object) = d
      BY <1>1, <2>1, <2>3, <2>6 DEF Storing, ReadPcs
    <3>2. req[c].stored # 0 /\ d \notin torn  BY <1>2, <2>1, <2>3, <2>6, <3>1
    <3>3. d \in Content /\ Starts(d, d) /\ Len(d) \in Nat  BY StartsWhole DEF UploadConstants, Content
    <3>4. CASE MultiPart
      <4>1. req[c].digest \notin torn /\ req[c].digest # <<>>  BY <2>3, <3>1, <3>2
      <4>2. IF MultiPart THEN req[c].todo = req[c].digest => req[c].stored = Len(req[c].digest) /\ Begins(req[c].digest)
            ELSE object # None /\ req[c].stored <= Len(object)
        BY <1>4, <4>1 DEF UpInv, AllHashed
      <4>3. req[c].todo = req[c].digest => req[c].stored = Len(req[c].digest) /\ Begins(req[c].digest)
        BY <3>4, <4>2
      <4>4. req[c].todo = req[c].digest  BY <3>1, <3>4
      <4>5. req[c].stored = Len(d) /\ Begins(d)  BY <3>1, <4>3, <4>4
      <4>6. Begins(d)'  BY <1>1, <4>5 DEF Grows
      <4> QED  BY <2>6, <3>1, <3>2, <3>3, <4>5, <4>6
    <3>5. CASE ~MultiPart
      <4>1. object = d /\ object # None /\ req[c].stored <= Len(d)
        BY <1>4, <2>3, <3>1, <3>2, <3>5 DEF UpInv, AllHashed
      <4>2. meta = None  BY <1>3, <3>5 DEF UpType
      <4>3. ASSUME NEW e \in Clients PROVE BeginsAt(d, req[e])
        <5>1. ShapeOK(req[e])  BY <1>3 DEF UpType
        <5> QED  BY <3>5, <5>1 DEF ShapeOK, BeginsAt
      <4>4. Begins(d)
        <5>1. BeginsHere(d)
          <6>1. Starts(d, object)  BY <3>3, <4>1
          <6> QED  BY <4>1, <4>2, <6>1 DEF BeginsHere
        <5> QED  BY <4>3, <5>1 DEF Begins
      <4>5. Begins(d)'  BY <1>1, <4>4 DEF Grows
      <4> QED  BY <2>6, <3>1, <3>2, <4>1, <4>5
    <3> QED  BY <3>4, <3>5
  <2> QED  BY <2>5, <2>6
<1>8. Quiet /\ Sealed => Quiet' /\ Sealed' /\ (meta = None => meta' = None)
  <2>1. req'[c].pc \in {"idle"} \cup PutPcs /\ req'[c].pc # "complete" /\ req'[c].pc # "unmeta"
    BY <1>1 DEF PutPcs, ReadPcs
  <2> QED  BY <1>1, <1>2, <1>3, <2>1, SealedStep
<1>9. ~Verifying(c)'
  <2>1. req'[c].pc = "idle" \/ req'[c].round = 2
    BY <1>1, <1>4 DEF Hashing
  <2> QED  BY <2>1 DEF Verifying, ReadPcs
<1>10. AllVerified'  BY <1>1, <1>3, <1>8, <1>9, VerifiedStep
<1>11. Up!DigestHolds'  BY <1>2, <1>3, HoldsStep DEF UpInv
<1> QED  BY <1>3, <1>6, <1>7, <1>10, <1>11 DEF UpInv

LEMMA FailInv ==
  ASSUME UploadConstants, UpInv, NEW c \in Clients, Up!Fail(c)
  PROVE  UpInv'
<1>1. Grows  BY FailGrows DEF UpInv
<1>2. Others(c) /\ req'[c] = Up!Idle  BY EndStep DEF UpInv, Up!Fail
<1>3. meta' = meta /\ mpu' = mpu /\ torn' = torn /\ blobs' = blobs  BY DEF Up!Fail
<1>4. req'[c].pc = "idle" /\ Closes  BY <1>2, <1>3, IdleIs, SameUploads DEF UpInv
<1>5. ~Storing(c)' /\ ~Verifying(c)'  BY <1>4 DEF Storing, Verifying, ReadPcs
<1>6. AllStored'  BY <1>1, <1>2, <1>3, <1>5, StoredStep
<1>7. Quiet /\ Sealed => Quiet' /\ Sealed' /\ (meta = None => meta' = None)  BY <1>2, <1>3, <1>4, SealedStep DEF UpInv
<1>8. AllVerified'  BY <1>2, <1>3, <1>5, <1>7, VerifiedStep
<1>9. Up!DigestHolds'  BY <1>3, HoldsStep DEF UpInv
<1>10. AllHashed'
  <2>1. ~Hashing(c)'  BY <1>4 DEF Hashing
  <2>2. Lengthens  BY SameLengthens DEF Up!Fail, UpInv
  <2> QED  BY <1>1, <1>2, <1>3, <2>1, <2>2, HashedStep
<1> QED  BY <1>1, <1>6, <1>8, <1>9, <1>10 DEF UpInv, Grows

(* Create and the GC find no request under way. *)
LEMMA AloneInv ==
  ASSUME UploadConstants, UpInv, \A c \in Clients : Up!At(c, "idle"), req' = req, torn' = torn, blobs' = blobs,
         object' \in Content \cup {None}, mpu' \in Seq(UpPart), Closes, meta' \in {None, meta}
  PROVE  UpInv'
<1>1. UpType'
  <2>1. Len(mpu) <= Len(mpu') /\ Len(mpu) \in Nat /\ Len(mpu') \in Nat  BY DEF Closes, UpInv, UpType
  <2>2. meta' # None => StateOK(meta)' /\ MultiPart  BY <2>1 DEF UpInv, UpType, StateOK
  <2>3. ASSUME NEW c \in Clients PROVE ShapeOK(req[c])'
    <3>1. req'[c] = req[c] /\ ShapeOK(req[c])  BY DEF UpInv, UpType
    <3> QED  BY <2>1, <3>1 DEF ShapeOK, StateOK
  <2> QED  BY <2>2, <2>3 DEF UpInv, UpType
<1>2. ASSUME NEW c \in Clients PROVE ~Storing(c)' /\ ~Verifying(c)' /\ ~Hashing(c)'
  BY DEF Up!At, Storing, Verifying, Hashing, ReadPcs
<1>3. AllStored' /\ AllVerified' /\ AllHashed'  BY <1>2 DEF AllStored, AllVerified, AllHashed
<1>4. Up!DigestHolds'  BY HoldsStep DEF UpInv
<1> QED  BY <1>1, <1>3, <1>4 DEF UpInv

LEMMA NextInv ==
  ASSUME UploadConstants, UpInv, [Up!Next]_Up!vars
  PROVE  UpInv'
<1>0. UpType  BY DEF UpInv
<1>1. ASSUME NEW c \in Clients, Up!Create(c) PROVE UpInv'
  <2>1. mpu' \in Seq(UpPart) /\ Closes  BY <1>0, <1>1, SameUploads DEF Up!Create
  <2>2. object' \in Content  BY <1>1 DEF Up!Create, Content
  <2> QED  BY <1>1, <2>1, <2>2, AloneInv DEF Up!Create
<1>2. ASSUME NEW c \in Clients, Up!Finish(c) PROVE UpInv'
  BY <1>2, FinalizeInv, CompleteInv, DeleteStateInv, VerifyInv, HashInv, StoreInv, RemoveInv DEF Up!Finish
<1>3. CASE Up!Collect
  <2>1. meta' = None /\ mpu' \in Seq(UpPart) /\ Closes  BY <1>0, <1>3, AbortStep DEF Up!Collect
  <2>2. object' \in Content \cup {None}  BY <1>3 DEF Up!Collect, UpInv, UpType
  <2> QED  BY <1>3, <2>1, <2>2, AloneInv DEF Up!Collect
<1>4. CASE UNCHANGED Up!vars
  <2>1. /\ object' = object /\ meta' = meta /\ mpu' = mpu /\ req' = req /\ blobs' = blobs /\ torn' = torn
    BY <1>4 DEF Up!vars
  <2>2. UpType'  BY <1>0, <2>1 DEF UpType, ShapeOK, StateOK
  <2>3. AllStored'  BY <2>1 DEF UpInv, AllStored, Storing, Begins, BeginsHere, BeginsAt, Up!Staged, Open
  <2>6. AllHashed'  BY <2>1 DEF UpInv, AllHashed, Hashing, Begins, BeginsHere, BeginsAt, Up!Staged, Open
  <2>4. AllVerified'  BY <2>1 DEF UpInv, AllVerified, Verifying, Quiet, Sealed, Open
  <2>5. Up!DigestHolds'  BY <2>1, HoldsStep DEF UpInv
  <2> QED  BY <2>2, <2>3, <2>4, <2>5, <2>6 DEF UpInv
<1> QED  BY <1>1, <1>2, <1>3, <1>4, AppendInv, FailInv, PatchInv, PutInv DEF Up!Next

(* "Nothing lands under a digest it doesn't hash to" (formats/oci/handler.go:872),
   for any number of requests at work on a session, whatever they carry and wherever
   they fail, over both backends: finalizeUpload registers under a digest the bytes it
   is the digest of, or none; the empty content, whose length is not compared, and the
   PUTs that another request tore are left out (DigestHolds). *)
THEOREM UploadsHoldDigests == ASSUME UploadConstants PROVE Up!Spec => []Up!DigestHolds
<1>1. Up!Init => UpInv
  <2> SUFFICES ASSUME Up!Init PROVE UpInv  OBVIOUS
  <2>1. \A c \in Clients : req[c] = Up!Idle  BY DEF Up!Init
  <2>2. UpType  BY <2>1, IdleIs DEF Up!Init, UpType, ShapeOK, PutPcs, ReadPcs
  <2>3. AllStored /\ AllVerified /\ AllHashed
    BY <2>1, IdleIs DEF AllStored, AllVerified, AllHashed, Storing, Verifying, Hashing, ReadPcs
  <2>4. Up!DigestHolds  BY DEF Up!Init, Up!DigestHolds
  <2> QED  BY <2>2, <2>3, <2>4 DEF UpInv
<1>2. UpInv /\ [Up!Next]_Up!vars => UpInv'  BY NextInv
<1>3. UpInv => Up!DigestHolds  BY DEF UpInv
<1> QED  BY <1>1, <1>2, <1>3, PTL DEF Up!Spec

----------------------------------------------------------------------------
(* Images, beside them; MaxFaults is the broker's and Clients those of the uploads. *)
CONSTANTS Tags, Manifests, LayersOf, SubjectOf, MaxOps
VARIABLES man, comp, obj, lay, op, replaced, loose, ops, faults

Img == INSTANCE ImageRegistry

ManifestRows == [sum : Manifests, key : Img!Refs]
Extras == [subject : Manifests \cup {None}]
PushOps == [kind : {"push"}, pc : {"put", "row", "type", "alias", "typeAlias"}, ref : Img!Refs, m : Manifests]
RemoveOps == [kind : {"remove"}, pc : {"rows", "compare", "sweep"}, todo : SUBSET Img!Refs, compare : BOOLEAN, doomed : SUBSET Img!Layers]

(* A tag is not a digest, a manifest has one subject at most, and None is nothing else. *)
ImageConstants ==
  /\ Tags \cap Manifests = {}
  /\ SubjectOf \in [Manifests -> Manifests \cup {None}]
  /\ None \notin Manifests \cup ManifestRows \cup Extras \cup PushOps \cup RemoveOps

(* A row has its component, the row of a digest is of the manifest it is the digest of,
   and so is a push by digest; a tag that is being removed has a row to go. *)
ImageType ==
  /\ man \in [Img!Refs -> ManifestRows \cup {None}] /\ comp \in [Img!Refs -> Extras \cup {None}]
  /\ obj \in [Img!Refs -> Manifests \cup {None}] /\ op \in [Clients -> PushOps \cup RemoveOps \cup {None}]
  /\ lay \subseteq Img!Layers
  /\ \A r \in Img!Refs : man[r] # None => comp[r] # None
  /\ \A d \in Manifests : man[d] # None => man[d].sum = d
  /\ \A c \in Img!Pushing : op[c].ref \in Manifests => op[c].m = op[c].ref
  /\ \A c \in Img!Removing : op[c].pc = "rows" /\ op[c].compare => op[c].todo # {}

(* A pull by digest: the row names bytes of that digest, or they have been replaced. *)
DigestRows == \A d \in Manifests \ replaced : man[d] # None => obj[man[d].key] = d

(* The pushes under way: what overlaps is loose; a push that has put its manifest finds
   it where it put it; its layers are there. *)
PushesKnown ==
  /\ Img!Removing # {} => Img!InPush \subseteq loose
  /\ \A c, d \in Img!Pushing : c # d /\ op[c].ref = op[d].ref => op[c].m \in loose
PutDone == \A c \in Img!Pushing : op[c].pc # "put" => obj[op[c].ref] \in {op[c].m, None} \cup loose
LayersPushed == \A c \in Img!Pushing : op[c].m \in loose \/ LayersOf[op[c].m] \subseteq lay

(* A removal that is about to take layers takes none that a row needs. *)
Spared(c, r) == Img!Body(r) \in {None} \cup loose \/ LayersOf[Img!Body(r)] \cap op[c].doomed = {}
LayersSpared ==
  \A c \in Img!Removing : \A r \in Img!Rows :
    op[c].pc = "sweep" \/ (op[c].pc = "rows" /\ ~op[c].compare /\ r \notin op[c].todo) => Spared(c, r)

(* The index: a row's component says what the manifest refers to, or the push that wrote
   the row has still to say so. *)
Telling(c, r) == (op[c].ref = r /\ op[c].pc = "type") \/ (op[c].m = r /\ op[c].pc = "typeAlias")
RowsTold ==
  \A r \in Img!Rows : man[r].sum \in loose \/ comp[r].subject = SubjectOf[man[r].sum] \/ \E c \in Img!Pushing : Telling(c, r)
TellingOK ==
  \A c \in Img!Pushing, r \in Img!Refs : Telling(c, r) =>
    /\ man[r] # None => man[r].sum \in {op[c].m} \cup loose
    /\ comp[r] # None => op[c].m \in loose \/ comp[r].subject \in {None, SubjectOf[op[c].m]}

ImageInv ==
  /\ ImageType /\ DigestRows /\ PushesKnown /\ PutDone /\ LayersPushed
  /\ Img!LayersKept /\ LayersSpared /\ RowsTold /\ TellingOK

----------------------------------------------------------------------------
(* How the requests in flight change. *)
LEMMA Kinds ==
  ASSUME ImageConstants, ImageType
  PROVE  /\ Img!Pushing = {c \in Clients : op[c] \in PushOps} /\ Img!Removing = {c \in Clients : op[c] \in RemoveOps}
         /\ \A c \in Clients : c \notin Img!Pushing /\ c \notin Img!Removing => op[c] = None
         /\ \A c \in Img!Pushing : op[c].m \in Manifests /\ op[c].ref \in Img!Refs
<1>1. ASSUME NEW c \in Clients
      PROVE  /\ op[c] # None /\ op[c].kind = "push" <=> op[c] \in PushOps
             /\ op[c] # None /\ op[c].kind = "remove" <=> op[c] \in RemoveOps
  BY DEF ImageType, ImageConstants, PushOps, RemoveOps
<1>2. \A c \in Clients : op[c] \in PushOps \cup RemoveOps \cup {None}  BY DEF ImageType
<1>3. Img!Pushing = {c \in Clients : op[c] \in PushOps} /\ Img!Removing = {c \in Clients : op[c] \in RemoveOps}
  BY <1>1 DEF Img!Pushing, Img!Removing
<1> QED  BY <1>2, <1>3 DEF PushOps

(* The pushes that remain are those there were. *)
Pushes == Img!Pushing' \subseteq Img!Pushing /\ \A c \in Img!Pushing' : op'[c].ref = op[c].ref /\ op'[c].m = op[c].m

LEMMA PushGoes ==
  ASSUME ImageConstants, ImageType, NEW c \in Img!Pushing, NEW pc \in {"put", "row", "type", "alias", "typeAlias"}, Img!Goto(c, pc)
  PROVE  /\ op' \in [Clients -> PushOps \cup RemoveOps \cup {None}] /\ Img!Pushing' = Img!Pushing /\ Img!Removing' = Img!Removing
         /\ op'[c].ref = op[c].ref /\ op'[c].m = op[c].m /\ op'[c].pc = pc /\ \A d \in Clients \ {c} : op'[d] = op[d]
<1>1. c \in Clients /\ op[c] \in PushOps  BY Kinds
<1>2. PICK x : x = [op[c] EXCEPT !.pc = pc]  OBVIOUS
<1>3. x \in PushOps /\ x.ref = op[c].ref /\ x.m = op[c].m /\ x.pc = pc /\ x.kind = "push" /\ x # None
  BY <1>1, <1>2 DEF PushOps, ImageConstants
<1>4. op' = [op EXCEPT ![c] = x]  BY <1>2 DEF Img!Goto
<1>5. op'[c] = x /\ (\A d \in Clients \ {c} : op'[d] = op[d]) /\ op' \in [Clients -> PushOps \cup RemoveOps \cup {None}]
  BY <1>1, <1>3, <1>4 DEF ImageType
<1>6. Img!Pushing' = Img!Pushing /\ Img!Removing' = Img!Removing  BY <1>1, <1>3, <1>5 DEF Img!Pushing, Img!Removing
<1> QED  BY <1>3, <1>5, <1>6

LEMMA OpEnds ==
  ASSUME ImageConstants, ImageType, NEW c \in Clients, Img!End(c)
  PROVE  /\ op' \in [Clients -> PushOps \cup RemoveOps \cup {None}] /\ Img!Pushing' = Img!Pushing \ {c} /\ Img!Removing' = Img!Removing \ {c}
         /\ op'[c] = None /\ \A d \in Clients \ {c} : op'[d] = op[d]
<1>1. op' \in [Clients -> PushOps \cup RemoveOps \cup {None}] /\ op'[c] = None /\ \A d \in Clients \ {c} : op'[d] = op[d]
  BY DEF Img!End, ImageType
<1> QED  BY <1>1 DEF Img!Pushing, Img!Removing

LEMMA OpBegins ==
  ASSUME ImageConstants, ImageType, NEW c \in Clients, NEW x \in PushOps \cup RemoveOps, Img!Begin(c, x)
  PROVE  /\ op' \in [Clients -> PushOps \cup RemoveOps \cup {None}] /\ op[c] = None /\ op'[c] = x
         /\ \A d \in Clients \ {c} : op'[d] = op[d]
         /\ x \in PushOps => Img!Pushing' = Img!Pushing \cup {c} /\ Img!Removing' = Img!Removing
         /\ x \in RemoveOps => Img!Pushing' = Img!Pushing /\ Img!Removing' = Img!Removing \cup {c}
         /\ c \notin Img!Pushing
<1>1. /\ op' \in [Clients -> PushOps \cup RemoveOps \cup {None}] /\ op'[c] = x /\ op[c] = None
      /\ \A d \in Clients \ {c} : op'[d] = op[d]
  BY DEF Img!Begin, ImageType
<1>2. x # None /\ (x \in PushOps => x.kind = "push") /\ (x \in RemoveOps => x.kind = "remove")
  BY DEF ImageConstants, PushOps, RemoveOps
<1> QED  BY <1>1, <1>2 DEF Img!Pushing, Img!Removing

LEMMA RemovalGoes ==
  ASSUME ImageConstants, ImageType, NEW c \in Img!Removing, NEW x \in RemoveOps, op' = [op EXCEPT ![c] = x]
  PROVE  /\ op' \in [Clients -> PushOps \cup RemoveOps \cup {None}] /\ Img!Pushing' = Img!Pushing /\ Img!Removing' = Img!Removing
         /\ op'[c] = x /\ \A d \in Clients \ {c} : op'[d] = op[d]
<1>1. c \in Clients /\ op[c] \in RemoveOps  BY Kinds
<1>2. op' \in [Clients -> PushOps \cup RemoveOps \cup {None}] /\ op'[c] = x /\ \A d \in Clients \ {c} : op'[d] = op[d]
  BY <1>1 DEF ImageType
<1>3. x.kind = "remove" /\ op[c].kind = "remove" /\ x # None /\ op[c] # None  BY <1>1 DEF RemoveOps, ImageConstants
<1> QED  BY <1>1, <1>2, <1>3 DEF Img!Pushing, Img!Removing

----------------------------------------------------------------------------
(* What an invariant's part asks of a step. *)
LEMMA PushesFrame ==
  ASSUME PushesKnown, LayersPushed, Pushes, loose \subseteq loose',
         Img!Removing' # {} => Img!Removing # {} \/ Img!InPush \subseteq loose',
         \A c \in Img!Pushing : \A l \in lay \ lay' : l \in LayersOf[op[c].m] => op[c].m \in loose'
  PROVE  PushesKnown' /\ LayersPushed'
<1>1. Img!InPush' \subseteq Img!InPush  BY DEF Img!InPush, Pushes
<1>2. Img!Removing' # {} => Img!InPush' \subseteq loose'  BY <1>1 DEF PushesKnown
<1>3. \A c, d \in Img!Pushing' : c # d /\ op'[c].ref = op'[d].ref => op'[c].m \in loose'  BY DEF PushesKnown, Pushes
<1>4. \A c \in Img!Pushing' : op'[c].m \in loose' \/ LayersOf[op'[c].m] \subseteq lay'  BY DEF LayersPushed, Pushes
<1> QED  BY <1>2, <1>3, <1>4 DEF PushesKnown, LayersPushed

LEMMA PutFrame ==
  ASSUME ImageConstants, ImageType, PutDone, Pushes, loose \subseteq loose', \A k \in Img!Refs : obj'[k] \in {obj[k], None},
         \A c \in Img!Pushing' : op'[c].pc # "put" => op[c].pc # "put"
  PROVE  PutDone'
<1>1. \A c \in Img!Pushing : op[c].ref \in Img!Refs  BY Kinds
<1> QED  BY <1>1 DEF PutDone, Pushes

LEMMA DigestFrame ==
  ASSUME DigestRows, replaced' = replaced,
         \A r \in Img!Refs : man'[r] \in {man[r], None} /\ (man'[r] # None => obj'[man[r].key] = obj[man[r].key])
  PROVE  DigestRows'
  BY DEF DigestRows, Img!Refs

(* What a row serves is what it served, or nothing, or loose; or it is whole while
   nobody removes anything. *)
Calm == \A r \in Img!Refs : man'[r] # None =>
  \/ Img!Body(r)' \in {None} \cup loose'
  \/ man[r] # None /\ Img!Body(r)' = Img!Body(r)
  \/ Img!Removing = {} /\ LayersOf[Img!Body(r)'] \subseteq lay

LEMMA KeptFrame ==
  ASSUME Img!LayersKept, Calm, loose \subseteq loose', lay \subseteq lay'
  PROVE  Img!LayersKept'
<1> SUFFICES ASSUME NEW r \in Img!Refs, man'[r] # None, Img!Body(r)' # None, Img!Body(r)' \notin loose'
             PROVE  LayersOf[Img!Body(r)'] \subseteq lay'
  BY DEF Img!LayersKept, Img!Rows
<1>1. CASE Img!Removing = {} /\ LayersOf[Img!Body(r)'] \subseteq lay  BY <1>1
<1>2. CASE man[r] # None /\ Img!Body(r)' = Img!Body(r)
  <2>1. LayersOf[Img!Body(r)] \subseteq lay  BY <1>2 DEF Img!LayersKept, Img!Rows
  <2> QED  BY <1>2, <2>1
<1> QED  BY <1>1, <1>2 DEF Calm

LEMMA SparedFrame ==
  ASSUME LayersSpared, Calm, loose \subseteq loose', Img!Removing' \subseteq Img!Removing, \A c \in Img!Removing' : op'[c] = op[c]
  PROVE  LayersSpared'
<1> SUFFICES ASSUME NEW c \in Img!Removing', NEW r \in Img!Refs, man'[r] # None,
                    op'[c].pc = "sweep" \/ (op'[c].pc = "rows" /\ ~op'[c].compare /\ r \notin op'[c].todo),
                    ~(Img!Body(r)' \in {None} \cup loose')
             PROVE  LayersOf[Img!Body(r)'] \cap op'[c].doomed = {}
  BY DEF LayersSpared, Img!Rows, Spared
<1>1. man[r] # None /\ Img!Body(r)' = Img!Body(r)  BY DEF Calm
<1>2. Spared(c, r)  BY <1>1 DEF LayersSpared, Img!Rows
<1> QED  BY <1>1, <1>2 DEF Spared

LEMMA ToldFrame ==
  ASSUME ImageConstants, ImageType, RowsTold, TellingOK, loose \subseteq loose',
         \A r \in Img!Refs : man'[r] \in {man[r], None},
         \A r \in Img!Refs : \/ comp'[r] = comp[r]
                             \/ (man'[r] = None \/ man'[r].sum \in loose') /\ (comp'[r] = None \/ comp'[r].subject = None),
         \A c \in Img!Pushing : op[c].pc \in {"type", "typeAlias"} => c \in Img!Pushing' /\ op'[c] = op[c],
         \A c \in Img!Pushing' : op'[c].pc \in {"type", "typeAlias"} => c \in Img!Pushing /\ op'[c] = op[c]
  PROVE  RowsTold' /\ TellingOK'
<1>1. RowsTold'
  <2> SUFFICES ASSUME NEW r \in Img!Refs, man'[r] # None, man'[r].sum \notin loose', comp'[r].subject # SubjectOf[man'[r].sum]
               PROVE  \E c \in Img!Pushing' : Telling(c, r)'
    BY DEF RowsTold, Img!Rows
  <2>1. man'[r] = man[r] /\ comp'[r] = comp[r]  OBVIOUS
  <2>2. PICK c \in Img!Pushing : Telling(c, r)  BY <2>1 DEF RowsTold, Img!Rows
  <2>3. c \in Img!Pushing' /\ op'[c] = op[c]  BY <2>2 DEF Telling
  <2> QED  BY <2>2, <2>3 DEF Telling
<1>2. TellingOK'
  <2> SUFFICES ASSUME NEW c \in Img!Pushing', NEW r \in Img!Refs, Telling(c, r)'
               PROVE  /\ man'[r] # None => man'[r].sum \in {op'[c].m} \cup loose'
                      /\ comp'[r] # None => op'[c].m \in loose' \/ comp'[r].subject \in {None, SubjectOf[op'[c].m]}
    BY DEF TellingOK
  <2>1. c \in Img!Pushing /\ op'[c] = op[c]  BY DEF Telling
  <2>2. Telling(c, r)  BY <2>1 DEF Telling
  <2> QED  BY <2>1, <2>2 DEF TellingOK
<1> QED  BY <1>1, <1>2

(* A step that takes rows, bytes, components or layers, and leaves the pushes alone. *)
LEMMA TakesFrame ==
  ASSUME ImageConstants, ImageInv, replaced' = replaced, loose \subseteq loose',
         \A r \in Img!Refs : man'[r] \in {man[r], None} /\ (man'[r] # None => obj'[man[r].key] = obj[man[r].key] /\ comp'[r] = comp[r]),
         \A k \in Img!Refs : obj'[k] \in {obj[k], None} /\ comp'[k] \in {comp[k], None},
         Img!Pushing' = Img!Pushing, \A c \in Img!Pushing : op'[c] = op[c],
         Img!Removing' # {} => Img!Removing # {} \/ Img!InPush \subseteq loose',
         \A c \in Img!Pushing : \A l \in lay \ lay' : l \in LayersOf[op[c].m] => op[c].m \in loose'
  PROVE  DigestRows' /\ PushesKnown' /\ PutDone' /\ LayersPushed' /\ RowsTold' /\ TellingOK' /\ Calm
<1>1. ImageType /\ DigestRows /\ PushesKnown /\ PutDone /\ LayersPushed /\ RowsTold /\ TellingOK  BY DEF ImageInv
<1>2. Pushes  BY DEF Pushes
<1>3. DigestRows'  BY <1>1, DigestFrame
<1>4. PushesKnown' /\ LayersPushed'  BY <1>1, <1>2, PushesFrame
<1>5. PutDone'  BY <1>1, <1>2, PutFrame
<1>6. RowsTold' /\ TellingOK'
  <2>1. \A r \in Img!Refs : \/ comp'[r] = comp[r]
                            \/ (man'[r] = None \/ man'[r].sum \in loose') /\ (comp'[r] = None \/ comp'[r].subject = None)
    OBVIOUS
  <2> QED  BY <1>1, <2>1, ToldFrame
<1>7. Calm  BY DEF Calm, Img!Body
<1> QED  BY <1>3, <1>4, <1>5, <1>6, <1>7

----------------------------------------------------------------------------
(* The removals. *)
LEMMA ArtifactGone ==
  ASSUME ImageConstants, ImageType, NEW r \in Img!Refs, Img!DeleteArtifact(r)
  PROVE  /\ man' \in [Img!Refs -> ManifestRows \cup {None}] /\ obj' \in [Img!Refs -> Manifests \cup {None}] /\ man'[r] = None
         /\ \A q \in Img!Refs : man'[q] \in {man[q], None} /\ (man'[q] # None => obj'[man[q].key] = obj[man[q].key])
         /\ \A k \in Img!Refs : obj'[k] \in {obj[k], None}
<1>1. CASE man[r] = None  BY <1>1 DEF Img!DeleteArtifact, ImageType
<1>2. CASE man[r] # None
  <2>1. man[r].key \in Img!Refs  BY <1>2 DEF ImageType, ManifestRows
  <2>2. man' = [man EXCEPT ![r] = None]  BY <1>2 DEF Img!DeleteArtifact
  <2>3. obj' = IF Img!Shared(r) THEN obj ELSE [obj EXCEPT ![man[r].key] = None]  BY <1>2 DEF Img!DeleteArtifact
  <2>4. obj' \in [Img!Refs -> Manifests \cup {None}] /\ \A k \in Img!Refs : obj'[k] \in {obj[k], None}  BY <2>1, <2>3 DEF ImageType
  <2>5. ASSUME NEW q \in Img!Refs, man'[q] # None PROVE obj'[man[q].key] = obj[man[q].key]
    <3>1. q # r /\ man[q] # None  BY <2>2, <2>5 DEF ImageType
    <3>2. ~Img!Shared(r) => man[q].key # man[r].key  BY <3>1 DEF Img!Shared, Img!Rows
    <3>3. man[q].key \in Img!Refs  BY <3>1 DEF ImageType, ManifestRows
    <3> QED  BY <2>1, <2>3, <3>2, <3>3 DEF ImageType
  <2> QED  BY <2>2, <2>4, <2>5 DEF ImageType
<1> QED  BY <1>1, <1>2

LEMMA DeleteManifestHolds ==
  ASSUME ImageConstants, ImageInv, NEW r \in Img!Refs, Img!deleteManifest(r)
  PROVE  ImageInv'
<1>1. /\ comp' = comp /\ lay' = lay /\ op' = op /\ replaced' = replaced /\ loose \subseteq loose' /\ Img!DeleteArtifact(r)
      /\ ImageType
  BY DEF Img!deleteManifest, ImageInv
<1>2. /\ man' \in [Img!Refs -> ManifestRows \cup {None}] /\ obj' \in [Img!Refs -> Manifests \cup {None}]
      /\ \A q \in Img!Refs : man'[q] \in {man[q], None} /\ (man'[q] # None => obj'[man[q].key] = obj[man[q].key])
      /\ \A k \in Img!Refs : obj'[k] \in {obj[k], None}
  BY <1>1, ArtifactGone
<1>3. Img!Pushing' = Img!Pushing /\ Img!Removing' = Img!Removing  BY <1>1 DEF Img!Pushing, Img!Removing
<1>4. DigestRows' /\ PushesKnown' /\ PutDone' /\ LayersPushed' /\ RowsTold' /\ TellingOK' /\ Calm
  BY <1>1, <1>2, <1>3, TakesFrame
<1>5. ImageType'  BY <1>1, <1>2, <1>3 DEF ImageType, Img!Refs
<1>6. Img!LayersKept' /\ LayersSpared'  BY <1>1, <1>3, <1>4, KeptFrame, SparedFrame DEF ImageInv
<1> QED  BY <1>4, <1>5, <1>6 DEF ImageInv

LEMMA DeleteComponentHolds ==
  ASSUME ImageConstants, ImageInv, NEW r \in Img!Refs, Img!DeleteComponent(r)
  PROVE  ImageInv'
<1>1. /\ comp' = [comp EXCEPT ![r] = None] /\ man' = [man EXCEPT ![r] = None] /\ obj' = obj
      /\ lay' = lay /\ op' = op /\ replaced' = replaced /\ loose \subseteq loose' /\ ImageType
  BY DEF Img!DeleteComponent, ImageInv
<1>2. /\ man' \in [Img!Refs -> ManifestRows \cup {None}] /\ comp' \in [Img!Refs -> Extras \cup {None}]
      /\ \A q \in Img!Refs : man'[q] \in {man[q], None} /\ (man'[q] # None => comp'[q] = comp[q])
      /\ \A q \in Img!Refs : comp'[q] \in {comp[q], None}
  BY <1>1 DEF ImageType
<1>3. Img!Pushing' = Img!Pushing /\ Img!Removing' = Img!Removing  BY <1>1 DEF Img!Pushing, Img!Removing
<1>4. DigestRows' /\ PushesKnown' /\ PutDone' /\ LayersPushed' /\ RowsTold' /\ TellingOK' /\ Calm
  BY <1>1, <1>2, <1>3, TakesFrame
<1>5. ImageType'  BY <1>1, <1>2, <1>3 DEF ImageType, Img!Refs
<1>6. Img!LayersKept' /\ LayersSpared'  BY <1>1, <1>3, <1>4, KeptFrame, SparedFrame DEF ImageInv
<1> QED  BY <1>4, <1>5, <1>6 DEF ImageInv

LEMMA DeleteBlobHolds ==
  ASSUME ImageConstants, ImageInv, NEW l \in Img!Layers, Img!deleteBlob(l)
  PROVE  ImageInv'
<1>1. /\ comp' = comp /\ man' = man /\ obj' = obj /\ lay' = lay \ {l} /\ op' = op /\ replaced' = replaced
      /\ loose' = loose \cup {m \in Manifests : l \in LayersOf[m]} /\ ImageType
  BY DEF Img!deleteBlob, ImageInv
<1>2. Img!Pushing' = Img!Pushing /\ Img!Removing' = Img!Removing  BY <1>1 DEF Img!Pushing, Img!Removing
<1>3. DigestRows' /\ PushesKnown' /\ PutDone' /\ LayersPushed' /\ RowsTold' /\ TellingOK' /\ Calm
  <2>1. \A c \in Img!Pushing : op[c].m \in Manifests  BY <1>1, Kinds
  <2> QED  BY <1>1, <1>2, <2>1, TakesFrame
<1>4. ImageType'  BY <1>1, <1>2 DEF ImageType
<1>5. LayersSpared'  BY <1>1, <1>2, <1>3, SparedFrame DEF ImageInv
<1>6. Img!LayersKept'
  <2> SUFFICES ASSUME NEW r \in Img!Refs, man[r] # None, Img!Body(r) # None, Img!Body(r) \notin loose' PROVE LayersOf[Img!Body(r)] \subseteq lay'
    BY <1>1 DEF Img!LayersKept, Img!Rows, Img!Body
  <2>1. LayersOf[Img!Body(r)] \subseteq lay  BY <1>1 DEF ImageInv, Img!LayersKept, Img!Rows
  <2>2. Img!Body(r) \in Manifests  BY <1>1 DEF Img!Body, ImageType, ManifestRows
  <2> QED  BY <1>1, <2>1, <2>2
<1> QED  BY <1>3, <1>4, <1>5, <1>6 DEF ImageInv

(* A removal begins: what is being pushed is loose from now on, and if it takes layers
   without comparing them, what keeps its rows is loose as well. *)
LEMMA RemoveHolds ==
  ASSUME ImageConstants, ImageInv, NEW c \in Clients, NEW todo \in SUBSET Img!Refs, NEW compare \in {TRUE, FALSE},
         NEW doomed \in SUBSET Img!Layers, Img!Remove(c, todo, compare, doomed), loose \cup Img!InPush \subseteq loose',
         compare = TRUE => todo # {},
         compare = TRUE \/ doomed = {} \/ \A r \in Img!Rows \ todo : Img!Body(r) \in {None} \cup loose'
  PROVE  ImageInv'
<1> DEFINE x == [kind |-> "remove", pc |-> "rows", todo |-> todo, compare |-> compare, doomed |-> doomed]
<1>0. ImageType  BY DEF ImageInv
<1>1. /\ comp' = comp /\ man' = man /\ obj' = obj /\ lay' = lay /\ replaced' = replaced /\ Img!Begin(c, x)
  BY DEF Img!Remove
<1>2. x \in RemoveOps  BY DEF RemoveOps
<1>3. x \notin PushOps \/ x \in RemoveOps  BY <1>2
<1>4. x.pc = "rows" /\ x.todo = todo /\ x.compare = compare /\ x.doomed = doomed  OBVIOUS
<1> HIDE DEF x
<1>5. /\ op' \in [Clients -> PushOps \cup RemoveOps \cup {None}] /\ op[c] = None /\ op'[c] = x
      /\ (\A d \in Clients \ {c} : op'[d] = op[d]) /\ Img!Pushing' = Img!Pushing /\ Img!Removing' = Img!Removing \cup {c} /\ c \notin Img!Pushing
  BY <1>0, <1>1, <1>2, OpBegins
<1>6. \A d \in Img!Pushing : op'[d] = op[d]  BY <1>5 DEF Img!Pushing
<1>7. DigestRows' /\ PushesKnown' /\ PutDone' /\ LayersPushed' /\ RowsTold' /\ TellingOK' /\ Calm
  BY <1>0, <1>1, <1>5, <1>6, TakesFrame
<1>8. ImageType'  BY <1>0, <1>1, <1>4, <1>5, <1>6 DEF ImageType, Img!Removing
<1>9. Img!LayersKept'  BY <1>1, <1>7, KeptFrame DEF ImageInv
<1>10. LayersSpared'
  <2> SUFFICES ASSUME NEW d \in Img!Removing', NEW r \in Img!Refs, man[r] # None,
                      op'[d].pc = "sweep" \/ (op'[d].pc = "rows" /\ ~op'[d].compare /\ r \notin op'[d].todo),
                      ~(Img!Body(r) \in {None} \cup loose')
               PROVE  LayersOf[Img!Body(r)] \cap op'[d].doomed = {}
    BY <1>1 DEF LayersSpared, Img!Rows, Spared, Img!Body
  <2>1. CASE d = c  BY <1>4, <1>5, <2>1 DEF Img!Rows
  <2>2. CASE d # c
    <3>1. d \in Img!Removing /\ op'[d] = op[d]  BY <1>5, <2>2 DEF Img!Removing
    <3>2. Spared(d, r)  BY <3>1 DEF ImageInv, LayersSpared, Img!Rows
    <3> QED  BY <3>1, <3>2 DEF Spared
  <2> QED  BY <2>1, <2>2
<1> QED  BY <1>7, <1>8, <1>9, <1>10 DEF ImageInv

LEMMA BodyType ==
  ASSUME ImageType, NEW r \in Img!Refs
  PROVE  /\ Img!Body(r) \in Manifests \cup {None} /\ Img!parseManifestDigests(Img!Body(r)) \subseteq Img!Layers
         /\ Img!Body(r) # None => man[r] # None
  BY DEF Img!Body, ImageType, ManifestRows, Img!parseManifestDigests, Img!Layers

LEMMA RemovalBegins ==
  ASSUME ImageConstants, ImageInv, NEW c \in Clients,
         Img!DeleteDockerImage(c) \/ Img!DeleteByPath(c) \/ \E r \in Img!Refs : Img!DeleteDockerTag(c, r)
  PROVE  ImageInv'
<1>0. ImageType  BY DEF ImageInv
<1>1. Img!Rows \in SUBSET Img!Refs /\ {} \in SUBSET Img!Refs /\ lay \in SUBSET Img!Layers /\ {} \in SUBSET Img!Layers  BY <1>0 DEF Img!Rows, ImageType
<1>2. CASE Img!DeleteByPath(c)
  <2>1. Img!Remove(c, Img!Rows, FALSE, {}) /\ loose \cup Img!InPush \subseteq loose'  BY <1>2 DEF Img!DeleteByPath
  <2>2. \A r \in Img!Rows \ Img!Rows : Img!Body(r) \in {None} \cup loose'  OBVIOUS
  <2> QED  BY <1>1, <2>1, <2>2, RemoveHolds
<1>3. CASE Img!DeleteDockerImage(c)
  <2>1. CASE Img!Remove(c, Img!Rows, FALSE, lay) /\ loose' = loose \cup Img!InPush  BY <1>1, <2>1, RemoveHolds
  <2>2. CASE Img!Remove(c, Img!Rows, FALSE, {}) /\ loose' = loose \cup Img!InPush  BY <1>1, <2>2, RemoveHolds
  <2>3. CASE Img!Remove(c, {}, FALSE, lay) /\ loose' = loose \cup Img!InPush \cup ({Img!Body(r) : r \in Img!Rows} \ {None})
    <3>1. loose \cup Img!InPush \subseteq loose' /\ \A r \in Img!Rows \ {} : Img!Body(r) \in {None} \cup loose'  BY <2>3
    <3> QED  BY <1>1, <2>3, <3>1, RemoveHolds
  <2> QED  BY <1>3, <2>1, <2>2, <2>3 DEF Img!DeleteDockerImage
<1>4. ASSUME NEW r \in Img!Refs, Img!DeleteDockerTag(c, r) PROVE ImageInv'
  <2>1. {r, man[r].sum} \in SUBSET Img!Refs  BY <1>0, <1>4 DEF Img!DeleteDockerTag, ImageType, ManifestRows, Img!Refs
  <2>2. Img!parseManifestDigests(Img!Body(r)) \in SUBSET Img!Layers  BY <1>0, BodyType
  <2>3. loose \cup Img!InPush \subseteq loose'  BY <1>4 DEF Img!DeleteDockerTag
  <2>4. CASE Img!Remove(c, {r, man[r].sum}, TRUE, Img!parseManifestDigests(Img!Body(r)))  BY <2>1, <2>2, <2>3, <2>4, RemoveHolds
  <2>5. CASE Img!Remove(c, {r, man[r].sum}, TRUE, {})  BY <1>1, <2>1, <2>3, <2>5, RemoveHolds
  <2> QED  BY <1>4, <2>4, <2>5 DEF Img!DeleteDockerTag
<1> QED  BY <1>2, <1>3, <1>4

(* A removal goes on. *)
LEMMA RemovalStep ==
  ASSUME ImageConstants, ImageInv, NEW c \in Img!Removing, NEW x \in RemoveOps, op' = [op EXCEPT ![c] = x],
         replaced' = replaced, loose \subseteq loose', lay' = lay,
         man' \in [Img!Refs -> ManifestRows \cup {None}], obj' \in [Img!Refs -> Manifests \cup {None}], comp' = comp,
         \A r \in Img!Refs : man'[r] \in {man[r], None} /\ (man'[r] # None => obj'[man[r].key] = obj[man[r].key]),
         \A k \in Img!Refs : obj'[k] \in {obj[k], None},
         x.pc = "rows" /\ x.compare => x.todo # {},
         \A r \in Img!Refs : man'[r] # None /\ (x.pc = "sweep" \/ (x.pc = "rows" /\ ~x.compare /\ r \notin x.todo)) =>
           Img!Body(r) \in {None} \cup loose' \/ LayersOf[Img!Body(r)] \cap x.doomed = {}
  PROVE  ImageInv'
<1>0. ImageType  BY DEF ImageInv
<1>1. /\ op' \in [Clients -> PushOps \cup RemoveOps \cup {None}] /\ Img!Pushing' = Img!Pushing /\ Img!Removing' = Img!Removing
      /\ op'[c] = x /\ \A d \in Clients \ {c} : op'[d] = op[d]
  BY <1>0, RemovalGoes
<1>2. \A d \in Img!Pushing : op'[d] = op[d]  BY <1>0, <1>1 DEF Img!Pushing, Img!Removing
<1>3. DigestRows' /\ PushesKnown' /\ PutDone' /\ LayersPushed' /\ RowsTold' /\ TellingOK' /\ Calm
  BY <1>1, <1>2, TakesFrame
<1>4. ImageType'  BY <1>0, <1>1, <1>2 DEF ImageType, Img!Refs, Img!Removing
<1>5. Img!LayersKept'  BY <1>3, KeptFrame DEF ImageInv
<1>6. LayersSpared'
  <2> SUFFICES ASSUME NEW d \in Img!Removing', NEW r \in Img!Refs, man'[r] # None,
                      op'[d].pc = "sweep" \/ (op'[d].pc = "rows" /\ ~op'[d].compare /\ r \notin op'[d].todo),
                      ~(Img!Body(r)' \in {None} \cup loose')
               PROVE  LayersOf[Img!Body(r)'] \cap op'[d].doomed = {}
    BY DEF LayersSpared, Img!Rows, Spared
  <2>1. Img!Body(r)' = Img!Body(r) /\ man[r] # None  BY DEF Img!Body
  <2>2. CASE d = c  BY <1>1, <2>1, <2>2
  <2>3. CASE d # c
    <3>1. d \in Img!Removing /\ op'[d] = op[d]  BY <1>1, <2>3 DEF Img!Removing
    <3>2. Spared(d, r)  BY <2>1, <3>1 DEF ImageInv, LayersSpared, Img!Rows
    <3> QED  BY <2>1, <3>1, <3>2 DEF Spared
  <2> QED  BY <2>2, <2>3
<1> QED  BY <1>3, <1>4, <1>5, <1>6 DEF ImageInv

LEMMA RemovalGoesOn ==
  ASSUME ImageConstants, ImageInv, NEW c \in Clients, Img!RemoveRow(c) \/ Img!NoRows(c) \/ Img!CompareLayers(c)
  PROVE  ImageInv'
<1>0. ImageType  BY DEF ImageInv
<1>1. c \in Img!Removing /\ op[c] \in RemoveOps /\ lay' = lay /\ comp' = comp /\ replaced' = replaced
  <2>1. c \in Img!Removing  BY DEF Img!RemoveRow, Img!NoRows, Img!CompareLayers
  <2> QED  BY <1>0, <2>1, Kinds DEF Img!RemoveRow, Img!NoRows, Img!CompareLayers
<1>2. CASE Img!RemoveRow(c)
  <2>1. PICK r \in op[c].todo :
          /\ op[c].pc = "rows" /\ Img!DeleteArtifact(r)
          /\ op' = [op EXCEPT ![c].todo = @ \ {r}, ![c].pc = IF op[c].todo # {r} THEN "rows" ELSE IF op[c].compare THEN "compare" ELSE "sweep"]
    BY <1>2 DEF Img!RemoveRow
  <2>2. r \in Img!Refs /\ loose' = loose  BY <1>1, <1>2, <2>1 DEF RemoveOps, Img!RemoveRow
  <2>3. PICK pc \in {"rows", "compare", "sweep"} :
          pc = IF op[c].todo # {r} THEN "rows" ELSE IF op[c].compare THEN "compare" ELSE "sweep"
    OBVIOUS
  <2>4. PICK x : x = [op[c] EXCEPT !.todo = op[c].todo \ {r}, !.pc = pc]  OBVIOUS
  <2>5. /\ x \in RemoveOps /\ x.pc = pc /\ x.todo = op[c].todo \ {r} /\ x.compare = op[c].compare /\ x.doomed = op[c].doomed
    BY <1>1, <2>4 DEF RemoveOps
  <2>6. op' = [op EXCEPT ![c] = x]  BY <2>1, <2>3, <2>4
  <2>7. /\ man' \in [Img!Refs -> ManifestRows \cup {None}] /\ obj' \in [Img!Refs -> Manifests \cup {None}] /\ man'[r] = None
        /\ \A q \in Img!Refs : man'[q] \in {man[q], None} /\ (man'[q] # None => obj'[man[q].key] = obj[man[q].key])
        /\ \A k \in Img!Refs : obj'[k] \in {obj[k], None}
    BY <1>0, <2>1, <2>2, ArtifactGone
  <2>8. ASSUME NEW q \in Img!Refs, man'[q] # None, x.pc = "sweep" \/ (x.pc = "rows" /\ ~x.compare /\ q \notin x.todo)
        PROVE  Img!Body(q) \in {None} \cup loose' \/ LayersOf[Img!Body(q)] \cap x.doomed = {}
    <3>1. man[q] # None /\ q # r /\ q \notin op[c].todo /\ ~op[c].compare
      <4>1. man[q] # None /\ q # r  BY <2>7, <2>8
      <4>2. x.pc = "sweep" => op[c].todo = {r} /\ ~op[c].compare  BY <2>3, <2>5
      <4> QED  BY <2>5, <2>8, <4>1, <4>2
    <3>2. Spared(c, q)  BY <1>1, <2>1, <3>1 DEF ImageInv, LayersSpared, Img!Rows
    <3> QED  BY <2>2, <2>5, <3>2 DEF Spared
  <2>9. x.pc = "rows" => x.todo # {}  BY <2>1, <2>3, <2>5
  <2> QED  BY <1>1, <2>2, <2>5, <2>6, <2>7, <2>8, <2>9, RemovalStep
<1>3. CASE Img!NoRows(c)
  <2>1. PICK x : x = [op[c] EXCEPT !.pc = "sweep"]  OBVIOUS
  <2>2. x \in RemoveOps /\ x.pc = "sweep" /\ x.doomed = op[c].doomed  BY <1>1, <2>1 DEF RemoveOps
  <2>3. /\ op' = [op EXCEPT ![c] = x] /\ man' = man /\ obj' = obj /\ loose' = loose /\ op[c].pc = "rows" /\ op[c].todo = {}
    BY <1>3, <2>1 DEF Img!NoRows, Img!Goto
  <2>4. ASSUME ~op[c].compare, NEW q \in Img!Refs, man[q] # None
        PROVE  Img!Body(q) \in {None} \cup loose \/ LayersOf[Img!Body(q)] \cap x.doomed = {}
    <3>1. Spared(c, q)  BY <1>1, <2>3, <2>4 DEF ImageInv, LayersSpared, Img!Rows
    <3> QED  BY <2>2, <3>1 DEF Spared
  <2>5. ~op[c].compare  BY <1>0, <1>1, <2>3 DEF ImageType
  <2> QED  BY <1>0, <1>1, <2>2, <2>3, <2>4, <2>5, RemovalStep DEF ImageType
<1>4. CASE Img!CompareLayers(c)
  <2>1. PICK lost \in SUBSET Img!Refs :
          /\ op' = [op EXCEPT ![c].doomed = @ \ Img!stillUsed(Img!Rows \ lost), ![c].pc = "sweep"]
          /\ loose' = loose \cup ({Img!Body(q) : q \in lost} \ {None})
    <3>1. CASE op' = [op EXCEPT ![c].doomed = @ \ Img!stillUsed(Img!Rows), ![c].pc = "sweep"] /\ loose' = loose
      <4>1. Img!Rows \ {} = Img!Rows /\ loose \cup ({Img!Body(q) : q \in {}} \ {None}) = loose /\ {} \in SUBSET Img!Refs  OBVIOUS
      <4> QED  BY <3>1, <4>1
    <3>2. ASSUME NEW lost \in {{q} : q \in Img!Rows} \cup {Img!Rows}
          PROVE  lost \in SUBSET Img!Refs
      BY DEF Img!Rows
    <3> QED  BY <1>4, <3>1, <3>2 DEF Img!CompareLayers
  <2>2. PICK left : left = op[c].doomed \ Img!stillUsed(Img!Rows \ lost)  OBVIOUS
  <2>3. PICK x : x = [op[c] EXCEPT !.doomed = left, !.pc = "sweep"]  OBVIOUS
  <2>4. x \in RemoveOps /\ x.doomed = left /\ x.pc = "sweep"  BY <1>1, <2>2, <2>3 DEF RemoveOps
  <2>5. op' = [op EXCEPT ![c] = x] /\ man' = man /\ obj' = obj  BY <1>4, <2>1, <2>2, <2>3 DEF Img!CompareLayers
  <2>6. ASSUME NEW q \in Img!Refs, man[q] # None, Img!Body(q) \notin {None} \cup loose' PROVE LayersOf[Img!Body(q)] \cap left = {}
    <3>1. q \in Img!Rows \ lost  BY <2>1, <2>6 DEF Img!Rows
    <3>2. LayersOf[Img!Body(q)] \subseteq Img!stillUsed(Img!Rows \ lost)
      <4>1. Img!parseManifestDigests(Img!Body(q)) = LayersOf[Img!Body(q)]  BY <2>6 DEF Img!parseManifestDigests
      <4> QED  BY <3>1, <4>1 DEF Img!stillUsed
    <3> QED  BY <2>2, <3>2
  <2> QED  BY <1>0, <1>1, <2>1, <2>4, <2>5, <2>6, RemovalStep DEF ImageType
<1> QED  BY <1>2, <1>3, <1>4

LEMMA SweepHolds ==
  ASSUME ImageConstants, ImageInv, NEW c \in Clients, Img!SweepLayer(c)
  PROVE  ImageInv'
<1>0. ImageType /\ c \in Img!Removing  BY DEF ImageInv, Img!SweepLayer
<1>1. PICK l \in op[c].doomed : lay' = lay \ {l} /\ op' = [op EXCEPT ![c].doomed = @ \ {l}]  BY DEF Img!SweepLayer
<1>2. /\ man' = man /\ comp' = comp /\ obj' = obj /\ replaced' = replaced /\ loose' = loose /\ op[c].pc = "sweep"
      /\ op[c] \in RemoveOps
  BY <1>0, Kinds DEF Img!SweepLayer
<1>3. PICK x : x = [op[c] EXCEPT !.doomed = op[c].doomed \ {l}]  OBVIOUS
<1>4. x \in RemoveOps /\ x.doomed = op[c].doomed \ {l} /\ x.pc = "sweep"  BY <1>2, <1>3 DEF RemoveOps
<1>5. op' = [op EXCEPT ![c] = x]  BY <1>1, <1>3
<1>6. /\ op' \in [Clients -> PushOps \cup RemoveOps \cup {None}] /\ Img!Pushing' = Img!Pushing /\ Img!Removing' = Img!Removing
      /\ op'[c] = x /\ \A d \in Clients \ {c} : op'[d] = op[d]
  BY <1>0, <1>4, <1>5, RemovalGoes
<1>7. \A d \in Img!Pushing : op'[d] = op[d]  BY <1>0, <1>2, <1>6 DEF Img!Pushing, RemoveOps
<1>8. DigestRows' /\ PushesKnown' /\ PutDone' /\ LayersPushed' /\ RowsTold' /\ TellingOK' /\ Calm
  <2>1. \A d \in Img!Pushing : op[d].m \in loose  BY <1>0 DEF ImageInv, PushesKnown, Img!InPush
  <2> QED  BY <1>0, <1>1, <1>2, <1>6, <1>7, <2>1, TakesFrame
<1>9. ImageType'  BY <1>0, <1>1, <1>2, <1>4, <1>6, <1>7 DEF ImageType, Img!Removing
<1>10. ASSUME NEW r \in Img!Refs, man[r] # None, Img!Body(r) \notin {None} \cup loose PROVE LayersOf[Img!Body(r)] \subseteq lay'
  <2>1. Spared(c, r)  BY <1>0, <1>2, <1>10 DEF ImageInv, LayersSpared, Img!Rows
  <2>2. LayersOf[Img!Body(r)] \subseteq lay  BY <1>10 DEF ImageInv, Img!LayersKept, Img!Rows
  <2> QED  BY <1>1, <1>10, <2>1, <2>2 DEF Spared
<1>11. Img!LayersKept'  BY <1>2, <1>10 DEF Img!LayersKept, Img!Rows, Img!Body
<1>12. LayersSpared'
  <2> SUFFICES ASSUME NEW d \in Img!Removing, NEW r \in Img!Refs, man[r] # None,
                      op'[d].pc = "sweep" \/ (op'[d].pc = "rows" /\ ~op'[d].compare /\ r \notin op'[d].todo),
                      ~(Img!Body(r) \in {None} \cup loose)
               PROVE  LayersOf[Img!Body(r)] \cap op'[d].doomed = {}
    BY <1>2, <1>6 DEF LayersSpared, Img!Rows, Spared, Img!Body
  <2>1. CASE d = c
    <3>1. Spared(c, r)  BY <1>0, <1>2 DEF ImageInv, LayersSpared, Img!Rows
    <3> QED  BY <1>4, <1>6, <2>1, <3>1 DEF Spared
  <2>2. CASE d # c
    <3>1. op'[d] = op[d]  BY <1>6, <2>2 DEF Img!Removing
    <3>2. Spared(d, r)  BY <3>1 DEF ImageInv, LayersSpared, Img!Rows
    <3> QED  BY <3>1, <3>2 DEF Spared
  <2> QED  BY <2>1, <2>2
<1> QED  BY <1>8, <1>9, <1>11, <1>12 DEF ImageInv

LEMMA RemovalEnds ==
  ASSUME ImageConstants, ImageInv, NEW c \in Clients, Img!RemovalFails(c) \/ Img!DeleteOrphans(c)
  PROVE  ImageInv'
<1>0. ImageType /\ c \in Img!Removing /\ Img!End(c)  BY DEF ImageInv, Img!RemovalFails, Img!DeleteOrphans
<1>1. /\ man' = man /\ obj' = obj /\ lay' = lay /\ replaced' = replaced /\ loose' = loose
      /\ comp' = comp \/ comp' = [r \in Img!Refs |-> IF man[r] = None THEN None ELSE comp[r]]
  BY DEF Img!RemovalFails, Img!DeleteOrphans
<1>2. /\ comp' \in [Img!Refs -> Extras \cup {None}] /\ \A r \in Img!Refs : comp'[r] \in {comp[r], None}
      /\ \A r \in Img!Refs : man[r] # None => comp'[r] = comp[r]
  BY <1>0, <1>1 DEF ImageType
<1>3. /\ op' \in [Clients -> PushOps \cup RemoveOps \cup {None}] /\ Img!Pushing' = Img!Pushing \ {c} /\ Img!Removing' = Img!Removing \ {c}
      /\ op'[c] = None /\ \A d \in Clients \ {c} : op'[d] = op[d]
  BY <1>0, OpEnds
<1>4. c \notin Img!Pushing  BY <1>0 DEF Img!Pushing, Img!Removing
<1>5. /\ Img!Pushing' = Img!Pushing /\ (\A d \in Img!Pushing : op'[d] = op[d])
      /\ Img!Removing' \subseteq Img!Removing /\ \A d \in Img!Removing' : op'[d] = op[d]
  BY <1>3, <1>4 DEF Img!Pushing, Img!Removing
<1>6. DigestRows' /\ PushesKnown' /\ PutDone' /\ LayersPushed' /\ RowsTold' /\ TellingOK' /\ Calm
  BY <1>0, <1>1, <1>2, <1>5, TakesFrame DEF ImageType
<1>7. ImageType'  BY <1>0, <1>1, <1>2, <1>3, <1>5 DEF ImageType
<1>8. Img!LayersKept' /\ LayersSpared'  BY <1>1, <1>5, <1>6, KeptFrame, SparedFrame DEF ImageInv
<1> QED  BY <1>6, <1>7, <1>8 DEF ImageInv

----------------------------------------------------------------------------
(* The pushes. *)
LEMMA PushBeginsHolds ==
  ASSUME ImageConstants, ImageInv, NEW c \in Clients, NEW r \in Img!Refs, NEW m \in Manifests, Img!PushBegins(c, r, m)
  PROVE  ImageInv'
<1> DEFINE x == [kind |-> "push", pc |-> "put", ref |-> r, m |-> m]
<1>0. ImageType  BY DEF ImageInv
<1>1. /\ man' = man /\ comp' = comp /\ obj' = obj /\ replaced' = replaced /\ lay' = lay \cup LayersOf[m] /\ Img!Begin(c, x)
      /\ ~Img!digestMismatch(r, m)
      /\ loose' = loose \cup (IF Img!Removing # {} THEN {m} ELSE {})
                    \cup UNION {{m, op[d].m} : d \in {e \in Img!Pushing : op[e].ref = r}}
  BY DEF Img!PushBegins
<1>2. x \in PushOps /\ x.pc = "put" /\ x.ref = r /\ x.m = m  BY DEF PushOps
<1> HIDE DEF x
<1>3. /\ op' \in [Clients -> PushOps \cup RemoveOps \cup {None}] /\ op[c] = None /\ op'[c] = x
      /\ (\A d \in Clients \ {c} : op'[d] = op[d]) /\ Img!Pushing' = Img!Pushing \cup {c} /\ Img!Removing' = Img!Removing /\ c \notin Img!Pushing
  BY <1>0, <1>1, <1>2, OpBegins
<1>4. /\ loose \subseteq loose' /\ (Img!Removing # {} => m \in loose')
      /\ \A d \in Img!Pushing : op[d].ref = r => m \in loose' /\ op[d].m \in loose'
  <2>1. loose \subseteq loose' /\ (Img!Removing # {} => m \in loose')  BY <1>1
  <2>2. ASSUME NEW d \in Img!Pushing, op[d].ref = r PROVE m \in loose' /\ op[d].m \in loose'
    <3>1. {m, op[d].m} \in {{m, op[y].m} : y \in {e \in Img!Pushing : op[e].ref = r}}  BY <2>2
    <3> QED  BY <1>1, <3>1
  <2> QED  BY <2>1, <2>2
<1>5. /\ \A d \in Img!Pushing : d # c /\ op'[d] = op[d]
      /\ \A d \in Img!Removing : op'[d] = op[d]
  BY <1>3 DEF Img!Pushing, Img!Removing
<1>6. ImageType'
  <2>1. LayersOf[m] \subseteq Img!Layers  BY DEF Img!Layers
  <2>2. r \in Manifests => m = r  BY <1>1 DEF Img!digestMismatch
  <2>3. \A d \in Img!Pushing' : op'[d].ref \in Manifests => op'[d].m = op'[d].ref
    BY <1>0, <1>2, <1>3, <1>5, <2>2 DEF ImageType
  <2>4. \A d \in Img!Removing' : op'[d].pc = "rows" /\ op'[d].compare => op'[d].todo # {}  BY <1>0, <1>3, <1>5 DEF ImageType
  <2> QED  BY <1>0, <1>1, <1>3, <2>1, <2>3, <2>4 DEF ImageType
<1>7. PushesKnown'
  <2>1. Img!Removing' # {} => Img!InPush' \subseteq loose'
    <3>1. Img!InPush' = Img!InPush \cup {m}  BY <1>2, <1>3, <1>5 DEF Img!InPush
    <3> QED  BY <1>3, <1>4, <3>1 DEF ImageInv, PushesKnown
  <2>2. ASSUME NEW d \in Img!Pushing', NEW e \in Img!Pushing', d # e, op'[d].ref = op'[e].ref PROVE op'[d].m \in loose'
    <3>1. CASE d = c
      <4>1. e \in Img!Pushing /\ op[e].ref = r  BY <1>2, <1>3, <1>5, <2>2, <3>1
      <4> QED  BY <1>2, <1>3, <1>4, <3>1, <4>1
    <3>2. CASE e = c
      <4>1. d \in Img!Pushing /\ op[d].ref = r /\ op'[d] = op[d]  BY <1>2, <1>3, <1>5, <2>2, <3>2
      <4> QED  BY <1>4, <4>1
    <3>3. CASE d # c /\ e # c
      <4>1. d \in Img!Pushing /\ e \in Img!Pushing /\ op'[d] = op[d] /\ op'[e] = op[e]  BY <1>3, <1>5, <3>3
      <4> QED  BY <1>4, <2>2, <4>1 DEF ImageInv, PushesKnown
    <3> QED  BY <3>1, <3>2, <3>3
  <2> QED  BY <2>1, <2>2 DEF PushesKnown
<1>8. LayersPushed'  BY <1>1, <1>2, <1>3, <1>4, <1>5 DEF ImageInv, LayersPushed
<1>9. PutDone'  BY <1>1, <1>2, <1>3, <1>4, <1>5 DEF ImageInv, PutDone
<1>10. DigestRows'  BY <1>1 DEF ImageInv, DigestRows
<1>11. RowsTold' /\ TellingOK'
  BY <1>0, <1>1, <1>2, <1>3, <1>4, <1>5, ToldFrame DEF ImageInv
<1>12. Calm  BY <1>1 DEF Calm, Img!Body
<1>13. Img!LayersKept' /\ LayersSpared'  BY <1>1, <1>3, <1>4, <1>5, <1>12, KeptFrame, SparedFrame DEF ImageInv
<1> QED  BY <1>6, <1>7, <1>8, <1>9, <1>10, <1>11, <1>13 DEF ImageInv

LEMMA PutHolds ==
  ASSUME ImageConstants, ImageInv, NEW c \in Clients, Img!PutManifest(c)
  PROVE  ImageInv'
<1> DEFINE k == op[c].ref
           m == op[c].m
<1>0. ImageType /\ c \in Img!Pushing /\ k \in Img!Refs /\ m \in Manifests /\ op[c].pc = "put"
  <2>1. ImageType /\ c \in Img!Pushing /\ op[c].pc = "put"  BY DEF ImageInv, Img!PutManifest
  <2> QED  BY <2>1, Kinds
<1>1. /\ man' = man /\ comp' = comp /\ lay' = lay /\ loose' = loose /\ Img!Goto(c, "row") /\ obj' = [obj EXCEPT ![k] = m]
      /\ replaced' = replaced \cup {d \in Manifests \ {m} : man[d] # None /\ man[d].key = k}
  BY DEF Img!PutManifest
<1> HIDE DEF k, m
<1>2. /\ op' \in [Clients -> PushOps \cup RemoveOps \cup {None}] /\ Img!Pushing' = Img!Pushing /\ Img!Removing' = Img!Removing
      /\ op'[c].ref = k /\ op'[c].m = m /\ op'[c].pc = "row" /\ \A d \in Clients \ {c} : op'[d] = op[d]
  BY <1>0, <1>1, PushGoes DEF k, m
<1>3. /\ \A d \in Img!Pushing : d # c => op'[d] = op[d]
      /\ \A d \in Img!Removing : op'[d] = op[d]
  BY <1>0, <1>2 DEF Img!Pushing, Img!Removing
<1>4. Pushes  BY <1>2, <1>3 DEF Pushes, k, m
<1>5. ImageType'  BY <1>0, <1>1, <1>2, <1>3, <1>4 DEF ImageType, Pushes
<1>6. PushesKnown' /\ LayersPushed'  BY <1>1, <1>2, <1>4, PushesFrame DEF ImageInv
<1>7. PutDone'
  <2> SUFFICES ASSUME NEW d \in Img!Pushing, op'[d].pc # "put" PROVE obj'[op'[d].ref] \in {op'[d].m, None} \cup loose
    BY <1>1, <1>2 DEF PutDone
  <2>1. CASE d = c  BY <1>0, <1>1, <1>2, <2>1 DEF ImageType
  <2>2. CASE d # c
    <3>1. op'[d] = op[d] /\ op[d].ref \in Img!Refs  BY <1>0, <1>3, <2>2, Kinds
    <3>2. CASE op[d].ref = k
      <4>1. m \in loose  BY <1>0, <2>2, <3>2 DEF ImageInv, PushesKnown, k, m
      <4> QED  BY <1>0, <1>1, <3>1, <3>2, <4>1 DEF ImageType
    <3>3. CASE op[d].ref # k
      <4>1. obj'[op[d].ref] = obj[op[d].ref]  BY <1>0, <1>1, <3>1, <3>3 DEF ImageType
      <4> QED  BY <3>1, <4>1 DEF ImageInv, PutDone
    <3> QED  BY <3>2, <3>3
  <2> QED  BY <2>1, <2>2
<1>8. DigestRows'
  <2> SUFFICES ASSUME NEW d \in Manifests \ replaced', man[d] # None PROVE obj'[man[d].key] = d
    BY <1>1 DEF DigestRows
  <2>1. obj[man[d].key] = d /\ man[d].key \in Img!Refs
    BY <1>0, <1>1 DEF ImageInv, DigestRows, ImageType, ManifestRows, Img!Refs
  <2>2. man[d].key = k => d = m  BY <1>1
  <2> QED  BY <1>0, <1>1, <2>1, <2>2 DEF ImageType
<1>9. RowsTold' /\ TellingOK'
  <2>1. \A d \in Img!Pushing : op[d].pc \in {"type", "typeAlias"} => d \in Img!Pushing' /\ op'[d] = op[d]  BY <1>0, <1>2, <1>3
  <2>2. \A d \in Img!Pushing' : op'[d].pc \in {"type", "typeAlias"} => d \in Img!Pushing /\ op'[d] = op[d]  BY <1>2, <1>3
  <2> QED  BY <1>0, <1>1, <2>1, <2>2, ToldFrame DEF ImageInv
<1>10. Calm
  <2> SUFFICES ASSUME NEW r \in Img!Refs, man[r] # None
               PROVE  Img!Body(r)' \in loose \/ Img!Body(r)' = Img!Body(r) \/ (Img!Removing = {} /\ LayersOf[Img!Body(r)'] \subseteq lay)
    BY <1>1 DEF Calm
  <2>1. Img!Body(r)' = obj'[man[r].key] /\ Img!Body(r) = obj[man[r].key] /\ man[r].key \in Img!Refs
    BY <1>0, <1>1 DEF Img!Body, ImageType, ManifestRows
  <2>2. CASE man[r].key # k  BY <1>0, <1>1, <2>1, <2>2 DEF ImageType
  <2>3. CASE man[r].key = k
    <3>1. Img!Body(r)' = m  BY <1>0, <1>1, <2>1, <2>3 DEF ImageType
    <3>2. m \in loose \/ LayersOf[m] \subseteq lay  BY <1>0 DEF ImageInv, LayersPushed, m
    <3>3. Img!Removing # {} => m \in loose  BY <1>0 DEF ImageInv, PushesKnown, Img!InPush, m
    <3> QED  BY <3>1, <3>2, <3>3
  <2> QED  BY <2>2, <2>3
<1>11. Img!LayersKept' /\ LayersSpared'  BY <1>1, <1>2, <1>3, <1>10, KeptFrame, SparedFrame DEF ImageInv
<1> QED  BY <1>5, <1>6, <1>7, <1>8, <1>9, <1>11 DEF ImageInv

(* A call of a push fails; the component may have been emptied. *)
LEMMA PushFailsHolds ==
  ASSUME ImageConstants, ImageInv, NEW c \in Img!Pushing, NEW r \in Img!Refs, Img!End(c), op[c].pc \in {"put", "row", "alias"},
         man' = man, obj' = obj, lay' = lay, replaced' = replaced,
         (comp' = comp /\ loose' = loose) \/ (comp' = [comp EXCEPT ![r] = Img!Create(r)] /\ loose' = loose \cup Img!descriptorOf(r))
  PROVE  ImageInv'
<1>0. ImageType /\ c \in Clients  BY DEF ImageInv, Img!Pushing
<1>1. /\ comp' \in [Img!Refs -> Extras \cup {None}] /\ (\A q \in Img!Refs : comp[q] # None => comp'[q] # None) /\ loose \subseteq loose'
      /\ \A q \in Img!Refs : \/ comp'[q] = comp[q]
                             \/ (man'[q] = None \/ man'[q].sum \in loose') /\ (comp'[q] = None \/ comp'[q].subject = None)
  <2>1. CASE comp' = comp /\ loose' = loose  BY <1>0, <2>1 DEF ImageType
  <2>2. CASE comp' = [comp EXCEPT ![r] = Img!Create(r)] /\ loose' = loose \cup Img!descriptorOf(r)
    <3>1. Img!Create(r) \in Extras /\ Img!Create(r).subject = None /\ Img!Create(r) # None  BY DEF Img!Create, Extras, ImageConstants
    <3>2. man[r] = None \/ man[r].sum \in loose'  BY <2>2 DEF Img!descriptorOf
    <3> QED  BY <1>0, <2>2, <3>1, <3>2 DEF ImageType
  <2> QED  BY <2>1, <2>2
<1>2. /\ op' \in [Clients -> PushOps \cup RemoveOps \cup {None}] /\ Img!Pushing' = Img!Pushing \ {c} /\ Img!Removing' = Img!Removing \ {c}
      /\ op'[c] = None /\ \A d \in Clients \ {c} : op'[d] = op[d]
  BY <1>0, OpEnds
<1>3. /\ \A d \in Img!Pushing' : op'[d] = op[d]
      /\ Img!Removing' = Img!Removing /\ \A d \in Img!Removing : op'[d] = op[d]
  BY <1>0, <1>2 DEF Img!Pushing, Img!Removing
<1>4. Pushes  BY <1>2, <1>3 DEF Pushes
<1>5. ImageType'  BY <1>0, <1>1, <1>2, <1>3 DEF ImageType
<1>6. PushesKnown' /\ LayersPushed'  BY <1>1, <1>3, <1>4, PushesFrame DEF ImageInv
<1>7. PutDone'  BY <1>0, <1>1, <1>3, <1>4, PutFrame DEF ImageInv
<1>8. DigestRows'  BY DigestFrame DEF ImageInv
<1>9. RowsTold' /\ TellingOK'
  <2>1. \A d \in Img!Pushing : op[d].pc \in {"type", "typeAlias"} => d \in Img!Pushing' /\ op'[d] = op[d]  BY <1>2, <1>3
  <2>2. \A d \in Img!Pushing' : op'[d].pc \in {"type", "typeAlias"} => d \in Img!Pushing /\ op'[d] = op[d]  BY <1>2, <1>3
  <2> QED  BY <1>0, <1>1, <2>1, <2>2, ToldFrame DEF ImageInv
<1>10. Calm  BY DEF Calm, Img!Body
<1>11. Img!LayersKept' /\ LayersSpared'  BY <1>1, <1>3, <1>10, KeptFrame, SparedFrame DEF ImageInv
<1> QED  BY <1>5, <1>6, <1>7, <1>8, <1>9, <1>11 DEF ImageInv

(* Two pushes that work on one row carry one manifest, or are loose. *)
LEMMA OneRow ==
  ASSUME ImageConstants, ImageInv, NEW c \in Img!Pushing, NEW d \in Img!Pushing, c # d, NEW r \in Img!Refs,
         op[c].ref = r \/ op[c].m = r, op[d].ref = r \/ op[d].m = r
  PROVE  op[c].m = op[d].m \/ (op[c].m \in loose /\ op[d].m \in loose)
<1>1. op[c].m \in Manifests /\ op[d].m \in Manifests  BY Kinds DEF ImageInv
<1>2. CASE r \in Manifests  BY <1>2 DEF ImageInv, ImageType
<1>3. CASE r \notin Manifests  BY <1>1, <1>3 DEF ImageInv, PushesKnown
<1> QED  BY <1>2, <1>3

(* A row is written, and what its component says is emptied. *)
LEMMA RegisterHolds ==
  ASSUME ImageConstants, ImageInv, NEW c \in Img!Pushing, NEW r \in Img!Refs, NEW pc \in {"type", "typeAlias"},
         (op[c].pc = "row" /\ r = op[c].ref /\ pc = "type") \/ (op[c].pc = "alias" /\ r = op[c].m /\ pc = "typeAlias"),
         Img!RegisterStoredBlob(r, op[c].m, op[c].ref), Img!Goto(c, pc), obj' = obj, lay' = lay, loose' = loose
  PROVE  ImageInv'
<1> DEFINE k == op[c].ref
           m == op[c].m
<1>0. ImageType /\ k \in Img!Refs /\ m \in Manifests /\ (r \in Manifests => m = r) /\ op[c].pc \in {"row", "alias"}
  <2>1. ImageType  BY DEF ImageInv
  <2> QED  BY <2>1, Kinds DEF ImageType
<1>1. /\ man' = [man EXCEPT ![r] = [sum |-> m, key |-> k]] /\ comp' = [comp EXCEPT ![r] = [subject |-> None]]
      /\ replaced' = IF r \in Tags THEN replaced ELSE IF obj[k] = m THEN replaced \ {r} ELSE replaced \cup {r}
  BY DEF Img!RegisterStoredBlob, Img!Create
<1>2. /\ op' \in [Clients -> PushOps \cup RemoveOps \cup {None}] /\ Img!Pushing' = Img!Pushing /\ Img!Removing' = Img!Removing
      /\ op'[c].ref = k /\ op'[c].m = m /\ op'[c].pc = pc /\ \A d \in Clients \ {c} : op'[d] = op[d]
  BY <1>0, PushGoes
<1> HIDE DEF k, m
<1>3. /\ \A d \in Img!Pushing : d # c => op'[d] = op[d]
      /\ \A d \in Img!Removing : op'[d] = op[d]
  BY <1>2 DEF Img!Pushing, Img!Removing
<1>4. Pushes  BY <1>2, <1>3 DEF Pushes, k, m
<1>5. /\ man' \in [Img!Refs -> ManifestRows \cup {None}] /\ comp' \in [Img!Refs -> Extras \cup {None}]
      /\ man'[r] # None /\ comp'[r] # None /\ man'[r].sum = m /\ man'[r].key = k /\ comp'[r].subject = None
      /\ \A q \in Img!Refs \ {r} : man'[q] = man[q] /\ comp'[q] = comp[q]
  <2>1. [sum |-> m, key |-> k] \in ManifestRows /\ [subject |-> None] \in Extras  BY <1>0 DEF ManifestRows, Extras
  <2>2. [sum |-> m, key |-> k] # None /\ [subject |-> None] # None  BY <2>1 DEF ImageConstants
  <2> QED  BY <1>0, <1>1, <2>1, <2>2 DEF ImageType
<1>6. ImageType'
  <2>1. \A q \in Img!Refs : man'[q] # None => comp'[q] # None  BY <1>0, <1>5 DEF ImageType
  <2>2. \A d \in Manifests : man'[d] # None => man'[d].sum = d  BY <1>0, <1>5 DEF ImageType, Img!Refs
  <2>3. \A d \in Img!Pushing' : op'[d].ref \in Manifests => op'[d].m = op'[d].ref  BY <1>0, <1>4 DEF ImageType, Pushes
  <2>4. \A d \in Img!Removing' : op'[d].pc = "rows" /\ op'[d].compare => op'[d].todo # {}  BY <1>0, <1>2, <1>3 DEF ImageType
  <2> QED  BY <1>0, <1>2, <1>5, <2>1, <2>2, <2>3, <2>4 DEF ImageType
<1>7. PushesKnown' /\ LayersPushed'  BY <1>2, <1>4, PushesFrame DEF ImageInv
<1>8. PutDone'
  <2>1. \A d \in Img!Pushing' : op'[d].pc # "put" => op[d].pc # "put"  BY <1>0, <1>2, <1>3
  <2> QED  BY <1>0, <1>4, <2>1, PutFrame DEF ImageInv
<1>9. DigestRows'
  <2> SUFFICES ASSUME NEW d \in Manifests \ replaced', man'[d] # None PROVE obj[man'[d].key] = d
    BY DEF DigestRows
  <2>1. CASE d = r
    <3>1. r \notin Tags /\ m = r  BY <1>0, <2>1 DEF ImageConstants
    <3> QED  BY <1>1, <1>5, <2>1, <3>1
  <2>2. CASE d # r
    <3>1. d \notin replaced /\ man'[d] = man[d]  BY <1>1, <1>5, <2>2 DEF Img!Refs
    <3> QED  BY <3>1 DEF ImageInv, DigestRows
  <2> QED  BY <2>1, <2>2
<1>10. RowsTold'
  <2> SUFFICES ASSUME NEW q \in Img!Refs, man'[q] # None, man'[q].sum \notin loose, comp'[q].subject # SubjectOf[man'[q].sum]
               PROVE  \E d \in Img!Pushing : Telling(d, q)'
    BY <1>2 DEF RowsTold, Img!Rows
  <2>1. CASE q = r
    <3>1. Telling(c, r)'  BY <1>2 DEF Telling, k, m
    <3> QED  BY <2>1, <3>1
  <2>2. CASE q # r
    <3>1. man'[q] = man[q] /\ comp'[q] = comp[q]  BY <1>5, <2>2
    <3>2. PICK d \in Img!Pushing : Telling(d, q)  BY <3>1 DEF ImageInv, RowsTold, Img!Rows
    <3>3. d # c  BY <1>0, <3>2 DEF Telling
    <3> QED  BY <1>3, <3>2, <3>3 DEF Telling
  <2> QED  BY <2>1, <2>2
<1>11. TellingOK'
  <2> SUFFICES ASSUME NEW d \in Img!Pushing, NEW q \in Img!Refs, Telling(d, q)'
               PROVE  /\ man'[q] # None => man'[q].sum \in {op'[d].m} \cup loose
                      /\ comp'[q] # None => op'[d].m \in loose \/ comp'[q].subject \in {None, SubjectOf[op'[d].m]}
    BY <1>2 DEF TellingOK
  <2>1. CASE d = c
    <3>1. q = r  BY <1>2, <2>1 DEF Telling, k, m
    <3> QED  BY <1>2, <1>5, <2>1, <3>1
  <2>2. CASE d # c
    <3>1. op'[d] = op[d] /\ Telling(d, q)  BY <1>3, <2>2 DEF Telling
    <3>2. CASE q # r
      <4>1. man'[q] = man[q] /\ comp'[q] = comp[q]  BY <1>5, <3>2
      <4> QED  BY <3>1, <4>1 DEF ImageInv, TellingOK
    <3>3. CASE q = r
      <4>1. op[c].m = op[d].m \/ op[c].m \in loose  BY <2>2, <3>1, <3>3, OneRow DEF Telling
      <4> QED  BY <1>5, <3>1, <3>3, <4>1 DEF m
    <3> QED  BY <3>2, <3>3
  <2> QED  BY <2>1, <2>2
<1>12. Calm
  <2> SUFFICES ASSUME NEW q \in Img!Refs, man'[q] # None
               PROVE  \/ Img!Body(q)' \in {None} \cup loose \/ (man[q] # None /\ Img!Body(q)' = Img!Body(q))
                      \/ (Img!Removing = {} /\ LayersOf[Img!Body(q)'] \subseteq lay)
    BY DEF Calm
  <2>1. CASE q # r  BY <1>5, <2>1 DEF Img!Body
  <2>2. CASE q = r
    <3>1. Img!Body(q)' = obj[k]  BY <1>5, <2>2 DEF Img!Body
    <3>2. obj[k] \in {m, None} \cup loose  BY <1>0 DEF ImageInv, PutDone, k, m
    <3>3. m \in loose \/ LayersOf[m] \subseteq lay  BY DEF ImageInv, LayersPushed, m
    <3>4. Img!Removing # {} => m \in loose  BY DEF ImageInv, PushesKnown, Img!InPush, m
    <3> QED  BY <3>1, <3>2, <3>3, <3>4
  <2> QED  BY <2>1, <2>2
<1>13. Img!LayersKept' /\ LayersSpared'  BY <1>2, <1>3, <1>12, KeptFrame, SparedFrame DEF ImageInv
<1> QED  BY <1>6, <1>7, <1>8, <1>9, <1>10, <1>11, <1>13 DEF ImageInv

(* The component says what the manifest refers to, or the manifest is loose. *)
LEMMA TypedHolds ==
  ASSUME ImageConstants, ImageInv, NEW c \in Img!Pushing, NEW r \in Img!Refs, Telling(c, r), Img!Typed(c, r),
         op[c].pc = "typeAlias" => r = op[c].m, op[c].pc = "type" => r = op[c].ref,
         Img!End(c) \/ Img!Goto(c, "alias"), man' = man, obj' = obj, lay' = lay, replaced' = replaced
  PROVE  ImageInv'
<1> DEFINE m == op[c].m
<1>0. ImageType /\ m \in Manifests /\ c \in Clients /\ op[c].pc \in {"type", "typeAlias"}
  <2>1. ImageType /\ c \in Clients /\ op[c].pc \in {"type", "typeAlias"}  BY DEF ImageInv, Img!Pushing, Telling
  <2> QED  BY <2>1, Kinds
<1> HIDE DEF m
<1>1. /\ op' \in [Clients -> PushOps \cup RemoveOps \cup {None}] /\ Img!Removing' = Img!Removing /\ Img!Pushing' \subseteq Img!Pushing
      /\ \A d \in Img!Pushing \ {c} : d \in Img!Pushing' /\ op'[d] = op[d]
      /\ \A d \in Img!Removing : op'[d] = op[d]
      /\ c \in Img!Pushing' => op'[c].ref = op[c].ref /\ op'[c].m = m /\ op'[c].pc = "alias"
  <2>1. CASE Img!End(c)
    <3>1. /\ op' \in [Clients -> PushOps \cup RemoveOps \cup {None}] /\ Img!Pushing' = Img!Pushing \ {c} /\ Img!Removing' = Img!Removing \ {c}
          /\ \A d \in Clients \ {c} : op'[d] = op[d]
      BY <1>0, <2>1, OpEnds
    <3> QED  BY <3>1 DEF Img!Pushing, Img!Removing
  <2>2. CASE Img!Goto(c, "alias")
    <3>1. /\ op' \in [Clients -> PushOps \cup RemoveOps \cup {None}] /\ Img!Pushing' = Img!Pushing /\ Img!Removing' = Img!Removing
          /\ op'[c].ref = op[c].ref /\ op'[c].m = op[c].m /\ op'[c].pc = "alias" /\ \A d \in Clients \ {c} : op'[d] = op[d]
      BY <1>0, <2>2, PushGoes
    <3> QED  BY <3>1 DEF Img!Pushing, Img!Removing, m
  <2> QED  BY <2>1, <2>2
<1>2. Pushes  BY <1>1 DEF Pushes, m
<1>3. SubjectOf[m] \in Manifests \cup {None}  BY <1>0 DEF ImageConstants
<1>4. /\ comp' \in [Img!Refs -> Extras \cup {None}] /\ (\A q \in Img!Refs : comp[q] # None => comp'[q] # None) /\ loose \subseteq loose'
      /\ \A q \in Img!Refs \ {r} : comp'[q] = comp[q]
      /\ m \in loose' \/ comp[r] = None \/ comp'[r].subject = SubjectOf[m]
      /\ comp'[r] = comp[r] \/ comp'[r].subject = SubjectOf[m]
      /\ comp[r] = None => comp'[r] = None
  <2>1. CASE comp' = comp /\ loose' = loose \cup {m}  BY <1>0, <2>1 DEF ImageType
  <2>2. CASE comp[r] = None /\ comp' = comp /\ loose' = loose  BY <1>0, <2>2 DEF ImageType
  <2>3. CASE comp[r] # None /\ SubjectOf[m] = None /\ comp' = comp /\ loose' = loose
    <3>1. m \in loose \/ comp[r].subject = None  BY <2>3 DEF ImageInv, TellingOK, m
    <3> QED  BY <1>0, <2>3, <3>1 DEF ImageType
  <2>4. CASE comp[r] # None /\ comp' = [comp EXCEPT ![r].subject = SubjectOf[m]] /\ loose' = loose
    <3>1. PICK x : x = [comp[r] EXCEPT !.subject = SubjectOf[m]]  OBVIOUS
    <3>2. x \in Extras /\ x.subject = SubjectOf[m] /\ x # None
      <4>1. comp[r] \in Extras  BY <1>0, <2>4 DEF ImageType
      <4> QED  BY <1>3, <3>1, <4>1 DEF Extras, ImageConstants
    <3>3. comp' = [comp EXCEPT ![r] = x]  BY <2>4, <3>1
    <3> QED  BY <1>0, <2>4, <3>2, <3>3 DEF ImageType
  <2> QED  BY <2>1, <2>2, <2>3, <2>4 DEF Img!Typed, m
<1>5. ImageType'
  <2>1. \A d \in Img!Pushing' : op'[d].ref \in Manifests => op'[d].m = op'[d].ref  BY <1>0, <1>2 DEF ImageType, Pushes
  <2>2. \A d \in Img!Removing' : op'[d].pc = "rows" /\ op'[d].compare => op'[d].todo # {}  BY <1>0, <1>1 DEF ImageType
  <2> QED  BY <1>0, <1>1, <1>4, <2>1, <2>2 DEF ImageType
<1>6. PushesKnown' /\ LayersPushed'  BY <1>1, <1>2, <1>4, PushesFrame DEF ImageInv
<1>7. PutDone'
  <2>1. \A d \in Img!Pushing' : op'[d].pc # "put" => op[d].pc # "put"  BY <1>0, <1>1
  <2> QED  BY <1>0, <1>2, <1>4, <2>1, PutFrame DEF ImageInv
<1>8. DigestRows'  BY DigestFrame DEF ImageInv
<1>9. RowsTold'
  <2> SUFFICES ASSUME NEW q \in Img!Refs, man[q] # None, man[q].sum \notin loose', comp'[q].subject # SubjectOf[man[q].sum]
               PROVE  \E d \in Img!Pushing' : Telling(d, q)'
    BY DEF RowsTold, Img!Rows
  <2>1. CASE q = r
    <3>1. man[r].sum = m  BY <1>4, <2>1 DEF ImageInv, TellingOK, m
    <3>2. comp[r] # None  BY <1>0, <2>1 DEF ImageType
    <3> QED  BY <1>4, <2>1, <3>1, <3>2
  <2>2. CASE q # r
    <3>1. PICK d \in Img!Pushing : Telling(d, q)  BY <1>4, <2>2 DEF ImageInv, RowsTold, Img!Rows
    <3>2. d # c  BY <2>2, <3>1 DEF Telling
    <3> QED  BY <1>1, <3>1, <3>2 DEF Telling
  <2> QED  BY <2>1, <2>2
<1>10. TellingOK'
  <2> SUFFICES ASSUME NEW d \in Img!Pushing', NEW q \in Img!Refs, Telling(d, q)'
               PROVE  /\ man[q] # None => man[q].sum \in {op'[d].m} \cup loose'
                      /\ comp'[q] # None => op'[d].m \in loose' \/ comp'[q].subject \in {None, SubjectOf[op'[d].m]}
    BY DEF TellingOK
  <2>1. d # c  BY <1>1 DEF Telling
  <2>2. d \in Img!Pushing /\ op'[d] = op[d] /\ Telling(d, q)  BY <1>1, <2>1 DEF Telling
  <2>3. /\ man[q] # None => man[q].sum \in {op[d].m} \cup loose
        /\ comp[q] # None => op[d].m \in loose \/ comp[q].subject \in {None, SubjectOf[op[d].m]}
    BY <2>2 DEF ImageInv, TellingOK
  <2>4. CASE q # r  BY <1>4, <2>2, <2>3, <2>4
  <2>5. CASE q = r
    <3>1. m = op[d].m \/ op[d].m \in loose  BY <2>1, <2>2, <2>5, OneRow DEF Telling, m
    <3> QED  BY <1>4, <2>2, <2>3, <2>5, <3>1
  <2> QED  BY <2>4, <2>5
<1>11. Calm  BY DEF Calm, Img!Body
<1>12. Img!LayersKept' /\ LayersSpared'  BY <1>1, <1>4, <1>11, KeptFrame, SparedFrame DEF ImageInv
<1> QED  BY <1>5, <1>6, <1>7, <1>8, <1>9, <1>10, <1>12 DEF ImageInv

LEMMA PushGoesOn ==
  ASSUME ImageConstants, ImageInv, NEW c \in Clients,
         Img!PutFails(c) \/ Img!StoreManifest(c) \/ Img!StoreFails(c) \/ Img!UpdateExtra(c) \/ Img!RegisterAlias(c) \/ Img!UpdateAliasExtra(c)
  PROVE  ImageInv'
<1>0. /\ c \in Img!Pushing /\ op[c].ref \in Img!Refs /\ op[c].m \in Img!Refs
  <2>1. c \in Img!Pushing  BY DEF Img!PutFails, Img!StoreManifest, Img!StoreFails, Img!UpdateExtra, Img!RegisterAlias, Img!UpdateAliasExtra
  <2> QED  BY <2>1, Kinds DEF ImageInv, Img!Refs
<1>1. CASE Img!PutFails(c)
  <2>1. Img!End(c) /\ op[c].pc \in {"put", "row", "alias"} /\ UNCHANGED <<man, obj, lay, replaced, comp, loose>>
    BY <1>1 DEF Img!PutFails
  <2> QED  BY <1>0, <2>1, PushFailsHolds
<1>2. ASSUME NEW r \in Img!Refs, Img!RegistrationFails(c, r), op[c].pc \in {"row", "alias"}, obj' = obj, lay' = lay PROVE ImageInv'
  <2>1. /\ Img!End(c) /\ op[c].pc \in {"put", "row", "alias"} /\ man' = man /\ replaced' = replaced
        /\ (comp' = comp /\ loose' = loose) \/ (comp' = [comp EXCEPT ![r] = Img!Create(r)] /\ loose' = loose \cup Img!descriptorOf(r))
    BY <1>2 DEF Img!RegistrationFails
  <2> QED  BY <1>0, <1>2, <2>1, PushFailsHolds
<1>3. CASE Img!StoreFails(c)  BY <1>0, <1>2, <1>3 DEF Img!StoreFails
<1>4. CASE Img!StoreManifest(c)  BY <1>0, <1>4, RegisterHolds DEF Img!StoreManifest
<1>5. CASE Img!RegisterAlias(c)
  <2>1. CASE Img!RegisterStoredBlob(op[c].m, op[c].m, op[c].ref) /\ Img!Goto(c, "typeAlias") /\ UNCHANGED <<loose, faults>>
    BY <1>0, <1>5, <2>1, RegisterHolds DEF Img!RegisterAlias
  <2>2. CASE Img!RegistrationFails(c, op[c].m)  BY <1>0, <1>2, <1>5, <2>2 DEF Img!RegisterAlias
  <2> QED  BY <1>5, <2>1, <2>2 DEF Img!RegisterAlias
<1>6. CASE Img!UpdateExtra(c)
  <2>1. Telling(c, op[c].ref) /\ op[c].pc = "type" /\ Img!Typed(c, op[c].ref) /\ UNCHANGED <<man, obj, lay, replaced>>
    BY <1>6 DEF Img!UpdateExtra, Telling
  <2>2. Img!End(c) \/ Img!Goto(c, "alias")  BY <1>6 DEF Img!UpdateExtra
  <2> QED  BY <1>0, <2>1, <2>2, TypedHolds
<1>7. CASE Img!UpdateAliasExtra(c)
  <2>1. /\ Telling(c, op[c].m) /\ op[c].pc = "typeAlias" /\ Img!Typed(c, op[c].m) /\ Img!End(c) /\ UNCHANGED <<man, obj, lay, replaced>>
    BY <1>7 DEF Img!UpdateAliasExtra, Telling
  <2> QED  BY <1>0, <2>1, TypedHolds
<1> QED  BY <1>1, <1>3, <1>4, <1>5, <1>6, <1>7

LEMMA NextImage == ASSUME ImageConstants, ImageInv, [Img!Next]_Img!vars PROVE ImageInv'
<1>1. ASSUME NEW c \in Clients, NEW r \in Img!Refs, NEW m \in Manifests, Img!PushBegins(c, r, m) PROVE ImageInv'
  BY <1>1, PushBeginsHolds
<1>2. ASSUME NEW c \in Clients,
             Img!PutFails(c) \/ Img!StoreManifest(c) \/ Img!StoreFails(c) \/ Img!UpdateExtra(c) \/ Img!RegisterAlias(c) \/ Img!UpdateAliasExtra(c)
      PROVE  ImageInv'
  BY <1>2, PushGoesOn
<1>3. ASSUME NEW c \in Clients, Img!DeleteDockerImage(c) \/ Img!DeleteByPath(c) \/ \E r \in Img!Refs : Img!DeleteDockerTag(c, r) PROVE ImageInv'
  BY <1>3, RemovalBegins
<1>4. ASSUME NEW c \in Clients, Img!RemoveRow(c) \/ Img!NoRows(c) \/ Img!CompareLayers(c) PROVE ImageInv'
  BY <1>4, RemovalGoesOn
<1>5. CASE UNCHANGED Img!vars
  <2>1. /\ man' = man /\ comp' = comp /\ obj' = obj /\ lay' = lay /\ op' = op /\ replaced' = replaced /\ loose' = loose
    BY <1>5 DEF Img!vars
  <2>2. Img!Pushing' = Img!Pushing /\ Img!Removing' = Img!Removing  BY <2>1 DEF Img!Pushing, Img!Removing
  <2>3. ImageType' /\ DigestRows' /\ PutDone' /\ LayersPushed'
    BY <2>1, <2>2 DEF ImageInv, ImageType, DigestRows, PutDone, LayersPushed
  <2>4. PushesKnown'  BY <2>1, <2>2 DEF ImageInv, PushesKnown, Img!InPush
  <2>5. Img!LayersKept' /\ LayersSpared'  BY <2>1, <2>2 DEF ImageInv, Img!LayersKept, LayersSpared, Spared, Img!Rows, Img!Body
  <2>6. RowsTold' /\ TellingOK'  BY <2>1, <2>2 DEF ImageInv, RowsTold, TellingOK, Telling, Img!Rows
  <2> QED  BY <2>3, <2>4, <2>5, <2>6 DEF ImageInv
<1> QED  BY <1>1, <1>2, <1>3, <1>4, <1>5, PutHolds, RemovalEnds, SweepHolds, DeleteManifestHolds, DeleteComponentHolds, DeleteBlobHolds DEF Img!Next

LEMMA ImagesAsPromised == ASSUME ImageConstants, ImageInv PROVE Img!ImagesServe
<1>1. Img!PullsByDigest
  <2>1. Manifests \subseteq Img!Refs  BY DEF Img!Refs
  <2> QED  BY <2>1 DEF Img!PullsByDigest, ImageInv, DigestRows, Img!Body
<1>2. Img!LayersKept  BY DEF ImageInv
<1>3. Img!ReferrersExact
  <2> SUFFICES ASSUME NEW s \in Manifests
               PROVE  LET there == {m \in Manifests : SubjectOf[m] = s /\ \E r \in Img!Rows : man[r].sum = m}
                      IN /\ Img!handleReferrers(s) \ (loose \cup Img!InPush) = there \ (loose \cup Img!InPush)
                         /\ \A r \in Img!Refs : Img!subjectDigestOf(r) = s =>
                              \A m \in Img!handleReferrers(s) : \E q \in Img!referrersOf(r) : m \in Img!descriptorOf(q)
    BY DEF Img!ReferrersExact
  <2> DEFINE there == {m \in Manifests : SubjectOf[m] = s /\ \E r \in Img!Rows : man[r].sum = m}
  <2>0. ImageType /\ s # None  BY DEF ImageInv, ImageConstants
  <2>1. \A m : m \in Img!handleReferrers(s) <=> \E r \in Img!Refs : comp[r] # None /\ comp[r].subject = s /\ man[r] # None /\ m = man[r].sum
    BY DEF Img!handleReferrers, Img!ListOCIReferrers, Img!descriptorOf
  <2>2. ASSUME NEW r \in Img!Rows, man[r].sum \notin loose \cup Img!InPush PROVE comp[r] # None /\ comp[r].subject = SubjectOf[man[r].sum]
    <3>1. r \in Img!Refs /\ man[r] # None /\ comp[r] # None  BY <2>0 DEF Img!Rows, ImageType
    <3>2. ASSUME NEW c \in Img!Pushing, Telling(c, r) PROVE FALSE
      <4>1. man[r].sum \in {op[c].m} \cup loose  BY <3>1, <3>2 DEF ImageInv, TellingOK
      <4> QED  BY <2>2, <4>1 DEF Img!InPush
    <3> QED  BY <2>2, <3>1, <3>2 DEF ImageInv, RowsTold
  <2>3. \A r \in Img!Rows : r \in Img!Refs /\ man[r] # None /\ man[r].sum \in Manifests  BY <2>0 DEF Img!Rows, ImageType, ManifestRows
  <2>4. ASSUME NEW m, m \notin loose \cup Img!InPush PROVE m \in Img!handleReferrers(s) <=> m \in there
    <3>1. ASSUME m \in Img!handleReferrers(s) PROVE m \in there
      <4>1. PICK r \in Img!Refs : comp[r].subject = s /\ man[r] # None /\ m = man[r].sum  BY <2>1, <3>1
      <4>2. r \in Img!Rows  BY <4>1 DEF Img!Rows
      <4> QED  BY <2>2, <2>3, <2>4, <4>1, <4>2
    <3>2. ASSUME m \in there PROVE m \in Img!handleReferrers(s)
      <4>1. PICK r \in Img!Rows : man[r].sum = m /\ SubjectOf[m] = s  BY <3>2
      <4> QED  BY <2>1, <2>2, <2>3, <2>4, <4>1
    <3> QED  BY <3>1, <3>2
  <2>5. ASSUME NEW r \in Img!Refs, Img!subjectDigestOf(r) = s, NEW m \in Img!handleReferrers(s)
        PROVE  \E q \in Img!referrersOf(r) : m \in Img!descriptorOf(q)
    BY <2>0, <2>5 DEF Img!referrersOf, Img!handleReferrers
  <2> QED  BY <2>4, <2>5
<1> QED  BY <1>1, <1>2, <1>3 DEF Img!ImagesServe

(* What the registry promises of a repository of images, in whatever order and however
   overlapping they are pushed and removed: a pull by digest gets that manifest, a
   manifest that can be pulled has its layers, and the referrers listed are the manifests
   that are there and name the subject (formats/oci/handler.go pushManifest and
   handleReferrers, api/handlers/browse_docker.go).  Left out are the digests whose bytes a
   later push of the tag replaced, and the manifests whose push overlapped another of the
   reference or a removal, that lost a write, whose layers a client deleted by digest, or
   that a removal could not read or list. *)
THEOREM ImagesServed == ASSUME ImageConstants PROVE Img!Spec => []Img!ImagesServe
<1>1. Img!Init => ImageInv
  <2> SUFFICES ASSUME Img!Init PROVE ImageInv  OBVIOUS
  <2>1. Img!Pushing = {} /\ Img!Removing = {} /\ Img!Rows = {}  BY DEF Img!Init, Img!Pushing, Img!Removing, Img!Rows
  <2>2. ImageType  BY <2>1 DEF Img!Init, ImageType, Img!Refs
  <2>3. DigestRows /\ PushesKnown /\ PutDone /\ LayersPushed
    BY <2>1 DEF Img!Init, DigestRows, PushesKnown, PutDone, LayersPushed, Img!Refs
  <2>4. Img!LayersKept /\ LayersSpared /\ RowsTold /\ TellingOK
    BY <2>1 DEF Img!LayersKept, LayersSpared, RowsTold, TellingOK
  <2> QED  BY <2>2, <2>3, <2>4 DEF ImageInv
<1>2. ImageInv /\ [Img!Next]_Img!vars => ImageInv'  BY NextImage
<1>3. ImageInv => Img!ImagesServe  BY ImagesAsPromised
<1> QED  BY <1>1, <1>2, <1>3, PTL DEF Img!Spec
=============================================================================
