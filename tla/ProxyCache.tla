----------------------------- MODULE ProxyCache -----------------------------
(* The read-through cache of a proxy repository (formats/repoproxy/repoproxy.go):
   concurrent requests for one path, mutable metadata with a freshness window or
   an immutable artifact, against an upstream that changes, fails and cuts its
   answers short.

   Data: a version of the upstream document is a number, and so is a moment: the
   number of versions there have been.  A cached row carries the version its
   checksums describe and the moment of LastModified; the upstream answers 304
   when its document did not change after the moment it is asked about. *)
EXTENDS Naturals

CONSTANTS Readers,      \* client requests
          Mutable,      \* metadata (maxAge > 0) or an immutable artifact
          MaxVersion,   \* bound on the versions of the upstream document
          None

VARIABLES upstream,     \* the version the upstream has now
          row,          \* the asset row, or None
          blob,         \* the version whose bytes are at the blob key, Cut, or None
          get,          \* reader -> its request
          answer,       \* reader -> the version it was last given, Cut, or None
          broken,       \* history: the readers whose last answer broke off on its way
                        \* from the upstream, or was of a row and bytes of two fills
          overlap       \* history: a fill met a change of the upstream, another
                        \* fill or a loss of the blob

vars == <<upstream, row, blob, get, answer, broken, overlap>>

Versions == 1..MaxVersion
Cut == 0                \* the bytes of an answer that broke off
Idle == [pc |-> "idle", since |-> 0, says |-> 0, live |-> FALSE, got |-> 0]
Rows == [version : Versions, modified : Versions]

TypeOK ==
  /\ upstream \in Versions /\ row \in Rows \cup {None} /\ blob \in Versions \cup {None}
  /\ get \in [Readers -> [pc : {"idle", "ask", "touch", "open", "fill", "register", "refused", "drop"},
                          since : 0..MaxVersion, says : 0..MaxVersion, live : BOOLEAN, got : 0..MaxVersion]]
  /\ answer \in [Readers -> Versions \cup {Cut, None}] /\ broken \subseteq Readers /\ overlap \in BOOLEAN

Init ==
  /\ upstream = 1 /\ row = None /\ blob = None /\ broken = {} /\ overlap = FALSE
  /\ get = [r \in Readers |-> Idle] /\ answer = [r \in Readers |-> None]

At(r, pc) == get[r].pc = pc
Go(r, pc) == get' = [get EXCEPT ![r].pc = pc]
End(r) == get' = [get EXCEPT ![r] = Idle]
Filling(r) == get[r].pc \in {"touch", "fill", "register", "refused", "drop"}

\* A whole answer; one that breaks off; none.
Given(r, v) == answer' = [answer EXCEPT ![r] = v] /\ broken' = broken \ {r}
BrokenOff(r) == answer' = [answer EXCEPT ![r] = Cut] /\ broken' = broken \cup {r}
NotGiven == UNCHANGED <<answer, broken>>
(* serveCachedAsset sends the bytes under the length of the row it read: bytes of
   another fill may be longer. *)
Serve(r, v, says) == Given(r, v) \/ (v # says /\ BrokenOff(r))

(* The upstream's side.  The Docker Hub token exchange only decides whether the
   one retry is let in, so its outcome is an answer or a failure as any other. *)
Publish ==
  /\ upstream < MaxVersion /\ upstream' = upstream + 1
  /\ overlap' = (overlap \/ \E r \in Readers : Filling(r))
  /\ UNCHANGED <<row, blob, get>> /\ NotGiven

(* ServeGETRewritten.  A fresh copy, a HEAD probe and an immutable artifact are
   served as they are; a stale one is revalidated; a row whose bytes are gone is
   a miss. *)
ServeCached(r) ==
  /\ At(r, "idle") /\ row # None /\ blob # None
  /\ Serve(r, blob, row.version)
  /\ UNCHANGED <<upstream, row, blob, get, overlap>>
Stale(r) ==
  /\ At(r, "idle") /\ Mutable /\ row # None /\ blob # None
  /\ get' = [get EXCEPT ![r] = [pc |-> "ask", since |-> row.modified, says |-> row.version, live |-> TRUE, got |-> blob]]
  /\ UNCHANGED <<upstream, row, blob, overlap>> /\ NotGiven
Miss(r) ==
  /\ At(r, "idle") /\ (row = None \/ blob = None)
  /\ Go(r, "open")
  /\ UNCHANGED <<upstream, row, blob, overlap>> /\ NotGiven

(* revalidateAndServe.  The reader keeps the copy it has open: it is what a 304,
   an error or an unreachable upstream serves. *)
NotModified(r) ==
  /\ At(r, "ask") /\ upstream <= get[r].since
  /\ Go(r, "touch")
  /\ UNCHANGED <<upstream, row, blob, overlap>> /\ NotGiven
Touched(r) == row' = IF row # None /\ get[r].live THEN [row EXCEPT !.modified = upstream] ELSE row
TouchLastModified(r) ==
  /\ At(r, "touch") /\ Touched(r)
  /\ Serve(r, get[r].got, get[r].says) /\ End(r)
  /\ UNCHANGED <<upstream, blob, overlap>>
Modified(r) ==
  /\ At(r, "ask") /\ upstream > get[r].since
  /\ Go(r, "open")
  /\ UNCHANGED <<upstream, row, blob, overlap>> /\ NotGiven

\* Fault: the freshness of the copy is renewed although nothing was confirmed.
Fault_TouchOnError(r) ==
  /\ At(r, "ask") /\ Touched(r)
  /\ Serve(r, get[r].got, get[r].says) /\ End(r)
  /\ UNCHANGED <<upstream, blob, overlap>>

Unconfirmed(r) ==
  /\ At(r, "ask")
  /\ Serve(r, get[r].got, get[r].says) /\ End(r)
  /\ UNCHANGED <<upstream, row, blob, overlap>>

(* fetchAndCache and storeAndServeResponse.  An error, a refusal or an oversized
   document ends the request; an answer that would exceed a quota is passed on
   and not cached, whole or as far as it came. *)
FetchFails(r) ==
  /\ At(r, "open") /\ End(r)
  /\ UNCHANGED <<upstream, row, blob, overlap>> /\ NotGiven
PassOn(r) ==
  /\ At(r, "open") /\ End(r)
  /\ Given(r, upstream) \/ BrokenOff(r)
  /\ UNCHANGED <<upstream, row, blob, overlap>>
Fetch(r) ==
  /\ At(r, "open")
  /\ get' = [get EXCEPT ![r].pc = "fill", ![r].got = upstream]
  /\ overlap' = (overlap \/ \E q \in Readers \ {r} : Filling(q))
  /\ UNCHANGED <<upstream, row, blob>> /\ NotGiven

\* Fault: the pipe is closed without the error of an answer that broke off, and
\* what arrived of it is stored.
Fault_StoreCut(r) ==
  /\ At(r, "fill") /\ blob' \in {get[r].got, Cut} /\ Go(r, "register")
  /\ Given(r, get[r].got)
  /\ UNCHANGED <<upstream, row, overlap>>

\* The bytes are published whole; the quota is asked again when no length was
\* declared, and a refusal leads to dropUnreferencedBlob.
CacheWrite(r) ==
  /\ At(r, "fill") /\ blob' = get[r].got
  /\ get' \in {[get EXCEPT ![r].pc = "register"], [get EXCEPT ![r].pc = "refused"]}
  /\ Given(r, get[r].got)
  /\ UNCHANGED <<upstream, row, overlap>>
\* An upstream that breaks off fails the Put, which publishes nothing, and a Put
\* that fails closes the pipe.  The client has a 200 and what came until then; all of
\* it if the Put failed at its end; nothing of a document that is rewritten.
CacheWriteFails(r) ==
  /\ At(r, "fill") /\ End(r)
  /\ Given(r, get[r].got) \/ BrokenOff(r) \/ NotGiven
  /\ UNCHANGED <<upstream, row, blob, overlap>>
\* The registration does not depend on the client any more; it may be refused.
RegisterStoredBlob(r) ==
  /\ At(r, "register") /\ End(r)
  /\ row' \in {row, [version |-> get[r].got, modified |-> upstream]}
  /\ overlap' = (overlap \/ row' = row)
  /\ UNCHANGED <<upstream, blob>> /\ NotGiven
DropCheck(r) ==
  /\ At(r, "refused")
  /\ IF row # None THEN End(r) /\ overlap' = TRUE ELSE Go(r, "drop") /\ overlap' = overlap
  /\ UNCHANGED <<upstream, row, blob>> /\ NotGiven
DropUnreferencedBlob(r) ==
  /\ At(r, "drop") /\ End(r) /\ blob' = None
  /\ UNCHANGED <<upstream, row, overlap>> /\ NotGiven

\* The row is deleted with its bytes, or the bytes are lost from the storage.
Evict == /\ row # None /\ row' = None /\ blob' = None
         /\ overlap' = (overlap \/ \E r \in Readers : Filling(r))
         /\ get' = [r \in Readers |-> [get[r] EXCEPT !.live = FALSE]]
         /\ UNCHANGED upstream /\ NotGiven
LoseBytes == /\ blob # None /\ blob' = None
             /\ overlap' = (overlap \/ \E r \in Readers : Filling(r))
             /\ UNCHANGED <<upstream, row, get>> /\ NotGiven

Next ==
  \/ Publish \/ Evict \/ LoseBytes
  \/ \E r \in Readers :
       \/ ServeCached(r) \/ Stale(r) \/ Miss(r)
       \/ NotModified(r) \/ TouchLastModified(r) \/ Modified(r) \/ Unconfirmed(r)
       \/ FetchFails(r) \/ PassOn(r) \/ Fetch(r)
       \/ CacheWrite(r) \/ CacheWriteFails(r) \/ RegisterStoredBlob(r)
       \/ DropCheck(r) \/ DropUnreferencedBlob(r)

Spec == Init /\ [][Next]_vars
----------------------------------------------------------------------------
(* Whatever breaks off, is refused or races, the cache holds whole versions of the
   document: a client may be cut off by the upstream, or read a row and bytes of two
   fills, but nothing cut is kept to be given to anybody later.  And unless a fill met
   a change, another fill or a loss, the row's checksums describe the bytes at its
   key, its LastModified is no later than the next change, so a conditional
   request finds every newer version, and "upstream confirms our copy is current":
   what a 304 serves is the version the upstream has. *)
CacheCoherent ==
  /\ blob # Cut /\ \A r \in Readers : answer[r] = Cut => r \in broken
  /\ (row # None /\ ~overlap) =>
       /\ blob \in {row.version, None} \/ \E r \in Readers : At(r, "register") \/ At(r, "refused")
       /\ row.modified = row.version
  /\ ~overlap => \A r \in Readers : At(r, "touch") => get[r].got = upstream

(* "Upstream confirms our copy is current" (repoproxy.go:530) without the exception
   for fills that met something, which the cache does not promise. *)
ConfirmedIsCurrent ==
  [][\A r \in Readers : NotModified(r) => get[r].got = upstream]_vars
=============================================================================
