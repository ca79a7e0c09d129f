------------------------------ MODULE OCIUpload ------------------------------
(* Chunked blob uploads of the OCI registry (formats/oci/uploads.go and the
   upload handlers of formats/oci/handler.go) over the two backends' append
   extension: the local file that grows in place (storage/local.go) and the S3
   multipart upload with its side object of session state (storage/s3_append.go).
   One session; a request is a sequence of backend calls, each of which may be
   the last one before the request fails or its node dies.

   Data: bytes are tokens, a digest is the content it is the digest of, an ETag
   is the content of its part.  PartSize stands for s3MinPartSize, and one read
   window for one token. *)
EXTENDS Naturals, Sequences, SequencesExt, FiniteSetsExt

CONSTANTS Clients,      \* requests that may be under way together
          Chunks,       \* the bodies a PATCH may carry
          Digests,      \* the digests a PUT may claim, as contents
          PartSize,     \* the least size of a part that is not the last
          Limit,        \* MaxUploadBytes
          MaxUploads,   \* bound on multipart uploads
          MultiPart,    \* S3 (TRUE) or the local file system (FALSE)
          None

VARIABLES object,       \* the object at the session's key, or None
          meta,         \* the .append-meta side object, or None
          mpu,          \* multipart upload -> its parts and state, in S3
          acked,        \* the Range last reported to the client
          req,          \* client -> the request it has under way
          blobs,        \* digest -> the bytes registered under it, or None
          torn          \* history: digests whose PUT another request tore: it cut
                        \* back or ended the session after it was opened to be
                        \* verified, filled one that was opened empty or, in S3,
                        \* was at work before it was opened

vars == <<object, meta, mpu, acked, req, blobs, torn>>

Idle == [pc |-> "idle", round |-> 1, todo |-> <<>>, st |-> None, stored |-> 0, digest |-> None]
Staged(st) == FlattenSeq(st.parts) \o st.pending
Size == IF meta # None THEN Len(Staged(meta)) ELSE Len(object)
Known == meta # None \/ object # None

TypeOK ==
  /\ \A n \in DOMAIN mpu : mpu[n].state \in {"open", "completed", "aborted"}
  /\ Len(mpu) <= MaxUploads /\ acked \in 0..(Limit + 1)
  /\ meta # None => /\ Len(meta.pending) < PartSize + 1
                    /\ meta.upload \in DOMAIN mpu
  /\ DOMAIN req = Clients /\ DOMAIN blobs = Digests /\ torn \subseteq Digests

Init ==
  /\ object = None /\ meta = None /\ mpu = <<>> /\ acked = 0
  /\ req = [c \in Clients |-> Idle] /\ blobs = [d \in Digests |-> None]
  /\ torn = {}

At(c, pc) == req[c].pc = pc
Go(c, pc) == req' = [req EXCEPT ![c].pc = pc]
GoWith(c, pc, st) == req' = [req EXCEPT ![c].pc = pc, ![c].st = st]
End(c) == req' = [req EXCEPT ![c] = Idle]
\* The digests of the other PUTs under way that have not opened the session yet
\* (round 1), or have and are verifying or storing it (round 2).
Reading(c, round) == {req[d].digest : d \in {e \in Clients \ {c} :
  req[e].digest # None /\ req[e].round = round /\ req[e].pc \notin {"abort", "delete"}}}
Tear(ds) == torn' = torn \cup ds

----------------------------------------------------------------------------
(* POST: an empty object under a random key, which no other request has. *)
Create(c) ==
  /\ (\A d \in Clients : At(d, "idle")) /\ ~Known
  /\ object' = <<>>
  /\ UNCHANGED <<meta, mpu, acked, req, blobs, torn>>

(* PATCH.  An unknown session and one that is full are refused; the body is cut
   one byte after the limit. *)
Patch(c, chunk) ==
  /\ At(c, "idle") /\ Known /\ Size < Limit
  /\ req' = [req EXCEPT ![c] = [Idle EXCEPT
       !.pc = IF MultiPart THEN "load" ELSE "write", !.stored = Size,
       !.todo = SubSeq(chunk, 1, Min({Len(chunk), Limit - Size + 1}))]]
  /\ Tear(IF MultiPart THEN Reading(c, 1) ELSE {})
  /\ UNCHANGED <<object, meta, mpu, acked, blobs>>

\* Local: the file grows in place, and is cut back when it grew too long.
LocalAppend(c) ==
  LET grown == (IF object = None THEN <<>> ELSE object) \o req[c].todo IN
  /\ At(c, "write")
  /\ object' = grown
  /\ IF Len(grown) > Limit THEN Go(c, "cut") /\ acked' = acked
     ELSE End(c) /\ acked' = Len(grown)
  /\ UNCHANGED <<meta, mpu, blobs, torn>>
LocalAppendCut(c) ==
  /\ At(c, "write") /\ object # None /\ Len(req[c].todo) > 1
  /\ object' = Append(object, Head(req[c].todo)) /\ End(c)
  /\ UNCHANGED <<meta, mpu, acked, blobs, torn>>
LocalTruncate(c) ==
  /\ At(c, "cut") /\ object # None
  /\ object' = SubSeq(object, 1, Min({Len(object), req[c].stored})) /\ End(c) /\ Tear(Reading(c, 2))
  /\ UNCHANGED <<meta, mpu, acked, blobs>>

(* S3: the session state is loaded, or a multipart upload is started and seeded
   with what the key already holds. *)
LoadAppendState(c) ==
  /\ At(c, "load")
  /\ \/ meta # None /\ GoWith(c, "feed", meta) /\ mpu' = mpu
     \/ /\ meta = None /\ Len(mpu) < MaxUploads
        /\ mpu' = Append(mpu, [parts |-> <<>>, state |-> "open"])
        /\ GoWith(c, "seed", [upload |-> Len(mpu) + 1, parts |-> <<>>, pending |-> <<>>])
  /\ UNCHANGED <<object, meta, acked, blobs, torn>>

WritePart(st, data) == [mpu EXCEPT ![st.upload].parts =
  IF Len(st.parts) < Len(@) THEN [@ EXCEPT ![Len(st.parts) + 1] = data] ELSE Append(@, data)]
Flushed(st, data) == [st EXCEPT !.parts = Append(@, data), !.pending = <<>>]
Uploading(st) == mpu[st.upload].state = "open"

\* Fault: a new multipart upload starts empty although the key holds bytes.
Fault_NoSeed(c) ==
  /\ At(c, "seed") /\ Go(c, "feed") /\ mpu' = mpu
  /\ UNCHANGED <<object, meta, acked, blobs, torn>>

StartAppend(c) ==
  LET st == req[c].st IN
  /\ At(c, "seed")
  /\ \/ object \in {None, <<>>} /\ Go(c, "feed") /\ mpu' = mpu
     \/ /\ object # None /\ Len(object) >= PartSize /\ Uploading(st)
        /\ mpu' = WritePart(st, object) /\ GoWith(c, "feed", Flushed(st, object))
     \/ /\ object # None /\ Len(object) \in 1..(PartSize - 1)
        /\ GoWith(c, "feed", [st EXCEPT !.pending = object]) /\ mpu' = mpu
  /\ UNCHANGED <<object, meta, acked, blobs, torn>>

\* The body is read until a part is due or it ends; a part is saved at once.
AppendBlob(c) ==
  LET st == req[c].st
      n == Min({PartSize - Len(st.pending), Len(req[c].todo)})
      buf == st.pending \o SubSeq(req[c].todo, 1, n)
      rest == SubSeq(req[c].todo, n + 1, Len(req[c].todo)) IN
  /\ At(c, "feed")
  /\ IF Len(buf) >= PartSize
     THEN /\ Uploading(st) /\ mpu' = WritePart(st, buf)
          /\ req' = [req EXCEPT ![c].pc = "save", ![c].todo = rest, ![c].st = Flushed(st, buf)]
     ELSE /\ mpu' = mpu
          /\ req' = [req EXCEPT ![c].pc = "last", ![c].todo = rest, ![c].st = [st EXCEPT !.pending = buf]]
  /\ UNCHANGED <<object, meta, acked, blobs, torn>>
SaveAppendState(c) ==
  /\ At(c, "save") /\ meta' = req[c].st
  /\ Go(c, IF req[c].todo = <<>> THEN "last" ELSE "feed")
  /\ UNCHANGED <<object, mpu, acked, blobs, torn>>
AppendEnds(c) ==
  LET total == Len(Staged(req[c].st)) IN
  /\ At(c, "last") /\ meta' = req[c].st
  /\ IF total > Limit THEN Go(c, "truncate") /\ acked' = acked
     ELSE End(c) /\ acked' = total
  /\ UNCHANGED <<object, mpu, blobs, torn>>
\* Only the pending tail can be taken back.
TruncateBlob(c) ==
  LET up == Len(FlattenSeq(meta.parts)) IN
  /\ At(c, "truncate") /\ meta # None /\ End(c) /\ Tear(Reading(c, 2))
  /\ meta' = IF req[c].stored \in up..Len(Staged(meta))
             THEN [meta EXCEPT !.pending = SubSeq(@, 1, req[c].stored - up)] ELSE meta
  /\ UNCHANGED <<object, mpu, acked, blobs>>

----------------------------------------------------------------------------
(* PUT: publish, verify the digest, publish and read again, store, remove. *)
Put(c, d) ==
  /\ At(c, "idle") /\ Known
  /\ req' = [req EXCEPT ![c] = [Idle EXCEPT !.pc = "publish", !.digest = d]]
  /\ Tear(IF MultiPart /\ \E e \in Clients \ {c} : ~At(e, "idle") THEN {d} ELSE {})
  /\ UNCHANGED <<object, meta, mpu, acked, blobs>>

\* Nothing staged, a tail that becomes the last part, or a session without bytes.
FinalizeAppend(c) ==
  /\ At(c, "publish") /\ Known
  /\ \/ /\ meta = None /\ Go(c, "get") /\ UNCHANGED <<mpu, object>>
     \/ /\ meta # None /\ meta.pending # <<>> /\ Uploading(meta)
        /\ mpu' = WritePart(meta, meta.pending) /\ object' = object
        /\ GoWith(c, "complete", Flushed(meta, meta.pending))
     \/ /\ meta # None /\ meta.pending = <<>> /\ meta.parts # <<>>
        /\ GoWith(c, "complete", meta) /\ UNCHANGED <<mpu, object>>
     \/ /\ meta # None /\ Staged(meta) = <<>>
        /\ mpu' = [mpu EXCEPT ![meta.upload].state = IF @ = "open" THEN "aborted" ELSE @]
        /\ object' = <<>> /\ GoWith(c, "unmeta", meta)
  /\ UNCHANGED <<meta, acked, blobs, torn>>

\* S3 refuses a part list whose ETags are not those of the parts it has.
CompleteMultipartUpload(c) ==
  LET st == req[c].st IN
  /\ At(c, "complete") /\ Uploading(st)
  /\ IsPrefix(st.parts, mpu[st.upload].parts)
  /\ mpu' = [mpu EXCEPT ![st.upload].state = "completed"]
  /\ object' = FlattenSeq(st.parts) /\ Go(c, "unmeta")
  /\ UNCHANGED <<meta, acked, blobs, torn>>
DeleteAppendState(c) ==
  /\ At(c, "unmeta") /\ meta' = None /\ Go(c, "get")
  /\ UNCHANGED <<object, mpu, acked, blobs, torn>>

(* The session is opened, its size taken, and hashed as it streams past: S3 answers
   with the object as it was when asked, a local file with all that is appended
   before its end is reached.  (One unlinked meanwhile is unknown at the second
   read: Fail.)  A digest that does not match ends the request and keeps the
   session. *)
Verify(c) ==
  /\ At(c, "get") /\ req[c].round = 1 /\ object # None
  /\ req' = [req EXCEPT ![c].pc = "hash", ![c].round = 2, ![c].todo = object, ![c].stored = Len(object)]
  /\ UNCHANGED <<object, meta, mpu, acked, blobs, torn>>
digestMismatchStream(c) ==
  LET read == IF MultiPart THEN req[c].todo ELSE object IN
  /\ At(c, "hash") /\ read # None
  /\ IF read = req[c].digest THEN req' = [req EXCEPT ![c].pc = "publish", ![c].todo = <<>>] ELSE End(c)
  /\ Tear(IF req[c].stored = 0 THEN {req[c].digest} ELSE {})
  /\ UNCHANGED <<object, meta, mpu, acked, blobs>>

\* Fault: the length that was verified is not compared with the one stored.
Fault_SizeUnchecked(c) ==
  /\ At(c, "get") /\ req[c].round = 2 /\ object # None
  /\ blobs' = [blobs EXCEPT ![req[c].digest] = object] /\ Go(c, "abort")
  /\ UNCHANGED <<object, meta, mpu, acked, torn>>

\* A stored length other than the one declared deletes what was written; a
\* declared length of zero is not compared.
Store(c) ==
  LET same == req[c].stored = 0 \/ Len(object) = req[c].stored IN
  /\ At(c, "get") /\ req[c].round = 2 /\ object # None
  /\ blobs' = [blobs EXCEPT ![req[c].digest] = IF same THEN object ELSE None]
  /\ IF same THEN Go(c, "abort") ELSE End(c)
  /\ UNCHANGED <<object, meta, mpu, acked, torn>>

\* Delete aborts an unfinished append before it removes the object.
AbortAppend == /\ meta' = None
               /\ mpu' = IF meta = None THEN mpu
                         ELSE [mpu EXCEPT ![meta.upload].state = IF @ = "open" THEN "aborted" ELSE @]
RemoveAbort(c) ==
  /\ At(c, "abort") /\ Go(c, "delete") /\ AbortAppend
  /\ acked' = 0 /\ UNCHANGED <<object, blobs, torn>>
RemoveDelete(c) ==
  /\ At(c, "delete") /\ End(c) /\ AbortAppend
  /\ object' = None /\ acked' = 0 /\ Tear(Reading(c, 2)) /\ UNCHANGED blobs

----------------------------------------------------------------------------
\* The blob GC takes a session nobody has touched for its minimum age.
Collect ==
  /\ Known /\ \A c \in Clients : At(c, "idle")
  /\ AbortAppend /\ acked' = 0
  /\ object' \in {None, object}
  /\ UNCHANGED <<req, blobs, torn>>

\* A backend call fails, the body breaks off, or the node dies.
Fail(c) == ~At(c, "idle") /\ End(c) /\ UNCHANGED <<object, meta, mpu, acked, blobs, torn>>

Append_(c) == \/ LoadAppendState(c) \/ StartAppend(c) \/ AppendBlob(c)
              \/ SaveAppendState(c) \/ AppendEnds(c) \/ TruncateBlob(c)
              \/ LocalAppend(c) \/ LocalAppendCut(c) \/ LocalTruncate(c)
Finish(c) == \/ FinalizeAppend(c) \/ CompleteMultipartUpload(c) \/ DeleteAppendState(c)
             \/ Verify(c) \/ digestMismatchStream(c) \/ Store(c) \/ RemoveAbort(c) \/ RemoveDelete(c)
Next == \/ \E c \in Clients : \/ Create(c) \/ Append_(c) \/ Finish(c) \/ Fail(c)
                              \/ \E ch \in Chunks : Patch(c, ch)
                              \/ \E d \in Digests : Put(c, d)
        \/ Collect

Spec == Init /\ [][Next]_vars
----------------------------------------------------------------------------
(* "Nothing lands under a digest it doesn't hash to" (handler.go:872): the bytes
   registered under a digest are the bytes it is the digest of.  The session is
   read twice, to verify it and to store it, and what a PATCH adds after its size
   was taken is caught by the length alone; a length of zero is not compared.  Bytes
   replaced by as many others are not caught, so this leaves out the PUTs that
   another request tore (torn). *)
DigestHolds == \A d \in Digests : blobs[d] \in {None, d} \/ d = <<>> \/ d \in torn

(* The promise as the comment of finalizeUpload makes it: whatever other requests
   do to the session, no other bytes land under a digest that is not empty. *)
NothingElseLands == \A d \in Digests : blobs[d] \in {None, d} \/ d = <<>>

(* One request at a time, which is what the protocol asks of a client: both
   backends implement the session, whatever call fails. *)
Session == INSTANCE UploadSession WITH
  NoSession <- None, visible <- object,
  content <- IF meta # None THEN Staged(meta) ELSE object
SessionKept == Session!SSpec
=============================================================================
