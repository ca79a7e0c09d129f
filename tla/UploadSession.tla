---------------------------- MODULE UploadSession ----------------------------
(* What a chunked upload promises its client (formats/oci/uploads.go): bytes
   whose receipt was acknowledged stay where they are, in order, until the
   session ends, and what becomes readable at the session's key is the whole
   content and nothing else.  The storage backends implement this
   (storage/local.go, storage/s3_append.go). *)
EXTENDS Naturals, Sequences, SequencesExt

CONSTANT NoSession      \* the content of a session that does not exist

VARIABLES content,      \* the bytes received, or NoSession
          visible,      \* what a reader of the key gets, or NoSession
          acked         \* the offset last reported to the client

svars == <<content, visible, acked>>

SInit == content = NoSession /\ visible = NoSession /\ acked = 0

Open == content = NoSession /\ content' = <<>> /\ visible' = <<>> /\ acked' = 0

\* More bytes arrive; a chunk cut short leaves a part of it, unacknowledged.
Receive ==
  /\ content # NoSession /\ content' # NoSession
  /\ IsPrefix(content, content') /\ content' # content
  /\ acked' \in {acked, Len(content')}
  /\ visible' \in {visible, content'}
Acknowledge ==
  /\ content # NoSession /\ acked' = Len(content)
  /\ UNCHANGED <<content, visible>>
\* A chunk that goes over the limit is taken back.
RollBack ==
  /\ content # NoSession /\ content' # NoSession
  /\ IsPrefix(content', content) /\ Len(content') >= acked
  /\ visible' \in {visible, content'} /\ acked' = acked
Publish ==
  /\ content # NoSession /\ visible' = content
  /\ UNCHANGED <<content, acked>>
\* The session is finished, or reclaimed after its client stayed away.
Close ==
  /\ content' \in {NoSession, visible} /\ visible' \in {NoSession, visible} /\ acked' = 0

SNext == Open \/ Receive \/ Acknowledge \/ RollBack \/ Publish \/ Close
SSpec == SInit /\ [][SNext]_svars
=============================================================================
