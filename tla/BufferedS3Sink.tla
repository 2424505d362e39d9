---------------------------- MODULE BufferedS3Sink ----------------------------
(***************************************************************************)
(* BufferedS3Sink of the data proxy                                        *)
(* (components/data_proxy/src/s3_frontend/utils/buffered_s3_sink.rs): the *)
(* last stage of an upload pipeline. process_bytes buffers the stream and *)
(* stores it in S3 as one object, as a multipart upload whose parts pass  *)
(* the 5 MiB threshold, or, in single_part_upload mode, as one part of a  *)
(* multipart upload that the client drives. With a sender, the etag of    *)
(* every part is sent on a channel of capacity 2.                         *)
(* Data is abstracted to sizes, in units of the threshold's scale.        *)
(* process_bytes is split at its awaits: each step below runs up to the   *)
(* next S3 call or channel send.                                          *)
(***************************************************************************)
EXTENDS Naturals, Sequences, SequencesExt

CONSTANTS
    Threshold,       \* 5242880 bytes: a buffer above it is uploaded as a part
    ChunkSizes,      \* sizes of the chunks the pipeline passes in
    MaxChunks,       \* bound on the chunks with data
    GivenPart,       \* the part number a single_part_upload sink is given
    ChannelCapacity, \* async_channel::bounded(2)
    MaxS3Failures    \* bound on failing S3 calls

None == 0

VARIABLES
    single,     \* single_part_upload
    withSender, \* whether `sender` is Some
    buffer,     \* size of self.buffer
    uploadId,   \* whether self.upload_id is Some
    partNumber, \* self.part_number (None = 0)
    tags,       \* self.tags: Seq of part numbers
    cur,        \* len and finished of the process_bytes call in progress
    pc,         \* where that call is
    sending,    \* whether upload_part is at its etag send
    chan,       \* the etag channel: Seq of part numbers
    s3Parts,    \* S3: part number -> size, parts of the upload
    stored,     \* S3: the object, a Seq of part sizes, once stored
    sent,       \* total size the pipeline has passed in
    chunks,     \* chunks with data passed in
    finSent,    \* whether the pipeline has signalled the end
    status,     \* "running", "done" (returned Ok(true)) or "failed"
    failures    \* S3 calls that failed

vars == <<single, withSender, buffer, uploadId, partNumber, tags, cur, pc,
          sending, chan, s3Parts, stored, sent, chunks, finSent, status, failures>>

sinkVars == <<buffer, uploadId, partNumber, tags, cur, pc, sending>>

-----------------------------------------------------------------------------
(* The code                                                                *)

\* Where process_bytes goes after its threshold test: on `len == 0 &&
\* finished`, upload_part (single_part_upload), upload_single (no upload
\* id) or the last part; otherwise it returns Ok(false).
EndOfCall(len, fin) ==
    CASE ~(len = 0 /\ fin) -> "idle"
      [] single -> "part_final"
      [] ~uploadId -> "upload_single"
      [] OTHER -> "part_rest"

\* An S3 call of the sink fails and process_bytes returns the error.
S3Fails ==
    /\ failures < MaxS3Failures
    /\ failures' = failures + 1
    /\ status' = "failed"
    /\ pc' = "idle"

\* process_bytes: `self.sum += buf.len()`, `self.buffer.put(buf.split())`,
\* then the threshold test (not in single_part_upload mode).
ProcessBytes(n, fin) ==
    /\ buffer' = buffer + n
    /\ cur' = [len |-> n, fin |-> fin]
    /\ pc' = IF ~single /\ buffer + n > Threshold THEN "threshold" ELSE EndOfCall(n, fin)
    /\ UNCHANGED <<uploadId, partNumber, tags, sending>>

\* initialize_multipart: part_number is set before the S3 call.
InitializeMultipart ==
    /\ pc = "threshold" /\ ~uploadId
    /\ \/ /\ uploadId' = TRUE
          /\ partNumber' = 1
          /\ UNCHANGED <<failures, status, pc>>
       \/ /\ partNumber' = 1
          /\ S3Fails
          /\ UNCHANGED uploadId
    /\ UNCHANGED <<buffer, tags, cur, sending, chan, s3Parts, stored>>

\* Where upload_part returns to.
PartDone(from) ==
    CASE from = "threshold" -> "after_threshold"
      [] from = "part_rest" -> "finish"
      [] OTHER -> "return_true"

\* Mutant: the part number is not advanced after a part.
CompletePartSameNumber(next) ==
    /\ tags' = Append(tags, partNumber)
    /\ UNCHANGED partNumber
    /\ pc' = next

\* The end of upload_part: the tag is kept and the part number advanced.
CompletePart(next) ==
    /\ tags' = Append(tags, partNumber)
    /\ partNumber' = partNumber + 1
    /\ pc' = next

\* Mutant: the buffer is not split off before the part is uploaded.
UploadPartKeepingBuffer ==
    /\ \/ pc \in {"part_rest", "part_final"}
       \/ pc = "threshold" /\ uploadId
    /\ ~sending
    /\ uploadId /\ partNumber # None
    /\ buffer' = buffer
    /\ \/ /\ s3Parts' = (partNumber :> buffer) @@ s3Parts
          /\ IF withSender
             THEN /\ sending' = TRUE
                  /\ UNCHANGED <<tags, partNumber, pc>>
             ELSE /\ CompletePart(PartDone(pc))
                  /\ UNCHANGED sending
          /\ UNCHANGED <<failures, status>>
       \/ /\ S3Fails
          /\ UNCHANGED <<s3Parts, tags, partNumber, sending>>
    /\ UNCHANGED <<uploadId, cur, chan, stored>>

\* upload_part: the buffer is split off and put as part `part_number` of
\* the upload; then, with a sender, its etag is sent (see SendEtag).
UploadPart ==
    /\ \/ pc \in {"part_rest", "part_final"}
       \/ pc = "threshold" /\ uploadId
    /\ ~sending
    /\ uploadId /\ partNumber # None
    /\ buffer' = 0
    /\ \/ /\ s3Parts' = (partNumber :> buffer) @@ s3Parts
          /\ IF withSender
             THEN /\ sending' = TRUE
                  /\ UNCHANGED <<tags, partNumber, pc>>
             ELSE /\ CompletePart(PartDone(pc))
                  /\ UNCHANGED sending
          /\ UNCHANGED <<failures, status>>
       \/ /\ S3Fails
          /\ UNCHANGED <<s3Parts, tags, partNumber, sending>>
    /\ UNCHANGED <<uploadId, cur, chan, stored>>

\* Mutant: the etag is sent as on an unbounded channel.
SendEtagNoWait ==
    /\ sending
    /\ chan' = Append(chan, partNumber)
    /\ sending' = FALSE
    /\ CompletePart(PartDone(pc))
    /\ UNCHANGED <<buffer, uploadId, cur, s3Parts, stored, failures, status>>

\* `s.send(tag.etag).await`: blocks while the channel is full.
SendEtag ==
    /\ sending
    /\ Len(chan) < ChannelCapacity
    /\ chan' = Append(chan, partNumber)
    /\ sending' = FALSE
    /\ CompletePart(PartDone(pc))
    /\ UNCHANGED <<buffer, uploadId, cur, s3Parts, stored, failures, status>>

\* The `len == 0 && finished` test after a threshold upload.
CheckFinished ==
    /\ pc = "after_threshold"
    /\ pc' = EndOfCall(cur.len, cur.fin)
    /\ UNCHANGED <<buffer, uploadId, partNumber, tags, cur, sending, chan,
                   s3Parts, stored, failures, status>>

\* upload_single: the whole buffer is put as one object.
UploadSingle ==
    /\ pc = "upload_single"
    /\ buffer' = 0
    /\ \/ /\ stored' = <<buffer>>
          /\ pc' = "return_true"
          /\ UNCHANGED <<failures, status>>
       \/ /\ S3Fails
          /\ UNCHANGED stored
    /\ UNCHANGED <<uploadId, partNumber, tags, cur, sending, chan, s3Parts>>

\* finish_multipart: S3 assembles the parts listed in self.tags.
FinishMultipart ==
    /\ pc = "finish"
    /\ \/ /\ stored' = [i \in 1..Len(tags) |-> s3Parts[tags[i]]]
          /\ pc' = "return_true"
          /\ UNCHANGED <<failures, status>>
       \/ /\ S3Fails
          /\ UNCHANGED stored
    /\ UNCHANGED <<buffer, uploadId, partNumber, tags, cur, sending, chan, s3Parts>>

\* process_bytes returns Ok(true).
ReturnTrue ==
    /\ pc = "return_true"
    /\ status' = "done"
    /\ pc' = "idle"
    /\ UNCHANGED <<buffer, uploadId, partNumber, tags, cur, sending, chan,
                   s3Parts, stored, failures>>

-----------------------------------------------------------------------------
(* The environment                                                         *)

\* The pipeline calls process_bytes once the previous call has returned
\* Ok(false): chunks with data, then, once it has signalled the end, only
\* empty finished calls.
Call ==
    /\ status = "running" /\ pc = "idle"
    /\ \/ \E n \in ChunkSizes \ {0}, fin \in BOOLEAN :
             /\ ~finSent /\ chunks < MaxChunks
             /\ ProcessBytes(n, fin)
             /\ chunks' = chunks + 1
             /\ sent' = sent + n
             /\ finSent' = fin
       \/ /\ ProcessBytes(0, TRUE)
          /\ finSent' = TRUE
          /\ UNCHANGED <<chunks, sent>>
    /\ UNCHANGED <<single, withSender, chan, s3Parts, stored, status, failures>>

\* The owner of the receiver takes an etag off the channel.
ReceiveEtag ==
    /\ chan # <<>>
    /\ chan' = Tail(chan)
    /\ UNCHANGED <<single, withSender, sinkVars, s3Parts, stored, sent, chunks,
                   finSent, status, failures>>

-----------------------------------------------------------------------------
\* BufferedS3Sink::new: an empty buffer; a single_part_upload sink is given
\* the upload id and its part number, any other sink starts with neither.
Init ==
    /\ single \in BOOLEAN
    /\ withSender \in BOOLEAN
    /\ buffer = 0
    /\ uploadId = single
    /\ partNumber = IF single THEN GivenPart ELSE None
    /\ tags = <<>>
    /\ cur = [len |-> 0, fin |-> FALSE]
    /\ pc = "idle"
    /\ sending = FALSE
    /\ chan = <<>>
    /\ s3Parts = <<>>
    /\ stored = <<>>
    /\ sent = 0
    /\ chunks = 0
    /\ finSent = FALSE
    /\ status = "running"
    /\ failures = 0

SinkStep ==
    /\ status = "running"
    /\ \/ InitializeMultipart \/ UploadPart \/ SendEtag \/ CheckFinished
       \/ UploadSingle \/ FinishMultipart \/ ReturnTrue
    /\ UNCHANGED <<single, withSender, sent, chunks, finSent>>

Next == Call \/ SinkStep \/ ReceiveEtag

Spec == Init /\ [][Next]_vars

-----------------------------------------------------------------------------
(* Properties                                                              *)

Pcs == {"idle", "threshold", "after_threshold", "part_rest", "part_final",
        "upload_single", "finish", "return_true"}

TypeOK ==
    /\ single \in BOOLEAN /\ withSender \in BOOLEAN /\ sending \in BOOLEAN
    /\ buffer \in Nat /\ uploadId \in BOOLEAN /\ partNumber \in Nat
    /\ tags \in Seq(Nat \ {None}) /\ pc \in Pcs
    /\ chan \in Seq(Nat \ {None}) /\ Len(chan) <= ChannelCapacity
    /\ DOMAIN s3Parts \subseteq Nat \ {None}
    /\ status \in {"running", "done", "failed"}

\* Once process_bytes has returned Ok(true), the upload S3 holds has the
\* shape S3 accepts: in single_part_upload mode the one part the sink was
\* given; otherwise one object, or the parts 1..n of the multipart upload
\* in order, every part but the last of at least S3's minimum part size
\* (5 MiB, the threshold), whatever the chunking, the etag channel filling
\* up, and the order in which the receiver drains it.
UploadPartsWellFormed ==
    status = "done" =>
        IF single
        THEN DOMAIN s3Parts = {GivenPart}
        ELSE /\ stored # <<>>
             /\ tags = [i \in 1..Len(tags) |-> i]
             /\ \A i \in 1..Len(stored) - 1 : stored[i] >= Threshold

\* The size of what S3 holds for the upload: the part the sink was given
\* in single_part_upload mode, otherwise the stored object.
StoredSize ==
    IF single THEN (IF GivenPart \in DOMAIN s3Parts THEN s3Parts[GivenPart] ELSE 0)
    ELSE FoldLeft(+, 0, stored)

Upload == INSTANCE S3Upload
    WITH received <- sent, ended <- finSent,
         object <- IF status = "done" THEN StoredSize ELSE 0

\* The sink implements S3Upload: seen through the bytes passed in, the end
\* signal and what S3 holds once process_bytes has returned Ok(true), its
\* steps are those of a sink that takes the stream and stores it whole
\* after the end, or fails; every split of the stream into parts, every
\* etag send and every S3 call in between is a stuttering step.
ImplementsS3Upload == Upload!Spec

=============================================================================
