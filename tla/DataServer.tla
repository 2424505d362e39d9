------------------------------ MODULE DataServer ------------------------------
(***************************************************************************)
(* The HTTP data server of the data proxy                                  *)
(* (components/data_proxy/src/data_server/server.rs), following one       *)
(* request.  An upload (single_upload, multi_upload) is three futures     *)
(* joined with try_join!: handle_payload reads the client's body, cuts it *)
(* into chunks and sends them into a bounded async channel; the upload    *)
(* middleware forwards them into a second bounded channel; the storage    *)
(* backend consumes that one.  A download runs the same pipeline the      *)
(* other way round: a spawned backend task sends the object, a spawned    *)
(* middleware forwards it, and the response body streams it out.         *)
(* Bytes are abstracted to their number; a chunk is its size.             *)
(*                                                                         *)
(* The middleware (EmptyMiddlewareUpload/Download) and the storage        *)
(* backend are not part of the repository: they are modelled as the      *)
(* contract server.rs relies on (forward, or consume, until the sending   *)
(* side is dropped; the backend may fail at any point).                   *)
(***************************************************************************)
EXTENDS Naturals, Sequences

CONSTANTS
    ChunkSize,   \* UPLOAD_CHUNK_SIZE
    ItemSizes,   \* sizes of the items the client's payload stream yields
    MaxBytes,    \* bound on the bytes a client uploads
    ObjectSize,  \* size of the object a download reads
    Capacity     \* capacity of async_channel::bounded(10)

Uploads == {"single", "multi"}

VARIABLES
    mode,     \* "none" before the request, then "single", "multi" or "download"
    resp,     \* the handler's answer: "none" while it runs
    src,      \* first stage: handle_payload, or the download task
    buf,      \* handle_payload's BytesMut
    taken,    \* bytes the first stage has taken in
    payloadEnded, \* payload.next() has returned None
    ch1,      \* channel from the first stage to the middleware
    mw,       \* the middleware: "idle", "run", "send" or "done"
    held,     \* the chunk the middleware is forwarding
    ch2,      \* channel from the middleware to the last stage
    snk,      \* last stage: the storage backend, or the response stream
    stored    \* bytes the last stage has taken in

vars == <<mode, resp, src, buf, taken, payloadEnded, ch1, mw, held, ch2,
          snk, stored>>

Pipeline == <<src, buf, taken, payloadEnded, ch1, mw, held, ch2, snk, stored>>

Init ==
    /\ mode = "none" /\ resp = "none"
    /\ src = "idle" /\ buf = 0 /\ taken = 0 /\ payloadEnded = FALSE
    /\ ch1 = <<>> /\ mw = "idle" /\ held = 0 /\ ch2 = <<>>
    /\ snk = "idle" /\ stored = 0

\* The answer of each early return of the upload handlers: verify_sign_url
\* returning Err is unwrapped (a panic), an unverified URL is 401, a
\* missing or unparsable Content-Length is 400, a multipart upload without
\* upload_id returns Err (500 from actix).
Rejection == [verify_err |-> "panic", unverified |-> "unauthorized",
              no_header |-> "bad_request", bad_utf8 |-> "bad_request",
              bad_int |-> "bad_request", no_upload_id |-> "error"]

\* A request passing its checks starts the three stages.
Start(m) ==
    /\ mode' = m /\ resp' = IF m = "download" THEN "ok" ELSE "none"
    /\ src' = "read" /\ mw' = "run" /\ snk' = "run"
    /\ UNCHANGED <<buf, taken, payloadEnded, ch1, held, ch2, stored>>

Reject(m, check) ==
    /\ mode' = m /\ resp' = Rejection[check]
    /\ UNCHANGED Pipeline

single_upload(check) ==
    /\ mode = "none"
    /\ check \in {"verify_err", "unverified", "no_header", "bad_utf8",
                  "bad_int", "ok"}
    /\ IF check = "ok" THEN Start("single") ELSE Reject("single", check)

multi_upload(check) ==
    /\ mode = "none"
    /\ check \in {"verify_err", "unverified", "no_header", "bad_utf8",
                  "bad_int", "no_upload_id", "ok"}
    /\ IF check = "ok" THEN Start("multi") ELSE Reject("multi", check)

\* download returns the streaming response at once; the transfer happens
\* afterwards in two spawned tasks.
download(check) ==
    /\ mode = "none"
    /\ check \in {"verify_err", "unverified", "ok"}
    /\ IF check = "ok" THEN Start("download") ELSE Reject("download", check)

\* A stage has returned Err.
Failed == src = "err" \/ snk = "err"

\* try_join! stops polling its futures as soon as one of them returns Err;
\* the download's spawned tasks run on their own.
Polled ==
    IF mode = "download" THEN resp = "ok"
    ELSE mode \in Uploads /\ resp = "none" /\ ~Failed

(***************************************************************************)
(* handle_payload                                                          *)
(***************************************************************************)

\* payload.next() yields an item: it is appended to the buffer, and a
\* buffer longer than UPLOAD_CHUNK_SIZE is sent as a chunk.
PayloadItem(s) ==
    /\ Polled /\ mode \in Uploads /\ src = "read"
    /\ taken + s <= MaxBytes
    /\ taken' = taken + s
    /\ buf' = buf + s
    /\ src' = IF buf + s > ChunkSize THEN "send" ELSE "read"
    /\ UNCHANGED <<mode, resp, payloadEnded, ch1, mw, held, ch2, snk, stored>>

\* Mutant: the end of the stream returns without sending the buffer.
PayloadEndDroppingBuffer ==
    /\ Polled /\ mode \in Uploads /\ src = "read"
    /\ payloadEnded' = TRUE
    /\ src' = "done"
    /\ UNCHANGED <<mode, resp, buf, taken, ch1, mw, held, ch2, snk, stored>>

\* The stream ends: what is left in the buffer is sent as the last chunk.
PayloadEnd ==
    /\ Polled /\ mode \in Uploads /\ src = "read"
    /\ payloadEnded' = TRUE
    /\ src' = "last"
    /\ UNCHANGED <<mode, resp, buf, taken, ch1, mw, held, ch2, snk, stored>>

\* The stream yields Err (the client went away): item.unwrap() panics.
PayloadError ==
    /\ Polled /\ mode \in Uploads /\ src = "read"
    /\ resp' = "panic"
    /\ UNCHANGED <<mode, src, buf, taken, payloadEnded, ch1, mw, held, ch2,
                   snk, stored>>

\* sender.send(bytes_for_send).await: blocks while the channel is full.
PayloadSend ==
    /\ Polled /\ src \in {"send", "last"}
    /\ Len(ch1) < Capacity
    /\ ch1' = Append(ch1, buf)
    /\ buf' = 0
    /\ src' = IF src = "send" THEN "read" ELSE "done"
    /\ UNCHANGED <<mode, resp, taken, payloadEnded, mw, held, ch2, snk, stored>>

\* Mutant: the handler keeps a clone of payload_sender alive until
\* try_join! returns.
Ch1ClosedKeepingSender == FALSE

\* The first stage's sender is dropped when handle_payload (or the download
\* task) returns; only then does the middleware's receiver close.
Ch1Closed == src \in {"done", "err"}

(***************************************************************************)
(* The download task: storage_backend.download into payload_sender       *)
(***************************************************************************)

DownloadSend(s) ==
    /\ Polled /\ mode = "download" /\ src = "read"
    /\ taken + s <= ObjectSize /\ Len(ch1) < Capacity
    /\ ch1' = Append(ch1, s)
    /\ taken' = taken + s
    /\ UNCHANGED <<mode, resp, src, buf, payloadEnded, mw, held, ch2, snk,
                   stored>>

DownloadEnd ==
    /\ Polled /\ mode = "download" /\ src = "read" /\ taken = ObjectSize
    /\ src' = "done"
    /\ UNCHANGED <<mode, resp, buf, taken, payloadEnded, ch1, mw, held, ch2,
                   snk, stored>>

\* The backend fails; the spawned task's Err is dropped with its sender.
DownloadFail ==
    /\ Polled /\ mode = "download" /\ src = "read"
    /\ src' = "err"
    /\ UNCHANGED <<mode, resp, buf, taken, payloadEnded, ch1, mw, held, ch2,
                   snk, stored>>

(***************************************************************************)
(* The middleware's handle_stream: forward until its receiver closes      *)
(***************************************************************************)

MiddlewareRecv ==
    /\ Polled /\ mw = "run" /\ ch1 # <<>>
    /\ held' = Head(ch1)
    /\ ch1' = Tail(ch1)
    /\ mw' = "send"
    /\ UNCHANGED <<mode, resp, src, buf, taken, payloadEnded, ch2, snk, stored>>

MiddlewareSend ==
    /\ Polled /\ mw = "send" /\ Len(ch2) < Capacity
    /\ ch2' = Append(ch2, held)
    /\ mw' = "run"
    /\ UNCHANGED <<mode, resp, src, buf, taken, payloadEnded, ch1, held, snk,
                   stored>>

MiddlewareEnd ==
    /\ Polled /\ mw = "run" /\ ch1 = <<>> /\ Ch1Closed
    /\ mw' = "done"
    /\ UNCHANGED <<mode, resp, src, buf, taken, payloadEnded, ch1, held, ch2,
                   snk, stored>>

(***************************************************************************)
(* The last stage: upload_object / upload_multi_object, or the body stream *)
(***************************************************************************)

BackendRecv ==
    /\ Polled /\ mode \in Uploads /\ snk = "run" /\ ch2 # <<>>
    /\ stored' = stored + Head(ch2)
    /\ ch2' = Tail(ch2)
    /\ UNCHANGED <<mode, resp, src, buf, taken, payloadEnded, ch1, mw, held, snk>>

BackendEnd ==
    /\ Polled /\ mode \in Uploads /\ snk = "run" /\ ch2 = <<>> /\ mw = "done"
    /\ snk' = "done"
    /\ UNCHANGED <<mode, resp, src, buf, taken, payloadEnded, ch1, mw, held,
                   ch2, stored>>

BackendFail ==
    /\ Polled /\ mode \in Uploads /\ snk = "run"
    /\ snk' = "err"
    /\ UNCHANGED <<mode, resp, src, buf, taken, payloadEnded, ch1, mw, held,
                   ch2, stored>>

\* stream!: `while let Some(value) = object_handler_recv.next().await`
\* yields each chunk to the client, and ends when the receiver closes.
StreamYield ==
    /\ Polled /\ mode = "download" /\ snk = "run" /\ ch2 # <<>>
    /\ stored' = stored + Head(ch2)
    /\ ch2' = Tail(ch2)
    /\ UNCHANGED <<mode, resp, src, buf, taken, payloadEnded, ch1, mw, held, snk>>

StreamEnd ==
    /\ Polled /\ mode = "download" /\ snk = "run" /\ ch2 = <<>> /\ mw = "done"
    /\ snk' = "done"
    /\ UNCHANGED <<mode, resp, src, buf, taken, payloadEnded, ch1, mw, held,
                   ch2, stored>>

(***************************************************************************)
(* try_join!(payload_handler, middleware_handler, s3_handler)              *)
(***************************************************************************)

AllDone == src = "done" /\ mw = "done" /\ snk = "done"

TryJoin(m) ==
    /\ mode = m /\ resp = "none"
    /\ Failed \/ AllDone
    /\ resp' = IF Failed THEN "error" ELSE "ok"
    /\ UNCHANGED <<mode>> /\ UNCHANGED Pipeline

\* single_upload: Err of any future is 500, all Ok is 200.
JoinSingle == TryJoin("single")

\* multi_upload: the same, with the backend's ETag in the 200.
JoinMulti == TryJoin("multi")

Next ==
    \/ \E c \in DOMAIN Rejection \cup {"ok"} :
          single_upload(c) \/ multi_upload(c) \/ download(c)
    \/ \E s \in ItemSizes : PayloadItem(s) \/ DownloadSend(s)
    \/ PayloadEnd \/ PayloadError \/ PayloadSend
    \/ DownloadEnd \/ DownloadFail
    \/ MiddlewareRecv \/ MiddlewareSend \/ MiddlewareEnd
    \/ BackendRecv \/ BackendEnd \/ BackendFail
    \/ StreamYield \/ StreamEnd
    \/ JoinSingle \/ JoinMulti

\* try_join! polls all three futures and the spawned tasks run on the tokio
\* runtime, so each stage that can move eventually does.  The client is
\* assumed to send more, end or drop its stream eventually; a failure of
\* the backend is never forced.
Fairness ==
    /\ WF_vars(\E s \in ItemSizes : PayloadItem(s) \/ PayloadEnd \/ PayloadError)
    /\ WF_vars(PayloadSend)
    /\ WF_vars(\E s \in ItemSizes : DownloadSend(s) \/ DownloadEnd)
    /\ WF_vars(MiddlewareRecv) /\ WF_vars(MiddlewareSend) /\ WF_vars(MiddlewareEnd)
    /\ WF_vars(BackendRecv) /\ WF_vars(BackendEnd)
    /\ WF_vars(StreamYield) /\ WF_vars(StreamEnd)
    /\ WF_vars(JoinSingle) /\ WF_vars(JoinMulti)

Spec == Init /\ [][Next]_vars /\ Fairness

-----------------------------------------------------------------------------
(* Properties                                                              *)

\* An upload is an S3Upload: the bytes handle_payload has taken from the
\* client are what is written, the end of the client's stream is the end,
\* and a 200 from single_upload or multi_upload means the backend received
\* all of those bytes through both channels and the middleware.  Rejected
\* and failed uploads are the abstract Fail; a download stutters.
Upload == INSTANCE S3Upload
    WITH received <- IF mode \in Uploads THEN taken ELSE 0,
         ended <- mode \in Uploads /\ payloadEnded,
         object <- IF mode \in Uploads /\ resp = "ok" THEN stored ELSE 0,
         status <- CASE mode \in Uploads /\ resp = "ok" -> "done"
                     [] mode \in Uploads /\ resp # "none" -> "failed"
                     [] OTHER -> "running"

ImplementsS3Upload == Upload!Spec

\* Every request the handlers accept is answered, and a download's body
\* stream ends: the channels close as each stage drops its sender, so
\* neither the try_join! of an upload nor the response body of a download
\* waits for ever.
RequestCompletes ==
    mode # "none" ~>
        /\ resp # "none"
        /\ (mode = "download" /\ resp = "ok") => snk = "done"

=============================================================================
