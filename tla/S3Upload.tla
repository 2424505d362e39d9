------------------------------ MODULE S3Upload ------------------------------
(***************************************************************************)
(* What a sink of the data proxy's upload pipeline promises: it takes the *)
(* stream chunk by chunk until the caller signals the end, and then       *)
(* either stores exactly the bytes it was given as one object, or fails.  *)
(* Bytes are abstracted to their number.                                   *)
(***************************************************************************)
EXTENDS Naturals

VARIABLES
    received,  \* bytes passed in so far
    ended,     \* whether the caller has signalled the end of the stream
    object,    \* size of the stored object, once there is one
    status     \* "running", "done" or "failed"

vars == <<received, ended, object, status>>

Init ==
    /\ received = 0
    /\ ended = FALSE
    /\ object = 0
    /\ status = "running"

\* The caller passes more bytes, possibly with the end of the stream.
Write ==
    /\ status = "running" /\ ~ended
    /\ received' \in Nat /\ received' >= received
    /\ ended' \in BOOLEAN
    /\ UNCHANGED <<object, status>>

\* The stream is stored, whole, once it has ended.
Store ==
    /\ status = "running" /\ ended
    /\ object' = received
    /\ status' = "done"
    /\ UNCHANGED <<received, ended>>

\* The sink gives up; nothing is promised about the object.
Fail ==
    /\ status = "running"
    /\ status' = "failed"
    /\ UNCHANGED <<received, ended, object>>

Next == Write \/ Store \/ Fail

Spec == Init /\ [][Next]_vars

=============================================================================
