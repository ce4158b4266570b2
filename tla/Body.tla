-------------------------------- MODULE Body --------------------------------
(***************************************************************************)
(* The bytes of one plan: handle_create and collect_body of src/server.rs  *)
(* take them from the frames of a request's body, and handle_payload later *)
(* answers views from what was stored, whole or in part.                   *)
(*                                                                         *)
(* The n-th byte of the body stands for itself: a body of length n is      *)
(* <<1, ..., n>>.  hyper delivers it in frames of any size; it checks a    *)
(* declared length against what arrives and ends the body with an error if *)
(* they differ.  Frames that carry no data (trailers) are skipped by       *)
(* collect_body and left out.  What else a handler may answer to an upload *)
(* is in PlanServer; when it is accepted here, its plan is stored.         *)
(***************************************************************************)
EXTENDS ByteRange, Sequences

CONSTANTS
    Max,        \* max_plan_bytes, cast to usize
    MaxLength,  \* bound: the longest body a client sends
    Chunked     \* no Content-Length, or one that is not a number

\* A positive i64 is at most half of usize::MAX, and so is the length of
\* anything in memory.
ASSUME BodyAssumption ==
    /\ Max \in Nat \ {0}
    /\ MaxLength \in Nat
    /\ 2 * Max <= UsizeMax
    /\ Chunked \notin Nat

VARIABLES
    length,     \* how long the client's body is
    declared,   \* its Content-Length
    sent,       \* how many bytes of it have arrived in frames
    out,        \* collect_body's buffer, then the stored plan
    status,     \* the answer to the upload, 0 before it
    view        \* the last view of the plan: its header and its answer

vars == <<length, declared, sent, out, status, view>>

Status == {0, 201, 400, 408, 413}

NoView == [header |-> "none", status |-> 0, bytes |-> <<>>]
Views == [header: Header, status: {200, 206, 416}, bytes: Seq(Nat)]

\* The types of the variables.
TypeOK ==
    /\ length \in Nat
    /\ declared \in {length, Chunked}
    /\ sent \in 0..length
    /\ out \in Seq(Nat)
    /\ status \in Status
    /\ view \in Views \cup {NoView}

-----------------------------------------------------------------------------
(* handle_create and collect_body.                                         *)

\* The body's bytes from position m + 1 to position n.
Bytes(m, n) == [i \in 1..(n - m) |-> m + i]

TooLargeByHeader(n) == n # Chunked /\ n > Max

\* The length in the header is refused before any frame is awaited.
Init ==
    /\ length \in 0..MaxLength
    /\ declared \in {length, Chunked}
    /\ sent = 0
    /\ out = <<>>
    /\ status = IF TooLargeByHeader(declared) THEN 413 ELSE 0
    /\ view = NoView

Answer(s) == status' = s /\ UNCHANGED <<length, declared, view>>

\* Faulty variant: only the frame is compared with the cap.
DataFrame_EachAlone(n) ==
    /\ status = 0
    /\ n \in 1..(length - sent)
    /\ sent' = sent + n
    /\ IF n > Max
       THEN Answer(413) /\ UNCHANGED out
       ELSE out' = out \o Bytes(sent, sent + n) /\ Answer(0)

\* The next frame has `n` bytes.
DataFrame(n) ==
    /\ status = 0
    /\ n \in 1..(length - sent)
    /\ sent' = sent + n
    /\ IF saturating_add(Len(out), n) > Max
       THEN Answer(413) /\ UNCHANGED out
       ELSE out' = out \o Bytes(sent, sent + n) /\ Answer(0)

EndOfBody ==
    /\ status = 0
    /\ sent = length
    /\ Answer(IF out = <<>> THEN 400 ELSE 201)
    /\ UNCHANGED <<sent, out>>

\* Faulty variant: an error ends the loop like the end of the body.
BodyFails_EndsLoop ==
    /\ status = 0
    /\ Answer(IF out = <<>> THEN 400 ELSE 201)
    /\ UNCHANGED <<sent, out>>

\* The connection breaks, or the body is shorter than declared.
BodyFails ==
    /\ status = 0
    /\ Answer(400)
    /\ UNCHANGED <<sent, out>>

Timeout ==
    /\ status = 0
    /\ Answer(408)
    /\ UNCHANGED <<sent, out>>

-----------------------------------------------------------------------------
(* handle_payload.                                                         *)

\* Faulty variant: the position of the last byte is taken for the end.
View_LastIsEnd(header) ==
    /\ status = 201 /\ view = NoView
    /\ LET reply == Reply(header, Len(out)) IN
         view' = [header |-> header, status |-> reply.status,
                  bytes |-> SubSeq(out, reply.start + 1, reply.last)]
    /\ UNCHANGED <<length, declared, sent, out, status>>

\* Bytes::slice(start..end) counts from 0 and leaves `end` out.  Views do not
\* affect each other, so one is enough.
View(header) ==
    /\ status = 201 /\ view = NoView
    /\ LET reply == Reply(header, Len(out)) IN
         view' = [header |-> header, status |-> reply.status,
                  bytes |-> SubSeq(out, reply.start + 1, reply.end)]
    /\ UNCHANGED <<length, declared, sent, out, status>>

-----------------------------------------------------------------------------

Next ==
    \/ \E n \in 1..MaxLength : DataFrame(n)
    \/ EndOfBody
    \/ BodyFails
    \/ Timeout
    \/ \E header \in Header : View(header)

Spec == Init /\ [][Next]_vars

-----------------------------------------------------------------------------

\* The buffer never grows beyond the cap, however the body is cut into
\* frames and whatever length was declared.  The sum with the next frame does
\* not saturate, in the code either: each is at most half of usize::MAX.
CapIsKept == Len(out) <= Max

\* An upload is accepted with all of its bytes or not at all, and refused as
\* too large only if it is.
AnswerIsRight ==
    /\ status = 201 => out = Bytes(0, length) /\ 0 < length /\ length <= Max
    /\ status = 413 => length > Max

\* The bytes of the upload that a header asks for: all of them if it is not
\* there, none if the parser does not understand it, and otherwise those at
\* the positions that it selects.
Selected(header) ==
    {b \in 1..length : \/ ~header.present
                       \/ WellFormed(header) /\ Selects(header, b - 1, length)}

\* A view returns the bytes of the upload that its header selects, each of
\* them once and in their order, and is refused only if there are none.
ViewsReturnTheUpload ==
    view # NoView =>
        LET bytes == view.bytes IN
        /\ {bytes[i] : i \in 1..Len(bytes)} = Selected(view.header)
        /\ \A i, j \in 1..Len(bytes) : i < j => bytes[i] < bytes[j]
        /\ view.status = 416 <=> view.header.present /\ Selected(view.header) = {}
        /\ view.status = 200 <=> ~view.header.present
=============================================================================
