------------------------------ MODULE ByteRange ------------------------------
(***************************************************************************)
(* parse_byte_range of src/server.rs, and what handle_payload answers with *)
(* its result: which bytes of a plan a `Range` header selects.             *)
(*                                                                         *)
(* A header is what the string operations of the function find in it: is   *)
(* it there (a value that is not text counts as absent), has it the prefix *)
(* "bytes=", a comma, a hyphen, and what stands on the two sides of the    *)
(* first hyphen: nothing, a number that fits in a usize, or something else *)
(* (too large a number, or none).                                          *)
(***************************************************************************)
EXTENDS Integers

CONSTANTS
    UsizeMax    \* usize::MAX

ASSUME RangeAssumption == UsizeMax \in Nat

usize == 0..UsizeMax

\* What does not parse as a usize: nothing at all, or garbage.
Empty == -1
Garbage == -2

Side == usize \cup {Empty, Garbage}

Header == [present: BOOLEAN, prefix: BOOLEAN, comma: BOOLEAN, hyphen: BOOLEAN,
           start: Side, end: Side]

\* Faulty variant: the sum wraps.
saturating_add_Wraps(m, n) == (m + n) % (UsizeMax + 1)

saturating_add(m, n) == IF m + n > UsizeMax THEN UsizeMax ELSE m + n
saturating_sub(m, n) == IF m < n THEN 0 ELSE m - n
Least(m, n) == IF m < n THEN m ELSE n

\* Ok(None), Err(()), and Ok(Some((start, end))), `end` exclusive.
Whole == [kind |-> "whole", start |-> 0, end |-> 0]
Refused == [kind |-> "refused", start |-> 0, end |-> 0]
Part(start, end) == [kind |-> "part", start |-> start, end |-> end]

\* Faulty variant: an empty plan is not looked at.
parse_suffix_EmptyPlan(suffix, len) ==
    IF suffix \notin usize \/ suffix = 0 THEN Refused
    ELSE Part(saturating_sub(len, suffix), len)

\* "-n": the last n bytes.
parse_suffix(suffix, len) ==
    IF suffix \notin usize \/ suffix = 0 \/ len = 0 THEN Refused
    ELSE Part(saturating_sub(len, suffix), len)

\* "m-" and "m-n": from byte m to the end, or to byte n.
parse_interval(start, last, len) ==
    LET end == IF last = Empty THEN len
               ELSE Least(saturating_add(last, 1), len)
    IN  IF \/ start \notin usize \/ start >= len
           \/ last = Garbage
           \/ end <= start
        THEN Refused
        ELSE Part(start, end)

parse_byte_range(header, len) ==
    IF ~header.present THEN Whole
    ELSE IF ~header.prefix \/ header.comma \/ ~header.hyphen THEN Refused
    ELSE IF header.start = Empty THEN parse_suffix(header.end, len)
    ELSE parse_interval(header.start, header.end, len)

\* handle_payload for a plan of `len` bytes: the status, the bytes it sends
\* from `start` up to and without `end`, and the two positions it writes
\* into Content-Range.
Reply(header, len) ==
    LET range == parse_byte_range(header, len) IN
      CASE range.kind = "whole" ->
             [status |-> 200, start |-> 0, end |-> len, first |-> 0, last |-> 0]
        [] range.kind = "refused" ->
             [status |-> 416, start |-> 0, end |-> 0, first |-> 0, last |-> 0]
        [] range.kind = "part" ->
             [status |-> 206, start |-> range.start, end |-> range.end,
              first |-> range.start, last |-> range.end - 1]

-----------------------------------------------------------------------------
(* What a single byte range means, as in RFC 9110: positions count from 0, *)
(* and those that the plan does not have are dropped.  Which headers have  *)
(* a meaning at all is taken from the parser, which is stricter: it refuses *)
(* a unit other than bytes, which the RFC would ignore, several ranges, and *)
(* a number beyond usize, which the RFC would take for a position beyond   *)
(* the end.                                                                *)

WellFormed(header) ==
    /\ header.prefix /\ ~header.comma /\ header.hyphen
    /\ Garbage \notin {header.start, header.end}
    /\ ~(header.start = Empty /\ header.end = Empty)

Selects(header, position, len) ==
    IF header.start = Empty THEN position >= len - header.end
    ELSE /\ position >= header.start
         /\ header.end # Empty => position <= header.end

\* The bytes sent are those that the header selects, if it is one that the
\* parser understands, and none if it is not: each of them and no other,
\* whether the range lies inside the plan, runs past its end, or ends at the
\* largest number there is.
SendsSelectedBytes(header, len) ==
    LET reply == Reply(header, len) IN
      \A position \in 0..len - 1 :
          (reply.start <= position /\ position < reply.end)
            <=> \/ ~header.present
                \/ WellFormed(header) /\ Selects(header, position, len)

\* The status is 206 exactly if the header selects some byte, and then the
\* slice lies within the plan, so that Bytes::slice does not panic, and
\* Content-Range names its first and its last byte.  It is 416 also for a
\* header that the parser does not understand.
StatusIsRight(header, len) ==
    LET reply == Reply(header, len) IN
      /\ reply.status = 200 <=> ~header.present
      /\ reply.status = 206 =>
           /\ 0 <= reply.first /\ reply.first <= reply.last /\ reply.last < len
           /\ reply.start = reply.first /\ reply.end = reply.last + 1
      /\ reply.status = 416 =>
           \A position \in 0..len - 1 :
               ~(WellFormed(header) /\ Selects(header, position, len))
=============================================================================
