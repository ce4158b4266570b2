------------------------------ MODULE PureCalls ------------------------------
(***************************************************************************)
(* The pure functions of the program as a state machine, so that what they *)
(* return can be checked and proved like an invariant: a call of ByteRange *)
(* with any header and length, or the days of CivilDate, one after the     *)
(* other, counted up beside the calendar.                                  *)
(***************************************************************************)
EXTENDS ByteRange, CivilDate

CONSTANTS
    LastYear    \* bound: where the days end

VARIABLES call

Range == [header: Header, len: usize]

Init == call \in Range \/ call = [days |-> 0, date |-> Epoch]

NextDay ==
    /\ call \notin Range
    /\ Successor(call.date).year <= LastYear
    /\ call' = [days |-> call.days + 1, date |-> Successor(call.date)]

Next == NextDay \/ UNCHANGED call

Spec == Init /\ [][Next]_call

\* Every call sends exactly the bytes that a header the parser understands
\* selects.
SendsSelected == call \in Range => SendsSelectedBytes(call.header, call.len)

\* Every call answers with the right status and a slice within the plan.
StatusRight == call \in Range => StatusIsRight(call.header, call.len)

\* Every day has its date on the log: the arithmetic gets the leap days, the
\* centuries and the ends of months right.
DateRight == call \notin Range => civil_from_days(call.days) = call.date
=============================================================================
