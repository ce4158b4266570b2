--------------------------- MODULE ByteRange_proofs ---------------------------
(***************************************************************************)
(* Proofs about ByteRange, for a usize of any width and plans of any       *)
(* length.                                                                 *)
(***************************************************************************)
EXTENDS ByteRange, TLAPS

USE RangeAssumption

\* A suffix range is the last bytes of the plan.
LEMMA SuffixReply ==
    ASSUME NEW suffix \in Side, NEW len \in usize
    PROVE  LET range == parse_suffix(suffix, len) IN
             \/ range = Refused /\ (suffix \in usize /\ len > 0 => suffix = 0)
             \/ /\ suffix \in usize /\ suffix > 0 /\ len > 0
                /\ range.kind = "part"
                /\ range.start \in 0..len /\ range.end = len /\ range.start < len
                /\ \A position \in 0..len - 1 :
                     position >= range.start <=> position >= len - suffix
BY DEF parse_suffix, usize, Side, Empty, Garbage, Part, saturating_sub

\* An interval range is the bytes between its two ends, cut off at the end of
\* the plan.
LEMMA IntervalReply ==
    ASSUME NEW start \in Side, start # Empty, NEW last \in Side, NEW len \in usize
    PROVE  LET range == parse_interval(start, last, len) IN
             \/ /\ range = Refused
                /\ \A position \in 0..len - 1 :
                     \/ start = Garbage \/ last = Garbage
                     \/ position < start
                     \/ last # Empty /\ position > last
             \/ /\ start \in usize /\ last # Garbage
                /\ range.kind = "part" /\ range.start = start
                /\ range.end \in 0..len /\ start < range.end
                /\ \A position \in 0..len - 1 :
                     position < range.end <=> (last # Empty => position <= last)
BY DEF parse_interval, usize, Side, Empty, Garbage, Part, saturating_add, Least

\* What the reply is in each of the three cases.
LEMMA ReplyCases ==
    ASSUME NEW header, NEW len
    PROVE  LET range == parse_byte_range(header, len)
               reply == Reply(header, len)
           IN  /\ range = Whole =>
                     reply.status = 200 /\ reply.start = 0 /\ reply.end = len
               /\ range = Refused =>
                     reply.status = 416 /\ reply.start = 0 /\ reply.end = 0
               /\ range.kind = "part" =>
                     /\ reply.status = 206
                     /\ reply.start = range.start /\ reply.end = range.end
                     /\ reply.first = range.start /\ reply.last = range.end - 1
BY DEF Reply, Whole, Refused

\* The sides of a header are numbers, or one of the two marks that are none.
LEMMA HeaderTypes ==
    ASSUME NEW header \in Header, NEW len \in usize
    PROVE  /\ header.start \in Side /\ header.end \in Side
           /\ header.present \in BOOLEAN /\ header.prefix \in BOOLEAN
           /\ header.comma \in BOOLEAN /\ header.hyphen \in BOOLEAN
           /\ len \in Nat /\ usize \subseteq Nat /\ Side \subseteq Int
           /\ Empty \notin usize /\ Garbage \notin usize /\ Empty # Garbage
BY DEF Header, usize, Side, Empty, Garbage

\* A header that is well formed and selects some byte of the plan is answered
\* with a part of it, and any other that is there is refused.
LEMMA RangeCases ==
    ASSUME NEW header \in Header, NEW len \in usize, header.present
    PROVE  LET range == parse_byte_range(header, len) IN
             \/ /\ range = Refused
                /\ \A position \in 0..len - 1 :
                     ~(WellFormed(header) /\ Selects(header, position, len))
             \/ /\ range.kind = "part"
                /\ range.start \in 0..len /\ range.end \in 0..len
                /\ range.start < range.end
                /\ \A position \in 0..len - 1 :
                     (range.start <= position /\ position < range.end)
                       <=> WellFormed(header) /\ Selects(header, position, len)
<1> DEFINE range == parse_byte_range(header, len)
<1> USE HeaderTypes
<1>1. CASE ~header.prefix \/ header.comma \/ ~header.hyphen
  BY <1>1 DEF parse_byte_range, WellFormed
<1>2. CASE /\ header.prefix /\ ~header.comma /\ header.hyphen
           /\ header.start = Empty
  <2>1. range = parse_suffix(header.end, len)
    BY <1>2 DEF parse_byte_range
  <2>2. \A position \in 0..len - 1 :
          WellFormed(header) /\ Selects(header, position, len)
            <=> header.end \in usize /\ position >= len - header.end
    BY <1>2 DEF WellFormed, Selects, Side
  <2> QED
    BY <2>1, <2>2, SuffixReply
<1>3. CASE /\ header.prefix /\ ~header.comma /\ header.hyphen
           /\ header.start # Empty
  <2>1. range = parse_interval(header.start, header.end, len)
    BY <1>3 DEF parse_byte_range
  <2>2. \A position \in 0..len - 1 :
          WellFormed(header) /\ Selects(header, position, len)
            <=> /\ header.start \in usize /\ header.end # Garbage
                /\ position >= header.start
                /\ header.end # Empty => position <= header.end
    BY <1>3 DEF WellFormed, Selects, Side
  <2> QED
    BY <1>3, <2>1, <2>2, IntervalReply
<1> QED
  BY <1>1, <1>2, <1>3

\* A reply to any header sends exactly the bytes that the header selects, and
\* none if the parser does not understand it.
THEOREM SelectedBytesAreSent ==
    ASSUME NEW header \in Header, NEW len \in usize
    PROVE  SendsSelectedBytes(header, len)
<1> USE HeaderTypes
<1>1. CASE ~header.present
  <2>1. parse_byte_range(header, len) = Whole
    BY <1>1 DEF parse_byte_range
  <2> QED
    BY <1>1, <2>1, ReplyCases DEF SendsSelectedBytes
<1>2. CASE header.present
  BY <1>2, RangeCases, ReplyCases DEF SendsSelectedBytes
<1> QED
  BY <1>1, <1>2

\* A reply has the right status, and a part lies within the plan.
THEOREM StatusFollowsSelection ==
    ASSUME NEW header \in Header, NEW len \in usize
    PROVE  StatusIsRight(header, len)
<1> USE HeaderTypes
<1>1. CASE ~header.present
  <2>1. parse_byte_range(header, len) = Whole
    BY <1>1 DEF parse_byte_range
  <2> QED
    BY <1>1, <2>1, ReplyCases DEF StatusIsRight
<1>2. CASE header.present
  BY <1>2, RangeCases, ReplyCases DEF StatusIsRight
<1> QED
  BY <1>1, <1>2
=============================================================================
