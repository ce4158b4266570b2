----------------------------- MODULE Body_proofs -----------------------------
(***************************************************************************)
(* Proofs about Body, for any cap, any length of a body, any cut into      *)
(* frames and a usize of any width.  Which positions a view selects is     *)
(* proved in ByteRange_proofs; here, that it returns the bytes there.      *)
(***************************************************************************)
EXTENDS Body, ByteRange_proofs, SequenceTheorems

\* Until it answers, the handler has in its buffer what has arrived; what it
\* has refused as too large it has stopped to collect.
BodyInv ==
    /\ TypeOK
    /\ status # 413 => out = Bytes(0, sent)
    /\ CapIsKept
    /\ AnswerIsRight
    /\ ViewsReturnTheUpload
    /\ view # NoView => status = 201

\* The first bytes of a body are as many as they should be, and each stands
\* for itself.
LEMMA BytesAreBytes ==
    ASSUME NEW m \in Nat, NEW n \in Nat, m <= n
    PROVE  /\ Bytes(m, n) \in Seq(Nat)
           /\ Len(Bytes(m, n)) = n - m
           /\ \A i \in 1..(n - m) : Bytes(m, n)[i] = m + i
<1>1. n - m \in Nat
  OBVIOUS
<1>2. \A i \in 1..(n - m) : m + i \in Nat
  OBVIOUS
<1> QED
  BY <1>1, <1>2 DEF Bytes

\* The same for a body that begins at its beginning.
LEMMA FirstBytes ==
    ASSUME NEW n \in Nat
    PROVE  /\ Bytes(0, n) \in Seq(Nat)
           /\ Len(Bytes(0, n)) = n
           /\ \A i \in 1..n : Bytes(0, n)[i] = i
<1>1. 0 \in Nat /\ 0 <= n /\ n - 0 = n /\ \A i \in 1..n : 0 + i = i
  OBVIOUS
<1> QED
  BY <1>1, BytesAreBytes

\* Two stretches of the body that meet are one.
LEMMA BytesMeet ==
    ASSUME NEW m \in Nat, NEW n \in Nat
    PROVE  Bytes(0, m) \o Bytes(m, m + n) = Bytes(0, m + n)
<1> DEFINE left == Bytes(0, m)
           right == Bytes(m, m + n)
           all == Bytes(0, m + n)
<1>1. /\ left \in Seq(Nat) /\ Len(left) = m
      /\ \A i \in 1..m : left[i] = i
  BY FirstBytes
<1>2. /\ right \in Seq(Nat) /\ Len(right) = n
      /\ \A i \in 1..n : right[i] = m + i
  <2>1. m + n \in Nat /\ m <= m + n /\ (m + n) - m = n
    OBVIOUS
  <2> QED
    BY <2>1, BytesAreBytes
<1>3. /\ all \in Seq(Nat) /\ Len(all) = m + n
      /\ \A i \in 1..(m + n) : all[i] = i
  BY FirstBytes
<1> HIDE DEF left, right, all
<1>4. /\ left \o right \in Seq(Nat)
      /\ Len(left \o right) = m + n
      /\ \A i \in 1..(m + n) :
           (left \o right)[i] = IF i <= m THEN left[i] ELSE right[i - m]
  BY <1>1, <1>2, ConcatProperties
<1>5. \A i \in 1..(m + n) : (left \o right)[i] = i
  <2> SUFFICES ASSUME NEW i \in 1..(m + n) PROVE (left \o right)[i] = i
    OBVIOUS
  <2>1. CASE i <= m
    <3>1. i \in 1..m
      BY <2>1
    <3> QED
      BY <1>1, <1>4, <2>1, <3>1
  <2>2. CASE i > m
    <3>1. i - m \in 1..n /\ m + (i - m) = i
      BY <2>2
    <3> QED
      BY <1>2, <1>4, <2>2, <3>1
  <2>3. i <= m \/ i > m
    OBVIOUS
  <2> QED
    BY <2>1, <2>2, <2>3
<1>6. left \o right = all
  BY <1>3, <1>4, <1>5, SeqEqual
<1> QED
  BY <1>6 DEF left, right, all

\* The buffer's length is what has arrived.
LEMMA BufferLength ==
    ASSUME BodyInv, status # 413
    PROVE  /\ sent \in Nat /\ length \in Nat /\ sent <= length
           /\ Len(out) = sent /\ sent <= Max /\ (out = <<>> <=> sent = 0)
<1>1. sent \in Nat /\ length \in Nat /\ sent <= length
  BY DEF BodyInv, TypeOK
<1>2. out = Bytes(0, sent) /\ out \in Seq(Nat) /\ Len(out) = sent
  BY <1>1, FirstBytes DEF BodyInv, TypeOK
<1>3. out = <<>> <=> sent = 0
  BY <1>2, EmptySeq
<1> QED
  BY <1>1, <1>2, <1>3 DEF BodyInv, CapIsKept

\* The initial states satisfy the invariant.
LEMMA BodyInit == Init => BodyInv
<1> SUFFICES ASSUME Init PROVE BodyInv
  OBVIOUS
<1> USE BodyAssumption
<1>1. <<>> \in Seq(Nat) /\ Len(<<>>) = 0
  BY EmptySeq
<1>2. TypeOK
  BY <1>1 DEF Init, TypeOK, Status
<1>3. out = Bytes(0, sent)
  <2>1. Bytes(0, 0) \in Seq(Nat) /\ Len(Bytes(0, 0)) = 0
    BY FirstBytes
  <2>2. Bytes(0, 0) = <<>>
    BY <2>1, EmptySeq
  <2> QED
    BY <2>2 DEF Init
<1>4. CapIsKept
  BY <1>1 DEF Init, CapIsKept
<1>5. AnswerIsRight /\ view = NoView
  BY DEF Init, AnswerIsRight, TooLargeByHeader
<1> QED
  BY <1>2, <1>3, <1>4, <1>5 DEF BodyInv, ViewsReturnTheUpload

\* A frame.
LEMMA FrameStep ==
    ASSUME BodyInv, NEW n \in 1..MaxLength, DataFrame(n)
    PROVE  BodyInv'
<1>1. /\ status = 0 /\ n \in Nat /\ n > 0 /\ sent + n <= length
      /\ sent' = sent + n
      /\ UNCHANGED <<length, declared, view>> /\ view = NoView
  BY BodyAssumption DEF DataFrame, Answer, BodyInv, TypeOK
<1>2. /\ sent \in Nat /\ length \in Nat /\ Len(out) = sent /\ sent <= Max
      /\ out = Bytes(0, sent) /\ out \in Seq(Nat)
  BY <1>1, BufferLength DEF BodyInv, TypeOK
<1>3. Max \in Nat /\ UsizeMax \in Nat /\ Max <= UsizeMax /\ 2 * Max <= UsizeMax
      /\ Max > 0 /\ Max < UsizeMax
  BY BodyAssumption, RangeAssumption
<1>4. saturating_add(Len(out), n) > Max <=> sent + n > Max
  BY <1>1, <1>2, <1>3 DEF saturating_add
<1>5. CASE sent + n > Max
  <2>1. status' = 413 /\ out' = out
    BY <1>4, <1>5 DEF DataFrame, Answer
  <2>2. TypeOK'
    BY <1>1, <1>2, <2>1 DEF BodyInv, TypeOK, Status
  <2>3. CapIsKept' /\ AnswerIsRight'
    BY <1>1, <1>2, <1>3, <1>5, <2>1 DEF BodyInv, CapIsKept, AnswerIsRight
  <2> QED
    BY <1>1, <2>1, <2>2, <2>3 DEF BodyInv, ViewsReturnTheUpload
<1>6. CASE ~(sent + n > Max)
  <2>1. status' = 0 /\ out' = out \o Bytes(sent, sent + n)
    BY <1>4, <1>6 DEF DataFrame, Answer
  <2>2. out' = Bytes(0, sent')
    BY <1>1, <1>2, <2>1, BytesMeet
  <2>3. out' \in Seq(Nat) /\ Len(out') = sent + n
    BY <1>1, <1>2, <2>2, FirstBytes
  <2>4. TypeOK'
    BY <1>1, <1>2, <2>1, <2>3 DEF BodyInv, TypeOK, Status
  <2>5. CapIsKept' /\ AnswerIsRight'
    BY <1>2, <1>3, <1>6, <2>1, <2>3 DEF CapIsKept, AnswerIsRight
  <2> QED
    BY <1>1, <2>2, <2>4, <2>5 DEF BodyInv, ViewsReturnTheUpload
<1> QED
  BY <1>5, <1>6

\* The end of the body: everything has arrived.
LEMMA EndStep ==
    ASSUME BodyInv, EndOfBody
    PROVE  BodyInv'
<1>1. /\ status = 0 /\ sent = length /\ UNCHANGED <<length, declared, view, sent, out>>
      /\ status' = IF out = <<>> THEN 400 ELSE 201
      /\ view = NoView
  BY DEF EndOfBody, Answer, BodyInv
<1>2. /\ sent \in Nat /\ length \in Nat /\ Len(out) = sent /\ sent <= Max
      /\ out = Bytes(0, sent) /\ (out = <<>> <=> sent = 0)
  BY <1>1, BufferLength DEF BodyInv
<1>3. TypeOK'
  BY <1>1 DEF BodyInv, TypeOK, Status
<1>4. CapIsKept' /\ AnswerIsRight'
  BY <1>1, <1>2 DEF BodyInv, CapIsKept, AnswerIsRight, Bytes
<1> QED
  BY <1>1, <1>2, <1>3, <1>4 DEF BodyInv, Bytes, ViewsReturnTheUpload

\* An error of the body, or the timeout.
LEMMA FailStep ==
    ASSUME BodyInv, BodyFails \/ Timeout
    PROVE  BodyInv'
<1>1. /\ status = 0 /\ status' \in {400, 408}
      /\ UNCHANGED <<length, declared, view, sent, out>>
      /\ view = NoView
  BY DEF BodyFails, Timeout, Answer, BodyInv
<1>2. TypeOK'
  BY <1>1 DEF BodyInv, TypeOK, Status
<1>3. CapIsKept' /\ AnswerIsRight'
  BY <1>1 DEF BodyInv, CapIsKept, AnswerIsRight
<1>4. status' # 413 => out' = Bytes(0, sent')
  BY <1>1 DEF BodyInv, Bytes
<1> QED
  BY <1>1, <1>2, <1>3, <1>4 DEF BodyInv, ViewsReturnTheUpload

\* The position of a reply's bytes, whatever its status.
LEMMA ReplyBounds ==
    ASSUME NEW header \in Header, NEW len \in usize
    PROVE  LET reply == Reply(header, len) IN
             /\ reply.start \in 0..len /\ reply.end \in 0..len
             /\ reply.status \in {200, 206, 416}
             /\ reply.start < reply.end \/ reply.end = 0
             /\ reply.status = 416 => reply.end = 0
             /\ reply.status = 206 => reply.start < reply.end
<1>1. len \in Nat
  BY HeaderTypes
<1>2. CASE ~header.present
  <2>1. parse_byte_range(header, len) = Whole
    BY <1>2 DEF parse_byte_range
  <2> QED
    BY <1>1, <2>1, ReplyCases
<1>3. CASE header.present
  BY <1>1, <1>3, RangeCases, ReplyCases
<1> QED
  BY <1>2, <1>3, HeaderTypes

\* The slice of the plan that a reply sends holds the bytes at its positions,
\* counted from 0.
LEMMA SliceOfBytes ==
    ASSUME NEW n \in Nat, NEW start \in 0..n, NEW end \in 0..n,
           start < end \/ end = 0
    PROVE  LET bytes == SubSeq(Bytes(0, n), start + 1, end) IN
             /\ bytes \in Seq(Nat)
             /\ \A i \in 1..Len(bytes) : bytes[i] = start + i /\ start + i <= end
             /\ \A b \in 1..n : (start < b /\ b <= end) <=>
                                  b - start \in 1..Len(bytes)
<1> DEFINE bytes == SubSeq(Bytes(0, n), start + 1, end)
<1>1. \A i \in start + 1..end : i \in 1..n /\ Bytes(0, n)[i] = i /\ Bytes(0, n)[i] \in Nat
  <2>1. \A i \in start + 1..end : i \in 1..n /\ i \in Nat
    OBVIOUS
  <2>2. \A i \in 1..n : Bytes(0, n)[i] = i
    BY FirstBytes
  <2> QED
    BY <2>1, <2>2
<1>2. start \in Nat /\ end \in Nat /\ start + 1 \in Int /\ end \in Int
  OBVIOUS
<1>3. /\ bytes \in Seq(Nat)
      /\ Len(bytes) = IF start + 1 <= end THEN end - (start + 1) + 1 ELSE 0
      /\ \A i \in 1..(end - (start + 1) + 1) : bytes[i] = Bytes(0, n)[start + 1 + i - 1]
  BY <1>1, <1>2, SubSeqProperties
<1> HIDE DEF bytes
<1>4. Len(bytes) = IF start < end THEN end - start ELSE 0
  BY <1>2, <1>3
<1>5. ASSUME NEW i \in 1..Len(bytes) PROVE bytes[i] = start + i /\ start + i <= end
  <2>1. start < end /\ i \in 1..(end - start)
    BY <1>2, <1>4, <1>5
  <2>2. /\ i \in 1..(end - (start + 1) + 1) /\ start + 1 + i - 1 = start + i
        /\ start + i \in start + 1..end
    BY <1>2, <2>1
  <2> QED
    BY <1>1, <1>3, <2>2
<1>6. \A b \in 1..n : (start < b /\ b <= end) <=> b - start \in 1..Len(bytes)
  BY <1>2, <1>4
<1> QED
  BY <1>3, <1>5, <1>6 DEF bytes

\* A view returns what its header selects.
LEMMA ViewStep ==
    ASSUME BodyInv, NEW header \in Header, View(header)
    PROVE  BodyInv'
<1> DEFINE reply == Reply(header, Len(out))
           bytes == SubSeq(out, reply.start + 1, reply.end)
<1>1. /\ status = 201
      /\ view' = [header |-> header, status |-> reply.status, bytes |-> bytes]
      /\ UNCHANGED <<length, declared, sent, out, status>>
  BY DEF View
<1>2. /\ out = Bytes(0, length) /\ length \in Nat /\ Len(out) = length
      /\ length \in usize
  <2>1. /\ out = Bytes(0, length) /\ length \in Nat /\ length <= Max
    BY <1>1 DEF BodyInv, AnswerIsRight, TypeOK
  <2>2. Len(out) = length
    BY <2>1, FirstBytes
  <2>3. Max \in Nat /\ UsizeMax \in Nat /\ Max <= UsizeMax
    BY BodyAssumption, RangeAssumption
  <2> QED
    BY <2>1, <2>2, <2>3 DEF usize
<1>3. StatusIsRight(header, length) /\ SendsSelectedBytes(header, length)
  BY <1>2, StatusFollowsSelection, SelectedBytesAreSent
<1>4. /\ reply = Reply(header, length)
      /\ reply.start \in 0..length /\ reply.end \in 0..length
      /\ reply.status \in {200, 206, 416}
      /\ reply.start < reply.end \/ reply.end = 0
      /\ reply.status = 416 => reply.end = 0
      /\ reply.status = 206 => reply.start < reply.end
  BY <1>2, ReplyBounds
<1>5. /\ \A position \in 0..length - 1 :
          (reply.start <= position /\ position < reply.end)
            <=> \/ ~header.present
                \/ WellFormed(header) /\ Selects(header, position, length)
      /\ reply.status = 200 <=> ~header.present
  BY <1>3, <1>4 DEF StatusIsRight, SendsSelectedBytes
<1> HIDE DEF reply
<1>6. /\ bytes \in Seq(Nat)
      /\ \A i \in 1..Len(bytes) : bytes[i] = reply.start + i /\ reply.start + i <= reply.end
      /\ \A b \in 1..length : (reply.start < b /\ b <= reply.end) <=>
                                b - reply.start \in 1..Len(bytes)
  <2> DEFINE start == reply.start
             end == reply.end
             slice == SubSeq(Bytes(0, length), start + 1, end)
  <2>1. start \in 0..length /\ end \in 0..length /\ (start < end \/ end = 0)
    BY <1>4
  <2>2. bytes = slice
    BY <1>2
  <2> HIDE DEF start, end, bytes
  <2>3. /\ slice \in Seq(Nat)
        /\ \A i \in 1..Len(slice) : slice[i] = start + i /\ start + i <= end
        /\ \A b \in 1..length : (start < b /\ b <= end) <=>
                                  b - start \in 1..Len(slice)
    BY <1>2, <2>1, SliceOfBytes
  <2> QED
    BY <2>2, <2>3 DEF start, end
<1> HIDE DEF bytes
<1>7. \A b \in 1..length : b \in Selected(header) <=> reply.start < b /\ b <= reply.end
  <2> SUFFICES ASSUME NEW b \in 1..length
               PROVE  b \in Selected(header) <=> reply.start < b /\ b <= reply.end
    OBVIOUS
  <2>1. b - 1 \in 0..length - 1
    BY <1>2
  <2>2. (reply.start <= b - 1 /\ b - 1 < reply.end) <=> (reply.start < b /\ b <= reply.end)
    BY <1>2, <1>4
  <2> QED
    BY <1>5, <2>1, <2>2 DEF Selected
<1>8. {bytes[i] : i \in 1..Len(bytes)} = Selected(header)
  <2>1. ASSUME NEW i \in 1..Len(bytes) PROVE bytes[i] \in Selected(header)
    <3>1. /\ bytes[i] = reply.start + i /\ reply.start + i <= reply.end
          /\ i \in Nat /\ i > 0
      BY <1>6, LenProperties
    <3>2. bytes[i] \in 1..length /\ reply.start < bytes[i] /\ bytes[i] <= reply.end
      BY <1>2, <1>4, <3>1
    <3> QED
      BY <1>7, <3>2
  <2>2. ASSUME NEW b \in Selected(header)
        PROVE  \E i \in 1..Len(bytes) : bytes[i] = b
    <3>1. b \in 1..length
      BY DEF Selected
    <3>2. b - reply.start \in 1..Len(bytes)
      BY <1>6, <1>7, <3>1
    <3>3. bytes[b - reply.start] = b
      BY <1>4, <1>6, <3>1, <3>2
    <3> QED
      BY <3>2, <3>3
  <2> QED
    BY <2>1, <2>2
<1>9. \A i, j \in 1..Len(bytes) : i < j => bytes[i] < bytes[j]
  BY <1>4, <1>6, LenProperties
<1>10. reply.status = 416 <=> header.present /\ Selected(header) = {}
  <2>1. CASE reply.status = 416
    <3>1. reply.end = 0 /\ header.present
      BY <1>4, <1>5, <2>1, HeaderTypes, <1>2
    <3>2. Selected(header) \subseteq 1..length
      BY DEF Selected
    <3> QED
      BY <1>2, <1>4, <1>7, <2>1, <3>1, <3>2
  <2>2. CASE reply.status = 206
    <3>1. /\ reply.end \in 1..length /\ reply.start < reply.end
      BY <1>2, <1>4, <2>2
    <3>2. reply.end \in Selected(header)
      BY <1>7, <3>1
    <3> QED
      BY <2>2, <3>2
  <2>3. CASE reply.status = 200
    BY <1>5, <2>3
  <2> QED
    BY <1>4, <2>1, <2>2, <2>3
<1>11. view' \in Views
  BY <1>1, <1>4, <1>6 DEF Views
<1>12. TypeOK'
  BY <1>1, <1>11 DEF BodyInv, TypeOK
<1>13. ViewsReturnTheUpload'
  <2>1. Selected(header)' = Selected(header)
    BY <1>1 DEF Selected
  <2>2. /\ view'.header = header /\ view'.status = reply.status /\ view'.bytes = bytes
    BY <1>1
  <2> QED
    BY <1>5, <1>8, <1>9, <1>10, <2>1, <2>2 DEF ViewsReturnTheUpload
<1> QED
  BY <1>1, <1>12, <1>13 DEF BodyInv, CapIsKept, AnswerIsRight, Bytes

\* Every step preserves the invariant.
LEMMA BodyStep == BodyInv /\ [Next]_vars => BodyInv'
<1> SUFFICES ASSUME BodyInv, [Next]_vars PROVE BodyInv'
  OBVIOUS
<1>1. ASSUME UNCHANGED vars PROVE BodyInv'
  <2>1. UNCHANGED <<length, declared, sent, out, status, view>>
    BY <1>1 DEF vars
  <2>2. TypeOK' /\ CapIsKept' /\ AnswerIsRight'
    BY <2>1 DEF BodyInv, TypeOK, CapIsKept, AnswerIsRight, Bytes
  <2>3. Selected(view.header)' = Selected(view.header)
    BY <2>1 DEF Selected
  <2>4. ViewsReturnTheUpload'
    BY <2>1, <2>3 DEF BodyInv, ViewsReturnTheUpload
  <2> QED
    BY <2>1, <2>2, <2>4 DEF BodyInv, Bytes
<1> QED
  BY <1>1, FrameStep, EndStep, FailStep, ViewStep DEF Next

-----------------------------------------------------------------------------

\* The variables keep their types.
THEOREM BodyTypeCorrect == Spec => []TypeOK
<1>1. BodyInv => TypeOK
  BY DEF BodyInv
<1> QED
  BY <1>1, BodyInit, BodyStep, PTL DEF Spec

\* The buffer keeps the cap, however the frames are cut.
THEOREM Capped == Spec => []CapIsKept
<1>1. BodyInv => CapIsKept
  BY DEF BodyInv
<1> QED
  BY <1>1, BodyInit, BodyStep, PTL DEF Spec

\* An upload is accepted as a whole, and refused as too large only if it is.
THEOREM RightAnswers == Spec => []AnswerIsRight
<1>1. BodyInv => AnswerIsRight
  BY DEF BodyInv
<1> QED
  BY <1>1, BodyInit, BodyStep, PTL DEF Spec

\* A view of a plan returns the bytes of the upload that its header selects.
THEOREM RightViews == Spec => []ViewsReturnTheUpload
<1>1. BodyInv => ViewsReturnTheUpload
  BY DEF BodyInv
<1> QED
  BY <1>1, BodyInit, BodyStep, PTL DEF Spec
=============================================================================
