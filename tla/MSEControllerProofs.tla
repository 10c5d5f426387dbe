------------------------ MODULE MSEControllerProofs ------------------------
(***************************************************************************)
(* What the SourceBuffer gets, for any number of segments and any capacity *)
(* of the browser.  The inductive invariant Ind numbers what is buffered   *)
(* and what is pending (OrderInv), says that an idle SourceBuffer leaves   *)
(* nothing pending unless it was refused (IdleInv) and that an ended       *)
(* stream is complete (EndInv).                                            *)
(***************************************************************************)
EXTENDS MSEController, SequenceTheorems, TLAPS

(* The next segments, in order: what was buffered, then what is pending.   *)
Ordered(first, second, n) ==
    /\ Len(first) + Len(second) = n
    /\ \A i \in 1..Len(first) : first[i] = i
    /\ \A i \in 1..Len(second) : second[i] = Len(first) + i

OrderInv == ~slipped => Ordered(buffered, pendingSegments, given)

(* There is no SourceBuffer before the source opens, and nothing in it.    *)
SourceInv ==
    /\ readyState \in {"none", "closed"} => sourceBuffer = "none" /\ ~openDue
    /\ sourceBuffer = "none" => buffered = <<>>
    /\ given = 0 => pendingSegments = <<>> /\ sourceBuffer = "none"

IdleInv == sourceBuffer = "idle" /\ ~full => pendingSegments = <<>>

EndInv ==
    /\ eosAsked => given = Segments
    /\ hasPendingEos => eosAsked
    /\ readyState = "ended" => eosAsked /\ ~hasPendingEos /\ sourceBuffer = "idle"

Ind ==
    /\ TypeOK
    /\ OrderInv
    /\ SourceInv
    /\ IdleInv
    /\ EndInv

LEMMA InitInd == Init => Ind
<1> SUFFICES ASSUME Init PROVE Ind
  OBVIOUS
<1> USE MSEAssumption DEF Init
<1>1. TypeOK
  <2>1. {eosAsked, openDue, hasPendingEos, full, slipped} \subseteq BOOLEAN
    BY Zenon
  <2> QED
    BY <2>1 DEF TypeOK
<1>2. OrderInv
  BY DEF OrderInv, Ordered
<1>3. SourceInv /\ IdleInv /\ EndInv
  BY DEF SourceInv, IdleInv, EndInv
<1> QED
  BY <1>1, <1>2, <1>3 DEF Ind

-----------------------------------------------------------------------------
(* What the helpers do to the state they touch.                            *)

(* The part of the state that an append changes, as the invariants see it. *)
Shape ==
    /\ sourceBuffer \in {"none", "idle", "updating"}
    /\ full \in BOOLEAN
    /\ {buffered, pendingSegments} \subseteq Seq(1..Segments)
    /\ held \in 0..Capacity

LEMMA Appending ==
    ASSUME Shape, NEW segment \in 1..Segments, NEW rest \in Seq(1..Segments),
           DoAppendToBuffer(segment, rest)
    PROVE  /\ Shape'
           /\ IdleInv'
           /\ sourceBuffer' # "none"
           /\ \/ /\ buffered' = Append(buffered, segment)
                 /\ pendingSegments' = rest
                 /\ sourceBuffer' = "updating"
              \/ /\ buffered' = buffered
                 /\ pendingSegments' = <<segment>> \o rest
                 /\ sourceBuffer' = "idle"
                 /\ full'
<1> USE MSEAssumption DEF Shape
<1>1. CASE held < Capacity
  <2>1. /\ buffered' = Append(buffered, segment)
        /\ held' = held + 1
        /\ sourceBuffer' = "updating"
        /\ pendingSegments' = rest
        /\ full' = FALSE
    BY <1>1 DEF DoAppendToBuffer
  <2>2. full' \in BOOLEAN
    BY <2>1, Zenon
  <2>3. buffered' \in Seq(1..Segments)
    BY <2>1
  <2>4. held' \in 0..Capacity
    BY <1>1, <2>1
  <2> QED
    BY <2>1, <2>2, <2>3, <2>4 DEF IdleInv
<1>2. CASE ~(held < Capacity)
  <2>1. /\ buffered' = buffered
        /\ held' = held
        /\ sourceBuffer' = "idle"
        /\ pendingSegments' = <<segment>> \o rest
        /\ full' = TRUE
    BY <1>2 DEF DoAppendToBuffer
  <2>2. full' \in BOOLEAN
    BY <2>1, Zenon
  <2>3. pendingSegments' \in Seq(1..Segments)
    BY <2>1
  <2> QED
    BY <2>1, <2>2, <2>3 DEF IdleInv
<1> QED
  BY <1>1, <1>2

LEMMA OrderedMove ==
    ASSUME NEW first \in Seq(1..Segments), NEW second \in Seq(1..Segments), NEW n \in Nat,
           second # <<>>, Ordered(first, second, n)
    PROVE  Ordered(Append(first, Head(second)), Tail(second), n)
<1>1. Head(second) = Len(first) + 1
  BY DEF Ordered
<1>2. Len(Append(first, Head(second))) = Len(first) + 1 /\ Len(Tail(second)) = Len(second) - 1
  OBVIOUS
<1>3. ASSUME NEW i \in 1..Len(Append(first, Head(second)))
      PROVE  Append(first, Head(second))[i] = i
  BY <1>1, <1>2 DEF Ordered
<1>4. ASSUME NEW i \in 1..Len(Tail(second)) PROVE Tail(second)[i] = Len(first) + 1 + i
  <2>1. Tail(second)[i] = second[i + 1] /\ i + 1 \in 1..Len(second)
    BY <1>2
  <2> QED
    BY <2>1 DEF Ordered
<1> QED
  BY <1>2, <1>3, <1>4 DEF Ordered

LEMMA OrderedAdd ==
    ASSUME NEW first \in Seq(1..Segments), NEW second \in Seq(1..Segments), NEW n \in Nat,
           Ordered(first, second, n)
    PROVE  Ordered(first, Append(second, n + 1), n + 1)
<1>1. Len(Append(second, n + 1)) = Len(second) + 1
  OBVIOUS
<1>2. ASSUME NEW i \in 1..(Len(second) + 1)
      PROVE  Append(second, n + 1)[i] = Len(first) + i
  BY DEF Ordered
<1> QED
  BY <1>1, <1>2 DEF Ordered

(* Taking the first of the pending segments keeps the order, whether it is *)
(* appended or refused.                                                    *)
LEMMA Taking ==
    ASSUME Shape, NEW n \in Nat, NEW segments \in Seq(1..Segments), segments # <<>>,
           DoAppendToBuffer(Head(segments), Tail(segments))
    PROVE  /\ Shape'
           /\ IdleInv'
           /\ sourceBuffer' # "none"
           /\ Ordered(buffered, segments, n) => Ordered(buffered', pendingSegments', n)
<1>1. Head(segments) \in 1..Segments /\ Tail(segments) \in Seq(1..Segments)
  BY HeadTailProperties
<1>2. <<Head(segments)>> \o Tail(segments) = segments
  <2>1. Len(<<Head(segments)>> \o Tail(segments)) = Len(segments)
    BY <1>1, HeadTailProperties
  <2>2. ASSUME NEW i \in 1..Len(segments)
        PROVE  (<<Head(segments)>> \o Tail(segments))[i] = segments[i]
    BY <1>1, HeadTailProperties
  <2>3. <<Head(segments)>> \o Tail(segments) \in Seq(1..Segments)
    BY <1>1
  <2> QED
    BY <2>1, <2>2, <2>3, SeqEqual
<1>3. buffered \in Seq(1..Segments)
  BY DEF Shape
<1> QED
  BY <1>1, <1>2, <1>3, Appending, OrderedMove

LEMMA NextInd == Ind /\ Next => Ind'
<1> SUFFICES ASSUME Ind, Next PROVE Ind'
  OBVIOUS
<1> USE MSEAssumption DEF Ind
<1>a. Shape
  BY DEF TypeOK, Shape
<1>b. given \in Nat /\ given \in 0..Segments
  BY DEF TypeOK
<1>1. ASSUME AttachMediaElement PROVE Ind'
  <2>1. /\ readyState = "none" /\ readyState' = "closed"
        /\ UNCHANGED <<given, eosAsked, openDue, sourceBuffer, buffered, held, pendingSegments,
                       hasPendingEos, full, slipped>>
    BY <1>1 DEF AttachMediaElement, page
  <2>2. TypeOK'
    BY <2>1 DEF TypeOK
  <2> QED
    BY <2>1, <2>2 DEF OrderInv, SourceInv, IdleInv, EndInv
<1>2. ASSUME AppendInitSegment PROVE Ind'
  <2>1. /\ given = 0 /\ given' = 1
        /\ buffered = <<>> /\ pendingSegments = <<>> /\ sourceBuffer = "none"
        /\ UNCHANGED <<eosAsked, readyState, openDue, hasPendingEos, slipped>>
    BY <1>2 DEF AppendInitSegment, SourceInv
  <2>0. 1 \in 1..Segments /\ pendingSegments \in Seq(1..Segments)
    BY <2>1 DEF TypeOK
  <2>2. CASE readyState = "open"
    <3>1. DoAppendToBuffer(1, pendingSegments)
      BY <1>2, <2>2 DEF AppendInitSegment
    <3>2. /\ Shape' /\ IdleInv' /\ sourceBuffer' # "none"
          /\ \/ buffered' = Append(buffered, 1) /\ pendingSegments' = pendingSegments
             \/ buffered' = buffered /\ pendingSegments' = <<1>> \o pendingSegments
      BY <1>a, <2>0, <3>1, Appending
    <3>3. Ordered(buffered', pendingSegments', 1)
      <4>1. CASE buffered' = Append(<<>>, 1) /\ pendingSegments' = <<>>
        BY <4>1 DEF Ordered
      <4>2. CASE buffered' = <<>> /\ pendingSegments' = <<1>> \o <<>>
        BY <4>2 DEF Ordered
      <4> QED
        BY <2>1, <3>2, <4>1, <4>2
    <3> QED
      BY <2>1, <2>2, <3>2, <3>3 DEF TypeOK, Shape, OrderInv, SourceInv, EndInv
  <2>3. CASE readyState # "open"
    <3>1. /\ pendingSegments' = Append(pendingSegments, 1)
          /\ UNCHANGED <<sourceBuffer, buffered, held, full>>
      BY <1>2, <2>3 DEF AppendInitSegment, Queue
    <3>2. Ordered(buffered', pendingSegments', 1)
      BY <2>1, <3>1 DEF Ordered
    <3> QED
      BY <2>1, <2>3, <3>1, <3>2 DEF TypeOK, OrderInv, SourceInv, IdleInv, EndInv
  <2> QED
    BY <2>2, <2>3
<1>3. ASSUME AppendMediaSegment PROVE Ind'
  <2> DEFINE segments == Append(pendingSegments, given + 1)
  <2>1. /\ given \in 1..(Segments - 1) /\ given' = given + 1
        /\ UNCHANGED <<eosAsked, readyState, openDue, hasPendingEos, slipped>>
    BY <1>3 DEF AppendMediaSegment
  <2>a. /\ pendingSegments \in Seq(1..Segments) /\ buffered \in Seq(1..Segments)
        /\ given + 1 \in 1..Segments
    BY <2>1 DEF TypeOK
  <2>2. /\ segments \in Seq(1..Segments) /\ segments # <<>>
        /\ pendingSegments \in Seq(1..Segments) /\ buffered \in Seq(1..Segments)
    <3> DEFINE numbers == 1..Segments
    <3>1. pendingSegments \in Seq(numbers) /\ given + 1 \in numbers
      BY <2>a
    <3> HIDE DEF numbers
    <3>2. segments \in Seq(numbers) /\ segments # <<>>
      BY <3>1, AppendProperties
    <3> QED
      BY <2>a, <3>2 DEF numbers
  <2>3. ~slipped => Ordered(buffered, segments, given + 1)
    BY <1>b, <2>2, OrderedAdd DEF OrderInv
  <2>4. readyState # "ended"
    BY <2>1 DEF EndInv
  <2>5. CASE sourceBuffer = "idle"
    <3>1. DoAppendToBuffer(Head(segments), Tail(segments))
      BY <1>3, <2>2, <2>5 DEF AppendMediaSegment, DoAppendSegments
    <3>2. /\ Shape' /\ IdleInv' /\ sourceBuffer' # "none"
          /\ ~slipped => Ordered(buffered', pendingSegments', given + 1)
      <4> HIDE DEF segments
      <4> QED
        BY <1>a, <1>b, <2>2, <2>3, <3>1, Taking
    <3> QED
      BY <2>1, <2>4, <2>5, <3>2 DEF TypeOK, Shape, OrderInv, SourceInv, EndInv
  <2>6. CASE sourceBuffer # "idle"
    <3>1. /\ pendingSegments' = segments
          /\ UNCHANGED <<sourceBuffer, buffered, held, full>>
      BY <1>3, <2>6 DEF AppendMediaSegment, Queue
    <3> QED
      <4> HIDE DEF segments
      <4> QED
        BY <2>1, <2>2, <2>3, <2>4, <2>6, <3>1
        DEF TypeOK, OrderInv, SourceInv, IdleInv, EndInv
  <2> QED
    BY <2>5, <2>6
<1>4. ASSUME EndOfStream PROVE Ind'
  <2>1. /\ given = Segments /\ ~eosAsked /\ eosAsked' = TRUE /\ readyState # "none"
        /\ UNCHANGED <<given, openDue, sourceBuffer, buffered, held, pendingSegments, full>>
    BY <1>4 DEF EndOfStream
  <2>2. readyState # "ended"
    BY <2>1 DEF EndInv
  <2>3. slipped' \in BOOLEAN /\ (~slipped' => ~slipped)
    BY <1>4, Zenon DEF EndOfStream, TypeOK
  <2>4. hasPendingEos' \in BOOLEAN
    BY <1>4, Zenon DEF EndOfStream, EndNow, TypeOK
  <2>5. \/ readyState' = readyState
        \/ readyState = "open" /\ readyState' = "ended" /\ ~hasPendingEos' /\ sourceBuffer = "idle"
    BY <1>4, <2>1 DEF EndOfStream, EndNow, TypeOK
  <2>6. eosAsked' \in BOOLEAN
    BY <2>1, Zenon
  <2>7. TypeOK'
    BY <2>1, <2>2, <2>3, <2>4, <2>5, <2>6 DEF TypeOK
  <2> QED
    BY <2>1, <2>2, <2>3, <2>5, <2>7 DEF OrderInv, SourceInv, IdleInv, EndInv
<1>5. ASSUME SourceOpens PROVE Ind'
  <2>1. openDue' \in BOOLEAN
    BY <1>5, Zenon DEF SourceOpens
  <2> QED
    BY <1>5, <2>1 DEF SourceOpens, page, TypeOK, OrderInv, SourceInv, IdleInv, EndInv
<1>6. ASSUME OnSourceOpen PROVE Ind'
  <2>1. /\ openDue /\ openDue' = FALSE
        /\ UNCHANGED <<given, eosAsked, hasPendingEos>>
    BY <1>6 DEF OnSourceOpen, page
  <2>2. openDue' \in BOOLEAN
    BY <2>1, Zenon
  <2>3. readyState \in {"open", "ended"}
    BY <2>1 DEF SourceInv, TypeOK
  <2>4. pendingSegments \in Seq(1..Segments) /\ buffered \in Seq(1..Segments)
    BY DEF TypeOK
  <2>5. CASE pendingSegments = <<>>
    <3>1. UNCHANGED <<pendingSegments, sourceBuffer, buffered, held, full, slipped, readyState>>
      BY <1>6, <2>5 DEF OnSourceOpen, Queue
    <3> QED
      BY <2>1, <2>2, <2>3, <3>1 DEF TypeOK, OrderInv, SourceInv, IdleInv, EndInv
  <2>6. CASE pendingSegments # <<>> /\ sourceBuffer = "none"
    <3>1. readyState = "open" /\ given # 0
      BY <2>1, <2>3, <2>6 DEF EndInv, SourceInv
    <3>2. /\ DoAppendToBuffer(Head(pendingSegments), Tail(pendingSegments))
          /\ UNCHANGED <<readyState, slipped>>
      BY <1>6, <2>6, <3>1 DEF OnSourceOpen
    <3>3. /\ Shape' /\ IdleInv' /\ sourceBuffer' # "none"
          /\ ~slipped => Ordered(buffered', pendingSegments', given)
      BY <1>a, <1>b, <2>4, <2>6, <3>2, Taking DEF OrderInv
    <3> QED
      BY <2>1, <2>2, <3>1, <3>2, <3>3 DEF TypeOK, Shape, OrderInv, SourceInv, EndInv
  <2>7. CASE pendingSegments # <<>> /\ sourceBuffer # "none"
    <3>1. slipped' = TRUE /\ slipped' \in BOOLEAN
      BY <1>6, <2>7, Zenon DEF OnSourceOpen
    <3>2. readyState' = "open" /\ given # 0
      BY <1>6, <2>7, <2>3 DEF OnSourceOpen, SourceInv
    <3>3. Shape' /\ IdleInv' /\ sourceBuffer' # "none"
      <4>1. ASSUME NEW q \in Seq(1..Segments), sourceBuffer = "idle", DoAppendSegments(q)
            PROVE  Shape' /\ IdleInv' /\ sourceBuffer' # "none"
        <5>1. CASE q # <<>>
          <6>1. DoAppendToBuffer(Head(q), Tail(q))
            BY <4>1, <5>1 DEF DoAppendSegments
          <6> QED
            BY <1>a, <4>1, <5>1, <6>1, 0 \in Nat, Taking
        <5>2. CASE q = <<>>
          <6>1. /\ sourceBuffer' = "idle" /\ pendingSegments' = q
                /\ UNCHANGED <<buffered, held, full>>
            BY <4>1, <5>2 DEF DoAppendSegments
          <6> QED
            BY <1>a, <4>1, <5>2, <6>1 DEF Shape, IdleInv
        <5> QED
          BY <5>1, <5>2
      <4>2. Tail(pendingSegments) \in Seq(1..Segments) /\ Head(pendingSegments) \in 1..Segments
        BY <2>4, <2>7
      <4>3. CASE sourceBuffer # "idle"
        <5>1. readyState = "open"
          BY <2>3, <4>3 DEF EndInv
        <5>2. /\ pendingSegments' = Tail(pendingSegments)
              /\ UNCHANGED <<sourceBuffer, buffered, held, full>>
          BY <1>6, <2>7, <4>3, <5>1 DEF OnSourceOpen, Queue
        <5> QED
          BY <1>a, <2>7, <4>2, <4>3, <5>2 DEF Shape, IdleInv
      <4>4. CASE sourceBuffer = "idle" /\ readyState = "open"
        <5>1. DoAppendSegments(Tail(pendingSegments))
          BY <1>6, <2>7, <4>4 DEF OnSourceOpen
        <5> QED
          BY <4>1, <4>2, <4>4, <5>1
      <4>5. CASE sourceBuffer = "idle" /\ readyState = "ended"
        <5>1. DoAppendSegments(Append(Tail(pendingSegments), Head(pendingSegments)))
          BY <1>6, <2>7, <4>5 DEF OnSourceOpen
        <5>2. Append(Tail(pendingSegments), Head(pendingSegments)) \in Seq(1..Segments)
          BY <4>2
        <5> QED
          BY <4>1, <4>5, <5>1, <5>2
      <4> QED
        BY <2>3, <4>3, <4>4, <4>5
    <3> QED
      BY <2>1, <2>2, <3>1, <3>2, <3>3 DEF TypeOK, Shape, OrderInv, SourceInv, EndInv
  <2> QED
    BY <2>5, <2>6, <2>7
<1>7. ASSUME OnSourceBufferUpdateEnd PROVE Ind'
  <2>1. /\ sourceBuffer = "updating"
        /\ UNCHANGED <<given, eosAsked, openDue, slipped>>
    BY <1>7 DEF OnSourceBufferUpdateEnd, page
  <2>2. readyState = "open" /\ given # 0
    BY <2>1 DEF SourceInv, EndInv, TypeOK
  <2>3. CASE pendingSegments # <<>>
    <3>1. /\ DoAppendToBuffer(Head(pendingSegments), Tail(pendingSegments))
          /\ UNCHANGED <<readyState, hasPendingEos>>
      BY <1>7, <2>3 DEF OnSourceBufferUpdateEnd, DoAppendSegments
    <3>2. pendingSegments \in Seq(1..Segments)
      BY DEF TypeOK
    <3>3. /\ Shape' /\ IdleInv' /\ sourceBuffer' # "none"
          /\ ~slipped => Ordered(buffered', pendingSegments', given)
      BY <1>a, <1>b, <2>3, <3>1, <3>2, Taking DEF OrderInv
    <3> QED
      BY <2>1, <2>2, <3>1, <3>3 DEF TypeOK, Shape, OrderInv, SourceInv, EndInv
  <2>4. CASE pendingSegments = <<>>
    <3>1. /\ sourceBuffer' = "idle"
          /\ UNCHANGED <<pendingSegments, buffered, held, full>>
      BY <1>7, <2>4 DEF OnSourceBufferUpdateEnd, DoAppendSegments
    <3>2. CASE hasPendingEos
      <4>1. readyState' = "ended" /\ hasPendingEos' = FALSE
        BY <1>7, <2>4, <3>2 DEF OnSourceBufferUpdateEnd, EndNow
      <4>2. hasPendingEos' \in BOOLEAN
        BY <4>1, Zenon
      <4>3. eosAsked
        BY <3>2 DEF EndInv
      <4> QED
        BY <2>1, <2>2, <2>4, <3>1, <4>1, <4>2, <4>3
        DEF TypeOK, OrderInv, SourceInv, IdleInv, EndInv
    <3>3. CASE ~hasPendingEos
      <4>1. UNCHANGED <<readyState, hasPendingEos>>
        BY <1>7, <2>4, <3>3 DEF OnSourceBufferUpdateEnd
      <4> QED
        BY <2>1, <2>2, <2>4, <3>1, <4>1 DEF TypeOK, OrderInv, SourceInv, IdleInv, EndInv
    <3> QED
      BY <3>2, <3>3
  <2> QED
    BY <2>3, <2>4
<1>8. ASSUME Evict PROVE Ind'
  BY <1>8 DEF Evict, page, TypeOK, OrderInv, SourceInv, IdleInv, EndInv
<1> QED
  BY <1>1, <1>2, <1>3, <1>4, <1>5, <1>6, <1>7, <1>8 DEF Next

LEMMA IndInvariant == Spec => []Ind
<1>1. Ind /\ UNCHANGED vars => Ind'
  BY DEF Ind, vars, TypeOK, OrderInv, Ordered, SourceInv, IdleInv, EndInv
<1> QED
  BY InitInd, NextInd, <1>1, PTL DEF Spec

(* Types, and an end that was carried out is no longer pending.            *)
THEOREM TypeCorrect == Spec => []TypeOK
<1>1. Ind => TypeOK
  BY DEF Ind
<1> QED
  BY IndInvariant, <1>1, PTL

(* The SourceBuffer gets every segment once and in order, the init segment *)
(* first (_doAppendToBuffer() puts a refused segment back to the front).   *)
THEOREM SegmentsInOrder == Spec => []InOrder
<1>1. Ind => InOrder
  <2> SUFFICES ASSUME Ind, ~slipped
               PROVE  buffered \o pendingSegments = [i \in 1..given |-> i]
    BY DEF InOrder
  <2> DEFINE all == buffered \o pendingSegments
      numbers == [i \in 1..given |-> i]
  <2>1. /\ buffered \in Seq(1..Segments) /\ pendingSegments \in Seq(1..Segments)
        /\ given \in Nat
    BY DEF Ind, TypeOK
  <2>2. Ordered(buffered, pendingSegments, given)
    BY DEF Ind, OrderInv
  <2>3. /\ all \in Seq(1..Segments)
        /\ Len(all) = Len(buffered) + Len(pendingSegments)
        /\ \A i \in 1..(Len(buffered) + Len(pendingSegments)) :
              all[i] = IF i <= Len(buffered) THEN buffered[i] ELSE pendingSegments[i - Len(buffered)]
    BY <2>1, ConcatProperties
  <2>4. Len(all) = given
    BY <2>2, <2>3 DEF Ordered
  <2>5. ASSUME NEW i \in 1..given PROVE all[i] = i
    <3> HIDE DEF all
    <3>1. CASE i <= Len(buffered)
      BY <2>1, <2>2, <2>3, <3>1 DEF Ordered
    <3>2. CASE ~(i <= Len(buffered))
      <4>1. i - Len(buffered) \in 1..Len(pendingSegments)
        BY <2>1, <2>2, <3>2 DEF Ordered
      <4> QED
        BY <2>1, <2>2, <2>3, <3>2, <4>1 DEF Ordered
    <3> QED
      BY <3>1, <3>2
  <2>6. all = [i \in 1..Len(all) |-> all[i]]
    <3> HIDE DEF all
    <3> QED
      BY <2>3
  <2> QED
    <3> HIDE DEF all
    <3>1. all = [i \in 1..given |-> all[i]]
      BY <2>4, <2>6
    <3>2. [i \in 1..given |-> all[i]] = numbers
      BY <2>5
    <3>3. all = numbers
      BY <3>1, <3>2
    <3> QED
      BY <3>3 DEF all
<1> QED
  BY IndInvariant, <1>1, PTL

(* endOfStream() leaves nothing pending, unless the buffer is full.        *)
THEOREM EndAfterAll == Spec => []EndIsLast
<1>1. Ind => EndIsLast
  BY DEF Ind, IdleInv, EndInv, EndIsLast
<1> QED
  BY IndInvariant, <1>1, PTL
=============================================================================
