--------------------------- MODULE MSEController ---------------------------
(***************************************************************************)
(* The MSE player (h5player/core/mse-controller.js): segments made by the  *)
(* muxer are handed to the SourceBuffer of a MediaSource one at a time and *)
(* wait in _pendingSegments meanwhile; the end of the stream waits for     *)
(* them.  The page calls appendInitSegment(), appendMediaSegment() for     *)
(* each segment and endOfStream() in this order (remuxer.html), with the   *)
(* events of the browser anywhere in between.                              *)
(*                                                                         *)
(* A segment is known by its number, 1 is the init segment.  The browser   *)
(* sets readyState to "open" some time before its event arrives, refuses a *)
(* second SourceBuffer for the stream, and throws QuotaExceededError when  *)
(* its buffer is full.                                                     *)
(***************************************************************************)
EXTENDS Naturals, Sequences

CONSTANTS
    Segments,  \* segments of the stream, the init segment included
    Capacity   \* segments the browser's buffer holds

ASSUME MSEAssumption == {Segments, Capacity} \subseteq Nat \ {0}

VARIABLES
    given,           \* segments the page has appended
    eosAsked,        \* it has called endOfStream()
    readyState,      \* of _mediaSource: "none", "closed", "open", "ended"
    openDue,         \* the event sourceopen is on its way
    sourceBuffer,    \* _sourceBuffer: "none", "idle", "updating"
    buffered,        \* what was appended to it
    held,            \* segments of it that were not played yet
    pendingSegments,
    hasPendingEos,
    full,            \* the last appendBuffer() threw
    slipped          \* a segment or the end was lost or displaced by a late sourceopen

vars == <<given, eosAsked, readyState, openDue, sourceBuffer, buffered, held, pendingSegments,
          hasPendingEos, full, slipped>>

page == <<given, eosAsked>>

(* MSEController.constructor(): no media source is attached yet.           *)
Init ==
    /\ given = 0
    /\ eosAsked = FALSE
    /\ readyState = "none"
    /\ openDue = FALSE
    /\ sourceBuffer = "none"
    /\ buffered = <<>>
    /\ held = 0
    /\ pendingSegments = <<>>
    /\ hasPendingEos = FALSE
    /\ full = FALSE
    /\ slipped = FALSE

(* Mutant: a refused segment goes to the end of the queue.                 *)
DoAppendToBufferBehind(segment, rest) ==
    IF held < Capacity
    THEN /\ buffered' = Append(buffered, segment)
         /\ held' = held + 1
         /\ sourceBuffer' = "updating"
         /\ pendingSegments' = rest
         /\ full' = FALSE
    ELSE /\ sourceBuffer' = "idle"
         /\ pendingSegments' = Append(rest, segment)
         /\ full' = TRUE
         /\ UNCHANGED <<buffered, held>>

(* _doAppendToBuffer(), of an idle SourceBuffer: a refused segment goes    *)
(* back to the front.                                                      *)
DoAppendToBuffer(segment, rest) ==
    IF held < Capacity
    THEN /\ buffered' = Append(buffered, segment)
         /\ held' = held + 1
         /\ sourceBuffer' = "updating"
         /\ pendingSegments' = rest
         /\ full' = FALSE
    ELSE /\ sourceBuffer' = "idle"
         /\ pendingSegments' = <<segment>> \o rest
         /\ full' = TRUE
         /\ UNCHANGED <<buffered, held>>

(* _doAppendSegments(), with a SourceBuffer that was idle or became so     *)
DoAppendSegments(segments) ==
    IF segments # <<>>
    THEN DoAppendToBuffer(Head(segments), Tail(segments))
    ELSE /\ sourceBuffer' = "idle"
         /\ pendingSegments' = segments
         /\ UNCHANGED <<buffered, held, full>>

Queue(segments) ==
    /\ pendingSegments' = segments
    /\ UNCHANGED <<sourceBuffer, buffered, held, full>>

EndNow ==
    /\ readyState' = "ended"
    /\ hasPendingEos' = FALSE
-----------------------------------------------------------------------------
(* The page                                                                *)

AttachMediaElement ==
    /\ readyState = "none"
    /\ readyState' = "closed"
    /\ UNCHANGED <<page, openDue, sourceBuffer, buffered, held, pendingSegments, hasPendingEos,
                   full, slipped>>

AppendInitSegment ==
    /\ given = 0
    /\ given' = 1
    /\ IF readyState = "open"
       THEN DoAppendToBuffer(1, pendingSegments)
       ELSE Queue(Append(pendingSegments, 1))
    /\ UNCHANGED <<eosAsked, readyState, openDue, hasPendingEos, slipped>>

(* Mutant: the segment is left to the next updateend.                      *)
AppendMediaSegmentQueued ==
    /\ given \in 1..(Segments - 1)
    /\ given' = given + 1
    /\ Queue(Append(pendingSegments, given + 1))
    /\ UNCHANGED <<eosAsked, readyState, openDue, hasPendingEos, slipped>>

AppendMediaSegment ==
    /\ given \in 1..(Segments - 1)
    /\ given' = given + 1
    /\ LET segments == Append(pendingSegments, given + 1)
       IN  IF sourceBuffer = "idle" THEN DoAppendSegments(segments) ELSE Queue(segments)
    /\ UNCHANGED <<eosAsked, readyState, openDue, hasPendingEos, slipped>>

(* Mutant: the end is not kept for later while an append is under way.     *)
EndOfStreamAtOnce ==
    /\ given = Segments
    /\ readyState # "none"
    /\ ~eosAsked
    /\ eosAsked' = TRUE
    /\ IF readyState = "open" /\ sourceBuffer = "idle"
       THEN EndNow
       ELSE UNCHANGED <<readyState, hasPendingEos>>
    /\ UNCHANGED <<given, openDue, sourceBuffer, buffered, held, pendingSegments, full, slipped>>

(* endOfStream(): throws when the source is open but has no buffer yet.    *)
EndOfStream ==
    /\ given = Segments
    /\ readyState # "none"
    /\ ~eosAsked
    /\ eosAsked' = TRUE
    /\ CASE readyState = "closed" ->
              /\ hasPendingEos' = (pendingSegments # <<>>)
              /\ UNCHANGED <<readyState, slipped>>
         [] readyState = "open" /\ sourceBuffer = "updating" ->
              hasPendingEos' = TRUE /\ UNCHANGED <<readyState, slipped>>
         [] readyState = "open" /\ sourceBuffer = "idle" -> EndNow /\ UNCHANGED slipped
         [] OTHER -> slipped' = TRUE /\ UNCHANGED <<readyState, hasPendingEos>>
    /\ UNCHANGED <<given, openDue, sourceBuffer, buffered, held, pendingSegments, full>>
-----------------------------------------------------------------------------
(* The browser                                                             *)

SourceOpens ==
    /\ readyState = "closed"
    /\ readyState' = "open"
    /\ openDue' = TRUE
    /\ UNCHANGED <<page, sourceBuffer, buffered, held, pendingSegments, hasPendingEos, full, slipped>>

(* _onSourceOpen() gives the first pending segment to appendInitSegment(). *)
(* If there is a SourceBuffer already addSourceBuffer() throws, and the    *)
(* segment is lost; and if the source has ended meanwhile the segment goes *)
(* to the end of the queue.  An append opens an ended source again.        *)
OnSourceOpen ==
    /\ openDue
    /\ openDue' = FALSE
    /\ \/ /\ pendingSegments = <<>>
          /\ Queue(pendingSegments)
          /\ UNCHANGED <<readyState, slipped>>
       \/ /\ pendingSegments # <<>>
          /\ sourceBuffer = "none"
          /\ DoAppendToBuffer(Head(pendingSegments), Tail(pendingSegments))
          /\ UNCHANGED <<readyState, slipped>>
       \/ /\ pendingSegments # <<>>
          /\ sourceBuffer # "none"
          /\ readyState = "open"
          /\ IF sourceBuffer = "idle"
             THEN DoAppendSegments(Tail(pendingSegments))
             ELSE Queue(Tail(pendingSegments))
          /\ slipped' = TRUE
          /\ UNCHANGED readyState
       \/ /\ pendingSegments # <<>>
          /\ readyState = "ended"
          /\ DoAppendSegments(Append(Tail(pendingSegments), Head(pendingSegments)))
          /\ slipped' = TRUE
          /\ readyState' = "open"
    /\ UNCHANGED <<page, hasPendingEos>>

(* Mutant: a pending end goes before pending segments.                     *)
OnSourceBufferUpdateEndEosFirst ==
    /\ sourceBuffer = "updating"
    /\ IF hasPendingEos
       THEN /\ EndNow
            /\ sourceBuffer' = "idle"
            /\ UNCHANGED <<buffered, held, pendingSegments, full>>
       ELSE DoAppendSegments(pendingSegments) /\ UNCHANGED <<readyState, hasPendingEos>>
    /\ UNCHANGED <<page, openDue, slipped>>

OnSourceBufferUpdateEnd ==
    /\ sourceBuffer = "updating"
    /\ DoAppendSegments(pendingSegments)
    /\ IF pendingSegments = <<>> /\ hasPendingEos
       THEN EndNow
       ELSE UNCHANGED <<readyState, hasPendingEos>>
    /\ UNCHANGED <<page, openDue, slipped>>

(* What was played makes room.                                             *)
Evict ==
    /\ held > 0
    /\ held' = held - 1
    /\ UNCHANGED <<page, readyState, openDue, sourceBuffer, buffered, pendingSegments,
                   hasPendingEos, full, slipped>>

Next ==
    \/ AttachMediaElement \/ AppendInitSegment \/ AppendMediaSegment \/ EndOfStream
    \/ SourceOpens \/ OnSourceOpen \/ OnSourceBufferUpdateEnd \/ Evict

Spec == Init /\ [][Next]_vars

(* The browser delivers its events; neither the page nor playing is fair.  *)
FairSpec == Spec /\ WF_vars(SourceOpens) /\ WF_vars(OnSourceOpen) /\ WF_vars(OnSourceBufferUpdateEnd)
-----------------------------------------------------------------------------
(* Types; an end that was carried out is no longer pending.                *)
TypeOK ==
    /\ given \in 0..Segments
    /\ readyState \in {"none", "closed", "open", "ended"}
    /\ sourceBuffer \in {"none", "idle", "updating"}
    /\ {eosAsked, openDue, hasPendingEos, full, slipped} \subseteq BOOLEAN
    /\ {buffered, pendingSegments} \subseteq Seq(1..Segments)
    /\ held \in 0..Capacity
    /\ readyState = "ended" => ~hasPendingEos

(* The SourceBuffer gets the init segment first and every media segment    *)
(* once and in order, whenever the source opens, however often its buffer  *)
(* is full; what it has not got yet is pending.                            *)
InOrder == ~slipped => buffered \o pendingSegments = [i \in 1..given |-> i]

(* The stream is ended after its last segment, unless the buffer is full   *)
(* at that moment: endOfStream() then cuts off what is pending.            *)
EndIsLast == readyState = "ended" /\ ~full => pendingSegments = <<>>

(* A stream given completely reaches the SourceBuffer completely, whether  *)
(* its source is open or not, if the buffer does not fill up for good.     *)
AllBuffered ==
    (given = Segments /\ readyState # "none") ~> (Len(buffered) = Segments \/ full \/ slipped)

(* endOfStream() is carried out in the end.                                *)
EndComes == eosAsked ~> (readyState = "ended" \/ full \/ slipped)
=============================================================================
