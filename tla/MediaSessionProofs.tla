------------------------- MODULE MediaSessionProofs -------------------------
(***************************************************************************)
(* What holds of the playing session for any number of streams, queue      *)
(* sizes, codec delays and commands.  A stream flows through seven places, *)
(* from the demuxer's hands to the screen (Path): every step leaves it as  *)
(* it is, puts one packet at its end or takes items out, and the place of  *)
(* a thread in its run() says what it has in its hands (Ind).  On this     *)
(* rest: no packet or frame is lost, doubled or overtaken (Completeness),  *)
(* playFinsh comes after the last frame of all streams (FinishTrue), the   *)
(* queues keep to their capacity (TypeCorrect), and stop() takes all down  *)
(* (StopClean).                                                            *)
(***************************************************************************)
EXTENDS MediaSession, OrderedPaths, FiniteSetTheorems

(* TypeOK in parts, without the bound on the count of ended streams.       *)
QueueTypes ==
    /\ queue \in [Queues -> Seq(Nat)]
    /\ \A q \in Queues : Len(queue[q]) <= Cap(q)
    /\ forcewake \in [Queues -> BOOLEAN]

DemuxTypes ==
    /\ demux \in {"check", "control", "paused", "seek", "clear", "clearTest", "clearPop", "read",
                  "put", "judge", "stop", "leave", "off"}
    /\ item \in 0..NumStreams /\ index \in 0..NumStreams
    /\ sent \in [Streams -> Nat] /\ ends \in [Streams -> SUBSET Nat]

DecodeTypes ==
    /\ decode \in [Streams -> {"check", "get", "decode", "put", "drain", "drainPut", "off"}]
    /\ packet \in [Streams -> Seq(Nat)]
    /\ frame \in [Streams -> Seq(Nat)]
    /\ codec \in [Streams -> Seq(Nat)]
    /\ \A s \in Streams : Len(codec[s]) <= CodecDelay

RenderTypes ==
    /\ render \in [Rendered -> {"check", "get", "show", "end", "add", "compare", "stop", "leave",
                                "off"}]
    /\ shown \in [Rendered -> Seq(Nat)]
    /\ rendered \in [Rendered -> Seq(Nat)]
    /\ leaked \in [Rendered -> SUBSET Nat]
    /\ readIndex \in [Rendered -> Nat]
    /\ releaseIndex \in Nat
    /\ finishes \in Nat

ControlTypes ==
    /\ dropped \in [Streams -> SUBSET Nat]
    /\ user \in {"free", "seekToggle", "seekStop", "seekWait", "seekStart", "stopping"}
    /\ stopping \in [Callers -> {"no", "enter", "wakePause", "wakeQueues", "demux", "decoders",
                                 "renderers", "clear"}]
    /\ objects \subseteq Threads
    /\ overlooked \subseteq Threads \ objects

FlagTypes ==
    /\ stopFlag \in [Threads -> BOOLEAN]
    /\ spawned \in [Threads -> Nat]
    /\ renderStops \in Nat

Types == QueueTypes /\ DemuxTypes /\ DecodeTypes /\ RenderTypes /\ ControlTypes

(* The demuxer has a packet in its hands in recvPacket() only.             *)
DemuxHolds ==
    /\ demux \in {"clear", "clearTest", "clearPop"} => index \in Streams
    /\ IF demux = "put" THEN Target \in Streams ELSE item = 0

(* What a decoder has in its hands at its place in run().  It drains its   *)
(* codec for the end packet only, and an end is not kept in a codec.       *)
DecodeHolds ==
    \A s \in Streams :
        /\ Len(packet[s]) <= 1 /\ Len(frame[s]) <= 1
        /\ (frame[s] # <<>>) <=> (decode[s] \in {"put", "drainPut"})
        /\ decode[s] \in {"decode", "drain"} => packet[s] # <<>>
        /\ decode[s] \in {"check", "get", "put", "off"} => packet[s] = <<>>
        /\ decode[s] = "decode" => Head(packet[s]) \notin ends[s]
        /\ decode[s] = "put" => Head(frame[s]) \notin ends[s]
        /\ decode[s] = "drain" => Head(packet[s]) \in ends[s]
        /\ decode[s] = "drainPut" =>
               IF packet[s] = <<>> THEN Head(frame[s]) \in ends[s]
               ELSE Head(packet[s]) \in ends[s] /\ Head(frame[s]) \notin ends[s]
        /\ ToSet(codec[s]) \cap ends[s] = {}

(* What a renderer has in its hands, and that "end" is the end frame.      *)
RenderHolds ==
    \A s \in Rendered :
        /\ Len(shown[s]) <= 1
        /\ render[s] \notin {"check", "show", "end"} => shown[s] = <<>>
        /\ render[s] = "end" => shown[s] # <<>> /\ Head(shown[s]) \in ends[s]

(* Every packet read is on its way, in order, or thrown away by name.      *)
Out(s) == dropped[s] \cup Leaked(s)

Paths == \A s \in Streams : Accounted(Path(s), Out(s), sent[s])

(* The end packets were read.                                              *)
EndsRead == \A s \in Streams : ends[s] \subseteq 1..sent[s]

(* What has left the codec.                                                *)
Downstream(s) ==
    (IF s \in Rendered THEN ToSet(rendered[s]) \cup ToSet(shown[s]) ELSE {})
        \cup ToSet(queue[m_frameQueue(s)]) \cup ToSet(frame[s])

(* At most one end is past the codec: a decoder that let one through is    *)
(* about to stop, or was told to and will not leave its loop test again.   *)
OneEnd ==
    \A s \in Streams :
        /\ \A x, y \in Downstream(s) \cap ends[s] : x = y
        /\ Downstream(s) \cap ends[s] # {} =>
               \/ decode[s] = "drainPut" /\ packet[s] = <<>>
               \/ decode[s] \in {"check", "off"} /\ stopFlag[Decoder(s)]

(* Renderers count their ends in two steps, a read and a write of one      *)
(* index.  An end is counted at most once, so the index is never more than *)
(* the renderers that are past their end and not about to write; a value   *)
(* read earlier is not more either, and a lost update makes it smaller.    *)
Ended(s) == ToSet(rendered[s]) \cap ends[s] # {}

Counts(s) == IF s \in Rendered /\ Ended(s) /\ render[s] # "add" THEN 1 ELSE 0

Counting ==
    /\ releaseIndex <= Counts(1) + Counts(2)
    /\ \A s \in Rendered :
          /\ render[s] = "add" => Ended(s) /\ readIndex[s] <= Counts(3 - s)
          /\ render[s] = "end" => ~Ended(s)
    /\ FinishAfterAll

(* Until someone stops or seeks, or the session ends, no queue was         *)
(* woken and nothing thrown away.                                          *)
Uninterrupted ==
    ~interrupted /\ finishes = 0 =>
        /\ \A q \in Queues : ~forcewake[q]
        /\ \A s \in Streams : dropped[s] = {}
        /\ demux \notin {"clear", "clearTest", "clearPop"}
        /\ ~needSeek
        /\ user \notin {"seekWait", "seekStart"}
        /\ \A c \in Callers : stopping[c] = "no"

(* stop() deletes the demuxer, then the decoders, then the renderers, each *)
(* when no thread of it is in its loop; so nobody behind them fills a      *)
(* queue once they are deleted, and what is cleared last stays clear.  A   *)
(* thread that was spawned and has not locked its mutex by then never      *)
(* gets into the loop, and nothing is spawned on a deleted object.         *)
NoDemuxer == Demuxer \notin objects
NoDecoders == objects \cap Decoders = {}
NoRenderers == objects \cap Renderers = {}

Deleted ==
    /\ NoDemuxer => demux = "off"
    /\ \A s \in Streams : Decoder(s) \notin objects => NoDemuxer /\ decode[s] = "off"
    /\ \A s \in Rendered : Renderer(s) \notin objects =>
           NoDecoders /\ render[s] \in {"stop", "leave", "off"}
    /\ \A t \in Threads : t \notin objects /\ spawned[t] > 0 => t \in overlooked
    /\ \A s \in Rendered : stopping[Renderer(s)] # "no" => render[s] = "stop"
    /\ stopping[User] # "no" => user = "stopping"
    /\ \A c \in Callers :
          /\ stopping[c] = "decoders" => NoDemuxer
          /\ stopping[c] \in {"renderers", "clear"} => NoDemuxer /\ NoDecoders
          /\ stopping[c] = "clear" => NoRenderers
    /\ objects = {} =>
          \/ \E c \in Callers : stopping[c] \in {"renderers", "clear"}
          \/ /\ \A q \in Queues : queue[q] = <<>>
             /\ \A s \in Streams : codec[s] = <<>>

(* What a renderer may still leak: it was told to stop and holds a frame,  *)
(* or may get one before it looks at its flag.                             *)
Pending(s) ==
    IF stopFlag[Renderer(s)] /\ (render[s] = "get" \/ shown[s] # <<>>) THEN 1 ELSE 0

Leaks ==
    \A s \in Rendered :
        /\ IsFiniteSet(leaked[s]) /\ Cardinality(leaked[s]) + Pending(s) <= renderStops
        /\ render[s] = "check" /\ shown[s] # <<>> => Jumps
        /\ leaked[s] # {} => Jumps

Ind == Types /\ FlagTypes /\ DemuxHolds /\ DecodeHolds /\ RenderHolds /\ EndsRead /\ Paths

USE DEF queueVars, readVars, demuxVars, decodeVars, renderVars, pauseVars, flagVars, objectVars,
        controlVars

(* Every stream has two queues of its own.                                 *)
LEMMA QueueKinds ==
    ASSUME NEW s \in Streams
    PROVE  /\ m_packetQueue(s) \in Queues /\ m_frameQueue(s) \in Queues
           /\ \A t \in Streams : m_packetQueue(s) # m_frameQueue(t)
           /\ \A t \in Streams : m_packetQueue(s) = m_packetQueue(t) => s = t
           /\ \A t \in Streams : m_frameQueue(s) = m_frameQueue(t) => s = t
BY DEF Queues, PacketQueues, FrameQueues, m_packetQueue, m_frameQueue

LEMMA CapIsNat == \A q : Cap(q) \in Nat
BY QueuesAssumption DEF Cap

(* What the operations of a queue do to the types, done or refused.        *)
LEMMA PutTypes ==
    ASSUME QueueTypes, NEW t, NEW q \in Queues, NEW v \in Nat, PutDone(t, q, v) \/ PutRefused(t, q)
    PROVE  QueueTypes'
<1>1. CASE PutDone(t, q, v)
  <2>1. /\ queue' = [queue EXCEPT ![q] = Append(queue[q], v)]
        /\ forcewake' = [forcewake EXCEPT ![q] = FALSE]
        /\ Len(queue[q]) < Cap(q)
    BY <1>1 DEF PutDone, CanPut
  <2>2. Append(queue[q], v) \in Seq(Nat) /\ Len(Append(queue[q], v)) = Len(queue[q]) + 1
    BY DEF QueueTypes
  <2> QED
    BY <2>1, <2>2, CapIsNat DEF QueueTypes, Cap
<1>2. CASE PutRefused(t, q)
  BY <1>2 DEF PutRefused, Refused, QueueTypes, Cap
<1> QED
  BY <1>1, <1>2

LEMMA GetTypes ==
    ASSUME QueueTypes, NEW t, NEW q \in Queues, GetDone(t, q) \/ GetRefused(t, q)
    PROVE  QueueTypes' /\ (GetDone(t, q) => Head(queue[q]) \in Nat)
<1>1. CASE GetDone(t, q)
  <2>1. /\ queue' = [queue EXCEPT ![q] = Tail(queue[q])]
        /\ forcewake' = [forcewake EXCEPT ![q] = FALSE]
        /\ queue[q] # <<>>
    BY <1>1 DEF GetDone, CanGet
  <2>2. /\ Tail(queue[q]) \in Seq(Nat) /\ Len(Tail(queue[q])) = Len(queue[q]) - 1
        /\ Head(queue[q]) \in Nat
    BY <2>1, HeadAndTail DEF QueueTypes
  <2>3. Len(queue[q]) \in Nat
    BY DEF QueueTypes
  <2> QED
    BY <2>1, <2>2, <2>3, CapIsNat DEF QueueTypes, Cap
<1>2. CASE GetRefused(t, q)
  <2>1. ~GetDone(t, q)
    BY <1>2 DEF GetRefused, GetDone, Refused
  <2> QED
    BY <1>2, <2>1 DEF GetRefused, Refused, QueueTypes, Cap
<1> QED
  BY <1>1, <1>2

LEMMA ForcewakeTypes ==
    ASSUME QueueTypes, NEW Q, Forcewake(Q)
    PROVE  QueueTypes'
BY DEF QueueTypes, Forcewake, Cap

LEMMA ParkTypes ==
    ASSUME QueueTypes, NEW t, NEW q, PutBlocks(t, q) \/ GetBlocks(t, q)
    PROVE  QueueTypes'
BY DEF QueueTypes, PutBlocks, GetBlocks, ParkOn, Cap

LEMMA KeepQueues ==
    ASSUME QueueTypes, UNCHANGED <<queue, forcewake>>
    PROVE  QueueTypes'
BY DEF QueueTypes, Cap

(* The types hold initially; then thread by thread.                        *)
LEMMA TypesInit == Init => Types
<1> SUFFICES ASSUME Init PROVE Types
  OBVIOUS
<1>1. QueueTypes
  BY CapIsNat DEF Init, QueueInit, QueueTypes
<1>2. DemuxTypes
  BY QueuesAssumption DEF Init, DemuxTypes
<1>3. DecodeTypes
  BY SessionAssumption DEF Init, DecodeTypes
<1>4. RenderTypes
  BY DEF Init, RenderTypes
<1>5. ControlTypes
  BY DEF Init, ControlTypes, Threads, Decoders, Renderers, Rendered
<1> QED
  BY <1>1, <1>2, <1>3, <1>4, <1>5 DEF Types

(* The demuxer's thread, and what it leaves alone.                         *)
LEMMA DemuxThreadKeeps ==
    ASSUME DemuxThread
    PROVE  /\ UNCHANGED <<decodeVars, renderVars, controlVars>>
           /\ \/ UNCHANGED flagVars
              \/ StopRender \/ StartRender \/ EndSelf(Demuxer) \/ Enter(Demuxer)
BY DEF DemuxThread, DemuxEnter, DemuxLeave, DemuxCheck, DemuxControl, DemuxWaitPause, DemuxSeek,
       ClearForcewake, ClearTest, ClearPop, DemuxRead, DemuxEof, DemuxError, RecvPacket,
       RecvPacketBlocks, Judge, DemuxStop

LEMMA TypesDemux ==
    ASSUME Ind, DemuxThread
    PROVE  Types'
<1> USE DEF Ind, Types
<1>1. DecodeTypes'
  BY DemuxThreadKeeps DEF DecodeTypes
<1>2. RenderTypes'
  BY DemuxThreadKeeps DEF RenderTypes
<1>3. CASE DemuxEnter \/ DemuxLeave \/ DemuxCheck \/ DemuxControl \/ DemuxWaitPause \/ DemuxSeek \/ ClearTest
           \/ (\E s \in Streams : DemuxRead(s)) \/ DemuxEof \/ DemuxError \/ RecvPacketBlocks
           \/ Judge \/ DemuxStop
  <2>1. UNCHANGED <<queue, forcewake, dropped>>
    BY <1>3 DEF DemuxEnter, DemuxLeave, DemuxCheck, DemuxControl, DemuxWaitPause, DemuxSeek,
                ClearTest, DemuxRead, DemuxEof,
                DemuxError, RecvPacketBlocks, Judge, DemuxStop, PutBlocks, ParkOn
  <2>2. DemuxTypes'
    <3>1. CASE DemuxEnter \/ DemuxLeave \/ DemuxCheck \/ DemuxControl \/ DemuxWaitPause \/ DemuxError \/ Judge \/ DemuxStop
               \/ RecvPacketBlocks
      BY <3>1 DEF DemuxTypes, DemuxEnter, DemuxLeave, DemuxCheck, DemuxControl, DemuxWaitPause,
                  DemuxError, Judge, DemuxStop, RecvPacketBlocks
    <3>2. CASE DemuxSeek \/ ClearTest
      BY <3>2, QueuesAssumption DEF DemuxTypes, DemuxSeek, ClearTest
    <3>3. ASSUME NEW s \in Streams, DemuxRead(s) PROVE DemuxTypes'
      BY <3>3, QueuesAssumption DEF DemuxTypes, DemuxRead, Streams
    <3>4. CASE DemuxEof
      BY <3>4, QueuesAssumption DEF DemuxTypes, DemuxEof
    <3> QED
      BY <1>3, <3>1, <3>2, <3>3, <3>4
  <2> QED
    BY <1>1, <1>2, <2>1, <2>2, KeepQueues, DemuxThreadKeeps DEF ControlTypes
<1>4. CASE ClearForcewake
  BY <1>1, <1>2, <1>4, ForcewakeTypes DEF DemuxTypes, ControlTypes, ClearForcewake
<1>5. CASE ClearPop
  <2>1. m_packetQueue(index) \in Queues /\ index \in Streams
    BY <1>5, QueueKinds DEF DemuxHolds, ClearPop
  <2>2. QueueTypes' /\ DemuxTypes'
    BY <1>5, <2>1, GetTypes, ParkTypes DEF ClearPop, DemuxTypes
  <2>3. dropped' \in [Streams -> SUBSET Nat]
    BY <1>5, <2>1, GetTypes DEF ClearPop, Drop, ControlTypes
  <2> QED
    BY <1>1, <1>2, <1>5, <2>2, <2>3 DEF ClearPop, ControlTypes
<1>6. CASE RecvPacket
  <2>1. m_packetQueue(Target) \in Queues /\ Target \in Streams /\ sent[Target] \in Nat
    BY <1>6, QueueKinds DEF DemuxTypes, DemuxHolds, RecvPacket
  <2>2. QueueTypes'
    BY <1>6, <2>1, PutTypes DEF RecvPacket
  <2>3. DemuxTypes'
    BY <1>6, QueuesAssumption DEF RecvPacket, DemuxTypes
  <2>4. dropped' \in [Streams -> SUBSET Nat]
    BY <1>6, <2>1 DEF RecvPacket, Drop, ControlTypes
  <2> QED
    BY <1>1, <1>2, <1>6, <2>2, <2>3, <2>4 DEF RecvPacket, ControlTypes
<1> QED
  BY <1>3, <1>4, <1>5, <1>6 DEF DemuxThread

(* A decoder's thread.                                                     *)
LEMMA DecodeThreadKeeps ==
    ASSUME NEW s \in Streams, DecodeThread(s)
    PROVE  /\ UNCHANGED <<demuxVars, renderVars, pauseVars, controlVars, crashed>>
           /\ UNCHANGED flagVars \/ EndSelf(Decoder(s)) \/ Enter(Decoder(s))
BY DEF DecodeThread, DecodeEnter, DecodeCheck, DecodeGet, DecodeData, DecodeDrain, RecvFrame,
       RecvFrameBlocks, beyondDecode

LEMMA TypesDecode ==
    ASSUME Ind, NEW s \in Streams, DecodeThread(s)
    PROVE  Types'
<1> USE DEF Ind, Types
<1>1. DemuxTypes' /\ RenderTypes'
  BY DecodeThreadKeeps DEF DemuxTypes, RenderTypes
<1>2. CASE DecodeEnter(s) \/ DecodeCheck(s)
  BY <1>1, <1>2, KeepQueues DEF DecodeEnter, DecodeCheck, DecodeTypes, ControlTypes, beyondDecode
<1>3. CASE DecodeGet(s)
  <2>1. QueueTypes'
    BY <1>3, QueueKinds, GetTypes, ParkTypes DEF DecodeGet
  <2>2. DecodeTypes'
    <3>1. CASE GetDone(Decoder(s), m_packetQueue(s))
      <4>1. Head(queue[m_packetQueue(s)]) \in Nat
        BY <3>1, QueueKinds, GetTypes
      <4>2. ~GetRefused(Decoder(s), m_packetQueue(s)) /\ ~GetBlocks(Decoder(s), m_packetQueue(s))
        BY <3>1 DEF GetDone, GetRefused, Refused, GetBlocks
      <4>3. /\ packet' = [packet EXCEPT ![s] = <<Head(queue[m_packetQueue(s)])>>]
            /\ decode' = [decode EXCEPT ![s] = "drain"] \/ decode' = [decode EXCEPT ![s] = "decode"]
            /\ UNCHANGED <<codec, frame>>
        BY <1>3, <3>1, <4>2 DEF DecodeGet
      <4>4. <<Head(queue[m_packetQueue(s)])>> \in Seq(Nat)
        BY <4>1
      <4> QED
        BY <4>3, <4>4 DEF DecodeTypes
    <3>2. CASE ~GetDone(Decoder(s), m_packetQueue(s))
      BY <1>3, <3>2 DEF DecodeGet, DecodeTypes
    <3> QED
      BY <3>1, <3>2
  <2> QED
    BY <1>1, <1>3, <2>1, <2>2 DEF DecodeGet, ControlTypes, beyondDecode
<1>4. CASE DecodeData(s)
  <2> DEFINE frames == codec[s] \o packet[s]
  <2>0. packet[s] \in Seq(Nat) /\ codec[s] \in Seq(Nat) /\ Len(codec[s]) <= CodecDelay
    BY DEF DecodeTypes
  <2>1. packet[s] # <<>> /\ Len(packet[s]) = 1
    BY <1>4, <2>0, Single DEF DecodeData, DecodeHolds
  <2>2. frames \in Seq(Nat) /\ Len(frames) = Len(codec[s]) + 1 /\ Len(codec[s]) <= CodecDelay
    <3>1. frames \in Seq(Nat) /\ Len(frames) = Len(codec[s]) + Len(packet[s])
      BY <2>0
    <3> QED
      BY <2>0, <2>1, <3>1
  <2>3. /\ frames # <<>> /\ Head(frames) \in Nat /\ Tail(frames) \in Seq(Nat)
        /\ Len(Tail(frames)) = Len(frames) - 1
    BY <2>1, <2>2, HeadAndTail DEF DecodeTypes
  <2>4. CASE Len(frames) > CodecDelay
    <3>1. /\ frame' = [frame EXCEPT ![s] = <<Head(frames)>>]
          /\ codec' = [codec EXCEPT ![s] = Tail(frames)]
          /\ decode' = [decode EXCEPT ![s] = "put"]
          /\ packet' = [packet EXCEPT ![s] = <<>>]
      BY <1>4, <2>4 DEF DecodeData
    <3>2. Len(Tail(frames)) <= CodecDelay
      BY <2>2, <2>3, SessionAssumption DEF DecodeTypes
    <3> HIDE DEF frames
    <3> QED
      BY <1>1, <1>4, <2>3, <3>1, <3>2, KeepQueues
         DEF DecodeData, DecodeTypes, ControlTypes, beyondDecode
  <2>5. CASE ~(Len(frames) > CodecDelay)
    <3>1. /\ codec' = [codec EXCEPT ![s] = frames]
          /\ decode' = [decode EXCEPT ![s] = "check"]
          /\ packet' = [packet EXCEPT ![s] = <<>>]
          /\ frame' = frame
      BY <1>4, <2>5 DEF DecodeData
    <3>2. Len(frames) <= CodecDelay
      BY <2>2, <2>5, SessionAssumption DEF DecodeTypes
    <3> HIDE DEF frames
    <3> QED
      BY <1>1, <1>4, <2>2, <3>1, <3>2, KeepQueues
         DEF DecodeData, DecodeTypes, ControlTypes, beyondDecode
  <2> QED
    BY <2>4, <2>5
<1>5. CASE DecodeDrain(s)
  <2>1. CASE codec[s] # <<>>
    <3>1. /\ Head(codec[s]) \in Nat /\ Tail(codec[s]) \in Seq(Nat)
          /\ Len(Tail(codec[s])) <= CodecDelay
      BY <2>1, HeadAndTail, SessionAssumption DEF DecodeTypes
    <3>2. /\ frame' = [frame EXCEPT ![s] = <<Head(codec[s])>>]
          /\ codec' = [codec EXCEPT ![s] = Tail(codec[s])]
          /\ decode' = [decode EXCEPT ![s] = "drainPut"]
          /\ packet' = packet
      BY <1>5, <2>1 DEF DecodeDrain
    <3>3. DecodeTypes'
      BY <3>1, <3>2 DEF DecodeTypes
    <3> QED
      BY <1>1, <1>5, <3>3, KeepQueues DEF DecodeDrain, ControlTypes, beyondDecode
  <2>2. CASE codec[s] = <<>>
    BY <1>1, <1>5, <2>2, KeepQueues DEF DecodeDrain, DecodeTypes, ControlTypes, beyondDecode
  <2> QED
    BY <2>1, <2>2
<1>6. CASE RecvFrame(s)
  <2>1. frame[s] # <<>> /\ Head(frame[s]) \in Nat
    BY <1>6, HeadAndTail DEF RecvFrame, DecodeHolds, DecodeTypes
  <2>2. QueueTypes'
    BY <1>6, <2>1, QueueKinds, PutTypes DEF RecvFrame
  <2>3. DecodeTypes'
    BY <1>6 DEF RecvFrame, DecodeTypes
  <2>4. dropped' \in [Streams -> SUBSET Nat]
    BY <1>6, <2>1 DEF RecvFrame, Drop, ControlTypes
  <2> QED
    BY <1>1, <1>6, <2>2, <2>3, <2>4 DEF RecvFrame, ControlTypes, beyondDecode
<1>7. CASE RecvFrameBlocks(s)
  BY <1>1, <1>7, ParkTypes DEF RecvFrameBlocks, DecodeTypes, ControlTypes, beyondDecode
<1> QED
  BY <1>2, <1>3, <1>4, <1>5, <1>6, <1>7 DEF DecodeThread

(* A renderer's thread.                                                    *)
LEMMA RenderThreadKeeps ==
    ASSUME NEW s \in Rendered, RenderThread(s)
    PROVE  /\ UNCHANGED <<demuxVars, decodeVars, pauseVars, user, commands, objectVars, interrupted,
                          dropped, stopFlag, renderStops, crashed>>
           /\ UNCHANGED flagVars \/ Enter(Renderer(s))
           /\ \/ UNCHANGED stopping
              \/ PlayFinish(s)
           /\ \/ UNCHANGED queueVars
              \/ GetFrontFrame(s)
BY DEF RenderThread, RenderEnter, RenderCheck, GetFrontFrame, HoldFrame, SendFrame, ReleaseRender,
       AddReleaseIndex, NotTheLast, PlayFinish, ResetReleaseIndex, RenderLeave, RenderAt, Enter,
       beyondRender

LEMMA RenderedStreams ==
    ASSUME NEW s \in Rendered
    PROVE  s \in Streams /\ s \in {1, 2} /\ Renderer(s) \in Callers /\ Renderer(s) \in Threads
BY DEF Rendered, Callers, Renderers, Threads

LEMMA TypesRender ==
    ASSUME Ind, NEW s \in Rendered, RenderThread(s)
    PROVE  Types'
<1> USE DEF Ind, Types
<1>1. DemuxTypes' /\ DecodeTypes'
  BY RenderThreadKeeps DEF DemuxTypes, DecodeTypes
<1>2. ControlTypes'
  <2>1. CASE PlayFinish(s)
    BY <2>1, RenderThreadKeeps, RenderedStreams DEF PlayFinish, ControlTypes
  <2> QED
    BY <2>1, RenderThreadKeeps DEF ControlTypes
<1>3. CASE RenderCheck(s)
  <2>1. ToSet(shown[s]) \subseteq Nat
    BY ElementsAreNat DEF RenderTypes
  <2>2. leaked' \in [Rendered -> SUBSET Nat]
    BY <1>3, <2>1 DEF RenderCheck, RenderTypes
  <2>3. shown' \in [Rendered -> Seq(Nat)]
    <3>1. shown' = shown \/ shown' = [shown EXCEPT ![s] = <<>>]
      BY <1>3 DEF RenderCheck
    <3>2. <<>> \in Seq(Nat) /\ shown \in [Rendered -> Seq(Nat)]
      BY DEF RenderTypes
    <3> QED
      BY <3>1, <3>2
  <2>4. render' \in [Rendered -> {"check", "get", "show", "end", "add", "compare", "stop", "leave",
                                  "off"}]
    BY <1>3 DEF RenderCheck, RenderAt, RenderTypes
  <2> QED
    BY <1>1, <1>2, <1>3, <2>2, <2>3, <2>4, KeepQueues DEF RenderCheck, RenderTypes
<1>4. CASE GetFrontFrame(s)
  <2>1. m_frameQueue(s) \in Queues
    BY QueueKinds, RenderedStreams
  <2>2. QueueTypes'
    BY <1>4, <2>1, GetTypes, ParkTypes DEF GetFrontFrame
  <2>3. GetDone(Renderer(s), m_frameQueue(s)) => Head(queue[m_frameQueue(s)]) \in Nat
    BY <2>1, GetTypes
  <2>4. render' \in [Rendered -> {"check", "get", "show", "end", "add", "compare", "stop", "leave",
                                  "off"}]
    BY <1>4 DEF GetFrontFrame, RenderAt, RenderTypes
  <2>5. shown' \in [Rendered -> Seq(Nat)]
    <3>1. \/ shown' = shown
          \/ /\ GetDone(Renderer(s), m_frameQueue(s))
             /\ shown' = [shown EXCEPT ![s] = <<Head(queue[m_frameQueue(s)])>>]
      BY <1>4 DEF GetFrontFrame
    <3>2. CASE shown' = [shown EXCEPT ![s] = <<Head(queue[m_frameQueue(s)])>>]
               /\ GetDone(Renderer(s), m_frameQueue(s))
      <4>1. <<Head(queue[m_frameQueue(s)])>> \in Seq(Nat)
        BY <2>3, <3>2
      <4> QED
        BY <3>2, <4>1 DEF RenderTypes
    <3> QED
      BY <3>1, <3>2 DEF RenderTypes
  <2> QED
    BY <1>1, <1>2, <1>4, <2>2, <2>4, <2>5 DEF GetFrontFrame, RenderTypes
<1>5. CASE SendFrame(s) \/ ReleaseRender(s)
  <2>1. rendered[s] \o shown[s] \in Seq(Nat)
    BY DEF RenderTypes
  <2>2. Consume(s) /\ UNCHANGED <<queue, forcewake, leaked, releaseIndex, finishes>>
    BY <1>5 DEF SendFrame, ReleaseRender
  <2>3. shown' \in [Rendered -> Seq(Nat)] /\ rendered' \in [Rendered -> Seq(Nat)]
    BY <2>1, <2>2 DEF Consume, RenderTypes
  <2>4. render' \in [Rendered -> {"check", "get", "show", "end", "add", "compare", "stop", "leave",
                                  "off"}]
    BY <1>5 DEF SendFrame, ReleaseRender, RenderAt, RenderTypes
  <2>5. readIndex' \in [Rendered -> Nat]
    BY <1>5 DEF SendFrame, ReleaseRender, RenderTypes
  <2> QED
    BY <1>1, <1>2, <2>2, <2>3, <2>4, <2>5, KeepQueues DEF RenderTypes
<1>6. CASE RenderEnter(s) \/ HoldFrame(s) \/ AddReleaseIndex(s) \/ NotTheLast(s) \/ PlayFinish(s)
           \/ ResetReleaseIndex(s) \/ RenderLeave(s)
  <2>1. render' \in [Rendered -> {"check", "get", "show", "end", "add", "compare", "stop", "leave",
                                  "off"}]
    BY <1>6 DEF RenderEnter, HoldFrame, AddReleaseIndex, NotTheLast, PlayFinish, ResetReleaseIndex,
                RenderLeave, RenderAt, RenderTypes
  <2>2. /\ UNCHANGED <<queue, forcewake, shown, rendered, leaked, readIndex>>
        /\ releaseIndex' \in {releaseIndex, readIndex[s] + 1, 0} /\ finishes' \in {finishes, finishes + 1}
    BY <1>6 DEF RenderEnter, HoldFrame, AddReleaseIndex, NotTheLast, PlayFinish, ResetReleaseIndex,
                RenderLeave
  <2>3. releaseIndex' \in Nat /\ finishes' \in Nat
    BY <2>2 DEF RenderTypes
  <2> QED
    BY <1>1, <1>2, <2>1, <2>2, <2>3, KeepQueues DEF RenderTypes
<1> QED
  BY <1>3, <1>4, <1>5, <1>6 DEF RenderThread

(* stop(), and the user's thread.                                          *)
LEMMA StopKeeps ==
    ASSUME NEW c \in Callers, Stop(c)
    PROVE  /\ UNCHANGED <<demux, index, needSeek, readVars, decode, packet, frame, renderVars, user,
                          commands, interrupted>>
           /\ StopClear(c) \/ UNCHANGED <<queue, codec, dropped>>
           /\ StopEnter(c) \/ UNCHANGED flagVars
BY DEF Stop, StopEnter, StopCrash, StopWakePause, StopWakeQueues, StopWaitDemux, StopWaitDecoder,
       StopDecodersGone,
       StopWaitRenderer, StopRenderersGone, Delete, StopClear, beyondStop, Forcewake

LEMMA TypesStop ==
    ASSUME Ind, NEW c \in Callers, Stop(c)
    PROVE  Types'
<1> USE DEF Ind, Types
<1>1. DemuxTypes' /\ RenderTypes'
  BY StopKeeps DEF DemuxTypes, RenderTypes
<1>2. CASE StopClear(c)
  <2>1. QueueTypes'
    BY <1>2, CapIsNat DEF StopClear, QueueTypes
  <2>2. DecodeTypes'
    BY <1>2, SessionAssumption DEF StopClear, DecodeTypes
  <2>3. dropped' \in [Streams -> SUBSET Nat]
    <3>1. \A s \in Streams : /\ ToSet(queue[m_packetQueue(s)]) \subseteq Nat
                             /\ ToSet(queue[m_frameQueue(s)]) \subseteq Nat
                             /\ ToSet(codec[s]) \subseteq Nat
      BY QueueKinds, ElementsAreNat DEF QueueTypes, DecodeTypes
    <3> QED
      BY <1>2, <3>1 DEF StopClear, ControlTypes
  <2> QED
    BY <1>1, <1>2, <2>1, <2>2, <2>3 DEF StopClear, StopAt, ControlTypes
<1>3. CASE ~StopClear(c)
  <2>1. DecodeTypes'
    BY <1>3, StopKeeps DEF DecodeTypes
  <2>2. QueueTypes'
    BY <1>3, ForcewakeTypes, KeepQueues
       DEF Stop, StopEnter, StopCrash, StopWakePause, StopWakeQueues, StopWaitDemux,
           StopWaitDecoder, StopDecodersGone, StopWaitRenderer, StopRenderersGone, Delete
  <2>3. ControlTypes'
    BY <1>3, StopKeeps
       DEF Stop, StopEnter, StopCrash, StopWakePause, StopWakeQueues, StopWaitDemux,
           StopWaitDecoder, StopDecodersGone, StopWaitRenderer, StopRenderersGone, Delete, StopAt,
           ControlTypes
  <2> QED
    BY <1>1, <2>1, <2>2, <2>3
<1> QED
  BY <1>2, <1>3

LEMMA UserThreadKeeps ==
    ASSUME UserThread
    PROVE  /\ UNCHANGED <<queue, forcewake, demux, readVars, index, isRepeat, decodeVars,
                          renderVars, dropped, objectVars>>
           /\ UNCHANGED needSeek \/ SeekWait
           /\ \/ UNCHANGED flagVars
              \/ StopRender \/ StartRender \/ EndSelf(Demuxer) \/ SeekStart
           /\ UNCHANGED <<stopping, interrupted>> \/ SeekStop \/ StopSession
BY DEF UserThread, PauseOrResume, PauseSession, ResumeSession, TogglePause, Seek, SeekGoesOn,
       SeekToggle, SeekStop, SeekWait, SeekStart, SeekCrash, StopSession, StopReturns, beyondUser

LEMMA TypesUser ==
    ASSUME Ind, UserThread
    PROVE  Types'
<1> USE DEF Ind, Types
<1>1. QueueTypes' /\ DecodeTypes'
  BY UserThreadKeeps, KeepQueues DEF DecodeTypes
<1>2. RenderTypes'
  BY UserThreadKeeps DEF RenderTypes
<1>3. DemuxTypes'
  BY UserThreadKeeps DEF DemuxTypes
<1>5. user' \in {"free", "seekToggle", "seekStop", "seekWait", "seekStart", "stopping"}
  BY DEF UserThread, PauseOrResume, Seek, SeekGoesOn, SeekToggle, SeekStop, SeekWait, SeekStart,
         SeekCrash, StopSession, StopReturns, ControlTypes
<1>6. stopping' \in [Callers -> {"no", "enter", "wakePause", "wakeQueues", "demux", "decoders",
                                 "renderers", "clear"}]
  BY UserThreadKeeps DEF SeekStop, StopSession, beyondUser, ControlTypes
<1> QED
  BY <1>1, <1>2, <1>3, <1>5, <1>6, UserThreadKeeps DEF ControlTypes

(* A thread that falls asleep or wakes, and the whole of the next-state    *)
(* relation.                                                               *)
LEMMA SleepKeeps ==
    ASSUME NEW t \in Threads, Sleep(t) \/ EnterCrash(t)
    PROVE  UNCHANGED <<queue, forcewake, demuxVars, decodeVars, renderVars, pauseVars, controlVars,
                       dropped, flagVars>>
BY DEF Sleep, FallAsleep, EnterCrash

LEMMA TypesNext == Ind /\ [Next]_vars => Types'
<1> SUFFICES ASSUME Ind, [Next]_vars PROVE Types'
  OBVIOUS
<1>1. ASSUME NEW t \in Threads, Sleep(t) \/ EnterCrash(t) \/ UNCHANGED vars
      PROVE  Types'
  <2>1. UNCHANGED <<queue, forcewake, demuxVars, decodeVars, renderVars, controlVars, dropped>>
    BY <1>1, SleepKeeps DEF vars
  <2> QED
    BY <2>1, KeepQueues DEF Ind, Types, DemuxTypes, DecodeTypes, RenderTypes, ControlTypes
<1> QED
  BY <1>1, TypesDemux, TypesDecode, TypesRender, TypesStop, TypesUser DEF Next, Intact, Threads

(* Flags are set by stopRender(), by stop() and by a thread that ends      *)
(* itself, and cleared by start(), which spawns a thread.                  *)
LEMMA FlagStep ==
    ASSUME [Next]_vars
    PROVE  \/ UNCHANGED flagVars
           \/ StopRender \/ StartRender \/ SeekStart
           \/ \E t \in Threads : Enter(t)
           \/ EndSelf(Demuxer) \/ \E s \in Streams : EndSelf(Decoder(s))
           \/ \E c \in Callers : StopEnter(c)
<1>1. Demuxer \in Threads /\ \A s \in Streams : Decoder(s) \in Threads
  BY DEF Threads
<1>2. \A s \in Rendered : Renderer(s) \in Threads
  BY RenderedStreams
<1>3. UNCHANGED vars => UNCHANGED flagVars
  BY DEF vars
<1> QED
  BY <1>1, <1>2, <1>3, DemuxThreadKeeps, DecodeThreadKeeps, RenderThreadKeeps, StopKeeps,
     UserThreadKeeps, SleepKeeps DEF Next, Intact

LEMMA FlagTypesNext == FlagTypes /\ [Next]_vars => FlagTypes'
<1> SUFFICES ASSUME FlagTypes, [Next]_vars PROVE FlagTypes'
  OBVIOUS
<1>1. ASSUME NEW t \in Threads, Enter(t) PROVE FlagTypes'
  BY <1>1 DEF FlagTypes, Enter
<1>2. ASSUME NEW t, EndSelf(t) PROVE FlagTypes'
  BY <1>2 DEF FlagTypes, EndSelf
<1>3. ASSUME NEW c, StopEnter(c) PROVE FlagTypes'
  BY <1>3 DEF FlagTypes, StopEnter
<1>4. CASE StartRender
  BY <1>4 DEF FlagTypes, StartRender
<1>5. CASE StopRender
  BY <1>5 DEF FlagTypes, StopRender
<1>6. CASE SeekStart
  <2>1. /\ stopFlag' = [stopFlag EXCEPT ![Demuxer] = FALSE] /\ renderStops' = renderStops
        /\ spawned' = [spawned EXCEPT ![Demuxer] = spawned[Demuxer] + 1] \/ spawned' = spawned
    BY <1>6 DEF SeekStart
  <2> QED
    BY <2>1 DEF FlagTypes, Threads
<1>7. CASE UNCHANGED flagVars
  BY <1>7 DEF FlagTypes
<1> QED
  BY <1>1, <1>2, <1>3, <1>4, <1>5, <1>6, <1>7, FlagStep
-----------------------------------------------------------------------------
(* The path of a stream in its seven segments: shown, frame queue, the     *)
(* decoder's frame, its codec, its packet, packet queue, the demuxer.      *)
PathOf(r, q, f, c, k, p, h) == r \o q \o f \o c \o k \o p \o h

Reached(s) == IF s \in Rendered THEN rendered[s] \o shown[s] ELSE <<>>

LEMMA PathIs ==
    ASSUME NEW s
    PROVE  Path(s) = PathOf(Reached(s), queue[m_frameQueue(s)], frame[s], codec[s], packet[s],
                            queue[m_packetQueue(s)], InHand(s))
BY DEF Path, PathOf, Reached

(* The path and its segments are sequences of numbers, and what is on it.  *)
LEMMA SegmentTypes ==
    ASSUME Types, NEW s \in Streams
    PROVE  /\ Reached(s) \in Seq(Nat) /\ frame[s] \in Seq(Nat) /\ codec[s] \in Seq(Nat)
           /\ packet[s] \in Seq(Nat) /\ InHand(s) \in Seq(Nat)
           /\ queue[m_frameQueue(s)] \in Seq(Nat) /\ queue[m_packetQueue(s)] \in Seq(Nat)
           /\ sent[s] \in Nat
           /\ s \in Rendered => rendered[s] \in Seq(Nat) /\ shown[s] \in Seq(Nat)
<1>1. m_frameQueue(s) \in Queues /\ m_packetQueue(s) \in Queues
  BY QueueKinds
<1>2. sent[s] \in Nat
  BY DEF Types, DemuxTypes
<1>3. Reached(s) \in Seq(Nat)
  BY DEF Types, RenderTypes, Reached
<1>4. InHand(s) \in Seq(Nat)
  BY <1>2 DEF InHand
<1> QED
  BY <1>1, <1>2, <1>3, <1>4 DEF Types, QueueTypes, DecodeTypes, RenderTypes

LEMMA PathElements ==
    ASSUME Types, NEW s \in Streams
    PROVE  /\ Path(s) \in Seq(Nat)
           /\ ToSet(Path(s)) =
                  ToSet(Reached(s)) \cup ToSet(queue[m_frameQueue(s)]) \cup ToSet(frame[s])
                      \cup ToSet(codec[s]) \cup ToSet(packet[s])
                      \cup ToSet(queue[m_packetQueue(s)]) \cup ToSet(InHand(s))
<1> DEFINE r == Reached(s)
           q == queue[m_frameQueue(s)]
           f == frame[s]
           c == codec[s]
           k == packet[s]
           p == queue[m_packetQueue(s)]
           h == InHand(s)
<1>0. /\ r \in Seq(Nat) /\ q \in Seq(Nat) /\ f \in Seq(Nat) /\ c \in Seq(Nat) /\ k \in Seq(Nat)
      /\ p \in Seq(Nat) /\ h \in Seq(Nat)
  BY SegmentTypes
<1>8. Path(s) = PathOf(r, q, f, c, k, p, h)
  BY PathIs
<1> HIDE DEF r, q, f, c, k, p, h
<1> DEFINE a == r \o q
           b == a \o f
           d == b \o c
           e == d \o k
           g == e \o p
<1>1. ToSet(a) = ToSet(r) \cup ToSet(q) /\ a \in Seq(Nat)
  BY <1>0, ConcatElements
<1> HIDE DEF a
<1>2. ToSet(b) = ToSet(a) \cup ToSet(f) /\ b \in Seq(Nat)
  BY <1>0, <1>1, ConcatElements
<1> HIDE DEF b
<1>3. ToSet(d) = ToSet(b) \cup ToSet(c) /\ d \in Seq(Nat)
  BY <1>0, <1>2, ConcatElements
<1> HIDE DEF d
<1>4. ToSet(e) = ToSet(d) \cup ToSet(k) /\ e \in Seq(Nat)
  BY <1>0, <1>3, ConcatElements
<1> HIDE DEF e
<1>5. ToSet(g) = ToSet(e) \cup ToSet(p) /\ g \in Seq(Nat)
  BY <1>0, <1>4, ConcatElements
<1> HIDE DEF g
<1>6. ToSet(g \o h) = ToSet(g) \cup ToSet(h) /\ g \o h \in Seq(Nat)
  BY <1>0, <1>5, ConcatElements
<1>7. PathOf(r, q, f, c, k, p, h) = g \o h
  BY DEF PathOf, a, b, d, e, g
<1>9. ToSet(Path(s)) = ToSet(r) \cup ToSet(q) \cup ToSet(f) \cup ToSet(c) \cup ToSet(k) \cup ToSet(p)
                           \cup ToSet(h)
  BY <1>1, <1>2, <1>3, <1>4, <1>5, <1>6, <1>7, <1>8
<1> QED
  BY <1>6, <1>7, <1>8, <1>9 DEF r, q, f, c, k, p, h

(* How an item moves along.                                                *)
LEMMA TakeFrame ==
    ASSUME NEW r \in Seq(Nat), NEW q \in Seq(Nat), NEW f, NEW c, NEW k, NEW p, NEW h, q # <<>>
    PROVE  PathOf(r \o <<>>, q, f, c, k, p, h) = PathOf(r \o <<Head(q)>>, Tail(q), f, c, k, p, h)
BY MoveHead DEF PathOf

LEMMA GiveFrame ==
    ASSUME NEW r \in Seq(Nat), NEW q \in Seq(Nat), NEW x \in Nat, NEW c, NEW k, NEW p, NEW h
    PROVE  PathOf(r, q, <<x>>, c, k, p, h) = PathOf(r, Append(q, x), <<>>, c, k, p, h)
BY MoveLast DEF PathOf

LEMMA DrainFrame ==
    ASSUME NEW r \in Seq(Nat), NEW q \in Seq(Nat), NEW c \in Seq(Nat), NEW k, NEW p, NEW h,
           c # <<>>
    PROVE  PathOf(r, q, <<>>, c, k, p, h) = PathOf(r, q, <<Head(c)>>, Tail(c), k, p, h)
<1>1. r \o q \in Seq(Nat)
  OBVIOUS
<1> QED
  BY <1>1, MoveHead DEF PathOf

LEMMA DrainEnd ==
    ASSUME NEW r \in Seq(Nat), NEW q \in Seq(Nat), NEW k \in Seq(Nat), NEW p, NEW h
    PROVE  PathOf(r, q, <<>>, <<>>, k, p, h) = PathOf(r, q, k, <<>>, <<>>, p, h)
<1> DEFINE a == r \o q
<1>1. a \in Seq(Nat)
  OBVIOUS
<1> HIDE DEF a
<1>2. ((a \o <<>>) \o <<>>) \o k = ((a \o k) \o <<>>) \o <<>>
  BY <1>1, ConcatEmptySeq
<1> QED
  BY <1>2 DEF PathOf, a

LEMMA KeepInCodec ==
    ASSUME NEW r \in Seq(Nat), NEW q \in Seq(Nat), NEW f \in Seq(Nat), NEW c \in Seq(Nat),
           NEW k \in Seq(Nat), NEW p, NEW h
    PROVE  PathOf(r, q, f, c, k, p, h) = PathOf(r, q, f, c \o k, <<>>, p, h)
<1> DEFINE a == r \o q \o f
<1>1. a \in Seq(Nat)
  OBVIOUS
<1> HIDE DEF a
<1>2. (a \o c) \o k = a \o (c \o k)
  BY <1>1
<1>3. a \o (c \o k) \in Seq(Nat)
  BY <1>1
<1>4. (a \o (c \o k)) \o <<>> = a \o (c \o k)
  BY <1>3, ConcatEmptySeq
<1> QED
  BY <1>2, <1>4 DEF PathOf, a

LEMMA TakePacket ==
    ASSUME NEW r \in Seq(Nat), NEW q \in Seq(Nat), NEW f \in Seq(Nat), NEW c \in Seq(Nat),
           NEW p \in Seq(Nat), NEW h, p # <<>>
    PROVE  PathOf(r, q, f, c, <<>>, p, h) = PathOf(r, q, f, c, <<Head(p)>>, Tail(p), h)
<1>1. r \o q \o f \o c \in Seq(Nat)
  OBVIOUS
<1> QED
  BY <1>1, MoveHead DEF PathOf

(* How one gets lost.                                                      *)
LEMMA LoseReached ==
    ASSUME NEW r \in Seq(Nat), NEW v \in Seq(Nat), NEW q \in Seq(Nat), NEW f \in Seq(Nat),
           NEW c \in Seq(Nat), NEW k \in Seq(Nat), NEW p \in Seq(Nat), NEW h \in Seq(Nat),
           NEW L, Loses(r, v, L)
    PROVE  Loses(PathOf(r, q, f, c, k, p, h), PathOf(v, q, f, c, k, p, h), L)
<1> DEFINE a(x) == x \o q
           b(x) == a(x) \o f
           d(x) == b(x) \o c
           e(x) == d(x) \o k
           g(x) == e(x) \o p
<1>1. Loses(a(r), a(v), L) /\ a(r) \in Seq(Nat) /\ a(v) \in Seq(Nat)
  BY LosesInside
<1> HIDE DEF a
<1>2. Loses(b(r), b(v), L) /\ b(r) \in Seq(Nat) /\ b(v) \in Seq(Nat)
  BY <1>1, LosesInside
<1> HIDE DEF b
<1>3. Loses(d(r), d(v), L) /\ d(r) \in Seq(Nat) /\ d(v) \in Seq(Nat)
  BY <1>2, LosesInside
<1> HIDE DEF d
<1>4. Loses(e(r), e(v), L) /\ e(r) \in Seq(Nat) /\ e(v) \in Seq(Nat)
  BY <1>3, LosesInside
<1> HIDE DEF e
<1>5. Loses(g(r), g(v), L) /\ g(r) \in Seq(Nat) /\ g(v) \in Seq(Nat)
  BY <1>4, LosesInside
<1> HIDE DEF g
<1>6. Loses(g(r) \o h, g(v) \o h, L)
  BY <1>5, LosesInside
<1> QED
  BY <1>6 DEF PathOf, a, b, d, e, g

LEMMA LoseFront ==
    ASSUME NEW r \in Seq(Nat), NEW q \in Seq(Nat), NEW v \in Seq(Nat), NEW f \in Seq(Nat),
           NEW c \in Seq(Nat), NEW k \in Seq(Nat), NEW p \in Seq(Nat), NEW h \in Seq(Nat),
           NEW L, Loses(r \o q, r \o v, L)
    PROVE  Loses(PathOf(r, q, f, c, k, p, h), PathOf(r, v, f, c, k, p, h), L)
<1> DEFINE a == r \o q
           b == r \o v
<1>1. a \in Seq(Nat) /\ b \in Seq(Nat) /\ <<>> \in Seq(Nat) /\ Loses(a, b, L)
  OBVIOUS
<1> HIDE DEF a, b
<1>2. a \o <<>> = a /\ b \o <<>> = b
  BY <1>1, ConcatEmptySeq
<1>3. /\ PathOf(a, <<>>, f, c, k, p, h) = PathOf(r, q, f, c, k, p, h)
      /\ PathOf(b, <<>>, f, c, k, p, h) = PathOf(r, v, f, c, k, p, h)
  BY <1>2 DEF PathOf, a, b
<1>4. Loses(PathOf(a, <<>>, f, c, k, p, h), PathOf(b, <<>>, f, c, k, p, h), L)
  BY <1>1, LoseReached, Zenon
<1> QED
  BY <1>3, <1>4
LEMMA LoseFrame ==
    ASSUME NEW r \in Seq(Nat), NEW q \in Seq(Nat), NEW x \in Nat, NEW c \in Seq(Nat),
           NEW k \in Seq(Nat), NEW p \in Seq(Nat), NEW h \in Seq(Nat)
    PROVE  Loses(PathOf(r, q, <<x>>, c, k, p, h), PathOf(r, q, <<>>, c, k, p, h), {x})
<1> DEFINE a == r \o q
           one == <<x>>
           b == a \o one
<1>1. a \in Seq(Nat) /\ one \in Seq(Nat) /\ <<>> \in Seq(Nat) /\ ToSet(one) = {x}
  BY Short
<1> HIDE DEF a, one
<1>2. b \in Seq(Nat) /\ Loses(b, a, {x})
  <2>1. Loses(a \o one, a, ToSet(one))
    BY <1>1, LosesSegment
  <2> QED
    BY <1>1, <2>1
<1> HIDE DEF b
<1>3. a \o <<>> = a /\ b \o <<>> = b
  BY <1>1, <1>2, ConcatEmptySeq
<1>4. /\ PathOf(b, <<>>, <<>>, c, k, p, h) = PathOf(r, q, <<x>>, c, k, p, h)
      /\ PathOf(a, <<>>, <<>>, c, k, p, h) = PathOf(r, q, <<>>, c, k, p, h)
  BY <1>3 DEF PathOf, a, b, one
<1>5. Loses(PathOf(b, <<>>, <<>>, c, k, p, h), PathOf(a, <<>>, <<>>, c, k, p, h), {x})
  BY <1>1, <1>2, LoseReached, Zenon
<1> QED
  BY <1>4, <1>5

LEMMA LosesTail ==
    ASSUME NEW a \in Seq(Nat), NEW b \in Seq(Nat)
    PROVE  Loses(a \o b, a \o <<>>, ToSet(b))
BY LosesSegment, ConcatEmptySeq

LEMMA LosePacket ==
    ASSUME NEW r \in Seq(Nat), NEW q \in Seq(Nat), NEW f \in Seq(Nat), NEW c \in Seq(Nat),
           NEW k \in Seq(Nat), NEW p \in Seq(Nat), NEW h \in Seq(Nat), p # <<>>
    PROVE  Loses(PathOf(r, q, f, c, k, p, h), PathOf(r, q, f, c, k, Tail(p), h), {Head(p)})
<1> DEFINE a == r \o q \o f \o c \o k
           b == a \o p
           d == a \o Tail(p)
<1>1. a \in Seq(Nat) /\ Tail(p) \in Seq(Nat)
  BY HeadAndTail
<1> HIDE DEF a
<1>2. b \in Seq(Nat) /\ d \in Seq(Nat)
  BY <1>1
<1>3. Loses(b, d, {Head(p)})
  BY <1>1, LosesHead
<1> HIDE DEF b, d
<1>4. Loses(b \o h, d \o h, {Head(p)})
  BY <1>2, <1>3, LosesInside
<1> QED
  BY <1>4 DEF PathOf, a, b, d

LEMMA LoseRead ==
    ASSUME NEW r \in Seq(Nat), NEW q \in Seq(Nat), NEW f \in Seq(Nat), NEW c \in Seq(Nat),
           NEW k \in Seq(Nat), NEW p \in Seq(Nat), NEW x \in Nat
    PROVE  Loses(PathOf(r, q, f, c, k, p, <<x>>), PathOf(r, q, f, c, k, p, <<>>), {x})
<1> DEFINE a == r \o q \o f \o c \o k \o p
           one == <<x>>
<1>1. a \in Seq(Nat) /\ one \in Seq(Nat) /\ ToSet(one) = {x}
  BY Short
<1> HIDE DEF a, one
<1>2. Loses(a \o one, a \o <<>>, ToSet(one))
  BY <1>1, LosesTail
<1> QED
  BY <1>1, <1>2 DEF PathOf, a, one

LEMMA LoseAll ==
    ASSUME NEW r \in Seq(Nat), NEW q \in Seq(Nat), NEW f \in Seq(Nat), NEW c \in Seq(Nat),
           NEW k \in Seq(Nat), NEW p \in Seq(Nat), NEW h \in Seq(Nat)
    PROVE  Loses(PathOf(r, q, f, c, k, p, h), PathOf(r, <<>>, f, <<>>, k, <<>>, h),
                 ToSet(q) \cup ToSet(c) \cup ToSet(p))
<1> DEFINE a(x) == r \o x
           b(x) == a(x) \o f
           d(x, y) == b(x) \o y
           e(x, y) == d(x, y) \o k
           g(x, y, z) == e(x, y) \o z
<1>0. <<>> \in Seq(Nat)
  OBVIOUS
<1>1. \A x \in Seq(Nat) : a(x) \in Seq(Nat)
  OBVIOUS
<1>2. Loses(a(q), a(<<>>), ToSet(q))
  BY LosesTail
<1> HIDE DEF a
<1>3. \A x \in Seq(Nat) : b(x) \in Seq(Nat)
  BY <1>1
<1>4. Loses(b(q), b(<<>>), ToSet(q))
  BY <1>0, <1>1, <1>2, LosesInside
<1> HIDE DEF b
<1>5. \A x, y \in Seq(Nat) : d(x, y) \in Seq(Nat)
  BY <1>3
<1>6. Loses(d(q, c), d(<<>>, c), ToSet(q))
  BY <1>0, <1>3, <1>4, LosesInside
<1>7. Loses(d(<<>>, c), d(<<>>, <<>>), ToSet(c))
  BY <1>0, <1>3, LosesTail
<1>8. Loses(d(q, c), d(<<>>, <<>>), ToSet(q) \cup ToSet(c))
  BY <1>6, <1>7, LosesTwice
<1> HIDE DEF d
<1>9. \A x, y \in Seq(Nat) : e(x, y) \in Seq(Nat)
  BY <1>5
<1>10. Loses(e(q, c), e(<<>>, <<>>), ToSet(q) \cup ToSet(c))
  BY <1>0, <1>5, <1>8, LosesInside
<1> HIDE DEF e
<1>11. \A x, y, z \in Seq(Nat) : g(x, y, z) \in Seq(Nat)
  BY <1>9
<1>12. Loses(g(q, c, p), g(<<>>, <<>>, p), ToSet(q) \cup ToSet(c))
  BY <1>0, <1>9, <1>10, LosesInside
<1>13. Loses(g(<<>>, <<>>, p), g(<<>>, <<>>, <<>>), ToSet(p))
  BY <1>0, <1>9, LosesTail
<1>14. Loses(g(q, c, p), g(<<>>, <<>>, <<>>), ToSet(q) \cup ToSet(c) \cup ToSet(p))
  BY <1>12, <1>13, LosesTwice
<1> HIDE DEF g
<1>15. Loses(g(q, c, p) \o h, g(<<>>, <<>>, <<>>) \o h, ToSet(q) \cup ToSet(c) \cup ToSet(p))
  BY <1>0, <1>11, <1>14, LosesInside
<1> QED
  BY <1>15 DEF PathOf, a, b, d, e, g

-----------------------------------------------------------------------------
(* What a step may do to the demuxer, to one decoder and to one renderer.  *)
LEMMA DemuxStep ==
    ASSUME [Next]_vars
    PROVE  DemuxThread \/ UNCHANGED <<demux, index, readVars>>
<1>1. ASSUME NEW s \in Streams, DecodeThread(s) PROVE UNCHANGED <<demux, index, readVars>>
  BY <1>1, DecodeThreadKeeps
<1>2. ASSUME NEW s \in Rendered, RenderThread(s) PROVE UNCHANGED <<demux, index, readVars>>
  BY <1>2, RenderThreadKeeps
<1>3. ASSUME NEW c \in Callers, Stop(c) PROVE UNCHANGED <<demux, index, readVars>>
  BY <1>3, StopKeeps
<1>4. ASSUME NEW t \in Threads, Sleep(t) \/ EnterCrash(t) PROVE UNCHANGED <<demux, index, readVars>>
  BY <1>4, SleepKeeps
<1>5. UserThread => UNCHANGED <<demux, index, readVars>>
  BY UserThreadKeeps
<1>6. UNCHANGED vars => UNCHANGED <<demux, index, readVars>>
  BY DEF vars
<1> QED
  BY <1>1, <1>2, <1>3, <1>4, <1>5, <1>6, Zenon DEF Next, Intact

LEMMA ReadStep ==
    ASSUME [Next]_vars
    PROVE  UNCHANGED <<sent, ends>> \/ (\E s \in Streams : DemuxRead(s)) \/ DemuxEof
<1>1. CASE DemuxThread
  BY <1>1 DEF DemuxThread, DemuxEnter, DemuxLeave, DemuxCheck, DemuxControl, DemuxWaitPause,
              DemuxSeek, ClearForcewake,
              ClearTest, ClearPop, DemuxError, RecvPacket, RecvPacketBlocks, Judge, DemuxStop
<1> QED
  BY <1>1, DemuxStep

LEMMA DecodeStep ==
    ASSUME Types, [Next]_vars, NEW s \in Streams
    PROVE  \/ DecodeThread(s)
           \/ /\ UNCHANGED <<decode[s], packet[s], frame[s]>>
              /\ codec'[s] = codec[s] \/ (codec'[s] = <<>> /\ \E c \in Callers : StopClear(c))
<1>1. ASSUME NEW t \in Streams, DecodeThread(t), t # s
      PROVE  UNCHANGED <<decode[s], packet[s], frame[s], codec[s]>>
  BY <1>1 DEF DecodeThread, DecodeEnter, DecodeCheck, DecodeGet, DecodeData, DecodeDrain, RecvFrame,
              RecvFrameBlocks, Types, DecodeTypes
<1>2. ASSUME NEW c \in Callers, Stop(c)
      PROVE  /\ UNCHANGED <<decode, packet, frame>>
             /\ codec'[s] = codec[s] \/ (codec'[s] = <<>> /\ StopClear(c))
  BY <1>2, StopKeeps DEF StopClear
<1>3. ASSUME DemuxThread \/ (\E t \in Rendered : RenderThread(t)) \/ UserThread
             \/ (\E t \in Threads : Sleep(t) \/ EnterCrash(t)) \/ UNCHANGED vars
      PROVE  UNCHANGED <<decode, packet, frame, codec>>
  BY <1>3, DemuxThreadKeeps, RenderThreadKeeps, UserThreadKeeps, SleepKeeps DEF vars
<1> QED
  BY <1>1, <1>2, <1>3 DEF Next, Intact

LEMMA RenderStep ==
    ASSUME Types, [Next]_vars, NEW s \in Rendered
    PROVE  RenderThread(s) \/ UNCHANGED <<shown[s], rendered[s], leaked[s], readIndex[s],
                                          render[s]>>
<1>1. ASSUME NEW t \in Rendered, RenderThread(t), t # s
      PROVE  UNCHANGED <<shown[s], rendered[s], leaked[s], readIndex[s], render[s]>>
  BY <1>1 DEF RenderThread, RenderEnter, RenderCheck, GetFrontFrame, HoldFrame, SendFrame,
              ReleaseRender, AddReleaseIndex, NotTheLast, PlayFinish, ResetReleaseIndex,
              RenderLeave, RenderAt, Consume, Types, RenderTypes
<1>2. ASSUME (\E t \in Streams : DecodeThread(t)) \/ (\E c \in Callers : Stop(c))
             \/ (\E t \in Threads : Sleep(t) \/ EnterCrash(t)) \/ UNCHANGED vars
             \/ DemuxThread \/ UserThread
      PROVE  UNCHANGED <<shown, rendered, leaked, readIndex, render>>
  BY <1>2, DecodeThreadKeeps, StopKeeps, SleepKeeps, DemuxThreadKeeps, UserThreadKeeps DEF vars
<1> QED
  BY <1>1, <1>2 DEF Next, Intact

(* Each thread's place says what it holds, in every step of any thread.    *)
LEMMA DemuxHoldsNext == Ind /\ [Next]_vars => DemuxHolds'
<1> SUFFICES ASSUME Ind, [Next]_vars PROVE DemuxHolds'
  OBVIOUS
<1> USE DEF Ind
<1>1. CASE UNCHANGED <<demux, index, readVars>>
  BY <1>1 DEF DemuxHolds, Target
<1>2. CASE DemuxEnter \/ DemuxLeave \/ DemuxCheck \/ DemuxControl \/ DemuxWaitPause \/ DemuxError \/ Judge \/ DemuxStop
           \/ RecvPacketBlocks \/ ClearForcewake \/ ClearPop
  BY <1>2 DEF DemuxHolds, Target, DemuxEnter, DemuxLeave, DemuxCheck, DemuxControl, DemuxWaitPause,
              DemuxError, Judge, DemuxStop, RecvPacketBlocks, ClearForcewake, ClearPop
<1>3. CASE DemuxSeek \/ ClearTest \/ DemuxEof
  BY <1>3, QueuesAssumption DEF DemuxHolds, Target, DemuxSeek, ClearTest, DemuxEof, Streams
<1>4. ASSUME NEW s \in Streams, DemuxRead(s) PROVE DemuxHolds'
  BY <1>4, QueuesAssumption DEF DemuxHolds, Target, DemuxRead, Streams
<1>5. CASE RecvPacket
  BY <1>5, QueuesAssumption DEF DemuxHolds, Target, RecvPacket, Streams, Types, DemuxTypes
<1> QED
  BY <1>1, <1>2, <1>3, <1>4, <1>5, DemuxStep DEF DemuxThread

LEMMA EndsReadNext == Ind /\ [Next]_vars => EndsRead' /\ \A s \in Streams : ends[s] \subseteq ends'[s]
<1> SUFFICES ASSUME Ind, [Next]_vars, NEW s \in Streams
             PROVE  ends'[s] \subseteq 1..sent'[s] /\ ends[s] \subseteq ends'[s]
  BY DEF EndsRead
<1>1. ends[s] \subseteq 1..sent[s] /\ sent[s] \in Nat
  BY DEF Ind, EndsRead, Types, DemuxTypes
<1>2. \A n \in Nat : 1..n \subseteq 1..(n + 1) /\ n + 1 \in 1..(n + 1)
  OBVIOUS
<1>3. \/ ends'[s] = ends[s] /\ sent'[s] \in {sent[s], sent[s] + 1}
      \/ ends'[s] = ends[s] \cup {sent[s] + 1} /\ sent'[s] = sent[s] + 1
  BY ReadStep DEF DemuxRead, DemuxEof, Ind, Types, DemuxTypes
<1> QED
  BY <1>1, <1>2, <1>3

(* Everything on its way was read, the new end packet is not on its way.   *)
LEMMA OnPath ==
    ASSUME Types, Paths, NEW s \in Streams
    PROVE  /\ ToSet(Reached(s)) \cup ToSet(queue[m_frameQueue(s)]) \cup ToSet(frame[s])
                  \cup ToSet(codec[s]) \cup ToSet(packet[s]) \cup ToSet(queue[m_packetQueue(s)])
                  \cup ToSet(InHand(s)) = ToSet(Path(s))
           /\ ToSet(Path(s)) \subseteq 1..sent[s] /\ sent[s] + 1 \notin ToSet(Path(s))
<1>1. sent[s] \in Nat
  BY SegmentTypes
<1>2. ToSet(Path(s)) \subseteq 1..sent[s] /\ sent[s] + 1 \notin 1..sent[s]
  BY <1>1 DEF Paths, Accounted
<1> QED
  BY <1>2, PathElements

LEMMA DecodeHoldsNext == Ind /\ [Next]_vars => DecodeHolds'
<1> SUFFICES ASSUME Ind, [Next]_vars, NEW s \in Streams
             PROVE  (/\ Len(packet[s]) <= 1 /\ Len(frame[s]) <= 1
                     /\ (frame[s] # <<>>) <=> (decode[s] \in {"put", "drainPut"})
                     /\ decode[s] \in {"decode", "drain"} => packet[s] # <<>>
                     /\ decode[s] \in {"check", "get", "put", "off"} => packet[s] = <<>>
                     /\ decode[s] = "decode" => Head(packet[s]) \notin ends[s]
                     /\ decode[s] = "put" => Head(frame[s]) \notin ends[s]
                     /\ decode[s] = "drain" => Head(packet[s]) \in ends[s]
                     /\ decode[s] = "drainPut" =>
                            IF packet[s] = <<>> THEN Head(frame[s]) \in ends[s]
                            ELSE Head(packet[s]) \in ends[s] /\ Head(frame[s]) \notin ends[s]
                     /\ ToSet(codec[s]) \cap ends[s] = {})'
  BY DEF DecodeHolds
<1> DEFINE Held(d, k, f, c, e) ==
             /\ Len(k) <= 1 /\ Len(f) <= 1
             /\ (f # <<>>) <=> (d \in {"put", "drainPut"})
             /\ d \in {"decode", "drain"} => k # <<>>
             /\ d \in {"check", "get", "put", "off"} => k = <<>>
             /\ d = "decode" => Head(k) \notin e
             /\ d = "put" => Head(f) \notin e
             /\ d = "drain" => Head(k) \in e
             /\ d = "drainPut" => IF k = <<>> THEN Head(f) \in e
                                  ELSE Head(k) \in e /\ Head(f) \notin e
             /\ ToSet(c) \cap e = {}
<1>1. Held(decode[s], packet[s], frame[s], codec[s], ends[s])
  BY DEF Ind, DecodeHolds
<1> SUFFICES Held(decode'[s], packet'[s], frame'[s], codec'[s], ends'[s])
  OBVIOUS
<1>2. /\ codec[s] \in Seq(Nat) /\ packet[s] \in Seq(Nat) /\ frame[s] \in Seq(Nat)
      /\ decode[s] \in {"check", "get", "decode", "put", "drain", "drainPut", "off"}
  BY DEF Ind, Types, DecodeTypes
<1>3. CASE ~DecodeThread(s)
  <2>1. UNCHANGED <<decode[s], packet[s], frame[s]>> /\ codec'[s] \in {codec[s], <<>>}
    BY <1>3, DecodeStep DEF Ind
  <2>2. Held(decode[s], packet[s], frame[s], codec'[s], ends[s])
    BY <1>1, <2>1, Short
  <2>3. CASE ends'[s] = ends[s]
    BY <2>1, <2>2, <2>3
  <2>4. CASE ends'[s] = ends[s] \cup {sent[s] + 1}
    <3>1. /\ sent[s] + 1 \notin ToSet(packet[s]) /\ sent[s] + 1 \notin ToSet(frame[s])
          /\ sent[s] + 1 \notin ToSet(codec[s])
      BY OnPath DEF Ind
    <3>2. /\ packet[s] # <<>> => Head(packet[s]) \in ToSet(packet[s])
          /\ frame[s] # <<>> => Head(frame[s]) \in ToSet(frame[s])
      BY <1>2, HeadAndTail
    <3>3. sent[s] + 1 \notin ToSet(codec'[s])
      BY <2>1, <3>1, Short
    <3> QED
      BY <2>1, <2>2, <2>4, <3>1, <3>2, <3>3
  <2> QED
    BY <2>3, <2>4, ReadStep DEF DemuxRead, DemuxEof
<1>4. CASE DecodeThread(s)
  <2>1. ends' = ends
    BY <1>4, DecodeThreadKeeps
  <2>2. CASE DecodeEnter(s) \/ DecodeCheck(s)
    <3>1. /\ UNCHANGED <<packet, codec, frame>>
          /\ decode[s] \in {"off", "check"} /\ decode'[s] \in {"check", "get", "off"}
      BY <2>2 DEF DecodeEnter, DecodeCheck, Ind, Types, DecodeTypes
    <3> QED
      BY <1>1, <2>1, <3>1
  <2>3. CASE DecodeGet(s)
    <3> DEFINE n == Head(queue[m_packetQueue(s)])
               one == <<n>>
    <3>1. /\ decode[s] = "get" /\ UNCHANGED <<codec, frame>>
          /\ \/ packet'[s] = one /\ decode'[s] = IF n \in ends[s] THEN "drain" ELSE "decode"
             \/ packet'[s] = packet[s] /\ decode'[s] \in {"check", "get"}
      BY <2>3 DEF DecodeGet, Ind, Types, DecodeTypes
    <3>2. Len(one) <= 1 /\ Head(one) = n /\ one # <<>>
      OBVIOUS
    <3> HIDE DEF n, one
    <3> QED
      BY <1>1, <2>1, <3>1, <3>2
  <2>4. CASE DecodeData(s)
    <3> DEFINE frames == codec[s] \o packet[s]
    <3>1. decode[s] = "decode" /\ packet'[s] = <<>>
      BY <2>4 DEF DecodeData, Ind, Types, DecodeTypes
    <3>2. packet[s] = <<Head(packet[s])>> /\ ToSet(packet[s]) \cap ends[s] = {}
      BY <1>1, <1>2, <3>1, Single
    <3>3. frames \in Seq(Nat) /\ ToSet(frames) \cap ends[s] = {}
      BY <1>1, <1>2, <3>2, ConcatElements
    <3>4. /\ frames # <<>>
          /\ Head(frames) \in ToSet(frames) /\ Tail(frames) \in Seq(Nat)
          /\ frames = <<Head(frames)>> \o Tail(frames)
      <4>1. frames # <<>>
        BY <1>1, <1>2, <3>1
      <4> HIDE DEF frames
      <4> QED
        BY <3>3, <4>1, HeadAndTail
    <3>5. \/ /\ frame'[s] = <<Head(frames)>> /\ codec'[s] = Tail(frames) /\ decode'[s] = "put"
          \/ /\ frame'[s] = frame[s] /\ codec'[s] = frames /\ decode'[s] = "check"
      BY <2>4 DEF DecodeData, Ind, Types, DecodeTypes
    <3> DEFINE one == <<Head(frames)>>
    <3> HIDE DEF frames
    <3>6. ToSet(Tail(frames)) \subseteq ToSet(frames)
      <4>1. Tail(frames) \in Seq(Nat) /\ <<Head(frames)>> \in Seq(Nat)
        BY <3>3, <3>4, ElementsAreNat
      <4> QED
        BY <3>4, <4>1, ConcatElements
    <3>7. Len(one) <= 1 /\ Head(one) = Head(frames) /\ one # <<>> /\ Len(<<>>) <= 1
      OBVIOUS
    <3>8. \/ frame'[s] = one /\ codec'[s] = Tail(frames) /\ decode'[s] = "put"
          \/ frame'[s] = frame[s] /\ codec'[s] = frames /\ decode'[s] = "check"
      BY <3>5
    <3> HIDE DEF one
    <3> QED
      BY <1>1, <2>1, <3>1, <3>3, <3>4, <3>6, <3>7, <3>8
  <2>5. CASE DecodeDrain(s)
    <3>1. decode[s] = "drain" /\ decode'[s] = "drainPut"
      BY <2>5 DEF DecodeDrain, Ind, Types, DecodeTypes
    <3>2. CASE codec[s] # <<>>
      <4>1. frame'[s] = <<Head(codec[s])>> /\ codec'[s] = Tail(codec[s]) /\ packet'[s] = packet[s]
        BY <2>5, <3>2 DEF DecodeDrain, Ind, Types, DecodeTypes
      <4>2. /\ Head(codec[s]) \in ToSet(codec[s]) /\ Tail(codec[s]) \in Seq(Nat)
            /\ codec[s] = <<Head(codec[s])>> \o Tail(codec[s])
        BY <1>2, <3>2, HeadAndTail
      <4>3. ToSet(Tail(codec[s])) \subseteq ToSet(codec[s])
        <5>1. <<Head(codec[s])>> \in Seq(Nat)
          BY <1>2, <4>2, ElementsAreNat
        <5> QED
          BY <4>2, <5>1, ConcatElements
      <4>4. /\ Len(<<Head(codec[s])>>) = 1 /\ Head(<<Head(codec[s])>>) = Head(codec[s])
            /\ <<Head(codec[s])>> # <<>>
        OBVIOUS
      <4> QED
        BY <1>1, <2>1, <3>1, <4>1, <4>2, <4>3, <4>4
    <3>3. CASE codec[s] = <<>>
      <4>1. frame'[s] = packet[s] /\ codec'[s] = codec[s] /\ packet'[s] = <<>>
        BY <2>5, <3>3 DEF DecodeDrain, Ind, Types, DecodeTypes
      <4>2. Len(<<>>) = 0
        OBVIOUS
      <4> QED
        BY <1>1, <2>1, <3>1, <4>1, <4>2
    <3> QED
      BY <3>2, <3>3
  <2>6. CASE RecvFrame(s)
    <3>1. /\ frame'[s] = <<>> /\ UNCHANGED <<packet, codec>>
          /\ decode[s] \in {"put", "drainPut"}
          /\ decode'[s] = IF Head(frame[s]) \in ends[s] \/ decode[s] = "put"
                          THEN "check" ELSE "drain"
      BY <2>6 DEF RecvFrame, Ind, Types, DecodeTypes
    <3>2. Len(<<>>) = 0
      OBVIOUS
    <3> QED
      BY <1>1, <2>1, <3>1, <3>2
  <2>7. CASE RecvFrameBlocks(s)
    BY <1>1, <2>1, <2>7 DEF RecvFrameBlocks
  <2> QED
    BY <1>4, <2>2, <2>3, <2>4, <2>5, <2>6, <2>7 DEF DecodeThread
<1> QED
  BY <1>3, <1>4

LEMMA RenderHoldsNext == Ind /\ [Next]_vars => RenderHolds'
<1> SUFFICES ASSUME Ind, [Next]_vars, NEW s \in Rendered
             PROVE  (/\ Len(shown[s]) <= 1
                     /\ render[s] \notin {"check", "show", "end"} => shown[s] = <<>>
                     /\ render[s] = "end" => shown[s] # <<>> /\ Head(shown[s]) \in ends[s])'
  BY DEF RenderHolds
<1>1. /\ Len(shown[s]) <= 1
      /\ render[s] \notin {"check", "show", "end"} => shown[s] = <<>>
      /\ render[s] = "end" => shown[s] # <<>> /\ Head(shown[s]) \in ends[s]
  BY DEF Ind, RenderHolds
<1>2. ends[s] \subseteq ends'[s] /\ s \in Streams
  BY EndsReadNext, RenderedStreams
<1>3. CASE ~RenderThread(s)
  BY <1>1, <1>2, <1>3, RenderStep DEF Ind
<1>4. CASE RenderThread(s)
  <2>1. CASE GetFrontFrame(s)
    <3> DEFINE n == Head(queue[m_frameQueue(s)])
               one == <<n>>
    <3>1. \/ shown'[s] = one /\ render'[s] = IF n \in ends[s] THEN "end" ELSE "show"
          \/ shown'[s] = shown[s] /\ render'[s] \in {"leave", "get"} /\ render[s] = "get"
      BY <2>1 DEF GetFrontFrame, RenderAt, Ind, Types, RenderTypes
    <3>2. Len(one) <= 1 /\ Head(one) = n /\ one # <<>>
      OBVIOUS
    <3> HIDE DEF n, one
    <3> QED
      BY <1>1, <1>2, <3>1, <3>2
  <2>2. CASE RenderCheck(s)
    <3>1. \/ shown'[s] = <<>> /\ render'[s] = "leave"
          \/ /\ shown'[s] = shown[s]
             /\ render'[s] = IF shown[s] = <<>> THEN "get" ELSE "show"
      BY <2>2 DEF RenderCheck, RenderAt, Ind, Types, RenderTypes
    <3> QED
      BY <1>1, <3>1
  <2>3. CASE SendFrame(s) \/ ReleaseRender(s)
    <3>1. shown'[s] = <<>> /\ render'[s] \in {"check", "add"}
      BY <2>3 DEF SendFrame, ReleaseRender, Consume, RenderAt, Ind, Types, RenderTypes
    <3> QED
      BY <3>1
  <2>4. CASE RenderEnter(s) \/ HoldFrame(s) \/ AddReleaseIndex(s) \/ NotTheLast(s) \/ PlayFinish(s)
             \/ ResetReleaseIndex(s) \/ RenderLeave(s)
    <3>1. /\ shown'[s] = shown[s]
          /\ \/ render'[s] = "check"
             \/ render'[s] \in {"compare", "leave", "stop", "off"} /\ shown[s] = <<>>
      BY <1>1, <2>4 DEF RenderEnter, HoldFrame, AddReleaseIndex, NotTheLast, PlayFinish,
                        ResetReleaseIndex, RenderLeave, RenderAt, Ind, Types, RenderTypes
    <3> QED
      BY <1>1, <3>1
  <2> QED
    BY <1>4, <2>1, <2>2, <2>3, <2>4 DEF RenderThread
<1> QED
  BY <1>3, <1>4
-----------------------------------------------------------------------------
(* The account of a stream, step by step.                                  *)
LEMMA PutMoves ==
    ASSUME QueueTypes, NEW q \in Queues, NEW t, NEW v, PutDone(t, q, v)
    PROVE  queue'[q] = Append(queue[q], v) /\ \A o \in Queues : o # q => queue'[o] = queue[o]
BY DEF PutDone, QueueTypes

LEMMA GetMoves ==
    ASSUME QueueTypes, NEW q \in Queues, NEW t, GetDone(t, q)
    PROVE  /\ queue[q] # <<>> /\ queue'[q] = Tail(queue[q])
           /\ \A o \in Queues : o # q => queue'[o] = queue[o]
BY DEF GetDone, CanGet, QueueTypes

LEMMA RefusedMovesNothing ==
    ASSUME NEW q, NEW t, PutRefused(t, q) \/ GetRefused(t, q) \/ PutBlocks(t, q) \/ GetBlocks(t, q)
    PROVE  UNCHANGED queue
BY DEF PutRefused, GetRefused, Refused, PutBlocks, GetBlocks, ParkOn

LEMMA PathStays ==
    ASSUME Paths, NEW s \in Streams,
           UNCHANGED <<Reached(s), queue[m_frameQueue(s)], frame[s], codec[s], packet[s],
                       queue[m_packetQueue(s)], InHand(s), dropped[s], Leaked(s), sent[s]>>
    PROVE  Accounted(Path(s), Out(s), sent[s])'
<1>1. Path(s)' = PathOf(Reached(s)', queue'[m_frameQueue(s)], frame'[s], codec'[s], packet'[s],
                        queue'[m_packetQueue(s)], InHand(s)')
  BY DEF Path, PathOf, Reached
<1>2. Path(s)' = Path(s)
  BY <1>1, PathIs
<1>3. Out(s)' = Out(s)
  BY DEF Out
<1>4. Accounted(Path(s), Out(s), sent[s])
  BY DEF Paths
<1> QED
  BY <1>2, <1>3, <1>4

LEMMA PathLoses ==
    ASSUME Paths, NEW s \in Streams, NEW L, Loses(Path(s), Path(s)', L),
           Out(s)' = Out(s) \cup L, sent'[s] = sent[s]
    PROVE  Accounted(Path(s), Out(s), sent[s])'
<1>1. Accounted(Path(s), Out(s), sent[s])
  BY DEF Paths
<1>2. Accounted(Path(s)', Out(s) \cup L, sent[s])
  BY <1>1, AccountLoses
<1> QED
  BY <1>2

LEMMA PathMoves ==
    ASSUME Paths, NEW s \in Streams, Path(s)' = Path(s), UNCHANGED <<Out(s), sent[s]>>
    PROVE  Accounted(Path(s), Out(s), sent[s])'
BY DEF Paths

LEMMA PathsDecode ==
    ASSUME Ind, NEW s \in Streams, DecodeThread(s)
    PROVE  Paths'
<1> USE DEF Ind
<1> SUFFICES ASSUME NEW o \in Streams PROVE Accounted(Path(o), Out(o), sent[o])'
  BY DEF Paths
<1>1. /\ m_packetQueue(s) \in Queues /\ m_frameQueue(s) \in Queues /\ m_packetQueue(o) \in Queues
      /\ m_frameQueue(o) \in Queues /\ m_packetQueue(s) # m_frameQueue(o)
      /\ m_frameQueue(s) # m_packetQueue(o) /\ m_packetQueue(o) # m_frameQueue(o)
      /\ o # s => m_packetQueue(s) # m_packetQueue(o) /\ m_frameQueue(s) # m_frameQueue(o)
  BY QueueKinds
<1>2. UNCHANGED <<Reached(o), InHand(o), Leaked(o), sent[o], ends>>
  BY DecodeThreadKeeps DEF Reached, InHand, Leaked
<1>3. CASE o # s
  <2>1. UNCHANGED <<frame[o], codec[o], packet[o]>>
    BY <1>3 DEF DecodeThread, DecodeEnter, DecodeCheck, DecodeGet, DecodeData, DecodeDrain,
                RecvFrame, RecvFrameBlocks, Types, DecodeTypes
  <2>2. dropped'[o] = dropped[o]
    BY <1>3 DEF DecodeThread, DecodeEnter, DecodeCheck, DecodeGet, DecodeData, DecodeDrain,
                RecvFrame, RecvFrameBlocks, Drop, Types, ControlTypes
  <2>3. UNCHANGED <<queue[m_frameQueue(o)], queue[m_packetQueue(o)]>>
    <3>1. CASE DecodeGet(s)
      BY <1>1, <1>3, <3>1, GetMoves, RefusedMovesNothing DEF DecodeGet, Types
    <3>2. CASE RecvFrame(s) \/ RecvFrameBlocks(s)
      BY <1>1, <1>3, <3>2, PutMoves, RefusedMovesNothing DEF RecvFrame, RecvFrameBlocks, Types
    <3>3. CASE DecodeEnter(s) \/ DecodeCheck(s) \/ DecodeData(s) \/ DecodeDrain(s)
      BY <3>3 DEF DecodeEnter, DecodeCheck, DecodeData, DecodeDrain
    <3> QED
      BY <3>1, <3>2, <3>3 DEF DecodeThread
  <2> QED
    BY <1>2, <2>1, <2>2, <2>3, PathStays
<1>4. CASE o = s
  <2> DEFINE r == Reached(s)
             q == queue[m_frameQueue(s)]
             f == frame[s]
             c == codec[s]
             k == packet[s]
             p == queue[m_packetQueue(s)]
             h == InHand(s)
  <2>1. /\ r \in Seq(Nat) /\ q \in Seq(Nat) /\ f \in Seq(Nat) /\ c \in Seq(Nat)
        /\ k \in Seq(Nat) /\ p \in Seq(Nat) /\ h \in Seq(Nat)
    BY SegmentTypes
  <2>2. Path(s) = PathOf(r, q, f, c, k, p, h)
    BY PathIs
  <2>3. Path(s)' = PathOf(r, queue'[m_frameQueue(s)], frame'[s], codec'[s], packet'[s],
                          queue'[m_packetQueue(s)], h)
    BY <1>2, <1>4 DEF Path, PathOf, Reached
  <2>5. CASE DecodeEnter(s) \/ DecodeCheck(s) \/ RecvFrameBlocks(s)
    BY <1>2, <1>4, <2>5, PathStays, RefusedMovesNothing DEF DecodeEnter, DecodeCheck,
                                                            RecvFrameBlocks
  <2>6. CASE DecodeGet(s)
    <3>1. CASE GetDone(Decoder(s), m_packetQueue(s))
      <4>1. p # <<>> /\ queue'[m_packetQueue(s)] = Tail(p) /\ queue'[m_frameQueue(s)] = q
        BY <1>1, <1>4, <3>1, GetMoves DEF Types
      <4>2. ~GetRefused(Decoder(s), m_packetQueue(s)) /\ ~GetBlocks(Decoder(s), m_packetQueue(s))
        BY <3>1 DEF GetDone, GetRefused, Refused, GetBlocks
      <4>3. /\ packet'[s] = <<Head(p)>> /\ frame'[s] = f /\ codec'[s] = c /\ decode[s] = "get"
            /\ dropped' = dropped
        BY <2>6, <4>2 DEF DecodeGet, Types, DecodeTypes
      <4>4. k = <<>>
        BY <4>3 DEF DecodeHolds
      <4>5. Out(s)' = Out(s)
        BY <1>2, <1>4, <4>3 DEF Out
      <4> HIDE DEF r, q, f, c, k, p, h
      <4>6. PathOf(r, q, f, c, <<>>, p, h) = PathOf(r, q, f, c, <<Head(p)>>, Tail(p), h)
        BY <2>1, <4>1, TakePacket
      <4> QED
        BY <1>2, <1>4, <2>2, <2>3, <4>1, <4>3, <4>4, <4>5, <4>6, PathMoves
    <3>2. CASE ~GetDone(Decoder(s), m_packetQueue(s))
      <4>1. UNCHANGED <<queue, packet, frame, codec, dropped>>
        BY <2>6, <3>2, RefusedMovesNothing DEF DecodeGet
      <4> QED
        BY <1>2, <1>4, <4>1, PathStays
    <3> QED
      BY <3>1, <3>2
  <2>7. CASE DecodeData(s)
    <3>1. decode[s] = "decode" /\ packet'[s] = <<>> /\ UNCHANGED <<queue, dropped>>
      BY <2>7 DEF DecodeData, Types, DecodeTypes
    <3>2. f = <<>> /\ k # <<>>
      BY <3>1 DEF DecodeHolds
    <3>3. \/ /\ frame'[s] = <<Head(c \o k)>> /\ codec'[s] = Tail(c \o k)
          \/ /\ frame'[s] = f /\ codec'[s] = c \o k
      BY <2>7 DEF DecodeData, Types, DecodeTypes
    <3>4. UNCHANGED <<Out(s), queue[m_frameQueue(s)], queue[m_packetQueue(s)]>>
      BY <1>2, <1>4, <3>1 DEF Out
    <3> HIDE DEF r, f, c, k, h
    <3>5. PathOf(r, q, f, c, k, p, h) = PathOf(r, q, f, c \o k, <<>>, p, h)
      BY <2>1, KeepInCodec
    <3> DEFINE all == c \o k
    <3>6. all \in Seq(Nat) /\ all # <<>>
      BY <2>1, <3>2
    <3>7. \/ /\ frame'[s] = <<Head(all)>> /\ codec'[s] = Tail(all)
          \/ /\ frame'[s] = f /\ codec'[s] = all
      BY <3>3
    <3>8. PathOf(r, q, f, c, k, p, h) = PathOf(r, q, f, all, <<>>, p, h)
      BY <3>5
    <3> HIDE DEF all
    <3>9. PathOf(r, q, <<>>, all, <<>>, p, h) = PathOf(r, q, <<Head(all)>>, Tail(all), <<>>, p, h)
      BY <2>1, <3>6, DrainFrame
    <3> QED
      BY <1>2, <1>4, <2>2, <2>3, <3>1, <3>2, <3>4, <3>7, <3>8, <3>9, PathMoves
  <2>8. CASE DecodeDrain(s)
    <3>1. decode[s] = "drain" /\ UNCHANGED <<queue, dropped>>
      BY <2>8 DEF DecodeDrain
    <3>2. f = <<>>
      BY <3>1 DEF DecodeHolds
    <3>3. \/ c # <<>> /\ frame'[s] = <<Head(c)>> /\ codec'[s] = Tail(c) /\ packet'[s] = k
          \/ c = <<>> /\ frame'[s] = k /\ codec'[s] = <<>> /\ packet'[s] = <<>>
      BY <2>8 DEF DecodeDrain, Types, DecodeTypes
    <3>4. UNCHANGED <<Out(s), queue[m_frameQueue(s)], queue[m_packetQueue(s)]>>
      BY <1>2, <1>4, <3>1 DEF Out
    <3> HIDE DEF r, f, c, k, h
    <3>5. c # <<>> => PathOf(r, q, <<>>, c, k, p, h) = PathOf(r, q, <<Head(c)>>, Tail(c), k, p, h)
      BY <2>1, DrainFrame
    <3>6. PathOf(r, q, <<>>, <<>>, k, p, h) = PathOf(r, q, k, <<>>, <<>>, p, h)
      BY <2>1, DrainEnd
    <3> QED
      BY <1>2, <1>4, <2>2, <2>3, <3>2, <3>3, <3>4, <3>5, <3>6, PathMoves
  <2>9. CASE RecvFrame(s)
    <3>1. decode[s] \in {"put", "drainPut"} /\ frame'[s] = <<>> /\ UNCHANGED <<packet, codec>>
      BY <2>9 DEF RecvFrame, Types, DecodeTypes
    <3>2. f = <<Head(f)>> /\ Head(f) \in Nat
      BY <2>1, <3>1, Single DEF DecodeHolds
    <3>3. CASE PutDone(Decoder(s), m_frameQueue(s), Head(f)) /\ UNCHANGED dropped
      <4>1. queue'[m_frameQueue(s)] = Append(q, Head(f)) /\ queue'[m_packetQueue(s)] = p
        BY <1>1, <1>4, <3>3, PutMoves DEF Types
      <4>2. UNCHANGED Out(s)
        BY <1>2, <1>4, <3>3 DEF Out
      <4> HIDE DEF r, q, f, c, k, p, h
      <4>3. PathOf(r, q, <<Head(f)>>, c, k, p, h) = PathOf(r, Append(q, Head(f)), <<>>, c, k, p, h)
        BY <2>1, <3>2, GiveFrame
      <4>4. codec'[s] = c /\ packet'[s] = k
        BY <3>1 DEF c, k
      <4> QED
        BY <1>2, <1>4, <2>2, <2>3, <3>1, <3>2, <4>1, <4>2, <4>3, <4>4, PathMoves
    <3>4. CASE PutRefused(Decoder(s), m_frameQueue(s)) /\ Drop(s, Head(f))
      <4>1. queue' = queue
        BY <3>4, RefusedMovesNothing
      <4>2. Out(s)' = Out(s) \cup {Head(f)}
        BY <1>2, <1>4, <3>4 DEF Out, Drop, Types, ControlTypes
      <4>3. queue'[m_frameQueue(s)] = q /\ queue'[m_packetQueue(s)] = p /\ codec'[s] = c
            /\ packet'[s] = k
        BY <3>1, <4>1
      <4> HIDE DEF r, q, f, c, k, p, h
      <4>4. Loses(PathOf(r, q, <<Head(f)>>, c, k, p, h), PathOf(r, q, <<>>, c, k, p, h), {Head(f)})
        BY <2>1, <3>2, LoseFrame
      <4> QED
        BY <1>2, <1>4, <2>2, <2>3, <3>1, <3>2, <4>2, <4>3, <4>4, PathLoses
    <3> QED
      BY <2>9, <3>3, <3>4 DEF RecvFrame
  <2> QED
    BY <2>5, <2>6, <2>7, <2>8, <2>9 DEF DecodeThread
<1> QED
  BY <1>3, <1>4

LEMMA PathsRender ==
    ASSUME Ind, NEW s \in Rendered, RenderThread(s)
    PROVE  Paths'
<1> USE DEF Ind
<1> SUFFICES ASSUME NEW o \in Streams PROVE Accounted(Path(o), Out(o), sent[o])'
  BY DEF Paths
<1>1. /\ s \in Streams /\ m_frameQueue(s) \in Queues /\ m_packetQueue(o) \in Queues
      /\ m_frameQueue(o) \in Queues /\ m_frameQueue(s) # m_packetQueue(o)
      /\ o # s => m_frameQueue(s) # m_frameQueue(o)
  BY QueueKinds, RenderedStreams
<1>2. UNCHANGED <<frame, codec, packet, InHand(o), dropped, sent>>
  BY RenderThreadKeeps DEF InHand
<1>3. queue'[m_packetQueue(o)] = queue[m_packetQueue(o)]
  BY <1>1, RenderThreadKeeps, GetMoves, RefusedMovesNothing DEF GetFrontFrame, Types
<1>4. CASE o # s
  <2>1. o \in Rendered => UNCHANGED <<rendered[o], shown[o], leaked[o]>>
    BY <1>4 DEF RenderThread, RenderEnter, RenderCheck, GetFrontFrame, HoldFrame, SendFrame,
                ReleaseRender,
                AddReleaseIndex, NotTheLast, PlayFinish, ResetReleaseIndex, RenderLeave, Consume,
                Types, RenderTypes
  <2>2. UNCHANGED <<Reached(o), Leaked(o)>>
    BY <2>1 DEF Reached, Leaked
  <2>3. queue'[m_frameQueue(o)] = queue[m_frameQueue(o)]
    BY <1>1, <1>4, RenderThreadKeeps, GetMoves, RefusedMovesNothing DEF GetFrontFrame, Types
  <2> QED
    BY <1>2, <1>3, <2>2, <2>3, PathStays
<1>5. CASE o = s
  <2> DEFINE r == rendered[s]
             v == shown[s]
             q == queue[m_frameQueue(s)]
             f == frame[s]
             c == codec[s]
             k == packet[s]
             p == queue[m_packetQueue(s)]
             h == InHand(s)
  <2>1. /\ r \in Seq(Nat) /\ v \in Seq(Nat) /\ q \in Seq(Nat) /\ f \in Seq(Nat)
        /\ c \in Seq(Nat) /\ k \in Seq(Nat) /\ p \in Seq(Nat) /\ h \in Seq(Nat)
        /\ r \o v \in Seq(Nat)
    BY <1>1, SegmentTypes
  <2>2. Path(s) = PathOf(r \o v, q, f, c, k, p, h)
    BY <1>1, PathIs DEF Reached
  <2>3. Path(s)' = PathOf(rendered'[s] \o shown'[s], queue'[m_frameQueue(s)], f, c, k, p, h)
    BY <1>2, <1>3, <1>5 DEF Path, PathOf
  <2>4. Out(s) = dropped[s] \cup leaked[s] /\ Out(s)' = dropped[s] \cup leaked'[s]
    BY <1>2 DEF Out, Leaked
  <2>5. CASE RenderCheck(s)
    <3>1. UNCHANGED <<queue, rendered>>
      BY <2>5 DEF RenderCheck
    <3>2. CASE stopFlag[Renderer(s)]
      <4>1. shown'[s] = <<>> /\ leaked'[s] = leaked[s] \cup ToSet(v)
        BY <2>5, <3>2 DEF RenderCheck, Types, RenderTypes
      <4>2. rendered'[s] \o shown'[s] = r
        BY <2>1, <3>1, <4>1, ConcatEmptySeq
      <4>3. queue'[m_frameQueue(s)] = q
        BY <3>1
      <4> DEFINE rv == r \o v
      <4>4. Loses(rv, r, ToSet(v)) /\ rv \in Seq(Nat)
        BY <2>1, LosesSegment
      <4>5. Path(s) = PathOf(rv, q, f, c, k, p, h)
        BY <2>2
      <4> HIDE DEF r, v, q, f, c, k, p, h, rv
      <4>6. Loses(PathOf(rv, q, f, c, k, p, h), PathOf(r, q, f, c, k, p, h), ToSet(v))
        BY <2>1, <4>4, LoseReached, Zenon
      <4>7. Loses(Path(s), Path(s)', ToSet(v))
        BY <2>3, <4>2, <4>3, <4>5, <4>6
      <4>8. Out(s)' = Out(s) \cup ToSet(v)
        BY <2>4, <4>1
      <4> QED
        BY <1>1, <1>2, <1>5, <4>7, <4>8, PathLoses
    <3>3. CASE ~stopFlag[Renderer(s)]
      BY <1>1, <1>2, <1>5, <2>5, <3>1, <3>3, PathStays DEF RenderCheck, Reached, Leaked
    <3> QED
      BY <3>2, <3>3
  <2>6. CASE GetFrontFrame(s)
    <3>1. render[s] = "get" /\ UNCHANGED <<rendered, leaked>>
      BY <2>6 DEF GetFrontFrame, RenderAt
    <3>2. v = <<>>
      BY <3>1 DEF RenderHolds
    <3>3. CASE GetDone(Renderer(s), m_frameQueue(s))
      <4>1. q # <<>> /\ queue'[m_frameQueue(s)] = Tail(q)
        BY <1>1, <3>3, GetMoves DEF Types
      <4>2. ~GetRefused(Renderer(s), m_frameQueue(s)) /\ ~GetBlocks(Renderer(s), m_frameQueue(s))
        BY <3>3 DEF GetDone, GetRefused, Refused, GetBlocks
      <4>3. shown'[s] = <<Head(q)>>
        BY <2>6, <4>2 DEF GetFrontFrame, Types, RenderTypes
      <4>4. rendered'[s] = r
        BY <3>1
      <4> HIDE DEF r, v, q, f, c, k, p, h
      <4>5. PathOf(r \o <<>>, q, f, c, k, p, h) = PathOf(r \o <<Head(q)>>, Tail(q), f, c, k, p, h)
        BY <2>1, <4>1, TakeFrame
      <4>6. Path(s)' = Path(s)
        BY <2>2, <2>3, <3>2, <4>1, <4>3, <4>4, <4>5
      <4> QED
        BY <1>1, <1>2, <1>5, <2>4, <3>1, <4>6, PathMoves
    <3>4. CASE ~GetDone(Renderer(s), m_frameQueue(s))
      BY <1>1, <1>2, <1>5, <2>6, <3>4, PathStays, RefusedMovesNothing
         DEF GetFrontFrame, Reached, Leaked
    <3> QED
      BY <3>3, <3>4
  <2>7. CASE SendFrame(s) \/ ReleaseRender(s)
    <3>1. /\ rendered'[s] = r \o v /\ shown'[s] = <<>> /\ UNCHANGED <<queue, leaked>>
      BY <2>7 DEF SendFrame, ReleaseRender, Consume, Types, RenderTypes
    <3>2. rendered'[s] \o shown'[s] = r \o v
      BY <2>1, <3>1, ConcatEmptySeq
    <3>3. queue'[m_frameQueue(s)] = q
      BY <3>1
    <3>4. Path(s)' = Path(s)
      BY <2>2, <2>3, <3>2, <3>3
    <3> QED
      BY <1>1, <1>2, <1>5, <2>4, <3>1, <3>4, PathMoves
  <2>8. CASE RenderEnter(s) \/ HoldFrame(s) \/ AddReleaseIndex(s) \/ NotTheLast(s) \/ PlayFinish(s)
             \/ ResetReleaseIndex(s) \/ RenderLeave(s)
    <3>1. UNCHANGED <<queue, rendered, shown, leaked>>
      BY <2>8 DEF RenderEnter, HoldFrame, AddReleaseIndex, NotTheLast, PlayFinish,
                  ResetReleaseIndex, RenderLeave
    <3> QED
      BY <1>1, <1>2, <1>5, <3>1, PathStays DEF Reached, Leaked
  <2> QED
    BY <2>5, <2>6, <2>7, <2>8 DEF RenderThread
<1> QED
  BY <1>4, <1>5

LEMMA PathGrows ==
    ASSUME Ind, NEW s \in Streams, InHand(s) = <<>>, InHand(s)' = <<sent[s] + 1>>,
           sent'[s] = sent[s] + 1,
           UNCHANGED <<Reached(s), queue[m_frameQueue(s)], frame[s], codec[s], packet[s],
                       queue[m_packetQueue(s)], Out(s)>>
    PROVE  Accounted(Path(s), Out(s), sent[s])'
<1> DEFINE r == Reached(s)
           q == queue[m_frameQueue(s)]
           f == frame[s]
           c == codec[s]
           k == packet[s]
           p == queue[m_packetQueue(s)]
           n == sent[s]
           x == n + 1
<1>1. /\ r \in Seq(Nat) /\ q \in Seq(Nat) /\ f \in Seq(Nat) /\ c \in Seq(Nat) /\ k \in Seq(Nat)
      /\ p \in Seq(Nat) /\ n \in Nat /\ x \in Nat
  BY SegmentTypes DEF Ind
<1>2. Path(s) = r \o q \o f \o c \o k \o p \o <<>>
  BY DEF Path, Reached
<1>3. Path(s)' = r \o q \o f \o c \o k \o p \o <<x>>
  BY DEF Path, Reached
<1>4. Accounted(Path(s), Out(s), n)
  BY DEF Ind, Paths
<1> DEFINE a == r \o q \o f \o c \o k \o p
<1> HIDE DEF r, q, f, c, k, p, n, x
<1>5. a \in Seq(Nat)
  BY <1>1
<1>6. Path(s) = a \o <<>> /\ Path(s)' = a \o <<x>>
  BY <1>2, <1>3
<1> HIDE DEF a
<1>7. Path(s) = a
  BY <1>5, <1>6, ConcatEmptySeq
<1>8. Accounted(a \o <<n + 1>>, Out(s), n + 1)
  BY <1>1, <1>4, <1>5, <1>7, AccountGrows
<1> QED
  BY <1>6, <1>8 DEF n, x

(* recvPacket() takes the packet out of the demuxer's hands.               *)
LEMMA HandedOver ==
    ASSUME Ind, RecvPacket, NEW s \in Streams
    PROVE  IF s = Target THEN InHand(s) = <<sent[s]>> /\ InHand(s)' = <<>>
           ELSE InHand(s)' = InHand(s)
<1>1. /\ demux = "put" /\ UNCHANGED sent /\ item \in 0..NumStreams /\ index \in 0..NumStreams
      /\ Target \in Streams /\ NumStreams \in Nat
  BY QueuesAssumption DEF RecvPacket, Ind, Types, DemuxTypes, DemuxHolds
<1>2. CASE item # 0
  BY <1>1, <1>2 DEF RecvPacket, InHand, Target
<1>3. CASE item = 0 /\ index < NumStreams
  <2>1. index' = index + 1 /\ UNCHANGED <<demux, item>>
    BY <1>3 DEF RecvPacket
  <2>2. s # 0 /\ (index <= s <=> s = index \/ index + 1 <= s) /\ ~(index + 1 <= index)
    BY <1>1 DEF Streams
  <2> QED
    BY <1>1, <1>3, <2>1, <2>2 DEF InHand, Target
<1>4. CASE item = 0 /\ ~(index < NumStreams)
  <2>1. demux' = "judge"
    BY <1>4 DEF RecvPacket
  <2>2. index <= s <=> s = index
    BY <1>1, <1>4 DEF Streams
  <2>3. s # 0
    BY <1>1 DEF Streams
  <2> QED
    BY <1>1, <1>4, <2>1, <2>2, <2>3 DEF InHand, Target
<1> QED
  BY <1>2, <1>3, <1>4

LEMMA PathsDemux ==
    ASSUME Ind, DemuxThread
    PROVE  Paths'
<1> USE DEF Ind
<1> SUFFICES ASSUME NEW s \in Streams PROVE Accounted(Path(s), Out(s), sent[s])'
  BY DEF Paths
<1>1. UNCHANGED <<Reached(s), Leaked(s), frame[s], codec[s], packet[s]>>
  BY DemuxThreadKeeps DEF Reached, Leaked
<1>2. CASE DemuxEnter \/ DemuxLeave \/ DemuxCheck \/ DemuxControl \/ DemuxWaitPause \/ DemuxSeek \/ ClearForcewake \/ ClearTest
           \/ DemuxError \/ RecvPacketBlocks \/ Judge \/ DemuxStop
  <2>1. UNCHANGED <<queue, dropped, sent>>
    BY <1>2, RefusedMovesNothing
       DEF DemuxEnter, DemuxLeave, DemuxCheck, DemuxControl, DemuxWaitPause, DemuxSeek,
           ClearForcewake, ClearTest, DemuxError, RecvPacketBlocks, Judge, DemuxStop, Forcewake
  <2>2. InHand(s)' = InHand(s)
    BY <1>2 DEF DemuxEnter, DemuxLeave, DemuxCheck, DemuxControl, DemuxWaitPause, DemuxSeek,
                ClearForcewake, ClearTest, DemuxError, RecvPacketBlocks, Judge, DemuxStop, InHand
  <2> QED
    BY <1>1, <2>1, <2>2, PathStays
<1>3. ASSUME NEW o \in Streams, DemuxRead(o)
      PROVE  Accounted(Path(s), Out(s), sent[s])'
  <2>1. UNCHANGED <<queue, dropped>> /\ InHand(s) = <<>> /\ o # 0
    BY <1>3 DEF DemuxRead, InHand, Streams
  <2>2. CASE s = o
    <3>1. sent'[s] = sent[s] + 1
      BY <1>3, <2>2 DEF DemuxRead, Types, DemuxTypes
    <3>2. InHand(s)' = <<sent[s] + 1>>
      BY <1>3, <2>2, <3>1 DEF DemuxRead, InHand
    <3> QED
      BY <1>1, <2>1, <3>1, <3>2, PathGrows DEF Out
  <2>3. CASE s # o
    <3>1. sent'[s] = sent[s] /\ InHand(s)' = InHand(s)
      BY <1>3, <2>1, <2>3 DEF DemuxRead, InHand, Types, DemuxTypes
    <3> QED
      BY <1>1, <2>1, <3>1, PathStays
  <2> QED
    BY <2>2, <2>3
<1>4. CASE DemuxEof
  <2>1. UNCHANGED <<queue, dropped, item>> /\ InHand(s) = <<>> /\ item = 0
    BY <1>4 DEF DemuxEof, InHand, DemuxHolds
  <2>2. sent'[s] = sent[s] + 1
    BY <1>4 DEF DemuxEof
  <2>3. 1 <= s
    BY QueuesAssumption DEF Streams
  <2>4. InHand(s)' = <<sent[s] + 1>>
    BY <1>4, <2>1, <2>2, <2>3 DEF DemuxEof, InHand
  <2> QED
    BY <1>1, <2>1, <2>2, <2>4, PathGrows DEF Out
<1> DEFINE r == Reached(s)
           q == queue[m_frameQueue(s)]
           f == frame[s]
           c == codec[s]
           k == packet[s]
           p == queue[m_packetQueue(s)]
           h == InHand(s)
<1>5. /\ r \in Seq(Nat) /\ q \in Seq(Nat) /\ f \in Seq(Nat) /\ c \in Seq(Nat)
      /\ k \in Seq(Nat) /\ p \in Seq(Nat) /\ h \in Seq(Nat) /\ sent[s] \in Nat
  BY SegmentTypes
<1>6. Path(s) = PathOf(r, q, f, c, k, p, h)
  BY PathIs
<1>7. Path(s)' = PathOf(r, queue'[m_frameQueue(s)], f, c, k, queue'[m_packetQueue(s)], InHand(s)')
  BY <1>1 DEF Path, PathOf, Reached
<1>8. CASE ClearPop
  <2>1. /\ index \in Streams /\ m_packetQueue(index) \in Queues /\ m_packetQueue(s) \in Queues
        /\ m_frameQueue(s) \in Queues /\ m_packetQueue(index) # m_frameQueue(s)
        /\ s # index => m_packetQueue(index) # m_packetQueue(s)
    BY <1>8, QueueKinds DEF ClearPop, DemuxHolds
  <2>2. InHand(s)' = InHand(s) /\ UNCHANGED sent
    BY <1>8 DEF ClearPop, InHand
  <2>3. CASE GetDone(Demuxer, m_packetQueue(index)) /\ s = index
    <3>1. p # <<>> /\ queue'[m_packetQueue(s)] = Tail(p) /\ queue'[m_frameQueue(s)] = q
      BY <2>1, <2>3, GetMoves DEF Types
    <3>2. Drop(s, Head(p))
      BY <1>8, <2>3 DEF ClearPop, GetDone, GetRefused, Refused, GetBlocks
    <3>3. Out(s)' = Out(s) \cup {Head(p)}
      BY <1>1, <3>2 DEF Out, Drop, Types, ControlTypes
    <3> HIDE DEF r, q, f, c, k, p, h
    <3>4. Loses(PathOf(r, q, f, c, k, p, h), PathOf(r, q, f, c, k, Tail(p), h), {Head(p)})
      BY <1>5, <3>1, LosePacket
    <3>5. Loses(Path(s), Path(s)', {Head(p)})
      BY <1>6, <1>7, <2>2, <3>1, <3>4 DEF h
    <3> QED
      BY <2>2, <3>3, <3>5, PathLoses
  <2>4. CASE GetDone(Demuxer, m_packetQueue(index)) /\ s # index
    <3>1. queue'[m_packetQueue(s)] = p /\ queue'[m_frameQueue(s)] = q
      BY <2>1, <2>4, GetMoves DEF Types
    <3>2. dropped'[s] = dropped[s]
      BY <1>8, <2>4 DEF ClearPop, Drop, Types, ControlTypes
    <3> QED
      BY <1>1, <2>2, <3>1, <3>2, PathStays
  <2>5. CASE ~GetDone(Demuxer, m_packetQueue(index))
    BY <1>1, <1>8, <2>2, <2>5, PathStays, RefusedMovesNothing DEF ClearPop
  <2> QED
    BY <2>3, <2>4, <2>5
<1>9. CASE RecvPacket
  <2>1. /\ Target \in Streams /\ m_packetQueue(Target) \in Queues /\ m_packetQueue(s) \in Queues
        /\ m_frameQueue(s) \in Queues /\ m_packetQueue(Target) # m_frameQueue(s)
        /\ s # Target => m_packetQueue(Target) # m_packetQueue(s)
    BY <1>9, QueueKinds DEF RecvPacket, DemuxHolds
  <2>2. UNCHANGED sent
    BY <1>9 DEF RecvPacket
  <2>3. CASE s # Target
    <3>1. InHand(s)' = InHand(s)
      BY <1>9, <2>3, HandedOver
    <3>2. queue'[m_packetQueue(s)] = p /\ queue'[m_frameQueue(s)] = q
      BY <1>9, <2>1, <2>3, PutMoves, RefusedMovesNothing DEF RecvPacket, Types
    <3>3. dropped'[s] = dropped[s]
      BY <1>9, <2>3 DEF RecvPacket, Drop, Types, ControlTypes
    <3> QED
      BY <1>1, <2>2, <3>1, <3>2, <3>3, PathStays
  <2>4. CASE s = Target
    <3> DEFINE x == sent[s]
    <3>1. InHand(s) = <<x>> /\ InHand(s)' = <<>> /\ x \in Nat
      BY <1>5, <1>9, <2>4, HandedOver
    <3>2. CASE PutDone(Demuxer, m_packetQueue(Target), sent[Target]) /\ UNCHANGED dropped
      <4>1. queue'[m_packetQueue(s)] = Append(p, x) /\ queue'[m_frameQueue(s)] = q
        BY <2>1, <2>4, <3>2, PutMoves DEF Types
      <4>2. UNCHANGED <<Out(s), sent[s]>>
        BY <1>1, <2>2, <3>2 DEF Out
      <4>3. h = <<x>>
        BY <3>1
      <4> HIDE DEF r, q, f, c, k, p, h, x
      <4>4. PathOf(r, q, f, c, k, p, <<x>>) = PathOf(r, q, f, c, k, Append(p, x), <<>>)
        <5> DEFINE a == r \o q \o f \o c \o k
        <5>1. a \in Seq(Nat)
          BY <1>5
        <5> HIDE DEF a
        <5>2. (a \o p) \o <<x>> = (a \o Append(p, x)) \o <<>>
          BY <1>5, <3>1, <5>1, MoveLast
        <5> QED
          BY <5>2 DEF PathOf, a
      <4>5. Path(s)' = Path(s)
        BY <1>6, <1>7, <3>1, <4>1, <4>3, <4>4
      <4> QED
        BY <4>2, <4>5, PathMoves
    <3>3. CASE PutRefused(Demuxer, m_packetQueue(Target)) /\ Drop(Target, sent[Target])
      <4>1. queue'[m_packetQueue(s)] = p /\ queue'[m_frameQueue(s)] = q
        BY <3>3, RefusedMovesNothing
      <4>2. Out(s)' = Out(s) \cup {x}
        BY <1>1, <2>4, <3>3 DEF Out, Drop, Types, ControlTypes
      <4>3. h = <<x>>
        BY <3>1
      <4> HIDE DEF r, q, f, c, k, p, h, x
      <4>4. Loses(PathOf(r, q, f, c, k, p, <<x>>), PathOf(r, q, f, c, k, p, <<>>), {x})
        BY <1>5, <3>1, LoseRead
      <4>5. Loses(Path(s), Path(s)', {x})
        BY <1>6, <1>7, <3>1, <4>1, <4>3, <4>4
      <4> QED
        BY <2>2, <4>2, <4>5, PathLoses
    <3> QED
      BY <1>9, <3>2, <3>3 DEF RecvPacket
  <2> QED
    BY <2>3, <2>4
<1> QED
  BY <1>2, <1>3, <1>4, <1>8, <1>9 DEF DemuxThread

LEMMA PathsStop ==
    ASSUME Ind, NEW o \in Callers, Stop(o)
    PROVE  Paths'
<1> USE DEF Ind
<1> SUFFICES ASSUME NEW s \in Streams PROVE Accounted(Path(s), Out(s), sent[s])'
  BY DEF Paths
<1>1. UNCHANGED <<Reached(s), Leaked(s), frame[s], packet[s], InHand(s), sent[s]>>
  BY StopKeeps DEF Reached, Leaked, InHand
<1>2. CASE StopClear(o)
  <2> DEFINE r == Reached(s)
             q == queue[m_frameQueue(s)]
             f == frame[s]
             c == codec[s]
             k == packet[s]
             p == queue[m_packetQueue(s)]
             h == InHand(s)
             L == ToSet(q) \cup ToSet(c) \cup ToSet(p)
  <2>1. /\ r \in Seq(Nat) /\ q \in Seq(Nat) /\ f \in Seq(Nat) /\ c \in Seq(Nat)
        /\ k \in Seq(Nat) /\ p \in Seq(Nat) /\ h \in Seq(Nat)
    BY SegmentTypes
  <2>2. Path(s) = PathOf(r, q, f, c, k, p, h)
    BY PathIs
  <2>3. /\ queue'[m_frameQueue(s)] = <<>> /\ queue'[m_packetQueue(s)] = <<>> /\ codec'[s] = <<>>
        /\ dropped'[s] = dropped[s] \cup L
    BY <1>2, QueueKinds DEF StopClear
  <2>4. Path(s)' = PathOf(r, <<>>, f, <<>>, k, <<>>, h)
    BY <1>1, <2>3 DEF Path, PathOf, Reached
  <2>5. Out(s)' = Out(s) \cup L
    BY <1>1, <2>3 DEF Out
  <2> HIDE DEF r, q, f, c, k, p, h
  <2>6. Loses(PathOf(r, q, f, c, k, p, h), PathOf(r, <<>>, f, <<>>, k, <<>>, h), L)
    BY <2>1, LoseAll
  <2>7. Loses(Path(s), Path(s)', L)
    BY <2>2, <2>4, <2>6
  <2> QED
    BY <1>1, <2>5, <2>7, PathLoses
<1>3. CASE ~StopClear(o)
  BY <1>1, <1>3, StopKeeps, PathStays
<1> QED
  BY <1>2, <1>3

(* No step of any thread breaks the account.                               *)
LEMMA PathsNext == Ind /\ [Next]_vars => Paths'
<1> SUFFICES ASSUME Ind, [Next]_vars PROVE Paths'
  OBVIOUS
<1>1. ASSUME UserThread \/ (\E t \in Threads : Sleep(t) \/ EnterCrash(t)) \/ UNCHANGED vars
      PROVE  Paths'
  <2> SUFFICES ASSUME NEW s \in Streams PROVE Accounted(Path(s), Out(s), sent[s])'
    BY DEF Paths
  <2>1. UNCHANGED <<queue, demux, item, sent, index, decodeVars, shown, rendered, leaked, dropped>>
    BY <1>1, UserThreadKeeps, SleepKeeps DEF vars
  <2>2. InHand(s)' = InHand(s)
    BY <2>1 DEF InHand
  <2> QED
    BY <2>1, <2>2, PathStays DEF Ind, Reached, Leaked
<1> QED
  BY <1>1, PathsDemux, PathsDecode, PathsRender, PathsStop DEF Next, Intact

LEMMA IndInit == Init => Ind
<1> SUFFICES ASSUME Init PROVE Ind
  OBVIOUS
<1>1. Types
  BY TypesInit
<1>2. ToSet(<<>>) = {} /\ Len(<<>>) = 0 /\ <<>> \in Seq(Nat)
  <2>1. ToSet(<<>>) = {}
    BY Short
  <2>2. Len(<<>>) = 0 /\ <<>> \in Seq(Nat)
    OBVIOUS
  <2> QED
    BY <2>1, <2>2
<1>3. DemuxHolds /\ RenderHolds /\ EndsRead
  BY <1>2 DEF Init, DemuxHolds, RenderHolds, EndsRead
<1>4. DecodeHolds
  BY <1>2 DEF Init, DecodeHolds
<1>5. ASSUME NEW s \in Streams PROVE Accounted(Path(s), Out(s), sent[s])
  <2>1. /\ Reached(s) = <<>> \/ Reached(s) = <<>> \o <<>>
        /\ queue[m_frameQueue(s)] = <<>> /\ frame[s] = <<>> /\ codec[s] = <<>> /\ packet[s] = <<>>
        /\ queue[m_packetQueue(s)] = <<>> /\ InHand(s) = <<>> /\ Out(s) = {} /\ sent[s] = 0
    BY QueueKinds DEF Init, QueueInit, Reached, InHand, Out, Leaked
  <2>2. Reached(s) = <<>>
    BY <1>2, <2>1, ConcatEmptySeq
  <2>3. ToSet(Path(s)) = {} /\ Path(s) \in Seq(Nat)
    BY <1>1, <1>2, <2>1, <2>2, PathElements
  <2>4. DOMAIN Path(s) = {}
    BY <2>3 DEF ToSet
  <2>5. 1..0 = {}
    OBVIOUS
  <2> QED
    BY <2>1, <2>3, <2>4, <2>5 DEF Accounted, Ascending
<1>6. FlagTypes
  BY DEF Init, FlagTypes
<1> QED
  BY <1>1, <1>3, <1>4, <1>5, <1>6 DEF Ind, Paths

LEMMA IndNext == Ind /\ [Next]_vars => Ind'
BY TypesNext, DemuxHoldsNext, DecodeHoldsNext, RenderHoldsNext, EndsReadNext, PathsNext,
   FlagTypesNext, Zenon DEF Ind

(* At every moment the packets and frames of every stream are where the    *)
(* account says, and every thread holds what its place in run() says.      *)
THEOREM Invariance == Spec => []Ind
BY IndInit, IndNext, PTL DEF Spec
-----------------------------------------------------------------------------
(* Until somebody stops or seeks no queue is woken, so none refuses.       *)
LEMMA NoWake ==
    ASSUME QueueTypes, \A q \in Queues : ~forcewake[q], NEW q \in Queues, NEW t
    PROVE  /\ ~PutRefused(t, q) /\ ~GetRefused(t, q)
           /\ \A v : PutDone(t, q, v) => \A o \in Queues : ~forcewake'[o]
           /\ GetDone(t, q) => \A o \in Queues : ~forcewake'[o]
           /\ PutBlocks(t, q) \/ GetBlocks(t, q) => UNCHANGED forcewake
BY DEF PutRefused, GetRefused, Refused, PutDone, GetDone, PutBlocks, GetBlocks, ParkOn, QueueTypes

LEMMA InterruptedOrFinished ==
    ASSUME Ind, [Next]_vars, ~interrupted', finishes' = 0
    PROVE  ~interrupted /\ finishes = 0
<1>1. ASSUME NEW s \in Rendered, RenderThread(s)
      PROVE  finishes' \in {finishes, finishes + 1} /\ UNCHANGED interrupted
  BY <1>1 DEF RenderThread, RenderEnter, RenderCheck, GetFrontFrame, HoldFrame, SendFrame,
              ReleaseRender,
              AddReleaseIndex, NotTheLast, PlayFinish, ResetReleaseIndex, RenderLeave, beyondRender
<1>2. DemuxThread \/ (\E s \in Streams : DecodeThread(s)) \/ (\E c \in Callers : Stop(c))
          \/ (\E t \in Threads : Sleep(t) \/ EnterCrash(t)) \/ UNCHANGED vars
          => UNCHANGED <<finishes, interrupted>>
  BY DemuxThreadKeeps, DecodeThreadKeeps, StopKeeps, SleepKeeps DEF vars
<1>3. UserThread => UNCHANGED finishes /\ (interrupted' \/ UNCHANGED interrupted)
  BY UserThreadKeeps DEF SeekStop, StopSession
<1>4. finishes \in Nat /\ \A n \in Nat : n + 1 # 0
  BY DEF Ind, Types, RenderTypes
<1> QED
  BY <1>1, <1>2, <1>3, <1>4 DEF Next, Intact

LEMMA UninterruptedNext == Ind /\ Uninterrupted /\ [Next]_vars => Uninterrupted'
<1> SUFFICES ASSUME Ind, Uninterrupted, [Next]_vars, ~interrupted', finishes' = 0
             PROVE  /\ \A q \in Queues : ~forcewake'[q]
                    /\ \A s \in Streams : dropped'[s] = {}
                    /\ demux' \notin {"clear", "clearTest", "clearPop"}
                    /\ ~needSeek'
                    /\ user' \notin {"seekWait", "seekStart"}
                    /\ \A c \in Callers : stopping'[c] = "no"
  BY DEF Uninterrupted
<1>1. ~interrupted /\ finishes = 0
  BY InterruptedOrFinished
<1>2. /\ \A q \in Queues : ~forcewake[q]
      /\ \A s \in Streams : dropped[s] = {}
      /\ demux \notin {"clear", "clearTest", "clearPop"}
      /\ ~needSeek
      /\ user \notin {"seekWait", "seekStart"}
      /\ \A c \in Callers : stopping[c] = "no"
  BY <1>1 DEF Uninterrupted
<1>3. CASE DemuxThread
  <2>1. UNCHANGED controlVars
    BY <1>3, DemuxThreadKeeps
  <2>2. CASE RecvPacket \/ RecvPacketBlocks
    <3>1. m_packetQueue(Target) \in Queues
      BY <2>2, QueueKinds DEF RecvPacket, RecvPacketBlocks, Ind, DemuxHolds
    <3>2. UNCHANGED <<dropped, needSeek>> /\ demux' \in {demux, "judge"}
      BY <1>2, <2>2, <3>1, NoWake DEF RecvPacket, RecvPacketBlocks, Ind, Types
    <3>3. \A q \in Queues : ~forcewake'[q]
      BY <1>2, <2>2, <3>1, NoWake DEF RecvPacket, RecvPacketBlocks, Ind, Types
    <3> QED
      BY <1>2, <2>1, <3>2, <3>3
  <2>3. CASE ~RecvPacket /\ ~RecvPacketBlocks
    BY <1>2, <1>3, <2>1, <2>3
       DEF DemuxThread, DemuxEnter, DemuxLeave, DemuxCheck, DemuxControl, DemuxWaitPause,
           DemuxSeek, ClearForcewake, ClearTest,
           ClearPop, DemuxRead, DemuxEof, DemuxError, Judge, DemuxStop
  <2> QED
    BY <2>2, <2>3
<1>4. ASSUME NEW s \in Streams, DecodeThread(s)
      PROVE  UNCHANGED dropped /\ \A q \in Queues : ~forcewake'[q]
  <2>1. m_packetQueue(s) \in Queues /\ m_frameQueue(s) \in Queues
    BY QueueKinds
  <2>2. CASE DecodeGet(s)
    BY <1>2, <2>1, <2>2, NoWake DEF DecodeGet, Ind, Types
  <2>3. CASE RecvFrame(s) \/ RecvFrameBlocks(s)
    BY <1>2, <2>1, <2>3, NoWake DEF RecvFrame, RecvFrameBlocks, Ind, Types
  <2>4. CASE DecodeEnter(s) \/ DecodeCheck(s) \/ DecodeData(s) \/ DecodeDrain(s)
    BY <1>2, <2>4 DEF DecodeEnter, DecodeCheck, DecodeData, DecodeDrain
  <2> QED
    BY <1>4, <2>2, <2>3, <2>4 DEF DecodeThread
<1>5. ASSUME NEW s \in Rendered, RenderThread(s)
      PROVE  UNCHANGED <<dropped, stopping>> /\ \A q \in Queues : ~forcewake'[q]
  <2>1. m_frameQueue(s) \in Queues
    BY QueueKinds, RenderedStreams
  <2>2. ~PlayFinish(s)
    BY <1>1 DEF PlayFinish
  <2>3. CASE GetFrontFrame(s)
    BY <1>2, <1>5, <2>1, <2>2, <2>3, NoWake, RenderThreadKeeps DEF GetFrontFrame, Ind, Types
  <2> QED
    BY <1>2, <1>5, <2>2, <2>3, RenderThreadKeeps
<1>6. ASSUME NEW c \in Callers, Stop(c) PROVE FALSE
  BY <1>2, <1>6 DEF Stop, StopEnter, StopCrash, StopWakePause, StopWakeQueues, StopWaitDemux,
                    StopWaitDecoder, StopDecodersGone, StopWaitRenderer, StopRenderersGone, Delete,
                    StopClear, StopAt
<1>7. CASE UserThread
  <2>1. ~SeekWait /\ ~StopSession /\ UNCHANGED <<forcewake, dropped>>
    BY <1>2, <1>7, UserThreadKeeps DEF SeekWait, StopSession
  <2>2. UNCHANGED <<demux, needSeek>>
    BY <1>7, <2>1, UserThreadKeeps
  <2>3. UNCHANGED stopping
    BY <1>7, <2>1, UserThreadKeeps DEF SeekStop, beyondUser
  <2>4. user' \notin {"seekWait", "seekStart"}
    BY <1>2, <1>7 DEF UserThread, PauseOrResume, Seek, SeekGoesOn, SeekToggle, SeekStop, SeekWait,
                      SeekStart, SeekCrash, StopSession, StopReturns
  <2> QED
    BY <1>2, <2>1, <2>2, <2>3, <2>4
<1>8. CASE (\E t \in Threads : Sleep(t) \/ EnterCrash(t)) \/ UNCHANGED vars
  BY <1>2, <1>8, SleepKeeps DEF vars
<1>9. ASSUME NEW s \in Streams, DecodeThread(s)
      PROVE  UNCHANGED <<demux, needSeek, user, stopping>>
  BY <1>9, DecodeThreadKeeps
<1>10. ASSUME NEW s \in Rendered, RenderThread(s)
       PROVE  UNCHANGED <<demux, needSeek, user>>
  BY <1>10, RenderThreadKeeps
<1> QED
  BY <1>2, <1>3, <1>4, <1>5, <1>6, <1>7, <1>8, <1>9, <1>10 DEF Next, Intact

(* One stop of a renderer leaks one frame at most: whatever sets its flag  *)
(* counts a stop, and past its flag a renderer gets no second frame.       *)
LEMMA RenderStopsStep ==
    ASSUME FlagTypes, [Next]_vars, NEW s \in Rendered
    PROVE  /\ renderStops' \in {renderStops, renderStops + 1}
           /\ stopFlag'[Renderer(s)] /\ ~stopFlag[Renderer(s)] => renderStops' = renderStops + 1
<1>1. /\ Renderer(s) \in Threads /\ Renderer(s) # Demuxer /\ \A t : Renderer(s) # Decoder(t)
      /\ stopFlag \in [Threads -> BOOLEAN] /\ renderStops \in Nat
  BY RenderedStreams DEF FlagTypes, Renderer, Demuxer, Decoder
<1> QED
  BY <1>1, FlagStep DEF StopRender, StartRender, SeekStart, Enter, EndSelf, StopEnter

LEMMA RenderLeaks ==
    ASSUME Ind, NEW s \in Rendered, RenderThread(s)
    PROVE  /\ UNCHANGED <<stopFlag, renderStops>>
           /\ \/ UNCHANGED leaked[s] /\ Pending(s)' <= Pending(s)
              \/ /\ leaked'[s] = leaked[s] \cup ToSet(shown[s]) /\ RenderCheck(s)
                 /\ Pending(s) = IF shown[s] = <<>> THEN 0 ELSE 1
                 /\ Pending(s)' = 0
           /\ render'[s] = "check" /\ shown'[s] # <<>> => Jumps
<1> USE DEF Ind
<1>1. UNCHANGED <<stopFlag, renderStops>>
  BY RenderThreadKeeps
<1>2. /\ render \in [Rendered -> {"check", "get", "show", "end", "add", "compare", "stop", "leave",
                                  "off"}]
      /\ shown \in [Rendered -> Seq(Nat)] /\ leaked \in [Rendered -> SUBSET Nat]
  BY DEF Types, RenderTypes
<1>3. render[s] \notin {"check", "show", "end"} => shown[s] = <<>>
  BY DEF RenderHolds
<1>4. CASE RenderCheck(s)
  <2>1. /\ render[s] = "check"
        /\ IF stopFlag[Renderer(s)]
           THEN /\ leaked'[s] = leaked[s] \cup ToSet(shown[s]) /\ shown'[s] = <<>>
                /\ render'[s] = "leave"
           ELSE UNCHANGED <<leaked, shown>> /\ render'[s] \in {"get", "show"}
    BY <1>2, <1>4 DEF RenderCheck, RenderAt
  <2> QED
    BY <1>1, <1>4, <2>1 DEF Pending
<1>5. CASE GetFrontFrame(s)
  <2>1. render[s] = "get" /\ UNCHANGED leaked /\ render'[s] # "check"
    BY <1>2, <1>5 DEF GetFrontFrame, RenderAt
  <2> QED
    BY <1>1, <2>1 DEF Pending
<1>6. CASE HoldFrame(s)
  <2>1. UNCHANGED <<leaked, shown>> /\ render[s] = "show" /\ render'[s] = "check" /\ Jumps
    BY <1>2, <1>6 DEF HoldFrame, RenderAt
  <2> QED
    BY <1>1, <2>1 DEF Pending
<1>7. CASE SendFrame(s) \/ ReleaseRender(s)
  <2>1. UNCHANGED leaked /\ shown'[s] = <<>> /\ render'[s] # "get"
    BY <1>2, <1>7 DEF SendFrame, ReleaseRender, RenderAt, Consume
  <2> QED
    BY <1>1, <2>1 DEF Pending
<1>8. CASE RenderEnter(s) \/ AddReleaseIndex(s) \/ NotTheLast(s) \/ PlayFinish(s)
           \/ ResetReleaseIndex(s) \/ RenderLeave(s)
  <2>1. UNCHANGED <<leaked, shown>> /\ shown[s] = <<>> /\ render'[s] # "get"
    BY <1>2, <1>3, <1>8 DEF RenderEnter, AddReleaseIndex, NotTheLast, PlayFinish, ResetReleaseIndex,
                            RenderLeave, RenderAt
  <2> QED
    BY <1>1, <2>1 DEF Pending
<1> QED
  BY <1>4, <1>5, <1>6, <1>7, <1>8 DEF RenderThread

LEMMA LeaksNext == Ind /\ Leaks /\ [Next]_vars => Leaks'
<1> SUFFICES ASSUME Ind, Leaks, [Next]_vars, NEW s \in Rendered
             PROVE  /\ IsFiniteSet(leaked'[s])
                    /\ Cardinality(leaked'[s]) + Pending(s)' <= renderStops'
                    /\ render'[s] = "check" /\ shown'[s] # <<>> => Jumps
                    /\ leaked'[s] # {} => Jumps
  BY DEF Leaks
<1>1. /\ IsFiniteSet(leaked[s]) /\ Cardinality(leaked[s]) + Pending(s) <= renderStops
      /\ render[s] = "check" /\ shown[s] # <<>> => Jumps
      /\ leaked[s] # {} => Jumps
  BY DEF Leaks
<1>2. Cardinality(leaked[s]) \in Nat /\ renderStops \in Nat /\ Pending(s) \in {0, 1}
  BY <1>1, FS_CardinalityType DEF Pending, Ind, FlagTypes
<1>3. CASE RenderThread(s) /\ UNCHANGED leaked[s] /\ Pending(s)' <= Pending(s)
  BY <1>1, <1>2, <1>3, RenderLeaks DEF Pending
<1>4. CASE RenderThread(s) /\ ~(UNCHANGED leaked[s] /\ Pending(s)' <= Pending(s))
  <2>1. /\ leaked'[s] = leaked[s] \cup ToSet(shown[s]) /\ RenderCheck(s) /\ UNCHANGED renderStops
        /\ Pending(s) = (IF shown[s] = <<>> THEN 0 ELSE 1) /\ Pending(s)' = 0
        /\ render'[s] = "check" /\ shown'[s] # <<>> => Jumps
    BY <1>4, RenderLeaks
  <2>2. shown[s] \in Seq(Nat) /\ Len(shown[s]) <= 1 /\ render[s] = "check"
    BY <2>1 DEF RenderCheck, RenderAt, Ind, Types, RenderTypes, RenderHolds
  <2>3. CASE shown[s] = <<>>
    <3>1. leaked'[s] = leaked[s]
      BY <2>1, <2>3, Short
    <3> QED
      BY <1>1, <1>2, <2>1, <2>3, <3>1
  <2>4. CASE shown[s] # <<>>
    <3>1. Len(shown[s]) = 1 /\ shown[s] = <<Head(shown[s])>>
      BY <2>2, <2>4, Single
    <3>2. leaked'[s] = leaked[s] \cup {Head(shown[s])}
      BY <2>1, <3>1, Short
    <3>3. /\ IsFiniteSet(leaked'[s])
          /\ Cardinality(leaked'[s]) \in {Cardinality(leaked[s]), Cardinality(leaked[s]) + 1}
      BY <1>1, <3>2, FS_AddElement
    <3> QED
      BY <1>1, <1>2, <2>1, <2>2, <2>4, <3>3
  <2> QED
    BY <2>3, <2>4
<1>5. CASE ~RenderThread(s)
  <2>1. UNCHANGED <<shown[s], leaked[s], render[s]>>
    BY <1>5, RenderStep DEF Ind
  <2>2. /\ renderStops' \in {renderStops, renderStops + 1}
        /\ stopFlag'[Renderer(s)] /\ ~stopFlag[Renderer(s)] => renderStops' = renderStops + 1
    BY RenderStopsStep DEF Ind
  <2>3. Pending(s)' \in {0, 1} /\ (Pending(s)' = 1 /\ Pending(s) = 0 => renderStops' = renderStops + 1)
    BY <2>1, <2>2 DEF Pending
  <2> QED
    BY <1>1, <1>2, <2>1, <2>2, <2>3
<1> QED
  BY <1>3, <1>4, <1>5

(* From the demuxer to the renderer nothing of a stream is duplicated,     *)
(* overtakes or vanishes: demuxStream(), the queues, the codec and the     *)
(* renderer between them hold every packet and frame that nobody dropped,  *)
(* in their order, whatever the user and the cache switch do meanwhile.    *)
(* Each stopRender() costs a stream one frame at most, and none unless     *)
(* the time stamps jump.                                                   *)
THEOREM Completeness == Spec => []NothingLost
<1>1. Init => Uninterrupted /\ Leaks
  <2>1. Init => Uninterrupted
    BY DEF Init, QueueInit, Uninterrupted
  <2>2. \A s \in Rendered : Renderer(s) \in Threads
    BY RenderedStreams
  <2> QED
    BY <2>1, <2>2, FS_EmptySet DEF Init, Leaks, Pending
<1>2. Ind /\ Uninterrupted /\ Leaks => NothingLost
  <2> SUFFICES ASSUME Ind, Uninterrupted, Leaks, NEW s \in Streams
               PROVE  /\ \A i, j \in DOMAIN Path(s) : i < j => Path(s)[i] < Path(s)[j]
                      /\ ToSet(Path(s)) \cup dropped[s] \cup Leaked(s) = 1..sent[s]
                      /\ ToSet(Path(s)) \cap (dropped[s] \cup Leaked(s)) = {}
                      /\ ~interrupted /\ finishes = 0 => dropped[s] = {}
                      /\ Cardinality(Leaked(s)) <= renderStops /\ (Leaked(s) # {} => Jumps)
    BY DEF NothingLost
  <2>1. Accounted(Path(s), dropped[s] \cup Leaked(s), sent[s])
    BY DEF Ind, Paths, Out
  <2>2. Cardinality(Leaked(s)) <= renderStops /\ (Leaked(s) # {} => Jumps)
    <3>1. CASE s \in Rendered
      <4>1. /\ IsFiniteSet(leaked[s]) /\ Cardinality(leaked[s]) + Pending(s) <= renderStops
            /\ leaked[s] # {} => Jumps
        BY <3>1 DEF Leaks
      <4>2. Cardinality(leaked[s]) \in Nat /\ renderStops \in Nat /\ Pending(s) \in {0, 1}
        BY <4>1, FS_CardinalityType DEF Pending, Ind, FlagTypes
      <4> QED
        BY <3>1, <4>1, <4>2 DEF Leaked
    <3>2. CASE s \notin Rendered
      BY <3>2, FS_EmptySet DEF Leaked, Ind, FlagTypes
    <3> QED
      BY <3>1, <3>2
  <2> QED
    BY <2>1, <2>2 DEF Accounted, Ascending, Uninterrupted
<1> QED
  BY <1>1, <1>2, UninterruptedNext, LeaksNext, Invariance, PTL DEF Spec
-----------------------------------------------------------------------------
(* One end of a stream: an end packet stops its decoder for good, so only  *)
(* one end frame ever comes out of a codec.                                *)
LEMMA ReachedElements ==
    ASSUME Types, NEW s \in Streams
    PROVE  /\ ToSet(Reached(s)) = IF s \in Rendered THEN ToSet(rendered[s]) \cup ToSet(shown[s])
                                  ELSE {}
           /\ Downstream(s) = ToSet(Reached(s)) \cup ToSet(queue[m_frameQueue(s)]) \cup ToSet(frame[s])
<1>1. ToSet(<<>>) = {}
  BY Short
<1>2. s \in Rendered => ToSet(rendered[s] \o shown[s]) = ToSet(rendered[s]) \cup ToSet(shown[s])
  BY SegmentTypes, ConcatElements
<1> QED
  BY <1>1, <1>2 DEF Reached, Downstream

LEMMA NewEndElsewhere ==
    ASSUME Ind, [Next]_vars, NEW s \in Streams
    PROVE  /\ ends[s] \subseteq ends'[s] /\ ToSet(Path(s)) \cap ends'[s] \subseteq ends[s]
           /\ Downstream(s) \subseteq ToSet(Path(s))
           /\ Downstream(s) \cap ends'[s] = Downstream(s) \cap ends[s]
<1>1. ends'[s] = ends[s] \/ ends'[s] = ends[s] \cup {sent[s] + 1}
  BY ReadStep DEF DemuxRead, DemuxEof
<1>2. sent[s] + 1 \notin ToSet(Path(s))
  BY OnPath DEF Ind
<1>3. Downstream(s) \subseteq ToSet(Path(s))
  BY OnPath, ReachedElements DEF Ind
<1> QED
  BY <1>1, <1>2, <1>3

LEMMA TailElements ==
    ASSUME NEW q \in Seq(Nat), q # <<>>
    PROVE  ToSet(q) = {Head(q)} \cup ToSet(Tail(q))
<1> DEFINE one == <<Head(q)>>
<1>1. one \in Seq(Nat) /\ Tail(q) \in Seq(Nat) /\ q = one \o Tail(q)
  BY HeadAndTail
<1>2. ToSet(one) = {Head(q)}
  BY Short
<1> HIDE DEF one
<1> QED
  BY <1>1, <1>2, ConcatElements

LEMMA AppendElements ==
    ASSUME NEW q \in Seq(Nat), NEW x \in Nat
    PROVE  ToSet(Append(q, x)) = ToSet(q) \cup {x}
<1> DEFINE one == <<x>>
<1>1. one \in Seq(Nat) /\ Append(q, x) = q \o one
  BY AppendIsConcatOfOne
<1>2. ToSet(one) = {x}
  BY Short
<1> HIDE DEF one
<1> QED
  BY <1>1, <1>2, ConcatElements

(* Everybody but the decoder itself only passes frames on or drops them.   *)
LEMMA DownstreamShrinks ==
    ASSUME Ind, [Next]_vars, NEW s \in Streams, ~DecodeThread(s)
    PROVE  /\ Downstream(s)' \subseteq Downstream(s) /\ UNCHANGED <<decode[s], packet[s]>>
           /\ stopFlag[Decoder(s)] => stopFlag'[Decoder(s)]
<1> USE DEF Ind
<1>1. UNCHANGED <<decode[s], packet[s], frame[s]>>
  BY DecodeStep
<1>2. m_frameQueue(s) \in Queues /\ m_packetQueue(s) \in Queues /\ ToSet(<<>>) = {}
  BY QueueKinds, Short
<1>3. Decoder(s) \in Threads /\ Decoder(s) # Demuxer /\ Decoder(s) \notin Renderers
      /\ \A t : Decoder(s) = Decoder(t) => s = t
  BY DEF Threads, Decoder, Demuxer, Renderers, Renderer
<1>4. stopFlag[Decoder(s)] => stopFlag'[Decoder(s)]
  <2>1. stopFlag \in [Threads -> BOOLEAN]
    BY DEF FlagTypes
  <2> QED
    BY <1>3, <2>1, FlagStep DEF StopRender, StartRender, EndSelf, SeekStart, Enter, StopEnter
<1>5. CASE \E t \in Rendered : RenderThread(t)
  <2> PICK t \in Rendered : RenderThread(t)
    BY <1>5
  <2>1. t \in Streams /\ m_frameQueue(t) \in Queues /\ (m_frameQueue(t) = m_frameQueue(s) => s = t)
    BY QueueKinds, RenderedStreams
  <2>2. CASE t # s
    <3>1. s \in Rendered => UNCHANGED <<rendered[s], shown[s]>>
      BY <2>2 DEF RenderThread, RenderEnter, RenderCheck, GetFrontFrame, HoldFrame, SendFrame,
                  ReleaseRender,
                  AddReleaseIndex, NotTheLast, PlayFinish, ResetReleaseIndex, RenderLeave, Consume,
                  Types, RenderTypes
    <3>2. queue'[m_frameQueue(s)] = queue[m_frameQueue(s)]
      BY <1>2, <2>1, <2>2, RenderThreadKeeps, GetMoves, RefusedMovesNothing DEF GetFrontFrame, Types
    <3> QED
      BY <1>1, <1>4, <3>1, <3>2 DEF Downstream
  <2>3. CASE t = s
    <3> DEFINE q == queue[m_frameQueue(s)]
    <3>1. /\ q \in Seq(Nat) /\ rendered[s] \in Seq(Nat) /\ shown[s] \in Seq(Nat)
          /\ <<>> \in Seq(Nat)
      BY <2>3, SegmentTypes
    <3>2. CASE GetFrontFrame(s) /\ GetDone(Renderer(s), m_frameQueue(s))
      <4>1. q # <<>> /\ queue'[m_frameQueue(s)] = Tail(q)
        BY <1>2, <3>2, GetMoves DEF Types
      <4>2. rendered' = rendered /\ shown'[s] = <<Head(q)>>
        BY <2>3, <3>2 DEF GetFrontFrame, GetDone, GetRefused, Refused, GetBlocks, Types, RenderTypes
      <4>3. ToSet(shown'[s]) = {Head(q)} /\ ToSet(q) = {Head(q)} \cup ToSet(Tail(q))
        BY <3>1, <4>1, <4>2, TailElements, Short
      <4> QED
        BY <1>1, <1>4, <4>1, <4>2, <4>3 DEF Downstream
    <3>3. CASE GetFrontFrame(s) /\ ~GetDone(Renderer(s), m_frameQueue(s))
      <4>1. UNCHANGED <<queue, rendered, shown>>
        BY <3>3, RefusedMovesNothing DEF GetFrontFrame
      <4> QED
        BY <1>1, <1>4, <4>1 DEF Downstream
    <3>4. CASE ~GetFrontFrame(s)
      <4>1. UNCHANGED queue
        BY <2>3, <3>4, RenderThreadKeeps
      <4>2. \/ UNCHANGED <<rendered, shown>>
            \/ UNCHANGED rendered /\ shown'[s] = <<>>
            \/ rendered'[s] = rendered[s] \o shown[s] /\ shown'[s] = <<>>
        BY <2>3, <3>4 DEF RenderThread, RenderEnter, RenderCheck, HoldFrame, SendFrame,
                          ReleaseRender,
                          AddReleaseIndex, NotTheLast, PlayFinish, ResetReleaseIndex, RenderLeave,
                          Consume, Types, RenderTypes
      <4>3. ToSet(rendered[s] \o shown[s]) = ToSet(rendered[s]) \cup ToSet(shown[s])
        BY <3>1, ConcatElements
      <4>4. ToSet(rendered'[s]) \cup ToSet(shown'[s]) \subseteq ToSet(rendered[s]) \cup ToSet(shown[s])
        BY <1>2, <4>2, <4>3
      <4> QED
        BY <1>1, <1>4, <4>1, <4>4 DEF Downstream
    <3> QED
      BY <3>2, <3>3, <3>4
  <2> QED
    BY <2>2, <2>3
<1>6. CASE ~(\E t \in Rendered : RenderThread(t))
  <2>1. UNCHANGED <<rendered, shown>>
    BY <1>6, DemuxThreadKeeps, DecodeThreadKeeps, StopKeeps, UserThreadKeeps, SleepKeeps
       DEF Next, Intact, vars
  <2>2. ToSet(queue'[m_frameQueue(s)]) \subseteq ToSet(queue[m_frameQueue(s)])
    <3>1. ASSUME NEW t \in Streams, DecodeThread(t)
          PROVE  queue'[m_frameQueue(s)] = queue[m_frameQueue(s)]
      <4>1. m_packetQueue(t) \in Queues /\ m_frameQueue(t) \in Queues /\ t # s
            /\ m_packetQueue(t) # m_frameQueue(s) /\ m_frameQueue(t) # m_frameQueue(s)
        BY <3>1, QueueKinds
      <4> QED
        BY <1>2, <3>1, <4>1, GetMoves, PutMoves, RefusedMovesNothing
           DEF DecodeThread, DecodeEnter, DecodeCheck, DecodeGet, DecodeData, DecodeDrain,
               RecvFrame, RecvFrameBlocks, Types
    <3>2. CASE RecvPacket
      <4>1. m_packetQueue(Target) \in Queues /\ m_packetQueue(Target) # m_frameQueue(s)
        BY <3>2, QueueKinds DEF RecvPacket, DemuxHolds
      <4> QED
        BY <1>2, <3>2, <4>1, PutMoves, RefusedMovesNothing DEF RecvPacket, Types
    <3>3. CASE ClearPop
      <4>1. m_packetQueue(index) \in Queues /\ m_packetQueue(index) # m_frameQueue(s)
        BY <3>3, QueueKinds DEF ClearPop, DemuxHolds
      <4> QED
        BY <1>2, <3>3, <4>1, GetMoves, RefusedMovesNothing DEF ClearPop, Types
    <3>4. DemuxThread => RecvPacket \/ ClearPop \/ UNCHANGED queue
      BY RefusedMovesNothing
         DEF DemuxThread, DemuxEnter, DemuxLeave, DemuxCheck, DemuxControl, DemuxWaitPause,
             DemuxSeek, ClearForcewake,
             ClearTest, DemuxRead, DemuxEof, DemuxError, RecvPacketBlocks, Judge, DemuxStop,
             Forcewake
    <3>5. ASSUME NEW c \in Callers, Stop(c)
          PROVE  UNCHANGED queue \/ queue'[m_frameQueue(s)] = <<>>
      BY <1>2, <3>5, StopKeeps DEF StopClear
    <3>6. UserThread \/ (\E t \in Threads : Sleep(t) \/ EnterCrash(t)) \/ UNCHANGED vars => UNCHANGED queue
      BY UserThreadKeeps, SleepKeeps DEF vars
    <3> QED
      BY <1>2, <1>6, <3>1, <3>2, <3>3, <3>4, <3>5, <3>6 DEF Next, Intact
  <2> QED
    BY <1>1, <1>4, <2>1, <2>2 DEF Downstream
<1> QED
  BY <1>5, <1>6

LEMMA OneEndNext == Ind /\ OneEnd /\ [Next]_vars => OneEnd'
<1> USE DEF Ind
<1> SUFFICES ASSUME Ind, OneEnd, [Next]_vars, NEW s \in Streams
             PROVE  /\ \A x, y \in Downstream(s)' \cap ends'[s] : x = y
                    /\ Downstream(s)' \cap ends'[s] # {} =>
                           \/ decode'[s] = "drainPut" /\ packet'[s] = <<>>
                           \/ decode'[s] \in {"check", "off"} /\ stopFlag'[Decoder(s)]
  BY DEF OneEnd
<1>1. /\ \A x, y \in Downstream(s) \cap ends[s] : x = y
      /\ Downstream(s) \cap ends[s] # {} =>
             \/ decode[s] = "drainPut" /\ packet[s] = <<>>
             \/ decode[s] \in {"check", "off"} /\ stopFlag[Decoder(s)]
  BY DEF OneEnd
<1>2. Downstream(s) \cap ends'[s] = Downstream(s) \cap ends[s]
  BY NewEndElsewhere
<1>3. CASE ~DecodeThread(s)
  BY <1>1, <1>2, <1>3, DownstreamShrinks
<1>4. CASE DecodeThread(s)
  <2> DEFINE q == queue[m_frameQueue(s)]
             f == frame[s]
             c == codec[s]
             k == packet[s]
             R == IF s \in Rendered THEN ToSet(rendered[s]) \cup ToSet(shown[s]) ELSE {}
  <2>1. /\ UNCHANGED ends
        /\ Downstream(s) = R \cup ToSet(q) \cup ToSet(f)
        /\ Downstream(s)' = R \cup ToSet(queue'[m_frameQueue(s)]) \cup ToSet(frame'[s])
    BY <1>4, DecodeThreadKeeps DEF Downstream
  <2>2. /\ q \in Seq(Nat) /\ f \in Seq(Nat) /\ c \in Seq(Nat) /\ k \in Seq(Nat) /\ ToSet(<<>>) = {}
        /\ m_frameQueue(s) \in Queues /\ m_packetQueue(s) \in Queues
        /\ m_packetQueue(s) # m_frameQueue(s)
    BY SegmentTypes, QueueKinds, Short
  <2>3. /\ (f # <<>>) <=> (decode[s] \in {"put", "drainPut"})
        /\ decode[s] \in {"decode", "drain"} => k # <<>>
        /\ Len(k) <= 1 /\ Len(f) <= 1
        /\ decode[s] = "put" => Head(f) \notin ends[s]
        /\ decode[s] = "drainPut" => (k = <<>> <=> Head(f) \in ends[s])
        /\ ToSet(c) \cap ends[s] = {}
    BY DEF DecodeHolds
  <2>4. CASE DecodeCheck(s)
    <3>1. /\ decode[s] = "check" /\ UNCHANGED <<queue, frame, stopFlag>>
          /\ decode'[s] = IF stopFlag[Decoder(s)] THEN "off" ELSE "get"
      BY <2>4 DEF DecodeCheck, Types, DecodeTypes
    <3> QED
      BY <1>1, <2>1, <3>1
  <2>10. CASE DecodeEnter(s)
    <3>1. /\ decode[s] = "off" /\ decode'[s] = "check" /\ UNCHANGED <<queue, frame, stopFlag>>
      BY <2>10 DEF DecodeEnter, Enter, Types, DecodeTypes
    <3> QED
      BY <1>1, <2>1, <3>1
  <2>5. CASE DecodeGet(s)
    <3>1. decode[s] = "get" /\ UNCHANGED frame
      BY <2>5 DEF DecodeGet
    <3>2. queue'[m_frameQueue(s)] = q
      BY <2>2, <2>5, GetMoves, RefusedMovesNothing DEF DecodeGet, Types
    <3> QED
      BY <1>1, <2>1, <3>1, <3>2
  <2>6. CASE DecodeData(s)
    <3>1. decode[s] = "decode" /\ UNCHANGED queue
      BY <2>6 DEF DecodeData
    <3>2. f = <<>> /\ Downstream(s) \cap ends[s] = {}
      BY <1>1, <2>3, <3>1
    <3>3. frame'[s] = f \/ (frame'[s] = <<Head(c \o k)>> /\ decode'[s] = "put")
      BY <2>6 DEF DecodeData, Types, DecodeTypes
    <3>4. decode'[s] = "put" => Head(frame'[s]) \notin ends'[s]
      BY DecodeHoldsNext DEF DecodeHolds
    <3> DEFINE n == Head(c \o k)
               one == <<n>>
    <3>5. ToSet(one) = {n} /\ Head(one) = n
      <4> HIDE DEF n
      <4>1. Head(one) = n
        OBVIOUS
      <4>2. ToSet(one) = {n}
        BY Short
      <4> QED
        BY <4>1, <4>2
    <3>6. frame'[s] = f \/ (frame'[s] = one /\ decode'[s] = "put")
      BY <3>3
    <3>7. queue'[m_frameQueue(s)] = q
      BY <3>1
    <3> HIDE DEF n, one, R, q, f
    <3> QED
      BY <2>1, <2>2, <3>2, <3>4, <3>5, <3>6, <3>7
  <2>7. CASE DecodeDrain(s)
    <3>1. decode[s] = "drain" /\ UNCHANGED queue /\ decode'[s] = "drainPut"
      BY <2>7 DEF DecodeDrain, Types, DecodeTypes
    <3>2. Downstream(s) \cap ends[s] = {} /\ f = <<>>
      BY <1>1, <2>3, <3>1
    <3>3. CASE c # <<>>
      <4>1. frame'[s] = <<Head(c)>>
        BY <2>7, <3>3 DEF DecodeDrain, Types, DecodeTypes
      <4>2. ToSet(frame'[s]) = {Head(c)} /\ Head(c) \in ToSet(c)
        BY <2>2, <3>3, <4>1, HeadAndTail, Short
      <4> QED
        BY <2>1, <2>2, <2>3, <3>1, <3>2, <4>2
    <3>4. CASE c = <<>>
      <4>1. frame'[s] = k /\ packet'[s] = <<>>
        BY <2>7, <3>4 DEF DecodeDrain, Types, DecodeTypes
      <4>2. ToSet(frame'[s]) = {Head(k)}
        BY <2>2, <2>3, <3>1, <4>1, Single
      <4> QED
        BY <2>1, <2>2, <3>1, <3>2, <4>1, <4>2
    <3> QED
      BY <3>3, <3>4
  <2>8. CASE RecvFrame(s)
    <3>1. /\ decode[s] \in {"put", "drainPut"} /\ frame'[s] = <<>> /\ UNCHANGED packet
          /\ Head(f) \in ends[s] =>
                decode'[s] = "check" /\ EndSelf(Decoder(s))
      BY <2>8 DEF RecvFrame, Types, DecodeTypes
    <3>2. ToSet(f) = {Head(f)} /\ Head(f) \in Nat
      BY <2>2, <2>3, <3>1, Single
    <3>3. ToSet(queue'[m_frameQueue(s)]) \subseteq ToSet(q) \cup {Head(f)}
      <4>1. CASE PutDone(Decoder(s), m_frameQueue(s), Head(f))
        <5>1. queue'[m_frameQueue(s)] = Append(q, Head(f))
          BY <2>2, <4>1, PutMoves DEF Types
        <5> QED
          BY <2>2, <3>2, <5>1, AppendElements
      <4>2. CASE PutRefused(Decoder(s), m_frameQueue(s))
        BY <4>2, RefusedMovesNothing
      <4> QED
        BY <2>8, <4>1, <4>2 DEF RecvFrame
    <3>4. Downstream(s)' \subseteq Downstream(s)
      BY <2>1, <2>2, <3>1, <3>2, <3>3
    <3>5. Downstream(s) \cap ends[s] # {} => Head(f) \in ends[s]
      BY <1>1, <2>3, <3>1
    <3>6. Head(f) \in ends[s] => stopFlag'[Decoder(s)]
      BY <3>1 DEF EndSelf, FlagTypes, Threads
    <3> QED
      BY <1>1, <2>1, <3>1, <3>4, <3>5, <3>6
  <2>9. CASE RecvFrameBlocks(s)
    BY <1>1, <2>1, <2>9, RefusedMovesNothing DEF RecvFrameBlocks
  <2> QED
    BY <1>4, <2>4, <2>5, <2>6, <2>7, <2>8, <2>9, <2>10 DEF DecodeThread
<1> QED
  BY <1>3, <1>4

(* What was rendered is not waiting to be rendered.                        *)
LEMMA RenderedIsBehind ==
    ASSUME Types, Paths, NEW s \in Rendered
    PROVE  /\ ToSet(rendered[s]) \cap ToSet(shown[s]) = {}
           /\ ToSet(rendered[s]) \cap ToSet(queue[m_frameQueue(s)]) = {}
<1> DEFINE r == rendered[s]
           v == shown[s]
           q == queue[m_frameQueue(s)]
           f == frame[s]
           c == codec[s]
           k == packet[s]
           p == queue[m_packetQueue(s)]
           h == InHand(s)
<1>1. /\ r \in Seq(Nat) /\ v \in Seq(Nat) /\ q \in Seq(Nat) /\ f \in Seq(Nat)
      /\ c \in Seq(Nat) /\ k \in Seq(Nat) /\ p \in Seq(Nat) /\ h \in Seq(Nat)
  BY RenderedStreams, SegmentTypes
<1>2. Ascending(Path(s))
  BY RenderedStreams DEF Paths, Accounted
<1>3. Path(s) = (r \o v) \o q \o f \o c \o k \o p \o h
  BY DEF Path
<1> HIDE DEF r, v, q, f, c, k, p, h
<1> DEFINE a == r \o v
           b == a \o q
           d == b \o f
           e == d \o c
           g == e \o k
           l == g \o p
<1>4. a \in Seq(Nat) /\ ToSet(a) = ToSet(r) \cup ToSet(v)
  BY <1>1, ConcatElements
<1>5. Ascending(a) => \A x \in ToSet(r), y \in ToSet(v) : x < y
  BY <1>1, ConcatAscending
<1> HIDE DEF a
<1>6. b \in Seq(Nat)
  BY <1>1, <1>4
<1>7. Ascending(b) => Ascending(a) /\ \A x \in ToSet(a), y \in ToSet(q) : x < y
  BY <1>1, <1>4, ConcatAscending
<1> HIDE DEF b
<1>8. d \in Seq(Nat) /\ (Ascending(d) => Ascending(b))
  BY <1>1, <1>6, ConcatAscending
<1> HIDE DEF d
<1>9. e \in Seq(Nat) /\ (Ascending(e) => Ascending(d))
  BY <1>1, <1>8, ConcatAscending
<1> HIDE DEF e
<1>10. g \in Seq(Nat) /\ (Ascending(g) => Ascending(e))
  BY <1>1, <1>9, ConcatAscending
<1> HIDE DEF g
<1>11. l \in Seq(Nat) /\ (Ascending(l) => Ascending(g))
  BY <1>1, <1>10, ConcatAscending
<1> HIDE DEF l
<1>12. Ascending(l \o h) => Ascending(l)
  BY <1>1, <1>11, ConcatAscending
<1>13. Path(s) = l \o h
  BY <1>3 DEF a, b, d, e, g, l
<1>14. ToSet(r) \subseteq Nat /\ ToSet(v) \subseteq Nat /\ ToSet(q) \subseteq Nat /\ \A n \in Nat : ~(n < n)
  BY <1>1, ElementsAreNat
<1> QED
  BY <1>2, <1>4, <1>5, <1>7, <1>8, <1>9, <1>10, <1>11, <1>12, <1>13, <1>14 DEF r, v, q

(* The last renderer to see its end finds all of them counted.             *)
LEMMA EndedStays ==
    ASSUME Ind, [Next]_vars, NEW s \in Rendered
    PROVE  /\ ToSet(rendered[s]) \subseteq ToSet(rendered'[s])
           /\ Ended(s) => Ended(s)'
           /\ ~Ended(s) /\ rendered'[s] = rendered[s] => ~Ended(s)'
<1>1. ToSet(rendered[s]) \subseteq ToSet(rendered'[s])
  <2>1. CASE SendFrame(s) \/ ReleaseRender(s)
    <3>1. rendered'[s] = rendered[s] \o shown[s]
      BY <2>1 DEF SendFrame, ReleaseRender, Consume, Ind, Types, RenderTypes
    <3>2. rendered[s] \in Seq(Nat) /\ shown[s] \in Seq(Nat)
      BY DEF Ind, Types, RenderTypes
    <3>3. ToSet(rendered[s] \o shown[s]) = ToSet(rendered[s]) \cup ToSet(shown[s])
      BY <3>2, ConcatElements
    <3> QED
      BY <3>1, <3>3
  <2>2. CASE ~(SendFrame(s) \/ ReleaseRender(s))
    <3>1. RenderThread(s) => UNCHANGED rendered
      BY <2>2 DEF RenderThread, RenderEnter, RenderCheck, GetFrontFrame, HoldFrame,
                  AddReleaseIndex, NotTheLast, PlayFinish, ResetReleaseIndex, RenderLeave
    <3> QED
      BY <3>1, RenderStep DEF Ind
  <2> QED
    BY <2>1, <2>2
<1>2. ends[s] \subseteq ends'[s] /\ ToSet(Path(s)) \cap ends'[s] \subseteq ends[s]
  BY NewEndElsewhere, RenderedStreams
<1>3. ToSet(rendered[s]) \subseteq ToSet(Path(s))
  BY NewEndElsewhere, RenderedStreams DEF Downstream
<1> QED
  BY <1>1, <1>2, <1>3 DEF Ended

LEMMA CountsIsBit == \A s : Counts(s) \in {0, 1}
BY DEF Counts

LEMMA CountsNext ==
    ASSUME Ind, [Next]_vars, NEW s, s \in Rendered => ~AddReleaseIndex(s) /\ ~ReleaseRender(s)
    PROVE  Counts(s)' \in {0, 1} /\ Counts(s) <= Counts(s)'
<1>1. CASE s \in Rendered
  <2>1. render'[s] = "add" => render[s] = "add"
    <3>1. RenderThread(s) => render'[s] # "add" \/ render'[s] = render[s]
      BY <1>1 DEF RenderThread, RenderEnter, RenderCheck, GetFrontFrame, HoldFrame, SendFrame,
                  NotTheLast,
                  PlayFinish, ResetReleaseIndex, RenderLeave, RenderAt, Ind, Types, RenderTypes
    <3> QED
      BY <1>1, <3>1, RenderStep DEF Ind
  <2> QED
    BY <1>1, <2>1, EndedStays DEF Counts
<1>2. CASE s \notin Rendered
  BY <1>2 DEF Counts
<1> QED
  BY <1>1, <1>2

LEMMA CountingNext == Ind /\ OneEnd /\ Counting /\ [Next]_vars => Counting'
<1> SUFFICES ASSUME Ind, OneEnd, Counting, [Next]_vars PROVE Counting'
  OBVIOUS
<1>1. /\ releaseIndex \in Nat /\ releaseIndex <= Counts(1) + Counts(2)
      /\ \A s \in Rendered : readIndex[s] \in Nat
      /\ Counts(1) \in {0, 1} /\ Counts(2) \in {0, 1}
  BY CountsIsBit DEF Counting, Ind, Types, RenderTypes
<1>2. \A s \in Rendered : (s = 1 /\ 3 - s = 2) \/ (s = 2 /\ 3 - s = 1)
  <2> SUFFICES ASSUME NEW s \in Rendered PROVE (s = 1 /\ 3 - s = 2) \/ (s = 2 /\ 3 - s = 1)
    OBVIOUS
  <2>1. s = 1 \/ s = 2
    BY RenderedStreams
  <2>2. s = 1 => 3 - s = 2
    OBVIOUS
  <2>3. s = 2 => 3 - s = 1
    OBVIOUS
  <2> QED
    BY <2>1, <2>2, <2>3
<1>3. \A s \in Rendered :
          /\ render[s] = "add" => Ended(s) /\ readIndex[s] <= Counts(3 - s)
          /\ render[s] = "end" => ~Ended(s)
  BY DEF Counting
<1>4. \A s \in Rendered : RenderThread(s) =>
          \A o \in Rendered : o # s => UNCHANGED <<render[o], readIndex[o], rendered[o]>>
  BY DEF RenderThread, RenderEnter, RenderCheck, GetFrontFrame, HoldFrame, SendFrame, ReleaseRender,
         AddReleaseIndex, NotTheLast, PlayFinish, ResetReleaseIndex, RenderLeave, RenderAt, Consume,
         Ind, Types, RenderTypes
<1>5. \A a, b, x, y \in Nat : a <= x /\ x <= y => a <= y
  OBVIOUS
<1>6. ASSUME NEW s \in Rendered, ReleaseRender(s) PROVE Counting'
  <2>1. /\ render[s] = "end" /\ render'[s] = "add" /\ readIndex'[s] = releaseIndex
        /\ rendered'[s] = rendered[s] \o shown[s] /\ UNCHANGED <<releaseIndex, finishes, ends>>
    BY <1>6 DEF ReleaseRender, RenderAt, Consume, beyondRender, Ind, Types, RenderTypes
  <2>2. Counts(s) = 0 /\ Counts(s)' = 0
    BY <1>3, <2>1 DEF Counts
  <2>3. Ended(s)'
    <3>1. shown[s] # <<>> /\ Head(shown[s]) \in ends[s] /\ shown[s] \in Seq(Nat)
          /\ rendered[s] \in Seq(Nat)
      BY <2>1 DEF Ind, RenderHolds, Types, RenderTypes
    <3>2. ToSet(rendered'[s]) = ToSet(rendered[s]) \cup ToSet(shown[s])
      BY <2>1, <3>1, ConcatElements
    <3>3. Head(shown[s]) \in ToSet(shown[s])
      BY <3>1, HeadAndTail
    <3> QED
      BY <2>1, <3>1, <3>2, <3>3 DEF Ended
  <2>4. 3 - s \in Rendered => ~AddReleaseIndex(3 - s) /\ ~ReleaseRender(3 - s)
    BY <1>2, <1>4, <1>6, <2>1 DEF AddReleaseIndex, ReleaseRender, RenderAt, RenderThread
  <2>5. Counts(3 - s) <= Counts(3 - s)' /\ Counts(3 - s)' \in {0, 1}
    BY <2>4, CountsNext
  <2>6. releaseIndex <= Counts(3 - s) /\ Counts(3 - s) \in {0, 1}
    BY <1>1, <1>2, <2>2
  <2>7. releaseIndex <= Counts(3 - s)'
    BY <1>1, <2>5, <2>6
  <2>8. releaseIndex' <= Counts(1)' + Counts(2)'
    BY <1>1, <1>2, <2>1, <2>2, <2>5, <2>7
  <2>9. ASSUME NEW o \in Rendered
        PROVE  /\ render'[o] = "add" => Ended(o)' /\ readIndex'[o] <= Counts(3 - o)'
               /\ render'[o] = "end" => ~Ended(o)'
    <3>1. CASE o = s
      BY <2>1, <2>3, <2>7, <3>1
    <3>2. CASE o # s
      <4>1. UNCHANGED <<render[o], readIndex[o], rendered[o]>>
        BY <1>4, <1>6, <3>2 DEF RenderThread
      <4>2. 3 - o = s
        BY <1>2, <3>2
      <4> QED
        BY <1>3, <2>2, <4>1, <4>2, EndedStays
    <3> QED
      BY <3>1, <3>2
  <2>10. FinishAfterAll'
    BY <2>1, EndedStays DEF Counting, FinishAfterAll, Ended
  <2> QED
    BY <2>8, <2>9, <2>10 DEF Counting
<1>7. ASSUME NEW s \in Rendered, AddReleaseIndex(s) PROVE Counting'
  <2>1. /\ render[s] = "add" /\ render'[s] = "compare" /\ releaseIndex' = readIndex[s] + 1
        /\ UNCHANGED <<rendered, readIndex, finishes, ends>>
    BY <1>7 DEF AddReleaseIndex, RenderAt, beyondRender, Ind, Types, RenderTypes
  <2>2. Ended(s) /\ readIndex[s] <= Counts(3 - s)
    BY <1>3, <2>1
  <2>3. Counts(s)' = 1 /\ Counts(s) = 0
    BY <2>1, <2>2, EndedStays DEF Counts
  <2>4. 3 - s \in Rendered => ~AddReleaseIndex(3 - s) /\ ~ReleaseRender(3 - s)
    BY <1>2, <1>4, <1>7, <2>1 DEF AddReleaseIndex, ReleaseRender, RenderAt, RenderThread
  <2>5. Counts(3 - s) <= Counts(3 - s)' /\ Counts(3 - s)' \in {0, 1} /\ Counts(3 - s) \in {0, 1}
    BY <2>4, CountsNext, CountsIsBit
  <2>6. releaseIndex' <= Counts(1)' + Counts(2)'
    BY <1>1, <1>2, <2>1, <2>2, <2>3, <2>5
  <2>7. ASSUME NEW o \in Rendered
        PROVE  /\ render'[o] = "add" => Ended(o)' /\ readIndex'[o] <= Counts(3 - o)'
               /\ render'[o] = "end" => ~Ended(o)'
    <3>1. CASE o = s
      BY <2>1, <3>1
    <3>2. CASE o # s
      <4>1. UNCHANGED <<render[o], readIndex[o], rendered[o]>>
        BY <1>4, <1>7, <3>2 DEF RenderThread
      <4>2. 3 - o = s
        BY <1>2, <3>2
      <4>3. render[o] = "add" => readIndex[o] <= 0
        BY <1>3, <2>3, <4>2
      <4> QED
        BY <1>1, <1>3, <2>3, <4>1, <4>2, <4>3, EndedStays
    <3> QED
      BY <3>1, <3>2
  <2>8. FinishAfterAll'
    BY <2>1, EndedStays DEF Counting, FinishAfterAll, Ended
  <2> QED
    BY <2>6, <2>7, <2>8 DEF Counting
<1>8. ASSUME \A s \in Rendered : ~ReleaseRender(s) /\ ~AddReleaseIndex(s)
      PROVE  Counting'
  <2>1. \A s : Counts(s)' \in {0, 1} /\ Counts(s) <= Counts(s)'
    BY <1>8, CountsNext
  <2>2. releaseIndex' \in {0, releaseIndex} /\ (finishes' = finishes \/ \E s \in Rendered : PlayFinish(s))
    <3>1. ASSUME NEW s \in Rendered, RenderThread(s)
          PROVE  releaseIndex' \in {0, releaseIndex} /\ (finishes' = finishes \/ PlayFinish(s))
      BY <1>8, <3>1 DEF RenderThread, RenderEnter, RenderCheck, GetFrontFrame, HoldFrame,
                        SendFrame, NotTheLast, PlayFinish, ResetReleaseIndex, RenderLeave
    <3> QED
      BY <3>1, DemuxThreadKeeps, DecodeThreadKeeps, StopKeeps, UserThreadKeeps, SleepKeeps
         DEF Next, Intact, vars
  <2>3. releaseIndex' <= Counts(1)' + Counts(2)'
    BY <1>1, <2>1, <2>2
  <2>4. ASSUME NEW s \in Rendered
        PROVE  /\ render'[s] = "add" => Ended(s)' /\ readIndex'[s] <= Counts(3 - s)'
               /\ render'[s] = "end" => ~Ended(s)'
    <3>1. /\ render'[s] = "add" => render[s] = "add" /\ readIndex'[s] = readIndex[s]
          /\ \/ render'[s] # "end"
             \/ render[s] = "end" /\ rendered'[s] = rendered[s]
             \/ GetFrontFrame(s) /\ GetDone(Renderer(s), m_frameQueue(s)) /\ render'[s] = "end"
      <4>1. RenderThread(s) =>
              /\ render'[s] = "add" => render[s] = "add" /\ readIndex'[s] = readIndex[s]
              /\ \/ render'[s] # "end"
                 \/ GetFrontFrame(s) /\ GetDone(Renderer(s), m_frameQueue(s)) /\ render'[s] = "end"
        BY <1>8 DEF RenderThread, RenderEnter, RenderCheck, GetFrontFrame, HoldFrame, SendFrame,
                    NotTheLast,
                    PlayFinish, ResetReleaseIndex, RenderLeave, RenderAt, Ind, Types, RenderTypes
      <4> QED
        BY <4>1, RenderStep DEF Ind
    <3>2. render'[s] = "add" => Ended(s)' /\ readIndex'[s] <= Counts(3 - s)'
      BY <1>1, <1>2, <1>3, <2>1, <3>1, EndedStays
    <3>3. CASE render[s] = "end" /\ rendered'[s] = rendered[s]
      BY <1>3, <3>2, <3>3, EndedStays
    <3>4. CASE GetFrontFrame(s) /\ GetDone(Renderer(s), m_frameQueue(s)) /\ render'[s] = "end"
      <4> DEFINE n == Head(queue[m_frameQueue(s)])
      <4>1. n \in ends[s] /\ rendered' = rendered
        BY <3>4 DEF GetFrontFrame, GetDone, GetRefused, GetBlocks, Refused, RenderAt, Ind, Types,
                    RenderTypes
      <4>2. n \in ToSet(queue[m_frameQueue(s)])
        BY <3>4, HeadAndTail, SegmentTypes, RenderedStreams DEF GetDone, CanGet, Ind
      <4>3. n \notin ToSet(rendered[s])
        BY <4>2, RenderedIsBehind DEF Ind
      <4>4. ~Ended(s)
        BY <4>1, <4>2, <4>3, RenderedStreams DEF OneEnd, Downstream, Ended
      <4> QED
        BY <3>2, <4>1, <4>4, EndedStays
    <3> QED
      BY <3>1, <3>2, <3>3, <3>4
  <2>5. FinishAfterAll'
    <3>1. CASE finishes' = finishes
      BY <3>1, EndedStays DEF Counting, FinishAfterAll, Ended
    <3>2. CASE \E s \in Rendered : PlayFinish(s)
      <4>1. releaseIndex = NumStreams /\ NumStreams \in Nat \ {0}
        BY <3>2, QueuesAssumption DEF PlayFinish, PlayFinished
      <4>2. NumStreams = 1 \/ NumStreams = 2
        BY <1>1, <4>1
      <4>3. NumStreams = 1 => Counts(2) = 0
        BY DEF Counts, Rendered, Streams
      <4>4. \A s \in Streams : Counts(s) = 1
        BY <1>1, <4>1, <4>2, <4>3 DEF Streams
      <4>5. \A s \in Streams : s \in Rendered /\ Ended(s)
        BY <4>4 DEF Counts
      <4> QED
        BY <4>5, EndedStays DEF FinishAfterAll, Ended
    <3> QED
      BY <2>2, <3>1, <3>2
  <2> QED
    BY <2>3, <2>4, <2>5 DEF Counting
<1> QED
  BY <1>6, <1>7, <1>8

(* However the renderers' reads and writes of the shared index alternate,  *)
(* no end is counted before it was shown, and none twice (the count behind *)
(* PlayFinished).                                                          *)
THEOREM CountingHolds == Spec => [](OneEnd /\ Counting)
<1>1. Init => OneEnd /\ Counting
  <2> SUFFICES ASSUME Init PROVE OneEnd /\ Counting
    OBVIOUS
  <2>1. \A s \in Streams : ends[s] = {}
    BY DEF Init
  <2>2. \A s \in Rendered : render[s] = "off" /\ ~Ended(s)
    BY <2>1, RenderedStreams DEF Init, Ended
  <2>3. releaseIndex = 0 /\ finishes = 0 /\ Counts(1) \in {0, 1} /\ Counts(2) \in {0, 1}
    BY CountsIsBit DEF Init
  <2> QED
    BY <2>1, <2>2, <2>3 DEF OneEnd, Counting, FinishAfterAll
<1> QED
  BY <1>1, OneEndNext, CountingNext, Invariance, PTL DEF Spec

(* playFinsh is called only after every stream's renderer has consumed the *)
(* end frame of its stream, although m_releaseIndex is read and written    *)
(* in two steps by two threads: a lost update only makes the count smaller.*)
THEOREM FinishTrue == Spec => []FinishAfterAll
<1>1. Counting => FinishAfterAll
  BY DEF Counting
<1> QED
  BY <1>1, CountingHolds, PTL

(* Every variable has its type, no thread holds more than one item, no     *)
(* codec keeps back more than its delay, no queue is fuller than its       *)
(* capacity, and no more ends are counted than there are streams.          *)
THEOREM TypeCorrect == Spec => []TypeOK
<1>1. Ind /\ Counting => TypeOK
  <2> SUFFICES ASSUME Ind, Counting PROVE TypeOK
    OBVIOUS
  <2>1. releaseIndex \in 0..NumStreams
    <3>1. /\ releaseIndex \in Nat /\ releaseIndex <= Counts(1) + Counts(2)
          /\ Counts(1) \in {0, 1} /\ Counts(2) \in {0, 1} /\ NumStreams \in Nat \ {0}
      BY CountsIsBit, QueuesAssumption DEF Ind, Types, RenderTypes, Counting
    <3>2. NumStreams = 1 => Counts(2) = 0
      BY DEF Counts, Rendered, Streams
    <3> QED
      BY <3>1, <3>2
  <2>2. /\ \A s \in Streams : Len(packet[s]) <= 1 /\ Len(frame[s]) <= 1
        /\ \A s \in Rendered : Len(shown[s]) <= 1
    BY DEF Ind, DecodeHolds, RenderHolds
  <2> QED
    BY <2>1, <2>2 DEF Ind, Types, QueueTypes, DemuxTypes, DecodeTypes, RenderTypes, ControlTypes,
                      FlagTypes, TypeOK
<1> QED
  BY <1>1, CountingHolds, Invariance, PTL
-----------------------------------------------------------------------------
(* stop() takes the threads down in the order of the stream.               *)
LEMMA ThreadKinds ==
    /\ \A s : Demuxer # Decoder(s) /\ Demuxer # Renderer(s)
    /\ \A s, o : Decoder(s) # Renderer(o) /\ (Renderer(s) = Renderer(o) => s = o)
    /\ \A s, o : Decoder(s) = Decoder(o) => s = o
    /\ 1 \in Streams /\ 1 \in Rendered /\ User # Demuxer /\ \A s : User # Renderer(s)
BY QueuesAssumption DEF Demuxer, Decoder, Renderer, User, Rendered, Streams

LEMMA StopObjects ==
    ASSUME NEW c \in Callers, Stop(c)
    PROVE  \/ UNCHANGED objects
           \/ StopWaitDemux(c) /\ Delete(Demuxer)
           \/ \E s \in Streams : StopWaitDecoder(c, s) /\ Delete(Decoder(s))
           \/ \E s \in Rendered : StopWaitRenderer(c, s) /\ Delete(Renderer(s))
BY DEF Stop, StopEnter, StopCrash, StopWakePause, StopWakeQueues, StopWaitDemux, StopWaitDecoder,
       StopDecodersGone, StopWaitRenderer, StopRenderersGone, Delete, StopClear

LEMMA ObjectsStep ==
    ASSUME [Next]_vars
    PROVE  /\ UNCHANGED objects \/ \E c \in Callers : Stop(c)
           /\ objects' \subseteq objects
<1>1. ASSUME NEW c \in Callers, Stop(c) PROVE objects' \subseteq objects
  BY <1>1, StopObjects DEF Delete
<1>2. DemuxThread \/ (\E s \in Streams : DecodeThread(s)) \/ (\E s \in Rendered : RenderThread(s))
          \/ UserThread \/ (\E t \in Threads : Sleep(t) \/ EnterCrash(t)) \/ UNCHANGED vars
          => UNCHANGED objects
  BY DemuxThreadKeeps, DecodeThreadKeeps, RenderThreadKeeps, UserThreadKeeps, SleepKeeps DEF vars
<1> QED
  BY <1>1, <1>2 DEF Next, Intact

(* No thread gets into its loop once its object is deleted.                *)
LEMMA OffStaysOff ==
    ASSUME Ind, [Next]_vars
    PROVE  /\ demux = "off" /\ NoDemuxer => demux' = "off"
           /\ \A s \in Streams : decode[s] = "off" /\ Decoder(s) \notin objects => decode'[s] = "off"
           /\ \A s \in Rendered : render[s] \in {"stop", "leave", "off"} /\ Renderer(s) \notin objects
                  => render'[s] \in {"stop", "leave", "off"}
<1>1. demux = "off" /\ NoDemuxer => demux' = "off"
  <2>1. demux = "off" /\ NoDemuxer => ~DemuxThread
    BY DEF DemuxThread, DemuxEnter, Enter, NoDemuxer, DemuxLeave, DemuxCheck, DemuxControl,
           DemuxWaitPause, DemuxSeek, ClearForcewake, ClearTest, ClearPop, DemuxRead, DemuxEof,
           DemuxError, RecvPacket, RecvPacketBlocks, Judge, DemuxStop
  <2> QED
    BY <2>1, DemuxStep
<1>2. ASSUME NEW s \in Streams, decode[s] = "off", Decoder(s) \notin objects PROVE decode'[s] = "off"
  <2>1. ~DecodeThread(s)
    BY <1>2 DEF DecodeThread, DecodeEnter, Enter, DecodeCheck, DecodeGet, DecodeData, DecodeDrain,
                RecvFrame, RecvFrameBlocks, Ind, DecodeHolds
  <2> QED
    BY <1>2, <2>1, DecodeStep DEF Ind
<1>3. ASSUME NEW s \in Rendered, render[s] \in {"stop", "leave", "off"}, Renderer(s) \notin objects
      PROVE  render'[s] \in {"stop", "leave", "off"}
  <2>1. RenderThread(s) => render'[s] \in {"leave", "off"}
    BY <1>3 DEF RenderThread, RenderEnter, Enter, RenderCheck, GetFrontFrame, HoldFrame, SendFrame,
                ReleaseRender, AddReleaseIndex, NotTheLast, PlayFinish, ResetReleaseIndex,
                RenderLeave, RenderAt, Ind, Types, RenderTypes
  <2> QED
    BY <1>3, <2>1, RenderStep DEF Ind
<1> QED
  BY <1>1, <1>2, <1>3

(* Who is in stop(), and where.                                            *)
LEMMA StoppingStep ==
    ASSUME Ind, [Next]_vars, NEW c \in Callers
    PROVE  \/ stopping'[c] = stopping[c]
           \/ Stop(c)
           \/ c = User /\ StopSession
           \/ stopping'[c] = "enter" /\ \E s \in Rendered : c = Renderer(s) /\ PlayFinish(s)
<1>1. stopping \in [Callers -> {"no", "enter", "wakePause", "wakeQueues", "demux", "decoders",
                                 "renderers", "clear"}]
  BY DEF Ind, Types, ControlTypes
<1>2. ASSUME NEW d \in Callers, Stop(d), d # c PROVE stopping'[c] = stopping[c]
  BY <1>1, <1>2 DEF Stop, StopEnter, StopCrash, StopWakePause, StopWakeQueues, StopWaitDemux,
                    StopWaitDecoder, StopDecodersGone, StopWaitRenderer, StopRenderersGone, Delete,
                    StopClear, StopAt
<1>3. ASSUME NEW s \in Rendered, RenderThread(s)
      PROVE  \/ stopping'[c] = stopping[c]
             \/ stopping'[c] = "enter" /\ c = Renderer(s) /\ PlayFinish(s)
  BY <1>1, <1>3, RenderThreadKeeps DEF PlayFinish
<1>4. UserThread => stopping'[c] = stopping[c] \/ (c = User /\ StopSession)
  BY <1>1, UserThreadKeeps DEF SeekStop, StopSession, beyondUser
<1>5. DemuxThread \/ (\E s \in Streams : DecodeThread(s)) \/ (\E t \in Threads : Sleep(t) \/ EnterCrash(t))
          \/ UNCHANGED vars => UNCHANGED stopping
  BY DemuxThreadKeeps, DecodeThreadKeeps, SleepKeeps DEF vars
<1> QED
  BY <1>2, <1>3, <1>4, <1>5 DEF Next, Intact

LEMMA DeletedNext == Ind /\ Deleted /\ [Next]_vars => Deleted'
<1> SUFFICES ASSUME Ind, Deleted, [Next]_vars PROVE Deleted'
  OBVIOUS
<1>1. objects' \subseteq objects /\ (UNCHANGED objects \/ \E c \in Callers : Stop(c))
  BY ObjectsStep
<1>2. \A c \in Callers : Stop(c) => UNCHANGED <<demux, decode, render>>
  BY StopKeeps
<1>3. /\ \A s \in Streams : Decoder(s) \in Decoders
      /\ \A s \in Rendered : Renderer(s) \in Renderers
      /\ \A s : Demuxer # Decoder(s) /\ Demuxer # Renderer(s)
      /\ \A s, o : Decoder(s) # Renderer(o)
      /\ \A s, o : (Renderer(s) = Renderer(o) => s = o) /\ (Decoder(s) = Decoder(o) => s = o)
      /\ 1 \in Streams
  BY ThreadKinds DEF Decoders, Renderers
<1>4. NoDemuxer' => demux' = "off"
  <2>1. CASE NoDemuxer
    BY <2>1, OffStaysOff DEF Deleted
  <2>2. CASE ~NoDemuxer
    <3>1. ASSUME NEW c \in Callers, Stop(c), NoDemuxer' PROVE demux' = "off"
      <4>1. StopWaitDemux(c)
        BY <1>3, <2>2, <3>1, StopObjects DEF NoDemuxer, Delete
      <4> QED
        BY <1>2, <4>1 DEF Stop, StopWaitDemux
    <3> QED
      BY <1>1, <2>2, <3>1 DEF NoDemuxer
  <2> QED
    BY <2>1, <2>2
<1>5. ASSUME NEW s \in Streams, Decoder(s) \notin objects' PROVE NoDemuxer' /\ decode'[s] = "off"
  <2>1. CASE Decoder(s) \notin objects
    BY <1>1, <2>1, OffStaysOff DEF Deleted, NoDemuxer
  <2>2. CASE Decoder(s) \in objects
    <3>1. PICK c \in Callers : Stop(c)
      BY <1>1, <1>5, <2>2
    <3>2. StopWaitDecoder(c, s)
      BY <1>3, <1>5, <2>2, <3>1, StopObjects DEF Delete
    <3>3. NoDemuxer /\ decode[s] = "off"
      BY <3>2 DEF StopWaitDecoder, Deleted
    <3> QED
      BY <1>1, <1>2, <3>1, <3>3 DEF NoDemuxer
  <2> QED
    BY <2>1, <2>2
<1>6. ASSUME NEW s \in Rendered, Renderer(s) \notin objects'
      PROVE  NoDecoders' /\ render'[s] \in {"stop", "leave", "off"}
  <2>1. CASE Renderer(s) \notin objects
    BY <1>1, <2>1, OffStaysOff DEF Deleted, NoDecoders
  <2>2. CASE Renderer(s) \in objects
    <3>1. PICK c \in Callers : Stop(c)
      BY <1>1, <1>6, <2>2
    <3>2. StopWaitRenderer(c, s)
      BY <1>3, <1>6, <2>2, <3>1, StopObjects DEF Delete
    <3>3. NoDecoders /\ render[s] \in {"stop", "off"}
      BY <3>2 DEF StopWaitRenderer, Deleted
    <3> QED
      BY <1>1, <1>2, <3>1, <3>3 DEF NoDecoders
  <2> QED
    BY <2>1, <2>2
<1>11. ASSUME NEW t \in Threads, t \notin objects', spawned'[t] > 0 PROVE t \in overlooked'
  <2>1. spawned \in [Threads -> Nat]
    BY DEF Ind, FlagTypes
  <2>2. overlooked \subseteq overlooked'
    <3>1. \A c \in Callers : Stop(c) => overlooked \subseteq overlooked'
      BY DEF Stop, StopEnter, StopCrash, StopWakePause, StopWakeQueues, StopWaitDemux,
             StopWaitDecoder, StopDecodersGone, StopWaitRenderer, StopRenderersGone, Delete,
             StopClear
    <3> QED
      BY <3>1, DemuxThreadKeeps, DecodeThreadKeeps, RenderThreadKeeps, UserThreadKeeps, SleepKeeps
         DEF Next, Intact, vars
  <2>3. CASE t \notin objects
    <3>1. spawned[t] > 0
      BY <1>11, <2>1, <2>3, FlagStep
         DEF StopRender, StartRender, SeekStart, Enter, EndSelf, StopEnter
    <3> QED
      BY <2>2, <2>3, <3>1 DEF Deleted
  <2>4. CASE t \in objects
    <3>1. PICK c \in Callers : Stop(c)
      BY <1>1, <1>11, <2>4
    <3>2. Delete(t) /\ UNCHANGED spawned
      BY <1>11, <2>4, <3>1, StopObjects
         DEF Delete, StopWaitDemux, StopWaitDecoder, StopWaitRenderer
    <3> QED
      BY <1>11, <3>2 DEF Delete
  <2> QED
    BY <2>3, <2>4
<1>7. ASSUME NEW s \in Rendered, stopping'[Renderer(s)] # "no" PROVE render'[s] = "stop"
  <2>1. Renderer(s) \in Callers /\ Renderer(s) # User
    BY RenderedStreams, ThreadKinds
  <2>2. stopping[Renderer(s)] # "no" => render[s] = "stop"
    BY DEF Deleted
  <2>3. CASE stopping[Renderer(s)] # "no"
    <3>1. ~RenderThread(s)
      BY <2>2, <2>3 DEF RenderThread, RenderEnter, RenderCheck, GetFrontFrame, HoldFrame,
                        SendFrame, ReleaseRender,
                        AddReleaseIndex, NotTheLast, PlayFinish, ResetReleaseIndex, RenderLeave,
                        RenderAt
    <3> QED
      BY <2>2, <2>3, <3>1, RenderStep DEF Ind
  <2>4. CASE stopping[Renderer(s)] = "no"
    <3>1. ~Stop(Renderer(s))
      BY <2>4 DEF Stop, StopEnter, StopCrash, StopWakePause, StopWakeQueues, StopWaitDemux,
                  StopWaitDecoder, StopDecodersGone, StopWaitRenderer, StopRenderersGone, Delete,
                  StopClear, StopAt
    <3>2. PICK t \in Rendered : Renderer(s) = Renderer(t) /\ PlayFinish(t)
      BY <1>7, <2>1, <2>4, <3>1, StoppingStep
    <3>3. PlayFinish(s)
      BY <3>2, ThreadKinds
    <3> QED
      BY <3>3 DEF PlayFinish, RenderAt, Ind, Types, RenderTypes
  <2> QED
    BY <2>3, <2>4
<1>8. ASSUME NEW c \in Callers
      PROVE  /\ stopping'[c] = "decoders" => NoDemuxer'
             /\ stopping'[c] \in {"renderers", "clear"} => NoDemuxer' /\ NoDecoders'
             /\ stopping'[c] = "clear" => NoRenderers'
  <2>1. /\ stopping[c] = "decoders" => NoDemuxer
        /\ stopping[c] \in {"renderers", "clear"} => NoDemuxer /\ NoDecoders
        /\ stopping[c] = "clear" => NoRenderers
    BY DEF Deleted
  <2>2. CASE Stop(c)
    BY <1>1, <2>1, <2>2
       DEF Stop, StopEnter, StopCrash, StopWakePause, StopWakeQueues, StopWaitDemux,
           StopWaitDecoder, StopDecodersGone,
           StopWaitRenderer, StopRenderersGone, Delete, StopClear, StopAt, NoDemuxer, NoDecoders,
           NoRenderers, Ind, Types, ControlTypes
  <2>3. CASE ~Stop(c)
    <3>1. stopping'[c] = stopping[c] \/ stopping'[c] = "enter"
      BY <2>3, StoppingStep DEF StopSession, Ind, Types, ControlTypes
    <3> QED
      BY <1>1, <2>1, <3>1 DEF NoDemuxer, NoDecoders, NoRenderers
  <2> QED
    BY <2>2, <2>3
<1>10. stopping'[User] # "no" => user' = "stopping"
  <2>1. User \in Callers
    BY DEF Callers
  <2>2. CASE StopSession
    BY <2>2 DEF StopSession
  <2>3. CASE ~StopSession
    <3>2. stopping'[User] # "no" => stopping[User] # "no"
      BY <2>1, <2>3, StoppingStep, ThreadKinds
         DEF Stop, StopEnter, StopCrash, StopWakePause, StopWakeQueues, StopWaitDemux,
             StopWaitDecoder, StopDecodersGone, StopWaitRenderer, StopRenderersGone, Delete,
             StopClear, StopAt
    <3>3. user = "stopping" /\ stopping[User] # "no" => user' = "stopping"
      <4>1. UserThread => StopSession \/ user # "stopping" \/ stopping[User] = "no" \/ user' = user
        BY DEF UserThread, PauseOrResume, Seek, SeekGoesOn, SeekToggle, SeekStop, SeekWait,
               SeekStart, SeekCrash, StopSession, StopReturns, Command
      <4> QED
        BY <2>3, <4>1, DemuxThreadKeeps, DecodeThreadKeeps, RenderThreadKeeps, StopKeeps, SleepKeeps
           DEF Next, Intact, vars
    <3> QED
      BY <3>2, <3>3 DEF Deleted
  <2> QED
    BY <2>2, <2>3
<1> DEFINE Empty == (\A q \in Queues : queue[q] = <<>>) /\ \A s \in Streams : codec[s] = <<>>
<1>9. ASSUME objects' = {}
      PROVE  (\E c \in Callers : stopping'[c] \in {"renderers", "clear"}) \/ Empty'
  <2>1. \A c \in Callers : StopClear(c) => Empty'
    BY DEF StopClear
  <2>2. CASE objects = {} /\ \E c \in Callers : stopping[c] \in {"renderers", "clear"}
    <3> PICK c \in Callers : stopping[c] \in {"renderers", "clear"}
      BY <2>2
    <3>1. Stop(c) => StopClear(c) \/ stopping'[c] = "clear"
      BY <2>2 DEF Stop, StopEnter, StopCrash, StopWakePause, StopWakeQueues, StopWaitDemux,
                  StopWaitDecoder, StopDecodersGone, StopWaitRenderer, StopRenderersGone, StopAt,
                  Ind, Types, ControlTypes
    <3>2. ~(\E s \in Rendered : c = Renderer(s) /\ PlayFinish(s))
      <4>1. \A s \in Rendered : c = Renderer(s) => render[s] = "stop"
        BY DEF Deleted
      <4> QED
        BY <4>1 DEF PlayFinish, RenderAt
    <3>3. c = User => ~StopSession
      BY DEF Deleted, StopSession, Command
    <3>4. stopping'[c] \in {"renderers", "clear"} \/ StopClear(c)
      BY <3>1, <3>2, <3>3, StoppingStep
    <3> QED
      BY <2>1, <3>4
  <2>3. CASE objects = {} /\ Empty
    <3>1. /\ demux = "off" /\ \A s \in Streams : decode[s] = "off"
      BY <1>3, <2>3 DEF Deleted, NoDemuxer
    <3>2. ~DemuxThread /\ \A s \in Streams : ~DecodeThread(s)
      BY <2>3, <3>1
         DEF DemuxThread, DemuxEnter, DemuxLeave, DemuxCheck, DemuxControl, DemuxWaitPause,
             DemuxSeek,
             ClearForcewake, ClearTest, ClearPop, DemuxRead, DemuxEof, DemuxError, RecvPacket,
             RecvPacketBlocks, Judge, DemuxStop, DecodeThread, DecodeEnter, DecodeCheck, DecodeGet,
             DecodeData, DecodeDrain, RecvFrame, RecvFrameBlocks, Enter
    <3>3. ASSUME NEW s \in Rendered, RenderThread(s) PROVE UNCHANGED <<queue, codec>>
      <4>1. queue[m_frameQueue(s)] = <<>>
        BY <2>3, QueueKinds, RenderedStreams
      <4> QED
        BY <3>3, <4>1, RenderThreadKeeps, GetMoves, RefusedMovesNothing DEF GetFrontFrame, GetDone,
                                                                            CanGet
    <3>4. ASSUME NEW c \in Callers, Stop(c) PROVE Empty' \/ UNCHANGED <<queue, codec>>
      BY <2>1, <3>4, StopKeeps
    <3>5. UserThread \/ (\E t \in Threads : Sleep(t) \/ EnterCrash(t)) \/ UNCHANGED vars => UNCHANGED <<queue, codec>>
      BY UserThreadKeeps, SleepKeeps DEF vars
    <3>6. UNCHANGED <<queue, codec>> => Empty'
      BY <2>3
    <3> QED
      BY <3>2, <3>3, <3>4, <3>5, <3>6 DEF Next, Intact
  <2>4. CASE objects # {}
    <3> PICK c \in Callers : Stop(c)
      BY <1>1, <1>9, <2>4
    <3>1. ~(StopWaitDemux(c) /\ Delete(Demuxer))
      BY <1>3, <1>9 DEF Delete, StopWaitDemux, Deleted, NoDemuxer
    <3>2. ASSUME NEW s \in Streams, StopWaitDecoder(c, s), Delete(Decoder(s)) PROVE FALSE
      <4>1. Renderer(1) \notin objects /\ Decoder(s) \in objects
        BY <1>9, <3>2, ThreadKinds DEF Delete, StopWaitDecoder
      <4> QED
        BY <4>1, ThreadKinds DEF Deleted, NoDecoders, Decoders
    <3>3. \E s \in Rendered : StopWaitRenderer(c, s)
      BY <1>9, <2>4, <3>1, <3>2, StopObjects
    <3>4. stopping'[c] = "renderers"
      BY <3>3 DEF StopWaitRenderer
    <3> QED
      BY <3>4
  <2> QED
    BY <2>2, <2>3, <2>4 DEF Deleted
<1> QED
  BY <1>4, <1>5, <1>6, <1>7, <1>8, <1>9, <1>10, <1>11 DEF Deleted

(* When stop() is over for everybody who called it, no thread is in its    *)
(* loop and nothing in the queues, the codecs or anybody's hands.  What is *)
(* left are threads that start() had spawned and wait() overlooked, as     *)
(* they had not locked their mutex when their object was deleted; none is  *)
(* spawned on an object deleted before.                                    *)
THEOREM StopClean == Spec => []StopLeavesNothing
<1>1. Init => Deleted
  <2> SUFFICES ASSUME Init PROVE Deleted
    OBVIOUS
  <2>1. /\ Demuxer \in objects /\ Decoders \subseteq objects /\ Renderers \subseteq objects
        /\ \A t \in Threads : t \notin objects => spawned[t] = 0
        /\ \A c \in Callers : stopping[c] = "no"
    BY DEF Init
  <2>2. User \in Callers /\ \A s \in Rendered : Renderer(s) \in Callers
    BY RenderedStreams DEF Callers
  <2> QED
    BY <2>1, <2>2 DEF Deleted, NoDemuxer, Decoders, Renderers
<1>2. Ind /\ Deleted => StopLeavesNothing
  <2> SUFFICES ASSUME Ind, Deleted, objects = {}, \A c \in Callers : stopping[c] = "no"
               PROVE  /\ demux = "off"
                      /\ \A s \in Streams : decode[s] = "off" /\ ToSet(Path(s)) \cap dropped[s] = {}
                      /\ \A s \in Rendered : /\ render[s] \in {"stop", "leave", "off"}
                                             /\ Path(s) = rendered[s]
                      /\ \A t \in Threads : spawned[t] > 0 => t \in overlooked
    BY DEF StopLeavesNothing
  <2>1. \A t \in Threads : spawned[t] > 0 => t \in overlooked
    BY DEF Deleted
  <2>2. /\ demux = "off" /\ \A s \in Streams : decode[s] = "off"
        /\ \A s \in Rendered : render[s] \in {"stop", "leave", "off"}
        /\ \A q \in Queues : queue[q] = <<>>
        /\ \A s \in Streams : codec[s] = <<>>
    BY DEF Deleted, NoDemuxer
  <2>3. \A s \in Streams : ToSet(Path(s)) \cap dropped[s] = {}
    BY DEF Ind, Paths, Accounted, Out
  <2>4. ASSUME NEW s \in Rendered PROVE Path(s) = rendered[s]
    <3>1. s \in Streams /\ rendered[s] \in Seq(Nat) /\ m_frameQueue(s) \in Queues
          /\ m_packetQueue(s) \in Queues
      BY RenderedStreams, QueueKinds DEF Ind, Types, RenderTypes
    <3>2. packet[s] = <<>> /\ frame[s] = <<>>
      BY <2>2, <3>1 DEF Ind, DecodeHolds
    <3>3. shown[s] = <<>>
      BY <2>2 DEF Ind, RenderHolds
    <3>4. InHand(s) = <<>>
      BY <2>2 DEF InHand
    <3> DEFINE r == rendered[s]
    <3>5. Path(s) = r \o <<>> \o <<>> \o <<>> \o <<>> \o <<>> \o <<>> \o <<>>
      BY <2>2, <3>1, <3>2, <3>3, <3>4 DEF Path
    <3>6. r \o <<>> = r
      BY <3>1, ConcatEmptySeq
    <3> HIDE DEF r
    <3>7. Path(s) = r
      BY <3>5, <3>6
    <3> QED
      BY <3>7 DEF r
  <2> QED
    BY <2>1, <2>2, <2>3, <2>4
<1> QED
  BY <1>1, <1>2, DeletedNext, Invariance, PTL DEF Spec
=============================================================================
