---------------------------- MODULE MediaSession ----------------------------
(***************************************************************************)
(* One playing session of the native player (MediaPlayer/mediafunction.cpp *)
(* with DemuxThread, DecodeThread, RenderThread and the cache switch of    *)
(* MediaData): the demuxer feeds a packet queue per stream, a decoder per  *)
(* stream turns packets into frames, a renderer per stream shows them, and *)
(* the user's thread pauses, resumes, seeks and stops.  The last renderer  *)
(* to see the end of its stream stops the session itself.                  *)
(*                                                                         *)
(* The session begins when openFileSuccess() has called start() of every   *)
(* thread.                                                                 *)
(* Packets of a stream are numbered in the order the demuxer reads them.   *)
(***************************************************************************)
EXTENDS StreamQueues, SequencesExt

CONSTANTS
    MaxPackets,          \* bound: packets read in the session
    Live,                \* a live source: reading fails instead of ending
    CodecDelay,          \* frames a decoder keeps back until the end
    EnableCache,         \* MediaData::setCacheTime() was called
    Jumps,               \* the time stamps jump by more than two seconds
    Commands,            \* what the user does: "pause", "resume", "toggle", "seek", "stop"
    MaxCommands          \* bound: number of commands

ASSUME SessionAssumption ==
    /\ MaxPackets \in Nat
    /\ Live \in BOOLEAN
    /\ CodecDelay \in Nat
    /\ EnableCache \in BOOLEAN
    /\ Jumps \in BOOLEAN
    /\ Commands \subseteq {"pause", "resume", "toggle", "seek", "stop"}
    /\ MaxCommands \in Nat

User == <<"user", 0>>

VARIABLES
    demux,           \* where the demuxer's thread is in run()
    item,            \* the stream of the packet in its hands (0: none)
    index,           \* the loop variable of recvPacket() and clearPacket()
    sent,            \* packets read so far, per stream; the last one is the item
    ends,            \* the numbers of the end packets, per stream
    decode,          \* where each decoder's thread is in run()
    packet,          \* the packet a decoder holds
    codec,           \* the frames its codec keeps back
    frame,           \* the frame it is about to send
    render,          \* where each renderer's thread is in run()
    shown,           \* the frame a renderer holds
    rendered,        \* history: the frames shown, and the end frame
    readIndex,       \* what a renderer read of m_releaseIndex to add one
    releaseIndex,    \* MediaData::m_releaseIndex
    finishes,        \* history: number of playFinsh callbacks
    dropped,         \* history: packets and frames released without being shown
    leaked,          \* history: the frames a renderer kept when it left
    stopFlag,        \* m_bStopFlag of every thread
    spawned,         \* threads start() has spawned that have not locked m_mutex
    renderStops,     \* history: number of times the renderers were told to stop
    isPause,         \* PauseInfo::m_isPause
    pauseForcewake,  \* PauseInfo::m_pauseForcewake
    needSeek,        \* SeekInfo::m_needSeek
    isRepeat,        \* MediaData::m_isRepeat
    user,            \* where the user's thread is
    commands,        \* number of commands given
    stopping,        \* where each caller of stop() is in it
    objects,         \* the thread objects that exist
    overlooked,      \* history: those deleted under a spawned thread wait() did not see
    interrupted,     \* history: the user stopped or sought
    crashed          \* a null pointer or a deleted object was used

readVars == <<item, sent, ends>>
demuxVars == <<demux, index, needSeek, isRepeat, readVars>>
decodeVars == <<decode, packet, codec, frame>>
renderVars == <<render, shown, rendered, leaked, readIndex, releaseIndex, finishes>>
pauseVars == <<isPause, pauseForcewake>>
flagVars == <<stopFlag, spawned, renderStops>>
objectVars == <<objects, overlooked>>
controlVars == <<user, commands, stopping, objectVars, interrupted>>
vars == <<queueVars, demuxVars, decodeVars, renderVars, pauseVars, controlVars, dropped,
          flagVars, crashed>>

(* A session renders its video stream and its audio stream; a stream of    *)
(* another kind has queues and a decoder but no RenderThread.              *)
Rendered == Streams \cap 1..2
Renderers == {Renderer(s) : s \in Rendered}
Decoders == {Decoder(s) : s \in Streams}
Callers == {User} \cup Renderers

Init ==
    /\ QueueInit
    /\ demux = "off"
    /\ item = 0
    /\ index = 0
    /\ sent = [s \in Streams |-> 0]
    /\ ends = [s \in Streams |-> {}]
    /\ decode = [s \in Streams |-> "off"]
    /\ packet = [s \in Streams |-> <<>>]
    /\ codec = [s \in Streams |-> <<>>]
    /\ frame = [s \in Streams |-> <<>>]
    /\ render = [s \in Rendered |-> "off"]
    /\ shown = [s \in Rendered |-> <<>>]
    /\ rendered = [s \in Rendered |-> <<>>]
    /\ leaked = [s \in Rendered |-> {}]
    /\ readIndex = [s \in Rendered |-> 0]
    /\ releaseIndex = 0
    /\ finishes = 0
    /\ dropped = [s \in Streams |-> {}]
    /\ stopFlag = [t \in Threads |-> FALSE]
    /\ renderStops = 0
    /\ isPause = FALSE
    /\ pauseForcewake = FALSE
    /\ needSeek = FALSE
    /\ isRepeat = TRUE
    /\ user = "free"
    /\ commands = 0
    /\ stopping = [c \in Callers |-> "no"]
    /\ objects = {Demuxer} \cup Decoders \cup Renderers
    /\ spawned = [t \in Threads |-> IF t \in objects THEN 1 ELSE 0]
    /\ overlooked = {}
    /\ interrupted = FALSE
    /\ crashed = FALSE

Drop(s, n) == dropped' = [dropped EXCEPT ![s] = @ \cup {n}]

(* stopRender()                                                            *)
StopRender ==
    /\ stopFlag' = [t \in Threads |-> t \in Renderers \cap objects \/ stopFlag[t]]
    /\ renderStops' = renderStops + 1
    /\ UNCHANGED spawned

(* startRender(): start() spawns a thread unless m_isRunning is set, which *)
(* it is from a thread's lock of m_mutex until it is "off" again.          *)
StartRender ==
    /\ stopFlag' = [t \in Threads |-> t \notin Renderers \cap objects /\ stopFlag[t]]
    /\ spawned' = [t \in Threads |->
                      IF t \in objects /\ \E s \in Rendered : t = Renderer(s) /\ render[s] = "off"
                      THEN spawned[t] + 1 ELSE spawned[t]]
    /\ UNCHANGED renderStops

(* CBaseThread::thread(): a spawned thread locks m_mutex as soon as no     *)
(* earlier one holds it.                                                   *)
Enter(t) ==
    /\ t \in objects
    /\ spawned[t] > 0
    /\ spawned' = [spawned EXCEPT ![t] = @ - 1]
    /\ UNCHANGED <<stopFlag, renderStops>>

(* The object of the mutex is gone.  A renderer's that called stop() goes  *)
(* when its thread ends.                                                   *)
EnterCrash(t) ==
    /\ t \notin objects
    /\ spawned[t] > 0
    /\ \A s \in Rendered : t = Renderer(s) => render[s] = "off"
    /\ crashed' = TRUE
    /\ UNCHANGED <<queueVars, demuxVars, decodeVars, renderVars, pauseVars, controlVars, dropped,
                   flagVars>>
-----------------------------------------------------------------------------
(* DemuxThread::run() and controlDemux()                                   *)

DemuxEnter ==
    /\ demux = "off"
    /\ Enter(Demuxer)
    /\ demux' = "check"
    /\ UNCHANGED <<queueVars, readVars, index, needSeek, isRepeat, decodeVars, renderVars,
                   pauseVars, controlVars, dropped, crashed>>

DemuxCheck ==
    /\ demux = "check"
    /\ demux' = IF stopFlag[Demuxer] THEN "leave" ELSE "control"
    /\ UNCHANGED <<queueVars, readVars, index, needSeek, isRepeat, decodeVars, renderVars,
                   pauseVars, controlVars, dropped, flagVars, crashed>>

DemuxControl ==
    /\ demux = "control"
    /\ demux' = IF isPause THEN "paused" ELSE "seek"
    /\ UNCHANGED <<queueVars, readVars, index, needSeek, isRepeat, decodeVars, renderVars,
                   pauseVars, controlVars, dropped, flagVars, crashed>>

(* waitPause(): its predicate, and the flag cleared on the way out.        *)
DemuxWaitPause ==
    /\ demux = "paused"
    /\ Awake(Demuxer)
    /\ IF isPause /\ ~pauseForcewake
       THEN /\ sleeper' = [sleeper EXCEPT ![Demuxer] = <<"parking", PauseGate, "get">>]
            /\ UNCHANGED <<demux, pauseForcewake>>
       ELSE /\ demux' = "seek"
            /\ pauseForcewake' = FALSE
            /\ UNCHANGED sleeper
    /\ UNCHANGED <<queue, forcewake, missed, readVars, index, needSeek, isRepeat, decodeVars,
                   renderVars, isPause, controlVars, dropped, flagVars, crashed>>

(* The demuxer may fail to seek, and is asked again in the next round.     *)
DemuxSeek ==
    /\ demux = "seek"
    /\ \/ demux' = "read" /\ UNCHANGED index
       \/ needSeek /\ demux' = "clear" /\ index' = 1
    /\ UNCHANGED <<queueVars, readVars, needSeek, isRepeat, decodeVars, renderVars, pauseVars,
                   controlVars, dropped, flagVars, crashed>>

(* clearPacket() on the demuxer's thread, while the decoders keep taking:  *)
(* forcewake, then pop as long as isEmpty() is false.                      *)
ClearForcewake ==
    /\ demux = "clear"
    /\ Forcewake({m_packetQueue(index)})
    /\ demux' = "clearTest"
    /\ UNCHANGED <<readVars, index, needSeek, isRepeat, decodeVars, renderVars, pauseVars,
                   controlVars, dropped, flagVars, crashed>>

ClearTest ==
    /\ demux = "clearTest"
    /\ IF CanGet(m_packetQueue(index))
       THEN demux' = "clearPop" /\ UNCHANGED <<index, needSeek>>
       ELSE IF index < NumStreams
       THEN demux' = "clear" /\ index' = index + 1 /\ UNCHANGED needSeek
       ELSE demux' = "read" /\ needSeek' = FALSE /\ UNCHANGED index
    /\ UNCHANGED <<queueVars, readVars, isRepeat, decodeVars, renderVars, pauseVars, controlVars,
                   dropped, flagVars, crashed>>

ClearPop ==
    /\ demux = "clearPop"
    /\ \/ /\ GetDone(Demuxer, m_packetQueue(index))
          /\ Drop(index, Head(queue[m_packetQueue(index)]))
          /\ demux' = "clearTest"
          /\ UNCHANGED crashed
       \/ /\ GetRefused(Demuxer, m_packetQueue(index))
          /\ crashed' = TRUE
          /\ UNCHANGED <<dropped, demux>>
       \/ /\ GetBlocks(Demuxer, m_packetQueue(index))
          /\ UNCHANGED <<dropped, demux, crashed>>
    /\ UNCHANGED <<readVars, index, needSeek, isRepeat, decodeVars, renderVars, pauseVars,
                   controlVars, flagVars>>

(* demuxStream(): a packet of some stream, the end of the file, an error.  *)
DemuxRead(s) ==
    /\ demux = "read"
    /\ sent[s] < MaxPackets
    /\ item' = s
    /\ sent' = [sent EXCEPT ![s] = @ + 1]
    /\ demux' = "put"
    /\ index' = 0
    /\ UNCHANGED <<queueVars, ends, needSeek, isRepeat, decodeVars, renderVars, pauseVars,
                   controlVars, dropped, flagVars, crashed>>

DemuxEof ==
    /\ demux = "read"
    /\ ~Live
    /\ \A s \in Streams : sent[s] <= MaxPackets
    /\ sent' = [s \in Streams |-> sent[s] + 1]
    /\ ends' = [s \in Streams |-> ends[s] \cup {sent[s] + 1}]
    /\ demux' = "put"
    /\ index' = 1
    /\ UNCHANGED <<queueVars, item, needSeek, isRepeat, decodeVars, renderVars, pauseVars,
                   controlVars, dropped, flagVars, crashed>>

DemuxError ==
    /\ demux = "read"
    /\ Live
    /\ demux' = "check"
    /\ UNCHANGED <<queueVars, readVars, index, needSeek, isRepeat, decodeVars, renderVars,
                   pauseVars, controlVars, dropped, flagVars, crashed>>

(* recvPacket(): a packet goes to the queue of its stream, the end packet  *)
(* to the queue of every stream in turn; one that push() refuses is gone.  *)
Target == IF item # 0 THEN item ELSE index

RecvPacket ==
    /\ demux = "put"
    /\ \/ /\ PutDone(Demuxer, m_packetQueue(Target), sent[Target])
          /\ UNCHANGED dropped
       \/ /\ PutRefused(Demuxer, m_packetQueue(Target))
          /\ Drop(Target, sent[Target])
    /\ IF item = 0 /\ index < NumStreams
       THEN index' = index + 1 /\ UNCHANGED <<demux, item>>
       ELSE demux' = "judge" /\ item' = 0 /\ UNCHANGED index
    /\ UNCHANGED <<sent, ends, needSeek, isRepeat, decodeVars, renderVars, pauseVars, controlVars,
                   flagVars, crashed>>

RecvPacketBlocks ==
    /\ demux = "put"
    /\ PutBlocks(Demuxer, m_packetQueue(Target))
    /\ UNCHANGED <<demuxVars, decodeVars, renderVars, pauseVars, controlVars, dropped, flagVars,
                   crashed>>

(* The end of recvPacket(), judgePlayStatus(): the renderers stop when a   *)
(* packet queue has run dry and start again when one is full; and          *)
(* DemuxThread::stop() after the end packet.                               *)
RunDry == \E s \in Rendered : queue[m_packetQueue(s)] = <<>>
Full == \E s \in Rendered : Len(queue[m_packetQueue(s)]) = MaxPacketlistSize

EndSelf(t) ==
    /\ stopFlag' = [stopFlag EXCEPT ![t] = TRUE]
    /\ UNCHANGED <<spawned, renderStops>>

Judge ==
    /\ demux = "judge"
    /\ demux' = IF index = 0 THEN "check" ELSE "stop"
    /\ \/ /\ EnableCache /\ RunDry /\ isRepeat
          /\ isRepeat' = FALSE
          /\ StopRender
       \/ /\ EnableCache /\ ~RunDry /\ Full /\ ~isRepeat
          /\ isRepeat' = TRUE
          /\ StartRender
       \/ /\ EnableCache => IF RunDry THEN ~isRepeat ELSE Full => isRepeat
          /\ UNCHANGED <<isRepeat, flagVars>>
    /\ UNCHANGED <<queueVars, readVars, index, needSeek, decodeVars, renderVars, pauseVars,
                   controlVars, dropped, crashed>>

DemuxStop ==
    /\ demux = "stop"
    /\ EndSelf(Demuxer)
    /\ demux' = "check"
    /\ UNCHANGED <<queueVars, readVars, index, needSeek, isRepeat, decodeVars, renderVars,
                   pauseVars, controlVars, dropped, crashed>>

(* run() is over, m_isRunning still set.                                    *)
DemuxLeave ==
    /\ demux = "leave"
    /\ demux' = "off"
    /\ UNCHANGED <<queueVars, readVars, index, needSeek, isRepeat, decodeVars, renderVars,
                   pauseVars, controlVars, dropped, flagVars, crashed>>

DemuxThread ==
    \/ DemuxEnter \/ DemuxLeave
    \/ DemuxCheck \/ DemuxControl \/ DemuxWaitPause \/ DemuxSeek
    \/ ClearForcewake \/ ClearTest \/ ClearPop
    \/ (\E s \in Streams : DemuxRead(s)) \/ DemuxEof \/ DemuxError
    \/ RecvPacket \/ RecvPacketBlocks \/ Judge \/ DemuxStop
-----------------------------------------------------------------------------
(* DecodeThread::run()                                                     *)

beyondDecode == <<demuxVars, renderVars, pauseVars, controlVars, crashed>>

DecodeEnter(s) ==
    /\ decode[s] = "off"
    /\ Enter(Decoder(s))
    /\ decode' = [decode EXCEPT ![s] = "check"]
    /\ UNCHANGED <<beyondDecode, queueVars, packet, codec, frame, dropped>>

DecodeCheck(s) ==
    /\ decode[s] = "check"
    /\ decode' = [decode EXCEPT ![s] = IF stopFlag[Decoder(s)] THEN "off" ELSE "get"]
    /\ UNCHANGED <<beyondDecode, queueVars, packet, codec, frame, dropped, flagVars>>

DecodeGet(s) ==
    /\ decode[s] = "get"
    /\ \/ /\ GetDone(Decoder(s), m_packetQueue(s))
          /\ LET n == Head(queue[m_packetQueue(s)])
             IN  /\ packet' = [packet EXCEPT ![s] = <<n>>]
                 /\ decode' = [decode EXCEPT ![s] = IF n \in ends[s] THEN "drain" ELSE "decode"]
       \/ /\ GetRefused(Decoder(s), m_packetQueue(s))
          /\ decode' = [decode EXCEPT ![s] = "check"]
          /\ UNCHANGED packet
       \/ /\ GetBlocks(Decoder(s), m_packetQueue(s))
          /\ UNCHANGED <<decode, packet>>
    /\ UNCHANGED <<beyondDecode, codec, frame, dropped, flagVars>>

(* The codec answers with its oldest frame once it keeps back CodecDelay   *)
(* others, and with FrameUseless before.                                   *)
DecodeData(s) ==
    /\ decode[s] = "decode"
    /\ packet' = [packet EXCEPT ![s] = <<>>]
    /\ LET frames == codec[s] \o packet[s]
       IN  IF Len(frames) > CodecDelay
           THEN /\ frame' = [frame EXCEPT ![s] = <<Head(frames)>>]
                /\ codec' = [codec EXCEPT ![s] = Tail(frames)]
                /\ decode' = [decode EXCEPT ![s] = "put"]
           ELSE /\ codec' = [codec EXCEPT ![s] = frames]
                /\ decode' = [decode EXCEPT ![s] = "check"]
                /\ UNCHANGED frame
    /\ UNCHANGED <<beyondDecode, queueVars, dropped, flagVars>>

(* Mutant: the end packet ends the decoder without emptying its codec.     *)
DecodeWithoutDrain(s) ==
    /\ decode[s] = "drain"
    /\ decode' = [decode EXCEPT ![s] = "drainPut"]
    /\ frame' = [frame EXCEPT ![s] = packet[s]]
    /\ packet' = [packet EXCEPT ![s] = <<>>]
    /\ codec' = [codec EXCEPT ![s] = <<>>]
    /\ UNCHANGED <<beyondDecode, queueVars, dropped, flagVars>>

(* The loop that empties the codec at the end, whatever the stop flag says:*)
(* a frame, or the end frame in the place of the end packet.               *)
DecodeDrain(s) ==
    /\ decode[s] = "drain"
    /\ decode' = [decode EXCEPT ![s] = "drainPut"]
    /\ IF codec[s] # <<>>
       THEN /\ frame' = [frame EXCEPT ![s] = <<Head(codec[s])>>]
            /\ codec' = [codec EXCEPT ![s] = Tail(@)]
            /\ UNCHANGED packet
       ELSE /\ frame' = [frame EXCEPT ![s] = packet[s]]
            /\ packet' = [packet EXCEPT ![s] = <<>>]
            /\ UNCHANGED codec
    /\ UNCHANGED <<beyondDecode, queueVars, dropped, flagVars>>

(* recvFrame(); after the end frame the decoder stops itself.              *)
RecvFrame(s) ==
    /\ decode[s] \in {"put", "drainPut"}
    /\ \/ /\ PutDone(Decoder(s), m_frameQueue(s), Head(frame[s]))
          /\ UNCHANGED dropped
       \/ /\ PutRefused(Decoder(s), m_frameQueue(s))
          /\ Drop(s, Head(frame[s]))
    /\ frame' = [frame EXCEPT ![s] = <<>>]
    /\ LET last == Head(frame[s]) \in ends[s]
       IN  /\ decode' = [decode EXCEPT ![s] =
                           IF last \/ decode[s] = "put" THEN "check" ELSE "drain"]
           /\ IF last THEN EndSelf(Decoder(s)) ELSE UNCHANGED flagVars
    /\ UNCHANGED <<beyondDecode, packet, codec>>

RecvFrameBlocks(s) ==
    /\ decode[s] \in {"put", "drainPut"}
    /\ PutBlocks(Decoder(s), m_frameQueue(s))
    /\ UNCHANGED <<beyondDecode, decodeVars, dropped, flagVars>>

DecodeThread(s) ==
    \/ DecodeEnter(s) \/ DecodeCheck(s) \/ DecodeGet(s) \/ DecodeData(s) \/ DecodeDrain(s)
    \/ RecvFrame(s) \/ RecvFrameBlocks(s)
-----------------------------------------------------------------------------
(* RenderThread::run(), without its clock, and releaseRender()             *)

beyondRender == <<demuxVars, decodeVars, pauseVars, controlVars, dropped, flagVars, crashed>>

RenderAt(s, here, next) ==
    /\ render[s] = here
    /\ render' = [render EXCEPT ![s] = next]

RenderEnter(s) ==
    /\ RenderAt(s, "off", "check")
    /\ Enter(Renderer(s))
    /\ UNCHANGED <<queueVars, demuxVars, decodeVars, pauseVars, controlVars, dropped, crashed,
                   shown, rendered, leaked, readIndex, releaseIndex, finishes>>

(* Mutant: a renderer that holds a frame fetches the next one.             *)
RenderFetches(s) ==
    /\ RenderAt(s, "check", IF stopFlag[Renderer(s)] THEN "leave" ELSE "get")
    /\ IF stopFlag[Renderer(s)]
       THEN /\ leaked' = [leaked EXCEPT ![s] = @ \cup ToSet(shown[s])]
            /\ shown' = [shown EXCEPT ![s] = <<>>]
       ELSE UNCHANGED <<leaked, shown>>
    /\ UNCHANGED <<beyondRender, queueVars, rendered, readIndex, releaseIndex, finishes>>

(* A renderer that holds a frame does not fetch another; the one it holds  *)
(* when it is told to stop is neither shown nor released.                  *)
RenderCheck(s) ==
    /\ RenderAt(s, "check", IF stopFlag[Renderer(s)] THEN "leave"
                            ELSE IF shown[s] = <<>> THEN "get" ELSE "show")
    /\ IF stopFlag[Renderer(s)]
       THEN /\ leaked' = [leaked EXCEPT ![s] = @ \cup ToSet(shown[s])]
            /\ shown' = [shown EXCEPT ![s] = <<>>]
       ELSE UNCHANGED <<leaked, shown>>
    /\ UNCHANGED <<beyondRender, queueVars, rendered, readIndex, releaseIndex, finishes>>

GetFrontFrame(s) ==
    /\ \/ /\ GetDone(Renderer(s), m_frameQueue(s))
          /\ RenderAt(s, "get", IF Head(queue[m_frameQueue(s)]) \in ends[s] THEN "end" ELSE "show")
          /\ shown' = [shown EXCEPT ![s] = <<Head(queue[m_frameQueue(s)])>>]
       \/ /\ RenderAt(s, "get", "leave")
          /\ GetRefused(Renderer(s), m_frameQueue(s))
          /\ UNCHANGED shown
       \/ /\ RenderAt(s, "get", "get")
          /\ GetBlocks(Renderer(s), m_frameQueue(s))
          /\ UNCHANGED shown
    /\ UNCHANGED <<beyondRender, rendered, leaked, readIndex, releaseIndex, finishes>>

Consume(s) ==
    /\ rendered' = [rendered EXCEPT ![s] = @ \o shown[s]]
    /\ shown' = [shown EXCEPT ![s] = <<>>]

(* Too far from the clock, the frame waits for another look at it.         *)
HoldFrame(s) ==
    /\ Jumps
    /\ RenderAt(s, "show", "check")
    /\ UNCHANGED <<beyondRender, queueVars, shown, rendered, leaked, readIndex, releaseIndex,
                   finishes>>

(* The frame is shown, or released because it comes too late.              *)
SendFrame(s) ==
    /\ RenderAt(s, "show", "check")
    /\ Consume(s)
    /\ UNCHANGED <<beyondRender, queueVars, leaked, readIndex, releaseIndex, finishes>>

(* m_releaseIndex++ on a plain int that both renderers add to: a read ...  *)
ReleaseRender(s) ==
    /\ RenderAt(s, "end", "add")
    /\ Consume(s)
    /\ readIndex' = [readIndex EXCEPT ![s] = releaseIndex]
    /\ UNCHANGED <<beyondRender, queueVars, leaked, releaseIndex, finishes>>

(* ... and a write.                                                        *)
AddReleaseIndex(s) ==
    /\ RenderAt(s, "add", "compare")
    /\ releaseIndex' = readIndex[s] + 1
    /\ UNCHANGED <<beyondRender, queueVars, shown, rendered, leaked, readIndex, finishes>>

(* Mutant: the first renderer that ends finishes the session.              *)
PlayFinishedEarly == releaseIndex > 0

PlayFinished == releaseIndex = NumStreams

NotTheLast(s) ==
    /\ ~PlayFinished
    /\ RenderAt(s, "compare", "leave")
    /\ UNCHANGED <<beyondRender, queueVars, shown, rendered, leaked, readIndex, releaseIndex,
                   finishes>>

PlayFinish(s) ==
    /\ PlayFinished
    /\ RenderAt(s, "compare", "stop")
    /\ finishes' = finishes + 1
    /\ stopping' = [stopping EXCEPT ![Renderer(s)] = "enter"]
    /\ UNCHANGED <<queueVars, demuxVars, decodeVars, pauseVars, user, commands, objectVars,
                   interrupted,
                   dropped, flagVars, crashed, shown, rendered, leaked, readIndex, releaseIndex>>

ResetReleaseIndex(s) ==
    /\ stopping[Renderer(s)] = "no"
    /\ RenderAt(s, "stop", "leave")
    /\ releaseIndex' = 0
    /\ UNCHANGED <<beyondRender, queueVars, shown, rendered, leaked, readIndex, finishes>>

(* m_isRunning = false                                                     *)
RenderLeave(s) ==
    /\ RenderAt(s, "leave", "off")
    /\ UNCHANGED <<beyondRender, queueVars, shown, rendered, leaked, readIndex, releaseIndex,
                   finishes>>

RenderThread(s) ==
    \/ RenderEnter(s) \/ RenderCheck(s) \/ GetFrontFrame(s) \/ HoldFrame(s) \/ SendFrame(s)
    \/ ReleaseRender(s) \/ AddReleaseIndex(s) \/ NotTheLast(s) \/ PlayFinish(s)
    \/ ResetReleaseIndex(s) \/ RenderLeave(s)
-----------------------------------------------------------------------------
(* MediaFunction::stop(), called by the user's thread or by a renderer; a  *)
(* second caller may be inside at the same time.                           *)

StopAt(c, here, next) ==
    /\ stopping[c] = here
    /\ stopping' = [stopping EXCEPT ![c] = next]

beyondStop == <<demuxVars, decodeVars, renderVars, user, commands, interrupted>>

StopEnter(c) ==
    /\ StopAt(c, "enter", IF Demuxer \in objects THEN "wakePause" ELSE "no")
    /\ stopFlag' = [t \in Threads |-> Demuxer \in objects \/ stopFlag[t]]
    /\ renderStops' = IF Demuxer \in objects THEN renderStops + 1 ELSE renderStops
    /\ UNCHANGED <<beyondStop, queueVars, pauseVars, spawned, objectVars, dropped, crashed>>

(* Whatever another caller deleted must not be used any more.              *)
StopCrash(c) ==
    /\ stopping[c] \in {"wakePause", "demux"}
    /\ Demuxer \notin objects
    /\ crashed' = TRUE
    /\ UNCHANGED <<beyondStop, queueVars, pauseVars, stopping, objectVars, dropped, flagVars>>

StopWakePause(c) ==
    /\ Demuxer \in objects
    /\ StopAt(c, "wakePause", "wakeQueues")
    /\ pauseForcewake' = TRUE
    /\ NotifyAll({PauseGate})
    /\ UNCHANGED <<beyondStop, queue, forcewake, isPause, objectVars, dropped, flagVars, crashed>>

(* Mutant: only the packet queues are woken.                               *)
StopWakePacketQueues(c) ==
    /\ StopAt(c, "wakeQueues", "demux")
    /\ Forcewake(PacketQueues)
    /\ UNCHANGED <<beyondStop, pauseVars, objectVars, dropped, flagVars, crashed>>

StopWakeQueues(c) ==
    /\ StopAt(c, "wakeQueues", "demux")
    /\ Forcewake(Queues)
    /\ UNCHANGED <<beyondStop, pauseVars, objectVars, dropped, flagVars, crashed>>

(* wait() and delete: wait() sees the thread that holds m_mutex, but not   *)
(* one that was spawned and has yet to lock it.                            *)
Delete(t) ==
    /\ objects' = objects \ {t}
    /\ overlooked' = overlooked \cup (IF spawned[t] > 0 THEN {t} ELSE {})

StopWaitDemux(c) ==
    /\ Demuxer \in objects
    /\ demux = "off"
    /\ StopAt(c, "demux", "decoders")
    /\ Delete(Demuxer)
    /\ UNCHANGED <<beyondStop, queueVars, pauseVars, dropped, flagVars, crashed>>

StopWaitDecoder(c, s) ==
    /\ stopping[c] = "decoders"
    /\ Decoder(s) \in objects
    /\ decode[s] = "off"
    /\ Delete(Decoder(s))
    /\ UNCHANGED <<beyondStop, queueVars, pauseVars, stopping, dropped, flagVars, crashed>>

(* Mutant: stop() goes on while decoders have not ended.                   *)
StopDecodersAtOnce(c) ==
    /\ StopAt(c, "decoders", "renderers")
    /\ objects' = objects \ Decoders
    /\ UNCHANGED <<beyondStop, queueVars, pauseVars, overlooked, dropped, flagVars, crashed>>

StopDecodersGone(c) ==
    /\ objects \cap Decoders = {}
    /\ StopAt(c, "decoders", "renderers")
    /\ UNCHANGED <<beyondStop, queueVars, pauseVars, objectVars, dropped, flagVars, crashed>>

(* A renderer that runs stop() itself does not wait for itself.            *)
StopWaitRenderer(c, s) ==
    /\ stopping[c] = "renderers"
    /\ Renderer(s) \in objects
    /\ render[s] = "off" \/ c = Renderer(s)
    /\ Delete(Renderer(s))
    /\ UNCHANGED <<beyondStop, queueVars, pauseVars, stopping, dropped, flagVars, crashed>>

StopRenderersGone(c) ==
    /\ objects \cap Renderers = {}
    /\ StopAt(c, "renderers", "clear")
    /\ UNCHANGED <<beyondStop, queueVars, pauseVars, objectVars, dropped, flagVars, crashed>>

(* clearPacket(), clearFrame() with its emptying of the codecs,            *)
(* clearStreamIndex() and the playStop callback.                           *)
StopClear(c) ==
    /\ StopAt(c, "clear", "no")
    /\ dropped' = [s \in Streams |->
                     dropped[s] \cup ToSet(queue[m_packetQueue(s)])
                                \cup ToSet(queue[m_frameQueue(s)]) \cup ToSet(codec[s])]
    /\ queue' = [q \in Queues |-> <<>>]
    /\ forcewake' = [q \in Queues |-> queue[q] = <<>>]
    /\ codec' = [s \in Streams |-> <<>>]
    /\ isRepeat' = TRUE
    /\ UNCHANGED <<sleeper, missed, demux, index, needSeek, readVars, decode, packet, frame,
                   renderVars, pauseVars, user, commands, objectVars, interrupted, flagVars, crashed>>

Stop(c) ==
    \/ StopEnter(c) \/ StopCrash(c) \/ StopWakePause(c) \/ StopWakeQueues(c)
    \/ StopWaitDemux(c)
    \/ (\E s \in Streams : StopWaitDecoder(c, s)) \/ StopDecodersGone(c)
    \/ (\E s \in Rendered : StopWaitRenderer(c, s)) \/ StopRenderersGone(c) \/ StopClear(c)
-----------------------------------------------------------------------------
(* The user's thread (MediaPlayer::Pause, Resume, TogglePause, Seek, Stop) *)

RenderIsRunning == \E s \in Rendered : Renderer(s) \in objects /\ render[s] # "off"

Command(name) ==
    /\ name \in Commands
    /\ user = "free"
    /\ commands < MaxCommands
    /\ commands' = commands + 1

PauseSession ==
    /\ StopRender
    /\ isPause' = (Demuxer \in objects \/ isPause)
    /\ UNCHANGED <<queueVars, pauseForcewake>>

(* Mutant: resume() that only clears the flag.                             *)
ResumeSilently ==
    /\ StartRender
    /\ isPause' = (Demuxer \notin objects /\ isPause)
    /\ UNCHANGED <<queueVars, pauseForcewake>>

(* checkPause() clears m_isPause without the mutex of the waiter.          *)
ResumeSession ==
    /\ StartRender
    /\ IF Demuxer \in objects
       THEN isPause' = FALSE /\ NotifyAll({PauseGate})
       ELSE UNCHANGED <<isPause, sleeper, missed>>
    /\ UNCHANGED <<queue, forcewake, pauseForcewake>>

TogglePause == IF RenderIsRunning THEN PauseSession ELSE ResumeSession

beyondUser == <<demuxVars, decodeVars, renderVars, dropped, crashed, stopping, objectVars>>

PauseOrResume ==
    /\ \/ Command("pause") /\ PauseSession
       \/ Command("resume") /\ ResumeSession
       \/ Command("toggle") /\ TogglePause
    /\ UNCHANGED <<beyondUser, user, interrupted>>

(* Seek() resumes first when nothing is being rendered, then stops the     *)
(* demuxer's thread, waits for it, and starts it again.                    *)
Seek ==
    /\ Command("seek")
    /\ user' = IF RenderIsRunning THEN "seekStop" ELSE "seekToggle"
    /\ UNCHANGED <<beyondUser, queueVars, pauseVars, flagVars, interrupted>>

SeekToggle ==
    /\ user = "seekToggle"
    /\ user' = "seekStop"
    /\ TogglePause
    /\ UNCHANGED <<beyondUser, commands, interrupted>>

SeekStop ==
    /\ user = "seekStop"
    /\ IF Demuxer \in objects
       THEN EndSelf(Demuxer) /\ user' = "seekWait" /\ interrupted' = TRUE
       ELSE user' = "free" /\ UNCHANGED <<flagVars, interrupted>>
    /\ UNCHANGED <<beyondUser, queueVars, pauseVars, commands>>

(* wait() is over; start() then clears the flag, and spawns a thread       *)
(* unless one that wait() did not see has locked m_mutex in between.       *)
SeekWait ==
    /\ user = "seekWait"
    /\ Demuxer \in objects
    /\ demux = "off"
    /\ needSeek' = TRUE
    /\ user' = "seekStart"
    /\ UNCHANGED <<queueVars, demux, readVars, index, isRepeat, decodeVars, renderVars, pauseVars,
                   commands, stopping, objectVars, interrupted, dropped, flagVars, crashed>>

SeekStart ==
    /\ user = "seekStart"
    /\ Demuxer \in objects
    /\ stopFlag' = [stopFlag EXCEPT ![Demuxer] = FALSE]
    /\ spawned' = IF demux = "off" THEN [spawned EXCEPT ![Demuxer] = @ + 1] ELSE spawned
    /\ user' = "free"
    /\ UNCHANGED <<beyondUser, queueVars, pauseVars, commands, interrupted, renderStops>>

SeekCrash ==
    /\ user \in {"seekWait", "seekStart"}
    /\ Demuxer \notin objects
    /\ crashed' = TRUE
    /\ UNCHANGED <<queueVars, demuxVars, decodeVars, renderVars, pauseVars, controlVars, dropped,
                   flagVars>>

StopSession ==
    /\ Command("stop")
    /\ user' = "stopping"
    /\ interrupted' = TRUE
    /\ stopping' = [stopping EXCEPT ![User] = "enter"]
    /\ UNCHANGED <<queueVars, demuxVars, decodeVars, renderVars, pauseVars, objectVars, dropped,
                   flagVars, crashed>>

StopReturns ==
    /\ user = "stopping"
    /\ stopping[User] = "no"
    /\ user' = "free"
    /\ UNCHANGED <<queueVars, demuxVars, decodeVars, renderVars, pauseVars, commands, stopping,
                   objectVars, interrupted, dropped, flagVars, crashed>>

SeekGoesOn == SeekToggle \/ SeekStop \/ SeekWait \/ SeekStart \/ SeekCrash

UserThread == PauseOrResume \/ Seek \/ SeekGoesOn \/ StopSession \/ StopReturns

Sleep(t) ==
    /\ FallAsleep(t)
    /\ UNCHANGED <<demuxVars, decodeVars, renderVars, pauseVars, controlVars, dropped, flagVars,
                   crashed>>

(* Nothing happens after a crash.                                          *)
Intact(step) == ~crashed /\ step

Next ==
    \/ Intact(DemuxThread)
    \/ \E s \in Streams : Intact(DecodeThread(s))
    \/ \E s \in Rendered : Intact(RenderThread(s))
    \/ \E c \in Callers : Intact(Stop(c))
    \/ Intact(UserThread)
    \/ \E t \in Threads : Intact(Sleep(t)) \/ Intact(EnterCrash(t))

Spec == Init /\ [][Next]_vars

(***************************************************************************)
(* Every thread that can run does.  The user owes nothing but to finish a  *)
(* command that was begun.                                                 *)
(***************************************************************************)
FairSpec ==
    /\ Spec
    /\ WF_vars(Intact(DemuxThread))
    /\ \A s \in Streams : WF_vars(Intact(DecodeThread(s)))
    /\ \A s \in Rendered : WF_vars(Intact(RenderThread(s)))
    /\ \A c \in Callers : WF_vars(Intact(Stop(c)))
    /\ WF_vars(Intact(SeekGoesOn \/ StopReturns))
    /\ \A t \in Threads : WF_vars(Intact(Sleep(t) \/ EnterCrash(t)))
-----------------------------------------------------------------------------
TypeOK ==
    /\ queue \in [Queues -> Seq(Nat)]
    /\ \A q \in Queues : Len(queue[q]) <= Cap(q)
    /\ forcewake \in [Queues -> BOOLEAN]
    /\ demux \in {"check", "control", "paused", "seek", "clear", "clearTest", "clearPop", "read",
                  "put", "judge", "stop", "leave", "off"}
    /\ item \in 0..NumStreams /\ index \in 0..NumStreams
    /\ sent \in [Streams -> Nat] /\ ends \in [Streams -> SUBSET Nat]
    /\ decode \in [Streams -> {"check", "get", "decode", "put", "drain", "drainPut", "off"}]
    /\ {packet, frame, codec} \subseteq [Streams -> Seq(Nat)]
    /\ \A s \in Streams : Len(packet[s]) <= 1 /\ Len(frame[s]) <= 1 /\ Len(codec[s]) <= CodecDelay
    /\ render \in [Rendered -> {"check", "get", "show", "end", "add", "compare", "stop", "leave",
                                "off"}]
    /\ {shown, rendered} \subseteq [Rendered -> Seq(Nat)]
    /\ \A s \in Rendered : Len(shown[s]) <= 1
    /\ leaked \in [Rendered -> SUBSET Nat] /\ dropped \in [Streams -> SUBSET Nat]
    /\ readIndex \in [Rendered -> Nat]
    /\ releaseIndex \in 0..NumStreams
    /\ finishes \in Nat
    /\ stopFlag \in [Threads -> BOOLEAN] /\ spawned \in [Threads -> Nat] /\ renderStops \in Nat
    /\ user \in {"free", "seekToggle", "seekStop", "seekWait", "seekStart", "stopping"}
    /\ stopping \in [Callers -> {"no", "enter", "wakePause", "wakeQueues", "demux", "decoders",
                                 "renderers", "clear"}]
    /\ objects \subseteq Threads /\ overlooked \subseteq Threads \ objects

(* What the demuxer still has to hand to stream s.                         *)
InHand(s) ==
    IF demux = "put" /\ (item = s \/ (item = 0 /\ index <= s)) THEN <<sent[s]>> ELSE <<>>

(* Everything of stream s on its way, the frame shown first in front.      *)
Path(s) ==
    (IF s \in Rendered THEN rendered[s] \o shown[s] ELSE <<>>)
        \o queue[m_frameQueue(s)] \o frame[s] \o codec[s] \o packet[s]
        \o queue[m_packetQueue(s)] \o InHand(s)

Leaked(s) == IF s \in Rendered THEN leaked[s] ELSE {}

(* From the demuxer through two queues and a codec to the renderer nothing *)
(* of a stream is duplicated or overtakes, and everything is either under  *)
(* way, or was dropped by a stop or a seek, or leaked.  A renderer leaks   *)
(* at most one frame each time it is told to stop (pause, toggle, cache    *)
(* switch, stop), and only one it held because the time stamps jumped.     *)
NothingLost ==
    \A s \in Streams :
        /\ \A i, j \in DOMAIN Path(s) : i < j => Path(s)[i] < Path(s)[j]
        /\ ToSet(Path(s)) \cup dropped[s] \cup Leaked(s) = 1..sent[s]
        /\ ToSet(Path(s)) \cap (dropped[s] \cup Leaked(s)) = {}
        /\ ~interrupted /\ finishes = 0 => dropped[s] = {}
        /\ Cardinality(Leaked(s)) <= renderStops /\ (Leaked(s) # {} => Jumps)

(* playFinsh is reported only after the last frame of every stream.        *)
FinishAfterAll ==
    finishes > 0 => \A s \in Streams : s \in Rendered /\ ToSet(rendered[s]) \cap ends[s] # {}

(* When stop() is over, by whomever it was called, no thread of the        *)
(* session is in its loop and nothing is left in the queues, the codecs or *)
(* the hands of a thread (what a renderer leaked apart).  The one thing    *)
(* left is a spawned thread that had not locked m_mutex when its object    *)
(* was deleted: wait() has overlooked it, and it will use the object.      *)
StopLeavesNothing ==
    objects = {} /\ (\A c \in Callers : stopping[c] = "no") =>
        /\ demux = "off"
        /\ \A s \in Streams : decode[s] = "off" /\ ToSet(Path(s)) \cap dropped[s] = {}
        /\ \A s \in Rendered : render[s] \in {"stop", "leave", "off"} /\ Path(s) = rendered[s]
        /\ \A t \in Threads : spawned[t] > 0 => t \in overlooked

(* A file that nobody stops is shown to its last frame.                    *)
AllShown == \A s \in Rendered : <>(ToSet(rendered[s]) \cap ends[s] # {})

(* stop() returns, unless its wakeup fell between a thread's look at the   *)
(* predicate and its sleep, or a thread it overlooked enters meanwhile.    *)
StopCompletes == (user = "stopping") ~> (user = "free" \/ missed \/ crashed)

(* resume() gets the demuxer out of waitPause(), with the same exception.  *)
ResumeReachesDemuxer ==
    (demux = "paused" /\ ~isPause) ~> (demux # "paused" \/ isPause \/ missed)
=============================================================================
