------------------------------ MODULE WebPlayer ------------------------------
(***************************************************************************)
(* The player in the browser (webplayer/webplayer): WebPlayer.js with its  *)
(* Demuxer.js and, for each stream, a StreamController.js with Decoder.js  *)
(* and Renderer.js.  The main thread runs one event handler at a time, to  *)
(* its end; what it waits for is done elsewhere: the demuxer's Worker      *)
(* answers in the order it is asked, the C++ thread behind Decoder.js is   *)
(* polled by a timer, the renderer's Worker sleeps until a frame is due    *)
(* and may finish frames in any order.                                     *)
(*                                                                         *)
(* A step is one event with everything its handler calls.  The packets of  *)
(* a stream, and the frames made of them, are numbered as they are read.   *)
(***************************************************************************)
EXTENDS Naturals, Sequences, SequencesExt

CONSTANTS
    Streams,            \* videoStream, audioStream
    VideoStream,        \* videoStream, the one that is fed from the network
    Sources,            \* what the user plays: "file", "rtsp"
    PacketQueueSize,    \* packetQueueSize of a StreamController
    CodecDelay,         \* frames the codec keeps back
    MaxPackets,         \* bound: packets per stream
    Commands,           \* methods the page calls: "pause", "resume", "stop", "seek"
    MaxCommands,        \* bound: number of commands
    MaxPlays            \* bound: calls of initPlay()

ASSUME WebPlayerAssumption ==
    /\ VideoStream \in Streams
    /\ Sources \subseteq {"file", "rtsp"}
    /\ {PacketQueueSize, CodecDelay, MaxPackets, MaxCommands, MaxPlays} \subseteq Nat
    /\ Commands \subseteq {"pause", "resume", "stop", "seek"}

VARIABLES
    isStop,      \* isStop of WebPlayer and of both StreamControllers
    isPlaying,   \* WebPlayer.isPlaying
    isRtspStream, \* WebPlayer.isRtspStream
    rtsp,        \* what RtspHandler and the RTSP session owe the player
    demuxer,     \* Demuxer.js and what was posted to its Worker
    stream,      \* StreamController.js of every stream, with decoder and renderer
    sent,        \* packets read so far, per stream
    commands,    \* number of commands given
    plays,       \* number of calls of initPlay()
    seeks,       \* history: calls of seek(), those carried out, and whether one was overrun
    failed,      \* history: reading the file failed
    gone         \* history: packets and frames thrown away, per stream

vars == <<isStop, isPlaying, isRtspStream, rtsp, demuxer, stream, sent, commands, plays, seeks,
          failed, gone>>

(***************************************************************************)
(* In a stream: decoding is decoder.isRunning, datalist and retDatalist    *)
(* the two lists of its DecodeWorker (an answer is the frame, or 0 when    *)
(* the packet gave none), codec the frames the codec keeps back; rendering *)
(* is render.isRunning, inRender what its Worker holds.                    *)
(***************************************************************************)
NewStream ==
    [packetQueue |-> <<>>, frameQueue |-> <<>>, initFinished |-> FALSE, decoding |-> FALSE,
     datalist |-> <<>>, codec |-> <<>>, retDatalist |-> <<>>, rendering |-> FALSE,
     isPause |-> FALSE, inRender |-> <<>>, shown |-> <<>>]

Init ==
    /\ isStop = FALSE
    /\ isPlaying = FALSE
    /\ isRtspStream = TRUE
    /\ rtsp = [opening |-> 0, mediaHandler |-> FALSE]
    /\ demuxer = [initFinished |-> FALSE, demuxFinished |-> FALSE, isRunning |-> FALSE,
                  seekInfo |-> 0, requests |-> <<>>, posted |-> <<>>]
    /\ stream = [s \in Streams |-> NewStream]
    /\ sent = [s \in Streams |-> 0]
    /\ commands = 0
    /\ plays = 0
    /\ seeks = [given |-> 0, done |-> <<>>, overrun |-> FALSE]
    /\ failed = FALSE
    /\ gone = [s \in Streams |-> {}]

(* The frame of an answer; there is never more than one (TypeOK).          *)
Frames(answers) == IF ToSet(answers) \subseteq {0} THEN <<>> ELSE answers
-----------------------------------------------------------------------------
(* The methods of StreamController.js, as functions of the stream.         *)

(* Renderer.renderFrame() and Decoder.decodePacket()                       *)
RenderFrame(r, frame) == [r EXCEPT !.rendering = TRUE, !.inRender = Append(@, frame)]

DecodeData(r, packet) == [r EXCEPT !.decoding = TRUE, !.datalist = Append(@, packet)]

(* Mutant: a frame is posted although the last one is not finished.        *)
ConvertFrameAtOnce(r) ==
    IF r.frameQueue = <<>> \/ r.isPause
    THEN r
    ELSE RenderFrame([r EXCEPT !.frameQueue = Tail(@)], Head(r.frameQueue))

ConvertFrame(r) ==
    IF r.frameQueue = <<>> \/ r.rendering \/ r.isPause
    THEN r
    ELSE RenderFrame([r EXCEPT !.frameQueue = Tail(@)], Head(r.frameQueue))

(* The array frameQueue is compared with the number frameQueueSize, which  *)
(* is true of an empty array only.                                         *)
DecodePacket(r) ==
    IF r.packetQueue = <<>> \/ r.frameQueue # <<>> \/ r.decoding
    THEN r
    ELSE DecodeData([r EXCEPT !.packetQueue = Tail(@)], Head(r.packetQueue))

PushPacket(r, packet) ==
    LET pushed == [r EXCEPT !.packetQueue = Append(@, packet)]
    IN  IF pushed.initFinished THEN DecodePacket(pushed) ELSE pushed

(* Mutant: a queue is full when it holds more than packetQueueSize.        *)
IsFullLate(r) == Len(r.packetQueue) > PacketQueueSize

IsFull(r) == Len(r.packetQueue) >= PacketQueueSize

(* decodepacketfinished                                                    *)
FrameDecoded(r, frame) ==
    DecodePacket(IF frame = 0 THEN r ELSE ConvertFrame([r EXCEPT !.frameQueue = Append(@, frame)]))

(* Mutant: the renderer's answer does not start another decode.            *)
FrameRenderedOnly(r, i) ==
    ConvertFrame([r EXCEPT !.rendering = FALSE,
                           !.inRender = RemoveAt(@, i),
                           !.shown = Append(@, r.inRender[i])])

(* renderframefinished                                                     *)
FrameRendered(r, i) ==
    DecodePacket(ConvertFrame([r EXCEPT !.rendering = FALSE,
                                        !.inRender = RemoveAt(@, i),
                                        !.shown = Append(@, r.inRender[i])]))

(* Decoder.initDecoder(): a new DecodeWorker takes the place of the old    *)
(* one, decoder.isRunning stays as it is.                                  *)
InitDecoder(r) ==
    [r EXCEPT !.initFinished = TRUE, !.datalist = <<>>, !.codec = <<>>, !.retDatalist = <<>>]

HeldByDecoder(r) == ToSet(r.datalist) \cup ToSet(r.codec) \cup ToSet(Frames(r.retDatalist))

(* Demuxer.demuxPacket(), and WebPlayer.demuxPakcet() that guards it.      *)
DemuxPacket(d) ==
    [d EXCEPT !.isRunning = TRUE, !.requests = Append(@, "demuxpacket"),
              !.posted = Append(@, d.seekInfo)]

(* Mutant: asked again although the last answer is outstanding.            *)
DemuxPakcetAtOnce(d, streams) ==
    IF d.demuxFinished \/ (\E s \in Streams : IsFull(streams[s]))
    THEN d
    ELSE DemuxPacket(d)

DemuxPakcet(d, streams) ==
    IF d.demuxFinished \/ d.isRunning \/ (\E s \in Streams : IsFull(streams[s]))
    THEN d
    ELSE DemuxPacket(d)
-----------------------------------------------------------------------------
(* The page                                                                *)

(* PlayFile() and PlayRtsp(): initPlay(), then the Worker is asked for the *)
(* streams of the file, or a session asks the server for its streams.  The *)
(* queues, and an earlier source, stay as they are.                        *)
Play(source) ==
    /\ source \in Sources
    /\ plays < MaxPlays
    /\ plays' = plays + 1
    /\ isStop' = FALSE
    /\ isPlaying' = FALSE
    /\ isRtspStream' = (source = "rtsp")
    /\ stream' = [s \in Streams |-> [stream[s] EXCEPT !.rendering = FALSE, !.isPause = FALSE]]
    /\ IF source = "rtsp"
       THEN /\ rtsp' = [rtsp EXCEPT !.opening = @ + 1]
            /\ UNCHANGED demuxer
       ELSE /\ demuxer' = [demuxer EXCEPT !.initFinished = FALSE, !.demuxFinished = FALSE,
                               !.isRunning = FALSE, !.seekInfo = 0,
                               !.requests = Append(@, "initdemuxer")]
            /\ UNCHANGED rtsp
    /\ UNCHANGED <<sent, commands, seeks, failed, gone>>

Command(name) ==
    /\ name \in Commands
    /\ plays > 0
    /\ commands < MaxCommands
    /\ commands' = commands + 1
    /\ UNCHANGED <<isPlaying, isRtspStream, rtsp, sent, plays, failed>>

Stop ==
    /\ Command("stop")
    /\ isStop' = TRUE
    /\ stream' = [s \in Streams |-> [stream[s] EXCEPT !.packetQueue = <<>>, !.frameQueue = <<>>]]
    /\ gone' = [s \in Streams |-> gone[s] \cup ToSet(stream[s].packetQueue)
                                          \cup ToSet(stream[s].frameQueue)]
    /\ UNCHANGED <<demuxer, seeks>>

Pause ==
    /\ Command("pause")
    /\ stream' = [s \in Streams |-> [stream[s] EXCEPT !.isPause = TRUE]]
    /\ UNCHANGED <<isStop, demuxer, seeks, gone>>

(* Mutant: Renderer.Resume() without startRender().                        *)
ResumeSilently ==
    /\ Command("resume")
    /\ stream' = [s \in Streams |-> [stream[s] EXCEPT !.isPause = FALSE]]
    /\ UNCHANGED <<isStop, demuxer, seeks, gone>>

Resume ==
    /\ Command("resume")
    /\ stream' = [s \in Streams |-> ConvertFrame([stream[s] EXCEPT !.isPause = FALSE])]
    /\ UNCHANGED <<isStop, demuxer, seeks, gone>>

(* Demuxer.Seek(): kept until the Worker has carried it out; every request *)
(* for a packet carries a copy.                                            *)
Seek ==
    /\ Command("seek")
    /\ demuxer' = [demuxer EXCEPT !.seekInfo = seeks.given + 1]
    /\ seeks' = [seeks EXCEPT !.given = @ + 1,
                             !.overrun = @ \/ \E seek \in ToSet(demuxer.posted) : seek # 0]
    /\ UNCHANGED <<isStop, stream, gone>>
-----------------------------------------------------------------------------
(* The answers of the demuxer's Worker, in the order of the requests       *)

Answered(request) ==
    /\ demuxer.requests # <<>>
    /\ Head(demuxer.requests) = request
    /\ UNCHANGED <<isStop, isRtspStream, rtsp, commands, plays>>

Asked == [demuxer EXCEPT !.requests = Tail(@)]

PacketAnswered == [Asked EXCEPT !.isRunning = FALSE, !.posted = Tail(@)]

(* initDecoder() of the player, and startPlay() after the last decoder is  *)
(* set up: the first packet of a file is asked for.                        *)
StartPlay(d) ==
    /\ stream' = [s \in Streams |-> InitDecoder(stream[s])]
    /\ gone' = [s \in Streams |-> gone[s] \cup HeldByDecoder(stream[s])]
    /\ isPlaying' = (isPlaying \/ isRtspStream \/ d.initFinished)
    /\ demuxer' = IF isPlaying \/ isRtspStream \/ ~d.initFinished THEN d ELSE DemuxPacket(d)
    /\ UNCHANGED <<sent, seeks, failed>>

(* initdemuxerfinished                                                     *)
InitFinished ==
    /\ Answered("initdemuxer")
    /\ StartPlay([Asked EXCEPT !.initFinished = TRUE])

(* setPacket() and demuxPakcetFinished() push unless stopped.              *)
TakePacket(s) ==
    /\ sent[s] < MaxPackets
    /\ sent' = [sent EXCEPT ![s] = @ + 1]
    /\ stream' = [stream EXCEPT ![s] = IF isStop THEN @ ELSE PushPacket(@, sent'[s])]
    /\ gone' = [gone EXCEPT ![s] = IF isStop THEN @ \cup {sent'[s]} ELSE @]

DemuxFinished(s) ==
    /\ Answered("demuxpacket")
    /\ TakePacket(s)
    /\ demuxer' = IF isStop THEN PacketAnswered ELSE DemuxPakcet(PacketAnswered, stream')
    /\ UNCHANGED <<isPlaying, seeks, failed>>

DemuxEof ==
    /\ Answered("demuxpacket")
    /\ demuxer' = [PacketAnswered EXCEPT !.demuxFinished = TRUE]
    /\ UNCHANGED <<isPlaying, stream, sent, seeks, failed, gone>>

(* Nobody asks for another packet here, only a rendered frame does.        *)
DemuxError ==
    /\ Answered("demuxpacket")
    /\ demuxer' = PacketAnswered
    /\ failed' = TRUE
    /\ UNCHANGED <<isPlaying, stream, sent, seeks, gone>>

(* Mutant: seekfinished does not clear needSeek.                           *)
SeekFinishedKeeps ==
    /\ Answered("demuxpacket")
    /\ Head(demuxer.posted) # 0
    /\ demuxer' = [demuxer EXCEPT !.posted = <<0>> \o Tail(@)]
    /\ seeks' = [seeks EXCEPT !.done = Append(@, Head(demuxer.posted))]
    /\ UNCHANGED <<isPlaying, stream, sent, failed, gone>>

(* seekfinished: the Worker carried out the seek of a request, its packet  *)
(* follows.  After a seek that failed only the packet comes.               *)
SeekFinished ==
    /\ Answered("demuxpacket")
    /\ Head(demuxer.posted) # 0
    /\ demuxer' = [demuxer EXCEPT !.seekInfo = 0, !.posted = <<0>> \o Tail(@)]
    /\ seeks' = [seeks EXCEPT !.done = Append(@, Head(demuxer.posted))]
    /\ UNCHANGED <<isPlaying, stream, sent, failed, gone>>

(* RtspEventHandler(): the server has described its streams.              *)
SetStream ==
    /\ rtsp.opening > 0
    /\ rtsp' = [opening |-> rtsp.opening - 1, mediaHandler |-> TRUE]
    /\ StartPlay(demuxer)
    /\ UNCHANGED <<isStop, isRtspStream, commands, plays>>

(* RtpEventHandler(): the server sends when it likes; audio is not pushed. *)
SetPacket ==
    /\ rtsp.mediaHandler
    /\ TakePacket(VideoStream)
    /\ UNCHANGED <<isStop, isPlaying, isRtspStream, rtsp, demuxer, commands, plays, seeks, failed>>
-----------------------------------------------------------------------------
(* The decoder's thread, the timer that polls it, and the renderer         *)

Decode(s) ==
    LET r == stream[s]
        kept == r.codec \o r.datalist
    IN  /\ r.datalist # <<>>
        /\ stream' =
             [stream EXCEPT ![s] =
                IF Len(kept) > CodecDelay
                THEN [r EXCEPT !.datalist = <<>>, !.codec = Tail(kept),
                               !.retDatalist = Append(@, Head(kept))]
                ELSE [r EXCEPT !.datalist = <<>>, !.codec = kept, !.retDatalist = Append(@, 0)]]
        /\ UNCHANGED <<isStop, isPlaying, isRtspStream, rtsp, demuxer, sent, commands, plays,
                       seeks, failed, gone>>

(* Mutant: the answer of a decoder is taken after stop().                  *)
CheckDataAlways(s) ==
    LET frame == Head(stream[s].retDatalist)
        idle == [stream[s] EXCEPT !.retDatalist = Tail(@), !.decoding = FALSE]
    IN  /\ stream[s].retDatalist # <<>>
        /\ stream' = [stream EXCEPT ![s] = FrameDecoded(idle, frame)]
        /\ UNCHANGED <<isStop, isPlaying, isRtspStream, rtsp, demuxer, sent, commands, plays,
                       seeks, failed, gone>>

CheckData(s) ==
    LET frame == Head(stream[s].retDatalist)
        idle == [stream[s] EXCEPT !.retDatalist = Tail(@), !.decoding = FALSE]
    IN  /\ stream[s].retDatalist # <<>>
        /\ stream' = [stream EXCEPT ![s] = IF isStop THEN idle ELSE FrameDecoded(idle, frame)]
        /\ gone' = [gone EXCEPT ![s] = IF isStop THEN @ \cup ({frame} \ {0}) ELSE @]
        /\ UNCHANGED <<isStop, isPlaying, isRtspStream, rtsp, demuxer, sent, commands, plays,
                       seeks, failed>>

(* The frame is drawn, or was late and is not; then the file is read on.   *)
RenderFinished(s, i) ==
    /\ stream' = [stream EXCEPT ![s] = FrameRendered(@, i)]
    /\ demuxer' = IF isRtspStream THEN demuxer ELSE DemuxPakcet(demuxer, stream')
    /\ UNCHANGED <<isStop, isPlaying, isRtspStream, rtsp, sent, commands, plays, seeks, failed,
                   gone>>

Demux ==
    InitFinished \/ SeekFinished \/ (\E s \in Streams : DemuxFinished(s)) \/ DemuxEof \/ DemuxError

Render(s) == \E i \in DOMAIN stream[s].inRender : RenderFinished(s, i)

Next ==
    \/ (\E source \in Sources : Play(source)) \/ Stop \/ Pause \/ Resume \/ Seek
    \/ Demux \/ SetStream \/ SetPacket
    \/ \E s \in Streams : Decode(s) \/ CheckData(s) \/ Render(s)

Spec == Init /\ [][Next]_vars

(***************************************************************************)
(* Workers answer, the decoder's thread runs, the timer fires and sleeps   *)
(* end.  The user and the server owe nothing, but a first play is assumed. *)
(***************************************************************************)
FairSpec ==
    /\ Spec
    /\ WF_vars(Demux)
    /\ \A s \in Streams : WF_vars(Decode(s)) /\ WF_vars(CheckData(s)) /\ WF_vars(Render(s))
-----------------------------------------------------------------------------
(* Types, and the bounds of the queues of a file: packetQueueSize packets, *)
(* and one frame, not the two frameQueueSize stands for.                   *)
TypeOK ==
    /\ isStop \in BOOLEAN /\ isPlaying \in BOOLEAN /\ failed \in BOOLEAN
    /\ demuxer.demuxFinished \in BOOLEAN /\ demuxer.isRunning \in BOOLEAN
    /\ ToSet(demuxer.requests) \subseteq {"initdemuxer", "demuxpacket"}
    /\ sent \in [Streams -> 0..MaxPackets]
    /\ \A s \in Streams :
          /\ DOMAIN stream[s] = DOMAIN NewStream
          /\ isRtspStream \/ Len(stream[s].packetQueue) <= PacketQueueSize
          /\ Len(stream[s].frameQueue) <= 1
          /\ Len(stream[s].codec) <= CodecDelay
          /\ Len(stream[s].datalist \o stream[s].retDatalist) <= 1

(* What was shown, what is under way and what is queued of a stream.       *)
Path(r) ==
    r.shown \o r.inRender \o r.frameQueue \o Frames(r.retDatalist) \o r.codec \o r.datalist
        \o r.packetQueue

(* In one play the frames are shown in the order of their packets, nothing *)
(* is shown twice, and everything is on its way or thrown away by stop():  *)
(* pause and resume lose nothing, whatever they fall in between.           *)
InOrderNothingLost ==
    \A s \in Streams :
        /\ \A i, j \in DOMAIN Path(stream[s]) : i < j => Path(stream[s])[i] < Path(stream[s])[j]
        /\ ToSet(Path(stream[s])) \cup gone[s] = 1..sent[s]
        /\ ToSet(Path(stream[s])) \cap gone[s] = {}
        /\ isStop \/ gone[s] = {}

(* Answers that arrive after stop() are thrown away: the queues stop()     *)
(* emptied stay empty, and no frame is given to the renderer any more.     *)
StoppedIsEmpty ==
    isStop => \A s \in Streams : stream[s].packetQueue = <<>> /\ stream[s].frameQueue = <<>>

(* A packet has to be asked for, by the handler of the last packet or of a *)
(* frame that made room; between them they never ask twice.                *)
OneRequestAtATime == Len(demuxer.requests) <= 1

(* A seek() is kept until the Worker has carried it out, past packets that *)
(* were asked for before it and past failures, and carried out once in one *)
(* play, although every request carries it.  Only one that comes while an  *)
(* earlier one is under way is forgotten, together with that one.          *)
SeekIsCarriedOut ==
    /\ \A i, j \in DOMAIN seeks.done : i < j => seeks.done[i] < seeks.done[j]
    /\ seeks.overrun \/ demuxer.seekInfo = seeks.given
           \/ (seeks.done # <<>> /\ Last(seeks.done) = seeks.given)

(* A file that is played without errors, and neither stopped nor left      *)
(* paused, is read to its end and shown but for the frames the codec keeps *)
(* back: at the end of the file nobody asks the codec for those.           *)
AllShown ==
    <>[](plays > 0 /\ ~isRtspStream /\ \A s \in Streams : ~stream[s].isPause) =>
        <>(\/ isStop \/ failed
           \/ /\ demuxer.demuxFinished
              /\ \A s \in Streams : Len(stream[s].shown) + Len(stream[s].codec) = sent[s])

(* A packet that was pushed is decoded, unless somebody pauses or stops.   *)
(* It holds of one play, and fails when Play() follows another one whose   *)
(* decoder still works on a packet: decoder.isRunning is then true for the *)
(* rest of the session.                                                    *)
PacketsConsumed ==
    \A s \in Streams :
        (stream[s].packetQueue # <<>>) ~>
            (stream[s].packetQueue = <<>> \/ stream[s].isPause \/ isStop)
=============================================================================
