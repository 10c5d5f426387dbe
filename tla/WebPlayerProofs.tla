--------------------------- MODULE WebPlayerProofs ---------------------------
(***************************************************************************)
(* What holds of the browser's player for any streams, queue sizes and     *)
(* commands, whatever is under way: after stop() its queues stay empty     *)
(* until the next PlayFile() or PlayRtsp() (StopHolds).  In a page that    *)
(* plays once a packet is asked for one at a time (OneRequest), every      *)
(* packet that was read is shown in order, on its way, or thrown away      *)
(* after a stop() (OnTheWay), a seek is carried out once (SeekTrue), and   *)
(* the queues keep to their sizes (TypeCorrect).                           *)
(*                                                                         *)
(* StoppedIsEmpty is inductive once it is known that every stream is a     *)
(* record of the fields of NewStream (IsStream): each method of            *)
(* StreamController.js either leaves two empty queues alone or is not      *)
(* called while isStop is set.                                             *)
(***************************************************************************)
EXTENDS WebPlayer, OrderedPaths

IsStream(r) == {"packetQueue", "frameQueue"} \subseteq DOMAIN r

StreamsOK ==
    /\ stream = [s \in Streams |-> stream[s]]
    /\ \A s \in Streams : IsStream(stream[s])

Idle(r) == r.packetQueue = <<>> /\ r.frameQueue = <<>>

Ind == StreamsOK /\ StoppedIsEmpty

(* The methods return a stream, and leave empty queues empty.              *)
LEMMA ConvertFrameKeeps ==
    ASSUME NEW r, IsStream(r)
    PROVE  IsStream(ConvertFrame(r)) /\ (Idle(r) => Idle(ConvertFrame(r)))
BY DEF IsStream, Idle, ConvertFrame, RenderFrame

LEMMA DecodePacketKeeps ==
    ASSUME NEW r, IsStream(r)
    PROVE  IsStream(DecodePacket(r)) /\ (Idle(r) => Idle(DecodePacket(r)))
BY DEF IsStream, Idle, DecodePacket, DecodeData

LEMMA PushPacketKeeps ==
    ASSUME NEW r, NEW packet, IsStream(r)
    PROVE  IsStream(PushPacket(r, packet))
<1> DEFINE pushed == [r EXCEPT !.packetQueue = Append(@, packet)]
<1>1. IsStream(pushed)
  BY DEF IsStream
<1> QED
  BY <1>1, DecodePacketKeeps DEF PushPacket

LEMMA FrameDecodedKeeps ==
    ASSUME NEW r, NEW frame, IsStream(r)
    PROVE  IsStream(FrameDecoded(r, frame))
<1> DEFINE pushed == [r EXCEPT !.frameQueue = Append(@, frame)]
<1>1. IsStream(pushed)
  BY DEF IsStream
<1>2. IsStream(IF frame = 0 THEN r ELSE ConvertFrame(pushed))
  BY <1>1, ConvertFrameKeeps
<1> QED
  BY <1>2, DecodePacketKeeps DEF FrameDecoded

LEMMA FrameRenderedKeeps ==
    ASSUME NEW r, NEW i, IsStream(r)
    PROVE  /\ IsStream(FrameRendered(r, i))
           /\ Idle(r) => Idle(FrameRendered(r, i))
<1> DEFINE done == [r EXCEPT !.rendering = FALSE, !.inRender = RemoveAt(@, i),
                             !.shown = Append(@, r.inRender[i])]
<1>1. IsStream(done) /\ (Idle(r) => Idle(done))
  BY DEF IsStream, Idle
<1>2. IsStream(ConvertFrame(done)) /\ (Idle(r) => Idle(ConvertFrame(done)))
  BY <1>1, ConvertFrameKeeps
<1> QED
  BY <1>2, DecodePacketKeeps DEF FrameRendered

LEMMA InitDecoderKeeps ==
    ASSUME NEW r, IsStream(r)
    PROVE  IsStream(InitDecoder(r)) /\ (Idle(r) => Idle(InitDecoder(r)))
BY DEF IsStream, Idle, InitDecoder

(* One stream is replaced, or all of them are.                             *)
LEMMA OneStream ==
    ASSUME StreamsOK, NEW s \in Streams, NEW r, IsStream(r),
           stream' = [stream EXCEPT ![s] = r]
    PROVE  StreamsOK' /\ (StoppedIsEmpty /\ isStop' = isStop /\ (isStop => Idle(r))
                              => StoppedIsEmpty')
BY DEF StreamsOK, StoppedIsEmpty, Idle

LEMMA IndInit == Init => Ind
BY DEF Init, Ind, StreamsOK, IsStream, StoppedIsEmpty, NewStream

LEMMA IndNext == Ind /\ [Next]_vars => Ind'
<1> SUFFICES ASSUME Ind, [Next]_vars PROVE Ind'
  OBVIOUS
<1> USE DEF Ind
<1>1. ASSUME NEW source \in Sources, Play(source)
      PROVE  Ind'
  <2>1. StreamsOK'
    BY <1>1 DEF Play, StreamsOK, IsStream
  <2> QED
    BY <1>1, <2>1 DEF Play, StoppedIsEmpty
<1>2. CASE Stop
  BY <1>2 DEF Stop, StreamsOK, IsStream, StoppedIsEmpty
<1>3. CASE Pause
  BY <1>3 DEF Pause, StreamsOK, IsStream, StoppedIsEmpty
<1>4. CASE Resume
  <2> DEFINE on(s) == [stream[s] EXCEPT !.isPause = FALSE]
  <2>1. \A s \in Streams : IsStream(on(s)) /\ (Idle(stream[s]) => Idle(on(s)))
    BY DEF StreamsOK, IsStream, Idle
  <2>2. \A s \in Streams : /\ IsStream(ConvertFrame(on(s)))
                           /\ Idle(stream[s]) => Idle(ConvertFrame(on(s)))
    BY <2>1, ConvertFrameKeeps
  <2>3. stream' = [s \in Streams |-> ConvertFrame(on(s))] /\ isStop' = isStop
    BY <1>4 DEF Resume
  <2> HIDE DEF on
  <2> QED
    BY <2>2, <2>3 DEF StreamsOK, StoppedIsEmpty, Idle
<1>5. CASE InitFinished \/ SetStream
  <2>1. \A s \in Streams : /\ IsStream(InitDecoder(stream[s]))
                           /\ Idle(stream[s]) => Idle(InitDecoder(stream[s]))
    BY InitDecoderKeeps DEF StreamsOK
  <2>2. stream' = [s \in Streams |-> InitDecoder(stream[s])] /\ isStop' = isStop
    BY <1>5 DEF InitFinished, SetStream, StartPlay, Answered
  <2> QED
    BY <2>1, <2>2 DEF StreamsOK, StoppedIsEmpty, Idle
<1>6. ASSUME NEW s \in Streams, DemuxFinished(s) \/ (s = VideoStream /\ SetPacket)
      PROVE  Ind'
  <2>1. TakePacket(s) /\ isStop' = isStop
    BY <1>6 DEF DemuxFinished, SetPacket, Answered
  <2>2. CASE isStop
    <3>1. stream' = [stream EXCEPT ![s] = stream[s]]
      BY <2>1, <2>2 DEF TakePacket
    <3> QED
      BY <2>1, <3>1 DEF StreamsOK, StoppedIsEmpty
  <2>3. CASE ~isStop
    <3>1. stream' = [stream EXCEPT ![s] = PushPacket(stream[s], sent'[s])]
      BY <2>1, <2>3 DEF TakePacket
    <3> QED
      BY <2>1, <2>3, <3>1, PushPacketKeeps, OneStream DEF StreamsOK
  <2> QED
    BY <2>2, <2>3
<1>7. CASE DemuxEof \/ DemuxError \/ SeekFinished \/ Seek
  BY <1>7
     DEF DemuxEof, DemuxError, SeekFinished, Seek, Answered, StreamsOK, StoppedIsEmpty
<1>8. ASSUME NEW s \in Streams, Decode(s)
      PROVE  Ind'
  <2> DEFINE kept == stream[s].codec \o stream[s].datalist
             given(codec, answers) ==
                 [stream[s] EXCEPT !.datalist = <<>>, !.codec = codec, !.retDatalist = answers]
  <2>0. ASSUME NEW codec, NEW answers
        PROVE  IsStream(given(codec, answers)) /\ (Idle(stream[s]) => Idle(given(codec, answers)))
    BY DEF StreamsOK, IsStream, Idle
  <2>1. PICK codec, answers : stream' = [stream EXCEPT ![s] = given(codec, answers)]
    <3>1. CASE Len(kept) > CodecDelay
      BY <1>8, <3>1 DEF Decode
    <3>2. CASE ~(Len(kept) > CodecDelay)
      BY <1>8, <3>2 DEF Decode
    <3> QED
      BY <3>1, <3>2
  <2>2. isStop' = isStop
    BY <1>8 DEF Decode
  <2>3. /\ IsStream(given(codec, answers))
        /\ isStop => Idle(given(codec, answers))
    BY <2>0 DEF StoppedIsEmpty, Idle
  <2> HIDE DEF given
  <2> QED
    BY <2>1, <2>2, <2>3, OneStream
<1>9. ASSUME NEW s \in Streams, CheckData(s)
      PROVE  Ind'
  <2> DEFINE idle == [stream[s] EXCEPT !.retDatalist = Tail(@), !.decoding = FALSE]
             frame == Head(stream[s].retDatalist)
  <2>1. IsStream(idle) /\ (Idle(stream[s]) => Idle(idle))
    BY DEF StreamsOK, IsStream, Idle
  <2>2. isStop' = isStop
    BY <1>9 DEF CheckData
  <2>3. CASE isStop
    <3>1. stream' = [stream EXCEPT ![s] = idle]
      BY <1>9, <2>3 DEF CheckData
    <3> QED
      BY <2>1, <2>2, <3>1, OneStream DEF StoppedIsEmpty, Idle
  <2>4. CASE ~isStop
    <3>1. stream' = [stream EXCEPT ![s] = FrameDecoded(idle, frame)]
      BY <1>9, <2>4 DEF CheckData
    <3> QED
      BY <2>1, <2>2, <2>4, <3>1, FrameDecodedKeeps, OneStream
  <2> QED
    BY <2>3, <2>4
<1>10. ASSUME NEW s \in Streams, Render(s)
       PROVE  Ind'
  <2>1. PICK i : RenderFinished(s, i)
    BY <1>10 DEF Render
  <2> QED
    BY <2>1, FrameRenderedKeeps, OneStream DEF RenderFinished, StreamsOK, StoppedIsEmpty, Idle
<1>11. CASE UNCHANGED vars
  BY <1>11 DEF vars, StreamsOK, StoppedIsEmpty
<1> QED
  BY <1>1, <1>2, <1>3, <1>4, <1>5, <1>6, <1>7, <1>8, <1>9, <1>10, <1>11, WebPlayerAssumption
     DEF Next, Demux

(* Whatever answers are under way when the user stops the player, none of  *)
(* them fills a queue again (StoppedIsEmpty).                              *)
THEOREM StopHolds == Spec => []StoppedIsEmpty
<1>1. Ind => StoppedIsEmpty
  BY DEF Ind
<1> QED
  BY <1>1, IndInit, IndNext, PTL DEF Spec
-----------------------------------------------------------------------------
(***************************************************************************)
(* One request at a time, in the first play of a page.  Until the streams  *)
(* are known nothing is under way (Fresh) and the only request is for      *)
(* them; afterwards a request is outstanding only while Demuxer.isRunning  *)
(* is set, and both that ask for packets look at it or have cleared it.    *)
(***************************************************************************)
Fresh(r) == r.frameQueue = <<>> /\ r.datalist = <<>> /\ r.retDatalist = <<>> /\ r.inRender = <<>>

HasLists(r) ==
    {"packetQueue", "frameQueue", "datalist", "retDatalist", "inRender"} \subseteq DOMAIN r

Waiting ==
    /\ stream = [s \in Streams |-> stream[s]]
    /\ \A s \in Streams : HasLists(stream[s]) /\ Fresh(stream[s])

Outstanding(d) ==
    \/ d.requests = <<>>
    \/ d.requests = <<"demuxpacket">> /\ d.isRunning

IsDemuxer(d) == {"initFinished", "demuxFinished", "isRunning", "seekInfo", "requests"} \subseteq DOMAIN d

IsSession(r) == {"opening", "mediaHandler"} \subseteq DOMAIN r

Turns ==
    /\ plays \in Nat
    /\ IsDemuxer(demuxer)
    /\ isPlaying \in BOOLEAN
    /\ plays = 0 => demuxer.requests = <<>> /\ ~isPlaying
    /\ ~isPlaying => Waiting
    /\ plays > 0 /\ isRtspStream => demuxer.requests = <<>>
    /\ plays > 0 /\ ~isRtspStream /\ ~isPlaying => demuxer.requests = <<"initdemuxer">>
    /\ IsSession(rtsp)
    /\ rtsp.opening \in Nat
    /\ rtsp.opening > 0 => plays > 0 /\ isRtspStream
    /\ rtsp.mediaHandler => isPlaying /\ plays > 0
    /\ plays > 0 /\ isPlaying => Outstanding(demuxer)

LEMMA DemuxPacketOutstanding ==
    ASSUME NEW d, IsDemuxer(d), d.requests = <<>>
    PROVE  IsDemuxer(DemuxPacket(d)) /\ Outstanding(DemuxPacket(d))
<1>1. DemuxPacket(d).isRunning
  BY Zenon DEF DemuxPacket, IsDemuxer
<1>2. DemuxPacket(d).requests = <<"demuxpacket">>
  BY DEF DemuxPacket, IsDemuxer
<1> QED
  BY <1>1, <1>2 DEF DemuxPacket, IsDemuxer, Outstanding

LEMMA DemuxPakcetOutstanding ==
    ASSUME NEW d, NEW streams, IsDemuxer(d), Outstanding(d)
    PROVE  IsDemuxer(DemuxPakcet(d, streams)) /\ Outstanding(DemuxPakcet(d, streams))
BY DemuxPacketOutstanding DEF DemuxPakcet, Outstanding

(* Before the streams are known only the user acts.                        *)
LEMMA NothingMoves ==
    ASSUME Waiting
    PROVE  \A s \in Streams : ~Decode(s) /\ ~CheckData(s) /\ ~Render(s)
<1> SUFFICES ASSUME NEW s \in Streams
             PROVE  ~Decode(s) /\ ~CheckData(s) /\ ~Render(s)
  OBVIOUS
<1>1. Fresh(stream[s])
  BY DEF Waiting
<1>2. DOMAIN stream[s].inRender = {}
  BY <1>1 DEF Fresh
<1>3. ~Decode(s)
  BY <1>1 DEF Fresh, Decode
<1>4. ~CheckData(s)
  BY <1>1 DEF Fresh, CheckData
<1> QED
  BY <1>2, <1>3, <1>4 DEF Render

LEMMA UserWaits ==
    ASSUME Waiting, Stop \/ Pause \/ Resume
    PROVE  Waiting'
<1>1. CASE Stop
  BY <1>1 DEF Stop, Waiting, HasLists, Fresh
<1>2. CASE Pause
  BY <1>2 DEF Pause, Waiting, HasLists, Fresh
<1>3. CASE Resume
  <2> DEFINE on(s) == [stream[s] EXCEPT !.isPause = FALSE]
  <2>1. \A s \in Streams : HasLists(on(s)) /\ Fresh(on(s))
    BY DEF Waiting, HasLists, Fresh
  <2>2. \A s \in Streams : ConvertFrame(on(s)) = on(s)
    BY <2>1 DEF ConvertFrame, Fresh
  <2>3. stream' = [s \in Streams |-> ConvertFrame(on(s))]
    BY <1>3 DEF Resume
  <2> HIDE DEF on
  <2> QED
    BY <2>1, <2>2, <2>3 DEF Waiting
<1> QED
  BY <1>1, <1>2, <1>3

LEMMA TurnsInit == Init => Turns
<1> SUFFICES ASSUME Init PROVE Turns
  OBVIOUS
<1>1. isPlaying = FALSE
  BY Zenon DEF Init
<1>2. plays = 0 /\ IsDemuxer(demuxer) /\ demuxer.requests = <<>>
  BY DEF Init, IsDemuxer
<1>5. IsSession(rtsp) /\ rtsp.opening = 0 /\ ~rtsp.mediaHandler
  BY DEF Init, IsSession
<1>3. Waiting
  BY DEF Init, Waiting, HasLists, Fresh, NewStream
<1>4. isPlaying \in BOOLEAN /\ ~isPlaying
  BY <1>1, Zenon
<1> QED
  BY <1>2, <1>3, <1>4, <1>5 DEF Turns

LEMMA TurnsNext ==
    ASSUME MaxPlays \in Nat, MaxPlays <= 1, Turns, [Next]_vars
    PROVE  Turns'
<1> USE DEF Turns
<1>1. ASSUME NEW source \in Sources, Play(source)
      PROVE  Turns'
  <2>1. plays = 0 /\ plays' = 1
    <3>1. plays < MaxPlays /\ plays' = plays + 1
      BY <1>1 DEF Play
    <3> QED
      BY <3>1
  <2>2. isPlaying' \in BOOLEAN /\ ~isPlaying'
    BY <1>1, Zenon DEF Play
  <2>3. Waiting'
    BY <1>1, <2>1 DEF Play, Waiting, HasLists, Fresh
  <2>4. demuxer.requests = <<>> /\ ~rtsp.mediaHandler /\ rtsp.opening = 0
    BY <2>1
  <2>5. CASE source = "rtsp"
    <3>1. isRtspStream'
      BY <1>1, <2>5 DEF Play
    <3>2. rtsp' = [rtsp EXCEPT !.opening = @ + 1] /\ UNCHANGED demuxer
      BY <1>1, <2>5 DEF Play
    <3>3. IsSession(rtsp)' /\ rtsp'.opening = 1 /\ ~rtsp'.mediaHandler
      BY <2>4, <3>2 DEF IsSession
    <3> QED
      BY <2>1, <2>2, <2>3, <2>4, <3>1, <3>2, <3>3 DEF IsDemuxer
  <2>6. CASE source # "rtsp"
    <3>1. ~isRtspStream' /\ UNCHANGED rtsp
      BY <1>1, <2>6 DEF Play
    <3>2. Append(demuxer.requests, "initdemuxer") = <<"initdemuxer">>
      BY <2>4
    <3>3. demuxer' = [demuxer EXCEPT !.initFinished = FALSE, !.demuxFinished = FALSE,
                          !.isRunning = FALSE, !.seekInfo = 0,
                          !.requests = Append(@, "initdemuxer")]
      BY <1>1, <2>6, Zenon DEF Play
    <3>4. IsDemuxer(demuxer)' /\ demuxer'.requests = <<"initdemuxer">>
      BY <3>2, <3>3 DEF IsDemuxer
    <3> QED
      BY <2>1, <2>2, <2>3, <2>4, <3>1, <3>4 DEF IsSession
  <2> QED
    BY <2>5, <2>6
<1>2. CASE Stop \/ Pause \/ Resume
  <2>1. UNCHANGED <<plays, isPlaying, isRtspStream, rtsp, demuxer>>
    BY <1>2 DEF Stop, Pause, Resume, Command
  <2> QED
    BY <1>2, <2>1, UserWaits DEF IsDemuxer, IsSession, Outstanding
<1>11. CASE Seek
  <2>1. UNCHANGED <<plays, isPlaying, isRtspStream, rtsp, stream>>
    BY <1>11 DEF Seek, Command
  <2>2. demuxer' = [demuxer EXCEPT !.seekInfo = seeks.given + 1]
    BY <1>11 DEF Seek
  <2>3. /\ IsDemuxer(demuxer)' /\ demuxer'.requests = demuxer.requests
        /\ demuxer'.isRunning = demuxer.isRunning
    BY <2>2 DEF IsDemuxer
  <2> QED
    BY <2>1, <2>3 DEF Waiting, IsSession, Outstanding
<1>12. CASE SeekFinished
  <2>1. UNCHANGED <<plays, isPlaying, isRtspStream, rtsp, stream>>
    BY <1>12 DEF SeekFinished, Answered
  <2>2. demuxer' = [demuxer EXCEPT !.seekInfo = 0, !.posted = <<0>> \o Tail(@)]
    BY <1>12 DEF SeekFinished
  <2>3. /\ IsDemuxer(demuxer)' /\ demuxer'.requests = demuxer.requests
        /\ demuxer'.isRunning = demuxer.isRunning
    BY <2>2 DEF IsDemuxer
  <2> QED
    BY <2>1, <2>3 DEF Waiting, IsSession, Outstanding
<1>3. CASE InitFinished
  <2> DEFINE d == [Asked EXCEPT !.initFinished = TRUE]
  <2>1. UNCHANGED <<plays, isRtspStream, rtsp>>
    BY <1>3 DEF InitFinished, Answered
  <2>2. demuxer.requests = <<"initdemuxer">> /\ ~isPlaying /\ ~isRtspStream /\ plays > 0
    BY <1>3 DEF InitFinished, Answered, Outstanding
  <2>3. IsDemuxer(d) /\ d.requests = <<>>
    BY <2>2 DEF Asked, IsDemuxer
  <2>4. d.initFinished
    BY Zenon DEF Asked, IsDemuxer
  <2>5. StartPlay(d)
    BY <1>3 DEF InitFinished
  <2> HIDE DEF d
  <2>6. isPlaying' = TRUE
    BY <2>4, <2>5, Zenon DEF StartPlay
  <2>7. demuxer' = d \/ demuxer' = DemuxPacket(d)
    BY <2>5 DEF StartPlay
  <2>8. IsDemuxer(demuxer)' /\ Outstanding(demuxer)'
    BY <2>3, <2>7, DemuxPacketOutstanding DEF Outstanding
  <2> QED
    BY <2>1, <2>2, <2>6, <2>8 DEF IsSession
<1>10. CASE SetStream
  <2>1. plays > 0 /\ isRtspStream /\ demuxer.requests = <<>>
    BY <1>10 DEF SetStream
  <2>2. UNCHANGED <<plays, isRtspStream>>
    BY <1>10 DEF SetStream
  <2>3. demuxer' = demuxer
    BY <1>10, <2>1 DEF SetStream, StartPlay
  <2>4. isPlaying' = TRUE
    BY <1>10, <2>1, Zenon DEF SetStream, StartPlay
  <2>5. IsSession(rtsp)' /\ rtsp'.opening \in Nat
    BY <1>10 DEF SetStream, IsSession
  <2> QED
    BY <2>1, <2>2, <2>3, <2>4, <2>5 DEF IsDemuxer, Outstanding
<1>4. ASSUME NEW s \in Streams, DemuxFinished(s)
      PROVE  Turns'
  <2>1. UNCHANGED <<plays, isPlaying, isRtspStream, rtsp>>
    BY <1>4 DEF DemuxFinished, Answered
  <2>2. demuxer.requests = <<"demuxpacket">> /\ isPlaying /\ ~isRtspStream /\ plays > 0
    BY <1>4 DEF DemuxFinished, Answered, Outstanding
  <2>3. IsDemuxer(PacketAnswered) /\ Outstanding(PacketAnswered)
    BY <2>2 DEF PacketAnswered, Asked, IsDemuxer, Outstanding
  <2>4. demuxer' = PacketAnswered \/ demuxer' = DemuxPakcet(PacketAnswered, stream')
    BY <1>4 DEF DemuxFinished
  <2>5. IsDemuxer(demuxer)' /\ Outstanding(demuxer)'
    BY <2>3, <2>4, DemuxPakcetOutstanding
  <2> QED
    BY <2>1, <2>2, <2>5
<1>5. CASE DemuxEof \/ DemuxError
  <2>1. UNCHANGED <<plays, isPlaying, isRtspStream, rtsp>>
    BY <1>5 DEF DemuxEof, DemuxError, Answered
  <2>2. demuxer.requests = <<"demuxpacket">> /\ isPlaying /\ ~isRtspStream /\ plays > 0
    BY <1>5 DEF DemuxEof, DemuxError, Answered, Outstanding
  <2>3. IsDemuxer(PacketAnswered) /\ PacketAnswered.requests = <<>>
    BY <2>2 DEF PacketAnswered, Asked, IsDemuxer
  <2>4. \/ demuxer' = [PacketAnswered EXCEPT !.demuxFinished = TRUE]
        \/ demuxer' = PacketAnswered
    BY <1>5 DEF DemuxEof, DemuxError
  <2>5. IsDemuxer(demuxer)' /\ demuxer'.requests = <<>>
    BY <2>3, <2>4 DEF IsDemuxer
  <2> QED
    BY <2>1, <2>2, <2>5 DEF Outstanding
<1>6. CASE SetPacket
  BY <1>6 DEF SetPacket, IsDemuxer, IsSession, Outstanding
<1>7. ASSUME NEW s \in Streams, Decode(s) \/ CheckData(s)
      PROVE  Turns'
  <2>1. UNCHANGED <<plays, isPlaying, isRtspStream, rtsp, demuxer>>
    BY <1>7 DEF Decode, CheckData
  <2>2. isPlaying
    BY <1>7, NothingMoves
  <2> QED
    BY <2>1, <2>2 DEF IsDemuxer, IsSession, Outstanding
<1>8. ASSUME NEW s \in Streams, Render(s)
      PROVE  Turns'
  <2>1. PICK i : RenderFinished(s, i)
    BY <1>8 DEF Render
  <2>2. isPlaying
    BY <1>8, NothingMoves
  <2>3. UNCHANGED <<plays, isPlaying, isRtspStream, rtsp>>
    BY <2>1 DEF RenderFinished
  <2>4. demuxer' = IF isRtspStream THEN demuxer ELSE DemuxPakcet(demuxer, stream')
    BY <2>1 DEF RenderFinished
  <2>5. plays > 0
    BY <2>2
  <2>6. IsDemuxer(demuxer)' /\ Outstanding(demuxer)'
    BY <2>2, <2>4, <2>5, DemuxPakcetOutstanding
  <2> QED
    BY <2>2, <2>3, <2>4, <2>5, <2>6 DEF IsSession
<1>9. CASE UNCHANGED vars
  BY <1>9 DEF vars, Waiting, IsDemuxer, IsSession, Outstanding
<1> QED
  BY <1>1, <1>2, <1>3, <1>4, <1>5, <1>6, <1>7, <1>8, <1>9, <1>10, <1>11, <1>12
     DEF Next, Demux

(* However the answers of the demuxer and of the renderers alternate, the  *)
(* demuxer's Worker is never asked for a second packet while the first one *)
(* is outstanding (OneRequestAtATime), as long as the page plays once.     *)
THEOREM OneRequest ==
    ASSUME MaxPlays <= 1
    PROVE  Spec => []OneRequestAtATime
<1>1. MaxPlays \in Nat
  BY WebPlayerAssumption
<1>2. Turns => OneRequestAtATime
  <2> SUFFICES ASSUME Turns PROVE OneRequestAtATime
    OBVIOUS
  <2>1. \/ demuxer.requests = <<>>
        \/ demuxer.requests = <<"initdemuxer">>
        \/ demuxer.requests = <<"demuxpacket">>
    <3>1. CASE plays = 0
      BY <3>1 DEF Turns
    <3>2. CASE plays > 0
      BY <3>2 DEF Turns, Outstanding
    <3> QED
      BY <3>1, <3>2 DEF Turns
  <2>2. CASE demuxer.requests = <<>>
    <3>1. Len(demuxer.requests) = 0
      BY <2>2
    <3> QED
      BY <3>1 DEF OneRequestAtATime
  <2>3. CASE demuxer.requests = <<"initdemuxer">>
    <3>1. Len(demuxer.requests) = 1
      BY <2>3
    <3> QED
      BY <3>1 DEF OneRequestAtATime
  <2>4. CASE demuxer.requests = <<"demuxpacket">>
    <3>1. Len(demuxer.requests) = 1
      BY <2>4
    <3> QED
      BY <3>1 DEF OneRequestAtATime
  <2> QED
    BY <2>1, <2>2, <2>3, <2>4
<1>3. Turns /\ [Next]_vars => Turns'
  BY <1>1, TurnsNext
<1> QED
  BY <1>2, <1>3, TurnsInit, PTL DEF Spec
-----------------------------------------------------------------------------
(***************************************************************************)
(* What is under way in the first play of a page.  The place of every      *)
(* packet is one of seven, from the packet queue of its stream to the      *)
(* screen (Path), and the records of Demuxer.js say where each seek is.    *)
(*                                                                         *)
(* A second PlayFile() or PlayRtsp() puts new streams in place while       *)
(* frames and answers of the old ones are still under way, so none of this *)
(* is said of more than one play.                                          *)
(***************************************************************************)
StreamController ==
    [packetQueue : Seq(Nat), frameQueue : Seq(Nat), initFinished : BOOLEAN, decoding : BOOLEAN,
     datalist : Seq(Nat), codec : Seq(Nat), retDatalist : Seq(Nat), rendering : BOOLEAN,
     isPause : BOOLEAN, inRender : Seq(Nat), shown : Seq(Nat)]

(* A StreamController between two callbacks.  Its decoder is asked for one *)
(* packet at a time and only when no frame waits, its renderer holds one   *)
(* frame, and its codec no more than its delay.                            *)
WellFormed(r) ==
    /\ r \in StreamController
    /\ Len(r.frameQueue) <= 1 /\ Len(r.inRender) <= 1 /\ Len(r.codec) <= CodecDelay
    /\ Len(r.datalist) <= 1 /\ Len(r.retDatalist) <= 1
    /\ r.datalist = <<>> \/ r.retDatalist = <<>>
    /\ r.datalist # <<>> \/ r.retDatalist # <<>> => r.decoding /\ r.frameQueue = <<>>
    /\ r.inRender # <<>> => r.rendering

(* A stream before PlayFile(): no decoder works and no packet came.        *)
Unstarted(r) == r.packetQueue = <<>> /\ r.codec = <<>> /\ ~r.decoding

(* One more packet does not overfill the stream: its queue is not full, or *)
(* it hands the packet to its idle decoder at once.  The second is how the *)
(* first packet, which is asked for without looking at the queues, finds   *)
(* its place when their size is 0.                                         *)
HasRoom(r) ==
    \/ Len(r.packetQueue) < PacketQueueSize
    \/ r.packetQueue = <<>> /\ r.frameQueue = <<>> /\ ~r.decoding /\ r.initFinished

(* Demuxer.js, with the requests its Worker has not answered.              *)
DemuxerRecord ==
    [initFinished : BOOLEAN, demuxFinished : BOOLEAN, isRunning : BOOLEAN, seekInfo : Nat,
     requests : Seq({"initdemuxer", "demuxpacket"}), posted : Seq(Nat)]

(* The invariant of one play has four parts: the streams are well formed   *)
(* (Shapes); nothing is under way before the player plays (Started); while *)
(* a packet of a file is asked for, every stream has room for it (Rooms);  *)
(* the path of a stream accounts for all packets read but those a stop()   *)
(* threw away (Accounts).                                                  *)
Shapes ==
    /\ stream \in [Streams -> StreamController]
    /\ \A s \in Streams : WellFormed(stream[s])
    /\ isStop \in BOOLEAN /\ failed \in BOOLEAN
    /\ sent \in [Streams -> 0..MaxPackets] /\ gone \in [Streams -> SUBSET Nat]

Started ==
    /\ ~isPlaying => \A s \in Streams : Unstarted(stream[s])
    /\ rtsp.opening > 0 => ~isPlaying /\ rtsp.opening = 1
    /\ rtsp.mediaHandler => isRtspStream
    /\ plays = 0 => ~isStop

Rooms ==
    ~isRtspStream /\ isPlaying => \A s \in Streams :
        /\ Len(stream[s].packetQueue) <= PacketQueueSize
        /\ demuxer.requests # <<>> => HasRoom(stream[s])

Accounts ==
    \A s \in Streams :
        /\ Accounted(Path(stream[s]), gone[s], sent[s])
        /\ isStop \/ gone[s] = {}

Flow == Shapes /\ Started /\ Rooms /\ Accounts

(* A seek is in seekInfo, in the one demuxpacket that is under way, or     *)
(* carried out; a newer one takes its place only before it is posted,      *)
(* unless it overruns it.                                                  *)
SeekKept(d, k) ==
    /\ k.given \in Nat /\ k.done \in Seq(Nat)
    /\ d.seekInfo \in {0, k.given}
    /\ Ascending(k.done)
    /\ \A x \in ToSet(k.done) : x <= k.given /\ (d.seekInfo # 0 => x < d.seekInfo)
    /\ IF d.requests = <<"demuxpacket">> THEN Len(d.posted) = 1 ELSE d.posted = <<>>
    /\ d.posted # <<>> /\ Head(d.posted) # 0 =>
          /\ \A x \in ToSet(k.done) : x < Head(d.posted)
          /\ Head(d.posted) <= k.given
          /\ k.overrun \/ Head(d.posted) = k.given
    /\ k.overrun \/ d.seekInfo = k.given \/ (k.done # <<>> /\ Last(k.done) = k.given)

SeekHolds ==
    /\ seeks \in [given : Nat, done : Seq(Nat), overrun : BOOLEAN]
    /\ demuxer \in DemuxerRecord
    /\ plays = 0 => seeks.given = 0
    /\ SeekKept(demuxer, seeks)

(* No frame comes of a packet the codec keeps.                             *)
LEMMA FramesOf ==
    /\ Frames(<<>>) = <<>>
    /\ \A x \in Nat : Frames(<<x>>) = IF x = 0 THEN <<>> ELSE <<x>>
    /\ \A p \in Seq(Nat) : Frames(p) \in Seq(Nat)
<1>1. Frames(<<>>) = <<>>
  BY DEF Frames
<1>2. ASSUME NEW x \in Nat PROVE Frames(<<x>>) = IF x = 0 THEN <<>> ELSE <<x>>
  BY Short DEF Frames
<1>3. ASSUME NEW p \in Seq(Nat) PROVE Frames(p) \in Seq(Nat)
  BY DEF Frames
<1> QED
  BY <1>1, <1>2, <1>3

(* The path in its segments.                                               *)
PathOf(a, b, c, d, e, f, g) == a \o b \o c \o d \o e \o f \o g

LEMMA PathIs ==
    ASSUME NEW r, r \in StreamController
    PROVE  /\ Path(r) = PathOf(r.shown, r.inRender, r.frameQueue, Frames(r.retDatalist), r.codec,
                               r.datalist, r.packetQueue)
           /\ r.shown \in Seq(Nat) /\ r.inRender \in Seq(Nat) /\ r.frameQueue \in Seq(Nat)
           /\ Frames(r.retDatalist) \in Seq(Nat) /\ r.retDatalist \in Seq(Nat)
           /\ r.codec \in Seq(Nat) /\ r.datalist \in Seq(Nat) /\ r.packetQueue \in Seq(Nat)
           /\ Path(r) \in Seq(Nat)
<1>1. /\ r.shown \in Seq(Nat) /\ r.inRender \in Seq(Nat) /\ r.frameQueue \in Seq(Nat)
      /\ r.retDatalist \in Seq(Nat)
      /\ r.codec \in Seq(Nat) /\ r.datalist \in Seq(Nat) /\ r.packetQueue \in Seq(Nat)
  BY DEF StreamController
<1>2. Frames(r.retDatalist) \in Seq(Nat)
  BY <1>1, FramesOf
<1>3. /\ Path(r) = PathOf(r.shown, r.inRender, r.frameQueue, Frames(r.retDatalist), r.codec,
                          r.datalist, r.packetQueue)
  BY DEF Path, PathOf
<1>4. Path(r) \in Seq(Nat)
  BY <1>1, <1>2, <1>3 DEF PathOf
<1> QED
  BY <1>1, <1>2, <1>3, <1>4

(* A stream that makes a packet go on has no less room than before.        *)
Lighter(r, q) ==
    /\ Len(q.packetQueue) <= Len(r.packetQueue)
    /\ HasRoom(r) => HasRoom(q)

(* Each method of a stream keeps it well formed and moves its packets      *)
(* along the path: nothing is lost, doubled or overtaken.                  *)
LEMMA ConvertFrameFlows ==
    ASSUME NEW r, WellFormed(r)
    PROVE  /\ WellFormed(ConvertFrame(r)) /\ Lighter(r, ConvertFrame(r))
           /\ Path(ConvertFrame(r)) = Path(r)
           /\ Unstarted(r) => Unstarted(ConvertFrame(r))
<1> DEFINE q == [r EXCEPT !.frameQueue = Tail(@), !.rendering = TRUE,
                          !.inRender = Append(@, Head(r.frameQueue))]
<1>1. CASE r.frameQueue = <<>> \/ r.rendering \/ r.isPause
  BY <1>1 DEF ConvertFrame, Lighter, HasRoom, WellFormed, StreamController
<1>2. CASE ~(r.frameQueue = <<>> \/ r.rendering \/ r.isPause)
  <2>0. r \in StreamController
    BY DEF WellFormed
  <2>1. ConvertFrame(r) = q
    BY <1>2, <2>0 DEF ConvertFrame, RenderFrame, StreamController
  <2>2. /\ r.frameQueue # <<>> /\ r.inRender = <<>> /\ Len(r.frameQueue) <= 1
        /\ r.datalist = <<>> /\ r.retDatalist = <<>>
    BY <1>2 DEF WellFormed
  <2>3. /\ Append(r.inRender, Head(r.frameQueue)) = <<Head(r.frameQueue)>>
        /\ Head(r.frameQueue) \in Nat /\ Tail(r.frameQueue) = <<>>
        /\ <<Head(r.frameQueue)>> \in Seq(Nat) /\ Len(<<Head(r.frameQueue)>>) <= 1
    BY <2>0, <2>2, PathIs
  <2>4. /\ q \in StreamController
        /\ q.frameQueue = Tail(r.frameQueue) /\ q.inRender = <<Head(r.frameQueue)>> /\ q.rendering
        /\ q.packetQueue = r.packetQueue /\ q.retDatalist = r.retDatalist /\ q.codec = r.codec
        /\ q.datalist = r.datalist /\ q.shown = r.shown /\ q.decoding = r.decoding
        /\ q.initFinished = r.initFinished
    <3> DEFINE one == <<Head(r.frameQueue)>>
               rest == Tail(r.frameQueue)
    <3>1. one \in Seq(Nat) /\ rest \in Seq(Nat)
      BY <2>0, <2>2, <2>3, PathIs, HeadAndTail
    <3>2. q = [r EXCEPT !.frameQueue = rest, !.rendering = TRUE, !.inRender = one]
      BY <2>0, <2>3 DEF StreamController
    <3> HIDE DEF one, rest, q
    <3>3. q \in StreamController
      BY <2>0, <3>1, <3>2 DEF StreamController
    <3>4. q.frameQueue = rest /\ q.inRender = one /\ q.rendering
      BY <2>0, <3>2 DEF StreamController
    <3>5. /\ q.packetQueue = r.packetQueue /\ q.retDatalist = r.retDatalist /\ q.codec = r.codec
          /\ q.datalist = r.datalist /\ q.shown = r.shown /\ q.decoding = r.decoding
          /\ q.initFinished = r.initFinished
      BY <2>0, <3>2 DEF StreamController
    <3> QED
      BY <3>3, <3>4, <3>5 DEF one, rest
  <2> HIDE DEF q
  <2>5. WellFormed(q)
    BY <2>2, <2>3, <2>4 DEF WellFormed
  <2>6. Path(q) = Path(r)
    <3> DEFINE before == (r.shown \o <<>>) \o r.frameQueue
               after == (r.shown \o <<Head(r.frameQueue)>>) \o Tail(r.frameQueue)
               rest(a) == a \o Frames(r.retDatalist) \o r.codec \o r.datalist \o r.packetQueue
    <3>1. before = after
      BY <2>0, <2>2, PathIs, MoveHead
    <3>2. Path(r) = rest(before)
      BY <2>0, <2>2, PathIs DEF PathOf
    <3>3. Path(q) = rest(after)
      BY <2>4, PathIs DEF PathOf
    <3> HIDE DEF before, after, rest
    <3> QED
      BY <3>1, <3>2, <3>3
  <2>7. Lighter(r, q)
    BY <2>0, <2>2, <2>3, <2>4 DEF Lighter, HasRoom, StreamController
  <2> QED
    BY <2>1, <2>4, <2>5, <2>6, <2>7 DEF Unstarted
<1> QED
  BY <1>1, <1>2

LEMMA DecodePacketFlows ==
    ASSUME NEW r, WellFormed(r)
    PROVE  /\ WellFormed(DecodePacket(r)) /\ Lighter(r, DecodePacket(r))
           /\ Path(DecodePacket(r)) = Path(r)
           /\ r.frameQueue = <<>> /\ ~r.decoding /\ Len(r.packetQueue) <= 1 =>
                  DecodePacket(r).packetQueue = <<>>
<1> DEFINE q == [r EXCEPT !.packetQueue = Tail(@), !.decoding = TRUE,
                          !.datalist = Append(@, Head(r.packetQueue))]
<1>1. CASE r.packetQueue = <<>> \/ r.frameQueue # <<>> \/ r.decoding
  BY <1>1 DEF DecodePacket, Lighter, HasRoom, WellFormed, StreamController
<1>2. CASE ~(r.packetQueue = <<>> \/ r.frameQueue # <<>> \/ r.decoding)
  <2>0. r \in StreamController
    BY DEF WellFormed
  <2>1. DecodePacket(r) = q
    BY <1>2, <2>0 DEF DecodePacket, DecodeData, StreamController
  <2>2. /\ r.packetQueue # <<>> /\ r.frameQueue = <<>>
        /\ r.datalist = <<>> /\ r.retDatalist = <<>>
    BY <1>2 DEF WellFormed
  <2>3. /\ Append(r.datalist, Head(r.packetQueue)) = <<Head(r.packetQueue)>>
        /\ Head(r.packetQueue) \in Nat /\ Tail(r.packetQueue) \in Seq(Nat)
        /\ Len(Tail(r.packetQueue)) = Len(r.packetQueue) - 1
        /\ <<Head(r.packetQueue)>> \in Seq(Nat) /\ Len(<<Head(r.packetQueue)>>) <= 1
        /\ Len(r.packetQueue) \in Nat
    BY <2>0, <2>2, PathIs
  <2>4. /\ q \in StreamController
        /\ q.packetQueue = Tail(r.packetQueue) /\ q.datalist = <<Head(r.packetQueue)>> /\ q.decoding
        /\ q.frameQueue = r.frameQueue /\ q.retDatalist = r.retDatalist /\ q.codec = r.codec
        /\ q.inRender = r.inRender /\ q.shown = r.shown /\ q.rendering = r.rendering
    BY <2>0, <2>3 DEF StreamController
  <2> HIDE DEF q
  <2>5. WellFormed(q)
    BY <2>2, <2>3, <2>4 DEF WellFormed
  <2>6. Path(q) = Path(r)
    <3> DEFINE a == r.shown \o r.inRender \o r.frameQueue \o Frames(r.retDatalist) \o r.codec
    <3>1. a \in Seq(Nat) /\ r.packetQueue \in Seq(Nat)
      BY <2>0, PathIs
    <3>2. Path(r) = (a \o <<>>) \o r.packetQueue
      BY <2>0, <2>2, PathIs DEF PathOf
    <3>3. Path(q) = (a \o <<Head(r.packetQueue)>>) \o Tail(r.packetQueue)
      BY <2>4, PathIs DEF PathOf
    <3> HIDE DEF a
    <3> QED
      BY <2>2, <3>1, <3>2, <3>3, MoveHead
  <2>7. Lighter(r, q)
    <3>1. HasRoom(r) => HasRoom(q)
      BY <2>2, <2>3, <2>4, WebPlayerAssumption DEF HasRoom
    <3> QED
      BY <2>3, <2>4, <3>1 DEF Lighter
  <2>8. Len(r.packetQueue) <= 1 => q.packetQueue = <<>>
    BY <2>0, <2>2, <2>4, PathIs
  <2> QED
    BY <2>1, <2>5, <2>6, <2>7, <2>8
<1> QED
  BY <1>1, <1>2

LEMMA PushPacketFlows ==
    ASSUME NEW r, NEW n \in Nat, WellFormed(r)
    PROVE  /\ WellFormed(PushPacket(r, n)) /\ Path(PushPacket(r, n)) = Path(r) \o <<n>>
           /\ HasRoom(r) => Len(PushPacket(r, n).packetQueue) <= PacketQueueSize
<1> DEFINE all == Append(r.packetQueue, n)
           pushed == [r EXCEPT !.packetQueue = all]
<1>0. r \in StreamController /\ r.packetQueue \in Seq(Nat) /\ Len(r.packetQueue) \in Nat
  BY PathIs DEF WellFormed
<1>1. all \in Seq(Nat) /\ Len(all) = Len(r.packetQueue) + 1
  BY <1>0
<1>2. all = r.packetQueue \o <<n>> /\ <<n>> \in Seq(Nat)
  BY <1>0, AppendIsConcatOfOne
<1>3. PushPacket(r, n) = IF pushed.initFinished THEN DecodePacket(pushed) ELSE pushed
  BY <1>0 DEF PushPacket, StreamController
<1> HIDE DEF all
<1>4. /\ pushed \in StreamController /\ pushed.packetQueue = all
      /\ pushed.frameQueue = r.frameQueue /\ pushed.retDatalist = r.retDatalist
      /\ pushed.codec = r.codec /\ pushed.datalist = r.datalist
      /\ pushed.inRender = r.inRender /\ pushed.shown = r.shown
      /\ pushed.rendering = r.rendering /\ pushed.decoding = r.decoding
      /\ pushed.initFinished = r.initFinished
  BY <1>0, <1>1 DEF StreamController
<1> HIDE DEF pushed
<1>5. WellFormed(pushed)
  BY <1>4 DEF WellFormed
<1>6. Path(pushed) = Path(r) \o <<n>>
  <2> DEFINE a == r.shown \o r.inRender \o r.frameQueue \o Frames(r.retDatalist) \o r.codec
                      \o r.datalist
  <2>1. a \in Seq(Nat)
    BY <1>0, PathIs
  <2>2. Path(r) = a \o r.packetQueue
    BY <1>0, PathIs DEF PathOf
  <2>3. Path(pushed) = a \o (r.packetQueue \o <<n>>)
    BY <1>2, <1>4, PathIs DEF PathOf
  <2> DEFINE one == <<n>>
  <2>4. one \in Seq(Nat) /\ Path(pushed) = a \o (r.packetQueue \o one)
    BY <1>2, <2>3
  <2> HIDE DEF a, one
  <2>5. \A q \in Seq(Nat) : a \o (q \o one) = (a \o q) \o one
    BY <2>1, <2>4, ConcatAssociative
  <2>6. Path(pushed) = (a \o r.packetQueue) \o one
    BY <1>0, <2>4, <2>5
  <2> QED
    BY <2>2, <2>6 DEF one
<1>7. ASSUME HasRoom(r)
      PROVE  Len(PushPacket(r, n).packetQueue) <= PacketQueueSize
  <2>1. CASE Len(r.packetQueue) < PacketQueueSize
    <3>1. Len(pushed.packetQueue) <= PacketQueueSize
      BY <1>0, <1>1, <1>4, <2>1, WebPlayerAssumption
    <3>2. Len(DecodePacket(pushed).packetQueue) <= Len(pushed.packetQueue)
      BY <1>5, DecodePacketFlows DEF Lighter
    <3>3. DecodePacket(pushed).packetQueue \in Seq(Nat)
      BY <1>5, DecodePacketFlows, PathIs DEF WellFormed
    <3>4. Len(DecodePacket(pushed).packetQueue) <= PacketQueueSize
      BY <1>1, <1>4, <3>1, <3>2, <3>3, WebPlayerAssumption
    <3> QED
      BY <1>3, <3>1, <3>4
  <2>2. CASE r.packetQueue = <<>> /\ r.frameQueue = <<>> /\ ~r.decoding /\ r.initFinished
    <3>0. Len(r.packetQueue) = 0
      BY <2>2
    <3>3. pushed.frameQueue = <<>> /\ ~pushed.decoding /\ Len(pushed.packetQueue) <= 1
      BY <1>1, <1>4, <2>2, <3>0
    <3>1. DecodePacket(pushed).packetQueue = <<>>
      BY <1>5, <3>3, DecodePacketFlows
    <3>2. PushPacket(r, n).packetQueue = <<>>
      BY <1>3, <1>4, <2>2, <3>1
    <3> QED
      BY <3>2, WebPlayerAssumption
  <2> QED
    BY <1>7, <2>1, <2>2 DEF HasRoom
<1> QED
  BY <1>3, <1>5, <1>6, <1>7, DecodePacketFlows

(* The decoder's answer is taken, or thrown away after stop().             *)
Answer(r) == [r EXCEPT !.retDatalist = Tail(@), !.decoding = FALSE]

LEMMA AnswerFlows ==
    ASSUME NEW r, WellFormed(r), r.retDatalist # <<>>
    PROVE  LET frame == Head(r.retDatalist)
           IN  /\ frame \in Nat
               /\ WellFormed(Answer(r)) /\ Answer(r).packetQueue = r.packetQueue
               /\ frame = 0 => Path(Answer(r)) = Path(r)
               /\ frame # 0 => Loses(Path(r), Path(Answer(r)), {frame})
               /\ WellFormed(FrameDecoded(Answer(r), frame))
               /\ Path(FrameDecoded(Answer(r), frame)) = Path(r)
               /\ Lighter(r, FrameDecoded(Answer(r), frame))
<1> DEFINE frame == Head(r.retDatalist)
           idle == Answer(r)
<1>0. r \in StreamController /\ Len(r.packetQueue) \in Nat
  BY PathIs DEF WellFormed
<1>1. /\ r.retDatalist = <<frame>> /\ frame \in Nat /\ Tail(r.retDatalist) = <<>>
      /\ r.datalist = <<>> /\ r.frameQueue = <<>> /\ r.decoding
  <2>1. /\ r.datalist = <<>> /\ r.frameQueue = <<>> /\ r.decoding
    BY DEF WellFormed
  <2>2. r.retDatalist \in Seq(Nat) /\ Len(r.retDatalist) <= 1
    BY <1>0, PathIs DEF WellFormed
  <2>3. r.retDatalist = <<frame>> /\ frame \in Nat
    BY <2>2, Single
  <2>4. Tail(r.retDatalist) = <<>>
    BY <2>2
  <2> QED
    BY <2>1, <2>3, <2>4
<1>2. /\ idle \in StreamController /\ idle.retDatalist = <<>> /\ ~idle.decoding
      /\ idle.packetQueue = r.packetQueue /\ idle.frameQueue = <<>>
      /\ idle.codec = r.codec /\ idle.datalist = <<>>
      /\ idle.inRender = r.inRender /\ idle.shown = r.shown
      /\ idle.rendering = r.rendering
  <2> DEFINE none == <<>>
  <2>1. none \in Seq(Nat) /\ idle = [r EXCEPT !.retDatalist = none, !.decoding = FALSE]
    BY <1>0, <1>1 DEF StreamController, Answer
  <2> HIDE DEF none, idle
  <2>2. /\ idle \in StreamController /\ idle.retDatalist = none /\ ~idle.decoding
        /\ idle.packetQueue = r.packetQueue /\ idle.frameQueue = r.frameQueue
        /\ idle.codec = r.codec /\ idle.datalist = r.datalist
        /\ idle.inRender = r.inRender /\ idle.shown = r.shown
        /\ idle.rendering = r.rendering
    BY <1>0, <2>1 DEF StreamController
  <2> QED
    BY <1>1, <2>2 DEF none
<1>3. WellFormed(idle)
  BY <1>2 DEF WellFormed
<1> DEFINE shownPart == r.shown \o r.inRender
           decodedPart(a) == a \o r.codec \o <<>> \o r.packetQueue
<1>4. shownPart \in Seq(Nat) /\ r.codec \in Seq(Nat) /\ r.packetQueue \in Seq(Nat)
  BY <1>0, PathIs
<1>5. Path(r) = decodedPart((shownPart \o <<>>) \o Frames(<<frame>>))
  BY <1>0, <1>1, PathIs DEF PathOf
<1>6. Path(idle) = decodedPart((shownPart \o <<>>) \o <<>>)
  BY <1>2, PathIs, FramesOf DEF PathOf
<1>7. ASSUME frame = 0 PROVE Path(idle) = Path(r)
  BY <1>1, <1>5, <1>6, <1>7, FramesOf
<1>8. shownPart \o <<>> = shownPart /\ (shownPart \o <<>>) \o <<>> = shownPart
  BY <1>4, ConcatEmptySeq
<1> HIDE DEF idle
<1>9. ASSUME frame # 0 PROVE Loses(Path(r), Path(idle), {frame})
  <2> DEFINE one == <<frame>>
  <2>1. one \in Seq(Nat) /\ Frames(<<frame>>) = one /\ ToSet(one) = {frame}
    BY <1>1, <1>9, FramesOf, Short
  <2>2. Path(r) = decodedPart(shownPart \o one) /\ Path(idle) = decodedPart(shownPart)
    BY <1>5, <1>6, <1>8, <2>1
  <2> DEFINE none == <<>>
             c == r.codec
             q == r.packetQueue
             s == shownPart
  <2>3. /\ Path(r) = ((s \o one) \o c \o none) \o q
        /\ Path(idle) = (s \o c \o none) \o q
        /\ none \in Seq(Nat) /\ c \in Seq(Nat) /\ q \in Seq(Nat) /\ s \in Seq(Nat)
    BY <1>4, <2>2
  <2> HIDE DEF one, none, c, q, s
  <2>4. Loses(s \o one, s, {frame})
    BY <2>1, <2>3, LosesSegment
  <2>5. /\ s \o one \in Seq(Nat) /\ (s \o one) \o c \in Seq(Nat) /\ s \o c \in Seq(Nat)
        /\ (s \o one) \o c \o none \in Seq(Nat) /\ s \o c \o none \in Seq(Nat)
    BY <2>1, <2>3
  <2>6. Loses((s \o one) \o c, s \o c, {frame})
    BY <2>3, <2>4, <2>5, LosesInside
  <2>7. Loses((s \o one) \o c \o none, s \o c \o none, {frame})
    BY <2>3, <2>5, <2>6, LosesInside
  <2>8. Loses(((s \o one) \o c \o none) \o q, (s \o c \o none) \o q, {frame})
    BY <2>3, <2>5, <2>7, LosesInside
  <2> QED
    BY <2>3, <2>8
<1>10. /\ WellFormed(FrameDecoded(idle, frame))
       /\ Path(FrameDecoded(idle, frame)) = Path(r)
       /\ Lighter(r, FrameDecoded(idle, frame))
  <2>1. CASE frame = 0
    <3>1. FrameDecoded(idle, frame) = DecodePacket(idle)
      BY <2>1 DEF FrameDecoded
    <3>2. Len(DecodePacket(idle).packetQueue) <= Len(r.packetQueue)
      BY <1>2, <1>3, DecodePacketFlows DEF Lighter
    <3>3. DecodePacket(idle).packetQueue \in Seq(Nat)
      BY <1>3, DecodePacketFlows, PathIs DEF WellFormed
    <3>4. HasRoom(r) => HasRoom(DecodePacket(idle))
      BY <1>0, <1>1, <3>2, <3>3, WebPlayerAssumption DEF HasRoom
    <3> QED
      BY <1>3, <1>7, <2>1, <3>1, <3>2, <3>4, DecodePacketFlows DEF Lighter
  <2>2. CASE frame # 0
    <3> DEFINE one == <<frame>>
               with == [idle EXCEPT !.frameQueue = one]
    <3>1. FrameDecoded(idle, frame) = DecodePacket(ConvertFrame(with))
      <4>1. [idle EXCEPT !.frameQueue = Append(@, frame)] = with
        BY <1>2 DEF StreamController
      <4> QED
        BY <2>2, <4>1 DEF FrameDecoded
    <3>2. one \in Seq(Nat) /\ Len(one) <= 1 /\ Frames(<<frame>>) = one
      BY <1>1, <2>2, FramesOf
    <3> HIDE DEF one
    <3>3. /\ with \in StreamController /\ with.frameQueue = one
          /\ with.packetQueue = idle.packetQueue
          /\ with.codec = idle.codec /\ with.datalist = idle.datalist
          /\ with.inRender = idle.inRender /\ with.shown = idle.shown
          /\ with.rendering = idle.rendering /\ with.retDatalist = idle.retDatalist
      BY <1>2, <3>2 DEF StreamController
    <3> HIDE DEF with
    <3>4. WellFormed(with)
      BY <1>2, <1>3, <3>2, <3>3 DEF WellFormed
    <3>5. Path(with) = decodedPart((shownPart \o one) \o <<>>)
      BY <1>2, <3>3, PathIs, FramesOf DEF PathOf
    <3>6. Path(with) = Path(r)
      <4>1. (shownPart \o one) \o <<>> = shownPart \o one
        BY <1>4, <3>2, ConcatEmptySeq
      <4> HIDE DEF shownPart, decodedPart
      <4> QED
        BY <1>5, <1>8, <3>2, <3>5, <4>1
    <3> DEFINE on == ConvertFrame(with)
               done == DecodePacket(on)
    <3>7. WellFormed(on) /\ Path(on) = Path(r) /\ Len(on.packetQueue) <= Len(r.packetQueue)
      BY <1>2, <3>3, <3>4, <3>6, ConvertFrameFlows DEF Lighter
    <3>8. WellFormed(done) /\ Path(done) = Path(r) /\ Len(done.packetQueue) <= Len(on.packetQueue)
      BY <3>7, DecodePacketFlows DEF Lighter
    <3> HIDE DEF done, on
    <3>9. Len(done.packetQueue) \in Nat /\ Len(on.packetQueue) \in Nat
      BY <3>7, <3>8, PathIs DEF WellFormed
    <3>10. Len(done.packetQueue) <= Len(r.packetQueue)
      BY <1>0, <3>7, <3>8, <3>9
    <3>11. HasRoom(r) => HasRoom(done)
      BY <1>0, <1>1, <3>9, <3>10, WebPlayerAssumption DEF HasRoom
    <3> QED
      BY <3>1, <3>8, <3>10, <3>11 DEF Lighter, done, on
  <2> QED
    BY <2>1, <2>2
<1> QED
  BY <1>1, <1>2, <1>3, <1>7, <1>9, <1>10 DEF idle

(* A frame is shown.                                                       *)
LEMMA FrameRenderedFlows ==
    ASSUME NEW r, WellFormed(r), NEW i \in DOMAIN r.inRender
    PROVE  /\ WellFormed(FrameRendered(r, i)) /\ Path(FrameRendered(r, i)) = Path(r)
           /\ Lighter(r, FrameRendered(r, i))
<1> DEFINE frame == Head(r.inRender)
           one == <<frame>>
           all == Append(r.shown, frame)
           none == <<>>
           done == [r EXCEPT !.rendering = FALSE, !.inRender = none, !.shown = all]
<1>0. r \in StreamController /\ r.inRender \in Seq(Nat) /\ r.shown \in Seq(Nat)
  BY PathIs DEF WellFormed
<1>1. r.inRender # <<>> /\ Len(r.inRender) <= 1
  BY <1>0 DEF WellFormed
<1>2. r.inRender = one /\ frame \in Nat /\ Len(r.inRender) = 1
  BY <1>0, <1>1, Single
<1>3. i = 1
  BY <1>0, <1>2
<1>4. RemoveAt(r.inRender, i) = none
  BY <1>0, <1>2, <1>3 DEF RemoveAt
<1>5. r.inRender[i] = frame
  BY <1>2, <1>3
<1>6. all \in Seq(Nat) /\ all = r.shown \o one /\ none \in Seq(Nat) /\ one \in Seq(Nat)
  <2>1. all \in Seq(Nat) /\ all = r.shown \o one
    BY <1>0, <1>2, AppendIsConcatOfOne
  <2> QED
    BY <1>2, <2>1
<1>7. FrameRendered(r, i) = DecodePacket(ConvertFrame(done))
  <2>1. [r EXCEPT !.rendering = FALSE, !.inRender = RemoveAt(@, i), !.shown = Append(@, r.inRender[i])]
            = done
    BY <1>0, <1>4, <1>5 DEF StreamController
  <2> QED
    BY <2>1 DEF FrameRendered
<1> HIDE DEF all, none, one
<1>8. /\ done \in StreamController /\ done.packetQueue = r.packetQueue
      /\ done.frameQueue = r.frameQueue /\ done.retDatalist = r.retDatalist
      /\ done.codec = r.codec /\ done.datalist = r.datalist /\ done.decoding = r.decoding
      /\ done.inRender = none /\ done.shown = all /\ done.initFinished = r.initFinished
  BY <1>0, <1>6 DEF StreamController
<1> HIDE DEF done
<1>9. none = <<>> /\ Len(none) = 0
  BY DEF none
<1>10. WellFormed(done)
  BY <1>8, <1>9 DEF WellFormed
<1>11. Path(done) = Path(r)
  <2> DEFINE rest(a) == a \o r.frameQueue \o Frames(r.retDatalist) \o r.codec \o r.datalist
                            \o r.packetQueue
  <2>1. Path(r) = rest(all)
    BY <1>0, <1>2, <1>6, PathIs DEF PathOf
  <2>2. Path(done) = rest(all \o none)
    BY <1>8, PathIs DEF PathOf
  <2>3. all \o none = all
    BY <1>6, <1>9, ConcatEmptySeq
  <2> HIDE DEF rest
  <2> QED
    BY <2>1, <2>2, <2>3
<1>12. Lighter(r, done)
  <2>1. r.packetQueue \in Seq(Nat)
    BY <1>0, PathIs
  <2>2. Len(done.packetQueue) <= Len(r.packetQueue)
    BY <1>8, <2>1
  <2>3. HasRoom(r) => HasRoom(done)
    BY <1>8, Zenon DEF HasRoom
  <2> QED
    BY <2>2, <2>3 DEF Lighter
<1> DEFINE on == ConvertFrame(done)
           last == DecodePacket(on)
<1>13. WellFormed(on) /\ Path(on) = Path(r) /\ Lighter(done, on)
  BY <1>10, <1>11, ConvertFrameFlows
<1> HIDE DEF on
<1>14. WellFormed(last) /\ Path(last) = Path(r) /\ Lighter(on, last)
  BY <1>13, DecodePacketFlows
<1> HIDE DEF last
<1>15. /\ Len(r.packetQueue) \in Nat /\ Len(done.packetQueue) \in Nat
       /\ Len(on.packetQueue) \in Nat /\ Len(last.packetQueue) \in Nat
  <2>1. ASSUME NEW a, WellFormed(a)
        PROVE  Len(a.packetQueue) \in Nat
    <3>1. a \in StreamController
      BY <2>1 DEF WellFormed
    <3>2. a.packetQueue \in Seq(Nat)
      BY <3>1, PathIs
    <3> QED
      BY <3>2
  <2> QED
    BY <1>0, <1>10, <1>13, <1>14, <2>1
<1>16. Lighter(r, last)
  BY <1>12, <1>13, <1>14, <1>15 DEF Lighter
<1> QED
  BY <1>7, <1>14, <1>16 DEF on, last

(* The decoder's thread takes its packet and answers.                      *)
Decoded(r) ==
    LET kept == r.codec \o r.datalist
    IN  IF Len(kept) > CodecDelay
        THEN [r EXCEPT !.datalist = <<>>, !.codec = Tail(kept),
                       !.retDatalist = Append(@, Head(kept))]
        ELSE [r EXCEPT !.datalist = <<>>, !.codec = kept, !.retDatalist = Append(@, 0)]

LEMMA DecodedFlows ==
    ASSUME NEW r, WellFormed(r), r.datalist # <<>>, 0 \notin ToSet(Path(r))
    PROVE  /\ WellFormed(Decoded(r)) /\ Path(Decoded(r)) = Path(r)
           /\ Decoded(r).packetQueue = r.packetQueue /\ Lighter(r, Decoded(r))
<1> DEFINE kept == r.codec \o r.datalist
<1>0. /\ r \in StreamController /\ r.codec \in Seq(Nat) /\ r.datalist \in Seq(Nat)
      /\ r.retDatalist = <<>> /\ r.frameQueue = <<>> /\ r.decoding
      /\ Len(r.codec) <= CodecDelay /\ Len(r.datalist) <= 1
  BY PathIs DEF WellFormed
<1>1. kept \in Seq(Nat) /\ Len(kept) <= CodecDelay + 1 /\ kept # <<>>
  <2>1. kept \in Seq(Nat) /\ Len(kept) = Len(r.codec) + Len(r.datalist)
    BY <1>0
  <2> HIDE DEF kept
  <2>2. Len(r.datalist) # 0 /\ Len(r.datalist) \in Nat /\ Len(r.codec) \in Nat
    BY <1>0
  <2>3. CodecDelay \in Nat
    BY WebPlayerAssumption
  <2>7. /\ \A a, b \in Nat : b # 0 => a + b # 0
        /\ \A a, b, d \in Nat : a <= d /\ b <= 1 => a + b <= d + 1
    OBVIOUS
  <2>4. Len(kept) # 0
    BY <2>1, <2>2, <2>7, Zenon
  <2>5. kept # <<>>
    BY <2>4
  <2>6. Len(kept) <= CodecDelay + 1
    BY <1>0, <2>1, <2>2, <2>3, <2>7, Zenon
  <2> QED
    BY <2>1, <2>5, <2>6
<1> DEFINE front == r.shown \o r.inRender \o r.frameQueue
           pq == r.packetQueue
<1>2. front \in Seq(Nat) /\ pq \in Seq(Nat)
  BY <1>0, PathIs
<1>3. Path(r) = (front \o kept) \o pq
  <2>1. Path(r) = (((front \o <<>>) \o r.codec) \o r.datalist) \o pq
    BY <1>0, PathIs, FramesOf DEF PathOf
  <2> HIDE DEF front, pq
  <2>2. front \o <<>> = front
    BY <1>2, ConcatEmptySeq
  <2>3. \A c \in Seq(Nat), d \in Seq(Nat) : (front \o c) \o d = front \o (c \o d)
    BY <1>2, Associative
  <2>4. (front \o r.codec) \o r.datalist = front \o kept
    BY <1>0, <2>3
  <2> QED
    BY <2>1, <2>2, <2>4
<1> HIDE DEF kept, front, pq
(* q is r with the lists that are given.                                   *)
<1>4. ASSUME NEW c \in Seq(Nat), NEW n \in Nat, Len(c) <= CodecDelay,
             (front \o Frames(<<n>>)) \o c = front \o kept,
             Decoded(r) = [r EXCEPT !.datalist = <<>>, !.codec = c, !.retDatalist = <<n>>]
      PROVE  /\ WellFormed(Decoded(r)) /\ Path(Decoded(r)) = Path(r)
             /\ Decoded(r).packetQueue = r.packetQueue /\ Lighter(r, Decoded(r))
  <2> DEFINE q == Decoded(r)
             none == <<>>
             one == <<n>>
  <2>1. none \in Seq(Nat) /\ one \in Seq(Nat) /\ Len(one) <= 1 /\ Len(none) = 0
    OBVIOUS
  <2>2. q = [r EXCEPT !.datalist = none, !.codec = c, !.retDatalist = one]
    BY <1>4
  <2> HIDE DEF q, none, one
  <2>3. /\ q \in StreamController /\ q.packetQueue = r.packetQueue /\ q.frameQueue = r.frameQueue
        /\ q.retDatalist = one /\ q.codec = c /\ q.datalist = none /\ q.decoding = r.decoding
        /\ q.inRender = r.inRender /\ q.shown = r.shown /\ q.rendering = r.rendering
        /\ q.initFinished = r.initFinished
    BY <1>0, <2>1, <2>2 DEF StreamController
  <2>4. WellFormed(q)
    <3>1. none = <<>>
      BY DEF none
    <3> QED
      BY <1>0, <1>4, <2>1, <2>3, <3>1 DEF WellFormed
  <2>5. Path(q) = (((front \o Frames(one)) \o c) \o none) \o pq
    BY <2>3, PathIs DEF PathOf, front, pq
  <2>6. (front \o kept) \o none = front \o kept
    <3>1. front \o kept \in Seq(Nat)
      BY <1>1, <1>2
    <3> QED
      BY <3>1, ConcatEmptySeq DEF none
  <2>7. Path(q) = Path(r)
    BY <1>3, <1>4, <2>5, <2>6 DEF one
  <2>8. Lighter(r, q)
    BY <1>0, <2>3, PathIs DEF Lighter, HasRoom
  <2> QED
    BY <2>3, <2>4, <2>7, <2>8 DEF q
<1>5. CASE Len(kept) > CodecDelay
  <2> DEFINE n == Head(kept)
             c == Tail(kept)
  <2>1. kept = <<n>> \o c /\ n \in Nat /\ n \in ToSet(kept) /\ c \in Seq(Nat) /\ Len(c) = Len(kept) - 1
    BY <1>1, HeadAndTail
  <2>2. n \in ToSet(Path(r))
    <3>1. front \o kept \in Seq(Nat)
      BY <1>1, <1>2
    <3>2. ToSet(front \o kept) = ToSet(front) \cup ToSet(kept)
      BY <1>1, <1>2, ConcatElements
    <3>3. ToSet(Path(r)) = ToSet(front \o kept) \cup ToSet(pq)
      BY <1>2, <1>3, <3>1, ConcatElements
    <3> QED
      BY <2>1, <3>2, <3>3
  <2>3. n # 0 /\ Frames(<<n>>) = <<n>>
    BY <2>1, <2>2, FramesOf
  <2>4. Len(c) <= CodecDelay
    BY <1>1, <2>1, WebPlayerAssumption
  <2>5. Decoded(r) = [r EXCEPT !.datalist = <<>>, !.codec = c, !.retDatalist = <<n>>]
    BY <1>0, <1>5 DEF Decoded, StreamController, kept
  <2> DEFINE one == <<n>>
  <2>6. one \in Seq(Nat) /\ kept = one \o c
    BY <2>1
  <2> HIDE DEF n, c, one
  <2>9. \A p \in Seq(Nat) : (front \o p) \o c = front \o (p \o c)
    BY <1>2, <2>1, Associative
  <2>7. (front \o one) \o c = front \o kept
    BY <2>6, <2>9
  <2>8. (front \o Frames(<<n>>)) \o c = front \o kept
    BY <2>3, <2>7 DEF one
  <2> QED
    BY <1>4, <2>1, <2>4, <2>5, <2>8
<1>6. CASE ~(Len(kept) > CodecDelay)
  <2>1. Len(kept) <= CodecDelay
    BY <1>1, <1>6, WebPlayerAssumption
  <2>2. Decoded(r) = [r EXCEPT !.datalist = <<>>, !.codec = kept, !.retDatalist = <<0>>]
    BY <1>0, <1>6 DEF Decoded, StreamController, kept
  <2>3. (front \o Frames(<<0>>)) \o kept = front \o kept
    BY <1>2, FramesOf, ConcatEmptySeq
  <2> QED
    BY <1>1, <1>4, <2>1, <2>2, <2>3
<1> QED
  BY <1>5, <1>6

(* What the page does to a stream.                                         *)
LEMMA PauseFlows ==
    ASSUME NEW r, WellFormed(r), NEW pause \in BOOLEAN
    PROVE  LET q == [r EXCEPT !.isPause = pause]
           IN  /\ WellFormed(q) /\ Path(q) = Path(r) /\ Lighter(r, q)
               /\ Unstarted(r) => Unstarted(q)
<1> DEFINE q == [r EXCEPT !.isPause = pause]
<1>0. r \in StreamController
  BY DEF WellFormed
<1>1. /\ q \in StreamController /\ q.packetQueue = r.packetQueue /\ q.frameQueue = r.frameQueue
      /\ q.retDatalist = r.retDatalist /\ q.codec = r.codec /\ q.datalist = r.datalist
      /\ q.decoding = r.decoding /\ q.inRender = r.inRender /\ q.shown = r.shown
      /\ q.rendering = r.rendering /\ q.initFinished = r.initFinished
  BY <1>0 DEF StreamController
<1> HIDE DEF q
<1>2. WellFormed(q)
  BY <1>1 DEF WellFormed
<1>3. Path(q) = Path(r)
  BY <1>0, <1>1, PathIs
<1>4. Lighter(r, q) /\ (Unstarted(r) => Unstarted(q))
  BY <1>0, <1>1, PathIs DEF Lighter, HasRoom, Unstarted
<1> QED
  BY <1>2, <1>3, <1>4 DEF q

LEMMA ResetFlows ==
    ASSUME NEW r, WellFormed(r), r.inRender = <<>>, Unstarted(r)
    PROVE  LET q == [r EXCEPT !.rendering = FALSE, !.isPause = FALSE]
           IN  WellFormed(q) /\ Path(q) = Path(r) /\ Unstarted(q)
<1> DEFINE q == [r EXCEPT !.rendering = FALSE, !.isPause = FALSE]
<1>0. r \in StreamController
  BY DEF WellFormed
<1>1. /\ q \in StreamController /\ q.packetQueue = r.packetQueue /\ q.frameQueue = r.frameQueue
      /\ q.retDatalist = r.retDatalist /\ q.codec = r.codec /\ q.datalist = r.datalist
      /\ q.decoding = r.decoding /\ q.inRender = r.inRender /\ q.shown = r.shown
  BY <1>0 DEF StreamController
<1> HIDE DEF q
<1>2. WellFormed(q)
  BY <1>1 DEF WellFormed
<1>3. Path(q) = Path(r)
  BY <1>0, <1>1, PathIs
<1> QED
  BY <1>1, <1>2, <1>3 DEF q, Unstarted

LEMMA InitDecoderFlows ==
    ASSUME NEW r, WellFormed(r), Unstarted(r), r.frameQueue = <<>>
    PROVE  /\ WellFormed(InitDecoder(r)) /\ Path(InitDecoder(r)) = Path(r)
           /\ InitDecoder(r).packetQueue = <<>> /\ HasRoom(InitDecoder(r))
           /\ HeldByDecoder(r) = {}
<1> DEFINE q == InitDecoder(r)
           none == <<>>
<1>0. r \in StreamController /\ r.codec = <<>> /\ r.datalist = <<>> /\ r.retDatalist = <<>>
  BY DEF WellFormed, Unstarted
<1>1. /\ none \in Seq(Nat)
      /\ q = [r EXCEPT !.initFinished = TRUE, !.datalist = none, !.codec = none, !.retDatalist = none]
  BY DEF InitDecoder
<1> HIDE DEF q, none
<1>2. /\ q \in StreamController /\ q.packetQueue = r.packetQueue /\ q.frameQueue = r.frameQueue
      /\ q.retDatalist = none /\ q.codec = none /\ q.datalist = none
      /\ q.decoding = r.decoding /\ q.inRender = r.inRender /\ q.shown = r.shown
      /\ q.rendering = r.rendering /\ q.initFinished
  BY <1>0, <1>1 DEF StreamController
<1>3. none = <<>>
  BY DEF none
<1>4. WellFormed(q)
  BY <1>0, <1>2, <1>3 DEF WellFormed
<1>5. Path(q) = Path(r)
  BY <1>0, <1>2, <1>3, PathIs
<1>6. q.packetQueue = <<>> /\ HasRoom(q)
  BY <1>2 DEF Unstarted, HasRoom
<1>7. HeldByDecoder(r) = {}
  BY <1>0, FramesOf, Short DEF HeldByDecoder
<1> QED
  BY <1>4, <1>5, <1>6, <1>7 DEF q

LEMMA StopFlows ==
    ASSUME NEW r, WellFormed(r)
    PROVE  LET q == [r EXCEPT !.packetQueue = <<>>, !.frameQueue = <<>>]
           IN  /\ WellFormed(q) /\ Lighter(r, q)
               /\ Loses(Path(r), Path(q), ToSet(r.packetQueue) \cup ToSet(r.frameQueue))
               /\ Unstarted(r) => Unstarted(q)
<1> DEFINE none == <<>>
           q == [r EXCEPT !.packetQueue = none, !.frameQueue = none]
<1>0. r \in StreamController
  BY DEF WellFormed
<1>1. none \in Seq(Nat) /\ Len(none) = 0
  OBVIOUS
<1> HIDE DEF none
<1>2. /\ q \in StreamController /\ q.packetQueue = none /\ q.frameQueue = none
      /\ q.retDatalist = r.retDatalist /\ q.codec = r.codec /\ q.datalist = r.datalist
      /\ q.decoding = r.decoding /\ q.inRender = r.inRender /\ q.shown = r.shown
      /\ q.rendering = r.rendering /\ q.initFinished = r.initFinished
  BY <1>0, <1>1 DEF StreamController
<1> HIDE DEF q
<1>3. none = <<>>
  BY DEF none
<1>4. WellFormed(q)
  BY <1>1, <1>2, <1>3 DEF WellFormed
<1>5. Lighter(r, q) /\ (Unstarted(r) => Unstarted(q))
  <2>1. Len(r.packetQueue) \in Nat
    BY <1>0, PathIs
  <2>2. HasRoom(r) => HasRoom(q)
    BY <1>1, <1>2, <1>3, <2>1, WebPlayerAssumption DEF HasRoom
  <2> QED
    BY <1>1, <1>2, <1>3, <2>1, <2>2 DEF Lighter, Unstarted
<1>6. Loses(Path(r), Path(q), ToSet(r.packetQueue) \cup ToSet(r.frameQueue))
  <2> DEFINE a == r.shown \o r.inRender
             f == r.frameQueue
             d == Frames(r.retDatalist)
             c == r.codec
             e == r.datalist
             p == r.packetQueue
             x == a \o f \o d \o c \o e
             y == a \o none \o d \o c \o e
  <2>1. /\ a \in Seq(Nat) /\ f \in Seq(Nat) /\ d \in Seq(Nat) /\ c \in Seq(Nat) /\ e \in Seq(Nat)
        /\ p \in Seq(Nat)
    BY <1>0, PathIs
  <2>2. Path(r) = x \o p
    BY <1>0, PathIs DEF PathOf
  <2>3. Path(q) = y \o none
    BY <1>2, PathIs DEF PathOf
  <2> HIDE DEF a, f, d, c, e, p
  <2>4. /\ x \in Seq(Nat) /\ y \in Seq(Nat) /\ a \o f \in Seq(Nat) /\ a \o none \in Seq(Nat)
        /\ a \o f \o d \in Seq(Nat) /\ a \o none \o d \in Seq(Nat)
        /\ a \o f \o d \o c \in Seq(Nat) /\ a \o none \o d \o c \in Seq(Nat)
    BY <1>1, <2>1
  <2>5. Loses(a \o f, a \o none, ToSet(f))
    <3>1. a \o none = a
      BY <1>3, <2>1, ConcatEmptySeq
    <3> QED
      BY <2>1, <3>1, LosesSegment
  <2>6. Loses(a \o f \o d, a \o none \o d, ToSet(f))
    BY <2>1, <2>4, <2>5, LosesInside
  <2>7. Loses(a \o f \o d \o c, a \o none \o d \o c, ToSet(f))
    BY <2>1, <2>4, <2>6, LosesInside
  <2>8. Loses(x, y, ToSet(f))
    BY <2>1, <2>4, <2>7, LosesInside
  <2> HIDE DEF x, y
  <2>9. Loses(x \o p, x, ToSet(p))
    BY <2>1, <2>4, LosesSegment
  <2>10. y \o none = y
    BY <1>3, <2>4, ConcatEmptySeq
  <2>11. Loses(x \o p, y, ToSet(p) \cup ToSet(f))
    BY <2>8, <2>9, LosesTwice
  <2> QED
    BY <2>2, <2>3, <2>10, <2>11 DEF p, f
<1> QED
  BY <1>4, <1>5, <1>6 DEF q, none

-----------------------------------------------------------------------------
(* All streams at once.                                                    *)
LEMMA ShapesOf ==
    ASSUME Shapes, NEW s \in Streams, NEW r, WellFormed(r), stream' = [stream EXCEPT ![s] = r]
    PROVE  /\ stream' \in [Streams -> StreamController]
           /\ \A t \in Streams : WellFormed(stream'[t])
           /\ stream'[s] = r
           /\ \A t \in Streams : t # s => stream'[t] = stream[t]
<1>1. r \in StreamController
  BY DEF WellFormed
<1> QED
  BY <1>1 DEF Shapes

LEMMA LighterIsLight ==
    ASSUME NEW r, NEW q, WellFormed(r), WellFormed(q), Lighter(r, q)
    PROVE  Len(r.packetQueue) <= PacketQueueSize => Len(q.packetQueue) <= PacketQueueSize
<1>1. Len(r.packetQueue) \in Nat /\ Len(q.packetQueue) \in Nat
  BY PathIs DEF WellFormed
<1> QED
  BY <1>1, WebPlayerAssumption DEF Lighter

(* A step that gives all streams their place again.                        *)
LEMMA QuietFlows ==
    ASSUME Flow,
           UNCHANGED <<isPlaying, isRtspStream, rtsp, sent, gone, failed, plays>>,
           isStop' = isStop,
           stream' \in [Streams -> StreamController],
           \A s \in Streams :
               /\ WellFormed(stream'[s]) /\ Path(stream'[s]) = Path(stream[s])
               /\ Lighter(stream[s], stream'[s])
               /\ Unstarted(stream[s]) => Unstarted(stream'[s]) \/ isPlaying,
           \/ demuxer'.requests = demuxer.requests
           \/ demuxer'.requests = <<>>
           \/ \A s \in Streams : HasRoom(stream'[s])
    PROVE  Flow'
<1>1. Shapes'
  BY DEF Flow, Shapes
<1>2. Started'
  BY DEF Flow, Started
<1>3. Rooms'
  <2> SUFFICES ASSUME ~isRtspStream, isPlaying, NEW s \in Streams
               PROVE  /\ Len(stream'[s].packetQueue) <= PacketQueueSize
                      /\ demuxer'.requests # <<>> => HasRoom(stream'[s])
    BY DEF Rooms
  <2>1. Len(stream[s].packetQueue) <= PacketQueueSize
    BY DEF Flow, Rooms
  <2>2. demuxer.requests # <<>> => HasRoom(stream[s])
    BY DEF Flow, Rooms
  <2>3. Len(stream'[s].packetQueue) <= PacketQueueSize
    BY <2>1, LighterIsLight DEF Flow, Shapes
  <2> QED
    BY <2>2, <2>3 DEF Lighter
<1>4. Accounts'
  BY DEF Flow, Accounts
<1> QED
  BY <1>1, <1>2, <1>3, <1>4 DEF Flow

(* The actions keep Flow, each by the methods it calls.                    *)
LEMMA FlowInit == Init => Flow
<1> SUFFICES ASSUME Init PROVE Flow
  OBVIOUS
<1> DEFINE none == <<>>
           new == NewStream
<1>1. none \in Seq(Nat) /\ Len(none) = 0 /\ none = <<>>
  OBVIOUS
<1>2. new \in StreamController
  BY DEF NewStream, StreamController
<1>3. /\ new.packetQueue = none /\ new.frameQueue = none /\ new.retDatalist = none
      /\ new.codec = none /\ new.datalist = none /\ new.inRender = none /\ new.shown = none
      /\ ~new.decoding
  BY DEF NewStream
<1>4. /\ stream = [s \in Streams |-> new] /\ sent = [s \in Streams |-> 0]
      /\ gone = [s \in Streams |-> {}] /\ isStop = FALSE /\ failed = FALSE
      /\ rtsp = [opening |-> 0, mediaHandler |-> FALSE]
  BY Zenon DEF Init
<1>9. isStop \in BOOLEAN /\ failed \in BOOLEAN
  BY <1>4, Zenon
<1>10. isPlaying = FALSE
  BY Zenon DEF Init
<1> HIDE DEF new, none
<1>5. WellFormed(new) /\ Unstarted(new)
  BY <1>1, <1>2, <1>3, WebPlayerAssumption DEF WellFormed, Unstarted
<1>6. Accounted(Path(new), {}, 0)
  <2>1. Path(new) = (((((none \o none) \o none) \o none) \o none) \o none) \o none
    BY <1>1, <1>2, <1>3, PathIs, FramesOf DEF PathOf
  <2>2. none \o none = none
    BY <1>1, ConcatEmptySeq
  <2>3. Path(new) = <<>>
    BY <1>1, <2>1, <2>2
  <2>4. 1..0 = {} /\ DOMAIN <<>> = {}
    OBVIOUS
  <2> QED
    BY <2>3, <2>4, Short DEF Accounted, Ascending
<1>7. Shapes /\ Started /\ Accounts
  <2>1. Shapes
    BY <1>2, <1>4, <1>5, <1>9, WebPlayerAssumption DEF Shapes
  <2>2. Started
    BY <1>4, <1>5 DEF Started
  <2>3. Accounts
    BY <1>4, <1>6 DEF Accounts
  <2> QED
    BY <2>1, <2>2, <2>3
<1>8. Rooms
  BY <1>10 DEF Rooms
<1> QED
  BY <1>7, <1>8 DEF Flow

LEMMA FlowPlay ==
    ASSUME MaxPlays <= 1, Turns, Flow, NEW source \in Sources, Play(source)
    PROVE  Flow'
<1> DEFINE reset(s) == [stream[s] EXCEPT !.rendering = FALSE, !.isPause = FALSE]
<1>1. plays = 0
  <2>1. plays < MaxPlays /\ MaxPlays \in Nat /\ plays \in Nat
    BY WebPlayerAssumption DEF Play, Turns
  <2> QED
    BY <2>1
<1>2. ~isPlaying /\ rtsp.opening = 0 /\ ~rtsp.mediaHandler
  BY <1>1 DEF Turns
<1>3. \A s \in Streams : /\ WellFormed(reset(s)) /\ Path(reset(s)) = Path(stream[s])
                         /\ Unstarted(reset(s)) /\ reset(s) \in StreamController
  <2> SUFFICES ASSUME NEW s \in Streams
               PROVE  /\ WellFormed(reset(s)) /\ Path(reset(s)) = Path(stream[s])
                      /\ Unstarted(reset(s)) /\ reset(s) \in StreamController
    OBVIOUS
  <2>1. WellFormed(stream[s]) /\ Unstarted(stream[s]) /\ stream[s].inRender = <<>>
    BY <1>2 DEF Flow, Shapes, Started, Turns, Waiting, Fresh
  <2>2. WellFormed(reset(s)) /\ Path(reset(s)) = Path(stream[s]) /\ Unstarted(reset(s))
    BY <2>1, ResetFlows
  <2> HIDE DEF reset
  <2> QED
    BY <2>2 DEF WellFormed
<1>4. stream' = [s \in Streams |-> reset(s)]
  BY <1>1 DEF Play
<1> HIDE DEF reset
<1>5. UNCHANGED <<sent, gone, failed>> /\ isStop' = FALSE /\ isPlaying' = FALSE
  BY Zenon DEF Play
<1>6. rtsp'.opening \in {0, 1} /\ ~rtsp'.mediaHandler
  <2>1. rtsp' = rtsp \/ rtsp' = [rtsp EXCEPT !.opening = @ + 1]
    BY DEF Play
  <2> QED
    BY <1>2, <2>1 DEF Turns, IsSession
<1>7. plays' = 1
  <2>1. plays' = plays + 1
    BY DEF Play
  <2> QED
    BY <1>1, <2>1
<1>8. Shapes'
  BY <1>3, <1>4, <1>5 DEF Flow, Shapes
<1>9. Started'
  BY <1>3, <1>4, <1>5, <1>6, <1>7 DEF Started
<1>10. Rooms'
  BY <1>5 DEF Rooms
<1>11. Accounts'
  <2>1. \A s \in Streams : gone[s] = {}
    BY <1>1 DEF Flow, Accounts, Started
  <2> QED
    BY <1>3, <1>4, <1>5, <2>1 DEF Flow, Accounts
<1> QED
  BY <1>8, <1>9, <1>10, <1>11 DEF Flow

LEMMA FlowUser ==
    ASSUME Turns, Flow, Stop \/ Pause \/ Resume
    PROVE  Flow'
<1>1. UNCHANGED <<plays, isPlaying, isRtspStream, rtsp, failed, sent>> /\ demuxer' = demuxer
  BY DEF Stop, Pause, Resume, Command
<1>2. CASE Stop
  <2> DEFINE stopped(s) == [stream[s] EXCEPT !.packetQueue = <<>>, !.frameQueue = <<>>]
             cleared(s) == ToSet(stream[s].packetQueue) \cup ToSet(stream[s].frameQueue)
  <2>1. \A s \in Streams : /\ WellFormed(stopped(s)) /\ Lighter(stream[s], stopped(s))
                           /\ Loses(Path(stream[s]), Path(stopped(s)), cleared(s))
                           /\ Unstarted(stream[s]) => Unstarted(stopped(s))
    BY StopFlows DEF Flow, Shapes
  <2>2. \A s \in Streams : /\ stopped(s) \in StreamController
                           /\ cleared(s) \subseteq Nat
    <3>1. \A s \in Streams : cleared(s) \subseteq Nat
      BY PathIs, ElementsAreNat DEF Flow, Shapes
    <3> HIDE DEF stopped
    <3> QED
      BY <2>1, <3>1 DEF WellFormed
  <2>3. /\ stream' = [s \in Streams |-> stopped(s)] /\ isStop' = TRUE /\ plays > 0
        /\ gone' = [s \in Streams |-> gone[s] \cup cleared(s)]
    BY <1>2 DEF Stop, Command
  <2> HIDE DEF stopped, cleared
  <2>4. Shapes'
    <3>1. isStop' \in BOOLEAN
      BY <2>3, Zenon
    <3> QED
      BY <1>1, <2>1, <2>2, <2>3, <3>1 DEF Flow, Shapes
  <2>5. Started'
    BY <1>1, <2>1, <2>3 DEF Flow, Started
  <2>6. Rooms'
    <3> SUFFICES ASSUME ~isRtspStream, isPlaying, NEW s \in Streams
                 PROVE  /\ Len(stopped(s).packetQueue) <= PacketQueueSize
                        /\ demuxer.requests # <<>> => HasRoom(stopped(s))
      BY <1>1, <2>3 DEF Rooms
    <3>1. /\ Len(stream[s].packetQueue) <= PacketQueueSize
          /\ demuxer.requests # <<>> => HasRoom(stream[s])
      BY DEF Flow, Rooms
    <3>2. Len(stopped(s).packetQueue) <= PacketQueueSize
      BY <2>1, <3>1, LighterIsLight DEF Flow, Shapes
    <3> QED
      BY <2>1, <3>1, <3>2 DEF Lighter
  <2>7. Accounts'
    <3> SUFFICES ASSUME NEW s \in Streams
                 PROVE  Accounted(Path(stopped(s)), gone[s] \cup cleared(s), sent[s])
      BY <1>1, <2>3 DEF Accounts
    <3> QED
      BY <2>1, AccountLoses DEF Flow, Accounts
  <2> QED
    BY <2>4, <2>5, <2>6, <2>7 DEF Flow
<1>3. CASE Pause
  <2> DEFINE on(s) == [stream[s] EXCEPT !.isPause = TRUE]
  <2>1. \A s \in Streams : /\ WellFormed(on(s)) /\ Path(on(s)) = Path(stream[s])
                           /\ Lighter(stream[s], on(s)) /\ (Unstarted(stream[s]) => Unstarted(on(s)))
    BY PauseFlows DEF Flow, Shapes
  <2>2. stream' = [s \in Streams |-> on(s)] /\ isStop' = isStop /\ gone' = gone
    BY <1>3 DEF Pause
  <2> HIDE DEF on
  <2>3. stream' \in [Streams -> StreamController]
    BY <2>1, <2>2 DEF WellFormed
  <2> QED
    BY <1>1, <2>1, <2>2, <2>3, QuietFlows
<1>4. CASE Resume
  <2> DEFINE on(s) == [stream[s] EXCEPT !.isPause = FALSE]
  <2>1. \A s \in Streams : /\ WellFormed(on(s)) /\ Path(on(s)) = Path(stream[s])
                           /\ Lighter(stream[s], on(s)) /\ (Unstarted(stream[s]) => Unstarted(on(s)))
    BY PauseFlows DEF Flow, Shapes
  <2>2. stream' = [s \in Streams |-> ConvertFrame(on(s))] /\ isStop' = isStop /\ gone' = gone
    BY <1>4 DEF Resume
  <2> HIDE DEF on
  <2>3. \A s \in Streams :
          LET q == ConvertFrame(on(s))
          IN  /\ WellFormed(q) /\ Path(q) = Path(on(s)) /\ Lighter(on(s), q)
              /\ Unstarted(on(s)) => Unstarted(q)
    BY <2>1, ConvertFrameFlows
  <2>4. \A s \in Streams : Lighter(stream[s], ConvertFrame(on(s)))
    <3>1. \A s \in Streams : /\ Len(stream[s].packetQueue) \in Nat /\ Len(on(s).packetQueue) \in Nat
                             /\ Len(ConvertFrame(on(s)).packetQueue) \in Nat
      BY <2>1, <2>3, PathIs DEF Flow, Shapes, WellFormed
    <3> QED
      BY <2>1, <2>3, <3>1 DEF Lighter
  <2>5. stream' \in [Streams -> StreamController]
    BY <2>2, <2>3 DEF WellFormed
  <2> QED
    BY <1>1, <2>1, <2>2, <2>3, <2>4, <2>5, QuietFlows
<1> QED
  BY <1>2, <1>3, <1>4

(* The streams are set up, once.                                           *)
LEMMA FlowStart ==
    ASSUME Turns, Flow, InitFinished \/ SetStream
    PROVE  Flow'
<1>1. ~isPlaying /\ plays > 0
  <2>1. CASE InitFinished
    BY <2>1 DEF InitFinished, Answered, Turns, Outstanding
  <2>2. CASE SetStream
    BY <2>2 DEF SetStream, Turns, Flow, Started
  <2> QED
    BY <2>1, <2>2
<1>2. \A s \in Streams :
        LET r == stream[s]
        IN  /\ WellFormed(InitDecoder(r)) /\ Path(InitDecoder(r)) = Path(r)
            /\ InitDecoder(r).packetQueue = <<>> /\ HasRoom(InitDecoder(r))
            /\ HeldByDecoder(r) = {}
  BY <1>1, InitDecoderFlows DEF Flow, Shapes, Started, Turns, Waiting, Fresh
<1>3. /\ stream' = [s \in Streams |-> InitDecoder(stream[s])]
      /\ gone' = [s \in Streams |-> gone[s] \cup HeldByDecoder(stream[s])]
      /\ UNCHANGED <<isStop, isRtspStream, plays, sent, failed>>
  BY DEF InitFinished, SetStream, StartPlay, Answered
<1>4. /\ rtsp'.opening > 0 => ~isPlaying' /\ rtsp'.opening = 1
      /\ rtsp'.mediaHandler => isRtspStream'
  <2>1. CASE InitFinished
    <3>1. rtsp' = rtsp /\ ~isRtspStream
      BY <1>1, <2>1 DEF InitFinished, Answered, Turns, Outstanding
    <3> QED
      BY <1>3, <3>1 DEF Flow, Started, Turns
  <2>2. CASE SetStream
    <3>1. rtsp' = [opening |-> rtsp.opening - 1, mediaHandler |-> TRUE] /\ rtsp.opening > 0
      BY <2>2 DEF SetStream
    <3>2. rtsp.opening = 1 /\ isRtspStream
      BY <3>1 DEF Flow, Started, Turns
    <3>3. rtsp'.opening = 0
      BY <3>1, <3>2
    <3> QED
      BY <1>3, <3>2, <3>3
  <2> QED
    BY <2>1, <2>2
<1>5. Shapes'
  <2>1. \A s \in Streams : InitDecoder(stream[s]) \in StreamController
    BY <1>2 DEF WellFormed
  <2> QED
    BY <1>2, <1>3, <2>1 DEF Flow, Shapes
<1>6. Started'
  <2>1. isPlaying'
    <3>1. CASE InitFinished
      <4>1. StartPlay([Asked EXCEPT !.initFinished = TRUE])
        BY <3>1 DEF InitFinished
      <4>2. [Asked EXCEPT !.initFinished = TRUE].initFinished
        BY Zenon DEF Asked, Turns, IsDemuxer
      <4> QED
        BY <4>1, <4>2, Zenon DEF StartPlay
    <3>2. CASE SetStream
      <4>1. isRtspStream
        BY <3>2 DEF SetStream, Turns
      <4> QED
        BY <3>2, <4>1, Zenon DEF SetStream, StartPlay
    <3> QED
      BY <3>1, <3>2
  <2> QED
    BY <1>1, <1>3, <1>4, <2>1 DEF Started
<1>7. Rooms'
  <2>1. Len(<<>>) = 0
    OBVIOUS
  <2> QED
    BY <1>2, <1>3, <2>1, WebPlayerAssumption DEF Rooms
<1>8. Accounts'
  BY <1>2, <1>3 DEF Flow, Accounts
<1> QED
  BY <1>5, <1>6, <1>7, <1>8 DEF Flow

(* What asking for a packet, or not, leaves of the requests.               *)
LEMMA DemuxPakcetAsks ==
    ASSUME NEW d, NEW streams
    PROVE  \/ DemuxPakcet(d, streams) = d
           \/ \A s \in Streams : ~IsFull(streams[s])
BY DEF DemuxPakcet

LEMMA NotFullHasRoom ==
    ASSUME NEW r, WellFormed(r), ~IsFull(r)
    PROVE  HasRoom(r)
<1>1. Len(r.packetQueue) \in Nat
  BY PathIs DEF WellFormed
<1> QED
  BY <1>1, WebPlayerAssumption DEF IsFull, HasRoom

(* A packet arrives.                                                       *)
LEMMA FlowPacket ==
    ASSUME Turns, Flow, NEW s \in Streams, DemuxFinished(s) \/ (s = VideoStream /\ SetPacket)
    PROVE  Flow'
<1>1. /\ TakePacket(s)
      /\ UNCHANGED <<isStop, isPlaying, isRtspStream, rtsp, plays, failed>>
  BY DEF DemuxFinished, SetPacket, Answered
<1>2. isPlaying /\ plays > 0
  <2>1. CASE DemuxFinished(s)
    BY <2>1 DEF DemuxFinished, Answered, Turns, Outstanding
  <2>2. CASE SetPacket
    BY <2>2 DEF SetPacket, Turns
  <2> QED
    BY <2>1, <2>2
<1> DEFINE n == sent[s] + 1
           taken == IF isStop THEN stream[s] ELSE PushPacket(stream[s], n)
<1>3. sent[s] \in Nat /\ n \in Nat /\ sent' = [sent EXCEPT ![s] = n] /\ n \in 0..MaxPackets
  <2>1. sent[s] \in 0..MaxPackets /\ sent[s] < MaxPackets
    BY <1>1 DEF TakePacket, Flow, Shapes
  <2> QED
    BY <1>1, <2>1, WebPlayerAssumption DEF TakePacket
<1>4. sent'[s] = n
  BY <1>3 DEF Flow, Shapes
<1>5. /\ stream' = [stream EXCEPT ![s] = taken]
      /\ gone' = [gone EXCEPT ![s] = IF isStop THEN gone[s] \cup {n} ELSE gone[s]]
  <2>1. /\ stream' = [stream EXCEPT ![s] = IF isStop THEN @ ELSE PushPacket(@, sent'[s])]
        /\ gone' = [gone EXCEPT ![s] = IF isStop THEN @ \cup {sent'[s]} ELSE @]
    BY <1>1 DEF TakePacket
  <2> HIDE DEF n
  <2>2. CASE isStop
    BY <1>4, <2>1, <2>2
  <2>3. CASE ~isStop
    BY <1>4, <2>1, <2>3
  <2> QED
    BY <2>2, <2>3
<1> HIDE DEF n
<1>6. WellFormed(taken)
  BY <1>3, PushPacketFlows DEF Flow, Shapes
<1>7. /\ stream' \in [Streams -> StreamController]
      /\ \A t \in Streams : WellFormed(stream'[t])
      /\ stream'[s] = taken
      /\ \A t \in Streams : t # s => stream'[t] = stream[t]
  BY <1>5, <1>6, ShapesOf DEF Flow
<1>8. Shapes'
  BY <1>1, <1>3, <1>5, <1>7 DEF Flow, Shapes
<1>9. Started'
  BY <1>1, <1>2 DEF Flow, Started
<1>10. Rooms'
  <2> SUFFICES ASSUME ~isRtspStream
               PROVE  \A t \in Streams : /\ Len(stream'[t].packetQueue) <= PacketQueueSize
                                         /\ demuxer'.requests # <<>> => HasRoom(stream'[t])
    BY <1>1 DEF Rooms
  <2>1. DemuxFinished(s)
    BY DEF SetPacket, Flow, Started
  <2>2. demuxer.requests = <<"demuxpacket">>
    BY <1>2, <2>1 DEF DemuxFinished, Answered, Turns, Outstanding
  <2>3. \A t \in Streams : HasRoom(stream[t]) /\ Len(stream[t].packetQueue) <= PacketQueueSize
    BY <1>2, <2>2 DEF Flow, Rooms
  <2>4. Len(taken.packetQueue) <= PacketQueueSize
    BY <1>3, <2>3, PushPacketFlows DEF Flow, Shapes
  <2>5. PacketAnswered.requests = <<>>
    BY <2>2 DEF PacketAnswered, Asked, Turns, IsDemuxer
  <2>6. \/ demuxer' = PacketAnswered
        \/ \A t \in Streams : ~IsFull(stream'[t])
    BY <2>1, DemuxPakcetAsks DEF DemuxFinished
  <2>7. demuxer'.requests = <<>> \/ \A t \in Streams : HasRoom(stream'[t])
    BY <1>7, <2>5, <2>6, NotFullHasRoom
  <2>8. \A t \in Streams : Len(stream'[t].packetQueue) <= PacketQueueSize
    BY <1>7, <2>3, <2>4
  <2> QED
    BY <2>7, <2>8
<1>11. Accounts'
  <2> SUFFICES ASSUME NEW t \in Streams
               PROVE  Accounted(Path(stream'[t]), gone'[t], sent'[t]) /\ (isStop \/ gone'[t] = {})
    BY <1>1 DEF Accounts
  <2>0. Accounted(Path(stream[t]), gone[t], sent[t]) /\ (isStop \/ gone[t] = {})
    BY DEF Flow, Accounts
  <2>1. CASE t # s
    <3>1. stream'[t] = stream[t] /\ gone'[t] = gone[t] /\ sent'[t] = sent[t]
      BY <1>3, <1>5, <1>7, <2>1 DEF Flow, Shapes
    <3> QED
      BY <2>0, <3>1
  <2>2. CASE t = s /\ isStop
    <3>1. stream'[s] = stream[s] /\ gone'[s] = gone[s] \cup {n} /\ sent'[s] = n
      BY <1>4, <1>5, <1>7, <2>2 DEF Flow, Shapes
    <3>2. Accounted(Path(stream[s]), gone[s] \cup {n}, n)
      BY <1>3, <2>0, <2>2, AccountDrops DEF n
    <3> QED
      BY <2>2, <3>1, <3>2
  <2>3. CASE t = s /\ ~isStop
    <3>1. stream'[s] = PushPacket(stream[s], n) /\ gone'[s] = gone[s] /\ sent'[s] = n
      BY <1>4, <1>5, <1>7, <2>3 DEF Flow, Shapes
    <3>2. Path(PushPacket(stream[s], n)) = Path(stream[s]) \o <<n>>
      BY <1>3, PushPacketFlows DEF Flow, Shapes
    <3>3. Path(stream[s]) \in Seq(Nat)
      BY PathIs DEF Flow, Shapes
    <3>4. Accounted(Path(stream[s]) \o <<n>>, gone[s], n)
      BY <1>3, <2>0, <2>3, <3>3, AccountGrows DEF n
    <3> QED
      BY <2>0, <2>3, <3>1, <3>2, <3>4
  <2> QED
    BY <2>1, <2>2, <2>3
<1> QED
  BY <1>8, <1>9, <1>10, <1>11 DEF Flow

LEMMA FlowAsks ==
    ASSUME Turns, Flow, DemuxEof \/ DemuxError \/ SeekFinished \/ Seek \/ UNCHANGED vars
    PROVE  Flow'
<1>1. /\ UNCHANGED <<isStop, isPlaying, isRtspStream, rtsp, sent, gone, stream>>
      /\ plays' = plays
  BY DEF DemuxEof, DemuxError, SeekFinished, Seek, Answered, Command, vars
<1>2. failed' \in BOOLEAN
  <2>1. failed' = failed \/ failed' = TRUE
    BY DEF DemuxEof, DemuxError, SeekFinished, Seek, Answered, Command, vars
  <2>2. failed \in BOOLEAN
    BY DEF Flow, Shapes
  <2> QED
    BY <2>1, <2>2, Zenon
<1>3. demuxer'.requests = demuxer.requests \/ demuxer'.requests = <<>>
  <2>1. CASE DemuxEof \/ DemuxError
    <3>1. demuxer.requests = <<"demuxpacket">>
      BY <2>1 DEF DemuxEof, DemuxError, Answered, Turns, Outstanding
    <3>2. PacketAnswered.requests = <<>> /\ IsDemuxer(PacketAnswered)
      BY <3>1 DEF PacketAnswered, Asked, Turns, IsDemuxer
    <3>3. \/ demuxer' = [PacketAnswered EXCEPT !.demuxFinished = TRUE]
          \/ demuxer' = PacketAnswered
      BY <2>1 DEF DemuxEof, DemuxError
    <3> QED
      BY <3>2, <3>3 DEF IsDemuxer
  <2>2. CASE SeekFinished
    <3>1. demuxer' = [demuxer EXCEPT !.seekInfo = 0, !.posted = <<0>> \o Tail(@)]
      BY <2>2 DEF SeekFinished
    <3> QED
      BY <3>1 DEF Turns, IsDemuxer
  <2>3. CASE Seek
    <3>1. demuxer' = [demuxer EXCEPT !.seekInfo = seeks.given + 1]
      BY <2>3 DEF Seek
    <3> QED
      BY <3>1 DEF Turns, IsDemuxer
  <2>4. CASE UNCHANGED vars
    BY <2>4 DEF vars
  <2> QED
    BY <2>1, <2>2, <2>3, <2>4
<1>4. Shapes'
  BY <1>1, <1>2 DEF Flow, Shapes
<1>5. Started' /\ Accounts'
  <2>1. Started'
    BY <1>1 DEF Flow, Started
  <2>2. Accounts'
    BY <1>1 DEF Flow, Accounts
  <2> QED
    BY <2>1, <2>2
<1>6. Rooms'
  BY <1>1, <1>3 DEF Flow, Rooms
<1> QED
  BY <1>4, <1>5, <1>6 DEF Flow

(* The decoder and the renderer of a stream.                               *)
LEMMA NoZero == Flow => \A s \in Streams : 0 \notin ToSet(Path(stream[s]))
<1> SUFFICES ASSUME Flow, NEW s \in Streams PROVE 0 \notin ToSet(Path(stream[s]))
  OBVIOUS
<1>1. 0 \notin 1..sent[s]
  OBVIOUS
<1> QED
  BY <1>1 DEF Flow, Accounts, Accounted

LEMMA FlowDecode ==
    ASSUME Turns, Flow, NEW s \in Streams, Decode(s)
    PROVE  Flow'
<1>1. isPlaying
  BY NothingMoves DEF Turns
<1>2. stream' = [stream EXCEPT ![s] = Decoded(stream[s])]
  BY DEF Decode, Decoded
<1>3. UNCHANGED <<isStop, isPlaying, isRtspStream, rtsp, demuxer, sent, plays, failed, gone>>
  BY DEF Decode
<1>4. stream[s].datalist # <<>>
  BY DEF Decode
<1> DEFINE q == Decoded(stream[s])
<1>5. WellFormed(q) /\ Path(q) = Path(stream[s]) /\ Lighter(stream[s], q)
  BY <1>4, NoZero, DecodedFlows DEF Flow, Shapes
<1> HIDE DEF q
<1>6. /\ stream' \in [Streams -> StreamController]
      /\ \A t \in Streams : WellFormed(stream'[t])
      /\ stream'[s] = q
      /\ \A t \in Streams : t # s => stream'[t] = stream[t]
  BY <1>2, <1>5, ShapesOf DEF Flow, q
<1>7. \A t \in Streams : Path(stream'[t]) = Path(stream[t]) /\ Lighter(stream[t], stream'[t])
  <2> SUFFICES ASSUME NEW t \in Streams, t # s PROVE Lighter(stream[t], stream[t])
    BY <1>5, <1>6
  <2>1. Len(stream[t].packetQueue) \in Nat
    BY PathIs DEF Flow, Shapes
  <2> QED
    BY <2>1 DEF Lighter
<1> QED
  BY <1>1, <1>3, <1>6, <1>7, QuietFlows

LEMMA FlowCheckData ==
    ASSUME Turns, Flow, NEW s \in Streams, CheckData(s)
    PROVE  Flow'
<1>1. isPlaying
  BY NothingMoves DEF Turns
<1> DEFINE r == stream[s]
           frame == Head(r.retDatalist)
           idle == Answer(r)
           done == FrameDecoded(idle, frame)
<1>2. /\ stream' = [stream EXCEPT ![s] = IF isStop THEN idle ELSE done]
      /\ gone' = [gone EXCEPT ![s] = IF isStop THEN @ \cup ({frame} \ {0}) ELSE @]
  BY DEF CheckData, Answer
<1>3. UNCHANGED <<isStop, isPlaying, isRtspStream, rtsp, demuxer, sent, plays, failed>>
  BY DEF CheckData
<1>4. r.retDatalist # <<>> /\ WellFormed(r)
  BY DEF CheckData, Flow, Shapes
<1>5. /\ frame \in Nat
      /\ WellFormed(idle) /\ idle.packetQueue = r.packetQueue
      /\ frame = 0 => Path(idle) = Path(r)
      /\ frame # 0 => Loses(Path(r), Path(idle), {frame})
      /\ WellFormed(done) /\ Path(done) = Path(r) /\ Lighter(r, done)
  BY <1>4, AnswerFlows
<1>0. \A t \in Streams : Lighter(stream[t], stream[t])
  <2> SUFFICES ASSUME NEW t \in Streams PROVE Lighter(stream[t], stream[t])
    OBVIOUS
  <2>1. Len(stream[t].packetQueue) \in Nat
    BY PathIs DEF Flow, Shapes
  <2> QED
    BY <2>1 DEF Lighter
<1> HIDE DEF idle, done, frame
<1>6. CASE ~isStop
  <2>1. stream' = [stream EXCEPT ![s] = done] /\ gone' = gone
    BY <1>2, <1>6 DEF Flow, Shapes
  <2>2. /\ stream' \in [Streams -> StreamController]
        /\ \A t \in Streams : WellFormed(stream'[t])
        /\ stream'[s] = done
        /\ \A t \in Streams : t # s => stream'[t] = stream[t]
    BY <1>5, <2>1, ShapesOf DEF Flow
  <2>3. \A t \in Streams : Path(stream'[t]) = Path(stream[t]) /\ Lighter(stream[t], stream'[t])
    BY <1>0, <1>5, <2>2
  <2> QED
    BY <1>1, <1>3, <2>1, <2>2, <2>3, QuietFlows
<1>7. CASE isStop
  <2>1. /\ stream' = [stream EXCEPT ![s] = idle]
        /\ gone' = [gone EXCEPT ![s] = gone[s] \cup ({frame} \ {0})]
    BY <1>2, <1>7
  <2>2. /\ stream' \in [Streams -> StreamController]
        /\ \A t \in Streams : WellFormed(stream'[t])
        /\ stream'[s] = idle
        /\ \A t \in Streams : t # s => stream'[t] = stream[t]
    BY <1>5, <2>1, ShapesOf DEF Flow
  <2>3. Shapes'
    BY <1>3, <1>5, <2>1, <2>2 DEF Flow, Shapes
  <2>4. Started'
    BY <1>1, <1>3 DEF Flow, Started
  <2>5. Rooms'
    <3>1. \A t \in Streams : stream'[t].packetQueue = stream[t].packetQueue
      BY <1>5, <2>2
    <3>2. isPlaying /\ demuxer.requests # <<>> /\ ~isRtspStream => HasRoom(idle)
      <4>1. r.decoding
        BY <1>4 DEF WellFormed
      <4> QED
        BY <1>5, <4>1 DEF Flow, Rooms, HasRoom
    <3> QED
      BY <1>3, <2>2, <3>1, <3>2 DEF Flow, Rooms
  <2>6. Accounts'
    <3> SUFFICES ASSUME NEW t \in Streams
                 PROVE  Accounted(Path(stream'[t]), gone'[t], sent[t])
      BY <1>3, <1>7 DEF Accounts
    <3>0. Accounted(Path(stream[t]), gone[t], sent[t])
      BY DEF Flow, Accounts
    <3>1. CASE t # s
      BY <2>1, <2>2, <3>0, <3>1 DEF Flow, Shapes
    <3>2. CASE t = s /\ frame = 0
      <4>1. gone'[s] = gone[s]
        BY <2>1, <3>2 DEF Flow, Shapes
      <4> QED
        BY <1>5, <2>2, <3>0, <3>2, <4>1
    <3>3. CASE t = s /\ frame # 0
      <4>1. gone'[s] = gone[s] \cup {frame}
        BY <2>1, <3>3 DEF Flow, Shapes
      <4> QED
        BY <1>5, <2>2, <3>0, <3>3, <4>1, AccountLoses
    <3> QED
      BY <3>1, <3>2, <3>3
  <2> QED
    BY <2>3, <2>4, <2>5, <2>6 DEF Flow
<1> QED
  BY <1>6, <1>7

LEMMA FlowRender ==
    ASSUME Turns, Flow, NEW s \in Streams, Render(s)
    PROVE  Flow'
<1>1. isPlaying
  BY NothingMoves DEF Turns
<1>2. PICK i \in DOMAIN stream[s].inRender : RenderFinished(s, i)
  BY DEF Render
<1> DEFINE q == FrameRendered(stream[s], i)
<1>3. stream' = [stream EXCEPT ![s] = q]
  BY <1>2 DEF RenderFinished
<1>4. UNCHANGED <<isStop, isPlaying, isRtspStream, rtsp, sent, plays, failed, gone>>
  BY <1>2 DEF RenderFinished
<1>5. WellFormed(q) /\ Path(q) = Path(stream[s]) /\ Lighter(stream[s], q)
  BY FrameRenderedFlows DEF Flow, Shapes
<1> HIDE DEF q
<1>6. /\ stream' \in [Streams -> StreamController]
      /\ \A t \in Streams : WellFormed(stream'[t])
      /\ stream'[s] = q
      /\ \A t \in Streams : t # s => stream'[t] = stream[t]
  BY <1>3, <1>5, ShapesOf DEF Flow
<1>7. \A t \in Streams : Path(stream'[t]) = Path(stream[t]) /\ Lighter(stream[t], stream'[t])
  <2> SUFFICES ASSUME NEW t \in Streams, t # s PROVE Lighter(stream[t], stream[t])
    BY <1>5, <1>6
  <2>1. Len(stream[t].packetQueue) \in Nat
    BY PathIs DEF Flow, Shapes
  <2> QED
    BY <2>1 DEF Lighter
<1>8. demuxer' = demuxer \/ \A t \in Streams : ~IsFull(stream'[t])
  BY <1>2, DemuxPakcetAsks DEF RenderFinished
<1>9. demuxer'.requests = demuxer.requests \/ \A t \in Streams : HasRoom(stream'[t])
  BY <1>6, <1>8, NotFullHasRoom
<1> QED
  BY <1>1, <1>4, <1>6, <1>7, <1>9, QuietFlows

LEMMA FlowNext ==
    ASSUME MaxPlays <= 1, Turns, Flow, [Next]_vars
    PROVE  Flow'
BY FlowPlay, FlowUser, FlowStart, FlowPacket, FlowAsks, FlowDecode, FlowCheckData, FlowRender,
   WebPlayerAssumption DEF Next, Demux

-----------------------------------------------------------------------------
(* The demuxer and the seeks.                                              *)
LEMMA DemuxPacketKeepsSeek ==
    ASSUME NEW d \in DemuxerRecord, NEW k, d.requests = <<>>, SeekKept(d, k)
    PROVE  DemuxPacket(d) \in DemuxerRecord /\ SeekKept(DemuxPacket(d), k)
<1> DEFINE request == <<"demuxpacket">>
           copy == <<d.seekInfo>>
           q == DemuxPacket(d)
<1>1. request \in Seq({"initdemuxer", "demuxpacket"}) /\ copy \in Seq(Nat) /\ Len(copy) = 1
      /\ copy # <<>> /\ Head(copy) = d.seekInfo
  BY DEF DemuxerRecord
<1>2. d.posted = <<>>
  <2>1. d.requests # <<"demuxpacket">>
    OBVIOUS
  <2> QED
    BY <2>1 DEF SeekKept
<1>3. q = [d EXCEPT !.isRunning = TRUE, !.requests = request, !.posted = copy]
  BY <1>2 DEF DemuxPacket, DemuxerRecord
<1> HIDE DEF q, request, copy
<1>4. q \in DemuxerRecord
  BY <1>1, <1>3 DEF DemuxerRecord
<1>5. q.requests = request /\ q.posted = copy /\ q.seekInfo = d.seekInfo
  BY <1>3 DEF DemuxerRecord
<1>6. request = <<"demuxpacket">>
  BY DEF request
<1>7. k.given \in Nat
  BY DEF SeekKept
<1>8. SeekKept(q, k)
  BY <1>1, <1>5, <1>6, <1>7 DEF SeekKept
<1> QED
  BY <1>4, <1>8 DEF q

(* Only the requests for packets, what they carry and seekInfo matter.     *)
LEMMA SameSeek ==
    ASSUME NEW d, NEW e, NEW k, SeekKept(d, k), e.seekInfo = d.seekInfo, e.posted = d.posted,
           (e.requests = <<"demuxpacket">>) <=> (d.requests = <<"demuxpacket">>)
    PROVE  SeekKept(e, k)
BY DEF SeekKept

(* The Worker has answered, a request is taken off.                        *)
LEMMA PacketAnsweredKeepsSeek ==
    ASSUME SeekHolds, demuxer.requests = <<"demuxpacket">>
    PROVE  /\ PacketAnswered \in DemuxerRecord /\ SeekKept(PacketAnswered, seeks)
           /\ PacketAnswered.requests = <<>>
<1> DEFINE q == PacketAnswered
           none == <<>>
<1>1. Tail(demuxer.requests) = none /\ none \in Seq({"initdemuxer", "demuxpacket"}) /\ none \in Seq(Nat)
  OBVIOUS
<1>2. Tail(demuxer.posted) = none
  <2>1. demuxer.posted \in Seq(Nat) /\ Len(demuxer.posted) = 1
    BY DEF SeekHolds, SeekKept, DemuxerRecord
  <2>2. Len(demuxer.posted) <= 1
    BY <2>1
  <2>3. \A p \in Seq(Nat) : Len(p) <= 1 => Tail(p) = <<>>
    OBVIOUS
  <2> QED
    BY <2>1, <2>2, <2>3
<1>3. q = [demuxer EXCEPT !.requests = none, !.isRunning = FALSE, !.posted = none]
  BY <1>1, <1>2 DEF PacketAnswered, Asked, SeekHolds, DemuxerRecord
<1> HIDE DEF q, none
<1>4. q \in DemuxerRecord
  BY <1>1, <1>3 DEF SeekHolds, DemuxerRecord
<1>5. q.requests = none /\ q.posted = none /\ q.seekInfo = demuxer.seekInfo
  BY <1>3 DEF SeekHolds, DemuxerRecord
<1>6. none = <<>> /\ none # <<"demuxpacket">>
  BY DEF none
<1>7. SeekKept(q, seeks)
  BY <1>5, <1>6 DEF SeekHolds, SeekKept
<1> QED
  BY <1>4, <1>5, <1>6, <1>7 DEF q

LEMMA DemuxPakcetKeepsSeek ==
    ASSUME NEW d \in DemuxerRecord, NEW k, NEW streams, Outstanding(d), SeekKept(d, k)
    PROVE  DemuxPakcet(d, streams) \in DemuxerRecord /\ SeekKept(DemuxPakcet(d, streams), k)
BY DemuxPacketKeepsSeek DEF DemuxPakcet, Outstanding

(* The seeks are kept by all actions.                                      *)
LEMMA SeekInit == Init => SeekHolds
<1> SUFFICES ASSUME Init PROVE SeekHolds
  OBVIOUS
<1>1. <<>> \in Seq(Nat) /\ <<>> \in Seq({"initdemuxer", "demuxpacket"}) /\ DOMAIN <<>> = {}
  OBVIOUS
<1>5. ToSet(<<>>) = {}
  BY Short
<1>2. demuxer \in DemuxerRecord
  BY <1>1 DEF Init, DemuxerRecord
<1>3. seeks \in [given : Nat, done : Seq(Nat), overrun : BOOLEAN] /\ seeks.given = 0
  BY <1>1 DEF Init
<1>4. SeekKept(demuxer, seeks)
  BY <1>1, <1>5 DEF Init, SeekKept, Ascending
<1> QED
  BY <1>2, <1>3, <1>4 DEF SeekHolds

LEMMA SeekNext ==
    ASSUME MaxPlays <= 1, Turns, SeekHolds, [Next]_vars
    PROVE  SeekHolds'
<1> USE DEF SeekHolds
<1>1. ASSUME NEW source \in Sources, Play(source)
      PROVE  SeekHolds'
  <2>1. plays = 0 /\ plays' = 1
    <3>1. plays < MaxPlays /\ MaxPlays \in Nat /\ plays \in Nat /\ plays' = plays + 1
      BY <1>1, WebPlayerAssumption DEF Play, Turns
    <3> QED
      BY <3>1
  <2>2. demuxer.requests = <<>> /\ seeks.given = 0 /\ seeks' = seeks
    BY <1>1, <2>1 DEF Play, Turns
  <2>3. CASE source = "rtsp"
    BY <1>1, <2>1, <2>2, <2>3 DEF Play
  <2>4. CASE source # "rtsp"
    <3> DEFINE first == <<"initdemuxer">>
    <3>1. /\ first \in Seq({"initdemuxer", "demuxpacket"}) /\ first # <<"demuxpacket">>
          /\ Append(demuxer.requests, "initdemuxer") = first
      BY <2>2
    <3>2. demuxer' = [demuxer EXCEPT !.initFinished = FALSE, !.demuxFinished = FALSE,
                          !.isRunning = FALSE, !.seekInfo = 0, !.requests = first]
      <4>1. demuxer' = [demuxer EXCEPT !.initFinished = FALSE, !.demuxFinished = FALSE,
                            !.isRunning = FALSE, !.seekInfo = 0,
                            !.requests = Append(@, "initdemuxer")]
        BY <1>1, <2>4, Zenon DEF Play
      <4> QED
        BY <3>1, <4>1 DEF DemuxerRecord
    <3> HIDE DEF first
    <3>3. demuxer' \in DemuxerRecord
      BY <3>1, <3>2 DEF DemuxerRecord
    <3>4. demuxer'.requests = first /\ demuxer'.seekInfo = 0 /\ demuxer'.posted = demuxer.posted
      BY <3>2 DEF DemuxerRecord
    <3>5. demuxer.seekInfo = 0
      BY <2>2 DEF SeekKept
    <3>6. demuxer.requests # <<"demuxpacket">>
      BY <2>2
    <3>7. SeekKept(demuxer', seeks)
      BY <3>1, <3>4, <3>5, <3>6, SameSeek
    <3> QED
      BY <2>1, <2>2, <3>3, <3>7
  <2> QED
    BY <2>3, <2>4
<1>2. CASE Stop \/ Pause \/ Resume \/ SetPacket \/ \E s \in Streams : Decode(s) \/ CheckData(s)
  <2>1. UNCHANGED <<demuxer, seeks, plays>>
    BY <1>2 DEF Stop, Pause, Resume, SetPacket, Command, Decode, CheckData
  <2> QED
    BY <2>1
<1>3. CASE Seek
  <2> DEFINE n == seeks.given + 1
  <2>1. /\ demuxer' = [demuxer EXCEPT !.seekInfo = n]
        /\ plays > 0 /\ plays' = plays /\ n \in Nat /\ n # 0 /\ seeks.given \in Nat
        /\ \A x \in Nat : x <= seeks.given => x < n /\ x <= n
    BY <1>3 DEF Seek, Command
  <2>2. /\ seeks'.given = n /\ seeks'.done = seeks.done /\ seeks'.overrun \in BOOLEAN
        /\ seeks' \in [given : Nat, done : Seq(Nat), overrun : BOOLEAN]
    <3> DEFINE over == seeks.overrun \/ \E seek \in ToSet(demuxer.posted) : seek # 0
    <3>1. seeks' = [seeks EXCEPT !.given = n, !.overrun = over]
      BY <1>3 DEF Seek
    <3>2. over \in BOOLEAN
      BY Zenon
    <3> HIDE DEF n, over
    <3> QED
      BY <2>1, <3>1, <3>2
  <2>3. seeks'.overrun <=> (seeks.overrun \/ \E seek \in ToSet(demuxer.posted) : seek # 0)
    <3>1. seeks' = [seeks EXCEPT !.given = @ + 1,
                        !.overrun = @ \/ \E seek \in ToSet(demuxer.posted) : seek # 0]
      BY <1>3 DEF Seek
    <3> QED
      BY <3>1, Zenon
  <2>4. /\ demuxer' \in DemuxerRecord /\ demuxer'.seekInfo = n
        /\ demuxer'.requests = demuxer.requests /\ demuxer'.posted = demuxer.posted
    <3> HIDE DEF n
    <3> QED
      BY <2>1 DEF DemuxerRecord
  <2> HIDE DEF n
  <2>5. ToSet(seeks.done) \subseteq Nat
    BY ElementsAreNat
  <2>6. demuxer.posted # <<>> => Head(demuxer.posted) \in ToSet(demuxer.posted) /\ Head(demuxer.posted) \in Nat
    BY HeadAndTail DEF DemuxerRecord
  <2>7. SeekKept(demuxer', seeks')
    BY <2>1, <2>2, <2>3, <2>4, <2>5, <2>6 DEF SeekKept
  <2> QED
    BY <2>1, <2>2, <2>4, <2>7
<1>4. CASE SeekFinished
  <2> DEFINE x == Head(demuxer.posted)
             zero == <<0>>
             all == Append(seeks.done, x)
  <2>1. demuxer.requests = <<"demuxpacket">> /\ plays > 0 /\ plays' = plays
    BY <1>4 DEF SeekFinished, Answered, Turns, Outstanding
  <2>2. demuxer.posted \in Seq(Nat) /\ Len(demuxer.posted) = 1 /\ x # 0 /\ demuxer.posted # <<>>
    BY <1>4, <2>1 DEF SeekFinished, SeekKept, DemuxerRecord
  <2>3. x \in Nat /\ zero \in Seq(Nat) /\ Len(zero) = 1 /\ Head(zero) = 0
        /\ zero \o Tail(demuxer.posted) = zero
    <3>1. Len(demuxer.posted) <= 1
      BY <2>2
    <3>2. x \in Nat /\ Tail(demuxer.posted) = <<>>
      <4>1. \A p \in Seq(Nat) : Len(p) <= 1 => Tail(p) = <<>>
        OBVIOUS
      <4> QED
        BY <2>2, <3>1, <4>1, Single
    <3>3. zero \in Seq(Nat) /\ Len(zero) = 1 /\ Head(zero) = 0
      OBVIOUS
    <3>4. zero \o <<>> = zero
      BY <3>3, ConcatEmptySeq
    <3> HIDE DEF zero
    <3> QED
      BY <3>2, <3>3, <3>4
  <2>4. demuxer' = [demuxer EXCEPT !.seekInfo = 0, !.posted = zero]
    BY <1>4, <2>3 DEF SeekFinished, DemuxerRecord
  <2>5. seeks' = [seeks EXCEPT !.done = all]
    BY <1>4 DEF SeekFinished
  <2>6. all \in Seq(Nat) /\ all # <<>> /\ Last(all) = x
    <3>1. all \in Seq(Nat) /\ Len(all) = Len(seeks.done) + 1 /\ all[Len(seeks.done) + 1] = x
          /\ Len(seeks.done) \in Nat
      BY <2>3
    <3> HIDE DEF all
    <3> QED
      BY <3>1 DEF Last
  <2>7. ToSet(all) = ToSet(seeks.done) \cup {x}
    <3>1. all = seeks.done \o <<x>> /\ <<x>> \in Seq(Nat) /\ seeks.done \in Seq(Nat)
      BY <2>3, AppendIsConcatOfOne
    <3>2. ToSet(<<x>>) = {x}
      BY Short
    <3> QED
      BY <3>1, <3>2, ConcatElements
  <2>8. Ascending(all)
    <3> DEFINE one == <<x>>
    <3>1. all = seeks.done \o one /\ one \in Seq(Nat) /\ seeks.done \in Seq(Nat)
      BY <2>3, AppendIsConcatOfOne
    <3>2. ToSet(one) = {x}
      BY Short
    <3>3. Ascending(one)
      BY DEF Ascending
    <3>4. \A y \in ToSet(seeks.done) : y < x
      BY <2>2 DEF SeekKept
    <3>5. Ascending(seeks.done)
      BY DEF SeekKept
    <3> HIDE DEF x, all, one
    <3>6. Ascending(seeks.done \o one)
      BY <3>1, <3>2, <3>3, <3>4, <3>5, ConcatAscending
    <3> QED
      BY <3>1, <3>6
  <2>9. x <= seeks.given /\ (seeks.overrun \/ x = seeks.given)
    BY <2>2 DEF SeekKept
  <2> HIDE DEF x, all, zero
  <2>10. /\ demuxer' \in DemuxerRecord /\ demuxer'.seekInfo = 0 /\ demuxer'.posted = zero
         /\ demuxer'.requests = demuxer.requests
    BY <2>3, <2>4 DEF DemuxerRecord
  <2>11. /\ seeks' \in [given : Nat, done : Seq(Nat), overrun : BOOLEAN]
         /\ seeks'.given = seeks.given /\ seeks'.done = all /\ seeks'.overrun = seeks.overrun
    BY <2>5, <2>6
  <2>12. SeekKept(demuxer', seeks')
    BY <2>1, <2>3, <2>6, <2>7, <2>8, <2>9, <2>10, <2>11 DEF SeekKept
  <2> QED
    BY <2>1, <2>10, <2>11, <2>12
<1>5. CASE InitFinished
  <2> DEFINE d == [Asked EXCEPT !.initFinished = TRUE]
             none == <<>>
  <2>1. demuxer.requests = <<"initdemuxer">> /\ plays > 0 /\ plays' = plays /\ seeks' = seeks
    BY <1>5 DEF InitFinished, StartPlay, Answered, Turns, Outstanding
  <2>2. Tail(demuxer.requests) = none /\ none \in Seq({"initdemuxer", "demuxpacket"})
    BY <2>1
  <2>3. d = [demuxer EXCEPT !.requests = none, !.initFinished = TRUE]
    BY <2>2 DEF Asked, DemuxerRecord
  <2>4. demuxer' = d \/ demuxer' = DemuxPacket(d)
    BY <1>5 DEF InitFinished, StartPlay
  <2> HIDE DEF d, none
  <2>5. d \in DemuxerRecord
    BY <2>2, <2>3 DEF DemuxerRecord
  <2>6. d.requests = none /\ d.seekInfo = demuxer.seekInfo /\ d.posted = demuxer.posted
    BY <2>3 DEF DemuxerRecord
  <2>7. none = <<>> /\ none # <<"demuxpacket">>
    BY DEF none
  <2>8. demuxer.requests # <<"demuxpacket">>
    BY <2>1
  <2>9. SeekKept(d, seeks)
    BY <2>6, <2>7, <2>8, SameSeek
  <2> QED
    BY <2>1, <2>4, <2>5, <2>6, <2>7, <2>9, DemuxPacketKeepsSeek
<1>6. CASE SetStream
  <2>1. isRtspStream /\ plays' = plays
    BY <1>6 DEF SetStream, Turns
  <2>2. demuxer' = demuxer /\ seeks' = seeks
    BY <1>6, <2>1 DEF SetStream, StartPlay
  <2> QED
    BY <2>1, <2>2
<1>7. ASSUME NEW s \in Streams, DemuxFinished(s)
      PROVE  SeekHolds'
  <2>1. demuxer.requests = <<"demuxpacket">> /\ plays > 0 /\ plays' = plays /\ seeks' = seeks
    BY <1>7 DEF DemuxFinished, Answered, Turns, Outstanding
  <2>2. Outstanding(PacketAnswered)
    BY <2>1, PacketAnsweredKeepsSeek DEF Outstanding
  <2>3. demuxer' = PacketAnswered \/ demuxer' = DemuxPakcet(PacketAnswered, stream')
    BY <1>7 DEF DemuxFinished
  <2> QED
    BY <2>1, <2>2, <2>3, PacketAnsweredKeepsSeek, DemuxPakcetKeepsSeek
<1>8. CASE DemuxEof \/ DemuxError
  <2>1. demuxer.requests = <<"demuxpacket">> /\ plays > 0 /\ plays' = plays /\ seeks' = seeks
    BY <1>8 DEF DemuxEof, DemuxError, Answered, Turns, Outstanding
  <2>2. \/ demuxer' = [PacketAnswered EXCEPT !.demuxFinished = TRUE]
        \/ demuxer' = PacketAnswered
    BY <1>8 DEF DemuxEof, DemuxError
  <2>3. /\ PacketAnswered \in DemuxerRecord /\ SeekKept(PacketAnswered, seeks)
    BY <2>1, PacketAnsweredKeepsSeek
  <2>4. CASE demuxer' = [PacketAnswered EXCEPT !.demuxFinished = TRUE]
    <3>1. /\ demuxer' \in DemuxerRecord /\ demuxer'.seekInfo = PacketAnswered.seekInfo
          /\ demuxer'.posted = PacketAnswered.posted /\ demuxer'.requests = PacketAnswered.requests
      BY <2>3, <2>4 DEF DemuxerRecord
    <3> QED
      BY <2>1, <2>3, <3>1, SameSeek
  <2> QED
    BY <2>1, <2>2, <2>3, <2>4
<1>9. ASSUME NEW s \in Streams, Render(s)
      PROVE  SeekHolds'
  <2>1. PICK i : RenderFinished(s, i)
    BY <1>9 DEF Render
  <2>2. isPlaying
    BY <1>9, NothingMoves DEF Turns
  <2>3. plays > 0 /\ Outstanding(demuxer)
    BY <2>2 DEF Turns
  <2>4. plays' = plays /\ seeks' = seeks
    BY <2>1 DEF RenderFinished
  <2>5. demuxer' = IF isRtspStream THEN demuxer ELSE DemuxPakcet(demuxer, stream')
    BY <2>1 DEF RenderFinished
  <2> QED
    BY <2>3, <2>4, <2>5, DemuxPakcetKeepsSeek
<1>10. CASE UNCHANGED vars
  BY <1>10 DEF vars
<1> QED
  BY <1>1, <1>2, <1>3, <1>4, <1>5, <1>6, <1>7, <1>8, <1>9, <1>10 DEF Next, Demux

(* The three invariants together, which lean on one another.               *)
LEMMA OnePlayInvariant ==
    ASSUME MaxPlays <= 1
    PROVE  Spec => [](Turns /\ Flow /\ SeekHolds)
<1>1. MaxPlays \in Nat
  BY WebPlayerAssumption
<1>2. Init => Turns /\ Flow /\ SeekHolds
  BY TurnsInit, FlowInit, SeekInit
<1>3. (Turns /\ Flow /\ SeekHolds) /\ [Next]_vars => (Turns /\ Flow /\ SeekHolds)'
  BY <1>1, TurnsNext, FlowNext, SeekNext
<1> QED
  BY <1>2, <1>3, PTL DEF Spec

(* In one play every packet of a stream that was read is shown, on its way *)
(* to the screen, in order, or was thrown away after a stop().             *)
THEOREM OnTheWay ==
    ASSUME MaxPlays <= 1
    PROVE  Spec => []InOrderNothingLost
<1>1. Flow => InOrderNothingLost
  BY DEF Flow, Accounts, Accounted, Ascending, InOrderNothingLost
<1> QED
  BY <1>1, OnePlayInvariant, PTL

(* In one play a seek() is neither forgotten nor carried out twice, unless *)
(* another one is given while it is under way.                             *)
THEOREM SeekTrue ==
    ASSUME MaxPlays <= 1
    PROVE  Spec => []SeekIsCarriedOut
<1>1. SeekHolds => SeekIsCarriedOut
  BY DEF SeekHolds, SeekKept, Ascending, SeekIsCarriedOut
<1> QED
  BY <1>1, OnePlayInvariant, PTL

(* In one play the packet queue of a file is never fuller than its size,   *)
(* although the demuxer is asked by whoever is ready first, and a decoder  *)
(* and a renderer have one frame at a time.                                *)
THEOREM TypeCorrect ==
    ASSUME MaxPlays <= 1
    PROVE  Spec => []TypeOK
<1>1. ASSUME Turns, Flow, SeekHolds
      PROVE  TypeOK
  <2>1. ToSet(demuxer.requests) \subseteq {"initdemuxer", "demuxpacket"}
    BY <1>1 DEF SeekHolds, DemuxerRecord, ToSet
  <2>2. ASSUME NEW s \in Streams
        PROVE  /\ DOMAIN stream[s] = DOMAIN NewStream
               /\ isRtspStream \/ Len(stream[s].packetQueue) <= PacketQueueSize
               /\ Len(stream[s].frameQueue) <= 1
               /\ Len(stream[s].codec) <= CodecDelay
               /\ Len(stream[s].datalist \o stream[s].retDatalist) <= 1
    <3>1. WellFormed(stream[s]) /\ stream[s] \in StreamController
      BY <1>1 DEF Flow, Shapes
    <3>2. DOMAIN stream[s] = DOMAIN NewStream
      BY <3>1 DEF StreamController, NewStream
    <3>3. isRtspStream \/ Len(stream[s].packetQueue) <= PacketQueueSize
      <4>1. CASE isPlaying
        BY <1>1, <4>1 DEF Flow, Rooms
      <4>2. CASE ~isPlaying
        <5>1. stream[s].packetQueue = <<>>
          BY <1>1, <4>2 DEF Flow, Started, Unstarted
        <5>2. Len(stream[s].packetQueue) = 0
          BY <5>1
        <5> QED
          BY <5>2, WebPlayerAssumption
      <4> QED
        BY <4>1, <4>2
    <3>4. Len(stream[s].datalist \o stream[s].retDatalist) <= 1
      <4>1. stream[s].datalist \in Seq(Nat) /\ stream[s].retDatalist \in Seq(Nat)
        BY <3>1 DEF StreamController
      <4>2. \/ stream[s].datalist \o stream[s].retDatalist = stream[s].datalist
            \/ stream[s].datalist \o stream[s].retDatalist = stream[s].retDatalist
        BY <3>1, <4>1, ConcatEmptySeq DEF WellFormed
      <4> QED
        BY <3>1, <4>2 DEF WellFormed
    <3> QED
      BY <3>1, <3>2, <3>3, <3>4 DEF WellFormed
  <2>3. /\ isStop \in BOOLEAN /\ failed \in BOOLEAN /\ isPlaying \in BOOLEAN
        /\ sent \in [Streams -> 0..MaxPackets]
    BY <1>1 DEF Flow, Shapes, Turns
  <2>4. demuxer.demuxFinished \in BOOLEAN /\ demuxer.isRunning \in BOOLEAN
    BY <1>1 DEF SeekHolds, DemuxerRecord
  <2> QED
    BY <2>1, <2>2, <2>3, <2>4, Zenon DEF TypeOK
<1> QED
  BY <1>1, OnePlayInvariant, PTL
=============================================================================
