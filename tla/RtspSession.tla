----------------------------- MODULE RtspSession -----------------------------
(***************************************************************************)
(* The RTSP client of the browser (rtspclient/rtspclient.js with           *)
(* rtsprequest.js, rtspparser.js and RtspHandler in PlayerController.js):  *)
(* one RtspClientSession, a WebSocket and a chain of awaits (sendRequest)  *)
(* for every play().  All of them share one queue of answers, one object   *)
(* that every answer is parsed into, and one timeout flag.                 *)
(*                                                                         *)
(* A play has the number of its call; the current webSocket is the last    *)
(* one.  A message arrives whole, a server answers a socket in order, and  *)
(* its answer arrives in the step that makes it.                           *)
(***************************************************************************)
EXTENDS Naturals, Sequences

CONSTANTS
    Tracks,          \* media blocks in the server's description
    HasCredentials,  \* the URL holds a user name and a password
    MaxPlays,        \* bound: calls of play()
    MaxCommands      \* bound: calls of stop(), pause() and resume()

ASSUME RtspAssumption ==
    /\ Tracks \in Nat \ {0}
    /\ HasCredentials \in BOOLEAN
    /\ {MaxPlays, MaxCommands} \subseteq Nat

VARIABLES
    plays,        \* calls of play(); webSocket is the socket of the last one
    commands,     \* calls of stop(), pause() and resume()
    socket,       \* readyState, per play
    wire,         \* requests the server has not answered yet, per socket
    server,       \* what the server made of a socket: "none", "ready", "playing"
    handshake,    \* the answer sendRequest() of a play waits for
    left,         \* tracks it has still to set up
    queued,       \* entries of rtspResponseQueue: all are the one response
    response,     \* rtspResponseContext, as the last message left it
    channels,     \* rtpChannelMap and rtpMediaMap hold the tracks
    mediaHandler, \* RtspHandler has handlers for the tracks
    timers,       \* plays whose interval of timeoutSec runs
    timeoutFlag,  \* RTP came since the last tick of any of them
    isCloseConn,  \* some socket was closed
    silent,       \* history: no RTP since the last tick of this play's timer
    falseAlarm,   \* history: a timer gave up although RTP had come
    disturbed,    \* history: somebody interfered before the player had its streams
    quiet,        \* history: stopped with no handshake under way
    lost          \* history: data came before there was a handler for it

vars == <<plays, commands, socket, wire, server, handshake, left, queued, response, channels,
          mediaHandler, timers, timeoutFlag, isCloseConn, silent, falseAlarm, disturbed, quiet, lost>>

client == <<queued, channels>>
history == <<falseAlarm, disturbed, quiet, lost>>
timing == <<timers, timeoutFlag, isCloseConn, silent>>

Plays == 1..MaxPlays

(* A request is known by the answer it wants; sendPlay() of resume() and   *)
(* of the handshake are told apart.                                        *)
Handshakes == {"describe", "auth", "setup"}
Requests == Handshakes \cup {"play", "pause", "resume", "teardown"}

Init ==
    /\ plays = 0
    /\ commands = 0
    /\ socket = [p \in Plays |-> "none"]
    /\ wire = [p \in Plays |-> <<>>]
    /\ server = [p \in Plays |-> "none"]
    /\ handshake = [p \in Plays |-> "none"]
    /\ left = [p \in Plays |-> 0]
    /\ queued = 0
    /\ response = [request |-> "none", by |-> 0, status |-> 0]
    /\ channels = FALSE
    /\ mediaHandler = FALSE
    /\ timers = {}
    /\ timeoutFlag = FALSE
    /\ isCloseConn = FALSE
    /\ silent = [p \in Plays |-> TRUE]
    /\ falseAlarm = FALSE
    /\ disturbed = FALSE
    /\ quiet = FALSE
    /\ lost = FALSE

(* Some play is between its connect and its PLAY.                          *)
Busy == \E p \in Plays : socket[p] = "connecting" \/ handshake[p] \in Handshakes

(* sendRequest() of rtsprequest.js: dropped unless the socket is open.     *)
SendOn(sockets, request, by) ==
    wire' = IF sockets[plays] = "open"
            THEN [wire EXCEPT ![plays] = Append(@, [request |-> request, by |-> by])]
            ELSE wire

Send(request, by) == SendOn(socket, request, by)

initBuffer == queued' = 0 /\ channels' = FALSE

(* stop(): TEARDOWN, and the buffers are emptied; the socket stays open.   *)
StopSession ==
    IF socket[plays] = "open"
    THEN /\ Send("teardown", 0)
         /\ initBuffer
         /\ quiet' = ~Busy
    ELSE UNCHANGED <<wire, client, quiet>>
-----------------------------------------------------------------------------
(* The page                                                                *)

Play ==
    /\ plays < MaxPlays
    /\ plays' = plays + 1
    /\ socket' = [socket EXCEPT ![plays + 1] = "connecting"]
    /\ initBuffer
    /\ disturbed' = (disturbed \/ plays > 0)
    /\ quiet' = FALSE
    /\ UNCHANGED <<commands, wire, server, handshake, left, response, mediaHandler, timing,
                   falseAlarm, lost>>

(* Before the first play() webSocket is null and every command throws.     *)
Command ==
    /\ plays > 0
    /\ commands < MaxCommands
    /\ commands' = commands + 1
    /\ disturbed' = (disturbed \/ ~mediaHandler)
    /\ UNCHANGED <<plays, socket, server, handshake, left, response, mediaHandler, timing,
                   falseAlarm, lost>>

(* Mutant: stop() sends TEARDOWN only.                                     *)
StopTeardownOnly ==
    /\ Command
    /\ Send("teardown", 0)
    /\ quiet' = (socket[plays] = "open" /\ ~Busy)
    /\ UNCHANGED client

Stop == Command /\ StopSession

Pause == Command /\ Send("pause", 0) /\ UNCHANGED <<client, quiet>>

Resume == Command /\ Send("resume", 0) /\ UNCHANGED <<client, quiet>>
-----------------------------------------------------------------------------
(* The sockets and the server                                              *)

(* onopen(): a timer starts, and sendRequest() with DESCRIBE.              *)
Open(p) ==
    /\ socket[p] = "connecting"
    /\ socket' = [socket EXCEPT ![p] = "open"]
    /\ timers' = timers \cup {p}
    /\ handshake' = [handshake EXCEPT ![p] = "describe"]
    /\ SendOn(socket', "describe", p)
    /\ UNCHANGED <<plays, commands, server, left, client, response, mediaHandler,
                   timeoutFlag, isCloseConn, silent, history>>

(* onclose(), also after a connect that failed.                            *)
Close(p) ==
    /\ socket[p] \in {"connecting", "open"}
    /\ socket' = [socket EXCEPT ![p] = "closed"]
    /\ wire' = [wire EXCEPT ![p] = <<>>]
    /\ server' = [server EXCEPT ![p] = "none"]
    /\ isCloseConn' = TRUE
    /\ UNCHANGED <<plays, commands, handshake, left, client, response, mediaHandler, timers,
                   timeoutFlag, silent, history>>

(* What a server makes of a request it answers with 200.                   *)
Serve(state, request) ==
    CASE request \in {"play", "resume"} -> "playing"
      [] request = "pause" -> "ready"
      [] request = "setup" -> IF state = "none" THEN "ready" ELSE state
      [] request = "teardown" -> "none"
      [] OTHER -> state

(* The answer is parsed into the one response and queued.                  *)
Answer(p) ==
    LET asked == Head(wire[p])
        hasSession == server[p] # "none"
    IN  /\ wire[p] # <<>>
        /\ \E status \in {200, 401, 404} :
              /\ status = 401 => asked.request \in {"describe", "auth"}
              /\ status = 200 => hasSession \/ asked.request \in Handshakes
              /\ response' = [request |-> asked.request, by |-> asked.by, status |-> status]
              /\ server' = [server EXCEPT ![p] =
                                IF status = 200 THEN Serve(@, asked.request) ELSE @]
        /\ wire' = [wire EXCEPT ![p] = Tail(@)]
        /\ queued' = queued + 1
        /\ UNCHANGED <<plays, commands, socket, handshake, left, channels, mediaHandler, timing,
                       history>>

(* The first part of an answer: getContentLength() parses what is there,   *)
(* into the response an earlier answer in the queue stands for as well.    *)
(* With its whole header an answer that has a body leaves its status, but  *)
(* nothing of the body; all others leave no status before they are whole.  *)
AnswerBegins(p) ==
    /\ wire[p] # <<>>
    /\ queued > 0
    /\ \/ response' = [response EXCEPT !.status = 0]
       \/ /\ Head(wire[p]).request \in {"describe", "auth"}
          /\ response' = [request |-> "none", by |-> Head(wire[p]).by, status |-> 200]
    /\ UNCHANGED <<plays, commands, socket, wire, server, handshake, left, client, mediaHandler,
                   timing, history>>

(* Mutant: parsingRtp() sets the flag for channels it knows only.          *)
RtpOfChannel(p) ==
    /\ server[p] = "playing"
    /\ timeoutFlag' = (timeoutFlag \/ channels)
    /\ silent' = [t \in Plays |-> FALSE]
    /\ lost' = (lost \/ (channels /\ ~mediaHandler))
    /\ UNCHANGED <<plays, commands, socket, wire, server, handshake, left, client, response,
                   mediaHandler, timers, isCloseConn, falseAlarm, disturbed, quiet>>

(* parsingRtp(): data of a known channel goes to RtpEventHandler().        *)
Rtp(p) ==
    /\ server[p] = "playing"
    /\ timeoutFlag' = TRUE
    /\ silent' = [t \in Plays |-> FALSE]
    /\ lost' = (lost \/ (channels /\ ~mediaHandler))
    /\ UNCHANGED <<plays, commands, socket, wire, server, handshake, left, client, response,
                   mediaHandler, timers, isCloseConn, falseAlarm, disturbed, quiet>>
-----------------------------------------------------------------------------
(* sendRequest() of a play, from one await to the next                     *)

(* Mutant: rtspResponseQueue is read without shift().                      *)
WaitsPeek(c, awaited) ==
    /\ handshake[c] \in awaited
    /\ queued > 0
    /\ UNCHANGED <<plays, commands, socket, server, queued, response, timing, history>>

Waits(c, awaited) ==
    /\ handshake[c] \in awaited
    /\ queued > 0
    /\ queued' = queued - 1
    /\ UNCHANGED <<plays, commands, socket, server, response, timing, history>>

Continue(c, next) == handshake' = [handshake EXCEPT ![c] = next]

(* 401 to the first DESCRIBE: once more, with the credentials of the URL.  *)
Challenged(c) ==
    /\ Waits(c, {"describe"})
    /\ response.status = 401
    /\ IF HasCredentials
       THEN Continue(c, "auth") /\ Send("auth", c)
       ELSE Continue(c, "over") /\ UNCHANGED wire
    /\ UNCHANGED <<left, channels, mediaHandler>>

(* parseSDP() throws on an answer without a description.                   *)
Described(c) ==
    /\ Waits(c, {"describe", "auth"})
    /\ response.status = 200
    /\ IF response.request \in {"describe", "auth"}
       THEN /\ channels' = TRUE
            /\ left' = [left EXCEPT ![c] = Tracks - 1]
            /\ Continue(c, "setup")
            /\ Send("setup", c)
       ELSE Continue(c, "over") /\ UNCHANGED <<wire, left, channels>>
    /\ UNCHANGED mediaHandler

SetUp(c) ==
    /\ Waits(c, {"setup"})
    /\ response.status = 200
    /\ left[c] > 0
    /\ left' = [left EXCEPT ![c] = @ - 1]
    /\ Send("setup", c)
    /\ UNCHANGED <<handshake, channels, mediaHandler>>

(* Mutant: success is reported when PLAY has been answered.                *)
SuccessAfterPlay(c) ==
    \/ /\ Waits(c, {"setup"})
       /\ response.status = 200
       /\ left[c] = 0
       /\ Send("play", c)
       /\ Continue(c, "play")
       /\ UNCHANGED <<left, channels, mediaHandler>>
    \/ /\ Waits(c, {"play"})
       /\ mediaHandler' = (mediaHandler \/ channels)
       /\ Continue(c, "over")
       /\ UNCHANGED <<wire, left, channels>>

(* resolve() comes before sendPlay(): WriteMediaHeader() makes a handler   *)
(* for every channel there is.                                             *)
Success(c) ==
    /\ Waits(c, {"setup"})
    /\ response.status = 200
    /\ left[c] = 0
    /\ mediaHandler' = (mediaHandler \/ channels)
    /\ Send("play", c)
    /\ Continue(c, "play")
    /\ UNCHANGED <<left, channels>>

(* Mutant: a second 401 is passed over for the next answer.                *)
OverAtRefusal(c) ==
    /\ \/ Waits(c, {"play"})
       \/ Waits(c, Handshakes) /\ response.status \notin {200, 401}
    /\ Continue(c, "over")
    /\ UNCHANGED <<wire, left, channels, mediaHandler>>

(* reject(), which nobody handles, or the end of the chain.                *)
Over(c) ==
    /\ \/ Waits(c, {"play"})
       \/ Waits(c, Handshakes) /\ response.status \notin {200, 401}
       \/ Waits(c, {"auth", "setup"}) /\ response.status = 401
    /\ Continue(c, "over")
    /\ UNCHANGED <<wire, left, channels, mediaHandler>>

(* Mutant: the flag is never cleared.                                      *)
TickKeepsFlag(t) ==
    /\ t \in timers
    /\ timeoutFlag \/ isCloseConn
    /\ silent' = [silent EXCEPT ![t] = TRUE]
    /\ UNCHANGED <<plays, commands, socket, wire, server, handshake, left, client, response,
                   mediaHandler, timers, timeoutFlag, isCloseConn, history>>

(* The interval of setTimeoutFlag()                                        *)
Tick(t) ==
    /\ t \in timers
    /\ IF timeoutFlag \/ isCloseConn
       THEN /\ timeoutFlag' = FALSE
            /\ UNCHANGED <<wire, client, timers, history>>
       ELSE /\ StopSession
            /\ timers' = timers \ {t}
            /\ falseAlarm' = (falseAlarm \/ ~silent[t])
            /\ disturbed' = (disturbed \/ ~mediaHandler)
            /\ UNCHANGED <<timeoutFlag, lost>>
    /\ silent' = [silent EXCEPT ![t] = TRUE]
    /\ UNCHANGED <<plays, commands, socket, server, handshake, left, response, mediaHandler,
                   isCloseConn>>

Take(c) == Challenged(c) \/ Described(c) \/ SetUp(c) \/ Success(c) \/ Over(c)

Next ==
    \/ Play \/ Stop \/ Pause \/ Resume
    \/ \E p \in Plays : Open(p) \/ Close(p) \/ Answer(p) \/ AnswerBegins(p) \/ Rtp(p)
    \/ \E c \in Plays : Take(c) \/ Tick(c)

Spec == Init /\ [][Next]_vars

(* Intervals fire, and a server answers as long as its socket is open.     *)
FairSpec ==
    /\ Spec
    /\ \A p \in Plays : WF_vars(Answer(p)) /\ WF_vars(Take(p)) /\ WF_vars(Tick(p))
-----------------------------------------------------------------------------
(* Types; no more answers are queued than were ever asked for.             *)
TypeOK ==
    /\ plays \in 0..MaxPlays
    /\ commands \in 0..MaxCommands
    /\ socket \in [Plays -> {"none", "connecting", "open", "closed"}]
    /\ server \in [Plays -> {"none", "ready", "playing"}]
    /\ wire \in [Plays -> Seq([request : Requests, by : 0..MaxPlays])]
    /\ handshake \in [Plays -> Handshakes \cup {"none", "play", "over"}]
    /\ left \in [Plays -> 0..(Tracks - 1)]
    /\ queued \in Nat
    /\ response \in [request : Requests \cup {"none"}, by : 0..MaxPlays, status : {0, 200, 401, 404}]
    /\ timers \subseteq Plays
    /\ {channels, mediaHandler, timeoutFlag, isCloseConn} \subseteq BOOLEAN
    /\ {falseAlarm, disturbed, quiet, lost} \subseteq BOOLEAN
    /\ silent \in [Plays -> BOOLEAN]

(* Answers carry no CSeq here, so the order alone tells them apart: until  *)
(* somebody interferes, the answer at hand is the one the handshake waits  *)
(* for, and the shared response is not overwritten before it is read.      *)
AnswersMatch ==
    ~disturbed => \A c \in Plays :
        handshake[c] \in Handshakes /\ queued > 0 =>
            queued = 1 /\ response.by = c /\ response.request = handshake[c] /\ response.status # 0

(* The server may send as soon as it has PLAY: the player is ready by then *)
(* and misses nothing of the stream.                                       *)
NothingMissed == ~disturbed => ~lost

(* "receive rtp data timeout": a session is torn down for want of data     *)
(* only if none came for a whole interval.  A second play() adds a second  *)
(* interval that clears the same flag, and then it is no longer so.        *)
TimeoutMeansSilence == falseAlarm => plays > 1

(* After stop(), by the page or by the timeout, no data reaches the player *)
(* before the next play(), whatever the server, an old socket or a resume()*)
(* still sends, unless a handshake was under way.                          *)
QuietAfterStop == quiet => ~channels

(* The chain of awaits comes to its end as long as the socket lives, also  *)
(* when stop() or the timeout throws away the answer it waits for.         *)
HandshakeEnds ==
    (handshake[1] = "describe") ~> (handshake[1] = "over" \/ socket[1] = "closed")

(* A stream that falls silent for good is torn down.                       *)
SilenceIsNoticed ==
    \A p \in Plays :
        <>[]silent[p] => ((p \in timers) ~> (p \notin timers \/ isCloseConn))
=============================================================================
