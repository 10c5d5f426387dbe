------------------------- MODULE RtspSessionProofs -------------------------
(***************************************************************************)
(* The RTSP client for any number of tracks, plays and commands.  Types    *)
(* first; then three inductive invariants that share nothing but them:     *)
(* QuietInv (a session at rest after stop() has no handshake that could    *)
(* bring its channels back), AlarmInv (one interval and the flag it clears *)
(* agree about silence) and MatchInv (until somebody interferes there is   *)
(* one question or one answer, the one the handshake waits for).           *)
(***************************************************************************)
EXTENDS RtspSession, SequenceTheorems, TLAPS

Message == [request : Requests, by : 0..MaxPlays]

(* TypeOK without its sets of Booleans, for the provers.                   *)
Flags ==
    /\ channels \in BOOLEAN /\ mediaHandler \in BOOLEAN
    /\ timeoutFlag \in BOOLEAN /\ isCloseConn \in BOOLEAN
    /\ falseAlarm \in BOOLEAN /\ disturbed \in BOOLEAN
    /\ quiet \in BOOLEAN /\ lost \in BOOLEAN
    /\ silent \in [Plays -> BOOLEAN]

Data ==
    /\ plays \in 0..MaxPlays
    /\ commands \in 0..MaxCommands
    /\ socket \in [Plays -> {"none", "connecting", "open", "closed"}]
    /\ server \in [Plays -> {"none", "ready", "playing"}]
    /\ wire \in [Plays -> Seq(Message)]
    /\ handshake \in [Plays -> Handshakes \cup {"none", "play", "over"}]
    /\ left \in [Plays -> 0..(Tracks - 1)]
    /\ queued \in Nat
    /\ response \in [request : Requests \cup {"none"}, by : 0..MaxPlays, status : {0, 200, 401, 404}]
    /\ timers \subseteq Plays

LEMMA Types == TypeOK <=> Data /\ Flags
<1>1. {channels, mediaHandler, timeoutFlag, isCloseConn} \subseteq BOOLEAN <=>
         /\ channels \in BOOLEAN /\ mediaHandler \in BOOLEAN
         /\ timeoutFlag \in BOOLEAN /\ isCloseConn \in BOOLEAN
  BY Zenon
<1>2. {falseAlarm, disturbed, quiet, lost} \subseteq BOOLEAN <=>
         /\ falseAlarm \in BOOLEAN /\ disturbed \in BOOLEAN
         /\ quiet \in BOOLEAN /\ lost \in BOOLEAN
  BY Zenon
<1>3. TypeOK => Data
  BY DEF TypeOK, Data, Message
<1>4. TypeOK => Flags
  BY <1>1, <1>2, Zenon DEF TypeOK, Flags
<1>5. Flags => /\ {channels, mediaHandler, timeoutFlag, isCloseConn} \subseteq BOOLEAN
               /\ {falseAlarm, disturbed, quiet, lost} \subseteq BOOLEAN
               /\ silent \in [Plays -> BOOLEAN]
  BY <1>1, <1>2, Zenon DEF Flags
<1>6. Data /\ Flags => TypeOK
  BY <1>5 DEF TypeOK, Data, Message
<1> QED
  BY <1>3, <1>4, <1>6

(* A request goes to the last socket, if it is open.                       *)
LEMMA SendType ==
    ASSUME Data, NEW sockets, NEW request \in Requests, NEW by \in 0..MaxPlays,
           SendOn(sockets, request, by)
    PROVE  wire' \in [Plays -> Seq(Message)]
<1>1. wire \in [Plays -> Seq(Message)]
  BY DEF Data
<1>2. [request |-> request, by |-> by] \in Message
  BY DEF Message
<1>3. CASE sockets[plays] = "open"
  <2>1. wire' = [wire EXCEPT ![plays] = Append(@, [request |-> request, by |-> by])]
    BY <1>3 DEF SendOn
  <2>2. ASSUME NEW p \in Plays
        PROVE  Append(wire[p], [request |-> request, by |-> by]) \in Seq(Message)
    BY <1>1, <1>2, AppendProperties
  <2> QED
    BY <1>1, <2>1, <2>2
<1>4. CASE sockets[plays] # "open"
  BY <1>1, <1>4 DEF SendOn
<1> QED
  BY <1>3, <1>4

LEMMA StopType ==
    ASSUME Data, Flags, StopSession
    PROVE  /\ wire' \in [Plays -> Seq(Message)]
           /\ queued' \in Nat
           /\ channels' \in BOOLEAN
           /\ quiet' \in BOOLEAN
<1>1. CASE socket[plays] = "open"
  <2>1. Send("teardown", 0) /\ queued' = 0 /\ channels' = FALSE /\ quiet' = ~Busy
    BY <1>1 DEF StopSession, initBuffer
  <2>2. "teardown" \in Requests /\ 0 \in 0..MaxPlays
    BY RtspAssumption DEF Requests
  <2>3. wire' \in [Plays -> Seq(Message)]
    BY <2>1, <2>2, SendType DEF Send
  <2>4. channels' \in BOOLEAN /\ quiet' \in BOOLEAN
    BY <2>1, Zenon
  <2> QED
    BY <2>1, <2>3, <2>4
<1>2. CASE socket[plays] # "open"
  BY <1>2 DEF StopSession, client, Data, Flags
<1> QED
  BY <1>1, <1>2

LEMMA TypeInit == Init => Data /\ Flags
<1> SUFFICES ASSUME Init PROVE Data /\ Flags
  OBVIOUS
<1> USE RtspAssumption DEF Init
<1>1. Flags
  BY Zenon DEF Flags
<1>2. wire \in [Plays -> Seq(Message)]
  BY EmptySeq
<1>3. Data
  BY <1>2 DEF Data
<1> QED
  BY <1>1, <1>3

-----------------------------------------------------------------------------
(* The steps of a handshake, as far as they are alike.                     *)
LEMMA TakeFlags ==
    ASSUME Flags, NEW c \in Plays, Take(c)
    PROVE  Flags' /\ UNCHANGED <<plays, commands, socket, server, response, timing, history>>
<1> USE DEF Waits, history, timing
<1>1. CASE Challenged(c)
  BY <1>1, Zenon DEF Challenged, Flags
<1>2. CASE Described(c)
  BY <1>2, Zenon DEF Described, Flags
<1>3. CASE SetUp(c)
  BY <1>3, Zenon DEF SetUp, Flags
<1>4. CASE Success(c)
  BY <1>4, Zenon DEF Success, Flags
<1>5. CASE Over(c)
  BY <1>5, Zenon DEF Over, Flags
<1> QED
  BY <1>1, <1>2, <1>3, <1>4, <1>5 DEF Take

LEMMA TakeData ==
    ASSUME Data, NEW c \in Plays, Take(c)
    PROVE  /\ queued > 0 /\ queued' = queued - 1
           /\ handshake' \in [Plays -> Handshakes \cup {"none", "play", "over"}]
           /\ left' \in [Plays -> 0..(Tracks - 1)]
           /\ wire' \in [Plays -> Seq(Message)]
<1>a. /\ wire \in [Plays -> Seq(Message)] /\ left \in [Plays -> 0..(Tracks - 1)]
      /\ handshake \in [Plays -> Handshakes \cup {"none", "play", "over"}]
      /\ c \in 0..MaxPlays
  BY RtspAssumption DEF Data, Plays
<1>1. CASE Challenged(c)
  <2>1. /\ queued > 0 /\ queued' = queued - 1 /\ left' = left
        /\ handshake' \in {[handshake EXCEPT ![c] = "auth"], [handshake EXCEPT ![c] = "over"]}
        /\ SendOn(socket, "auth", c) \/ UNCHANGED wire
    BY <1>1 DEF Challenged, Waits, Continue, Send
  <2>2. wire' \in [Plays -> Seq(Message)]
    BY <1>a, <2>1, SendType DEF Requests, Handshakes
  <2> QED
    BY <1>a, <2>1, <2>2 DEF Handshakes
<1>2. CASE Described(c)
  <2>1. /\ queued > 0 /\ queued' = queued - 1
        /\ left' \in {left, [left EXCEPT ![c] = Tracks - 1]}
        /\ handshake' \in {[handshake EXCEPT ![c] = "setup"], [handshake EXCEPT ![c] = "over"]}
        /\ SendOn(socket, "setup", c) \/ UNCHANGED wire
    BY <1>2 DEF Described, Waits, Continue, Send
  <2>2. wire' \in [Plays -> Seq(Message)]
    BY <1>a, <2>1, SendType DEF Requests, Handshakes
  <2> QED
    BY <1>a, <2>1, <2>2, RtspAssumption DEF Handshakes
<1>3. CASE SetUp(c)
  <2>1. /\ queued > 0 /\ queued' = queued - 1 /\ handshake' = handshake
        /\ left[c] > 0 /\ left' = [left EXCEPT ![c] = @ - 1]
        /\ SendOn(socket, "setup", c)
    BY <1>3 DEF SetUp, Waits, Send
  <2>2. wire' \in [Plays -> Seq(Message)]
    BY <1>a, <2>1, SendType DEF Requests, Handshakes
  <2>3. left[c] - 1 \in 0..(Tracks - 1)
    BY <1>a, <2>1, RtspAssumption
  <2>4. left' \in [Plays -> 0..(Tracks - 1)]
    BY <1>a, <2>1, <2>3
  <2> QED
    BY <1>a, <2>1, <2>2, <2>4
<1>4. CASE Success(c)
  <2>1. /\ queued > 0 /\ queued' = queued - 1 /\ left' = left
        /\ handshake' = [handshake EXCEPT ![c] = "play"]
        /\ SendOn(socket, "play", c)
    BY <1>4 DEF Success, Waits, Continue, Send
  <2>2. wire' \in [Plays -> Seq(Message)]
    BY <1>a, <2>1, SendType DEF Requests
  <2> QED
    BY <1>a, <2>1, <2>2
<1>5. CASE Over(c)
  <2>1. /\ queued > 0 /\ queued' = queued - 1 /\ left' = left /\ wire' = wire
        /\ handshake' = [handshake EXCEPT ![c] = "over"]
    BY <1>5 DEF Over, Waits, Continue
  <2> QED
    BY <1>a, <2>1
<1> QED
  BY <1>1, <1>2, <1>3, <1>4, <1>5 DEF Take

(* A timer that fires clears the flag or gives up.                         *)
LEMMA TickCases ==
    ASSUME NEW t \in Plays, Tick(t)
    PROVE  /\ t \in timers
           /\ silent' = [silent EXCEPT ![t] = TRUE]
           /\ UNCHANGED <<plays, commands, socket, server, handshake, left, response,
                          mediaHandler, isCloseConn, lost>>
           /\ \/ /\ timeoutFlag' = FALSE
                 /\ UNCHANGED <<wire, client, timers, history>>
              \/ /\ ~timeoutFlag /\ ~isCloseConn
                 /\ StopSession
                 /\ timers' = timers \ {t}
                 /\ falseAlarm' = (falseAlarm \/ ~silent[t])
                 /\ disturbed' = (disturbed \/ ~mediaHandler)
                 /\ UNCHANGED timeoutFlag
BY DEF Tick, history

LEMMA FlagsNext ==
    ASSUME Data, Flags, Next
    PROVE  Flags'
<1> USE DEF history, timing, client
<1>1. CASE Play
  <2>1. disturbed' = TRUE \/ disturbed' = FALSE
    BY <1>1 DEF Play
  <2>2. disturbed' \in BOOLEAN
    BY <2>1, Zenon
  <2> QED
    BY <1>1, <2>2, Zenon DEF Play, initBuffer, Flags
<1>2. CASE Stop
  <2>1. channels' \in BOOLEAN /\ quiet' \in BOOLEAN
    BY <1>2, StopType DEF Stop
  <2> QED
    BY <1>2, <2>1, Zenon DEF Stop, Command, Flags
<1>3. CASE Pause \/ Resume
  BY <1>3, Zenon DEF Pause, Resume, Command, Flags
<1>4. ASSUME NEW p \in Plays, Open(p) PROVE Flags'
  BY <1>4, Zenon DEF Open, Flags
<1>5. ASSUME NEW p \in Plays, Close(p) PROVE Flags'
  BY <1>5, Zenon DEF Close, Flags
<1>6. ASSUME NEW p \in Plays, Answer(p) PROVE Flags'
  BY <1>6, Zenon DEF Answer, Flags
<1>7. ASSUME NEW p \in Plays, AnswerBegins(p) PROVE Flags'
  BY <1>7, Zenon DEF AnswerBegins, Flags
<1>8. ASSUME NEW p \in Plays, Rtp(p) PROVE Flags'
  BY <1>8, Zenon DEF Rtp, Flags
<1>9. ASSUME NEW c \in Plays, Take(c) PROVE Flags'
  BY <1>9, TakeFlags
<1>10. ASSUME NEW t \in Plays, Tick(t) PROVE Flags'
  <2>1. silent' \in [Plays -> BOOLEAN]
    BY <1>10, TickCases DEF Flags
  <2>2. CASE timeoutFlag' = FALSE /\ UNCHANGED <<wire, client, timers, history>>
    BY <1>10, <2>1, <2>2, TickCases, Zenon DEF Flags
  <2>3. CASE /\ StopSession
             /\ falseAlarm' = (falseAlarm \/ ~silent[t])
             /\ disturbed' = (disturbed \/ ~mediaHandler)
             /\ UNCHANGED timeoutFlag
    <3>1. channels' \in BOOLEAN /\ quiet' \in BOOLEAN
      BY <2>3, StopType
    <3>2. UNCHANGED <<mediaHandler, isCloseConn, lost>>
      BY <1>10, TickCases
    <3> QED
      BY <2>1, <2>3, <3>1, <3>2, Zenon DEF Flags
  <2> QED
    BY <1>10, <2>2, <2>3, TickCases
<1> QED
  BY <1>1, <1>2, <1>3, <1>4, <1>5, <1>6, <1>7, <1>8, <1>9, <1>10 DEF Next

LEMMA DataNext ==
    ASSUME Data, Flags, Next
    PROVE  Data'
<1>0. /\ "teardown" \in Requests /\ "pause" \in Requests /\ "resume" \in Requests
      /\ "describe" \in Requests /\ 0 \in 0..MaxPlays
  BY RtspAssumption DEF Requests, Handshakes
<1>1. CASE Play
  <2>1. /\ plays < MaxPlays /\ plays' = plays + 1
        /\ socket' = [socket EXCEPT ![plays + 1] = "connecting"]
        /\ queued' = 0
        /\ UNCHANGED <<commands, wire, server, handshake, left, response, timers>>
    BY <1>1 DEF Play, initBuffer, timing
  <2>2. plays' \in 0..MaxPlays /\ queued' \in Nat
    BY <2>1, RtspAssumption DEF Data
  <2>3. socket' \in [Plays -> {"none", "connecting", "open", "closed"}]
    BY <2>1 DEF Data
  <2> QED
    BY <2>1, <2>2, <2>3 DEF Data
<1>2. CASE Stop
  <2>1. wire' \in [Plays -> Seq(Message)] /\ queued' \in Nat
    BY <1>2, StopType DEF Stop
  <2> QED
    BY <1>2, <2>1, RtspAssumption DEF Stop, Command, timing, Data
<1>3. CASE Pause \/ Resume
  <2>1. wire' \in [Plays -> Seq(Message)]
    BY <1>0, <1>3, SendType DEF Pause, Resume, Send
  <2> QED
    BY <1>3, <2>1, RtspAssumption DEF Pause, Resume, Command, client, timing, Data
<1>4. ASSUME NEW p \in Plays, Open(p) PROVE Data'
  <2>1. SendOn(socket', "describe", p) /\ p \in 0..MaxPlays
    BY <1>4, RtspAssumption DEF Open, Plays
  <2>2. wire' \in [Plays -> Seq(Message)]
    BY <1>0, <2>1, SendType
  <2>3. /\ socket' = [socket EXCEPT ![p] = "open"]
        /\ timers' = timers \cup {p}
        /\ handshake' = [handshake EXCEPT ![p] = "describe"]
        /\ UNCHANGED <<plays, commands, server, left, queued, response>>
    BY <1>4 DEF Open, client
  <2>4. handshake' \in [Plays -> Handshakes \cup {"none", "play", "over"}]
    BY <2>3 DEF Data, Handshakes
  <2>5. socket' \in [Plays -> {"none", "connecting", "open", "closed"}]
    BY <2>3 DEF Data
  <2> QED
    BY <2>2, <2>3, <2>4, <2>5 DEF Data
<1>5. ASSUME NEW p \in Plays, Close(p) PROVE Data'
  <2>1. wire' = [wire EXCEPT ![p] = <<>>] /\ <<>> \in Seq(Message)
    BY <1>5, EmptySeq DEF Close
  <2>2. wire' \in [Plays -> Seq(Message)]
    BY <2>1 DEF Data
  <2> QED
    BY <1>5, <2>2 DEF Close, client, Data
<1>6. ASSUME NEW p \in Plays, Answer(p) PROVE Data'
  <2>1. wire[p] # <<>> /\ wire[p] \in Seq(Message) /\ wire' = [wire EXCEPT ![p] = Tail(@)]
    BY <1>6 DEF Answer, Data
  <2>2. Head(wire[p]) \in Message /\ Tail(wire[p]) \in Seq(Message)
    BY <2>1, HeadTailProperties
  <2>3. wire' \in [Plays -> Seq(Message)]
    BY <2>1, <2>2 DEF Data
  <2>4. PICK status \in {200, 401, 404} :
           /\ response' = [request |-> Head(wire[p]).request, by |-> Head(wire[p]).by, status |-> status]
           /\ server' = [server EXCEPT ![p] =
                             IF status = 200 THEN Serve(server[p], Head(wire[p]).request) ELSE server[p]]
    <3> DEFINE asked == Head(wire[p])
               answers(status) ==
                  /\ response' = [request |-> asked.request, by |-> asked.by, status |-> status]
                  /\ server' = [server EXCEPT ![p] =
                                    IF status = 200 THEN Serve(@, asked.request) ELSE @]
    <3>1. \E status \in {200, 401, 404} :
             /\ status = 401 => asked.request \in {"describe", "auth"}
             /\ status = 200 => server[p] # "none" \/ asked.request \in Handshakes
             /\ answers(status)
      BY <1>6, Zenon DEF Answer
    <3>2. \E status \in {200, 401, 404} : answers(status)
      <4> HIDE DEF answers
      <4> QED
        BY <3>1, Zenon
    <3> QED
      BY <3>2
  <2>5. response' \in [request : Requests \cup {"none"}, by : 0..MaxPlays, status : {0, 200, 401, 404}]
    BY <2>2, <2>4 DEF Message
  <2>6. server' \in [Plays -> {"none", "ready", "playing"}]
    <3>1. Serve(server[p], Head(wire[p]).request) \in {"none", "ready", "playing"}
      BY DEF Serve, Data
    <3> QED
      BY <2>4, <3>1 DEF Data
  <2>7. queued' \in Nat /\ UNCHANGED <<plays, commands, socket, handshake, left, timers>>
    BY <1>6 DEF Answer, timing, Data
  <2> QED
    BY <2>3, <2>5, <2>6, <2>7 DEF Data
<1>7. ASSUME NEW p \in Plays, AnswerBegins(p) PROVE Data'
  <2>1. wire[p] # <<>> /\ wire[p] \in Seq(Message) /\ Head(wire[p]) \in Message
    BY <1>7, HeadTailProperties DEF AnswerBegins, Data
  <2>2. response' \in [request : Requests \cup {"none"}, by : 0..MaxPlays, status : {0, 200, 401, 404}]
    <3>1. CASE response' = [response EXCEPT !.status = 0]
      BY <3>1 DEF Data
    <3>2. CASE response' = [request |-> "none", by |-> Head(wire[p]).by, status |-> 200]
      <4>1. Head(wire[p]).by \in 0..MaxPlays
        BY <2>1 DEF Message
      <4> QED
        BY <3>2, <4>1
    <3> QED
      BY <1>7, <3>1, <3>2 DEF AnswerBegins
  <2> QED
    BY <1>7, <2>2 DEF AnswerBegins, client, timing, Data
<1>8. ASSUME NEW p \in Plays, Rtp(p) PROVE Data'
  BY <1>8 DEF Rtp, client, Data
<1>9. ASSUME NEW c \in Plays, Take(c) PROVE Data'
  <2>1. UNCHANGED <<plays, commands, socket, server, response, timers>>
    BY <1>9, TakeFlags DEF timing
  <2>2. queued' \in Nat
    BY <1>9, TakeData DEF Data
  <2> QED
    BY <1>9, <2>1, <2>2, TakeData DEF Data
<1>10. ASSUME NEW t \in Plays, Tick(t) PROVE Data'
  <2>1. UNCHANGED <<plays, commands, socket, server, handshake, left, response>>
    BY <1>10, TickCases
  <2>2. CASE UNCHANGED <<wire, client, timers, history>>
    BY <2>1, <2>2 DEF client, Data
  <2>3. CASE StopSession /\ timers' = timers \ {t}
    <3>1. wire' \in [Plays -> Seq(Message)] /\ queued' \in Nat
      BY <2>3, StopType
    <3> QED
      BY <2>1, <2>3, <3>1 DEF Data
  <2> QED
    BY <1>10, <2>2, <2>3, TickCases
<1> QED
  BY <1>1, <1>2, <1>3, <1>4, <1>5, <1>6, <1>7, <1>8, <1>9, <1>10 DEF Next

LEMMA TypesInvariant == Spec => [](Data /\ Flags)
<1>1. Data /\ Flags /\ UNCHANGED vars => (Data /\ Flags)'
  <2>1. Flags /\ UNCHANGED vars => Flags'
    BY DEF vars, Flags
  <2>2. Data /\ UNCHANGED vars => Data'
    BY DEF vars, Data
  <2> QED
    BY <2>1, <2>2
<1> QED
  BY TypeInit, FlagsNext, DataNext, <1>1, PTL DEF Spec

(* Types: what is queued, on the wire and in the one response.             *)
THEOREM TypeCorrect == Spec => []TypeOK
BY TypesInvariant, Types, PTL
-----------------------------------------------------------------------------
(* Quiet after stop                                                        *)

QuietInv == quiet => ~channels /\ ~Busy

(* A handshake that is not under way takes its last answer at most.        *)
LEMMA LastAnswer ==
    ASSUME NEW c \in Plays, Take(c), handshake[c] \notin Handshakes
    PROVE  Over(c) /\ handshake[c] = "play"
BY DEF Take, Challenged, Described, SetUp, Success, Over, Waits, Handshakes

(* stop() by anybody leaves what makes a session busy as it was.           *)
LEMMA StopIsQuiet ==
    ASSUME Flags, QuietInv, StopSession, UNCHANGED <<socket, handshake>>
    PROVE  QuietInv'
<1>1. Busy' <=> Busy
  BY DEF Busy
<1>2. CASE socket[plays] = "open"
  BY <1>1, <1>2 DEF StopSession, initBuffer, QuietInv, Flags
<1>3. CASE socket[plays] # "open"
  BY <1>1, <1>3 DEF StopSession, client, QuietInv
<1> QED
  BY <1>2, <1>3

LEMMA QuietNext ==
    ASSUME Data, Flags, QuietInv, Next
    PROVE  QuietInv'
<1> USE DEF history, timing, client
<1>0. UNCHANGED <<socket, handshake, channels, quiet>> => QuietInv'
  BY DEF QuietInv, Busy
<1>1. CASE Play
  BY <1>1 DEF Play, QuietInv
<1>2. CASE Stop
  BY <1>2, StopIsQuiet DEF Stop, Command
<1>3. CASE Pause \/ Resume
  BY <1>0, <1>3 DEF Pause, Resume, Command
<1>4. ASSUME NEW p \in Plays, Open(p) PROVE QuietInv'
  BY <1>4 DEF Open, QuietInv, Busy
<1>5. ASSUME NEW p \in Plays, Close(p) PROVE QuietInv'
  <2>1. socket' = [socket EXCEPT ![p] = "closed"] /\ UNCHANGED <<handshake, channels, quiet>>
    BY <1>5 DEF Close
  <2> QED
    BY <2>1 DEF QuietInv, Busy, Data
<1>6. ASSUME NEW p \in Plays, Answer(p) PROVE QuietInv'
  BY <1>0, <1>6 DEF Answer
<1>7. ASSUME NEW p \in Plays, AnswerBegins(p) PROVE QuietInv'
  BY <1>0, <1>7 DEF AnswerBegins
<1>8. ASSUME NEW p \in Plays, Rtp(p) PROVE QuietInv'
  BY <1>0, <1>8 DEF Rtp
<1>9. ASSUME NEW c \in Plays, Take(c) PROVE QuietInv'
  <2>1. UNCHANGED <<socket, quiet>>
    BY <1>9, TakeFlags
  <2>2. CASE quiet
    <3>1. handshake[c] \notin Handshakes
      BY <2>2 DEF QuietInv, Busy
    <3>2. UNCHANGED channels /\ handshake' = [handshake EXCEPT ![c] = "over"]
      BY <1>9, <3>1, LastAnswer DEF Over, Continue
    <3> QED
      BY <2>1, <3>2 DEF QuietInv, Busy, Data, Handshakes
  <2> QED
    BY <2>1, <2>2 DEF QuietInv
<1>10. ASSUME NEW t \in Plays, Tick(t) PROVE QuietInv'
  BY <1>0, <1>10, TickCases, StopIsQuiet
<1> QED
  BY <1>1, <1>2, <1>3, <1>4, <1>5, <1>6, <1>7, <1>8, <1>9, <1>10 DEF Next

(* Whatever the server, an old socket or a resume() sends after a stop()   *)
(* at rest, stop() of rtspclient.js has taken away every channel for it.   *)
THEOREM StopIsFinal == Spec => []QuietAfterStop
<1>1. Init => QuietInv
  BY DEF Init, QuietInv
<1>2. QuietInv /\ UNCHANGED vars => QuietInv'
  BY DEF QuietInv, Busy, vars
<1>3. QuietInv => QuietAfterStop
  BY DEF QuietInv, QuietAfterStop
<1> QED
  BY <1>1, <1>2, <1>3, QuietNext, TypesInvariant, PTL DEF Spec

-----------------------------------------------------------------------------
(* One interval                                                            *)

AlarmInv ==
    /\ \A p \in Plays : p > plays => socket[p] = "none"
    /\ \A t \in timers : t <= plays
    /\ plays <= 1 => /\ ~falseAlarm
                     /\ \A t \in Plays : t = 1 /\ ~silent[t] => timeoutFlag

LEMMA AlarmNext ==
    ASSUME Data, Flags, AlarmInv, Next
    PROVE  AlarmInv'
<1> USE DEF history, timing
<1>0. UNCHANGED <<plays, socket, timers, falseAlarm, silent, timeoutFlag>> => AlarmInv'
  BY DEF AlarmInv
<1>1. CASE Play
  <2>1. /\ plays' = plays + 1 /\ plays \in Nat
        /\ socket' = [socket EXCEPT ![plays + 1] = "connecting"]
        /\ UNCHANGED <<timers, falseAlarm, silent, timeoutFlag>>
    BY <1>1, RtspAssumption DEF Play, Data
  <2>2. \A p \in Plays : p > plays' => socket'[p] = "none"
    BY <2>1 DEF AlarmInv, Data, Plays
  <2>3. \A t \in timers' : t <= plays'
    BY <2>1 DEF AlarmInv, Data, Plays
  <2> QED
    BY <2>1, <2>2, <2>3 DEF AlarmInv
<1>2. CASE Stop \/ Pause \/ Resume
  BY <1>0, <1>2 DEF Stop, Pause, Resume, Command
<1>4. ASSUME NEW p \in Plays, Open(p) PROVE AlarmInv'
  <2>1. /\ socket[p] = "connecting" /\ socket' = [socket EXCEPT ![p] = "open"]
        /\ timers' = timers \cup {p}
        /\ UNCHANGED <<plays, falseAlarm, silent, timeoutFlag>>
    BY <1>4 DEF Open
  <2>2. p <= plays
    BY <2>1, RtspAssumption DEF AlarmInv, Data, Plays
  <2> QED
    BY <2>1, <2>2, RtspAssumption DEF AlarmInv, Data, Plays
<1>5. ASSUME NEW p \in Plays, Close(p) PROVE AlarmInv'
  <2>1. /\ socket[p] # "none" /\ socket' = [socket EXCEPT ![p] = "closed"]
        /\ UNCHANGED <<plays, timers, falseAlarm, silent, timeoutFlag>>
    BY <1>5 DEF Close
  <2> QED
    BY <2>1 DEF AlarmInv, Data
<1>6. ASSUME NEW p \in Plays, Answer(p) PROVE AlarmInv'
  BY <1>0, <1>6 DEF Answer
<1>7. ASSUME NEW p \in Plays, AnswerBegins(p) PROVE AlarmInv'
  BY <1>0, <1>7 DEF AnswerBegins
<1>8. ASSUME NEW p \in Plays, Rtp(p) PROVE AlarmInv'
  BY <1>8 DEF Rtp, AlarmInv
<1>9. ASSUME NEW c \in Plays, Take(c) PROVE AlarmInv'
  BY <1>0, <1>9, TakeFlags
<1>10. ASSUME NEW t \in Plays, Tick(t) PROVE AlarmInv'
  <2>1. /\ t \in timers /\ silent' = [silent EXCEPT ![t] = TRUE] /\ UNCHANGED <<plays, socket>>
        /\ \/ UNCHANGED <<timers, falseAlarm>>
           \/ /\ ~timeoutFlag /\ UNCHANGED timeoutFlag
              /\ timers' = timers \ {t}
              /\ falseAlarm' = (falseAlarm \/ ~silent[t])
    BY <1>10, TickCases
  <2>2. plays <= 1 => t = 1
    BY <2>1, RtspAssumption DEF AlarmInv, Data, Plays
  <2>3. silent'[t] /\ \A q \in Plays : silent[q] => silent'[q]
    BY <2>1 DEF Flags
  <2> QED
    BY <2>1, <2>2, <2>3 DEF AlarmInv, Flags
<1> QED
  BY <1>1, <1>2, <1>4, <1>5, <1>6, <1>7, <1>8, <1>9, <1>10 DEF Next

(* The interval of setTimeoutFlag() gives up a session only if no data     *)
(* came for a whole interval, as long as there is one interval.            *)
THEOREM NoFalseAlarm == Spec => []TimeoutMeansSilence
<1>1. Init => AlarmInv
  BY RtspAssumption DEF Init, AlarmInv
<1>2. AlarmInv /\ UNCHANGED vars => AlarmInv'
  BY DEF AlarmInv, vars
<1>3. Data /\ AlarmInv => TimeoutMeansSilence
  BY RtspAssumption DEF AlarmInv, TimeoutMeansSilence, Data
<1> QED
  BY <1>1, <1>2, <1>3, AlarmNext, TypesInvariant, PTL DEF Spec
-----------------------------------------------------------------------------
(* Question and answer                                                     *)

(* A socket that is not open yet has asked nothing.                        *)
FreshInv == \A p \in Plays :
    socket[p] \in {"none", "connecting"} =>
        handshake[p] = "none" /\ wire[p] = <<>> /\ server[p] = "none"

Asked(c) ==
    /\ handshake[c] \in Handshakes
    /\ queued = 0
    /\ wire[c] = <<>> \/ wire[c] = <<[request |-> handshake[c], by |-> c]>>

Told(c) ==
    /\ handshake[c] \in Handshakes
    /\ queued = 1
    /\ wire[c] = <<>>
    /\ response.by = c /\ response.request = handshake[c] /\ response.status # 0

AtRest(c) == handshake[c] \notin Handshakes /\ queued = 0 /\ wire[c] = <<>>

MatchInv == ~disturbed =>
    /\ plays <= 1
    /\ ~lost
    /\ plays = 1 /\ ~mediaHandler =>
          /\ Asked(1) \/ Told(1) \/ AtRest(1)
          /\ server[1] # "playing"
          /\ handshake[1] = "setup" => channels
    /\ mediaHandler => plays = 1 /\ handshake[1] \in {"play", "over"}

(* Only a play that was begun has a handshake, a request or a session.     *)
LEMMA BegunOnly ==
    ASSUME Data, AlarmInv, FreshInv, plays <= 1, NEW p \in Plays,
           \/ socket[p] # "none" \/ handshake[p] # "none"
           \/ wire[p] # <<>> \/ server[p] # "none"
    PROVE  p = 1 /\ plays = 1
BY RtspAssumption DEF Data, AlarmInv, FreshInv, Plays

(* A request goes to an open socket only.                                  *)
LEMMA SendFresh ==
    ASSUME Data, NEW sockets, NEW request, NEW by, SendOn(sockets, request, by),
           NEW p \in Plays, sockets[p] # "open"
    PROVE  wire'[p] = wire[p]
BY DEF SendOn, Data

LEMMA FreshNext ==
    ASSUME Data, Flags, AlarmInv, FreshInv, Next
    PROVE  FreshInv'
<1> USE DEF history, timing, client
<1>0. UNCHANGED <<socket, handshake, wire, server>> => FreshInv'
  BY DEF FreshInv
<1>1. CASE Play
  BY <1>1, RtspAssumption DEF Play, FreshInv, AlarmInv, Data, Plays
<1>2. CASE Stop \/ Pause \/ Resume
  <2>1. UNCHANGED <<socket, handshake, server>>
    BY <1>2 DEF Stop, Pause, Resume, Command
  <2>2. ASSUME NEW p \in Plays, socket[p] # "open" PROVE wire'[p] = wire[p]
    BY <1>2, <2>2, SendFresh DEF Stop, StopSession, Pause, Resume, Send
  <2> QED
    BY <2>1, <2>2 DEF FreshInv
<1>4. ASSUME NEW q \in Plays, Open(q) PROVE FreshInv'
  <2>1. /\ socket' = [socket EXCEPT ![q] = "open"]
        /\ handshake' = [handshake EXCEPT ![q] = "describe"]
        /\ SendOn(socket', "describe", q)
        /\ UNCHANGED server
    BY <1>4 DEF Open
  <2>2. ASSUME NEW p \in Plays, socket'[p] # "open" PROVE wire'[p] = wire[p]
    BY <2>1, <2>2, SendFresh
  <2> QED
    BY <2>1, <2>2 DEF FreshInv, Data
<1>5. ASSUME NEW q \in Plays, Close(q) PROVE FreshInv'
  BY <1>5 DEF Close, FreshInv, Data
<1>6. ASSUME NEW q \in Plays, Answer(q) PROVE FreshInv'
  <2>1. /\ wire[q] # <<>> /\ wire' = [wire EXCEPT ![q] = Tail(@)]
        /\ UNCHANGED <<socket, handshake>>
    BY <1>6 DEF Answer
  <2>2. \A p \in Plays : p # q => server'[p] = server[p]
    BY <1>6 DEF Answer, Data
  <2> QED
    BY <2>1, <2>2 DEF FreshInv, Data
<1>7. ASSUME NEW q \in Plays, AnswerBegins(q) PROVE FreshInv'
  BY <1>0, <1>7 DEF AnswerBegins
<1>8. ASSUME NEW q \in Plays, Rtp(q) PROVE FreshInv'
  BY <1>0, <1>8 DEF Rtp
<1>9. ASSUME NEW c \in Plays, Take(c) PROVE FreshInv'
  <2>1. UNCHANGED <<socket, server>>
    BY <1>9, TakeFlags
  <2>2. handshake[c] # "none" /\ \A p \in Plays : p # c => handshake'[p] = handshake[p]
    BY <1>9 DEF Take, Challenged, Described, SetUp, Success, Over, Waits, Continue, Handshakes, Data
  <2>3. ASSUME NEW p \in Plays, socket[p] # "open" PROVE wire'[p] = wire[p]
    BY <1>9, <2>3, SendFresh DEF Take, Challenged, Described, SetUp, Success, Over, Send
  <2> QED
    BY <2>1, <2>2, <2>3 DEF FreshInv
<1>10. ASSUME NEW t \in Plays, Tick(t) PROVE FreshInv'
  <2>1. UNCHANGED <<socket, handshake, server>>
    BY <1>10, TickCases
  <2>2. ASSUME NEW p \in Plays, socket[p] # "open" PROVE wire'[p] = wire[p]
    BY <1>10, <2>2, TickCases, SendFresh DEF StopSession, Send
  <2> QED
    BY <2>1, <2>2 DEF FreshInv
<1> QED
  BY <1>1, <1>2, <1>4, <1>5, <1>6, <1>7, <1>8, <1>9, <1>10 DEF Next

(* The step of a handshake that nobody disturbed.                          *)
LEMMA TakeMatches ==
    ASSUME Data, Flags, AlarmInv, FreshInv, MatchInv, ~disturbed, NEW c \in Plays, Take(c)
    PROVE  MatchInv'
<1>1. /\ plays <= 1 /\ ~lost /\ c = 1 /\ plays = 1 /\ 1 \in Plays
      /\ UNCHANGED <<plays, disturbed, lost, server, response, socket>>
  <2>1. handshake[c] # "none"
    BY DEF Take, Challenged, Described, SetUp, Success, Over, Waits, Handshakes
  <2> QED
    BY <2>1, BegunOnly, TakeFlags DEF MatchInv, history
<1>2. CASE mediaHandler
  <2>1. Over(c)
    BY <1>1, <1>2, LastAnswer DEF MatchInv, Handshakes
  <2>2. handshake'[1] = "over" /\ UNCHANGED mediaHandler
    BY <1>1, <2>1 DEF Over, Continue, Data
  <2> QED
    BY <1>1, <1>2, <2>2 DEF MatchInv
<1>3. CASE ~mediaHandler
  <2>1. /\ Told(1) /\ queued' = 0 /\ server[1] # "playing"
        /\ handshake[1] = "setup" => channels
    BY <1>1, <1>3, TakeData DEF MatchInv, Asked, Told, AtRest
  <2>2. ASSUME NEW request \in Handshakes, Send(request, 1), handshake'[1] = request,
               UNCHANGED mediaHandler, request = "setup" => channels'
        PROVE  MatchInv'
    <3>1. wire'[1] = <<>> \/ wire'[1] = <<[request |-> request, by |-> 1]>>
      <4> DEFINE message == [request |-> request, by |-> 1]
      <4>1. wire[1] = <<>> /\ Append(<<>>, message) = <<message>>
        BY <2>1 DEF Told
      <4>2. wire' = wire \/ wire' = [wire EXCEPT ![1] = Append(@, message)]
        BY <1>1, <2>2 DEF Send, SendOn
      <4> QED
        BY <1>1, <4>1, <4>2 DEF Data
    <3> QED
      BY <1>1, <1>3, <2>1, <2>2, <3>1 DEF MatchInv, Asked
  <2>3. ASSUME UNCHANGED <<wire, mediaHandler>>, handshake'[1] = "over"
        PROVE  MatchInv'
    BY <1>1, <1>3, <2>1, <2>3 DEF MatchInv, Told, AtRest, Handshakes
  <2>4. CASE Challenged(c)
    <3>1. UNCHANGED mediaHandler
      BY <2>4 DEF Challenged
    <3>2. CASE HasCredentials
      <4>1. Send("auth", 1) /\ handshake'[1] = "auth"
        BY <1>1, <2>4, <3>2 DEF Challenged, Continue, Data
      <4> QED
        BY <2>2, <3>1, <4>1 DEF Handshakes
    <3>3. CASE ~HasCredentials
      BY <1>1, <2>3, <2>4, <3>1, <3>3 DEF Challenged, Continue, Data
    <3> QED
      BY <3>2, <3>3
  <2>5. CASE Described(c)
    <3>1. /\ UNCHANGED mediaHandler
          /\ handshake[1] \in {"describe", "auth"}
      BY <1>1, <2>5 DEF Described, Waits
    <3>2. response.request \in {"describe", "auth"}
      BY <2>1, <3>1 DEF Told
    <3>3. Send("setup", 1) /\ handshake'[1] = "setup" /\ channels'
      BY <1>1, <2>5, <3>2 DEF Described, Continue, Data
    <3> QED
      BY <2>2, <3>1, <3>3 DEF Handshakes
  <2>6. CASE SetUp(c)
    <3>1. /\ handshake[1] = "setup" /\ Send("setup", 1)
          /\ UNCHANGED <<handshake, channels, mediaHandler>>
      BY <1>1, <2>6 DEF SetUp, Waits
    <3> QED
      BY <2>1, <2>2, <3>1 DEF Handshakes
  <2>7. CASE Success(c)
    <3>1. handshake[1] = "setup" /\ handshake'[1] = "play"
      BY <1>1, <2>7 DEF Success, Waits, Continue, Data
    <3>2. mediaHandler'
      BY <2>1, <2>7, <3>1 DEF Success
    <3> QED
      BY <1>1, <3>1, <3>2 DEF MatchInv
  <2>8. CASE Over(c)
    BY <1>1, <2>3, <2>8 DEF Over, Continue, Data
  <2> QED
    BY <2>4, <2>5, <2>6, <2>7, <2>8 DEF Take
<1> QED
  BY <1>2, <1>3

LEMMA MatchNext ==
    ASSUME Data, Flags, AlarmInv, FreshInv, MatchInv, Next
    PROVE  MatchInv'
<1> USE DEF history, timing, client
<1>0. UNCHANGED <<plays, lost, disturbed, mediaHandler, handshake, queued, wire, response, server,
                  channels>> => MatchInv'
  BY DEF MatchInv, Asked, Told, AtRest
<1>1. CASE Play
  <2> SUFFICES ASSUME ~disturbed' PROVE MatchInv'
    BY DEF MatchInv
  <2>1. /\ ~disturbed /\ plays = 0 /\ plays' = 1 /\ queued' = 0 /\ plays < MaxPlays
        /\ UNCHANGED <<wire, server, handshake, response, mediaHandler, lost>>
    <3>1. /\ disturbed' = (disturbed \/ plays > 0) /\ plays' = plays + 1 /\ queued' = 0
          /\ plays < MaxPlays
          /\ UNCHANGED <<wire, server, handshake, response, mediaHandler, lost>>
      BY <1>1 DEF Play, initBuffer
    <3>2. ~(plays > 0) /\ ~disturbed
      BY <3>1, Zenon
    <3>3. plays = 0
      BY <3>2, RtspAssumption DEF Data
    <3> QED
      BY <3>1, <3>2, <3>3
  <2>2. 1 \in Plays /\ handshake[1] = "none" /\ wire[1] = <<>> /\ server[1] = "none"
    BY <2>1, RtspAssumption DEF AlarmInv, FreshInv, Plays
  <2> QED
    BY <2>1, <2>2 DEF MatchInv, AtRest, Handshakes
<1>2. CASE Stop \/ Pause \/ Resume
  <2>1. /\ disturbed' = (disturbed \/ ~mediaHandler)
        /\ UNCHANGED <<plays, handshake, mediaHandler, lost>>
    BY <1>2 DEF Stop, Pause, Resume, Command
  <2> QED
    BY <2>1 DEF MatchInv
<1>4. ASSUME NEW p \in Plays, Open(p) PROVE MatchInv'
  <2> SUFFICES ASSUME ~disturbed' PROVE MatchInv'
    BY DEF MatchInv
  <2>1. /\ socket[p] = "connecting" /\ socket' = [socket EXCEPT ![p] = "open"]
        /\ handshake' = [handshake EXCEPT ![p] = "describe"]
        /\ SendOn(socket', "describe", p)
        /\ UNCHANGED <<plays, server, queued, response, mediaHandler, lost, disturbed>>
    BY <1>4 DEF Open
  <2>2. p = 1 /\ plays = 1 /\ ~mediaHandler /\ ~lost /\ queued = 0 /\ wire[1] = <<>>
        /\ server[1] # "playing"
    BY <2>1, BegunOnly DEF MatchInv, FreshInv, Asked, Told, AtRest, Handshakes
  <2>3. wire'[1] = <<[request |-> "describe", by |-> 1]>> /\ handshake'[1] = "describe"
    BY <2>1, <2>2 DEF SendOn, Data
  <2> QED
    BY <2>1, <2>2, <2>3 DEF MatchInv, Asked, Handshakes
<1>5. ASSUME NEW p \in Plays, Close(p) PROVE MatchInv'
  <2>1. /\ socket[p] # "none" /\ wire' = [wire EXCEPT ![p] = <<>>]
        /\ server' = [server EXCEPT ![p] = "none"]
        /\ UNCHANGED <<plays, handshake, queued, response, channels, mediaHandler, lost, disturbed>>
    BY <1>5 DEF Close
  <2>2. plays <= 1 => p = 1
    BY <2>1, BegunOnly
  <2>3. wire'[p] = <<>> /\ server'[p] = "none"
    BY <2>1 DEF Data
  <2> QED
    BY <2>1, <2>2, <2>3 DEF MatchInv, Asked, Told, AtRest
<1>6. ASSUME NEW p \in Plays, Answer(p) PROVE MatchInv'
  <2> SUFFICES ASSUME ~disturbed' PROVE MatchInv'
    BY DEF MatchInv
  <2>1. /\ wire[p] # <<>> /\ wire' = [wire EXCEPT ![p] = Tail(@)] /\ queued' = queued + 1
        /\ UNCHANGED <<plays, handshake, channels, mediaHandler, lost, disturbed>>
    BY <1>6 DEF Answer
  <2>2. p = 1 /\ plays = 1 /\ ~lost
    BY <2>1, BegunOnly DEF MatchInv
  <2>3. CASE mediaHandler
    BY <2>1, <2>2, <2>3 DEF MatchInv
  <2>4. CASE ~mediaHandler
    <3>1. /\ handshake[1] \in Handshakes /\ queued = 0 /\ server[1] # "playing"
          /\ wire[1] = <<[request |-> handshake[1], by |-> 1]>>
          /\ handshake[1] = "setup" => channels
      BY <2>1, <2>2, <2>4 DEF MatchInv, Asked, Told, AtRest
    <3>2. wire'[1] = <<>> /\ Head(wire[1]) = [request |-> handshake[1], by |-> 1]
      BY <2>1, <2>2, <3>1 DEF Data
    <3>3. \E status \in {200, 401, 404} :
             response' = [request |-> handshake[1], by |-> 1, status |-> status]
      BY <1>6, <2>2, <3>2 DEF Answer
    <3>4. Serve(server[1], handshake[1]) # "playing"
      BY <3>1 DEF Serve, Handshakes
    <3>5. server'[1] = server[1] \/ server'[1] = Serve(server[1], handshake[1])
      BY <1>6, <2>2, <3>2 DEF Answer, Data
    <3> QED
      BY <2>1, <2>2, <2>4, <3>1, <3>2, <3>3, <3>4, <3>5 DEF MatchInv, Told
  <2> QED
    BY <2>3, <2>4
<1>7. ASSUME NEW p \in Plays, AnswerBegins(p) PROVE MatchInv'
  <2>1. /\ wire[p] # <<>> /\ queued > 0
        /\ UNCHANGED <<plays, lost, disturbed, mediaHandler, handshake>>
    BY <1>7 DEF AnswerBegins
  <2>2. ~disturbed => mediaHandler
    BY <2>1, BegunOnly DEF MatchInv, Asked, Told, AtRest
  <2> QED
    BY <2>1, <2>2 DEF MatchInv
<1>8. ASSUME NEW p \in Plays, Rtp(p) PROVE MatchInv'
  <2>1. /\ server[p] = "playing" /\ lost' = (lost \/ (channels /\ ~mediaHandler))
        /\ UNCHANGED <<plays, disturbed, mediaHandler, handshake, queued, wire, response, server, channels>>
    BY <1>8 DEF Rtp
  <2>2. ~disturbed => mediaHandler
    BY <2>1, BegunOnly DEF MatchInv
  <2> QED
    BY <2>1, <2>2 DEF MatchInv
<1>9. ASSUME NEW c \in Plays, Take(c) PROVE MatchInv'
  BY <1>9, TakeMatches, TakeFlags DEF MatchInv
<1>10. ASSUME NEW t \in Plays, Tick(t) PROVE MatchInv'
  <2>1. CASE UNCHANGED <<wire, client, timers, history>>
    BY <1>0, <1>10, <2>1, TickCases
  <2>2. CASE disturbed' = (disturbed \/ ~mediaHandler)
    BY <1>10, <2>2, TickCases DEF MatchInv
  <2> QED
    BY <1>10, <2>1, <2>2, TickCases
<1> QED
  BY <1>1, <1>2, <1>4, <1>5, <1>6, <1>7, <1>8, <1>9, <1>10 DEF Next

LEMMA MatchInvariant == Spec => [](Data /\ AlarmInv /\ FreshInv /\ MatchInv)
<1>1. Init => AlarmInv /\ FreshInv /\ MatchInv
  BY RtspAssumption DEF Init, AlarmInv, FreshInv, MatchInv
<1>2. AlarmInv /\ FreshInv /\ MatchInv /\ UNCHANGED vars => AlarmInv' /\ FreshInv' /\ MatchInv'
  BY DEF vars, AlarmInv, FreshInv, MatchInv, Asked, Told, AtRest
<1> QED
  BY <1>1, <1>2, AlarmNext, FreshNext, MatchNext, TypesInvariant, PTL DEF Spec

(* Without CSeq: the answers that waitRtspResponse() takes are those the   *)
(* handshake asked for, until somebody interferes.                         *)
THEOREM AnswersAreRight == Spec => []AnswersMatch
<1>1. Data /\ AlarmInv /\ FreshInv /\ MatchInv => AnswersMatch
  <2> SUFFICES ASSUME Data, AlarmInv, FreshInv, MatchInv, ~disturbed, NEW c \in Plays,
                      handshake[c] \in Handshakes, queued > 0
               PROVE  queued = 1 /\ response.by = c /\ response.request = handshake[c]
                      /\ response.status # 0
    BY DEF AnswersMatch
  <2>1. c = 1 /\ plays = 1
    BY BegunOnly DEF MatchInv, Handshakes
  <2> QED
    BY <2>1 DEF MatchInv, Asked, Told, AtRest, Handshakes
<1> QED
  BY <1>1, MatchInvariant, PTL

(* The player has its handlers (resolve()) before the server is asked to   *)
(* send (sendPlay()).                                                      *)
THEOREM ReadyInTime == Spec => []NothingMissed
<1>1. MatchInv => NothingMissed
  BY DEF MatchInv, NothingMissed
<1> QED
  BY <1>1, MatchInvariant, PTL
=============================================================================
