----------------------------- MODULE OpenClose -----------------------------
(***************************************************************************)
(* The life of the native player from one file to the next: Play() and     *)
(* stop() of mediafunction.cpp on the user's thread, playInThread() on the *)
(* entrance thread, and the end of the streams, counted in m_releaseIndex, *)
(* which stops the session from within.                                    *)
(*                                                                         *)
(* What MediaSession models step by step is one step here: a stop() that   *)
(* finds a session ends it, and a renderer counts and compares its end at  *)
(* once.                                                                   *)
(***************************************************************************)
EXTENDS Naturals

CONSTANTS
    Files,       \* names of files; every file has NumStreams streams
    NoFile,      \* the empty name
    NumStreams,
    MaxCommands  \* bound: calls of PlayFile() and Stop()

ASSUME OpenCloseAssumption ==
    /\ NoFile \notin Files
    /\ NumStreams \in Nat \ {0}
    /\ MaxCommands \in Nat

VARIABLES
    fileName,      \* MediaData::m_FileName
    commands,      \* calls of PlayFile() and Stop()
    user,          \* "free", or "start": in Play(), about to start the entrance thread
    spawned,       \* entrance threads started that have not entered yet
    entrance,      \* the one that runs: "off", "create", "init", "leave"
    opening,       \* the name it has read
    demuxer,       \* m_pDemuxerUnknow is set
    session,       \* the file that m_pDemuxThread and the other threads play
    playing,       \* streams whose renderer has not seen the end yet
    releaseIndex,  \* MediaData::m_releaseIndex
    started,       \* history: entrance threads started
    answers,       \* history: calls of openFinshType()
    silent,        \* history: opens that ended because there was no demuxer
    failures,      \* history: opens that failed
    leaked,        \* history: demuxers that m_pDemuxerUnknow forgot
    orphaned,      \* history: a session lost m_pDemuxThread to the next one
    early,         \* history: playFinsh() came before the end of some stream
    hasty,         \* history: a command came during an open
    cut,           \* history: a session was stopped between the ends of its streams
    stopped        \* history: the last command was an accepted Stop()

vars == <<fileName, commands, user, spawned, entrance, opening, demuxer, session, playing,
          releaseIndex, started, answers, silent, failures, leaked, orphaned, early, hasty, cut,
          stopped>>

answerVars == <<started, answers, silent>>

Streams == 1..NumStreams
isRunning == entrance # "off"
Opening == isRunning \/ spawned > 0

Init ==
    /\ fileName = NoFile
    /\ commands = 0
    /\ user = "free"
    /\ spawned = 0
    /\ entrance = "off"
    /\ opening = NoFile
    /\ demuxer = FALSE
    /\ session = NoFile
    /\ playing = {}
    /\ releaseIndex = 0
    /\ started = 0
    /\ answers = 0
    /\ silent = 0
    /\ failures = 0
    /\ leaked = 0
    /\ orphaned = FALSE
    /\ early = FALSE
    /\ hasty = FALSE
    /\ cut = FALSE
    /\ stopped = FALSE

(* Mutant: clearData() forgets the demuxer without releasing it.           *)
StopSessionKeepsDemuxer(ended) ==
    IF isRunning \/ session = NoFile
    THEN playing' = ended /\ UNCHANGED <<session, demuxer>>
    ELSE /\ session' = NoFile
         /\ playing' = {}
         /\ UNCHANGED demuxer

(* Mutant: the renderers go on.                                            *)
StopSessionOnly(ended) ==
    IF isRunning \/ session = NoFile
    THEN playing' = ended /\ UNCHANGED <<session, demuxer>>
    ELSE /\ session' = NoFile
         /\ playing' = ended
         /\ demuxer' = FALSE

(* stop(): without effect while the entrance thread runs.  "ended" are the *)
(* streams that still play if it has none.                                 *)
StopSession(ended) ==
    IF isRunning \/ session = NoFile
    THEN playing' = ended /\ UNCHANGED <<session, demuxer>>
    ELSE /\ session' = NoFile
         /\ playing' = {}
         /\ demuxer' = FALSE

Cuts == ~isRunning /\ session # NoFile /\ releaseIndex # 0
-----------------------------------------------------------------------------
(* The user's thread                                                       *)

Command ==
    /\ user = "free"
    /\ commands < MaxCommands
    /\ commands' = commands + 1
    /\ hasty' = (hasty \/ Opening)
    /\ UNCHANGED <<spawned, entrance, opening, releaseIndex, answerVars, failures, leaked,
                   orphaned, early>>

(* Mutant: Play() does not stop what plays.                                *)
PlayFileOnly(f) ==
    /\ Command
    /\ fileName' = f
    /\ stopped' = FALSE
    /\ user' = IF isRunning THEN "free" ELSE "start"
    /\ UNCHANGED <<session, playing, demuxer, cut>>

(* PlayFile(): SetFileName() and Play(), up to start() of the entrance     *)
(* thread.                                                                 *)
PlayFile(f) ==
    /\ Command
    /\ fileName' = f
    /\ stopped' = FALSE
    /\ user' = IF isRunning THEN "free" ELSE "start"
    /\ StopSession(playing)
    /\ cut' = (cut \/ Cuts)

Start ==
    /\ user = "start"
    /\ user' = "free"
    /\ IF isRunning
       THEN UNCHANGED <<spawned, started>>
       ELSE spawned' = spawned + 1 /\ started' = started + 1
    /\ UNCHANGED <<fileName, commands, entrance, opening, demuxer, session, playing,
                   releaseIndex, answers, silent, failures, leaked, orphaned, early, hasty,
                   cut, stopped>>

(* MediaPlayer::Stop(): the name is cleared whatever stop() did.           *)
Stop ==
    /\ Command
    /\ StopSession(playing)
    /\ cut' = (cut \/ Cuts)
    /\ fileName' = NoFile
    /\ stopped' = ~Opening
    /\ UNCHANGED user
-----------------------------------------------------------------------------
(* playInThread()                                                          *)

(* Several entrance threads run one after the other, by the mutex of their *)
(* worker.                                                                 *)
Enters ==
    /\ spawned > 0
    /\ entrance = "off"
    /\ spawned' = spawned - 1
    /\ leaked' = IF demuxer THEN leaked + 1 ELSE leaked
    /\ UNCHANGED <<fileName, commands, user, opening, session, playing, releaseIndex, started,
                   answers, failures, orphaned, early, hasty, cut, stopped>>

(* createDemuxerUNknown(), whose result overwrites m_pDemuxerUnknow.  The  *)
(* application's delegate may make none: playInThread() then returns       *)
(* without a call of openFinshType().                                      *)
Enter ==
    /\ Enters
    /\ \/ entrance' = "create" /\ demuxer' = TRUE /\ UNCHANGED silent
       \/ entrance' = "leave" /\ demuxer' = FALSE /\ silent' = silent + 1

ReadFileName ==
    /\ entrance = "create"
    /\ entrance' = "init"
    /\ opening' = fileName
    /\ UNCHANGED <<fileName, commands, user, spawned, demuxer, session, playing, releaseIndex,
                   answerVars, failures, leaked, orphaned, early, hasty, cut, stopped>>

(* Mutant: an error is not reported.                                       *)
OpenFailsSilently ==
    /\ entrance = "init"
    /\ entrance' = "leave"
    /\ failures' = failures + 1
    /\ UNCHANGED <<fileName, commands, user, spawned, opening, demuxer, session, playing,
                   releaseIndex, answerVars, leaked, orphaned, early, hasty, cut, stopped>>

(* openFinshType(0); the demuxer is kept until the next open.              *)
OpenFails ==
    /\ entrance = "init"
    /\ entrance' = "leave"
    /\ failures' = failures + 1
    /\ answers' = answers + 1
    /\ UNCHANGED <<fileName, commands, user, spawned, opening, demuxer, session, playing,
                   releaseIndex, started, silent, leaked, orphaned, early, hasty, cut, stopped>>

(* setStreamCount(), openFinshType(1) and openFileSuccess()                *)
OpenSucceeds ==
    /\ entrance = "init"
    /\ opening # NoFile
    /\ entrance' = "leave"
    /\ answers' = answers + 1
    /\ orphaned' = (orphaned \/ session # NoFile)
    /\ session' = opening
    /\ playing' = Streams
    /\ UNCHANGED <<fileName, commands, user, spawned, opening, demuxer, releaseIndex, started,
                   silent, failures, leaked, early, hasty, cut, stopped>>

Leave ==
    /\ entrance = "leave"
    /\ entrance' = "off"
    /\ UNCHANGED <<fileName, commands, user, spawned, opening, demuxer, session, playing,
                   releaseIndex, answerVars, failures, leaked, orphaned, early, hasty, cut,
                   stopped>>
-----------------------------------------------------------------------------
(* Mutant: the count is compared with one stream less.                     *)
ReleaseRenderOffByOne(s) ==
    /\ s \in playing
    /\ IF releaseIndex + 2 >= NumStreams
       THEN /\ early' = (early \/ playing # {s})
            /\ StopSession(playing \ {s})
            /\ releaseIndex' = 0
       ELSE /\ releaseIndex' = releaseIndex + 1
            /\ playing' = playing \ {s}
            /\ UNCHANGED <<early, session, demuxer>>
    /\ UNCHANGED <<fileName, commands, user, spawned, entrance, opening, answerVars, failures,
                   leaked, orphaned, hasty, cut, stopped>>

(* releaseRender(), at the end frame of a stream: playFinsh() and stop().  *)
ReleaseRender(s) ==
    /\ s \in playing
    /\ IF releaseIndex + 1 = NumStreams
       THEN /\ early' = (early \/ playing # {s})
            /\ StopSession(playing \ {s})
            /\ releaseIndex' = 0
       ELSE /\ releaseIndex' = releaseIndex + 1
            /\ playing' = playing \ {s}
            /\ UNCHANGED <<early, session, demuxer>>
    /\ UNCHANGED <<fileName, commands, user, spawned, entrance, opening, answerVars, failures,
                   leaked, orphaned, hasty, cut, stopped>>

Open == OpenFails \/ OpenSucceeds

Next ==
    \/ \E f \in Files : PlayFile(f)
    \/ Start \/ Stop
    \/ Enter \/ ReadFileName \/ Open \/ Leave
    \/ \E s \in Streams : ReleaseRender(s)

Spec == Init /\ [][Next]_vars

(* Threads get to run and an open comes to an end; files need not.         *)
FairSpec ==
    /\ Spec
    /\ WF_vars(Start) /\ WF_vars(Enter) /\ WF_vars(ReadFileName) /\ WF_vars(Open) /\ WF_vars(Leave)
-----------------------------------------------------------------------------
(* Types; the end of all streams is never left uncounted.                  *)
TypeOK ==
    /\ {fileName, opening, session} \subseteq Files \cup {NoFile}
    /\ {commands, spawned} \subseteq 0..MaxCommands
    /\ user \in {"free", "start"}
    /\ entrance \in {"off", "create", "init", "leave"}
    /\ playing \subseteq Streams
    /\ releaseIndex \in 0..(NumStreams - 1)
    /\ {demuxer, orphaned, early, hasty, cut, stopped} \subseteq BOOLEAN
    /\ {started, answers, silent, failures, leaked} \subseteq Nat

(* One session at a time, and of the file that was asked for last, if      *)
(* nobody gives a command during an open: Play() is ignored then, but has  *)
(* changed the name; and one that comes before the entrance thread has     *)
(* entered starts a second one, whose session takes the place of the first.*)
PlaysWhatWasAsked == ~hasty => session \in {NoFile, fileName} /\ ~orphaned

(* A demuxer is released before the next one is made, except after an open *)
(* that failed: each costs one demuxer.                                    *)
LeaksBoundedByFailures == ~hasty => leaked <= failures

(* playFinsh() means that every stream was shown to its end.  A stop()     *)
(* between the ends of two streams leaves m_releaseIndex behind, and so    *)
(* does a session that takes the place of another: only then a later file  *)
(* is stopped early.                                                       *)
FinishIsTheEnd == early => cut \/ orphaned

(* After a Stop() that came at rest nothing plays or opens before the next *)
(* PlayFile(), unless a session had been replaced by another one before.   *)
StopHolds == stopped /\ ~orphaned => session = NoFile /\ playing = {} /\ ~Opening

(* Every entrance thread that a Play() starts reports back: the n-th start *)
(* is followed by an n-th call of openFinshType(), also when several opens *)
(* overlap or fail, unless there was no demuxer to open with.              *)
PlayIsAnswered ==
    \A n \in 1..MaxCommands : (started >= n) ~> (answers + silent >= n)
=============================================================================
