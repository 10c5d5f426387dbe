-------------------------- MODULE OpenCloseProofs --------------------------
(***************************************************************************)
(* What holds of opening and closing for any files, any number of streams  *)
(* and of commands.  The inductive invariant Ind says where a play can be  *)
(* while nobody is hasty (AskedInv), accounts for every demuxer (LeakInv)  *)
(* and for the end of every stream (EndsInv), and ties the renderers to    *)
(* the session (SessionInv).                                               *)
(***************************************************************************)
EXTENDS OpenClose, FiniteSetTheorems, TLAPS

(* Every spawned thread goes back to a command of its own.                 *)
SpawnInv == spawned + (IF user = "start" THEN 1 ELSE 0) <= commands

SessionInv == session = NoFile => playing = {}

(* A play that nobody disturbs: Play(), one thread, one session.           *)
AskedInv ==
    ~hasty =>
        /\ ~orphaned
        /\ spawned \in {0, 1}
        /\ session \in {NoFile, fileName}
        /\ user = "start" => ~Opening
        /\ spawned > 0 => entrance = "off"
        /\ user = "start" \/ spawned > 0 \/ entrance \in {"create", "init"} => session = NoFile
        /\ entrance = "init" => opening = fileName

(* A demuxer without a session and without an open is that of a failure.   *)
Forgotten == demuxer /\ session = NoFile /\ entrance \in {"off", "leave"}

LeakInv == ~hasty => leaked + (IF Forgotten THEN 1 ELSE 0) <= failures

(* The streams that end and those that have ended are all there are.       *)
EndsInv ==
    ~cut /\ ~orphaned =>
        IF session # NoFile /\ playing # {}
        THEN releaseIndex + Cardinality(playing) = NumStreams
        ELSE session = NoFile => releaseIndex = 0

(* A session whose stop() was ignored at its end has counted them all.     *)
CountInv == ~cut /\ ~orphaned /\ playing = {} => releaseIndex = 0

QuietInv == stopped /\ ~orphaned => session = NoFile /\ ~Opening /\ user = "free"

Ind ==
    /\ TypeOK
    /\ SpawnInv
    /\ SessionInv
    /\ AskedInv
    /\ LeakInv
    /\ EndsInv
    /\ CountInv
    /\ FinishIsTheEnd
    /\ QuietInv

LEMMA InitInd == Init => Ind
<1> SUFFICES ASSUME Init PROVE Ind
  OBVIOUS
<1> USE OpenCloseAssumption DEF Init
<1>1. TypeOK
  <2>1. {demuxer, orphaned, early, hasty, cut, stopped} \subseteq BOOLEAN
    BY Zenon
  <2>2. releaseIndex \in 0..(NumStreams - 1)
    OBVIOUS
  <2> QED
    BY <2>1, <2>2 DEF TypeOK
<1>2. SpawnInv /\ SessionInv /\ FinishIsTheEnd
  BY DEF SpawnInv, SessionInv, FinishIsTheEnd
<1>3. AskedInv /\ QuietInv
  BY DEF AskedInv, QuietInv, Opening, isRunning
<1>4. LeakInv
  BY DEF LeakInv, Forgotten
<1>5. EndsInv /\ CountInv
  BY DEF EndsInv, CountInv
<1> QED
  BY <1>1, <1>2, <1>3, <1>4, <1>5 DEF Ind

LEMMA NextType == TypeOK /\ SpawnInv /\ Next => TypeOK' /\ SpawnInv'
<1> SUFFICES ASSUME TypeOK, SpawnInv, Next PROVE TypeOK' /\ SpawnInv'
  OBVIOUS
<1> USE OpenCloseAssumption DEF TypeOK, SpawnInv, answerVars
<1>1. ASSUME NEW f \in Files, PlayFile(f) PROVE TypeOK' /\ SpawnInv'
  <2>1. hasty' \in BOOLEAN /\ cut' \in BOOLEAN /\ stopped' \in BOOLEAN
    BY <1>1, Zenon DEF PlayFile, Command
  <2>2. playing' \subseteq Streams /\ session' \in Files \cup {NoFile}
    BY <1>1 DEF PlayFile, StopSession
  <2>3. demuxer' \in BOOLEAN
    BY <1>1, Zenon DEF PlayFile, StopSession
  <2>4. /\ user' \in {"free", "start"}
        /\ commands' \in 0..MaxCommands
        /\ SpawnInv'
    BY <1>1 DEF PlayFile, Command
  <2>5. /\ fileName' \in Files
        /\ UNCHANGED <<spawned, entrance, opening, releaseIndex, answerVars, failures, leaked,
                       orphaned, early>>
    BY <1>1 DEF PlayFile, Command
  <2>6. {demuxer', orphaned', early', hasty', cut', stopped'} \subseteq BOOLEAN
    BY <2>1, <2>3, <2>5, Zenon
  <2> QED
    BY <2>2, <2>4, <2>5, <2>6
<1>2. ASSUME Stop PROVE TypeOK' /\ SpawnInv'
  <2>1. hasty' \in BOOLEAN /\ cut' \in BOOLEAN /\ stopped' \in BOOLEAN
    BY <1>2, Zenon DEF Stop, Command
  <2>2. playing' \subseteq Streams /\ session' \in Files \cup {NoFile}
    BY <1>2 DEF Stop, StopSession
  <2>3. demuxer' \in BOOLEAN
    BY <1>2, Zenon DEF Stop, StopSession
  <2>4. /\ commands' \in 0..MaxCommands
        /\ SpawnInv'
    BY <1>2 DEF Stop, Command
  <2>5. /\ fileName' = NoFile
        /\ UNCHANGED <<user, spawned, entrance, opening, releaseIndex, answerVars, failures,
                       leaked, orphaned, early>>
    BY <1>2 DEF Stop, Command
  <2>6. {demuxer', orphaned', early', hasty', cut', stopped'} \subseteq BOOLEAN
    BY <2>1, <2>3, <2>5, Zenon
  <2> QED
    BY <2>2, <2>4, <2>5, <2>6
<1>3. ASSUME Start PROVE TypeOK' /\ SpawnInv'
  <2>1. spawned' \in 0..MaxCommands /\ SpawnInv' /\ started' \in Nat
    BY <1>3 DEF Start
  <2> QED
    BY <1>3, <2>1 DEF Start
<1>4. ASSUME Enter PROVE TypeOK' /\ SpawnInv'
  <2>1. /\ spawned' \in 0..MaxCommands
        /\ SpawnInv'
        /\ leaked' \in Nat
    BY <1>4 DEF Enter, Enters
  <2>2. demuxer' \in BOOLEAN
    BY <1>4, Zenon DEF Enter
  <2>3. entrance' \in {"off", "create", "init", "leave"} /\ silent' \in Nat
    BY <1>4 DEF Enter
  <2>4. UNCHANGED <<fileName, commands, user, opening, session, playing, releaseIndex, started,
                    answers, failures, orphaned, early, hasty, cut, stopped>>
    BY <1>4 DEF Enter, Enters
  <2> QED
    BY <2>1, <2>2, <2>3, <2>4
<1>5. ASSUME ReadFileName \/ Leave PROVE TypeOK' /\ SpawnInv'
  BY <1>5 DEF ReadFileName, Leave
<1>6. ASSUME OpenFails PROVE TypeOK' /\ SpawnInv'
  BY <1>6 DEF OpenFails
<1>7. ASSUME OpenSucceeds PROVE TypeOK' /\ SpawnInv'
  <2>1. orphaned' \in BOOLEAN
    BY <1>7, Zenon DEF OpenSucceeds
  <2> QED
    BY <1>7, <2>1 DEF OpenSucceeds
<1>8. ASSUME NEW s \in Streams, ReleaseRender(s) PROVE TypeOK' /\ SpawnInv'
  <2>1. early' \in BOOLEAN
    BY <1>8, Zenon DEF ReleaseRender
  <2>2. releaseIndex' \in 0..(NumStreams - 1)
    BY <1>8 DEF ReleaseRender
  <2>3. playing' \subseteq Streams /\ session' \in Files \cup {NoFile} /\ demuxer' \in BOOLEAN
    BY <1>8 DEF ReleaseRender, StopSession
  <2> QED
    BY <1>8, <2>1, <2>2, <2>3 DEF ReleaseRender
<1> QED
  BY <1>1, <1>2, <1>3, <1>4, <1>5, <1>6, <1>7, <1>8 DEF Next, Open

LEMMA NextSession == TypeOK /\ SessionInv /\ Next => SessionInv'
<1> SUFFICES ASSUME TypeOK, SessionInv, Next PROVE SessionInv'
  OBVIOUS
<1> USE OpenCloseAssumption DEF SessionInv
<1>1. ASSUME NEW f \in Files, PlayFile(f) PROVE SessionInv'
  BY <1>1 DEF PlayFile, StopSession
<1>2. ASSUME Stop PROVE SessionInv'
  BY <1>2 DEF Stop, StopSession
<1>3. ASSUME Start \/ Enter \/ ReadFileName \/ OpenFails \/ Leave PROVE SessionInv'
  BY <1>3 DEF Start, Enter, Enters, ReadFileName, OpenFails, Leave
<1>4. ASSUME OpenSucceeds PROVE SessionInv'
  BY <1>4 DEF OpenSucceeds
<1>5. ASSUME NEW s \in Streams, ReleaseRender(s) PROVE SessionInv'
  BY <1>5 DEF ReleaseRender, StopSession
<1> QED
  BY <1>1, <1>2, <1>3, <1>4, <1>5 DEF Next, Open

LEMMA NextAsked == TypeOK /\ AskedInv /\ Next => AskedInv'
<1> SUFFICES ASSUME TypeOK, AskedInv, Next PROVE AskedInv'
  OBVIOUS
<1> USE OpenCloseAssumption DEF TypeOK, AskedInv, Opening, isRunning
<1>1. ASSUME NEW f \in Files, PlayFile(f) PROVE AskedInv'
  BY <1>1 DEF PlayFile, Command, StopSession
<1>2. ASSUME Stop PROVE AskedInv'
  BY <1>2 DEF Stop, Command, StopSession
<1>3. ASSUME Start PROVE AskedInv'
  BY <1>3 DEF Start
<1>4. ASSUME Enter PROVE AskedInv'
  BY <1>4 DEF Enter, Enters
<1>5. ASSUME ReadFileName \/ OpenFails \/ Leave PROVE AskedInv'
  BY <1>5 DEF ReadFileName, OpenFails, Leave
<1>6. ASSUME OpenSucceeds PROVE AskedInv'
  BY <1>6 DEF OpenSucceeds
<1>7. ASSUME NEW s \in Streams, ReleaseRender(s) PROVE AskedInv'
  BY <1>7 DEF ReleaseRender, StopSession
<1> QED
  BY <1>1, <1>2, <1>3, <1>4, <1>5, <1>6, <1>7 DEF Next, Open

LEMMA NextLeak == TypeOK /\ AskedInv /\ LeakInv /\ Next => LeakInv'
<1> SUFFICES ASSUME TypeOK, AskedInv, LeakInv, Next PROVE LeakInv'
  OBVIOUS
<1> USE OpenCloseAssumption DEF TypeOK, AskedInv, LeakInv, Forgotten, Opening, isRunning
<1>1. ASSUME NEW f \in Files, PlayFile(f) PROVE LeakInv'
  BY <1>1 DEF PlayFile, Command, StopSession
<1>2. ASSUME Stop PROVE LeakInv'
  BY <1>2 DEF Stop, Command, StopSession
<1>3. ASSUME Start \/ ReadFileName \/ Leave PROVE LeakInv'
  BY <1>3 DEF Start, ReadFileName, Leave
<1>4. ASSUME Enter PROVE LeakInv'
  BY <1>4 DEF Enter, Enters
<1>5. ASSUME OpenFails PROVE LeakInv'
  BY <1>5 DEF OpenFails
<1>6. ASSUME OpenSucceeds PROVE LeakInv'
  BY <1>6 DEF OpenSucceeds
<1>7. ASSUME NEW s \in Streams, ReleaseRender(s) PROVE LeakInv'
  BY <1>7 DEF ReleaseRender, StopSession
<1> QED
  BY <1>1, <1>2, <1>3, <1>4, <1>5, <1>6, <1>7 DEF Next, Open

LEMMA NextQuiet == TypeOK /\ QuietInv /\ Next => QuietInv'
<1> SUFFICES ASSUME TypeOK, QuietInv, Next PROVE QuietInv'
  OBVIOUS
<1> USE OpenCloseAssumption DEF TypeOK, QuietInv, Opening, isRunning
<1>1. ASSUME NEW f \in Files, PlayFile(f) PROVE QuietInv'
  BY <1>1 DEF PlayFile
<1>2. ASSUME Stop PROVE QuietInv'
  BY <1>2 DEF Stop, Command, StopSession
<1>3. ASSUME Start \/ Enter \/ ReadFileName \/ OpenFails \/ OpenSucceeds \/ Leave PROVE QuietInv'
  BY <1>3 DEF Start, Enter, Enters, ReadFileName, OpenFails, OpenSucceeds, Leave
<1>4. ASSUME NEW s \in Streams, ReleaseRender(s) PROVE QuietInv'
  BY <1>4 DEF ReleaseRender, StopSession
<1> QED
  BY <1>1, <1>2, <1>3, <1>4 DEF Next, Open

(* One renderer less: its end is counted, and it is the last one exactly   *)
(* if it completes the count.                                              *)
LEMMA OneLess ==
    ASSUME TypeOK, NEW s \in playing
    PROVE  /\ Cardinality(playing) \in Nat \ {0}
           /\ Cardinality(playing \ {s}) = Cardinality(playing) - 1
           /\ Cardinality(playing) = 1 => playing = {s}
           /\ playing \ {s} = {} => Cardinality(playing) = 1
<1>1. IsFiniteSet(playing)
  <2>1. IsFiniteSet(Streams)
    BY FS_Interval, OpenCloseAssumption DEF Streams
  <2> QED
    BY <2>1, FS_Subset DEF TypeOK
<1>2. /\ Cardinality(playing) \in Nat
      /\ Cardinality(playing \ {s}) = Cardinality(playing) - 1
      /\ IsFiniteSet(playing \ {s})
  BY <1>1, FS_CardinalityType, FS_RemoveElement
<1>3. Cardinality(playing) # 0
  BY <1>1, FS_EmptySet
<1>4. Cardinality(playing) = 1 => playing \ {s} = {}
  BY <1>2, FS_EmptySet
<1>5. playing \ {s} = {} => Cardinality(playing) = 1
  BY <1>2, FS_EmptySet
<1> QED
  BY <1>2, <1>3, <1>4, <1>5

LEMMA NextEnds ==
    TypeOK /\ SessionInv /\ EndsInv /\ CountInv /\ FinishIsTheEnd /\ Next
        => EndsInv' /\ CountInv' /\ FinishIsTheEnd'
<1> SUFFICES ASSUME TypeOK, SessionInv, EndsInv, CountInv, FinishIsTheEnd, Next
             PROVE  EndsInv' /\ CountInv' /\ FinishIsTheEnd'
  OBVIOUS
<1> USE OpenCloseAssumption DEF SessionInv, EndsInv, CountInv, FinishIsTheEnd
<1>1. ASSUME NEW f \in Files, PlayFile(f) PROVE EndsInv' /\ CountInv' /\ FinishIsTheEnd'
  BY <1>1 DEF PlayFile, Command, StopSession, Cuts
<1>2. ASSUME Stop PROVE EndsInv' /\ CountInv' /\ FinishIsTheEnd'
  BY <1>2 DEF Stop, Command, StopSession, Cuts
<1>3. ASSUME Start \/ Enter \/ ReadFileName \/ OpenFails \/ Leave
      PROVE  EndsInv' /\ CountInv' /\ FinishIsTheEnd'
  BY <1>3 DEF Start, Enter, Enters, ReadFileName, OpenFails, Leave
<1>4. ASSUME OpenSucceeds PROVE EndsInv' /\ CountInv' /\ FinishIsTheEnd'
  <2>1. Cardinality(Streams) = NumStreams /\ Streams # {}
    <3>1. Streams = 1..NumStreams /\ NumStreams \in Nat \ {0}
      BY DEF Streams
    <3>2. Cardinality(1..NumStreams) = NumStreams
      BY <3>1, FS_Interval
    <3>3. 1 \in 1..NumStreams
      BY <3>1
    <3> QED
      BY <3>1, <3>2, <3>3
  <2>2. /\ session' = opening /\ opening # NoFile
        /\ playing' = Streams
        /\ orphaned' = (orphaned \/ session # NoFile)
        /\ UNCHANGED <<releaseIndex, cut, early>>
    BY <1>4 DEF OpenSucceeds
  <2>3. ~cut' /\ ~orphaned' => ~cut /\ ~orphaned /\ session = NoFile
    BY <2>2
  <2>4. ~cut' /\ ~orphaned' => releaseIndex = 0
    BY <2>3
  <2>5. ~cut' /\ ~orphaned' => releaseIndex' + Cardinality(playing') = NumStreams
    BY <2>1, <2>2, <2>4
  <2> QED
    BY <2>1, <2>2, <2>3, <2>5
<1>5. ASSUME NEW s \in Streams, ReleaseRender(s)
      PROVE  EndsInv' /\ CountInv' /\ FinishIsTheEnd'
  <2>1. /\ Cardinality(playing) \in Nat \ {0}
        /\ Cardinality(playing \ {s}) = Cardinality(playing) - 1
        /\ Cardinality(playing) = 1 => playing = {s}
        /\ playing \ {s} = {} => Cardinality(playing) = 1
    BY <1>5, OneLess DEF ReleaseRender
  <2>2. ~cut /\ ~orphaned => releaseIndex + Cardinality(playing) = NumStreams
    BY <1>5, <2>1 DEF ReleaseRender
  <2>3. CASE releaseIndex + 1 = NumStreams
    <3>1. ~cut /\ ~orphaned => playing = {s}
      BY <2>1, <2>2, <2>3 DEF TypeOK
    <3>2. releaseIndex' = 0 /\ UNCHANGED <<cut, orphaned>>
      BY <1>5, <2>3 DEF ReleaseRender
    <3>3. ~cut /\ ~orphaned => playing' = {} /\ ~early'
      BY <1>5, <2>3, <3>1 DEF ReleaseRender, StopSession
    <3> QED
      BY <3>2, <3>3
  <2>4. CASE releaseIndex + 1 # NumStreams
    <3>1. /\ releaseIndex' = releaseIndex + 1
          /\ playing' = playing \ {s}
          /\ UNCHANGED <<early, session, cut, orphaned>>
      BY <1>5, <2>4 DEF ReleaseRender
    <3>2. ~cut /\ ~orphaned => releaseIndex' + Cardinality(playing') = NumStreams
      BY <2>1, <2>2, <3>1 DEF TypeOK
    <3>3. ~cut /\ ~orphaned => playing' # {}
      BY <2>1, <2>2, <2>4, <3>1 DEF TypeOK
    <3>4. session # NoFile
      BY <1>5 DEF ReleaseRender
    <3> QED
      BY <3>1, <3>2, <3>3, <3>4
  <2> QED
    BY <2>3, <2>4
<1> QED
  BY <1>1, <1>2, <1>3, <1>4, <1>5 DEF Next, Open

LEMMA IndInvariant == Spec => []Ind
<1>1. Ind /\ [Next]_vars => Ind'
  <2>1. ASSUME Ind, UNCHANGED vars PROVE Ind'
    BY <2>1 DEF Ind, vars, answerVars, TypeOK, SpawnInv, SessionInv, AskedInv, LeakInv,
                Forgotten, EndsInv, CountInv, FinishIsTheEnd, QuietInv, Opening, isRunning
  <2>2. ASSUME Ind, Next PROVE Ind'
    BY <2>2, NextType, NextSession, NextAsked, NextLeak, NextEnds, NextQuiet DEF Ind
  <2> QED
    BY <2>1, <2>2
<1> QED
  BY InitInd, <1>1, PTL DEF Spec

(* Types, and the count of ends stays below the number of streams.         *)
THEOREM TypeCorrect == Spec => []TypeOK
<1>1. Ind => TypeOK
  BY DEF Ind
<1> QED
  BY IndInvariant, <1>1, PTL

(* One session at a time, of the file that was asked for last, as long as  *)
(* no command comes during an open (PlayFile(), playInThread()).           *)
THEOREM AskedIsPlayed == Spec => []PlaysWhatWasAsked
<1>1. Ind => PlaysWhatWasAsked
  BY DEF Ind, AskedInv, PlaysWhatWasAsked
<1> QED
  BY IndInvariant, <1>1, PTL

(* Only an open that fails costs a demuxer (m_pDemuxerUnknow).             *)
THEOREM LeaksBounded == Spec => []LeaksBoundedByFailures
<1>1. Ind => LeaksBoundedByFailures
  BY DEF Ind, TypeOK, LeakInv, LeaksBoundedByFailures
<1> QED
  BY IndInvariant, <1>1, PTL

(* playFinsh() comes after the end of every stream, unless a session was   *)
(* cut between its ends or lost its threads (releaseRender()).             *)
THEOREM FinishTrue == Spec => []FinishIsTheEnd
<1>1. Ind => FinishIsTheEnd
  BY DEF Ind
<1> QED
  BY IndInvariant, <1>1, PTL

(* A Stop() that came at rest lasts until the next PlayFile().             *)
THEOREM StopLasts == Spec => []StopHolds
<1>1. Ind => StopHolds
  BY DEF Ind, QuietInv, SessionInv, StopHolds
<1> QED
  BY IndInvariant, <1>1, PTL
=============================================================================
