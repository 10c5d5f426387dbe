---------------------------- MODULE WorkerThread ----------------------------
(***************************************************************************)
(* CBaseThread and BaseThread (MediaPlayer/cbasethread.cpp, basethread.cpp):*)
(* the restartable worker that the demuxer, every decoder and every        *)
(* renderer of the native player is.  start(), stop() and wait() are       *)
(* called by whoever controls the worker and are not synchronised with     *)
(* each other; every start() that finds isRunning() false spawns one more  *)
(* detached thread, and these instances share m_mutex, which an instance   *)
(* holds from before it sets m_isRunning until after it cleared it.        *)
(***************************************************************************)
EXTENDS Naturals, FiniteSets

CONSTANTS
    Owners,       \* threads that call start(), stop() and wait()
    Instances     \* bound: the threads that can ever be spawned

ASSUME WorkerAssumption == Owners \cap Instances = {}

VARIABLES
    m_bStopFlag,  \* the loop of run() ends when it sees it set
    m_isRunning,  \* what isRunning() returns
    place,        \* where each instance is in thread()
    call,         \* the call each owner is inside of
    quiet,        \* history: the worker was stopped, then waited for
    settled,      \* history: no instance was left when wait() returned
    asked         \* history: what a start() still owes, see below

vars == <<m_bStopFlag, m_isRunning, place, call, quiet, settled, asked>>

(***************************************************************************)
(* spawned: before m_mutex; check: about to look at the stop flag; body:   *)
(* inside one iteration of the loop; leave: run() has returned; finish:    *)
(* m_isRunning cleared, finished() running; gone: mutex released.          *)
(***************************************************************************)
Places == {"unborn", "spawned", "check", "body", "leave", "finish", "gone"}

In(places) == {i \in Instances : place[i] \in places}

(* Mutant: the scope of the lock ends when run() returns.                  *)
HoldersUntilRunReturns == In({"check", "body"})

Holders == In({"check", "body", "leave", "finish"})

Alive == In({"spawned"}) \cup Holders

(* Mutant: instances that do not exclude each other.                       *)
MutexIgnored == TRUE

MutexFree == Holders = {}

Starting == {o \in Owners : call[o] = "start"}

Init ==
    /\ m_bStopFlag = TRUE
    /\ m_isRunning = FALSE
    /\ place = [i \in Instances |-> "unborn"]
    /\ call = [o \in Owners |-> "none"]
    /\ quiet = FALSE
    /\ settled = FALSE
    /\ asked = "no"

(* Mutant: a start() that leaves the flag of the last stop() in place.     *)
StartFlagForgotten(o) ==
    /\ call[o] = "none"
    /\ Cardinality(Starting) < Cardinality(In({"unborn"}))
    /\ call' = [call EXCEPT ![o] = "start"]
    /\ quiet' = FALSE
    /\ asked' = IF settled THEN "again" ELSE "no"
    /\ settled' = FALSE
    /\ UNCHANGED <<m_bStopFlag, m_isRunning, place>>

(* BaseThread::start() clears the flag before CBaseThread::start() looks   *)
(* at m_isRunning.  The start() is owed one iteration unless an iteration  *)
(* is going on; "again" marks the start() of a worker that was waited for. *)
StartFlag(o) ==
    /\ call[o] = "none"
    /\ Cardinality(Starting) < Cardinality(In({"unborn"}))
    /\ m_bStopFlag' = FALSE
    /\ call' = [call EXCEPT ![o] = "start"]
    /\ quiet' = FALSE
    /\ asked' = IF settled THEN "again" ELSE IF In({"body"}) = {} THEN "first" ELSE "no"
    /\ settled' = FALSE
    /\ UNCHANGED <<m_isRunning, place>>

StartReturns(o) ==
    /\ call[o] = "start"
    /\ m_isRunning
    /\ call' = [call EXCEPT ![o] = "none"]
    /\ UNCHANGED <<m_bStopFlag, m_isRunning, place, quiet, settled, asked>>

Spawn(o, i) ==
    /\ call[o] = "start"
    /\ ~m_isRunning
    /\ place[i] = "unborn"
    /\ place' = [place EXCEPT ![i] = "spawned"]
    /\ call' = [call EXCEPT ![o] = "none"]
    /\ UNCHANGED <<m_bStopFlag, m_isRunning, quiet, settled, asked>>

SetStopFlag ==
    /\ m_bStopFlag' = TRUE
    /\ asked' = "no"

Stop(o) ==
    /\ call[o] = "none"
    /\ SetStopFlag
    /\ UNCHANGED <<m_isRunning, place, call, quiet, settled>>

WaitBegins(o) ==
    /\ call[o] = "none"
    /\ call' = [call EXCEPT ![o] = "wait"]
    /\ UNCHANGED <<m_bStopFlag, m_isRunning, place, quiet, settled, asked>>

(* try_lock() succeeds: nobody is between the two ends of thread().  An    *)
(* instance that has not locked yet is overlooked.                         *)
WaitReturns(o) ==
    /\ call[o] = "wait"
    /\ MutexFree
    /\ call' = [call EXCEPT ![o] = "none"]
    /\ quiet' = m_bStopFlag
    /\ settled' = (Alive = {} /\ Starting = {})
    /\ UNCHANGED <<m_bStopFlag, m_isRunning, place, asked>>

(* Mutant: do ... while(!isStop()).                                        *)
EnterTheBody(i) ==
    /\ place[i] = "spawned"
    /\ MutexFree
    /\ m_isRunning' = TRUE
    /\ place' = [place EXCEPT ![i] = "body"]
    /\ UNCHANGED <<m_bStopFlag, call, quiet, settled, asked>>

Enter(i) ==
    /\ place[i] = "spawned"
    /\ MutexFree
    /\ m_isRunning' = TRUE
    /\ place' = [place EXCEPT ![i] = "check"]
    /\ UNCHANGED <<m_bStopFlag, call, quiet, settled, asked>>

(* while(!isStop())                                                        *)
CheckFlag(i) ==
    /\ place[i] = "check"
    /\ place' = [place EXCEPT ![i] = IF m_bStopFlag THEN "leave" ELSE "body"]
    /\ asked' = IF m_bStopFlag THEN asked ELSE "no"
    /\ UNCHANGED <<m_bStopFlag, m_isRunning, call, quiet, settled>>

Iterate(i) ==
    /\ place[i] = "body"
    /\ place' = [place EXCEPT ![i] = "check"]
    /\ UNCHANGED <<m_bStopFlag, m_isRunning, call, quiet, settled, asked>>

(* DemuxThread and DecodeThread stop themselves at the end of the file.    *)
StopOneself(i) ==
    /\ place[i] = "body"
    /\ place' = [place EXCEPT ![i] = "check"]
    /\ SetStopFlag
    /\ UNCHANGED <<m_isRunning, call, quiet, settled>>

(* RenderThread breaks out of the loop when it got no frame or the last    *)
(* one; the flag stays as it is.                                           *)
Break(i) ==
    /\ place[i] = "body"
    /\ place' = [place EXCEPT ![i] = "leave"]
    /\ UNCHANGED <<m_bStopFlag, m_isRunning, call, quiet, settled, asked>>

Leave(i) ==
    /\ place[i] = "leave"
    /\ m_isRunning' = FALSE
    /\ place' = [place EXCEPT ![i] = "finish"]
    /\ UNCHANGED <<m_bStopFlag, call, quiet, settled, asked>>

Finish(i) ==
    /\ place[i] = "finish"
    /\ place' = [place EXCEPT ![i] = "gone"]
    /\ UNCHANGED <<m_bStopFlag, m_isRunning, call, quiet, settled, asked>>

Body(i) == Iterate(i) \/ StopOneself(i) \/ Break(i)
Thread(i) == Enter(i) \/ CheckFlag(i) \/ Body(i) \/ Leave(i) \/ Finish(i)
StartEnds(o) == StartReturns(o) \/ \E i \in Instances : Spawn(o, i)

Next ==
    \/ \E o \in Owners :
          StartFlag(o) \/ StartEnds(o) \/ Stop(o) \/ WaitBegins(o) \/ WaitReturns(o)
    \/ \E i \in Instances : Thread(i)

Spec == Init /\ [][Next]_vars

(***************************************************************************)
(* A thread that is awake runs; wait() polls the mutex every millisecond   *)
(* and an iteration of the loop ends.  Nobody is obliged to call anything. *)
(***************************************************************************)
FairSpec ==
    /\ Spec
    /\ \A o \in Owners : WF_vars(StartEnds(o)) /\ WF_vars(WaitReturns(o))
    /\ \A i \in Instances : WF_vars(Thread(i))
-----------------------------------------------------------------------------
(* Types.                                                                  *)
TypeOK ==
    /\ m_bStopFlag \in BOOLEAN
    /\ m_isRunning \in BOOLEAN
    /\ place \in [Instances -> Places]
    /\ call \in [Owners -> {"none", "start", "wait"}]
    /\ quiet \in BOOLEAN
    /\ settled \in BOOLEAN
    /\ asked \in {"no", "first", "again"}

(* stop() followed by wait() silences the worker: until the next start()   *)
(* no iteration of the loop runs, not even one of an instance that wait()  *)
(* overlooked because it had not locked the mutex yet.  seek() relies on   *)
(* it to hand the demuxer over, stop() to empty the queues.                *)
StoppedIsQuiet == quiet => In({"body"}) = {}

(* A start() is not lost when wait() left no instance behind: whoever      *)
(* returns from wait() also sees m_isRunning false, so seek() brings the   *)
(* demuxer back whatever other callers do in between.                      *)
RestartIsNotLost ==
    asked = "again" /\ Starting = {} => In({"spawned", "check"}) # {}

(* isRunning() tells whether some instance is in run(), and no two of them *)
(* are in it together however many start() calls raced.                    *)
RunningIsTruthful ==
    /\ m_isRunning <=> In({"check", "body", "leave"}) # {}
    /\ \A i, j \in Holders : i = j

(* The restart of seek() does run the loop, or somebody stops it first.    *)
RestartRuns == (asked = "again") ~> (asked # "again")

(* start() starts the thread: once it has returned, and nobody stopped the *)
(* worker since, an instance is on its way into the loop.  The code does   *)
(* not keep this without a wait() in between: startRender() after          *)
(* stopRender() finds m_isRunning still set by an instance that is leaving.*)
StartStarts ==
    asked # "no" /\ Starting = {} => In({"spawned", "check", "body"}) # {}
=============================================================================
