------------------------- MODULE WorkerThreadProofs -------------------------
(***************************************************************************)
(* What holds of a worker for every number of callers and of spawned       *)
(* instances.  The inductive invariant Ind ties m_isRunning to the holder  *)
(* of the mutex (RunningIsTruthful), says that a quiet worker still has    *)
(* its stop flag set, that wait() settled a worker only when no start()    *)
(* was under way, and that an owed restart is either pending as a spawned  *)
(* instance or still has nothing alive that could make start() return.     *)
(***************************************************************************)
EXTENDS WorkerThread, TLAPS

QuietInv == quiet => m_bStopFlag /\ In({"body"}) = {}

SettledInv == settled => Alive = {} /\ Starting = {}

AgainInv ==
    asked = "again" =>
        /\ ~m_bStopFlag
        /\ \/ In({"spawned", "check"}) # {}
           \/ Alive = {} /\ Starting # {}

Ind ==
    /\ TypeOK
    /\ RunningIsTruthful
    /\ QuietInv
    /\ SettledInv
    /\ AgainInv

LEMMA InitInd == Init => Ind
<1> SUFFICES ASSUME Init PROVE Ind
  OBVIOUS
<1>1. TypeOK
  BY DEF Init, TypeOK, Places
<1>2. /\ In({"check", "body", "leave"}) = {}
      /\ Holders = {}
  BY DEF Init, In, Holders
<1>3. RunningIsTruthful
  BY <1>2 DEF Init, RunningIsTruthful
<1>4. QuietInv /\ SettledInv /\ AgainInv
  BY DEF Init, QuietInv, SettledInv, AgainInv
<1> QED
  BY <1>1, <1>3, <1>4 DEF Ind

LEMMA NextType == TypeOK /\ Next => TypeOK'
<1> SUFFICES ASSUME TypeOK, Next PROVE TypeOK'
  OBVIOUS
<1> USE DEF TypeOK
<1>1. ASSUME NEW o \in Owners, StartFlag(o) PROVE TypeOK'
  BY <1>1 DEF StartFlag
<1>2. ASSUME NEW o \in Owners, StartEnds(o) PROVE TypeOK'
  BY <1>2 DEF StartEnds, StartReturns, Spawn, Places
<1>3. ASSUME NEW o \in Owners, Stop(o) PROVE TypeOK'
  BY <1>3 DEF Stop, SetStopFlag
<1>4. ASSUME NEW o \in Owners, WaitBegins(o) PROVE TypeOK'
  BY <1>4 DEF WaitBegins
<1>5. ASSUME NEW o \in Owners, WaitReturns(o) PROVE TypeOK'
  <2>1. settled' \in BOOLEAN
    BY <1>5, Zenon DEF WaitReturns
  <2> QED
    BY <1>5, <2>1 DEF WaitReturns
<1>6. ASSUME NEW i \in Instances, Thread(i) PROVE TypeOK'
  BY <1>6 DEF Thread, Enter, CheckFlag, Body, Iterate, StopOneself, SetStopFlag, Break, Leave,
              Finish, Places
<1> QED
  BY <1>1, <1>2, <1>3, <1>4, <1>5, <1>6 DEF Next

LEMMA NextTruthful == TypeOK /\ RunningIsTruthful /\ Next => RunningIsTruthful'
<1> SUFFICES ASSUME TypeOK, RunningIsTruthful, Next PROVE RunningIsTruthful'
  OBVIOUS
<1> USE DEF TypeOK, RunningIsTruthful, In, Holders
<1>1. ASSUME NEW o \in Owners, StartFlag(o) PROVE RunningIsTruthful'
  BY <1>1 DEF StartFlag
<1>2. ASSUME NEW o \in Owners, StartEnds(o) PROVE RunningIsTruthful'
  BY <1>2 DEF StartEnds, StartReturns, Spawn
<1>3. ASSUME NEW o \in Owners, Stop(o) \/ WaitBegins(o) \/ WaitReturns(o)
      PROVE RunningIsTruthful'
  BY <1>3 DEF Stop, SetStopFlag, WaitBegins, WaitReturns
<1>4. ASSUME NEW i \in Instances, Enter(i) PROVE RunningIsTruthful'
  BY <1>4 DEF Enter, MutexFree
<1>5. ASSUME NEW i \in Instances, CheckFlag(i) PROVE RunningIsTruthful'
  BY <1>5 DEF CheckFlag
<1>6. ASSUME NEW i \in Instances, Body(i) PROVE RunningIsTruthful'
  BY <1>6 DEF Body, Iterate, StopOneself, SetStopFlag, Break
<1>7. ASSUME NEW i \in Instances, Leave(i) PROVE RunningIsTruthful'
  BY <1>7 DEF Leave
<1>8. ASSUME NEW i \in Instances, Finish(i) PROVE RunningIsTruthful'
  BY <1>8 DEF Finish
<1> QED
  BY <1>1, <1>2, <1>3, <1>4, <1>5, <1>6, <1>7, <1>8 DEF Next, Thread

LEMMA NextQuiet == TypeOK /\ QuietInv /\ Next => QuietInv'
<1> SUFFICES ASSUME TypeOK, QuietInv, Next PROVE QuietInv'
  OBVIOUS
<1> USE DEF TypeOK, QuietInv, In
<1>1. ASSUME NEW o \in Owners, StartFlag(o) PROVE QuietInv'
  BY <1>1 DEF StartFlag
<1>2. ASSUME NEW o \in Owners, StartEnds(o) PROVE QuietInv'
  BY <1>2 DEF StartEnds, StartReturns, Spawn
<1>3. ASSUME NEW o \in Owners, Stop(o) \/ WaitBegins(o) PROVE QuietInv'
  BY <1>3 DEF Stop, SetStopFlag, WaitBegins
<1>4. ASSUME NEW o \in Owners, WaitReturns(o) PROVE QuietInv'
  BY <1>4 DEF WaitReturns, MutexFree, Holders
<1>5. ASSUME NEW i \in Instances, CheckFlag(i) PROVE QuietInv'
  BY <1>5 DEF CheckFlag
<1>6. ASSUME NEW i \in Instances, Enter(i) \/ Body(i) \/ Leave(i) \/ Finish(i) PROVE QuietInv'
  BY <1>6 DEF Enter, Body, Iterate, StopOneself, SetStopFlag, Break, Leave, Finish
<1> QED
  BY <1>1, <1>2, <1>3, <1>4, <1>5, <1>6 DEF Next, Thread

LEMMA NextSettled == TypeOK /\ SettledInv /\ Next => SettledInv'
<1> SUFFICES ASSUME TypeOK, SettledInv, Next PROVE SettledInv'
  OBVIOUS
<1> USE DEF TypeOK, SettledInv, In, Holders, Alive, Starting
<1>1. ASSUME NEW o \in Owners, StartFlag(o) PROVE SettledInv'
  BY <1>1 DEF StartFlag
<1>2. ASSUME NEW o \in Owners, StartEnds(o) PROVE SettledInv'
  BY <1>2 DEF StartEnds, StartReturns, Spawn
<1>3. ASSUME NEW o \in Owners, Stop(o) \/ WaitBegins(o) PROVE SettledInv'
  BY <1>3 DEF Stop, SetStopFlag, WaitBegins
<1>4. ASSUME NEW o \in Owners, WaitReturns(o) PROVE SettledInv'
  BY <1>4 DEF WaitReturns
<1>5. ASSUME NEW i \in Instances, Thread(i) PROVE SettledInv'
  BY <1>5 DEF Thread, Enter, CheckFlag, Body, Iterate, StopOneself, SetStopFlag, Break, Leave,
              Finish
<1> QED
  BY <1>1, <1>2, <1>3, <1>4, <1>5 DEF Next

LEMMA NextAgain ==
    TypeOK /\ RunningIsTruthful /\ SettledInv /\ AgainInv /\ Next => AgainInv'
<1> SUFFICES ASSUME TypeOK, RunningIsTruthful, SettledInv, AgainInv, Next PROVE AgainInv'
  OBVIOUS
<1> USE DEF TypeOK, AgainInv, In, Holders, Alive, Starting
<1>1. ASSUME NEW o \in Owners, StartFlag(o) PROVE AgainInv'
  <2>1. asked' = "again" => Alive' = {} /\ o \in Starting'
    BY <1>1 DEF StartFlag, SettledInv
  <2> QED
    BY <1>1, <2>1 DEF StartFlag
<1>2. ASSUME NEW o \in Owners, StartReturns(o) PROVE AgainInv'
  BY <1>2 DEF StartReturns, RunningIsTruthful
<1>3. ASSUME NEW o \in Owners, NEW i \in Instances, Spawn(o, i) PROVE AgainInv'
  BY <1>3 DEF Spawn
<1>4. ASSUME NEW o \in Owners, Stop(o) \/ WaitBegins(o) \/ WaitReturns(o) PROVE AgainInv'
  BY <1>4 DEF Stop, SetStopFlag, WaitBegins, WaitReturns
<1>5. ASSUME NEW i \in Instances, Enter(i) \/ CheckFlag(i) PROVE AgainInv'
  BY <1>5 DEF Enter, CheckFlag
<1>6. ASSUME NEW i \in Instances, Body(i) \/ Leave(i) \/ Finish(i) PROVE AgainInv'
  BY <1>6 DEF Body, Iterate, StopOneself, SetStopFlag, Break, Leave, Finish
<1> QED
  BY <1>1, <1>2, <1>3, <1>4, <1>5, <1>6 DEF Next, Thread, StartEnds

LEMMA Stutter == Ind /\ UNCHANGED vars => Ind'
  BY DEF Ind, TypeOK, RunningIsTruthful, QuietInv, SettledInv, AgainInv, In, Holders, Alive,
         Starting, vars

LEMMA Inductive == Spec => []Ind
<1>1. Ind /\ [Next]_vars => Ind'
  <2>1. Ind /\ Next => Ind'
    BY NextType, NextTruthful, NextQuiet, NextSettled, NextAgain DEF Ind
  <2> QED
    BY <2>1, Stutter
<1> QED
  BY InitInd, <1>1, PTL DEF Spec

(* The types hold whoever calls what.                                      *)
THEOREM TypeCorrect == Spec => []TypeOK
  BY Inductive, PTL DEF Ind

(* After stop() and wait() no iteration runs before the next start().      *)
THEOREM Silence == Spec => []StoppedIsQuiet
<1>1. Ind => StoppedIsQuiet
  BY DEF Ind, QuietInv, StoppedIsQuiet
<1> QED
  BY Inductive, <1>1, PTL

(* A start() after a wait() that left nothing behind is not lost.          *)
THEOREM Restart == Spec => []RestartIsNotLost
<1>1. Ind => RestartIsNotLost
  BY DEF Ind, AgainInv, RestartIsNotLost
<1> QED
  BY Inductive, <1>1, PTL

(* isRunning() is true exactly while the one instance is in run().         *)
THEOREM Truthful == Spec => []RunningIsTruthful
  BY Inductive, PTL DEF Ind
=============================================================================
