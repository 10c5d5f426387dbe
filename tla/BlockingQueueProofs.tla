------------------------- MODULE BlockingQueueProofs -------------------------
(***************************************************************************)
(* What BlockingQueue does for any number of producers and consumers, any  *)
(* capacity and any number of forcewake() calls.                           *)
(***************************************************************************)
EXTENDS BlockingQueue, SequenceTheorems, FiniteSetTheorems, TLAPS

(***************************************************************************)
(* The inductive invariant.  Mutex: one thread at a time is between        *)
(* looking and leaving.  Looked: what it saw still holds, because only the *)
(* holder of the mutex changes the queue or clears the flag.  Numbered:    *)
(* FifoNoLoss, element by element.                                         *)
(***************************************************************************)
Mutex ==
    \A s, t \in Threads :
        pc[s] \in {"commit", "park"} /\ pc[t] \in {"commit", "park"} => s = t

Looked ==
    /\ \A p \in Producers : pc[p] = "commit" => MayPush
    /\ \A c \in Consumers : pc[c] = "commit" => MayTake
    /\ \A p \in Producers : pc[p] = "park" => Len(queue_) = Capacity
    /\ \A c \in Consumers : pc[c] = "park" => Len(queue_) = 0

Numbered ==
    /\ accepted = Len(delivered) + Len(queue_)
    /\ \A i \in 1..Len(delivered) : delivered[i] = i
    /\ \A i \in 1..Len(queue_) : queue_[i] = Len(delivered) + i

Ind == TypeOK /\ Mutex /\ Looked /\ Numbered /\ OneReleasePerForcewake

LEMMA IndInit == Init => Ind
<1> SUFFICES ASSUME Init PROVE Ind
  OBVIOUS
<1>1. TypeOK
  <2>1. forcewake_ \in BOOLEAN
    BY Zenon DEF Init
  <2> QED BY <2>1, QueueAssumption DEF Init, TypeOK, Places
<1>2. Mutex /\ Looked
  BY DEF Init, Mutex, Looked, Threads
<1>3. Numbered
  BY DEF Init, Numbered
<1>4. OneReleasePerForcewake
  BY DEF Init, OneReleasePerForcewake
<1> QED BY <1>1, <1>2, <1>3, <1>4 DEF Ind

(* The actions that move threads only.                                     *)
LEMMA IndLook ==
  ASSUME Ind, NEW t \in Threads,
         (t \in Producers /\ Look(t, MayPush)) \/ (t \in Consumers /\ Look(t, MayTake))
  PROVE  Ind'
<1> USE QueueAssumption DEF Threads, HasRoom, HasItem, MayPush, MayTake
<1>1. TypeOK'
  BY DEF Ind, TypeOK, Look, Places
<1>2. Mutex'
  BY DEF Ind, TypeOK, Look, Mutex, MutexFree
<1>3. Looked'
  BY DEF Ind, TypeOK, Look, Looked, MutexFree
<1>4. Numbered'
  BY DEF Ind, Look, Numbered
<1>5. OneReleasePerForcewake'
  BY DEF Ind, Look, OneReleasePerForcewake
<1> QED BY <1>1, <1>2, <1>3, <1>4, <1>5 DEF Ind

LEMMA IndSleep ==
  ASSUME Ind, NEW t \in Threads, Park(t) \/ SpuriousWake(t)
  PROVE  Ind'
<1> USE DEF Threads, HasRoom, HasItem, MayPush, MayTake
<1>1. TypeOK'
  BY DEF Ind, TypeOK, Park, SpuriousWake, Places
<1>2. Mutex'
  BY DEF Ind, TypeOK, Park, SpuriousWake, Mutex
<1>3. Looked'
  BY DEF Ind, TypeOK, Park, SpuriousWake, Looked
<1>4. Numbered'
  BY DEF Ind, Park, SpuriousWake, Numbered
<1>5. OneReleasePerForcewake'
  BY DEF Ind, Park, SpuriousWake, OneReleasePerForcewake
<1> QED BY <1>1, <1>2, <1>3, <1>4, <1>5 DEF Ind

(* A thread that leaves with or without a notification gives up the mutex  *)
(* and puts nobody else into the critical section.                         *)
LEMMA Leaving ==
  ASSUME Ind, NEW t \in Threads, NEW S \in SUBSET Threads, pc[t] = "commit",
         LeaveAndNotify(t, S) \/ Leave(t)
  PROVE  /\ pc' \in [Threads -> Places]
         /\ \A u \in Threads : pc'[u] \notin {"commit", "park"}
<1>1. \A u \in Threads \ {t} : pc[u] \notin {"commit", "park"}
  BY DEF Ind, Mutex
<1>2. /\ pc' \in [Threads -> Places] /\ pc'[t] = "idle"
      /\ \A u \in Threads \ {t} : pc'[u] \in {pc[u], "woken"}
  <2>1. CASE Leave(t) \/ (LeaveAndNotify(t, S) /\ At(S, "asleep") = {})
    BY <2>1 DEF Ind, TypeOK, Places, Leave, LeaveAndNotify
  <2>2. CASE LeaveAndNotify(t, S) /\ At(S, "asleep") # {}
    <3>1. PICK w \in At(S, "asleep") : pc' = [pc EXCEPT ![t] = "idle", ![w] = "woken"]
      BY <2>2 DEF LeaveAndNotify
    <3>2. w \in Threads /\ w # t
      BY <3>1 DEF At
    <3> QED BY <3>1, <3>2 DEF Ind, TypeOK, Places
  <2> QED BY <2>1, <2>2
<1> QED BY <1>1, <1>2

LEMMA IndPushCommit ==
  ASSUME Ind, NEW p \in Producers, PushCommit(p)
  PROVE  Ind'
<1> USE QueueAssumption DEF HasRoom, HasItem, MayPush, MayTake
<1>1. p \in Threads /\ Consumers \in SUBSET Threads
  BY DEF Threads
<1>2. /\ pc' \in [Threads -> Places]
      /\ \A u \in Threads : pc'[u] \notin {"commit", "park"}
  BY <1>1, Leaving DEF PushCommit
<1>3. Mutex' /\ Looked'
  BY <1>2 DEF Mutex, Looked, Threads
<1>4. CASE HasRoom
  <2>1. /\ queue_' = Append(queue_, accepted + 1) /\ accepted' = accepted + 1
        /\ forcewake_' = FALSE /\ forcewake_' \in BOOLEAN
        /\ UNCHANGED <<forcer, delivered, failed, forced>>
    BY <1>4, Zenon DEF PushCommit
  <2>2. TypeOK'
    BY <1>2, <1>4, <2>1 DEF Ind, TypeOK
  <2>3. Numbered'
    <3>1. /\ Len(queue_') = Len(queue_) + 1
          /\ \A i \in 1..Len(queue_') :
                queue_'[i] = IF i <= Len(queue_) THEN queue_[i] ELSE accepted + 1
      BY <2>1 DEF Ind, TypeOK
    <3>2. Len(queue_) \in Nat /\ Len(delivered) \in Nat /\ accepted \in Nat /\ Numbered
      BY DEF Ind, TypeOK
    <3>3. accepted' = Len(delivered') + Len(queue_')
      BY <2>1, <3>1, <3>2 DEF Numbered
    <3>4. \A i \in 1..Len(delivered') : delivered'[i] = i
      BY <2>1, <3>2 DEF Numbered
    <3>5. ASSUME NEW i \in 1..Len(queue_') PROVE queue_'[i] = Len(delivered') + i
      <4>1. CASE i <= Len(queue_)
        <5>1. queue_'[i] = queue_[i] /\ i \in 1..Len(queue_)
          BY <3>1, <3>2, <4>1
        <5>2. delivered' = delivered
          BY <2>1
        <5> QED BY <3>2, <5>1, <5>2 DEF Numbered
      <4>2. CASE ~(i <= Len(queue_))
        <5>1. queue_'[i] = accepted + 1 /\ i = Len(queue_) + 1
          BY <3>1, <3>2, <4>2
        <5>2. delivered' = delivered /\ accepted = Len(delivered) + Len(queue_)
          BY <2>1, <3>2 DEF Numbered
        <5> QED BY <3>2, <5>1, <5>2
      <4> QED BY <4>1, <4>2
    <3> QED BY <3>3, <3>4, <3>5 DEF Numbered
  <2>4. OneReleasePerForcewake'
    BY <2>1 DEF Ind, TypeOK, OneReleasePerForcewake
  <2> QED BY <1>3, <2>2, <2>3, <2>4 DEF Ind
<1>5. CASE ~HasRoom
  <2>1. /\ failed' = failed + 1 /\ forcewake_' = FALSE /\ forcewake_' \in BOOLEAN
        /\ UNCHANGED <<queue_, accepted, forcer, delivered, forced>>
    BY <1>5, Zenon DEF PushCommit
  <2>2. TypeOK' /\ Numbered'
    BY <1>2, <2>1 DEF Ind, TypeOK, Numbered
  <2>3. forcewake_ /\ failed < forced
    BY <1>1, <1>5 DEF Ind, TypeOK, Looked, OneReleasePerForcewake, PushCommit
  <2>4. OneReleasePerForcewake'
    BY <2>1, <2>3 DEF Ind, TypeOK, OneReleasePerForcewake
  <2> QED BY <1>3, <2>2, <2>4 DEF Ind
<1> QED BY <1>4, <1>5

LEMMA IndTakeCommit ==
  ASSUME Ind, NEW c \in Consumers, TakeCommit(c)
  PROVE  Ind'
<1> USE QueueAssumption DEF HasRoom, HasItem, MayPush, MayTake
<1>1. c \in Threads /\ Producers \in SUBSET Threads
  BY DEF Threads
<1>2. /\ pc' \in [Threads -> Places]
      /\ \A u \in Threads : pc'[u] \notin {"commit", "park"}
  BY <1>1, Leaving DEF TakeCommit
<1>3. Mutex' /\ Looked'
  BY <1>2 DEF Mutex, Looked, Threads
<1>4. CASE HasItem
  <2>1. /\ queue_ # <<>>
        /\ Len(Tail(queue_)) = Len(queue_) - 1
        /\ Tail(queue_) \in Seq(Nat)
        /\ \A i \in 1..Len(Tail(queue_)) : Tail(queue_)[i] = queue_[i + 1]
        /\ Head(queue_) \in Nat /\ Head(queue_) = queue_[1]
    BY <1>4, HeadTailProperties DEF Ind, TypeOK
  <2>2. /\ queue_' = Tail(queue_) /\ delivered' = Append(delivered, Head(queue_))
        /\ forcewake_' = FALSE /\ forcewake_' \in BOOLEAN
        /\ UNCHANGED <<forcer, accepted, failed, forced>>
    BY <1>4, Zenon DEF TakeCommit
  <2>3. TypeOK'
    BY <1>2, <1>4, <2>1, <2>2 DEF Ind, TypeOK
  <2>4. Numbered'
    BY <1>4, <2>1, <2>2 DEF Ind, TypeOK, Numbered
  <2>5. OneReleasePerForcewake'
    BY <2>2 DEF Ind, TypeOK, OneReleasePerForcewake
  <2> QED BY <1>3, <2>3, <2>4, <2>5 DEF Ind
<1>5. CASE ~HasItem
  <2>1. /\ failed' = failed + 1 /\ forcewake_' = FALSE /\ forcewake_' \in BOOLEAN
        /\ UNCHANGED <<queue_, accepted, forcer, delivered, forced>>
    BY <1>5, Zenon DEF TakeCommit
  <2>2. TypeOK' /\ Numbered'
    BY <1>2, <2>1 DEF Ind, TypeOK, Numbered
  <2>3. forcewake_ /\ failed < forced
    BY <1>1, <1>5 DEF Ind, TypeOK, Looked, OneReleasePerForcewake, TakeCommit
  <2>4. OneReleasePerForcewake'
    BY <2>1, <2>3 DEF Ind, TypeOK, OneReleasePerForcewake
  <2> QED BY <1>3, <2>2, <2>4 DEF Ind
<1> QED BY <1>4, <1>5

LEMMA IndForcewake ==
  ASSUME Ind, NEW f \in Forcers, Forcewake(f)
  PROVE  Ind'
<1> USE DEF Threads, HasRoom, HasItem, MayPush, MayTake
<1>1. CASE ForceSet(f)
  BY <1>1 DEF Ind, TypeOK, Mutex, Looked, Numbered, OneReleasePerForcewake, ForceSet
<1>2. CASE ForceNotifyEmpty(f) \/ ForceNotifyFull(f)
  <2>1. PICK S \in SUBSET Threads :
            NotifyAll(S) /\ UNCHANGED <<queue_, forcewake_, accepted, delivered, failed, forced>>
                         /\ forcer' \in [Forcers -> {"no", "empty", "full"}]
    BY <1>2 DEF Ind, TypeOK, ForceNotifyEmpty, ForceNotifyFull
  <2>2. /\ pc' \in [Threads -> Places]
        /\ \A t \in Threads : pc'[t] \in {"commit", "park"} => pc'[t] = pc[t]
    BY <2>1 DEF Ind, TypeOK, NotifyAll, At, Places
  <2>3. TypeOK' /\ Numbered' /\ OneReleasePerForcewake'
    BY <2>1, <2>2 DEF Ind, TypeOK, Numbered, OneReleasePerForcewake
  <2>4. Mutex' /\ Looked'
    BY <2>1, <2>2 DEF Ind, Mutex, Looked
  <2> QED BY <2>3, <2>4 DEF Ind
<1> QED BY <1>1, <1>2 DEF Forcewake

LEMMA IndNext == Ind /\ [Next]_vars => Ind'
<1> SUFFICES ASSUME Ind, [Next]_vars PROVE Ind'
  OBVIOUS
<1>1. ASSUME NEW p \in Producers, Push(p) PROVE Ind'
  BY <1>1, IndLook, IndPushCommit, IndSleep DEF Push, PushLook, Threads
<1>2. ASSUME NEW c \in Consumers, Take(c) PROVE Ind'
  BY <1>2, IndLook, IndTakeCommit, IndSleep DEF Take, TakeLook, Threads
<1>3. ASSUME NEW t \in Threads, SpuriousWake(t) PROVE Ind'
  BY <1>3, IndSleep
<1>4. CASE UNCHANGED vars
  BY <1>4 DEF vars, Ind, TypeOK, Mutex, Looked, Numbered, OneReleasePerForcewake,
     MayPush, MayTake, HasRoom, HasItem
<1> QED BY <1>1, <1>2, <1>3, <1>4, IndForcewake DEF Next

LEMMA Invariance == Spec => []Ind
  BY IndInit, IndNext, PTL DEF Spec
-----------------------------------------------------------------------------
(* Types, and the bound on the length of the queue.                        *)
THEOREM TypeCorrect == Spec => []TypeOK
  BY Invariance, PTL DEF Ind

(* push() and take() deliver the accepted values in order, none lost and   *)
(* none twice.                                                             *)
THEOREM Fifoness == Spec => []FifoNoLoss
<1>1. ASSUME Ind PROVE FifoNoLoss
  <2> DEFINE all == delivered \o queue_
  <2>1. /\ Len(delivered) \in Nat /\ Len(queue_) \in Nat
        /\ all \in Seq(Nat)
        /\ Len(all) = accepted
        /\ \A i \in 1..accepted : all[i] =
              IF i <= Len(delivered) THEN delivered[i] ELSE queue_[i - Len(delivered)]
    BY <1>1, ConcatProperties DEF Ind, TypeOK, Numbered
  <2>2. \A i \in 1..accepted : all[i] = i
    BY <1>1, <2>1 DEF Ind, TypeOK, Numbered
  <2>3. all \in [1..accepted -> Nat]
    BY <2>1, LenProperties
  <2> HIDE DEF all
  <2>4. all = [i \in 1..accepted |-> i]
    BY <2>2, <2>3
  <2> QED BY <2>4 DEF all, FifoNoLoss
<1> QED BY <1>1, Invariance, PTL

(* Calls come back empty-handed at most once per forcewake().              *)
THEOREM OneRelease == Spec => []OneReleasePerForcewake
  BY Invariance, PTL DEF Ind

(* The queue implements the FIFO with atomic operations.                   *)
THEOREM Refinement == Spec => ImplementsFifo
<1>1. Init => Fifo!Init
  BY DEF Init, Fifo!Init
<1>2. ASSUME Ind, [Next]_vars
      PROVE  [Fifo!Next]_<<queue_, accepted, delivered, failed, forced>>
  <2>1. ASSUME NEW p \in Producers, PushCommit(p)
        PROVE  Fifo!Put \/ Fifo!Refuse
    <3>1. CASE HasRoom
      BY <2>1, <3>1, Zenon DEF PushCommit, HasRoom, Fifo!Put
    <3>2. CASE ~HasRoom
      <4>1. failed < forced /\ Len(queue_) = Capacity
        BY <1>2, <2>1, <3>2, QueueAssumption
           DEF Ind, TypeOK, Looked, MayPush, HasRoom, OneReleasePerForcewake, PushCommit
      <4> QED BY <2>1, <3>2, <4>1, Zenon DEF PushCommit, Fifo!Refuse
    <3> QED BY <3>1, <3>2
  <2>2. ASSUME NEW c \in Consumers, TakeCommit(c)
        PROVE  Fifo!Get \/ Fifo!Refuse
    <3>1. CASE HasItem
      <4>1. queue_ # <<>>
        BY <3>1 DEF HasItem
      <4> QED BY <2>2, <3>1, <4>1, Zenon DEF TakeCommit, Fifo!Get
    <3>2. CASE ~HasItem
      <4>1. failed < forced /\ Len(queue_) = 0
        BY <1>2, <2>2, <3>2
           DEF Ind, TypeOK, Looked, MayTake, HasItem, OneReleasePerForcewake, TakeCommit
      <4> QED BY <2>2, <3>2, <4>1, Zenon DEF TakeCommit, Fifo!Refuse
    <3> QED BY <3>1, <3>2
  <2>3. ASSUME NEW f \in Forcers, ForceSet(f) PROVE Fifo!Next
    BY <2>3 DEF ForceSet, Fifo!Next, Fifo!Force
  <2>4. ASSUME NEW t \in Threads,
               Park(t) \/ SpuriousWake(t) \/ Look(t, MayPush) \/ Look(t, MayTake)
        PROVE  UNCHANGED <<queue_, accepted, delivered, failed, forced>>
    BY <2>4 DEF Park, SpuriousWake, Look
  <2>5. ASSUME NEW f \in Forcers, ForceNotifyEmpty(f) \/ ForceNotifyFull(f)
        PROVE  UNCHANGED <<queue_, accepted, delivered, failed, forced>>
    BY <2>5 DEF ForceNotifyEmpty, ForceNotifyFull
  <2> QED
    BY <1>2, <2>1, <2>2, <2>3, <2>4, <2>5
       DEF Next, Push, Take, PushLook, TakeLook, Forcewake, Threads, Fifo!Next, vars
<1> QED
  BY <1>1, <1>2, Invariance, PTL DEF Spec, ImplementsFifo, Fifo!Spec
-----------------------------------------------------------------------------
(***************************************************************************)
(* No lost wakeup.  Awake(S, n): if somebody in S sleeps, at least n       *)
(* threads of S are on their way.  Both sides keep it with their own n.    *)
(***************************************************************************)
Awake(S, n) == At(S, "asleep") # {} => n <= Cardinality(OnTheirWay(S))

LEMMA FiniteSides ==
  ASSUME NEW S \in {Producers, Consumers}
  PROVE  /\ IsFiniteSet(S) /\ S \in SUBSET Threads
         /\ IsFiniteSet(OnTheirWay(S)) /\ Cardinality(OnTheirWay(S)) \in Nat
         /\ IsFiniteSet(OnTheirWay(S)') /\ Cardinality(OnTheirWay(S)') \in Nat
<1>1. IsFiniteSet(S) /\ S \in SUBSET Threads
  BY QueueAssumption DEF Threads
<1>2. OnTheirWay(S) \in SUBSET S /\ OnTheirWay(S)' \in SUBSET S
  BY DEF OnTheirWay, At
<1> QED BY <1>1, <1>2, FS_Subset, FS_CardinalityType

(* Nobody of S falls asleep or goes away: the count does not shrink.       *)
LEMMA AwakeKept ==
  ASSUME NEW S \in {Producers, Consumers}, NEW n \in Nat, Awake(S, n),
         \A t \in S : /\ t \in OnTheirWay(S) => t \in OnTheirWay(S)'
                      /\ t \in At(S, "asleep")' => t \in At(S, "asleep")
  PROVE  At(S, "asleep")' # {} => n <= Cardinality(OnTheirWay(S)')
<1>1. OnTheirWay(S) \subseteq OnTheirWay(S)' /\ At(S, "asleep")' \subseteq At(S, "asleep")
  <2>1. OnTheirWay(S) \subseteq S /\ At(S, "asleep")' \subseteq S
    BY DEF OnTheirWay, At
  <2> QED BY <2>1
<1>2. Cardinality(OnTheirWay(S)) <= Cardinality(OnTheirWay(S)')
  BY <1>1, FiniteSides, FS_Subset
<1> QED BY <1>1, <1>2, FiniteSides DEF Awake

(* One of S finishes its call, and nobody else of S moves: one less.       *)
LEMMA AwakeLeaves ==
  ASSUME NEW S \in {Producers, Consumers}, NEW n \in Nat, Awake(S, n + 1), TypeOK,
         NEW t \in S, pc[t] = "commit", pc'[t] = "idle",
         \A u \in S \ {t} : pc'[u] = pc[u]
  PROVE  At(S, "asleep")' # {} => n <= Cardinality(OnTheirWay(S)')
<1>1. OnTheirWay(S)' = OnTheirWay(S) \ {t} /\ t \in OnTheirWay(S)
  BY DEF OnTheirWay, At
<1>2. At(S, "asleep")' = At(S, "asleep")
  BY DEF At
<1>3. Cardinality(OnTheirWay(S)') = Cardinality(OnTheirWay(S)) - 1
  BY <1>1, FiniteSides, FS_RemoveElement
<1> QED BY <1>2, <1>3, FiniteSides DEF Awake

(* notify_one() puts one sleeper of S on its way, if there is one.         *)
LEMMA AwakeNotified ==
  ASSUME NEW S \in {Producers, Consumers}, NEW n \in Nat, Awake(S, n), TypeOK,
         NEW t \in Threads \ S, pc[t] = "commit", LeaveAndNotify(t, S)
  PROVE  /\ At(S, "asleep")' # {} => n + 1 <= Cardinality(OnTheirWay(S)')
         /\ pc'[t] = "idle" /\ \A u \in Threads \ (S \cup {t}) : pc'[u] = pc[u]
<1>1. CASE At(S, "asleep") = {}
  <2>1. pc' = [pc EXCEPT ![t] = "idle"]
    BY <1>1 DEF LeaveAndNotify
  <2>2. At(S, "asleep")' = {}
    BY <1>1, <2>1, FiniteSides DEF At, TypeOK
  <2> QED BY <2>1, <2>2 DEF TypeOK
<1>2. CASE At(S, "asleep") # {}
  <2>1. PICK w \in At(S, "asleep") : pc' = [pc EXCEPT ![t] = "idle", ![w] = "woken"]
    BY <1>2 DEF LeaveAndNotify
  <2>2. w \in S /\ w \in Threads /\ w # t /\ w \notin OnTheirWay(S)
    BY <2>1, FiniteSides DEF At, OnTheirWay
  <2>3. OnTheirWay(S)' = OnTheirWay(S) \cup {w}
    BY <2>1, <2>2, FiniteSides DEF OnTheirWay, At, TypeOK
  <2>4. Cardinality(OnTheirWay(S)') = Cardinality(OnTheirWay(S)) + 1
    BY <2>2, <2>3, FiniteSides, FS_AddElement
  <2> QED BY <1>2, <2>1, <2>2, <2>4, FiniteSides DEF Awake, TypeOK
<1> QED BY <1>1, <1>2

Sides == Awake(Consumers, Len(queue_)) /\ Awake(Producers, Capacity - Len(queue_))

(* A step that moves threads only, and puts nobody to sleep while there is *)
(* something for it.                                                       *)
LEMMA SidesMove ==
  ASSUME Ind, Sides, UNCHANGED queue_,
         \A S \in {Producers, Consumers} : \A t \in S :
            /\ t \in OnTheirWay(S) => t \in OnTheirWay(S)'
            /\ t \in At(S, "asleep")' => t \in At(S, "asleep")
  PROVE  Sides'
<1>1. Len(queue_) \in Nat /\ Capacity - Len(queue_) \in Nat
  BY QueueAssumption DEF Ind, TypeOK
<1>2. At(Consumers, "asleep")' # {} => Len(queue_) <= Cardinality(OnTheirWay(Consumers)')
  BY <1>1, AwakeKept DEF Sides
<1>3. At(Producers, "asleep")' # {} => Capacity - Len(queue_) <= Cardinality(OnTheirWay(Producers)')
  BY <1>1, AwakeKept DEF Sides
<1> QED BY <1>2, <1>3 DEF Sides, Awake

(* t finds nothing to do, on entry or after a wakeup, or goes to sleep.    *)
LEMMA SidesIdle ==
  ASSUME Ind, Sides, NEW t \in Threads, UNCHANGED queue_,
         pc' \in [Threads -> Places], \A u \in Threads \ {t} : pc'[u] = pc[u],
         t \in Consumers => Len(queue_) = 0,
         t \in Producers => Len(queue_) = Capacity
  PROVE  Sides'
<1>1. Len(queue_) \in Nat /\ Capacity - Len(queue_) \in Nat
  BY QueueAssumption DEF Ind, TypeOK
<1>2. ASSUME NEW S \in {Producers, Consumers}, t \notin S
      PROVE  \A u \in S : /\ u \in OnTheirWay(S) => u \in OnTheirWay(S)'
                          /\ u \in At(S, "asleep")' => u \in At(S, "asleep")
  BY <1>2, FiniteSides DEF OnTheirWay, At
<1>3. CASE t \in Consumers
  <2>1. Len(queue_) = 0 /\ t \notin Producers
    BY <1>3, QueueAssumption
  <2>2. At(Producers, "asleep")' # {} => Capacity - Len(queue_) <= Cardinality(OnTheirWay(Producers)')
    BY <1>1, <1>2, <2>1, AwakeKept DEF Sides
  <2> QED BY <1>1, <2>1, <2>2, FiniteSides DEF Sides, Awake
<1>4. CASE t \in Producers
  <2>1. Capacity - Len(queue_) = 0 /\ t \notin Consumers
    BY <1>1, <1>4, QueueAssumption
  <2>2. At(Consumers, "asleep")' # {} => Len(queue_) <= Cardinality(OnTheirWay(Consumers)')
    BY <1>1, <1>2, <2>1, AwakeKept DEF Sides
  <2> QED BY <1>1, <2>1, <2>2, FiniteSides DEF Sides, Awake
<1> QED BY <1>3, <1>4 DEF Threads

LEMMA SidesPark ==
  ASSUME Ind, Sides, NEW t \in Threads, Park(t)
  PROVE  Sides'
<1>1. /\ UNCHANGED queue_ /\ pc' \in [Threads -> Places]
      /\ \A u \in Threads \ {t} : pc'[u] = pc[u]
  BY DEF Ind, TypeOK, Park, Places
<1>2. /\ t \in Consumers => Len(queue_) = 0
      /\ t \in Producers => Len(queue_) = Capacity
  BY DEF Ind, Looked, Park
<1> QED BY <1>1, <1>2, SidesIdle

LEMMA SidesLook ==
  ASSUME Ind, Sides, NEW t \in Threads, NEW predicate \in BOOLEAN, Look(t, predicate),
         t \in Consumers /\ ~predicate => Len(queue_) = 0,
         t \in Producers /\ ~predicate => Len(queue_) = Capacity
  PROVE  Sides'
<1>1. /\ UNCHANGED queue_ /\ pc' \in [Threads -> Places] /\ pc[t] # "asleep"
      /\ \A u \in Threads \ {t} : pc'[u] = pc[u]
  BY DEF Ind, TypeOK, Look, Places
<1>2. CASE predicate
  <2>1. pc'[t] = "commit"
    BY <1>2 DEF Ind, TypeOK, Look
  <2> QED BY <1>1, <2>1, SidesMove, FiniteSides DEF OnTheirWay, At
<1>3. CASE ~predicate
  BY <1>1, <1>3, SidesIdle
<1> QED BY <1>2, <1>3

LEMMA SidesPush ==
  ASSUME Ind, Sides, NEW p \in Producers, PushCommit(p)
  PROVE  Sides'
<1> USE QueueAssumption DEF HasRoom
<1>1. /\ TypeOK /\ pc[p] = "commit" /\ p \in Threads \ Consumers /\ Len(queue_) \in 0..Capacity
      /\ Producers \subseteq Threads
  BY DEF Ind, TypeOK, PushCommit, Threads
<1>2. CASE HasRoom
  <2>1. LeaveAndNotify(p, Consumers) /\ queue_' = Append(queue_, accepted + 1)
    BY <1>2, Zenon DEF PushCommit
  <2>2. Len(queue_') = Len(queue_) + 1
    BY <1>1, <2>1 DEF TypeOK
  <2>3. /\ At(Consumers, "asleep")' # {} => Len(queue_) + 1 <= Cardinality(OnTheirWay(Consumers)')
        /\ pc'[p] = "idle" /\ \A u \in Threads \ (Consumers \cup {p}) : pc'[u] = pc[u]
    BY <1>1, <2>1, AwakeNotified DEF Sides
  <2>4. \A u \in Producers \ {p} : pc'[u] = pc[u]
    BY <1>1, <2>3
  <2>5. DEFINE n == Capacity - Len(queue_) - 1
  <2>6. n \in Nat /\ Awake(Producers, n + 1) /\ Capacity - Len(queue_') = n
    <3>1. n + 1 = Capacity - Len(queue_) /\ n \in Nat /\ Capacity - Len(queue_') = n
      BY <1>1, <1>2, <2>2
    <3> HIDE DEF n
    <3> QED BY <3>1 DEF Sides
  <2> HIDE DEF n
  <2>7. At(Producers, "asleep")' # {} => n <= Cardinality(OnTheirWay(Producers)')
    BY <1>1, <2>3, <2>4, <2>6, AwakeLeaves
  <2> QED BY <2>2, <2>3, <2>6, <2>7 DEF Sides, Awake
<1>3. CASE ~HasRoom
  <2>1. Leave(p) /\ UNCHANGED queue_ /\ Capacity - Len(queue_) = 0
    BY <1>1, <1>3 DEF PushCommit
  <2>2. \A u \in Consumers : /\ u \in OnTheirWay(Consumers) => u \in OnTheirWay(Consumers)'
                             /\ u \in At(Consumers, "asleep")' => u \in At(Consumers, "asleep")
    BY <1>1, <2>1 DEF Leave, TypeOK, OnTheirWay, At, Threads
  <2>3. At(Consumers, "asleep")' # {} => Len(queue_) <= Cardinality(OnTheirWay(Consumers)')
    BY <1>1, <2>2, AwakeKept DEF Sides
  <2> QED BY <2>1, <2>3, FiniteSides DEF Sides, Awake
<1> QED BY <1>2, <1>3

LEMMA SidesTake ==
  ASSUME Ind, Sides, NEW c \in Consumers, TakeCommit(c)
  PROVE  Sides'
<1> USE QueueAssumption DEF HasItem
<1>1. /\ TypeOK /\ pc[c] = "commit" /\ c \in Threads \ Producers /\ Len(queue_) \in 0..Capacity
      /\ Consumers \subseteq Threads
  BY DEF Ind, TypeOK, TakeCommit, Threads
<1>2. CASE HasItem
  <2>1. LeaveAndNotify(c, Producers) /\ queue_' = Tail(queue_)
    BY <1>2, Zenon DEF TakeCommit
  <2>2. Len(queue_') = Len(queue_) - 1
    BY <1>1, <1>2, <2>1 DEF TypeOK
  <2>3. /\ At(Producers, "asleep")' # {} =>
              Capacity - Len(queue_) + 1 <= Cardinality(OnTheirWay(Producers)')
        /\ pc'[c] = "idle" /\ \A u \in Threads \ (Producers \cup {c}) : pc'[u] = pc[u]
    <3>1. Capacity - Len(queue_) \in Nat
      BY <1>1
    <3> QED BY <1>1, <2>1, <3>1, AwakeNotified DEF Sides
  <2>4. \A u \in Consumers \ {c} : pc'[u] = pc[u]
    BY <1>1, <2>3
  <2>5. DEFINE n == Len(queue_) - 1
  <2>6. n \in Nat /\ Awake(Consumers, n + 1) /\ Len(queue_') = n
    <3>1. n + 1 = Len(queue_) /\ n \in Nat /\ Len(queue_') = n
      BY <1>1, <1>2, <2>2
    <3> HIDE DEF n
    <3> QED BY <3>1 DEF Sides
  <2>7. Capacity - Len(queue_') = Capacity - Len(queue_) + 1
    BY <1>1, <2>2
  <2> HIDE DEF n
  <2>8. At(Consumers, "asleep")' # {} => n <= Cardinality(OnTheirWay(Consumers)')
    BY <1>1, <2>3, <2>4, <2>6, AwakeLeaves
  <2> QED BY <2>3, <2>6, <2>7, <2>8 DEF Sides, Awake
<1>3. CASE ~HasItem
  <2>1. Leave(c) /\ UNCHANGED queue_ /\ Len(queue_) = 0 /\ Capacity - Len(queue_) \in Nat
    BY <1>1, <1>3 DEF TakeCommit
  <2>2. \A u \in Producers : /\ u \in OnTheirWay(Producers) => u \in OnTheirWay(Producers)'
                             /\ u \in At(Producers, "asleep")' => u \in At(Producers, "asleep")
    BY <1>1, <2>1 DEF Leave, TypeOK, OnTheirWay, At, Threads
  <2>3. At(Producers, "asleep")' # {} => Capacity - Len(queue_) <= Cardinality(OnTheirWay(Producers)')
    BY <2>1, <2>2, AwakeKept DEF Sides
  <2> QED BY <2>1, <2>3, FiniteSides DEF Sides, Awake
<1> QED BY <1>2, <1>3

LEMMA SidesForce ==
  ASSUME Ind, Sides, NEW f \in Forcers, Forcewake(f)
  PROVE  Sides'
<1>1. UNCHANGED queue_
  BY DEF Forcewake, ForceSet, ForceNotifyEmpty, ForceNotifyFull
<1>2. \A t \in Threads : pc'[t] = pc[t] \/ (pc[t] = "asleep" /\ pc'[t] = "woken")
  BY DEF Ind, TypeOK, Forcewake, ForceSet, ForceNotifyEmpty, ForceNotifyFull, NotifyAll, At
<1> QED BY <1>1, <1>2, SidesMove, FiniteSides DEF OnTheirWay, At

LEMMA SidesNext == Ind /\ Sides /\ [Next]_vars => Sides'
<1> SUFFICES ASSUME Ind, Sides, [Next]_vars PROVE Sides'
  OBVIOUS
<1>1. ASSUME NEW p \in Producers, Push(p) PROVE Sides'
  <2>1. MayPush \in BOOLEAN /\ (~MayPush => Len(queue_) = Capacity) /\ p \in Threads \ Consumers
    BY QueueAssumption DEF Ind, TypeOK, MayPush, HasRoom, Threads
  <2> QED BY <1>1, <2>1, SidesLook, SidesPush, SidesPark DEF Push, PushLook
<1>2. ASSUME NEW c \in Consumers, Take(c) PROVE Sides'
  <2>1. MayTake \in BOOLEAN /\ (~MayTake => Len(queue_) = 0) /\ c \in Threads \ Producers
    BY QueueAssumption DEF Ind, TypeOK, MayTake, HasItem, Threads
  <2> QED BY <1>2, <2>1, SidesLook, SidesTake, SidesPark DEF Take, TakeLook
<1>3. ASSUME NEW t \in Threads, SpuriousWake(t) PROVE Sides'
  <2>1. /\ UNCHANGED queue_ /\ pc[t] = "asleep" /\ pc'[t] = "woken"
        /\ \A u \in Threads \ {t} : pc'[u] = pc[u]
    BY <1>3 DEF Ind, TypeOK, SpuriousWake
  <2> QED BY <2>1, SidesMove, FiniteSides DEF OnTheirWay, At
<1>4. CASE UNCHANGED vars
  BY <1>4, SidesMove DEF vars, OnTheirWay, At
<1> QED BY <1>1, <1>2, <1>3, <1>4, SidesForce DEF Next

(* No wakeup is lost between push() and take(), for any number of threads. *)
THEOREM WakeupsArrive == Spec => []NoLostWakeup
<1>1. Init => Sides
  BY DEF Init, Sides, Awake, At, Threads
<1>2. Sides => NoLostWakeup
  BY DEF Sides, Awake, NoLostWakeup
<1> QED BY <1>1, <1>2, SidesNext, Invariance, PTL DEF Spec
=============================================================================
