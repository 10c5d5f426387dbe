---------------------------- MODULE BlockingQueue ----------------------------
(***************************************************************************)
(* BlockingQueue<T> (MediaPlayer/blockingqueue.h): a bounded FIFO guarded  *)
(* by one mutex and two condition variables, with a forcewake() that       *)
(* writes its flag and notifies WITHOUT taking the mutex.  Every queue of  *)
(* packets and of frames of the native player is one of these.             *)
(*                                                                         *)
(* A call is cut where another thread can come between: evaluating the     *)
(* wait predicate (the mutex is then held), finishing the call, and going  *)
(* to sleep.  forcewake() can fall into every one of these gaps.           *)
(***************************************************************************)
EXTENDS Naturals, Sequences, FiniteSets

CONSTANTS
    Producers,    \* threads that call push()
    Consumers,    \* threads that call take()
    Forcers,      \* threads that call forcewake()
    Capacity,     \* capacity_, the constructor's argument
    MaxPushes,    \* bound: values ever accepted
    MaxForced     \* bound: calls of forcewake()

ASSUME QueueAssumption ==
    /\ Capacity \in Nat \ {0}
    /\ MaxPushes \in Nat
    /\ MaxForced \in Nat
    /\ IsFiniteSet(Producers)
    /\ IsFiniteSet(Consumers)
    /\ Producers \cap Consumers = {}

VARIABLES
    queue_,       \* the values in the queue; a value is the number of its push
    forcewake_,   \* the flag that releases a waiter although nothing came
    pc,           \* where each thread is inside push() or take()
    forcer,       \* what is left of each forcer's forcewake(): "no", "empty", "full"
    accepted,     \* number of pushes that returned true
    delivered,    \* the values take() returned, in that order
    failed,       \* number of calls that returned false or an empty value
    forced        \* number of forcewake() calls begun

vars == <<queue_, forcewake_, pc, forcer, accepted, delivered, failed, forced>>

Threads == Producers \cup Consumers

(***************************************************************************)
(* idle: outside the queue; commit and park: holding the mutex, after the  *)
(* predicate was seen true or false; asleep: in the condition variable;    *)
(* woken: notified (or spuriously awake), about to lock and look again.    *)
(***************************************************************************)
Places == {"idle", "commit", "park", "asleep", "woken"}

At(S, place) == {t \in S : pc[t] = place}

(* Mutant: a queue without its mutex.                                      *)
MutexIgnored == TRUE

MutexFree == \A t \in Threads : pc[t] \notin {"commit", "park"}

Init ==
    /\ queue_ = <<>>
    /\ forcewake_ = FALSE
    /\ pc = [t \in Threads |-> "idle"]
    /\ forcer = [f \in Forcers |-> "no"]
    /\ accepted = 0
    /\ delivered = <<>>
    /\ failed = 0
    /\ forced = 0

HasRoom == Len(queue_) < Capacity
HasItem == Len(queue_) > 0

(* The predicates the two wait() calls evaluate.                           *)
MayPush == HasRoom \/ forcewake_
MayTake == HasItem \/ forcewake_

(* Lock the mutex (on entry or after a notification), evaluate the         *)
(* predicate of wait().                                                    *)
Look(t, predicate) ==
    /\ pc[t] \in {"idle", "woken"}
    /\ MutexFree
    /\ pc' = [pc EXCEPT ![t] = IF predicate THEN "commit" ELSE "park"]
    /\ UNCHANGED <<queue_, forcewake_, forcer, accepted, delivered, failed, forced>>

PushLook(p) ==
    /\ pc[p] = "idle" => accepted < MaxPushes
    /\ Look(p, MayPush)

TakeLook(c) == Look(c, MayTake)

(* Unlock and sleep, one atomic step for whoever holds the mutex, which    *)
(* forcewake() does not.                                                   *)
Park(t) ==
    /\ pc[t] = "park"
    /\ pc' = [pc EXCEPT ![t] = "asleep"]
    /\ UNCHANGED <<queue_, forcewake_, forcer, accepted, delivered, failed, forced>>

(* Mutants of the notification: on an empty or full queue only, or never.  *)
LeaveAndNotifyAtEdge(t, S) ==
    IF At(S, "asleep") = {} \/ Len(queue_) \notin {0, Capacity}
    THEN pc' = [pc EXCEPT ![t] = "idle"]
    ELSE \E w \in At(S, "asleep") : pc' = [pc EXCEPT ![t] = "idle", ![w] = "woken"]

LeaveSilently(t, S) == pc' = [pc EXCEPT ![t] = "idle"]

(* t leaves and notify_one() wakes one sleeper of S, if there is one.      *)
LeaveAndNotify(t, S) ==
    IF At(S, "asleep") = {}
    THEN pc' = [pc EXCEPT ![t] = "idle"]
    ELSE \E w \in At(S, "asleep") : pc' = [pc EXCEPT ![t] = "idle", ![w] = "woken"]

Leave(t) == pc' = [pc EXCEPT ![t] = "idle"]

(* Mutant: push_front() for push_back().                                   *)
PushCommitInFront(p) ==
    /\ pc[p] = "commit"
    /\ HasRoom
    /\ forcewake_' = FALSE
    /\ queue_' = <<accepted + 1>> \o queue_
    /\ accepted' = accepted + 1
    /\ LeaveAndNotify(p, Consumers)
    /\ UNCHANGED <<failed, forcer, delivered, forced>>

PushCommit(p) ==
    /\ pc[p] = "commit"
    /\ forcewake_' = FALSE
    /\ IF HasRoom
       THEN /\ queue_' = Append(queue_, accepted + 1)
            /\ accepted' = accepted + 1
            /\ LeaveAndNotify(p, Consumers)
            /\ UNCHANGED failed
       ELSE /\ failed' = failed + 1
            /\ Leave(p)
            /\ UNCHANGED <<queue_, accepted>>
    /\ UNCHANGED <<forcer, delivered, forced>>

(* Mutant: take() leaves the flag set when it returns an empty value.      *)
TakeCommitKeepsFlag(c) ==
    /\ pc[c] = "commit"
    /\ ~HasItem
    /\ failed' = failed + 1
    /\ Leave(c)
    /\ UNCHANGED <<queue_, forcewake_, forcer, accepted, delivered, forced>>

TakeCommit(c) ==
    /\ pc[c] = "commit"
    /\ forcewake_' = FALSE
    /\ IF HasItem
       THEN /\ queue_' = Tail(queue_)
            /\ delivered' = Append(delivered, Head(queue_))
            /\ LeaveAndNotify(c, Producers)
            /\ UNCHANGED failed
       ELSE /\ failed' = failed + 1
            /\ Leave(c)
            /\ UNCHANGED <<queue_, delivered>>
    /\ UNCHANGED <<forcer, accepted, forced>>

(* The three steps of forcewake() are not covered by the mutex, and those  *)
(* of two threads overlap: one stops the player while the demuxer clears   *)
(* the queues after a jump.  A forcer may be a producer between its calls. *)
ForceSet(f) ==
    /\ forcer[f] = "no"
    /\ forced < MaxForced
    /\ forcewake_' = TRUE
    /\ forcer' = [forcer EXCEPT ![f] = "empty"]
    /\ forced' = forced + 1
    /\ UNCHANGED <<queue_, pc, accepted, delivered, failed>>

(* Mutant: forcewake() without notify_all().                               *)
NotifyNobody(S) == UNCHANGED pc

NotifyAll(S) ==
    pc' = [t \in Threads |-> IF t \in At(S, "asleep") THEN "woken" ELSE pc[t]]

ForceNotifyEmpty(f) ==
    /\ forcer[f] = "empty"
    /\ NotifyAll(Consumers)
    /\ forcer' = [forcer EXCEPT ![f] = "full"]
    /\ UNCHANGED <<queue_, forcewake_, accepted, delivered, failed, forced>>

ForceNotifyFull(f) ==
    /\ forcer[f] = "full"
    /\ NotifyAll(Producers)
    /\ forcer' = [forcer EXCEPT ![f] = "no"]
    /\ UNCHANGED <<queue_, forcewake_, accepted, delivered, failed, forced>>

(* A condition variable may return although nobody notified it.            *)
SpuriousWake(t) ==
    /\ pc[t] = "asleep"
    /\ pc' = [pc EXCEPT ![t] = "woken"]
    /\ UNCHANGED <<queue_, forcewake_, forcer, accepted, delivered, failed, forced>>

Push(p) == PushLook(p) \/ PushCommit(p) \/ Park(p)
Take(c) == TakeLook(c) \/ TakeCommit(c) \/ Park(c)
Forcewake(f) == ForceSet(f) \/ ForceNotifyEmpty(f) \/ ForceNotifyFull(f)

Next ==
    \/ \E p \in Producers : Push(p)
    \/ \E c \in Consumers : Take(c)
    \/ \E t \in Threads : SpuriousWake(t)
    \/ \E f \in Forcers : Forcewake(f)

Spec == Init /\ [][Next]_vars

(***************************************************************************)
(* The threads of the player run until they are stopped and a thread that  *)
(* is awake is scheduled; a thread that wants the mutex gets it although   *)
(* others keep taking it.  A new push() is never owed; DecodeThread and    *)
(* RenderThread do call take() again and again.                            *)
(***************************************************************************)
FairSpec ==
    /\ Spec
    /\ \A t \in Threads : WF_vars(Park(t))
    /\ \A p \in Producers : WF_vars(PushCommit(p)) /\ SF_vars(pc[p] = "woken" /\ PushLook(p))
    /\ \A c \in Consumers : WF_vars(TakeCommit(c)) /\ SF_vars(TakeLook(c))
    /\ \A f \in Forcers : WF_vars(ForceNotifyEmpty(f)) /\ WF_vars(ForceNotifyFull(f))
-----------------------------------------------------------------------------
(* Types; the queue stays within its capacity, forced or not.              *)
TypeOK ==
    /\ queue_ \in Seq(Nat) /\ Len(queue_) <= Capacity
    /\ forcewake_ \in BOOLEAN
    /\ pc \in [Threads -> Places]
    /\ forcer \in [Forcers -> {"no", "empty", "full"}]
    /\ accepted \in Nat
    /\ delivered \in Seq(Nat)
    /\ failed \in Nat
    /\ forced \in Nat

(* FIFO without loss or duplication: what was taken followed by what is    *)
(* still queued is exactly what push() accepted, in the order it did,      *)
(* whichever forcewake() and whichever other thread comes in between.      *)
FifoNoLoss == delivered \o queue_ = [i \in 1..accepted |-> i]

(* push() returns false and take() returns an empty value only on behalf   *)
(* of a forcewake(), and one forcewake() releases at most one such call:   *)
(* whoever gets past the wait first clears the flag for everybody.         *)
OneReleasePerForcewake ==
    /\ failed <= forced
    /\ forcewake_ => failed < forced

(* No lost wakeup between push() and take(): as long as some consumer      *)
(* sleeps there are at least as many consumers awake on their way to the   *)
(* queue as values in it, and as long as some producer sleeps at least as  *)
(* many producers on their way as free places.                             *)
OnTheirWay(S) == At(S, "woken") \cup At(S, "commit")

NoLostWakeup ==
    /\ At(Consumers, "asleep") # {} => Len(queue_) <= Cardinality(OnTheirWay(Consumers))
    /\ At(Producers, "asleep") # {} => Capacity - Len(queue_) <= Cardinality(OnTheirWay(Producers))

(* The queue with its mutex and condition variables implements the FIFO    *)
(* whose operations are atomic.                                            *)
Fifo == INSTANCE BoundedFifo WITH items <- queue_

ImplementsFifo == Fifo!Spec

(* Every accepted value is taken: a forcewake() that swallows the wakeup   *)
(* of a push() never strands the value in the queue.                       *)
EveryValueDelivered ==
    \A v \in 1..(MaxPushes + 1) : (accepted >= v) ~> (\E i \in DOMAIN delivered : delivered[i] = v)

(* With one producer and one consumer (every queue of the player) a thread *)
(* that is asleep while forcewake() sets the flag gets out of its call,    *)
(* even when the other thread clears the flag first: it then leaves an     *)
(* item, or a free place, and a notification behind.                       *)
ForcewakeReleases ==
    \A t \in Threads, f \in Forcers :
        (pc[t] = "asleep" /\ forcewake_ /\ forcer[f] = "empty") ~> (pc[t] = "idle")
=============================================================================
