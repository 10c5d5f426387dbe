---------------------------- MODULE StreamQueues ----------------------------
(***************************************************************************)
(* IUNknownQueue (MediaPlayer/iunknownqueue.cpp): the packet queues and    *)
(* the frame queues of a session, one BlockingQueue per stream and kind,   *)
(* seen from the threads that use them.  A call takes effect in one step   *)
(* (BlockingQueue implements BoundedFifo), with what the session depends   *)
(* on kept: the sticky forcewake_ flag, and the moment between a false     *)
(* predicate and sleep in which a forcewake() is missed.  The condition    *)
(* variable of PauseInfo has the same gap, so it is one more place to      *)
(* sleep here.                                                             *)
(***************************************************************************)
EXTENDS Naturals, Sequences

CONSTANTS
    NumStreams,          \* streams of the file, MediaData::getStreamCount()
    MaxPacketlistSize,   \* capacity of a packet queue
    MaxFramelistSize     \* capacity of a frame queue

ASSUME QueuesAssumption ==
    /\ NumStreams \in Nat \ {0}
    /\ MaxPacketlistSize \in Nat \ {0}
    /\ MaxFramelistSize \in Nat \ {0}

VARIABLES
    queue,        \* contents of every queue
    forcewake,    \* forcewake_ of every queue
    sleeper,      \* for every thread the condition variable it parks or sleeps on
    missed        \* history: a wakeup fell into the gap of a parking thread

queueVars == <<queue, forcewake, sleeper, missed>>

Streams == 1..NumStreams

m_packetQueue(s) == <<"packet", s>>
m_frameQueue(s) == <<"frame", s>>
PauseGate == <<"pause", 0>>

PacketQueues == {m_packetQueue(s) : s \in Streams}
FrameQueues == {m_frameQueue(s) : s \in Streams}
Queues == PacketQueues \cup FrameQueues

Demuxer == <<"demux", 0>>
Decoder(s) == <<"decode", s>>
Renderer(s) == <<"render", s>>
Threads == {Demuxer} \cup {Decoder(s) : s \in Streams} \cup {Renderer(s) : s \in Streams}

QueueInit ==
    /\ queue = [q \in Queues |-> <<>>]
    /\ forcewake = [q \in Queues |-> FALSE]
    /\ sleeper = [t \in Threads |-> <<>>]
    /\ missed = FALSE

Cap(q) == IF q \in PacketQueues THEN MaxPacketlistSize ELSE MaxFramelistSize

Awake(t) == sleeper[t] = <<>>

(* The threads between a false predicate and sleep: they hold the mutex.   *)
Parking(Q) == {t \in Threads : ~Awake(t) /\ sleeper[t][1] = "parking" /\ sleeper[t][2] \in Q}

Asleep(q, side) == {t \in Threads : sleeper[t] = <<"asleep", q, side>>}

CanLock(t, q) == Awake(t) /\ Parking({q}) = {}

(* Mutant: a put or a get that notifies nobody.                            *)
NotifyNobody(q, side) == UNCHANGED sleeper

(* notify_one()                                                            *)
NotifyOne(q, side) ==
    IF Asleep(q, side) = {}
    THEN UNCHANGED sleeper
    ELSE \E t \in Asleep(q, side) : sleeper' = [sleeper EXCEPT ![t] = <<>>]

(* notify_all() on both condition variables, by a caller that does not     *)
(* hold the mutex: whoever is still parking does not hear it.              *)
NotifyAll(Q) ==
    /\ sleeper' = [t \in Threads |->
                     IF \E q \in Q, side \in {"put", "get"} : t \in Asleep(q, side)
                     THEN <<>> ELSE sleeper[t]]
    /\ missed' = (missed \/ Parking(Q) # {})

Forcewake(Q) ==
    /\ forcewake' = [q \in Queues |-> forcewake[q] \/ q \in Q]
    /\ NotifyAll(Q)
    /\ UNCHANGED queue

(* Mutant: a full queue still takes one more.                              *)
CanPutOffByOne(q) == Len(queue[q]) <= Cap(q)

CanPut(q) == Len(queue[q]) < Cap(q)
CanGet(q) == queue[q] # <<>>

PutDone(t, q, v) ==
    /\ CanLock(t, q)
    /\ CanPut(q)
    /\ queue' = [queue EXCEPT ![q] = Append(@, v)]
    /\ forcewake' = [forcewake EXCEPT ![q] = FALSE]
    /\ NotifyOne(q, "get")
    /\ UNCHANGED missed

GetDone(t, q) ==
    /\ CanLock(t, q)
    /\ CanGet(q)
    /\ queue' = [queue EXCEPT ![q] = Tail(@)]
    /\ forcewake' = [forcewake EXCEPT ![q] = FALSE]
    /\ NotifyOne(q, "put")
    /\ UNCHANGED missed

(* push() returns false, take() an empty value: the flag let them out.     *)
Refused(t, q, can) ==
    /\ CanLock(t, q)
    /\ ~can
    /\ forcewake[q]
    /\ forcewake' = [forcewake EXCEPT ![q] = FALSE]
    /\ UNCHANGED <<queue, sleeper, missed>>

PutRefused(t, q) == Refused(t, q, CanPut(q))
GetRefused(t, q) == Refused(t, q, CanGet(q))

ParkOn(t, q, side) ==
    /\ CanLock(t, q)
    /\ sleeper' = [sleeper EXCEPT ![t] = <<"parking", q, side>>]
    /\ UNCHANGED <<queue, forcewake, missed>>

PutBlocks(t, q) == ~CanPut(q) /\ ~forcewake[q] /\ ParkOn(t, q, "put")
GetBlocks(t, q) == ~CanGet(q) /\ ~forcewake[q] /\ ParkOn(t, q, "get")

FallAsleep(t) ==
    /\ t \in Parking(Queues \cup {PauseGate})
    /\ sleeper' = [sleeper EXCEPT ![t][1] = "asleep"]
    /\ UNCHANGED <<queue, forcewake, missed>>
=============================================================================
