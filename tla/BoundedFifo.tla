----------------------------- MODULE BoundedFifo -----------------------------
(***************************************************************************)
(* What a user of BlockingQueue (MediaPlayer/blockingqueue.h) is promised: *)
(* push() and take() happen at one moment each, values leave in the order  *)
(* in which they came, the queue never outgrows its capacity, and a call   *)
(* comes back empty-handed only on behalf of a forcewake() that has        *)
(* released nobody else.                                                   *)
(***************************************************************************)
EXTENDS Naturals, Sequences

CONSTANT Capacity

VARIABLES
    items,        \* the values in the queue, numbered by their push
    accepted,     \* pushes that returned true
    delivered,    \* values returned by take()
    failed,       \* calls that returned empty-handed
    forced        \* calls of forcewake()

Init ==
    /\ items = <<>>
    /\ accepted = 0
    /\ delivered = <<>>
    /\ failed = 0
    /\ forced = 0

Put ==
    /\ Len(items) < Capacity
    /\ accepted' = accepted + 1
    /\ items' = Append(items, accepted + 1)
    /\ UNCHANGED <<delivered, failed, forced>>

Get ==
    /\ items # <<>>
    /\ delivered' = Append(delivered, Head(items))
    /\ items' = Tail(items)
    /\ UNCHANGED <<accepted, failed, forced>>

Refuse ==
    /\ failed < forced
    /\ Len(items) \in {0, Capacity}
    /\ failed' = failed + 1
    /\ UNCHANGED <<items, accepted, delivered, forced>>

Force ==
    /\ forced' = forced + 1
    /\ UNCHANGED <<items, accepted, delivered, failed>>

Next == Put \/ Get \/ Refuse \/ Force

Spec == Init /\ [][Next]_<<items, accepted, delivered, failed, forced>>
=============================================================================
