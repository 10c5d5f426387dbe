--------------------------- MODULE MCBlockingQueue ---------------------------
(* Instances of BlockingQueue for TLC: two producers, two consumers and    *)
(* two forcers (symmetric), and the one-to-one queue the player builds.    *)
EXTENDS BlockingQueue, TLC

Swaps == Permutations(Producers) \cup Permutations(Consumers) \cup Permutations(Forcers)
=============================================================================
