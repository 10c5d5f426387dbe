---------------------------- MODULE MCWebPlayer ----------------------------
(* Instances of WebPlayer for TLC: a file with two streams, a live stream  *)
(* from the network, and a file that is played again.                      *)
EXTENDS WebPlayer
=============================================================================
