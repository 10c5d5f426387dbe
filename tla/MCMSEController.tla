-------------------------- MODULE MCMSEController --------------------------
(* An instance of MSEController for TLC: five segments, a buffer of two.   *)
EXTENDS MSEController
=============================================================================
