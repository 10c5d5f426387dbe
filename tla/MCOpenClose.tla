---------------------------- MODULE MCOpenClose ----------------------------
(* An instance of OpenClose for TLC: two files of two streams each.        *)
EXTENDS OpenClose
=============================================================================
