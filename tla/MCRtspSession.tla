---------------------------- MODULE MCRtspSession ----------------------------
(* An instance of RtspSession for TLC: a stream of two tracks is played,   *)
(* with three commands at any time.                                        *)
EXTENDS RtspSession
=============================================================================
