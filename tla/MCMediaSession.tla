--------------------------- MODULE MCMediaSession ---------------------------
(* Instances of MediaSession for TLC: a file played to its end, a live     *)
(* source that is paused and stopped, and every command on a cached file.  *)
EXTENDS MediaSession, TLC
=============================================================================
