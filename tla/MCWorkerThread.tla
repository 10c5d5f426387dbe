--------------------------- MODULE MCWorkerThread ---------------------------
(* Two callers (the user's thread and the demuxer's, as for a RenderThread)*)
(* that control one worker with up to three instances.                     *)
EXTENDS WorkerThread
=============================================================================
