--------------------------- MODULE MCEventStream ---------------------------
(* EventStream for TLC: the worker and the idle timer write.               *)
EXTENDS EventStream

MCRequests == {}
=============================================================================
