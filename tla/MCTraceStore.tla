---------------------------- MODULE MCTraceStore ----------------------------
(* Instances of TraceStore and of its listing for TLC. *)
EXTENDS TraceList
=============================================================================
