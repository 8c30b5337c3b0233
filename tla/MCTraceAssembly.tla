--------------------------- MODULE MCTraceAssembly ---------------------------
(* A small instance of TraceAssembly: a batch that states the outcome, one   *)
(* with the root span and one with neither.                                 *)
EXTENDS TraceAssembly, TLC

CONSTANTS outcome, root, turn, serve, worker
=============================================================================
