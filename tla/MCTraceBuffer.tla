----------------------------- MODULE MCTraceBuffer -----------------------------
(* Two hooked threads, a buffer of two slots, tickets enough to overflow it. *)
EXTENDS TraceBuffer, TLC

CONSTANTS t1, t2

================================================================================
