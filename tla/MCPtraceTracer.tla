--------------------------- MODULE MCPtraceTracer ---------------------------
(* A target with a main thread and up to two workers. *)
EXTENDS PtraceTracer

\* The tracer has exited.
Quiet == pc = "done" /\ UNCHANGED vars

MCSpec == Init /\ [][Next \/ Quiet]_vars /\ Fairness
=============================================================================
