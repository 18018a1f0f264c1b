---------------------------- MODULE MCVdsoPatch -----------------------------
(* VdsoPatch with two threads and two addresses. *)
EXTENDS VdsoPatch

\* All invocations and lives may be used up.
Quiet == tool.op = "none" /\ UNCHANGED vars

MCSpec == Init /\ [][Next \/ Quiet]_vars /\ Fairness
=============================================================================
