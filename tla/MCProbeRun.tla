----------------------------- MODULE MCProbeRun -----------------------------
(* Two probes, one of which can take as long as its period, and a fault that *)
(* is reverted as soon as it is injected.                                    *)
EXTENDS ProbeRun

MCInterval == [p \in Probes |-> IF p = "api" THEN 2 ELSE 4]
MCTimeout == [p \in Probes |-> IF p = "api" THEN 2 ELSE 1]
MCInTime == [p \in Probes |-> {"success"}]
MCKindOf == [f \in Faults |-> f]
MCExpected == [f \in Faults |-> {}]
MCLasts == [f \in Faults |-> 0]

\* The process has exited, or time is up and nothing is due.
Quiet == (pc = "exited" \/ (now = MaxTime /\ ~Urgent)) /\ UNCHANGED vars

MCSpec == Init /\ [][Next \/ Quiet]_vars /\ Fairness
=============================================================================
