----------------------------- MODULE MCChaosRun -----------------------------
(* ChaosRun on two pods; the rounds, the kinds of fault and the errors are in the cfg. *)
EXTENDS ChaosRun

CONSTANTS DebugPods, DebugKinds  \* what is tried with the method "debug"

\* Debug containers run in so many orders that one pod and one rule have to do.
\* What is cut off keeps no command waiting: a round may always be skipped, and
\* no pod has to go.
Bounded ==
  method = "debug" =>
    /\ \A p \in Pods \ DebugPods : up[p]
    /\ \A f \in Faults : desc[f] = NoFault \/ (desc[f].kind \in DebugKinds /\ desc[f].pod \in DebugPods)

\* A process that has ended takes no more steps: anything else is a deadlock.
Ended == pc = "exited" /\ UNCHANGED vars

MCSpec == Init /\ [][Next \/ Ended]_vars
MCFairSpec == MCSpec /\ RunFairness
=============================================================================
