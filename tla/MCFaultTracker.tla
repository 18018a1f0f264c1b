--------------------------- MODULE MCFaultTracker ---------------------------
(* FaultTracker with two faults and three concurrent calls of revert_all. *)
EXTENDS FaultTracker

\* Every task may have ended: nothing is left to do.
Quiet ==
  /\ \A c \in Calls : call[c] = "returned"
  /\ tracked = Faults
  /\ \A f \in Faults : timer[f] \in {"none", "done"}
  /\ UNCHANGED trackerVars

MCNext == TrackerNext \/ Quiet
MCSpec == TrackerInit /\ [][MCNext]_trackerVars /\ Fairness
=============================================================================
