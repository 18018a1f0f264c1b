---------------------------- MODULE MCDstEngine ----------------------------
(* DstEngine with one unit of time for 5 s. *)
EXTENDS DstEngine

MCLasts == [crash |-> 3, latency |-> 3, partition |-> 4, stress |-> 2, dns |-> 2, eviction |-> 3]

\* A simulation that has ended takes no more steps: anything else is a deadlock.
Ended == done /\ UNCHANGED vars
MCSpec == Init /\ [][Next \/ Ended]_vars
=============================================================================
