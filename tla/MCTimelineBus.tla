---------------------------- MODULE MCTimelineBus ----------------------------
(* Lists of five events: two probes, one of which fails slowly, a crash,     *)
(* which nobody reverts, and a DNS fault; each expects one of the probes to  *)
(* fail.                                                                     *)
EXTENDS TimelineBus

MCKindOf == [f \in Faults |-> f]
MCExpected == [f \in Faults |-> IF f = "dns" THEN {"api"} ELSE {"db"}]
MCAnswers ==
  {[who |-> "api", kind |-> "success", ms |-> 0],
   [who |-> "api", kind |-> "timeout", ms |-> 2],
   [who |-> "db", kind |-> "success", ms |-> 1], [who |-> "db", kind |-> "failed", ms |-> 3]}

CONSTANT MaxLen   \* bound on the length of the list

\* The bounds of the model are reached.
Bounded == Len(events) = MaxLen /\ now = MaxTime /\ UNCHANGED vars

MCNext == (Len(events) < MaxLen /\ Emits) \/ Tick \/ Bounded
MCSpec == Init /\ [][MCNext]_vars
=============================================================================
