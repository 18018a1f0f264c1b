------------------------------ MODULE Timeline ------------------------------
(***************************************************************************)
(* The list of events of a run (crates/timeline): what an event carries,   *)
(* and the queries of query.rs.  A list is in the order in which emit()    *)
(* got the lock, which need not be the order of the times.                 *)
(*                                                                         *)
(* An event is a record: `at` is its elapsed time; `who` the probe, the    *)
(* fault or the run it speaks of; `ms` the latency of a probe, or the      *)
(* total_failures of SimulationEnded.                                      *)
(***************************************************************************)
EXTENDS Naturals, Sequences, FiniteSets

CONSTANTS
  Probes,   \* names of probes
  Faults    \* identifiers of faults

ASSUME NamesAssumption == Probes \cap Faults = {} /\ "main" \notin Probes \cup Faults

\* What an event can speak of: a probe, a fault, the run.
Emitters == Probes \cup Faults \cup {"main"}

EventKind == {"started", "ended", "injected", "reverted", "success", "failed", "timeout"}
Event == [at : Nat, kind : EventKind, who : Emitters, ms : Nat]

Of(ev, K) == {i \in DOMAIN ev : ev[i].kind \in K}
Failures(ev) == Of(ev, {"failed", "timeout"})
Successes(ev) == Of(ev, {"success"})
Injections(ev) == Of(ev, {"injected"})
Reverts(ev) == Of(ev, {"reverted"})
Samples(ev) == Successes(ev) \cup Failures(ev)

\* The first and the last of a set of positions.
First(I) == CHOOSE i \in I : \A j \in I : i <= j
Final(I) == CHOOSE i \in I : \A j \in I : j <= i

LastAt(ev) == IF ev = <<>> THEN 0 ELSE ev[Len(ev)].at

\* events_in_window, as positions.
EventsInWindow(ev, start, end) == {i \in DOMAIN ev : start <= ev[i].at /\ ev[i].at <= end}

\* first_failure_after, as a set of at most one position.
FirstFailureAfter(ev, f) ==
  LET I == {i \in Injections(ev) : ev[i].who = f}
      F == {j \in Failures(ev) : ev[j].at >= ev[First(I)].at}
  IN IF I = {} \/ F = {} THEN {} ELSE {First(F)}

\* fault_to_detection_latency, as a set of at most one number.
DetectionLatency(ev, f) ==
  {ev[j].at - ev[First({i \in Injections(ev) : ev[i].who = f})].at : j \in FirstFailureAfter(ev, f)}

Summary(ev) ==
  [total_events |-> Len(ev),
   total_faults |-> Cardinality(Injections(ev)),
   total_failures |-> Cardinality(Failures(ev)),
   total_probe_successes |-> Cardinality(Successes(ev)),
   duration |-> LastAt(ev),
   first_failure_elapsed |-> {ev[i].at : i \in {j \in Failures(ev) : j = First(Failures(ev))}}]
=============================================================================
