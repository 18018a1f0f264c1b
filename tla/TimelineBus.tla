---------------------------- MODULE TimelineBus ----------------------------
(***************************************************************************)
(* What the timeline of a run promises its readers, and what the verdicts  *)
(* make of it.  Any number of tasks append events (crates/timeline/src/    *)
(* bus.rs); each reads the clock before it waits for the lock, so that the *)
(* list is in order of time only up to EmitGap.  The verdicts, which take  *)
(* the list for sorted, are compared with what they are to mean, on every  *)
(* list.  ProbeRun implements this module.                                 *)
(***************************************************************************)
EXTENDS Verdicts

CONSTANTS
  EmitGap,   \* bound on the time between the clock and the lock
  Answers,   \* what a probe can report: who, kind and ms
  MaxTime    \* bound on time, for model checking

ASSUME BusAssumption ==
  /\ EmitGap \in Nat /\ MaxTime \in Nat
  /\ Answers \subseteq [who : Probes, kind : {"success", "failed", "timeout"}, ms : Nat]

VARIABLES
  now,      \* time since the timeline was created
  events    \* the list

vars == <<now, events>>

BusTypeOK == now \in Nat /\ events \in Seq(Event)

Init ==
  /\ now = 0
  /\ events = <<[at |-> 0, kind |-> "started", who |-> "main", ms |-> 0]>>

\* The task that appends an event.  A revert is appended by a timer, a job of
\* the drain or the handler, which the event does not tell.
Author(e) == IF e.kind \in {"injected", "started", "ended"} THEN "main" ELSE e.who
SameTask(d, e) == e.kind # "reverted" /\ Author(d) = Author(e)

\* (Mutation: the clock is read before the work, however long it takes.)
BadRecent == 0..now

\* The times an event can carry that is appended now.
Recent == {at \in 0..now : now <= at + EmitGap}

\* A task appends its events in order.
Emit(e) ==
  /\ events' = Append(events, e)
  /\ \A i \in DOMAIN events : SameTask(events[i], e) => events[i].at <= e.at
  /\ UNCHANGED now

EmitSample(at) == \E a \in Answers : Emit([at |-> at, kind |-> a.kind, who |-> a.who, ms |-> a.ms])

EmitInjected(f, at) ==
  /\ \A i \in DOMAIN events : events[i].who # f
  /\ Emit([at |-> at, kind |-> "injected", who |-> f, ms |-> 0])

\* Nothing reverts a crash; anything else may be reverted more than once, by
\* its timer and by the drain.
EmitReverted(f, at) ==
  /\ KindOf[f] # "crash"
  /\ \E i \in Injections(events) : events[i].who = f /\ events[i].at <= at
  /\ Emit([at |-> at, kind |-> "reverted", who |-> f, ms |-> 0])

\* total_failures was counted on the list as it was at some earlier moment.
EmitEnded(at) ==
  /\ Of(events, {"ended"}) = {}
  /\ \E n \in 1..Len(events) :
       Emit([at |-> at, kind |-> "ended", who |-> "main", ms |-> Cardinality(Failures(SubSeq(events, 1, n)))])

Emits ==
  \E at \in Recent :
    \/ EmitSample(at) \/ EmitEnded(at)
    \/ \E f \in Faults : EmitInjected(f, at) \/ EmitReverted(f, at)

\* (Mutation: the clock is that of the wall, which can be set back.)
BadTick == now < MaxTime /\ now' \in {now + 1, now - 1} /\ UNCHANGED events

Tick == now < MaxTime /\ now' = now + 1 /\ UNCHANGED events

Next == Emits \/ Tick

Spec == Init /\ [][Next]_vars

(***************************************************************************)
(* The order of the list.                                                  *)
(***************************************************************************)
\* However the tasks race for the lock (bus.rs:33-87): an event may stand
\* before an earlier one only if the two are EmitGap apart or less; what a
\* probe or the handler appends is in order of time; a fault is injected at
\* most once, and however many times it is reverted, each revert comes after
\* its injection, in the list and in time.
TimelineOrder ==
  /\ \A i \in 1..Len(events) : \A j \in i..Len(events) :
       /\ events[i].at <= events[j].at + EmitGap
       /\ SameTask(events[i], events[j]) => events[i].at <= events[j].at
       /\ i # j /\ events[i].who = events[j].who => events[j].kind # "injected"
       /\ events[i].who = events[j].who /\ events[i].kind = "injected" => events[i].at <= events[j].at
  /\ \A j \in Reverts(events) : \E i \in Injections(events) : i < j /\ events[i].who = events[j].who

\* Event j comes after event i and at most w later, in the list as well as by
\* the clock; or by the clock, give or take a race.
Surely(i, j, w) == events[i].at + EmitGap < events[j].at /\ events[j].at + EmitGap <= events[i].at + w
Perhaps(i, j, w) == events[i].at <= events[j].at + EmitGap /\ events[j].at <= events[i].at + w

(***************************************************************************)
(* What the verdicts mean.                                                 *)
(***************************************************************************)
\* NoCascade stops at the first event past the window (cascade.rs:77-79) in a
\* list that is not sorted.  Still, if it passes, no probe the fault was not
\* to affect failed within the window, but for those that raced with its
\* ends; and if it fails, one did.
CascadeMeaning ==
  \A w \in 0..MaxTime :
    /\ NoCascade(events, w) =>
         \A i \in Injections(events), j \in Failures(events) :
           Surely(i, j, w) => events[j].who \in Expected[events[i].who]
    /\ ~NoCascade(events, w) =>
         \E i \in Injections(events), j \in Failures(events) :
           Perhaps(i, j, w) /\ events[j].who \notin Expected[events[i].who]

\* RecoveryTime takes the last failure and the first success after it in list
\* order, and gives up at the end of the window (recovery.rs:66-101); faults
\* may overlap.  If it passes, each fault after which something failed is
\* followed in time by a success that no failure of its window comes after;
\* if it fails, some failure had no such success.  The same for
\* dns_resolution.rs and the first success after the revert.
RecoveryMeaning ==
  \A max \in 0..MaxTime : \A w \in max..MaxTime :
    /\ RecoveryTime(events, max, w) =>
         \A i \in Injections(events) :
           LET F == {k \in Failures(events) : Surely(i, k, w)}
           IN F = {} \/ \E s \in Successes(events) :
                          /\ events[s].at <= events[i].at + max
                          /\ \A k \in F : events[k].at < events[s].at + EmitGap
    /\ ~RecoveryTime(events, max, w) =>
         \E i \in Injections(events), k \in Failures(events) :
           /\ Perhaps(i, k, w)
           /\ ~\E s \in Successes(events) :
                 Surely(i, s, AtMost(max, w)) /\ events[s].at > events[k].at
    /\ LET Dns == {i \in Reverts(events) : KindOf[events[i].who] = "dns"} IN
       /\ DnsResolution(events, max) =>
            \A i \in Dns : \E s \in Successes(events) : Perhaps(i, s, max)
       /\ ~DnsResolution(events, max) =>
            \E i \in Dns : ~\E s \in Successes(events) : Surely(i, s, max)

\* The latency `explore` reports for a fault (query.rs) is that of a failure
\* no earlier than the fault, and of the first one but for a race; none is
\* reported only if there is none.
DetectionMeaning ==
  \A i \in Injections(events) :
    LET later == {events[j].at - events[i].at : j \in {k \in Failures(events) : events[k].at >= events[i].at}}
        reported == DetectionLatency(events, events[i].who)
    IN /\ reported \subseteq later
       /\ later # {} => reported # {}
       /\ \A d \in reported, l \in later : d <= l + EmitGap

\* What is said of a fault: when it was noticed and when it was over.
FaultMeaning == RecoveryMeaning /\ DetectionMeaning

\* A streak counted in one pass over the events of all probes
\* (error_budget.rs:38-60) is a set of failures of one probe with no success
\* of it between them; no budget at all is the same as an availability of 100%
\* of every probe; and where baseline.rs allows no drop, a probe available
\* enough in the baseline is so in the whole list, if no sample was lost
\* between the two phases.
BudgetMeaning ==
  LET Own(p) == By(events, Samples(events), p) IN
    /\ \A max \in 0..Len(events) :
         ErrorBudget(events, max) <=>
           \A p \in Probes : \A a, b \in Own(p) :
             {k \in Own(p) : a <= k /\ k <= b} \subseteq Failures(events) =>
               Cardinality({k \in Own(p) : a <= k /\ k <= b}) <= max
    /\ ErrorBudget(events, 0) <=> \A p \in Probes : Availability(events, {p}, 100)
    /\ \A n \in 1..Len(events), d \in 1..MaxTime :
         LET snap == SubSeq(events, 1, n) IN
         BaselineAvailabilityDiff(snap, events, d, 0) =>
           \A p \in Known(snap, d) :
             LET before == By(snap, Baseline(snap, d), p)
                 passed == Cardinality(before \cap Successes(snap))
             IN Own(p) \ ChaosPhase(events, d) = before =>
                  \A pct \in {50, 100} :
                    100 * passed >= pct * Cardinality(before) => Availability(events, {p}, pct)

\* The nearest rank of latency.rs: it passes iff the stated share of the
\* successes took no longer than the bound.  The interpolated rank of
\* baseline.rs:190: it passes only if all but 5% of the answers of the chaos
\* phase, less half an answer, took no longer than twice the slowest
\* answer of the baseline, which it clamps to one.
LatencyMeaning ==
    /\ \A pct \in {1, 50, 99, 100}, max \in 0..MaxTime :
         Latency(events, Probes, pct, max) <=>
           100 * Cardinality({i \in Successes(events) : events[i].ms <= max})
             >= pct * Cardinality(Successes(events))
    /\ \A n \in 1..Len(events), d \in 1..MaxTime :
         LET snap == SubSeq(events, 1, n) IN
         BaselineLatencyDiff(snap, events, d, 2) =>
           \A p \in Known(snap, d) :
             LET before == Timed(snap, By(snap, Baseline(snap, d), p))
                 after == Timed(events, By(events, ChaosPhase(events, d), p))
                 near == {i \in after : events[i].ms <= 2 \/ \E k \in before : events[i].ms <= 2 * snap[k].ms}
             IN after # {} /\ 100 * Cardinality(near) + 45 >= 95 * Cardinality(after)

\* Throughput tries the windows that start at an event (throughput.rs:72-84).
\* That is enough for any window within the list but for the successes at the
\* last event before it starts; and a failure names a window that is short.
ThroughputMeaning ==
  \A w \in 1..MaxTime : w <= LastAt(events) => \A min \in 0..Len(events) :
    IF Throughput(events, w, min, w)
      THEN \A t \in 0..LastAt(events) - w :
             LET before == {i \in DOMAIN events : events[i].at <= t}
                 prev == events[CHOOSE i \in before : \A j \in before : events[j].at <= events[i].at].at
             IN CountIn(events, t, t + w) + (IF prev = t THEN 0 ELSE CountIn(events, prev, prev)) >= min
      ELSE \E t \in 0..LastAt(events) - w : CountIn(events, t, t + w) < min

\* If SteadyState passes, there was a moment with every fault injected until
\* then reverted, and soon after it a window, within the list, in which the
\* probes succeeded at 95% of their first rate (steady_state.rs:56-106).
SteadyMeaning ==
  \A recovery, baseline \in 1..MaxTime :
    SteadyState(events, recovery, baseline) /\ Injections(events) # {} =>
      \E r \in Reverts(events) :
        /\ \A i \in Injections(events) : i < r =>
             \E k \in Reverts(events) : k <= r /\ events[k].who = events[i].who
        /\ \/ CountIn(events, 0, baseline) = 0
           \/ \E t \in events[r].at..events[r].at + recovery :
                /\ t + baseline <= LastAt(events)
                /\ 100 * CountIn(events, t, t + baseline) >= 95 * CountIn(events, 0, baseline)

\* What is said of the probes: the verdicts that count, rank and slide windows.
ProbeMeaning == BudgetMeaning /\ LatencyMeaning /\ ThroughputMeaning /\ SteadyMeaning

=============================================================================
