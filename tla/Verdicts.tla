------------------------------ MODULE Verdicts ------------------------------
(***************************************************************************)
(* The timeline properties of crates/props/src: for each, whether evaluate *)
(* passes on a list of events.  Rates and percentages are compared as      *)
(* fractions; the code computes them in f64.  Messages and details are     *)
(* left out.                                                               *)
(***************************************************************************)
EXTENDS Timeline

CONSTANTS
  KindOf,     \* fault_kind; "network" is network_latency or network_partition
  Expected    \* the probes whose failure NoCascade expects of a fault

ASSUME VerdictsAssumption ==
  /\ KindOf \in [Faults -> {"crash", "eviction", "stress", "network", "dns"}]
  /\ Expected \in [Faults -> SUBSET Probes]

\* The positions the code iterates over after i with take_while or up to a
\* break: it stops at the first event later than w after event i.
Window(ev, i, w) == {j \in i+1..Len(ev) : \A k \in i+1..j : ev[k].at <= ev[i].at + w}

CountIn(ev, start, end) == Cardinality(EventsInWindow(ev, start, end) \cap Successes(ev))

(***************************************************************************)
(* availability.rs, latency.rs.                                            *)
(***************************************************************************)
\* Named(ev, P): the samples that pass the filter P.
Named(ev, P) == {i \in Samples(ev) : ev[i].who \in P}

Availability(ev, P, min_percent) ==
  LET total == Cardinality(Named(ev, P))
      successes == Cardinality(Named(ev, P) \cap Successes(ev))
  IN total = 0 \/ 100 * successes >= min_percent * total

\* The r-th latency of the events at I in ascending order.
Ranked(ev, I, r) ==
  LET enough == {i \in I : Cardinality({j \in I : ev[j].ms <= ev[i].ms}) >= r}
  IN ev[CHOOSE i \in enough : \A j \in enough : ev[i].ms <= ev[j].ms].ms

AtMost(n, m) == IF n <= m THEN n ELSE m
AtLeast(n, m) == IF n >= m THEN n ELSE m

Latency(ev, P, percentile, max_ms) ==
  LET I == Named(ev, P) \cap Successes(ev)
      n == Cardinality(I)
      rank == (percentile * n + 99) \div 100
  IN I = {} \/ Ranked(ev, I, AtMost(AtLeast(rank, 1), n)) <= max_ms

(***************************************************************************)
(* recovery.rs, cascade.rs, error_budget.rs.                               *)
(***************************************************************************)
\* (Mutation: the first success after the first failure.)
BadRecovered(ev, i, max, w) ==
  LET F == Window(ev, i, w) \cap Failures(ev)
      S == {j \in Window(ev, i, w) \cap Successes(ev) : ev[j].at > ev[First(F)].at}
  IN F = {} \/ (S # {} /\ ev[First(S)].at <= ev[i].at + max)

\* The first success later than the last failure in the window of the fault
\* at i comes within max; no failure is a recovery in no time.
Recovered(ev, i, max, w) ==
  LET F == Window(ev, i, w) \cap Failures(ev)
      S == {j \in Window(ev, i, w) \cap Successes(ev) : ev[j].at > ev[Final(F)].at}
  IN F = {} \/ (S # {} /\ ev[First(S)].at <= ev[i].at + max)

RecoveryTime(ev, max, w) == \A i \in Injections(ev) : Recovered(ev, i, max, w)

\* (Mutation: the window is counted in events.)
BadNoCascade(ev, w) ==
  \A i \in Injections(ev) : \A j \in i+1..AtMost(i + w, Len(ev)) :
    j \in Failures(ev) => ev[j].who \in Expected[ev[i].who]

NoCascade(ev, w) ==
  \A i \in Injections(ev) : \A j \in Window(ev, i, w) \cap Failures(ev) :
    ev[j].who \in Expected[ev[i].who]

\* (Mutation: a success does not end the streak.)
BadStreak(ev, p) ==
  LET s[n \in 0..Len(ev)] ==
        IF n = 0 THEN 0
        ELSE IF ev[n].who = p /\ n \in Failures(ev) THEN s[n - 1] + 1 ELSE s[n - 1]
  IN s

\* current_streak of p after each event.
Streak(ev, p) ==
  LET s[n \in 0..Len(ev)] ==
        IF n = 0 THEN 0
        ELSE IF ev[n].who # p THEN s[n - 1]
        ELSE IF n \in Failures(ev) THEN s[n - 1] + 1 ELSE 0
  IN s

ErrorBudget(ev, max) == \A p \in Probes, n \in DOMAIN ev : Streak(ev, p)[n] <= max

(***************************************************************************)
(* throughput.rs, steady_state.rs, dns_resolution.rs.                      *)
(***************************************************************************)

\* Minute is 60 s in units of the list.
Throughput(ev, Minute, min_per_minute, w) ==
  LET last == LastAt(ev)
      Enough(start, end, length) == CountIn(ev, start, end) * Minute >= min_per_minute * length
  IN \/ ev = <<>>
     \/ /\ last < w
        /\ IF last > 0 THEN Cardinality(Successes(ev)) * Minute >= min_per_minute * last
           ELSE min_per_minute = 0
     \/ /\ last >= w
        /\ \A i \in DOMAIN ev : ev[i].at + w <= last => Enough(ev[i].at, ev[i].at + w, w)

\* active_faults after each event.
ActiveFaults(ev) ==
  LET a[n \in 0..Len(ev)] ==
        IF n = 0 THEN {}
        ELSE IF n \in Injections(ev) THEN a[n - 1] \cup {ev[n].who}
        ELSE IF n \in Reverts(ev) THEN a[n - 1] \ {ev[n].who} ELSE a[n - 1]
  IN a

\* The reverts after which no fault was active.
Calms(ev) ==
  LET a == ActiveFaults(ev) IN {i \in Reverts(ev) : ev[i].who \in a[i - 1] /\ a[i] = {}}

SteadyState(ev, max_recovery, baseline) ==
  IF Calms(ev) = {} THEN Injections(ev) = {}
  ELSE LET before == CountIn(ev, 0, baseline)
           revert_time == ev[Final(Calms(ev))].at
           search_end == revert_time + max_recovery
           check_points == {revert_time, AtMost(search_end, LastAt(ev))}
                           \cup {ev[i].at : i \in EventsInWindow(ev, revert_time, search_end)}
       IN \/ before = 0
          \/ \E start \in check_points :
               /\ start + baseline <= LastAt(ev)
               /\ 100 * CountIn(ev, start, start + baseline) >= 95 * before

DnsResolution(ev, max_recovery) ==
  \A i \in Reverts(ev) :
    KindOf[ev[i].who] = "dns" /\ (\E j \in Injections(ev) : ev[j].who = ev[i].who) =>
      LET S == {j \in Successes(ev) : j > i}
      IN S # {} /\ ev[First(S)].at <= ev[i].at + max_recovery

(***************************************************************************)
(* baseline.rs.  A snapshot is the list as it was when it was captured.    *)
(***************************************************************************)
\* (Mutation: the bound is inclusive.)
BadBaseline(snap, d) == {i \in Samples(snap) : snap[i].at <= d}

Baseline(snap, d) == {i \in Samples(snap) : snap[i].at < d}
ChaosPhase(ev, d) == {i \in Samples(ev) : ev[i].at >= d}

By(ev, I, p) == {i \in I : ev[i].who = p}
Timed(ev, I) == I \ Of(ev, {"timeout"})

Percentile(ev, I, pct) ==
  IF I = {} THEN 0 ELSE Ranked(ev, I, (pct * (Cardinality(I) - 1) + 50) \div 100 + 1)

Known(snap, d) == {p \in Probes : By(snap, Baseline(snap, d), p) # {}}

BaselineLatencyDiff(snap, ev, d, max_multiplier) ==
  /\ Known(snap, d) # {}
  /\ \A p \in Known(snap, d) :
    LET before == Timed(snap, By(snap, Baseline(snap, d), p))
        after == Timed(ev, By(ev, ChaosPhase(ev, d), p))
    IN after # {} /\ Percentile(ev, after, 95) <= max_multiplier * AtLeast(Percentile(snap, before, 95), 1)

BaselineAvailabilityDiff(snap, ev, d, max_drop_pp) ==
  /\ Known(snap, d) # {}
  /\ \A p \in Known(snap, d) :
    LET before == By(snap, Baseline(snap, d), p)
        after == By(ev, ChaosPhase(ev, d), p)
        ok == Cardinality(before \cap Successes(snap))
        still == Cardinality(after \cap Successes(ev))
        total == Cardinality(before)
        seen == Cardinality(after)
    IN IF seen = 0 THEN 100 * ok <= max_drop_pp * total
       ELSE 100 * ok * seen <= 100 * still * total + max_drop_pp * total * seen
=============================================================================
