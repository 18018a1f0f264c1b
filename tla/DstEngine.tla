----------------------------- MODULE DstEngine -----------------------------
(***************************************************************************)
(* The discrete-event loop of the deterministic simulation (run() in       *)
(* crates/cli/src/dst.rs) on its VirtualClock and VirtualNetwork.          *)
(*                                                                         *)
(* Time is counted in units of which the code's 10 to 30 s between faults  *)
(* and the 10 to 20 s a fault lasts are multiples; Delays and Lasts give   *)
(* them.  The draws of the seeded generator are the choices of HandleFault. *)
(* One tick empties the heap of what is due and the loop then handles the  *)
(* batch, timer by timer; a handler may put new timers on the heap.        *)
(***************************************************************************)
EXTENDS VirtualClock, VirtualNetwork, FiniteSets

CONSTANTS
  PodCount,    \* pod_count
  Enabled,     \* the kinds of fault enabled
  Duration,    \* duration
  Warmup,      \* warmup
  ProbeEvery,  \* probe_interval
  Stagger,     \* what separates the first probes of two pods (100 ms in the code)
  Delays,      \* what next_delay() may return
  Lasts        \* Lasts[k]: how long a fault of kind k lasts

Kinds == {"crash", "latency", "partition", "stress", "dns", "eviction"}
Pods == 1..PodCount
Controller == 0

ASSUME PodCountAssumption == PodCount \in Nat \ {0}
ASSUME EnabledAssumption == Enabled \subseteq Kinds
ASSUME TimesAssumption == Duration \in Nat /\ Warmup \in Nat /\ Stagger \in Nat
ASSUME ProbeEveryAssumption == ProbeEvery \in Nat \ {0}
ASSUME DelaysAssumption == Delays \subseteq Nat \ {0}
ASSUME LastsAssumption == Lasts \in [Kinds -> Nat \ {0}]
VARIABLES
  batch,      \* `expired`: the timers of this tick still to be handled
  active,     \* active_faults
  events,     \* the timeline
  totals,     \* total_faults and total_failures
  done,       \* the loop has been left and SimulationEnded emitted
  fired       \* history: the timer handled last, as a set of none or one

dstVars == <<batch, active, events, totals, done, fired>>
vars == <<clockVars, networkVars, dstVars>>

CONTROL_PRIORITY == 0
FAULT_PRIORITY == 5
PROBE_PRIORITY == 10

\* SimEvent: `of` is the pod of a probe and the fault of a revert, else 0.
SimEvent == [ev : {"probe", "fault", "revert", "end"}, of : Nat]
Sim(ev, of) == [ev |-> ev, of |-> of]

\* `pids` is the Option<u64> partition_id, as a set of none or one.
ActiveFault == [id : Nat, kind : Kinds, pod : Pods, pids : SUBSET Nat]

Outcomes == {"ok", "slow", "crashed", "partitioned", "dns"}
Event ==
  [what : {"started", "ended"}, at : Nat]
    \cup [what : {"probe"}, at : Nat, pod : Pods, outcome : Outcomes]
    \cup [what : {"injected"}, at : Nat, fault : Nat, kind : Kinds, pod : Pods]
    \cup [what : {"reverted"}, at : Nat, fault : Nat]

DstTypeOK ==
  /\ now \in Nat
  /\ timers \subseteq Timer(SimEvent)
  /\ nextId \in Nat
  /\ partitions \subseteq Partition({Controller} \cup Pods)
  /\ nextPartition \in Nat
  /\ batch \subseteq Timer(SimEvent)
  /\ active \subseteq ActiveFault
  /\ events \in Seq(Event)
  /\ totals \in [faults : Nat, failures : Nat]
  /\ done \in BOOLEAN
  /\ fired \subseteq Timer(SimEvent)

-----------------------------------------------------------------------------

\* The first probe of each pod, the first fault if any kind is enabled, and
\* the end, in the order in which they are scheduled.
FirstProbes == [p \in Pods |-> Request(ProbeEvery + Stagger * (p - 1), PROBE_PRIORITY, Sim("probe", p))]
FirstFault == IF Enabled = {} THEN <<>> ELSE <<Request(Warmup, FAULT_PRIORITY, Sim("fault", 0))>>
TheEnd == <<Request(Duration, CONTROL_PRIORITY, Sim("end", 0))>>
Agenda == FirstProbes \o FirstFault \o TheEnd

Init ==
  /\ now = 0
  /\ timers = {[at |-> Agenda[i].at, prio |-> Agenda[i].prio, id |-> i - 1, payload |-> Agenda[i].payload] :
                 i \in DOMAIN Agenda}
  /\ nextId = Len(Agenda)
  /\ NetworkInit
  /\ batch = {}
  /\ active = {}
  /\ events = <<[what |-> "started", at |-> 0]>>
  /\ totals = [faults |-> 0, failures |-> 0]
  /\ done = FALSE
  /\ fired = {}

\* clock.tick(), once the batch of the last one is done with.
NextBatch ==
  /\ ~done
  /\ batch = {}
  /\ \E t \in {u.at : u \in timers} \cup {now} : Tick(t) /\ batch' = Due(t)
  /\ UNCHANGED <<networkVars, active, events, totals, done, fired>>

\* The loop takes the next timer of the batch.
Handled(t) ==
  /\ ~done
  /\ IsFirst(t, batch)
  /\ batch' = batch \ {t}
  /\ fired' = {t}

\* What a probe of pod p finds: whether the request gets through, and if so
\* how fast.
Outcome(kinds, cutOff) ==
  CASE kinds \cap {"crash", "eviction"} # {} -> "crashed"
    [] kinds \cap {"crash", "eviction"} = {} /\ cutOff -> "partitioned"
    [] kinds \cap {"crash", "eviction"} = {} /\ ~cutOff /\ "dns" \in kinds -> "dns"
    [] OTHER -> IF kinds \cap {"latency", "stress"} # {} THEN "slow" ELSE "ok"

KindsOn(p) == {f.kind : f \in {g \in active : g.pod = p}}

\* Mutation for OnSchedule: a probe that fails is not scheduled again.
BadHandleProbe(t) ==
  \E p \in Pods :
    LET outcome == Outcome(KindsOn(p), Partitioned(Controller, p))
        failure == outcome \in {"crashed", "partitioned", "dns"}
    IN  /\ t.payload = Sim("probe", p)
        /\ Handled(t)
        /\ events' = Append(events, [what |-> "probe", at |-> now, pod |-> p, outcome |-> outcome])
        /\ totals' = [totals EXCEPT !.failures = IF failure THEN @ + 1 ELSE @]
        /\ IF failure THEN UNCHANGED <<timers, nextId>>
                      ELSE Schedule(<<After(ProbeEvery, PROBE_PRIORITY, Sim("probe", p))>>)
        /\ UNCHANGED <<now, networkVars, active, done>>

HandleProbe(t) ==
  \E p \in Pods :
    LET outcome == Outcome(KindsOn(p), Partitioned(Controller, p))
        failure == outcome \in {"crashed", "partitioned", "dns"}
    IN  /\ t.payload = Sim("probe", p)
        /\ Handled(t)
        /\ events' = Append(events, [what |-> "probe", at |-> now, pod |-> p, outcome |-> outcome])
        /\ totals' = [totals EXCEPT !.failures = IF failure THEN @ + 1 ELSE @]
        /\ Schedule(<<After(ProbeEvery, PROBE_PRIORITY, Sim("probe", p))>>)
        /\ UNCHANGED <<now, networkVars, active, done>>

\* Mutation for DstTypeOK: the node of a pod is its index, counted from 0.
BadHandleFault(t) ==
  /\ t.payload = Sim("fault", 0)
  /\ now < Duration
  /\ Handled(t)
  /\ \E kind \in Enabled, p \in Pods, delay \in Delays :
       LET id == totals.faults
       IN  /\ UNCHANGED networkVars
           /\ active' = active \cup {[id |-> id, kind |-> kind, pod |-> p - 1, pids |-> {}]}
           /\ events' = Append(events, [what |-> "injected", at |-> now, fault |-> id, kind |-> kind, pod |-> p])
           /\ Schedule(<<After(Lasts[kind], FAULT_PRIORITY, Sim("revert", id)),
                         After(delay, FAULT_PRIORITY, Sim("fault", 0))>>)
  /\ totals' = [totals EXCEPT !.faults = @ + 1]
  /\ UNCHANGED <<now, done>>

\* The fault's revert is scheduled before the next fault is.  The guard on the
\* time is the code's; the end, which comes first, makes it hold always.
HandleFault(t) ==
  /\ t.payload = Sim("fault", 0)
  /\ now < Duration
  /\ Handled(t)
  /\ \E kind \in Enabled, p \in Pods, delay \in Delays :
       LET id == totals.faults
       IN  /\ IF kind = "partition"
              THEN AddPartition({Controller}, {p})
              ELSE UNCHANGED networkVars
           /\ active' = active \cup {[id |-> id, kind |-> kind, pod |-> p,
                                      pids |-> IF kind = "partition" THEN {nextPartition} ELSE {}]}
           /\ events' = Append(events, [what |-> "injected", at |-> now, fault |-> id, kind |-> kind, pod |-> p])
           /\ Schedule(<<After(Lasts[kind], FAULT_PRIORITY, Sim("revert", id)),
                         After(delay, FAULT_PRIORITY, Sim("fault", 0))>>)
  /\ totals' = [totals EXCEPT !.faults = @ + 1]
  /\ UNCHANGED <<now, done>>

\* Mutation for TimelineExplainsProbes: the partition of the fault stays.
BadHandleRevert(t) ==
  /\ t.payload.ev = "revert"
  /\ Handled(t)
  /\ active' = {f \in active : f.id # t.payload.of}
  /\ events' = Append(events, [what |-> "reverted", at |-> now, fault |-> t.payload.of])
  /\ UNCHANGED <<clockVars, networkVars, totals, done>>

HandleRevert(t) ==
  /\ t.payload.ev = "revert"
  /\ Handled(t)
  /\ LET reverted == {f \in active : f.id = t.payload.of}
     IN  /\ active' = active \ reverted
         /\ RemovePartitions(UNION {f.pids : f \in reverted})
  /\ events' = Append(events, [what |-> "reverted", at |-> now, fault |-> t.payload.of])
  /\ UNCHANGED <<clockVars, totals, done>>

\* The end leaves both loops; SimulationEnded carries the configured duration.
HandleEnd(t) ==
  /\ t.payload = Sim("end", 0)
  /\ Handled(t)
  /\ events' = Append(events, [what |-> "ended", at |-> Duration])
  /\ done' = TRUE
  /\ UNCHANGED <<clockVars, networkVars, active, totals>>

Next ==
  \/ NextBatch
  \/ \E t \in batch : HandleProbe(t) \/ HandleFault(t) \/ HandleRevert(t) \/ HandleEnd(t)

Spec == Init /\ [][Next]_vars

-----------------------------------------------------------------------------
\* The faults that the first i events say are in force.
InForce(i) ==
  {j \in 1..i : /\ events[j].what = "injected"
                /\ \A k \in j..i : ~(events[k].what = "reverted" /\ events[k].fault = events[j].fault)}

\* The timeline explains itself: each probe came out as the faults that the
\* events before it show in force on its pod make it come out, however they
\* overlap and whatever their order within one instant.
Explained(outcome, kinds) ==
  /\ outcome = "ok" <=> kinds = {}
  /\ outcome = "slow" <=> kinds # {} /\ kinds \subseteq {"latency", "stress"}
  /\ outcome = "crashed" <=> kinds \cap {"crash", "eviction"} # {}
  /\ outcome = "partitioned" <=> "partition" \in kinds /\ outcome # "crashed"
TimelineExplainsProbes ==
  \A i \in DOMAIN events : events[i].what = "probe" =>
    Explained(events[i].outcome, {events[j].kind : j \in {k \in InForce(i) : events[k].pod = events[i].pod}})

\* Events are in the order of their times, and at one instant faults start
\* and end before any pod is probed.
Rank(e) == IF e.what = "probe" THEN 1 ELSE 0
TimelineOrdered ==
  \A i \in DOMAIN events, j \in DOMAIN events :
    i < j => \/ events[i].at < events[j].at
             \/ events[i].at = events[j].at /\ Rank(events[i]) <= Rank(events[j])

\* A fault that the simulation outlives is reverted once, when its time is
\* over, and one that outlives the simulation never.
FaultWindows ==
  done => \A i \in DOMAIN events : events[i].what = "injected" =>
    LET due == events[i].at + Lasts[events[i].kind]
        reverts == {k \in DOMAIN events : events[k].what = "reverted" /\ events[k].fault = events[i].fault}
    IN  IF due < Duration
        THEN \E k \in reverts : reverts = {k} /\ events[k].at = due
        ELSE reverts = {}

\* Probes neither drift nor get lost: each pod is probed at every multiple of
\* the interval after its offset that lies before the end, and at no other time.
ProbeCadence ==
  done => \A p \in Pods, t \in 0..Duration :
    LET first == ProbeEvery + Stagger * (p - 1)
        probed == {i \in DOMAIN events : events[i].what = "probe" /\ events[i].pod = p /\ events[i].at = t}
    IN  Cardinality(probed) =
          IF t >= first /\ t < Duration /\ (t - first) % ProbeEvery = 0 THEN 1 ELSE 0

\* Everything the engine schedules happens at its time, once, if that comes
\* before the end, and not at all otherwise.
OnSchedule == FaultWindows /\ ProbeCadence

\* The batches of the clock, and timers set while a batch is handled, make no
\* difference: the simulation fires one agenda in order and loses nothing.
AgendaOf == INSTANCE EventAgenda WITH
  pending <- IF done THEN {} ELSE timers \cup batch,
  last <- fired
RefinesAgenda == AgendaOf!AgendaSpec
=============================================================================
