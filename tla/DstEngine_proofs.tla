-------------------------- MODULE DstEngine_proofs --------------------------
(***************************************************************************)
(* Proofs about DstEngine, for any number of pods, any set of kinds and    *)
(* any times: the engine fires one agenda in order although its clock      *)
(* hands out batches, and so the timeline is in order; the timeline        *)
(* explains the outcome of every probe; and what is scheduled happens at   *)
(* its time, once, or not at all after the end.                            *)
(***************************************************************************)
EXTENDS DstEngine, SequenceTheorems, FiniteSetTheorems, TLAPS

\* The batch is due now; once there has been one, the heap holds the future.
TimeInv ==
  /\ \A u \in batch : u.at = now
  /\ \A u \in timers : now <= u.at
  /\ batch # {} \/ fired # {} => \A u \in timers : now < u.at

USE PodCountAssumption, EnabledAssumption, TimesAssumption, ProbeEveryAssumption,
    DelaysAssumption, LastsAssumption
USE DEF CONTROL_PRIORITY, FAULT_PRIORITY, PROBE_PRIORITY

HandleAny(t) == HandleProbe(t) \/ HandleFault(t) \/ HandleRevert(t) \/ HandleEnd(t)

-----------------------------------------------------------------------------
\* The requests the engine makes: each event of the simulation has its priority.
GoodRequests ==
  {r \in [at : Nat, prio : Nat, payload : SimEvent] :
     /\ r.payload.ev = "end" => r.prio = CONTROL_PRIORITY /\ r.at = Duration
     /\ r.payload.ev \in {"fault", "revert"} => r.prio = FAULT_PRIORITY
     /\ r.payload.ev = "probe" => r.prio = PROBE_PRIORITY}

GoodTimer(u) ==
  /\ u.payload.ev = "end" => u.prio = CONTROL_PRIORITY /\ u.at = Duration
  /\ u.payload.ev \in {"fault", "revert"} => u.prio = FAULT_PRIORITY
  /\ u.payload.ev = "probe" => u.prio = PROBE_PRIORITY

PrioInv == \A u \in timers \cup batch : GoodTimer(u)

LEMMA AgendaGood ==
  /\ FirstProbes \in Seq(GoodRequests) /\ FirstFault \in Seq(GoodRequests)
  /\ TheEnd \in Seq(GoodRequests) /\ Agenda \in Seq(GoodRequests)
<1>1. FirstProbes \in Seq(GoodRequests)
  <2>1. ASSUME NEW p \in Pods
        PROVE  Request(ProbeEvery + Stagger * (p - 1), PROBE_PRIORITY, Sim("probe", p)) \in GoodRequests
    <3>1. p \in Nat /\ p - 1 \in Nat
      BY DEF Pods
    <3>2. Stagger * (p - 1) \in Nat
      BY <3>1
    <3>3. ProbeEvery + Stagger * (p - 1) \in Nat
      BY <3>2
    <3> DEFINE at == ProbeEvery + Stagger * (p - 1)
    <3> HIDE DEF at
    <3>4. Request(at, PROBE_PRIORITY, Sim("probe", p)) \in GoodRequests
      BY <3>1, <3>3 DEF GoodRequests, Request, Sim, SimEvent, at
    <3>5. QED
      BY <3>4 DEF at
  <2>2. FirstProbes \in [1..PodCount -> GoodRequests]
    BY <2>1 DEF FirstProbes, Pods
  <2>3. QED
    BY <2>2
<1>2. FirstFault \in Seq(GoodRequests)
  <2>1. Request(Warmup, FAULT_PRIORITY, Sim("fault", 0)) \in GoodRequests
    BY DEF GoodRequests, Request, Sim, SimEvent
  <2>2. QED
    BY <2>1 DEF FirstFault
<1>3. TheEnd \in Seq(GoodRequests)
  <2>1. Request(Duration, CONTROL_PRIORITY, Sim("end", 0)) \in GoodRequests
    BY DEF GoodRequests, Request, Sim, SimEvent
  <2>2. QED
    BY <2>1 DEF TheEnd
<1>4. FirstProbes \o FirstFault \in Seq(GoodRequests)
  BY <1>1, <1>2, ConcatProperties
<1>5. Agenda \in Seq(GoodRequests)
  BY <1>3, <1>4, ConcatProperties DEF Agenda
<1>6. QED
  BY <1>1, <1>2, <1>3, <1>5

LEMMA NewTimersGood ==
  ASSUME NEW reqs \in Seq(GoodRequests), nextId \in Nat
  PROVE  /\ NewTimers(reqs) \subseteq Timer(SimEvent)
         /\ \A u \in NewTimers(reqs) : GoodTimer(u) /\ \E i \in DOMAIN reqs : u.at = reqs[i].at
         /\ nextId + Len(reqs) \in Nat
<1>1. ASSUME NEW u \in NewTimers(reqs)
      PROVE  u \in Timer(SimEvent) /\ GoodTimer(u) /\ \E i \in DOMAIN reqs : u.at = reqs[i].at
  <2>1. PICK i \in DOMAIN reqs : u = [at |-> reqs[i].at, prio |-> reqs[i].prio,
                                       id |-> nextId + i - 1, payload |-> reqs[i].payload]
    BY DEF NewTimers
  <2>2. reqs[i] \in GoodRequests /\ i \in Nat \ {0}
    OBVIOUS
  <2>3. QED
    BY <2>1, <2>2 DEF GoodRequests, GoodTimer, Timer
<1>2. QED
  BY <1>1

LEMMA InitInv == Init => DstTypeOK /\ TimeInv /\ PrioInv
<1> SUFFICES ASSUME Init PROVE DstTypeOK /\ TimeInv /\ PrioInv
  OBVIOUS
<1>1. ASSUME NEW u \in timers PROVE u \in Timer(SimEvent) /\ GoodTimer(u)
  <2>1. PICK i \in DOMAIN Agenda : u = [at |-> Agenda[i].at, prio |-> Agenda[i].prio,
                                         id |-> i - 1, payload |-> Agenda[i].payload]
    BY DEF Init
  <2>2. Agenda[i] \in GoodRequests /\ i \in Nat \ {0}
    BY AgendaGood
  <2>3. QED
    BY <2>1, <2>2 DEF GoodRequests, GoodTimer, Timer
<1>2. DstTypeOK
  <2>1. nextId \in Nat
    BY AgendaGood DEF Init
  <2>2. events \in Seq(Event)
    BY DEF Init, Event
  <2>3. QED
    BY <1>1, <2>1, <2>2 DEF Init, NetworkInit, DstTypeOK
<1>3. QED
  BY <1>1, <1>2 DEF Init, TimeInv, PrioInv, Timer

-----------------------------------------------------------------------------
\* What a handler schedules lies in the future, whatever it handles.
LEMMA HandlerRequests ==
  ASSUME DstTypeOK, TimeInv, PrioInv, NEW t \in batch, HandleAny(t)
  PROVE  \/ UNCHANGED <<timers, nextId>>
         \/ \E reqs \in Seq(GoodRequests) :
              Schedule(reqs) /\ \A i \in DOMAIN reqs : now < reqs[i].at
<1> USE DEF DstTypeOK
<1>1. CASE HandleProbe(t)
  <2>1. PICK p \in Pods : Schedule(<<After(ProbeEvery, PROBE_PRIORITY, Sim("probe", p))>>)
    BY <1>1 DEF HandleProbe
  <2> DEFINE r == After(ProbeEvery, PROBE_PRIORITY, Sim("probe", p))
  <2>2. r \in GoodRequests /\ now < r.at
    BY DEF After, Request, Sim, SimEvent, GoodRequests, Pods
  <2> HIDE DEF r
  <2>3. <<r>> \in Seq(GoodRequests) /\ \A i \in DOMAIN <<r>> : now < <<r>>[i].at
    BY <2>2
  <2>4. Schedule(<<r>>)
    BY <2>1 DEF r
  <2>5. QED
    BY <2>3, <2>4
<1>2. CASE HandleFault(t)
  <2>1. PICK kind \in Enabled, delay \in Delays :
          Schedule(<<After(Lasts[kind], FAULT_PRIORITY, Sim("revert", totals.faults)),
                     After(delay, FAULT_PRIORITY, Sim("fault", 0))>>)
    BY <1>2 DEF HandleFault
  <2> DEFINE r1 == After(Lasts[kind], FAULT_PRIORITY, Sim("revert", totals.faults))
             r2 == After(delay, FAULT_PRIORITY, Sim("fault", 0))
  <2>2. Lasts[kind] \in Nat \ {0} /\ delay \in Nat \ {0} /\ totals.faults \in Nat
    OBVIOUS
  <2>3. r1 \in GoodRequests /\ now < r1.at
    BY <2>2 DEF After, Request, Sim, SimEvent, GoodRequests
  <2>4. r2 \in GoodRequests /\ now < r2.at
    BY <2>2 DEF After, Request, Sim, SimEvent, GoodRequests
  <2> HIDE DEF r1, r2
  <2>5. <<r1, r2>> \in Seq(GoodRequests) /\ \A i \in DOMAIN <<r1, r2>> : now < <<r1, r2>>[i].at
    BY <2>3, <2>4
  <2>6. Schedule(<<r1, r2>>)
    BY <2>1 DEF r1, r2
  <2>7. QED
    BY <2>5, <2>6
<1>3. CASE HandleRevert(t) \/ HandleEnd(t)
  BY <1>3 DEF HandleRevert, HandleEnd, clockVars
<1>4. QED
  BY <1>1, <1>2, <1>3 DEF HandleAny

LEMMA HandlerKeeps ==
  ASSUME NEW t \in batch, HandleAny(t)
  PROVE  Handled(t) /\ UNCHANGED now /\ (done' <=> t.payload = Sim("end", 0))
<1>1. CASE HandleProbe(t)
  BY <1>1 DEF HandleProbe, Handled, Sim
<1>2. CASE HandleFault(t)
  BY <1>2 DEF HandleFault, Handled, Sim
<1>3. CASE HandleRevert(t)
  BY <1>3 DEF HandleRevert, Handled, Sim, clockVars
<1>4. CASE HandleEnd(t)
  BY <1>4 DEF HandleEnd, Handled, clockVars
<1>5. QED
  BY <1>1, <1>2, <1>3, <1>4 DEF HandleAny

\* The clock part of a handler's step.
LEMMA HandlerClock ==
  ASSUME DstTypeOK, TimeInv, PrioInv, NEW t \in batch, HandleAny(t)
  PROVE  /\ timers' \subseteq Timer(SimEvent)
         /\ nextId' \in Nat
         /\ timers \subseteq timers'
         /\ \A u \in timers' : GoodTimer(u) /\ now < u.at
<1> USE DEF DstTypeOK, TimeInv, PrioInv
<1>1. CASE UNCHANGED <<timers, nextId>>
  BY <1>1
<1>2. ASSUME NEW reqs \in Seq(GoodRequests), Schedule(reqs), \A i \in DOMAIN reqs : now < reqs[i].at
      PROVE  /\ timers' \subseteq Timer(SimEvent)
             /\ nextId' \in Nat
             /\ timers \subseteq timers'
             /\ \A u \in timers' : GoodTimer(u) /\ now < u.at
  <2>1. /\ NewTimers(reqs) \subseteq Timer(SimEvent)
        /\ \A u \in NewTimers(reqs) : GoodTimer(u) /\ \E i \in DOMAIN reqs : u.at = reqs[i].at
        /\ nextId + Len(reqs) \in Nat
    BY NewTimersGood
  <2>2. QED
    BY <1>2, <2>1 DEF Schedule
<1>3. QED
  BY <1>1, <1>2, HandlerRequests

IInv == DstTypeOK /\ TimeInv /\ PrioInv

\* A tick moves to the time of everything that is due, and not back.
LEMMA TickFacts ==
  ASSUME IInv, NextBatch
  PROVE  /\ now' \in Nat /\ now <= now'
         /\ timers' \subseteq timers /\ batch' \subseteq timers
         /\ timers = timers' \cup batch'
         /\ \A u \in batch' : u.at = now'
         /\ \A u \in timers' : now' < u.at
         /\ batch' # {}
         /\ batch = {} /\ ~done
         /\ UNCHANGED <<nextId, networkVars, active, events, totals, done, fired>>
<1>1. PICK t : Tick(t) /\ batch' = Due(t)
  BY DEF NextBatch
<1>2. PICK u \in timers : (\A v \in timers : u.at <= v.at) /\ t = IF u.at > now THEN u.at ELSE now
  BY <1>1 DEF Tick
<1>3. \A v \in timers : v.at \in Nat /\ now <= v.at
  BY DEF IInv, DstTypeOK, TimeInv, Timer
<1>4. now \in Nat /\ t = u.at
  BY <1>2, <1>3 DEF IInv, DstTypeOK
<1>5. /\ now' = u.at
      /\ batch' = {v \in timers : v.at <= u.at}
      /\ timers' = timers \ batch'
  BY <1>1, <1>4 DEF Tick, Due
<1>6. \A v \in timers : v.at <= u.at => v.at = u.at
  BY <1>2, <1>3
<1>7. \A v \in timers : ~(v.at <= u.at) => u.at < v.at
  BY <1>3
<1>8. now' \in Nat /\ now <= now' /\ u \in batch'
  BY <1>3, <1>4, <1>5
<1>9. UNCHANGED nextId
  BY <1>1 DEF Tick
<1>10. QED
  BY <1>5, <1>6, <1>7, <1>8, <1>9 DEF NextBatch

\* What the handlers do to the rest of the state keeps its types.
LEMMA HandlerTypes ==
  ASSUME IInv, NEW t \in batch, HandleAny(t)
  PROVE  /\ partitions' \subseteq Partition({Controller} \cup Pods)
         /\ nextPartition' \in Nat
         /\ active' \subseteq ActiveFault
         /\ events' \in Seq(Event)
         /\ totals' \in [faults : Nat, failures : Nat]
         /\ done' \in BOOLEAN
<1> USE DEF IInv, DstTypeOK
<1>1. CASE HandleProbe(t)
  <2>1. PICK p \in Pods :
          LET outcome == Outcome(KindsOn(p), Partitioned(Controller, p))
          IN  /\ events' = Append(events, [what |-> "probe", at |-> now, pod |-> p, outcome |-> outcome])
              /\ totals' = [totals EXCEPT !.failures =
                              IF outcome \in {"crashed", "partitioned", "dns"} THEN @ + 1 ELSE @]
              /\ UNCHANGED <<now, networkVars, active, done>>
    BY <1>1 DEF HandleProbe
  <2> DEFINE outcome == Outcome(KindsOn(p), Partitioned(Controller, p))
  <2>2. outcome \in Outcomes
    BY DEF Outcome, Outcomes
  <2> HIDE DEF outcome
  <2>3. [what |-> "probe", at |-> now, pod |-> p, outcome |-> outcome] \in Event
    BY <2>2 DEF Event
  <2>4. events' = Append(events, [what |-> "probe", at |-> now, pod |-> p, outcome |-> outcome])
    BY <2>1 DEF outcome
  <2>5. totals' \in [faults : Nat, failures : Nat]
    <3>1. totals.failures \in Nat /\ totals.failures + 1 \in Nat
      OBVIOUS
    <3>2. PICK n \in Nat : totals' = [totals EXCEPT !.failures = n]
      BY <2>1, <3>1
    <3>3. QED
      BY <3>2
  <2>6. UNCHANGED <<networkVars, active, done>>
    BY <2>1
  <2>7. events' \in Seq(Event)
    BY <2>3, <2>4
  <2>8. QED
    BY <2>5, <2>6, <2>7 DEF networkVars
<1>2. CASE HandleFault(t)
  <2>1. PICK kind \in Enabled, p \in Pods :
          LET id == totals.faults
          IN  /\ IF kind = "partition" THEN AddPartition({Controller}, {p}) ELSE UNCHANGED networkVars
              /\ active' = active \cup {[id |-> id, kind |-> kind, pod |-> p,
                                         pids |-> IF kind = "partition" THEN {nextPartition} ELSE {}]}
              /\ events' = Append(events, [what |-> "injected", at |-> now, fault |-> id, kind |-> kind, pod |-> p])
    BY <1>2 DEF HandleFault
  <2>2. totals' = [totals EXCEPT !.faults = @ + 1] /\ UNCHANGED done
    BY <1>2 DEF HandleFault
  <2>3. totals.faults \in Nat /\ kind \in Kinds
    OBVIOUS
  <2>4. [what |-> "injected", at |-> now, fault |-> totals.faults, kind |-> kind, pod |-> p] \in Event
    BY <2>3 DEF Event
  <2>5. events' \in Seq(Event)
    BY <2>1, <2>4
  <2>6. [id |-> totals.faults, kind |-> kind, pod |-> p,
         pids |-> IF kind = "partition" THEN {nextPartition} ELSE {}] \in ActiveFault
    BY <2>3 DEF ActiveFault
  <2>7. active' \subseteq ActiveFault
    BY <2>1, <2>6
  <2>8. partitions' \subseteq Partition({Controller} \cup Pods) /\ nextPartition' \in Nat
    <3>1. [id |-> nextPartition, a |-> {Controller}, b |-> {p}] \in Partition({Controller} \cup Pods)
      BY DEF Partition
    <3>2. nextPartition + 1 \in Nat
      OBVIOUS
    <3>3. CASE kind = "partition"
      BY <2>1, <3>1, <3>2, <3>3 DEF AddPartition
    <3>4. CASE kind # "partition"
      BY <2>1, <3>4 DEF networkVars
    <3>5. QED
      BY <3>3, <3>4
  <2>9. totals' \in [faults : Nat, failures : Nat]
    BY <2>2
  <2>10. QED
    BY <2>2, <2>5, <2>7, <2>8, <2>9
<1>3. CASE HandleRevert(t)
  <2>1. t.payload.of \in Nat
    BY DEF Timer, SimEvent
  <2>2. [what |-> "reverted", at |-> now, fault |-> t.payload.of] \in Event
    BY <2>1 DEF Event
  <2>3. events' \in Seq(Event)
    BY <1>3, <2>2 DEF HandleRevert
  <2>4. active' \subseteq ActiveFault /\ UNCHANGED <<totals, done>>
    BY <1>3 DEF HandleRevert
  <2>5. partitions' \subseteq partitions /\ UNCHANGED nextPartition
    BY <1>3 DEF HandleRevert, RemovePartitions
  <2>6. QED
    BY <2>3, <2>4, <2>5
<1>4. CASE HandleEnd(t)
  <2>1. [what |-> "ended", at |-> Duration] \in Event
    BY DEF Event
  <2>2. events' \in Seq(Event)
    BY <1>4, <2>1 DEF HandleEnd
  <2>3. done' = TRUE /\ UNCHANGED <<networkVars, active, totals>>
    BY <1>4 DEF HandleEnd
  <2>4. QED
    BY <2>2, <2>3 DEF networkVars
<1>5. QED
  BY <1>1, <1>2, <1>3, <1>4 DEF HandleAny

LEMMA IInvStep == IInv /\ [Next]_vars => IInv'
<1> SUFFICES ASSUME IInv, [Next]_vars PROVE IInv'
  OBVIOUS
<1>1. CASE NextBatch
  <2>1. DstTypeOK'
    BY <1>1, TickFacts DEF IInv, DstTypeOK, networkVars
  <2>2. TimeInv'
    <3>1. \A u \in timers' : now' <= u.at
      BY <1>1, TickFacts, <2>1 DEF DstTypeOK, Timer
    <3>2. QED
      BY <1>1, TickFacts, <3>1 DEF TimeInv
  <2>3. PrioInv'
    BY <1>1, TickFacts DEF IInv, PrioInv, GoodTimer
  <2>4. QED
    BY <2>1, <2>2, <2>3 DEF IInv
<1>2. ASSUME NEW t \in batch, HandleAny(t) PROVE IInv'
  <2>1. /\ batch' = batch \ {t} /\ fired' = {t}
        /\ UNCHANGED now
    BY <1>2, HandlerKeeps DEF Handled
  <2>2. /\ timers' \subseteq Timer(SimEvent)
        /\ nextId' \in Nat
        /\ \A u \in timers' : GoodTimer(u) /\ now < u.at
    BY <1>2, HandlerClock DEF IInv
  <2>3. DstTypeOK'
    BY <1>2, <2>1, <2>2, HandlerTypes DEF IInv, DstTypeOK
  <2>4. TimeInv'
    <3>1. \A u \in timers' : now' <= u.at
      BY <2>1, <2>2, <2>3 DEF DstTypeOK, Timer
    <3>2. QED
      BY <2>1, <2>2, <3>1 DEF IInv, TimeInv
  <2>5. PrioInv'
    BY <2>1, <2>2 DEF IInv, PrioInv, GoodTimer
  <2>6. QED
    BY <2>3, <2>4, <2>5 DEF IInv
<1>3. CASE UNCHANGED vars
  BY <1>3 DEF vars, clockVars, networkVars, dstVars, IInv, DstTypeOK, TimeInv, PrioInv, GoodTimer
<1>4. QED
  BY <1>1, <1>2, <1>3 DEF Next, HandleAny

\* The engine stays within its types and its timers keep their priorities.
THEOREM DstInvariance == Spec => []IInv
<1>1. Init => IInv
  BY InitInv DEF IInv
<1>2. QED
  BY <1>1, IInvStep, PTL DEF Spec

\* Every variable of the engine keeps its type, for any times and pods.
THEOREM DstTypes == Spec => []DstTypeOK
<1>1. IInv => DstTypeOK
  BY DEF IInv
<1>2. QED
  BY <1>1, DstInvariance, PTL

-----------------------------------------------------------------------------
\* A step of the engine is a step of the agenda or leaves the agenda alone.
LEMMA AgendaStep ==
  IInv /\ IInv' /\ [Next]_vars => [AgendaOf!AgendaNext]_(AgendaOf!agenda)
<1> SUFFICES ASSUME IInv, IInv', [Next]_vars
             PROVE  AgendaOf!AgendaNext \/ UNCHANGED AgendaOf!agenda
  BY DEF AgendaOf!agenda
<1>1. CASE NextBatch
  BY <1>1, TickFacts DEF AgendaOf!agenda
<1>2. ASSUME NEW t \in batch, HandleAny(t) PROVE AgendaOf!AgendaNext
  <2>1. /\ batch' = batch \ {t} /\ fired' = {t} /\ IsFirst(t, batch) /\ ~done
        /\ done' <=> t.payload = Sim("end", 0)
        /\ UNCHANGED now
    BY <1>2, HandlerKeeps DEF Handled
  <2>2. /\ timers \subseteq timers'
        /\ \A u \in timers' : now < u.at
    BY <1>2, HandlerClock DEF IInv
  <2>3. t.at = now /\ \A u \in batch : u.at = now
    BY DEF IInv, TimeInv
  <2>4. \A u \in timers' : Before(t, u) /\ u # t
    BY <2>2, <2>3 DEF Before, IInv, DstTypeOK
  <2>5. \A u \in (timers \cup batch) \ {t} : AgendaOf!Precedes(t, u)
    BY <2>1, <2>2, <2>4 DEF IsFirst, Before, AgendaOf!Precedes
  <2>6. AgendaOf!First(t)
    BY <2>1, <2>5 DEF AgendaOf!First
  <2>7. CASE done'
    BY <2>1, <2>6, <2>7 DEF AgendaOf!Close, AgendaOf!AgendaNext
  <2>8. CASE ~done'
    <3>1. \A u \in timers' : AgendaOf!Precedes(t, u)
      BY <2>4 DEF Before, AgendaOf!Precedes
    <3>2. AgendaOf!Fire(t)
      BY <2>1, <2>2, <2>4, <2>6, <2>8, <3>1 DEF AgendaOf!Fire
    <3>3. QED
      BY <2>1, <3>2 DEF AgendaOf!AgendaNext
  <2>9. QED
    BY <2>7, <2>8
<1>3. CASE UNCHANGED vars
  BY <1>3 DEF vars, clockVars, dstVars, AgendaOf!agenda
<1>4. QED
  BY <1>1, <1>2, <1>3 DEF Next, HandleAny

\* Batches make no difference: the engine fires one agenda, in order.
THEOREM FiresInOrder == Spec => RefinesAgenda
<1>1. Init => AgendaOf!AgendaInit
  BY DEF Init, AgendaOf!AgendaInit
<1>2. QED
  BY <1>1, DstInvariance, AgendaStep, PTL DEF Spec, RefinesAgenda, AgendaOf!AgendaSpec

-----------------------------------------------------------------------------
\* Nothing on the timeline is ahead of the clock, and once a pod has been
\* probed at an instant only probes are left of the batch.
OrderInv ==
  /\ TimelineOrdered
  /\ \A i \in DOMAIN events : events[i].at <= now
  /\ fired = {} => \A i \in DOMAIN events : events[i].what # "probe"
  /\ (\E i \in DOMAIN events : events[i].what = "probe" /\ events[i].at = now)
       => \A u \in batch : u.payload.ev = "probe"

LEMMA EventTimes == ASSUME NEW e \in Event PROVE e.at \in Nat /\ Rank(e) \in 0..1
  BY DEF Event, Rank

LEMMA AppendOrdered ==
  ASSUME DstTypeOK, OrderInv, NEW e \in Event, events' = Append(events, e), e.at = now,
         e.what # "probe" => \A i \in DOMAIN events : ~(events[i].what = "probe" /\ events[i].at = now)
  PROVE  /\ TimelineOrdered'
         /\ \A i \in DOMAIN events' : events'[i].at <= now
         /\ e.what # "probe" => \A i \in DOMAIN events' : ~(events'[i].what = "probe" /\ events'[i].at = now)
<1>1. events \in Seq(Event) /\ now \in Nat
  BY DEF DstTypeOK
<1>2. /\ Len(events') = Len(events) + 1
      /\ DOMAIN events' = 1..(Len(events) + 1)
      /\ DOMAIN events = 1..Len(events)
      /\ \A i \in 1..Len(events) : events'[i] = events[i]
      /\ events'[Len(events) + 1] = e
  BY <1>1
<1>3. \A i \in 1..Len(events) : events[i] \in Event /\ events[i].at <= now
  BY <1>1, <1>2 DEF OrderInv
<1>4. ASSUME NEW i \in DOMAIN events', NEW j \in DOMAIN events', i < j
      PROVE  \/ events'[i].at < events'[j].at
             \/ events'[i].at = events'[j].at /\ Rank(events'[i]) <= Rank(events'[j])
  <2>1. i \in 1..Len(events) /\ i \in DOMAIN events
    BY <1>1, <1>2, <1>4
  <2>2. CASE j \in 1..Len(events)
    BY <1>2, <1>4, <2>1, <2>2 DEF OrderInv, TimelineOrdered
  <2>3. CASE j = Len(events) + 1
    <3>1. events'[j] = e /\ events'[i] = events[i]
      BY <1>2, <2>1, <2>3
    <3>2. events[i].at \in Nat /\ events[i].at <= now
      BY <1>3, <2>1, EventTimes
    <3>3. CASE events[i].at = now
      <4>1. Rank(events[i]) <= Rank(e)
        BY <2>1, <3>3 DEF Rank
      <4>2. QED
        BY <3>1, <3>3, <4>1
    <3>4. CASE events[i].at # now
      <4>1. events[i].at < e.at
        BY <1>1, <3>2, <3>4
      <4>2. QED
        BY <3>1, <4>1
    <3>5. QED
      BY <3>3, <3>4
  <2>4. QED
    BY <1>1, <1>2, <2>2, <2>3
<1>5. TimelineOrdered'
  BY <1>4 DEF TimelineOrdered, Rank
<1>6. \A i \in DOMAIN events' : events'[i].at <= now
  BY <1>1, <1>2, <1>3
<1>7. e.what # "probe" => \A i \in DOMAIN events' : ~(events'[i].what = "probe" /\ events'[i].at = now)
  BY <1>1, <1>2
<1>8. QED
  BY <1>5, <1>6, <1>7

\* The event a handler appends: at the current time, and a probe's if and
\* only if the timer is a probe's.
LEMMA HandlerEvent ==
  ASSUME IInv, NEW t \in batch, HandleAny(t)
  PROVE  \E e \in Event : /\ events' = Append(events, e) /\ e.at = now
                          /\ e.what = "probe" <=> t.payload.ev = "probe"
<1>1. CASE HandleProbe(t)
  <2>1. PICK p \in Pods :
          /\ t.payload = Sim("probe", p)
          /\ events' = Append(events, [what |-> "probe", at |-> now, pod |-> p,
                                      outcome |-> Outcome(KindsOn(p), Partitioned(Controller, p))])
    BY <1>1 DEF HandleProbe
  <2> DEFINE outcome == Outcome(KindsOn(p), Partitioned(Controller, p))
  <2>2. outcome \in Outcomes
    BY DEF Outcome, Outcomes
  <2> HIDE DEF outcome
  <2> DEFINE e == [what |-> "probe", at |-> now, pod |-> p, outcome |-> outcome]
  <2>3. e \in Event
    BY <2>2 DEF Event, IInv, DstTypeOK
  <2>4. events' = Append(events, e)
    BY <2>1 DEF outcome
  <2>5. QED
    BY <2>1, <2>3, <2>4 DEF Sim
<1>2. CASE HandleFault(t)
  <2>1. PICK kind \in Enabled, p \in Pods :
          events' = Append(events, [what |-> "injected", at |-> now, fault |-> totals.faults, kind |-> kind, pod |-> p])
    BY <1>2 DEF HandleFault
  <2> DEFINE e == [what |-> "injected", at |-> now, fault |-> totals.faults, kind |-> kind, pod |-> p]
  <2>2. kind \in Kinds /\ totals.faults \in Nat /\ now \in Nat
    BY DEF IInv, DstTypeOK
  <2>3. e \in Event
    BY <2>2 DEF Event
  <2>4. t.payload.ev # "probe"
    BY <1>2 DEF HandleFault, Sim
  <2>5. QED
    BY <2>1, <2>3, <2>4
<1>3. CASE HandleRevert(t)
  <2> DEFINE e == [what |-> "reverted", at |-> now, fault |-> t.payload.of]
  <2>1. t.payload.of \in Nat /\ now \in Nat
    BY DEF IInv, DstTypeOK, Timer, SimEvent
  <2>2. e \in Event
    BY <2>1 DEF Event
  <2>3. events' = Append(events, e) /\ t.payload.ev # "probe"
    BY <1>3 DEF HandleRevert
  <2>4. QED
    BY <2>2, <2>3
<1>4. CASE HandleEnd(t)
  <2> DEFINE e == [what |-> "ended", at |-> Duration]
  <2>1. e \in Event
    BY DEF Event
  <2>2. events' = Append(events, e) /\ t.payload.ev = "end"
    BY <1>4 DEF HandleEnd, Sim
  <2>3. Duration = now
    BY <2>2 DEF IInv, PrioInv, GoodTimer, TimeInv
  <2>4. QED
    BY <2>1, <2>2, <2>3
<1>5. QED
  BY <1>1, <1>2, <1>3, <1>4 DEF HandleAny

\* When a probe fires, only probes are left of its batch.
LEMMA ProbesLast ==
  ASSUME IInv, NEW t \in batch, Handled(t), t.payload.ev = "probe", NEW u \in batch
  PROVE  u.payload.ev = "probe"
<1>1. u = t \/ Before(t, u)
  BY DEF Handled, IsFirst
<1>2. t.at = now /\ u.at = now /\ now \in Nat
  BY DEF IInv, TimeInv, DstTypeOK
<1>3. GoodTimer(t) /\ GoodTimer(u) /\ u.prio \in Nat
  BY DEF IInv, PrioInv, DstTypeOK, Timer
<1>4. u.payload.ev \in {"probe", "fault", "revert", "end"}
  BY DEF IInv, DstTypeOK, Timer, SimEvent
<1>5. QED
  BY <1>1, <1>2, <1>3, <1>4 DEF Before, GoodTimer

LEMMA OrderStep == IInv /\ IInv' /\ OrderInv /\ [Next]_vars => OrderInv'
<1> SUFFICES ASSUME IInv, IInv', OrderInv, [Next]_vars PROVE OrderInv'
  OBVIOUS
<1>1. CASE NextBatch
  <2>1. UNCHANGED <<events, fired>> /\ now \in Nat /\ now' \in Nat /\ now <= now'
    BY <1>1, TickFacts DEF IInv, DstTypeOK
  <2>2. \A i \in DOMAIN events : events[i].at \in Nat /\ events[i].at <= now
    BY EventTimes DEF OrderInv, IInv, DstTypeOK
  <2>3. \A i \in DOMAIN events' : events'[i].at <= now'
    BY <2>1, <2>2
  <2>4. ASSUME NEW i \in DOMAIN events', events'[i].what = "probe", events'[i].at = now'
        PROVE  FALSE
    <3>1. fired # {} /\ i \in DOMAIN events /\ events[i].at = now'
      BY <2>1, <2>4 DEF OrderInv
    <3>2. PICK u \in batch' : u \in timers /\ u.at = now'
      BY <1>1, TickFacts
    <3>3. now < now'
      BY <3>1, <3>2 DEF IInv, TimeInv
    <3>4. QED
      BY <2>1, <2>2, <3>1, <3>3
  <2>5. TimelineOrdered'
    BY <2>1 DEF OrderInv, TimelineOrdered, Rank
  <2>6. fired' = {} => \A i \in DOMAIN events' : events'[i].what # "probe"
    BY <2>1 DEF OrderInv
  <2>7. QED
    BY <2>3, <2>4, <2>5, <2>6 DEF OrderInv
<1>2. ASSUME NEW t \in batch, HandleAny(t) PROVE OrderInv'
  <2>1. Handled(t) /\ batch' = batch \ {t} /\ fired' = {t} /\ now' = now
    BY <1>2, HandlerKeeps DEF Handled
  <2>2. PICK e \in Event : /\ events' = Append(events, e) /\ e.at = now
                           /\ e.what = "probe" <=> t.payload.ev = "probe"
    BY <1>2, HandlerEvent
  <2>3. e.what # "probe" => \A i \in DOMAIN events : ~(events[i].what = "probe" /\ events[i].at = now)
    BY <2>2 DEF OrderInv
  <2>4. /\ TimelineOrdered'
        /\ \A i \in DOMAIN events' : events'[i].at <= now
        /\ e.what # "probe" => \A i \in DOMAIN events' : ~(events'[i].what = "probe" /\ events'[i].at = now)
    <3>1. DstTypeOK /\ events' = Append(events, e) /\ e.at = now
      BY <2>2 DEF IInv
    <3>2. QED
      BY <2>3, <3>1, AppendOrdered
  <2>5. ASSUME e.what = "probe", NEW u \in batch' PROVE u.payload.ev = "probe"
    <3>1. t.payload.ev = "probe" /\ u \in batch
      BY <2>1, <2>2, <2>5
    <3>2. QED
      BY <2>1, <3>1, ProbesLast
  <2>6. QED
    BY <2>1, <2>4, <2>5 DEF OrderInv
<1>3. CASE UNCHANGED vars
  BY <1>3 DEF vars, clockVars, dstVars, OrderInv, TimelineOrdered, Rank
<1>4. QED
  BY <1>1, <1>2, <1>3 DEF Next, HandleAny

\* The timeline is sorted by time, and faults start and end before any pod is
\* probed at the same instant, however many timers fall on it.
THEOREM TimelineInOrder == Spec => []TimelineOrdered
<1>1. Init => OrderInv
  BY DEF Init, OrderInv, TimelineOrdered
<1>2. OrderInv => TimelineOrdered
  BY DEF OrderInv
<1>3. QED
  BY <1>1, <1>2, DstInvariance, OrderStep, PTL DEF Spec

-----------------------------------------------------------------------------
\* The timeline explains the probes.

\* InForce of any list: what its first i events say.
Ongoing(ev, i) ==
  {j \in 1..i : /\ ev[j].what = "injected"
                /\ \A k \in j..i : ~(ev[k].what = "reverted" /\ ev[k].fault = ev[j].fault)}

\* An event that is appended adds a fault to those in force, removes one, or
\* leaves them as they are; what was in force before it stays as it was.
LEMMA OngoingAppend ==
  ASSUME NEW ev \in Seq(Event), NEW e \in Event
  PROVE  LET new == Append(ev, e)
             n == Len(ev)
         IN  /\ \A i \in 1..n : Ongoing(new, i) = Ongoing(ev, i)
             /\ e.what = "injected" => Ongoing(new, n + 1) = Ongoing(ev, n) \cup {n + 1}
             /\ e.what = "reverted" => Ongoing(new, n + 1) = {j \in Ongoing(ev, n) : ev[j].fault # e.fault}
             /\ (e.what # "injected" /\ e.what # "reverted") => Ongoing(new, n + 1) = Ongoing(ev, n)
<1> DEFINE new == Append(ev, e)
           n == Len(ev)
<1>0. n \in Nat /\ new = Append(ev, e) /\ n = Len(ev)
  OBVIOUS
<1> HIDE DEF new, n
<1>1. /\ \A i \in 1..n : new[i] = ev[i]
      /\ new[n + 1] = e
  BY <1>0
<1>2. ASSUME NEW i \in 1..n PROVE Ongoing(new, i) = Ongoing(ev, i)
  <2>1. \A j \in 1..i : j \in 1..n /\ \A k \in j..i : k \in 1..n
    BY <1>0
  <2> QED
    BY <1>1, <2>1 DEF Ongoing
<1>3. ASSUME NEW j
      PROVE  j \in Ongoing(new, n + 1) <=>
               \/ j \in Ongoing(ev, n) /\ ~(e.what = "reverted" /\ e.fault = ev[j].fault)
               \/ j = n + 1 /\ e.what = "injected"
  <2>1. CASE j \in 1..n
    <3>1. new[j] = ev[j] /\ \A k \in j..n : k \in 1..n
      BY <1>1, <2>1
    <3>2. \A k \in j..(n + 1) : k \in j..n \/ k = n + 1
      BY <1>0, <2>1
    <3>3. \A k \in j..n : k \in j..(n + 1)
      BY <1>0, <2>1
    <3>4. n + 1 \in j..(n + 1) /\ j \in 1..(n + 1) /\ j # n + 1
      BY <1>0, <2>1
    <3> QED
      BY <1>1, <2>1, <3>1, <3>2, <3>3, <3>4 DEF Ongoing
  <2>2. CASE j = n + 1
    <3>1. j \notin 1..n /\ j \in 1..(n + 1) /\ \A k \in j..(n + 1) : k = n + 1
      BY <1>0, <2>2
    <3>2. n + 1 \in j..(n + 1)
      BY <1>0, <2>2
    <3> QED
      BY <1>1, <2>2, <3>1, <3>2 DEF Ongoing
  <2>3. CASE j \notin 1..(n + 1)
    <3>1. j \notin 1..n /\ j # n + 1
      BY <1>0, <2>3
    <3> QED
      BY <2>3, <3>1 DEF Ongoing
  <2> QED
    BY <1>0, <2>1, <2>2, <2>3
<1>4. /\ e.what = "injected" => Ongoing(new, n + 1) = Ongoing(ev, n) \cup {n + 1}
      /\ e.what = "reverted" => Ongoing(new, n + 1) = {j \in Ongoing(ev, n) : ev[j].fault # e.fault}
      /\ (e.what # "injected" /\ e.what # "reverted") => Ongoing(new, n + 1) = Ongoing(ev, n)
  BY <1>3
<1> QED
  BY <1>2, <1>4 DEF new, n

\* The j-th event of the list ev tells of the fault f.
Tells(ev, j, f) == ev[j].fault = f.id /\ ev[j].kind = f.kind /\ ev[j].pod = f.pod

\* What the timeline shows in force is what is active, and the partitions of
\* the network are those of the active faults, each of its own.
ActiveInv ==
  /\ \A f \in active : \E j \in Ongoing(events, Len(events)) : Tells(events, j, f)
  /\ \A j \in Ongoing(events, Len(events)) : \E f \in active : Tells(events, j, f)
  /\ \A f \in active :
       /\ f.kind # "partition" => f.pids = {}
       /\ f.kind = "partition" =>
            \E q \in partitions : f.pids = {q.id} /\ q.a = {Controller} /\ q.b = {f.pod}
  /\ \A q \in partitions :
       /\ q.id < nextPartition
       /\ \E f \in active : /\ f.kind = "partition" /\ f.pids = {q.id}
                            /\ q.a = {Controller} /\ q.b = {f.pod}
  /\ \A f, g \in active : f.pids \cap g.pids # {} => f = g

\* A probe is cut off if a partition on its pod is in force, and its outcome is
\* what the faults make of it.
LEMMA ProbeFinds ==
  ASSUME DstTypeOK, ActiveInv, NEW p \in Pods
  PROVE  Explained(Outcome(KindsOn(p), Partitioned(Controller, p)), KindsOn(p))
<1> DEFINE kinds == KindsOn(p)
           cutOff == "partition" \in kinds
<1>1. Partitioned(Controller, p) <=> "partition" \in KindsOn(p)
  <2>1. Controller # p
    BY DEF Controller, Pods
  <2>2. ASSUME Partitioned(Controller, p) PROVE "partition" \in KindsOn(p)
    <3>1. PICK q \in partitions : \/ Controller \in q.a /\ p \in q.b
                                  \/ Controller \in q.b /\ p \in q.a
      BY <2>2 DEF Partitioned
    <3>2. PICK f \in active : f.kind = "partition" /\ q.a = {Controller} /\ q.b = {f.pod}
      BY DEF ActiveInv
    <3>3. f.pod = p
      BY <2>1, <3>1, <3>2
    <3> QED
      BY <3>2, <3>3 DEF KindsOn
  <2>3. ASSUME "partition" \in KindsOn(p) PROVE Partitioned(Controller, p)
    <3>1. PICK f \in active : f.kind = "partition" /\ f.pod = p
      BY <2>3 DEF KindsOn
    <3>2. PICK q \in partitions : q.a = {Controller} /\ q.b = {f.pod}
      BY <3>1 DEF ActiveInv
    <3> QED
      BY <3>1, <3>2 DEF Partitioned
  <2> QED
    BY <2>2, <2>3
<1>2. kinds \subseteq Kinds
  BY DEF KindsOn, DstTypeOK, ActiveFault
<1> HIDE DEF kinds
<1>3. ASSUME NEW c, c <=> "partition" \in kinds PROVE Explained(Outcome(kinds, c), kinds)
  <2>1. CASE kinds \cap {"crash", "eviction"} # {}
    <3>1. Outcome(kinds, c) = "crashed"
      BY <2>1 DEF Outcome
    <3> QED
      BY <2>1, <3>1 DEF Explained
  <2>2. CASE kinds \cap {"crash", "eviction"} = {} /\ "partition" \in kinds
    <3>1. Outcome(kinds, c) = "partitioned"
      BY <1>3, <2>2 DEF Outcome
    <3> QED
      BY <2>2, <3>1 DEF Explained
  <2>3. CASE /\ kinds \cap {"crash", "eviction"} = {} /\ "partition" \notin kinds
             /\ "dns" \in kinds
    <3>1. Outcome(kinds, c) = "dns"
      BY <1>3, <2>3 DEF Outcome
    <3> QED
      BY <2>3, <3>1 DEF Explained
  <2>4. CASE /\ kinds \cap {"crash", "eviction"} = {} /\ "partition" \notin kinds
             /\ "dns" \notin kinds
    <3>1. Outcome(kinds, c) = IF kinds \cap {"latency", "stress"} # {} THEN "slow" ELSE "ok"
      BY <1>3, <2>4 DEF Outcome
    <3>2. kinds \subseteq {"latency", "stress"}
      BY <1>2, <2>4 DEF Kinds
    <3> QED
      BY <2>4, <3>1, <3>2 DEF Explained
  <2> QED
    BY <2>1, <2>2, <2>3, <2>4
<1> QED
  BY <1>1, <1>3 DEF kinds

ExplainInv == ActiveInv /\ TimelineExplainsProbes

\* The probes on the list keep their explanation when the list grows.
LEMMA ProbesStay ==
  ASSUME DstTypeOK, TimelineExplainsProbes, NEW e \in Event, events' = Append(events, e),
         e.what = "probe" =>
           Explained(e.outcome, {events[j].kind : j \in {k \in Ongoing(events, Len(events)) : events[k].pod = e.pod}})
  PROVE  TimelineExplainsProbes'
<1>1. events \in Seq(Event) /\ events' \in Seq(Event)
  BY DEF DstTypeOK
<1>2. PICK n \in Nat : n = Len(events)
  BY <1>1
<1>3. /\ DOMAIN events = 1..n /\ DOMAIN events' = 1..(n + 1)
      /\ \A i \in 1..n : events'[i] = events[i]
      /\ events'[n + 1] = e
  BY <1>1, <1>2
<1>4. ASSUME NEW i \in 1..n
      PROVE  /\ Ongoing(events', i) = Ongoing(events, i)
             /\ \A j \in Ongoing(events, i) : events'[j] = events[j]
  BY <1>1, <1>2, <1>3, OngoingAppend DEF Ongoing
<1>5. ASSUME NEW i \in DOMAIN events', events'[i].what = "probe"
      PROVE  Explained(events'[i].outcome,
                       {events'[j].kind : j \in {k \in Ongoing(events', i) : events'[k].pod = events'[i].pod}})
  <2>1. CASE i \in 1..n
    <3>1. Explained(events[i].outcome,
                    {events[j].kind : j \in {k \in Ongoing(events, i) : events[k].pod = events[i].pod}})
      BY <1>3, <1>5, <2>1 DEF TimelineExplainsProbes, InForce, Ongoing
    <3>2. {events'[j].kind : j \in {k \in Ongoing(events', i) : events'[k].pod = events'[i].pod}}
            = {events[j].kind : j \in {k \in Ongoing(events, i) : events[k].pod = events[i].pod}}
      BY <1>3, <1>4, <2>1
    <3> QED
      BY <1>3, <2>1, <3>1, <3>2
  <2>2. CASE i = n + 1
    <3>1. e.what = "probe" /\ events'[i] = e
      BY <1>3, <1>5, <2>2
    <3>2. Ongoing(events', n + 1) = Ongoing(events, n)
      BY <1>1, <1>2, <3>1, OngoingAppend
    <3>3. \A j \in Ongoing(events, n) : events'[j] = events[j]
      BY <1>3 DEF Ongoing
    <3>4. {events'[j].kind : j \in {k \in Ongoing(events', i) : events'[k].pod = events'[i].pod}}
            = {events[j].kind : j \in {k \in Ongoing(events, n) : events[k].pod = e.pod}}
      BY <2>2, <3>1, <3>2, <3>3
    <3> QED
      BY <1>2, <3>1, <3>4
  <2>3. i \in 1..n \/ i = n + 1
    BY <1>3, <1>5
  <2> QED
    BY <2>1, <2>2, <2>3
<1> QED
  BY <1>5 DEF TimelineExplainsProbes, InForce, Ongoing

LEMMA ExplainStep == IInv /\ ExplainInv /\ [Next]_vars => ExplainInv'
<1> SUFFICES ASSUME IInv, ExplainInv, [Next]_vars PROVE ExplainInv'
  OBVIOUS
<1> USE DEF ExplainInv
<1>1. DstTypeOK /\ events \in Seq(Event) /\ active \subseteq ActiveFault
  BY DEF IInv, DstTypeOK
<1>2. PICK n \in Nat : n = Len(events)
  BY <1>1
<1>3. CASE UNCHANGED <<events, active, networkVars>>
  <2>1. events' = events /\ active' = active /\ partitions' = partitions
        /\ nextPartition' = nextPartition
    BY <1>3 DEF networkVars
  <2>2. ActiveInv'
    BY <2>1 DEF ActiveInv
  <2>3. TimelineExplainsProbes'
    <3>1. ASSUME NEW i \in DOMAIN events', events'[i].what = "probe"
          PROVE  Explained(events'[i].outcome,
                           {events'[j].kind : j \in {k \in Ongoing(events', i) : events'[k].pod = events'[i].pod}})
      <4>1. Explained(events[i].outcome,
                      {events[j].kind : j \in {k \in Ongoing(events, i) : events[k].pod = events[i].pod}})
        BY <2>1, <3>1 DEF TimelineExplainsProbes, InForce, Ongoing
      <4> QED
        BY <2>1, <4>1
    <3> QED
      BY <3>1 DEF TimelineExplainsProbes, InForce, Ongoing
  <2> QED
    BY <2>2, <2>3
\* What an append of e leaves of the list.
<1>4. ASSUME NEW e \in Event, events' = Append(events, e)
      PROVE  /\ Len(events') = n + 1 /\ events'[n + 1] = e
             /\ \A j \in Ongoing(events, n) : events'[j] = events[j]
             /\ n + 1 \notin Ongoing(events, n)
  <2>1. Len(events') = n + 1 /\ events'[n + 1] = e /\ \A j \in 1..n : events'[j] = events[j]
    BY <1>1, <1>2, <1>4
  <2>2. Ongoing(events, n) \subseteq 1..n /\ n + 1 \notin 1..n
    BY DEF Ongoing
  <2> QED
    BY <2>1, <2>2
\* An event that says nothing of a fault.
<1>5. ASSUME NEW e \in Event, events' = Append(events, e), e.what \notin {"injected", "reverted"},
             UNCHANGED <<active, networkVars>>
      PROVE  ActiveInv'
  <2>1. Ongoing(events', Len(events')) = Ongoing(events, n)
    BY <1>1, <1>2, <1>4, <1>5, OngoingAppend
  <2>2. active' = active /\ partitions' = partitions /\ nextPartition' = nextPartition
    BY <1>5 DEF networkVars
  <2>3. \A j \in Ongoing(events, n), f \in active : Tells(events', j, f) <=> Tells(events, j, f)
    BY <1>4, <1>5 DEF Tells
  <2>4. /\ \A f \in active : \E j \in Ongoing(events, n) : Tells(events, j, f)
        /\ \A j \in Ongoing(events, n) : \E f \in active : Tells(events, j, f)
    BY <1>2 DEF ActiveInv
  <2>5. /\ \A f \in active' : \E j \in Ongoing(events', Len(events')) : Tells(events', j, f)
        /\ \A j \in Ongoing(events', Len(events')) : \E f \in active' : Tells(events', j, f)
    BY <2>1, <2>2, <2>3, <2>4
  <2> QED
    BY <2>2, <2>5 DEF ActiveInv
<1>6. ASSUME NEW t \in batch, HandleProbe(t) PROVE ExplainInv'
  <2>1. PICK p \in Pods :
          /\ events' = Append(events, [what |-> "probe", at |-> now, pod |-> p,
                                       outcome |-> Outcome(KindsOn(p), Partitioned(Controller, p))])
          /\ UNCHANGED <<networkVars, active>>
    BY <1>6 DEF HandleProbe
  <2> DEFINE outcome == Outcome(KindsOn(p), Partitioned(Controller, p))
  <2>2. outcome \in Outcomes
    BY DEF Outcome, Outcomes
  <2>3. Explained(outcome, KindsOn(p))
    BY <1>1, ProbeFinds
  <2>4. events' = Append(events, [what |-> "probe", at |-> now, pod |-> p, outcome |-> outcome])
    BY <2>1
  <2> HIDE DEF outcome
  <2> DEFINE e == [what |-> "probe", at |-> now, pod |-> p, outcome |-> outcome]
  <2>5. e \in Event /\ e.what = "probe" /\ e.pod = p /\ e.outcome = outcome
    BY <2>2 DEF Event, IInv, DstTypeOK
  <2>6. events' = Append(events, e)
    BY <2>4
  <2> HIDE DEF e
  <2>7. {events[j].kind : j \in {k \in Ongoing(events, Len(events)) : events[k].pod = e.pod}} = KindsOn(p)
    BY <2>5 DEF ActiveInv, Tells, KindsOn
  <2>8. TimelineExplainsProbes'
    BY <1>1, <2>3, <2>5, <2>6, <2>7, ProbesStay
  <2>9. ActiveInv'
    BY <1>5, <2>1, <2>5, <2>6
  <2> QED
    BY <2>8, <2>9
<1>7. ASSUME NEW t \in batch, HandleEnd(t) PROVE ExplainInv'
  <2> DEFINE e == [what |-> "ended", at |-> Duration]
  <2>1. e \in Event /\ e.what = "ended"
    BY DEF Event
  <2>2. events' = Append(events, e) /\ UNCHANGED <<active, networkVars>>
    BY <1>7 DEF HandleEnd
  <2> HIDE DEF e
  <2> QED
    BY <1>1, <1>5, <2>1, <2>2, ProbesStay
<1>8. ASSUME NEW t \in batch, HandleRevert(t) PROVE ExplainInv'
  <2> DEFINE e == [what |-> "reverted", at |-> now, fault |-> t.payload.of]
             reverted == {f \in active : f.id = t.payload.of}
  <2>1. t.payload.of \in Nat /\ now \in Nat
    BY DEF IInv, DstTypeOK, Timer, SimEvent
  <2>2. e \in Event /\ e.what = "reverted" /\ e.fault = t.payload.of
    BY <2>1 DEF Event
  <2>3. /\ events' = Append(events, e)
        /\ active' = active \ reverted
        /\ partitions' = {q \in partitions : q.id \notin UNION {f.pids : f \in reverted}}
        /\ nextPartition' = nextPartition
    BY <1>8 DEF HandleRevert, RemovePartitions
  <2> HIDE DEF e
  <2>4. TimelineExplainsProbes'
    BY <1>1, <2>2, <2>3, ProbesStay
  <2>5. Ongoing(events', Len(events')) = {j \in Ongoing(events, n) : events[j].fault # t.payload.of}
    BY <1>1, <1>2, <1>4, <2>2, <2>3, OngoingAppend
  <2>6. \A f \in active' : \E j \in Ongoing(events', Len(events')) : Tells(events', j, f)
    <3> SUFFICES ASSUME NEW f \in active'
                 PROVE  \E j \in Ongoing(events', Len(events')) : Tells(events', j, f)
      OBVIOUS
    <3>1. f \in active /\ f.id # t.payload.of
      BY <2>3
    <3>2. PICK j \in Ongoing(events, n) : Tells(events, j, f)
      BY <1>2, <3>1 DEF ActiveInv
    <3>3. j \in Ongoing(events', Len(events')) /\ events'[j] = events[j]
      BY <1>4, <2>2, <2>3, <2>5, <3>1, <3>2 DEF Tells
    <3> QED
      BY <3>2, <3>3 DEF Tells
  <2>7. \A j \in Ongoing(events', Len(events')) : \E f \in active' : Tells(events', j, f)
    <3> SUFFICES ASSUME NEW j \in Ongoing(events', Len(events'))
                 PROVE  \E f \in active' : Tells(events', j, f)
      OBVIOUS
    <3>1. j \in Ongoing(events, n) /\ events[j].fault # t.payload.of /\ events'[j] = events[j]
      BY <1>4, <2>2, <2>3, <2>5
    <3>2. PICK f \in active : Tells(events, j, f)
      BY <1>2, <3>1 DEF ActiveInv
    <3>3. f \in active'
      BY <2>3, <3>1, <3>2 DEF Tells
    <3> QED
      BY <3>1, <3>2, <3>3 DEF Tells
  <2>8. ASSUME NEW f \in active'
        PROVE  /\ f.kind # "partition" => f.pids = {}
               /\ f.kind = "partition" =>
                    \E q \in partitions' : f.pids = {q.id} /\ q.a = {Controller} /\ q.b = {f.pod}
    <3>1. f \in active /\ f \notin reverted
      BY <2>3
    <3>2. ASSUME f.kind = "partition"
          PROVE  \E q \in partitions' : f.pids = {q.id} /\ q.a = {Controller} /\ q.b = {f.pod}
      <4>1. PICK q \in partitions : f.pids = {q.id} /\ q.a = {Controller} /\ q.b = {f.pod}
        BY <3>1, <3>2 DEF ActiveInv
      <4>2. ASSUME NEW g \in reverted, q.id \in g.pids PROVE FALSE
        <5>1. f = g
          BY <3>1, <4>1, <4>2 DEF ActiveInv
        <5> QED
          BY <3>1, <5>1
      <4>3. q \in partitions'
        BY <2>3, <4>2
      <4> QED
        BY <4>1, <4>3
    <3> QED
      BY <3>1, <3>2 DEF ActiveInv
  <2>9. ASSUME NEW q \in partitions'
        PROVE  /\ q.id < nextPartition'
               /\ \E f \in active' : /\ f.kind = "partition" /\ f.pids = {q.id}
                                     /\ q.a = {Controller} /\ q.b = {f.pod}
    <3>1. q \in partitions /\ \A f \in reverted : q.id \notin f.pids
      BY <2>3
    <3>2. PICK f \in active : /\ f.kind = "partition" /\ f.pids = {q.id}
                              /\ q.a = {Controller} /\ q.b = {f.pod}
      BY <3>1 DEF ActiveInv
    <3>3. f \in active'
      BY <2>3, <3>1, <3>2
    <3> QED
      BY <2>3, <3>1, <3>2, <3>3 DEF ActiveInv
  <2>10. \A f, g \in active' : f.pids \cap g.pids # {} => f = g
    BY <2>3 DEF ActiveInv
  <2> QED
    BY <2>4, <2>6, <2>7, <2>8, <2>9, <2>10 DEF ActiveInv
<1>9. ASSUME NEW t \in batch, HandleFault(t) PROVE ExplainInv'
  <2>1. PICK kind \in Enabled, p \in Pods :
          LET id == totals.faults
          IN  /\ IF kind = "partition" THEN AddPartition({Controller}, {p}) ELSE UNCHANGED networkVars
              /\ active' = active \cup {[id |-> id, kind |-> kind, pod |-> p,
                                         pids |-> IF kind = "partition" THEN {nextPartition} ELSE {}]}
              /\ events' = Append(events, [what |-> "injected", at |-> now, fault |-> id, kind |-> kind, pod |-> p])
    BY <1>9 DEF HandleFault
  <2> DEFINE new == [id |-> totals.faults, kind |-> kind, pod |-> p,
                     pids |-> IF kind = "partition" THEN {nextPartition} ELSE {}]
             e == [what |-> "injected", at |-> now, fault |-> totals.faults, kind |-> kind, pod |-> p]
  <2>2. kind \in Kinds /\ totals.faults \in Nat /\ now \in Nat /\ nextPartition \in Nat
        /\ partitions \subseteq Partition({Controller} \cup Pods)
    BY DEF IInv, DstTypeOK
  <2>3. /\ e \in Event /\ e.what = "injected"
        /\ e.fault = new.id /\ e.kind = new.kind /\ e.pod = new.pod
    BY <2>2 DEF Event
  <2>4. /\ new.kind = kind /\ new.pod = p
        /\ new.pids = IF kind = "partition" THEN {nextPartition} ELSE {}
    OBVIOUS
  <2>5. events' = Append(events, e) /\ active' = active \cup {new}
    BY <2>1
  <2> HIDE DEF e, new
  <2>6. TimelineExplainsProbes'
    BY <1>1, <2>3, <2>5, ProbesStay
  <2>7. Ongoing(events', Len(events')) = Ongoing(events, n) \cup {n + 1}
    BY <1>1, <1>2, <1>4, <2>3, <2>5, OngoingAppend
  <2>8. /\ \A f \in active' : \E j \in Ongoing(events', Len(events')) : Tells(events', j, f)
        /\ \A j \in Ongoing(events', Len(events')) : \E f \in active' : Tells(events', j, f)
    <3>1. \A j \in Ongoing(events, n), f \in active : Tells(events', j, f) <=> Tells(events, j, f)
      BY <1>4, <2>3, <2>5 DEF Tells
    <3>2. /\ \A f \in active : \E j \in Ongoing(events, n) : Tells(events, j, f)
          /\ \A j \in Ongoing(events, n) : \E f \in active : Tells(events, j, f)
      BY <1>2 DEF ActiveInv
    <3>3. Tells(events', n + 1, new)
      BY <1>4, <2>3, <2>5 DEF Tells
    <3> QED
      BY <2>5, <2>7, <3>1, <3>2, <3>3
  <2>9. \A f \in active : \A i \in f.pids : i < nextPartition
    <3> SUFFICES ASSUME NEW f \in active, NEW i \in f.pids PROVE i < nextPartition
      OBVIOUS
    <3>1. PICK q \in partitions : f.pids = {q.id}
      BY DEF ActiveInv
    <3> QED
      BY <3>1 DEF ActiveInv
  <2>10. \A f \in active : nextPartition \notin f.pids
    BY <2>2, <2>9
  <2>11. \A f, g \in active' : f.pids \cap g.pids # {} => f = g
    BY <2>4, <2>5, <2>10 DEF ActiveInv
  <2>12. CASE kind = "partition"
    <3> DEFINE q == [id |-> nextPartition, a |-> {Controller}, b |-> {p}]
    <3>1. partitions' = partitions \cup {q} /\ nextPartition' = nextPartition + 1
      BY <2>1, <2>12 DEF AddPartition
    <3>2. q.id = nextPartition /\ q.a = {Controller} /\ q.b = {p}
      OBVIOUS
    <3> HIDE DEF q
    <3>3. \A r \in partitions : r.id \in Nat /\ r.id < nextPartition
      BY <2>2 DEF Partition, ActiveInv
    <3>4. \A r \in partitions' : r.id < nextPartition'
      BY <2>2, <3>1, <3>2, <3>3
    <3>5. \A f \in active' :
            /\ f.kind # "partition" => f.pids = {}
            /\ f.kind = "partition" =>
                 \E r \in partitions' : f.pids = {r.id} /\ r.a = {Controller} /\ r.b = {f.pod}
      BY <2>4, <2>5, <2>12, <3>1, <3>2 DEF ActiveInv
    <3>6. \A r \in partitions' :
            \E f \in active' : /\ f.kind = "partition" /\ f.pids = {r.id}
                               /\ r.a = {Controller} /\ r.b = {f.pod}
      BY <2>4, <2>5, <2>12, <3>1, <3>2 DEF ActiveInv
    <3> QED
      BY <2>6, <2>8, <2>11, <3>4, <3>5, <3>6 DEF ActiveInv
  <2>13. CASE kind # "partition"
    <3>1. partitions' = partitions /\ nextPartition' = nextPartition
      BY <2>1, <2>13 DEF networkVars
    <3> QED
      BY <2>4, <2>5, <2>6, <2>8, <2>11, <2>13, <3>1 DEF ActiveInv
  <2> QED
    BY <2>12, <2>13
<1>10. CASE NextBatch
  BY <1>3, <1>10 DEF NextBatch
<1>11. CASE UNCHANGED vars
  BY <1>3, <1>11 DEF vars, dstVars
<1> QED
  BY <1>6, <1>7, <1>8, <1>9, <1>10, <1>11 DEF Next

\* Every probe came out as the faults make it that the timeline shows in force
\* on its pod, however many overlap there and in whatever order they start and
\* end: for any pods, kinds and times.
THEOREM ProbesExplained == Spec => []TimelineExplainsProbes
<1>1. Init => ExplainInv
  <2> SUFFICES ASSUME Init PROVE ExplainInv
    OBVIOUS
  <2>1. /\ events = <<[what |-> "started", at |-> 0]>> /\ Len(events) = 1
        /\ DOMAIN events = {1} /\ events[1].what = "started"
        /\ active = {} /\ partitions = {}
    BY DEF Init, NetworkInit
  <2>2. Ongoing(events, Len(events)) = {}
    BY <2>1 DEF Ongoing
  <2> QED
    BY <2>1, <2>2 DEF ExplainInv, ActiveInv, TimelineExplainsProbes
<1>2. ExplainInv => TimelineExplainsProbes
  BY DEF ExplainInv
<1> QED
  BY <1>1, <1>2, DstInvariance, ExplainStep, PTL DEF Spec
-----------------------------------------------------------------------------
\* What is still to happen: the timers of the heap and those of the batch.
Pend == timers \cup batch

\* Of the timers pend, those that probe pod p and those that revert fault f;
\* of the events ev, the probes of p at time s and the reverts of f.
Probes(pend, p) == {u \in pend : u.payload.ev = "probe" /\ u.payload.of = p}
Undoes(pend, f) == {u \in pend : u.payload.ev = "revert" /\ u.payload.of = f}
Probed(ev, p, s) == {i \in DOMAIN ev : ev[i].what = "probe" /\ ev[i].pod = p /\ ev[i].at = s}
Reverts(ev, f) == {k \in DOMAIN ev : ev[k].what = "reverted" /\ ev[k].fault = f}

\* Until it is over the end is pending, and then only what comes no earlier.
EndInv ==
  /\ ~done => \E u \in Pend : u.payload.ev = "end"
  /\ done => \A u \in Pend : Duration <= u.at

\* An injected fault waits for its one revert, or has had it when it was due.
Window(ev, pend, e) ==
  LET due == e.at + Lasts[e.kind]
  IN  \/ Reverts(ev, e.fault) = {} /\ \E u : Undoes(pend, e.fault) = {u} /\ u.at = due
      \/ /\ due < Duration /\ Undoes(pend, e.fault) = {}
         /\ \E k : Reverts(ev, e.fault) = {k} /\ ev[k].at = due

WindowInv ==
  /\ \A u \in Pend : u.payload.ev = "revert" => u.payload.of < totals.faults
  /\ \A k \in DOMAIN events :
       events[k].what = "injected" \/ events[k].what = "reverted" => events[k].fault < totals.faults
  /\ \A i \in DOMAIN events : events[i].what = "injected" => Window(events, Pend, events[i])

\* The times at which pod p is probed if the simulation lasts.
FirstProbe(p) == ProbeEvery + Stagger * (p - 1)
OnBeat(p, s) == FirstProbe(p) <= s /\ (s - FirstProbe(p)) % ProbeEvery = 0

\* One probe of p is pending, on its beat, and every beat before has had one.
Cadence(ev, pend, p) ==
  \E u : /\ Probes(pend, p) = {u}
         /\ OnBeat(p, u.at)
         /\ \A s \in Nat : IF OnBeat(p, s) /\ s < u.at
                           THEN \E i : Probed(ev, p, s) = {i}
                           ELSE Probed(ev, p, s) = {}

CadenceInv ==
  /\ \A i \in DOMAIN events : events[i].what = "probe" => events[i].at < Duration
  /\ \A p \in Pods : Cadence(events, Pend, p)

LEMMA RevertsAppend ==
  ASSUME NEW ev \in Seq(Event), NEW e \in Event, NEW f
  PROVE  /\ e.what = "reverted" /\ e.fault = f
              => Reverts(Append(ev, e), f) = Reverts(ev, f) \cup {Len(ev) + 1}
         /\ ~(e.what = "reverted" /\ e.fault = f) => Reverts(Append(ev, e), f) = Reverts(ev, f)
<1> DEFINE new == Append(ev, e)
<1>1. /\ DOMAIN new = DOMAIN ev \cup {Len(ev) + 1} /\ Len(ev) + 1 \notin DOMAIN ev
      /\ \A i \in DOMAIN ev : new[i] = ev[i]
      /\ new[Len(ev) + 1] = e
  OBVIOUS
<1> HIDE DEF new
<1>2. /\ e.what = "reverted" /\ e.fault = f => Reverts(new, f) = Reverts(ev, f) \cup {Len(ev) + 1}
      /\ ~(e.what = "reverted" /\ e.fault = f) => Reverts(new, f) = Reverts(ev, f)
  BY <1>1 DEF Reverts
<1> QED
  BY <1>2 DEF new

LEMMA ProbedAppend ==
  ASSUME NEW ev \in Seq(Event), NEW e \in Event, NEW p, NEW s
  PROVE  /\ e.what = "probe" /\ e.pod = p /\ e.at = s
              => Probed(Append(ev, e), p, s) = Probed(ev, p, s) \cup {Len(ev) + 1}
         /\ ~(e.what = "probe" /\ e.pod = p /\ e.at = s)
              => Probed(Append(ev, e), p, s) = Probed(ev, p, s)
<1> DEFINE new == Append(ev, e)
<1>1. /\ DOMAIN new = DOMAIN ev \cup {Len(ev) + 1} /\ Len(ev) + 1 \notin DOMAIN ev
      /\ \A i \in DOMAIN ev : new[i] = ev[i]
      /\ new[Len(ev) + 1] = e
  OBVIOUS
<1> HIDE DEF new
<1>2. /\ e.what = "probe" /\ e.pod = p /\ e.at = s
           => Probed(new, p, s) = Probed(ev, p, s) \cup {Len(ev) + 1}
      /\ ~(e.what = "probe" /\ e.pod = p /\ e.at = s) => Probed(new, p, s) = Probed(ev, p, s)
  BY <1>1 DEF Probed
<1> QED
  BY <1>2 DEF new

LEMMA NatDivision ==
  ASSUME NEW a \in Nat, NEW d \in Nat \ {0}
  PROVE  a \div d \in Nat /\ a = d * (a \div d) + (a % d)
<1>1. a \div d \in Nat
  OBVIOUS
<1>2. a = d * (a \div d) + (a % d)
  OBVIOUS
<1> QED
  BY <1>1, <1>2

\* A multiple of d is followed by the next one d later, and by none before.
LEMMA NextMultiple ==
  ASSUME NEW d \in Nat \ {0}, NEW a \in Nat, a % d = 0
  PROVE  /\ (a + d) % d = 0
         /\ \A b \in Nat : a < b /\ b < a + d => b % d # 0
<1>1. PICK x \in Nat : a = d * x
  <2>1. a \div d \in Nat /\ a = d * (a \div d) + (a % d)
    BY NatDivision
  <2>2. PICK x \in Nat : x = a \div d
    BY <2>1
  <2>3. d * x \in Nat
    OBVIOUS
  <2>4. a = d * x
    BY <2>1, <2>2, <2>3
  <2> QED
    BY <2>4
<1>2. (a + d) % d = 0
  <2>1. d * (x + 1) = d * x + d
    OBVIOUS
  <2>2. x + 1 \in Nat
    OBVIOUS
  <2>3. (d * (x + 1)) % d = 0
    BY <2>2
  <2> QED
    BY <1>1, <2>1, <2>3
<1>3. ASSUME NEW b \in Nat, a < b, b < a + d, b % d = 0 PROVE FALSE
  <2>1. b \div d \in Nat /\ b = d * (b \div d) + (b % d)
    BY NatDivision
  <2>2. PICK y \in Nat : y = b \div d
    BY <2>1
  <2>3. d * y \in Nat /\ d * x \in Nat
    OBVIOUS
  <2>4. b = d * y
    BY <1>3, <2>1, <2>2, <2>3
  <2>5. PICK r \in Nat : r = b - a /\ 0 < r /\ r < d
    BY <1>3
  <2>6. d * y = d * x + r
    BY <1>1, <2>4, <2>5
  <2>7. x = y
    BY <2>5, <2>6
  <2> QED
    BY <1>1, <1>3, <2>4, <2>7
<1> QED
  BY <1>2, <1>3

\* What each handler puts on the timeline and on the agenda.
LEMMA ProbeDoes ==
  ASSUME IInv, NEW t \in batch, HandleProbe(t)
  PROVE  \E p \in Pods, e \in Event : \E u :
           /\ t.payload.ev = "probe" /\ t.payload.of = p
           /\ u.payload = t.payload /\ u.at = now + ProbeEvery
           /\ Pend' = (Pend \ {t}) \cup {u}
           /\ events' = Append(events, e) /\ e.what = "probe" /\ e.at = now /\ e.pod = p
           /\ totals'.faults = totals.faults
<1>1. PICK p \in Pods, outcome \in Outcomes :
        /\ t.payload = Sim("probe", p)
        /\ events' = Append(events, [what |-> "probe", at |-> now, pod |-> p, outcome |-> outcome])
        /\ Schedule(<<After(ProbeEvery, PROBE_PRIORITY, Sim("probe", p))>>)
        /\ batch' = batch \ {t}
  <2>1. PICK p \in Pods :
          /\ t.payload = Sim("probe", p)
          /\ events' = Append(events, [what |-> "probe", at |-> now, pod |-> p,
                                       outcome |-> Outcome(KindsOn(p), Partitioned(Controller, p))])
          /\ Schedule(<<After(ProbeEvery, PROBE_PRIORITY, Sim("probe", p))>>)
          /\ batch' = batch \ {t}
    BY DEF HandleProbe, Handled
  <2>2. Outcome(KindsOn(p), Partitioned(Controller, p)) \in Outcomes
    BY DEF Outcome, Outcomes
  <2> QED
    BY <2>1, <2>2
<1>2. totals'.faults = totals.faults
  <2>1. PICK x : totals' = [totals EXCEPT !.failures = x]
    BY DEF HandleProbe
  <2> QED
    BY <2>1 DEF IInv, DstTypeOK
<1> DEFINE u == [at |-> now + ProbeEvery, prio |-> PROBE_PRIORITY, id |-> nextId, payload |-> Sim("probe", p)]
           e == [what |-> "probe", at |-> now, pod |-> p, outcome |-> outcome]
<1>3. e \in Event /\ e.what = "probe" /\ e.at = now /\ e.pod = p
  BY DEF Event, IInv, DstTypeOK
<1>4. NewTimers(<<After(ProbeEvery, PROBE_PRIORITY, Sim("probe", p))>>) = {u}
  <2>1. nextId + 1 - 1 = nextId
    BY DEF IInv, DstTypeOK
  <2> QED
    BY <2>1 DEF NewTimers, After, Request
<1>5. u.payload = t.payload /\ u.at = now + ProbeEvery
  BY <1>1
<1>6. t.payload.ev = "probe" /\ t.payload.of = p
  BY <1>1 DEF Sim
<1>7. events' = Append(events, e)
  BY <1>1
<1> HIDE DEF u, e
<1>8. Pend' = (Pend \ {t}) \cup {u}
  BY <1>1, <1>4 DEF Pend, Schedule, IInv, DstTypeOK, TimeInv, Timer
<1> QED
  BY <1>2, <1>3, <1>5, <1>6, <1>7, <1>8

LEMMA FaultDoes ==
  ASSUME IInv, NEW t \in batch, HandleFault(t)
  PROVE  \E e \in Event : \E u, v :
           /\ t.payload.ev = "fault"
           /\ u.payload.ev = "revert" /\ u.payload.of = totals.faults
           /\ v.payload.ev = "fault"
           /\ Pend' = (Pend \ {t}) \cup {u, v}
           /\ events' = Append(events, e) /\ e.what = "injected" /\ e.at = now
           /\ e.fault = totals.faults /\ e.kind \in Kinds /\ u.at = now + Lasts[e.kind]
           /\ totals'.faults = totals.faults + 1
<1>1. PICK kind \in Enabled, p \in Pods, delay \in Delays :
        /\ events' = Append(events, [what |-> "injected", at |-> now, fault |-> totals.faults,
                                     kind |-> kind, pod |-> p])
        /\ Schedule(<<After(Lasts[kind], FAULT_PRIORITY, Sim("revert", totals.faults)),
                      After(delay, FAULT_PRIORITY, Sim("fault", 0))>>)
  BY DEF HandleFault
<1>2. /\ t.payload = Sim("fault", 0)
      /\ batch' = batch \ {t}
      /\ totals' = [totals EXCEPT !.faults = @ + 1]
  BY DEF HandleFault, Handled
<1>3. totals'.faults = totals.faults + 1
  BY <1>2 DEF IInv, DstTypeOK
<1> DEFINE u == [at |-> now + Lasts[kind], prio |-> FAULT_PRIORITY, id |-> nextId,
                 payload |-> Sim("revert", totals.faults)]
           v == [at |-> now + delay, prio |-> FAULT_PRIORITY, id |-> nextId + 1, payload |-> Sim("fault", 0)]
           e == [what |-> "injected", at |-> now, fault |-> totals.faults, kind |-> kind, pod |-> p]
<1>4. /\ e \in Event /\ e.what = "injected" /\ e.at = now /\ e.fault = totals.faults
      /\ e.kind \in Kinds /\ u.at = now + Lasts[e.kind]
  BY DEF Event, IInv, DstTypeOK
<1>5. NewTimers(<<After(Lasts[kind], FAULT_PRIORITY, Sim("revert", totals.faults)),
                  After(delay, FAULT_PRIORITY, Sim("fault", 0))>>) = {u, v}
  <2>1. nextId + 1 - 1 = nextId /\ nextId + 2 - 1 = nextId + 1
    BY DEF IInv, DstTypeOK
  <2> DEFINE r1 == After(Lasts[kind], FAULT_PRIORITY, Sim("revert", totals.faults))
             r2 == After(delay, FAULT_PRIORITY, Sim("fault", 0))
             w(i, r) == [at |-> r.at, prio |-> r.prio, id |-> nextId + i - 1, payload |-> r.payload]
  <2>2. w(1, r1) = u /\ w(2, r2) = v
    BY <2>1 DEF After, Request
  <2> HIDE DEF r1, r2, u, v
  <2>3. NewTimers(<<r1, r2>>) = {w(1, r1), w(2, r2)}
    BY DEF NewTimers
  <2> QED
    BY <2>2, <2>3 DEF r1, r2
<1>6. /\ u.payload.ev = "revert" /\ u.payload.of = totals.faults
      /\ v.payload.ev = "fault" /\ t.payload.ev = "fault"
  BY <1>2 DEF Sim
<1>7. events' = Append(events, e)
  BY <1>1
<1> HIDE DEF u, v, e
<1>8. Pend' = (Pend \ {t}) \cup {u, v}
  <2>1. timers' = timers \cup {u, v}
    BY <1>1, <1>5 DEF Schedule
  <2>2. t \notin timers
    BY DEF IInv, DstTypeOK, TimeInv, Timer
  <2> QED
    BY <1>2, <2>1, <2>2 DEF Pend
<1> QED
  BY <1>3, <1>4, <1>6, <1>7, <1>8

LEMMA RevertDoes ==
  ASSUME IInv, NEW t \in batch, HandleRevert(t)
  PROVE  \E e \in Event :
           /\ t.payload.ev = "revert"
           /\ Pend' = Pend \ {t}
           /\ events' = Append(events, e) /\ e.what = "reverted" /\ e.at = now /\ e.fault = t.payload.of
           /\ totals'.faults = totals.faults
<1> DEFINE e == [what |-> "reverted", at |-> now, fault |-> t.payload.of]
<1>1. t.payload.of \in Nat /\ now \in Nat
  BY DEF IInv, DstTypeOK, Timer, SimEvent
<1>2. e \in Event /\ e.what = "reverted" /\ e.at = now /\ e.fault = t.payload.of
  BY <1>1 DEF Event
<1>3. t.payload.ev = "revert" /\ events' = Append(events, e) /\ totals' = totals
      /\ batch' = batch \ {t} /\ timers' = timers
  BY DEF HandleRevert, Handled, clockVars
<1>4. Pend' = Pend \ {t}
  BY <1>3 DEF Pend, IInv, DstTypeOK, TimeInv, Timer
<1> QED
  BY <1>2, <1>3, <1>4

LEMMA EndDoes ==
  ASSUME IInv, NEW t \in batch, HandleEnd(t)
  PROVE  \E e \in Event :
           /\ t.payload.ev = "end"
           /\ Pend' = Pend \ {t}
           /\ events' = Append(events, e) /\ e.what = "ended"
           /\ totals'.faults = totals.faults
<1> DEFINE e == [what |-> "ended", at |-> Duration]
<1>1. e \in Event /\ e.what = "ended"
  BY DEF Event
<1>2. t.payload.ev = "end" /\ events' = Append(events, e) /\ totals' = totals
      /\ batch' = batch \ {t} /\ timers' = timers
  BY DEF HandleEnd, Handled, clockVars, Sim
<1>3. Pend' = Pend \ {t}
  BY <1>2 DEF Pend, IInv, DstTypeOK, TimeInv, Timer
<1> QED
  BY <1>1, <1>2, <1>3
\* The end comes before whatever else is due with it.
LEMMA BeforeEnd ==
  ASSUME IInv, EndInv, NEW t \in batch, HandleAny(t), t.payload.ev # "end"
  PROVE  now < Duration
<1>1. ~done /\ IsFirst(t, batch)
  BY HandlerKeeps DEF Handled
<1>2. PICK u \in Pend : u.payload.ev = "end"
  BY <1>1 DEF EndInv
<1>3. u.at = Duration /\ u.prio = 0
  BY <1>2 DEF Pend, IInv, PrioInv, GoodTimer
<1>4. t.prio \in {5, 10} /\ t.at = now /\ now \in Nat
  BY DEF IInv, PrioInv, GoodTimer, DstTypeOK, TimeInv, Timer, SimEvent
<1>5. CASE u \in batch
  <2>1. u.at = now
    BY <1>5 DEF IInv, TimeInv
  <2>2. Before(t, u)
    BY <1>1, <1>2, <1>5 DEF IsFirst
  <2> QED
    BY <1>3, <1>4, <2>1, <2>2 DEF Before
<1>6. CASE u \in timers
  BY <1>3, <1>6 DEF IInv, TimeInv
<1> QED
  BY <1>5, <1>6 DEF Pend

LEMMA TickPends == ASSUME IInv, NextBatch PROVE Pend' = Pend /\ UNCHANGED <<events, totals, done>>
  BY TickFacts DEF Pend

LEMMA EndStep == IInv /\ IInv' /\ EndInv /\ [Next]_vars => EndInv'
<1> SUFFICES ASSUME IInv, IInv', EndInv, [Next]_vars PROVE EndInv'
  OBVIOUS
<1>1. CASE NextBatch
  BY <1>1, TickPends DEF EndInv
<1>2. ASSUME NEW t \in batch, HandleAny(t) PROVE EndInv'
  <2>1. /\ ~done /\ (done' <=> t.payload = Sim("end", 0))
        /\ batch' = batch \ {t} /\ now' = now /\ timers \subseteq timers'
    BY <1>2, HandlerKeeps, HandlerClock DEF Handled, IInv
  <2>2. CASE done'
    <3>1. t.at = Duration /\ t.at = now /\ now \in Nat
      BY <2>1, <2>2 DEF Sim, IInv, PrioInv, GoodTimer, TimeInv, DstTypeOK
    <3>2. \A u \in Pend' : now' <= u.at
      BY DEF Pend, IInv, TimeInv, DstTypeOK
    <3> QED
      BY <2>1, <2>2, <3>1, <3>2 DEF EndInv
  <2>3. CASE ~done'
    <3>1. t.payload.ev # "end"
      <4>1. CASE HandleProbe(t)
        BY <4>1 DEF HandleProbe, Sim
      <4>2. CASE HandleFault(t)
        BY <4>2 DEF HandleFault, Sim
      <4>3. CASE HandleRevert(t)
        BY <4>3 DEF HandleRevert
      <4>4. CASE HandleEnd(t)
        BY <2>3, <4>4 DEF HandleEnd
      <4> QED
        BY <1>2, <4>1, <4>2, <4>3, <4>4 DEF HandleAny
    <3>2. PICK u \in Pend : u.payload.ev = "end"
      BY <2>1 DEF EndInv
    <3>3. u \in Pend'
      BY <2>1, <3>1, <3>2 DEF Pend
    <3> QED
      BY <2>3, <3>2, <3>3 DEF EndInv
  <2> QED
    BY <2>2, <2>3
<1>3. CASE UNCHANGED vars
  BY <1>3 DEF vars, clockVars, dstVars, EndInv, Pend
<1> QED
  BY <1>1, <1>2, <1>3 DEF Next, HandleAny

\* A step that neither reverts the fault of x nor touches its timer leaves its
\* window alone.
LEMMA WindowKept ==
  ASSUME NEW ev \in Seq(Event), NEW e \in Event, NEW pend, NEW pend2, NEW x,
         Window(ev, pend, x), Undoes(pend2, x.fault) = Undoes(pend, x.fault),
         ~(e.what = "reverted" /\ e.fault = x.fault)
  PROVE  Window(Append(ev, e), pend2, x)
<1> DEFINE new == Append(ev, e)
<1>1. Reverts(new, x.fault) = Reverts(ev, x.fault)
  BY RevertsAppend
<1>2. \A k \in Reverts(ev, x.fault) : new[k] = ev[k]
  BY DEF Reverts
<1> HIDE DEF new
<1>3. Window(new, pend2, x)
  BY <1>1, <1>2 DEF Window
<1> QED
  BY <1>3 DEF new

\* An event that is appended, and the list before it.
LEMMA Appended ==
  ASSUME NEW ev \in Seq(Event), NEW e \in Event
  PROVE  /\ DOMAIN Append(ev, e) = DOMAIN ev \cup {Len(ev) + 1}
         /\ Len(ev) + 1 \notin DOMAIN ev
         /\ \A i \in DOMAIN ev : Append(ev, e)[i] = ev[i]
         /\ Append(ev, e)[Len(ev) + 1] = e
  OBVIOUS

LEMMA WindowStep == IInv /\ EndInv /\ WindowInv /\ [Next]_vars => WindowInv'
<1> SUFFICES ASSUME IInv, EndInv, WindowInv, [Next]_vars PROVE WindowInv'
  OBVIOUS
<1>1. events \in Seq(Event) /\ totals.faults \in Nat /\ now \in Nat
  BY DEF IInv, DstTypeOK
<1>2. CASE Pend' = Pend /\ UNCHANGED <<events, totals>>
  BY <1>2 DEF WindowInv
\* What neither injects nor reverts.
<1>3. ASSUME NEW e \in Event, events' = Append(events, e), e.what # "injected", e.what # "reverted",
             totals'.faults = totals.faults,
             NEW t, NEW u, Pend' = (Pend \ {t}) \cup {u} \/ Pend' = Pend \ {t},
             t.payload.ev # "revert", u.payload.ev # "revert"
      PROVE  WindowInv'
  <2>1. \A f : Undoes(Pend', f) = Undoes(Pend, f)
    BY <1>3 DEF Undoes
  <2>2. \A w \in Pend' : w.payload.ev = "revert" => w \in Pend
    BY <1>3
  <2>3. ASSUME NEW i \in DOMAIN events', events'[i].what = "injected"
        PROVE  Window(events', Pend', events'[i])
    <3>1. i \in DOMAIN events /\ events'[i] = events[i]
      BY <1>1, <1>3, <2>3, Appended
    <3>2. Window(events, Pend, events[i])
      BY <2>3, <3>1 DEF WindowInv
    <3>3. Window(Append(events, e), Pend', events[i])
      BY <1>1, <1>3, <2>1, <3>2, WindowKept
    <3> QED
      BY <1>3, <3>1, <3>3
  <2>4. \A k \in DOMAIN events' :
          events'[k].what = "injected" \/ events'[k].what = "reverted" => events'[k].fault < totals'.faults
    BY <1>1, <1>3, Appended DEF WindowInv
  <2>5. \A w \in Pend' : w.payload.ev = "revert" => w.payload.of < totals'.faults
    BY <1>3, <2>2 DEF WindowInv
  <2> QED
    BY <2>3, <2>4, <2>5 DEF WindowInv
<1>4. ASSUME NEW t \in batch, HandleProbe(t) PROVE WindowInv'
  BY <1>3, <1>4, ProbeDoes
<1>5. ASSUME NEW t \in batch, HandleEnd(t) PROVE WindowInv'
  <2>1. PICK e \in Event :
          /\ t.payload.ev = "end" /\ Pend' = Pend \ {t}
          /\ events' = Append(events, e) /\ e.what = "ended" /\ totals'.faults = totals.faults
    BY <1>5, EndDoes
  <2> QED
    BY <1>3, <2>1
<1>6. ASSUME NEW t \in batch, HandleFault(t) PROVE WindowInv'
  <2>1. PICK e \in Event : \E u, v :
          /\ t.payload.ev = "fault"
          /\ u.payload.ev = "revert" /\ u.payload.of = totals.faults
          /\ v.payload.ev = "fault"
          /\ Pend' = (Pend \ {t}) \cup {u, v}
          /\ events' = Append(events, e) /\ e.what = "injected" /\ e.at = now
          /\ e.fault = totals.faults /\ e.kind \in Kinds /\ u.at = now + Lasts[e.kind]
          /\ totals'.faults = totals.faults + 1
    BY <1>6, FaultDoes
  <2>2. PICK u, v :
          /\ t.payload.ev = "fault"
          /\ u.payload.ev = "revert" /\ u.payload.of = totals.faults
          /\ v.payload.ev = "fault"
          /\ Pend' = (Pend \ {t}) \cup {u, v}
          /\ u.at = now + Lasts[e.kind]
    BY <2>1
  <2>3. \A w \in Pend : w.payload.ev = "revert" => w.payload.of < totals.faults /\ w.payload.of \in Nat
    BY DEF WindowInv, Pend, IInv, DstTypeOK, Timer, SimEvent
  <2>4. \A f : f # totals.faults => Undoes(Pend', f) = Undoes(Pend, f)
    BY <2>2 DEF Undoes
  <2>5. Undoes(Pend', totals.faults) = {u}
    BY <1>1, <2>2, <2>3 DEF Undoes
  <2>6. ASSUME NEW k \in DOMAIN events, events[k].what = "injected" \/ events[k].what = "reverted"
        PROVE  events[k].fault \in Nat /\ events[k].fault < totals.faults
    <3>1. events[k] \in Event
      BY <1>1
    <3> QED
      BY <2>6, <3>1 DEF Event, WindowInv
  <2>7. Reverts(events', totals.faults) = {}
    <3>1. Reverts(events, totals.faults) = {}
      BY <1>1, <2>6 DEF Reverts
    <3> QED
      BY <1>1, <2>1, <3>1, RevertsAppend
  <2>8. ASSUME NEW i \in DOMAIN events', events'[i].what = "injected"
        PROVE  Window(events', Pend', events'[i])
    <3>1. CASE i \in DOMAIN events
      <4>1. events'[i] = events[i]
        BY <1>1, <2>1, <3>1, Appended
      <4>2. Window(events, Pend, events[i]) /\ events[i].fault # totals.faults
        BY <1>1, <2>6, <2>8, <3>1, <4>1 DEF WindowInv
      <4>3. Window(Append(events, e), Pend', events[i])
        BY <1>1, <2>1, <2>4, <4>2, WindowKept
      <4> QED
        BY <2>1, <4>1, <4>3
    <3>2. CASE i = Len(events) + 1
      <4>1. events'[i] = e
        BY <1>1, <2>1, <3>2, Appended
      <4> QED
        BY <2>1, <2>2, <2>5, <2>7, <4>1 DEF Window
    <3> QED
      BY <1>1, <2>1, <3>1, <3>2, Appended
  <2>9. \A k \in DOMAIN events' :
          events'[k].what = "injected" \/ events'[k].what = "reverted" => events'[k].fault < totals'.faults
    <3>1. \A k \in DOMAIN events : events'[k] = events[k]
      BY <1>1, <2>1, Appended
    <3>2. events'[Len(events) + 1] = e /\ DOMAIN events' = DOMAIN events \cup {Len(events) + 1}
      BY <1>1, <2>1, Appended
    <3> QED
      BY <1>1, <2>1, <2>6, <3>1, <3>2
  <2>10. \A w \in Pend' : w.payload.ev = "revert" => w.payload.of < totals'.faults
    BY <1>1, <2>1, <2>2, <2>3
  <2> QED
    BY <2>8, <2>9, <2>10 DEF WindowInv
<1>7. ASSUME NEW t \in batch, HandleRevert(t) PROVE WindowInv'
  <2>1. PICK e \in Event :
          /\ t.payload.ev = "revert"
          /\ Pend' = Pend \ {t}
          /\ events' = Append(events, e) /\ e.what = "reverted" /\ e.at = now /\ e.fault = t.payload.of
          /\ totals'.faults = totals.faults
    BY <1>7, RevertDoes
  <2>2. t \in Pend /\ t.at = now /\ now < Duration
    BY <1>7, <2>1, BeforeEnd DEF Pend, IInv, TimeInv, HandleAny
  <2>3. t \in Undoes(Pend, e.fault)
    BY <2>1, <2>2 DEF Undoes
  <2>4. \A f : f # e.fault => Undoes(Pend', f) = Undoes(Pend, f)
    BY <2>1 DEF Undoes
  <2>5. ASSUME NEW i \in DOMAIN events', events'[i].what = "injected"
        PROVE  Window(events', Pend', events'[i])
    <3>1. i \in DOMAIN events /\ events'[i] = events[i]
      BY <1>1, <2>1, <2>5, Appended
    <3>2. Window(events, Pend, events[i])
      BY <2>5, <3>1 DEF WindowInv
    <3>3. CASE events[i].fault # e.fault
      <4>1. Window(Append(events, e), Pend', events[i])
        BY <1>1, <2>1, <2>4, <3>2, <3>3, WindowKept
      <4> QED
        BY <2>1, <3>1, <4>1
    <3>4. CASE events[i].fault = e.fault
      <4>1. /\ Reverts(events, e.fault) = {}
            /\ \E u : Undoes(Pend, e.fault) = {u} /\ u.at = events[i].at + Lasts[events[i].kind]
        BY <2>3, <3>2, <3>4 DEF Window
      <4>2. Undoes(Pend, e.fault) = {t} /\ now = events[i].at + Lasts[events[i].kind]
        BY <2>2, <2>3, <4>1
      <4>3. Undoes(Pend', e.fault) = {}
        BY <2>1, <4>2 DEF Undoes
      <4>4. Reverts(events', e.fault) = {Len(events) + 1} /\ events'[Len(events) + 1] = e
        <5>1. Reverts(Append(events, e), e.fault) = Reverts(events, e.fault) \cup {Len(events) + 1}
          BY <1>1, <2>1, RevertsAppend
        <5>2. Append(events, e)[Len(events) + 1] = e
          BY <1>1, Appended
        <5> QED
          BY <2>1, <4>1, <5>1, <5>2
      <4> QED
        BY <2>1, <2>2, <3>1, <3>4, <4>2, <4>3, <4>4 DEF Window
    <3> QED
      BY <3>3, <3>4
  <2>6. e.fault < totals.faults
    BY <2>1, <2>2 DEF WindowInv
  <2>7. \A k \in DOMAIN events' :
          events'[k].what = "injected" \/ events'[k].what = "reverted" => events'[k].fault < totals'.faults
    BY <1>1, <2>1, <2>6, Appended DEF WindowInv
  <2>8. \A w \in Pend' : w.payload.ev = "revert" => w.payload.of < totals'.faults
    BY <2>1 DEF WindowInv
  <2> QED
    BY <2>5, <2>7, <2>8 DEF WindowInv
<1>8. CASE NextBatch
  BY <1>2, <1>8, TickPends
<1>9. CASE UNCHANGED vars
  BY <1>2, <1>9 DEF vars, clockVars, dstVars, Pend
<1> QED
  BY <1>4, <1>5, <1>6, <1>7, <1>8, <1>9 DEF Next
\* What does not probe pod p leaves its cadence alone.
LEMMA CadenceKept ==
  ASSUME NEW ev \in Seq(Event), NEW e \in Event, NEW pend, NEW pend2, NEW p,
         Cadence(ev, pend, p), Probes(pend2, p) = Probes(pend, p), ~(e.what = "probe" /\ e.pod = p)
  PROVE  Cadence(Append(ev, e), pend2, p)
<1> DEFINE new == Append(ev, e)
<1>1. \A s : Probed(new, p, s) = Probed(ev, p, s)
  BY ProbedAppend
<1> HIDE DEF new
<1>2. Cadence(new, pend2, p)
  BY <1>1 DEF Cadence
<1> QED
  BY <1>2 DEF new

LEMMA FirstProbeIsNat == \A p \in Pods : FirstProbe(p) \in Nat
<1> SUFFICES ASSUME NEW p \in Pods PROVE FirstProbe(p) \in Nat
  OBVIOUS
<1>1. p - 1 \in Nat
  BY DEF Pods
<1>2. Stagger * (p - 1) \in Nat
  BY <1>1
<1> QED
  BY <1>2 DEF FirstProbe

\* Probing pod p on its beat and setting its timer for the next beat keeps it.
LEMMA CadenceGoesOn ==
  ASSUME NEW ev \in Seq(Event), NEW e \in Event, NEW pend, NEW pend2, NEW p \in Pods, NEW t, NEW u,
         Cadence(ev, pend, p), Probes(pend, p) = {t}, Probes(pend2, p) = {u},
         e.what = "probe", e.pod = p, e.at = t.at, t.at \in Nat, u.at = t.at + ProbeEvery
  PROVE  Cadence(Append(ev, e), pend2, p)
<1> DEFINE new == Append(ev, e)
           first == FirstProbe(p)
<1>1. first \in Nat
  BY FirstProbeIsNat
<1>2. /\ OnBeat(p, t.at)
      /\ \A s \in Nat : IF OnBeat(p, s) /\ s < t.at
                        THEN \E i : Probed(ev, p, s) = {i}
                        ELSE Probed(ev, p, s) = {}
  <2>1. PICK w : /\ Probes(pend, p) = {w}
                 /\ OnBeat(p, w.at)
                 /\ \A s \in Nat : IF OnBeat(p, s) /\ s < w.at
                                   THEN \E i : Probed(ev, p, s) = {i}
                                   ELSE Probed(ev, p, s) = {}
    BY DEF Cadence
  <2>2. w = t
    BY <2>1
  <2> QED
    BY <2>1, <2>2
<1>3. first <= t.at /\ t.at - first \in Nat /\ (t.at - first) % ProbeEvery = 0
  BY <1>1, <1>2 DEF OnBeat
<1>4. /\ ((t.at - first) + ProbeEvery) % ProbeEvery = 0
      /\ \A b \in Nat : t.at - first < b /\ b < (t.at - first) + ProbeEvery => b % ProbeEvery # 0
  <2>1. PICK a \in Nat : a = t.at - first /\ a % ProbeEvery = 0
    BY <1>3
  <2> QED
    BY <2>1, NextMultiple
<1>5. OnBeat(p, u.at)
  <2>1. u.at - first = (t.at - first) + ProbeEvery /\ first <= u.at
    BY <1>1, <1>3
  <2> QED
    BY <1>4, <2>1 DEF OnBeat
<1>6. ASSUME NEW s \in Nat
      PROVE  IF OnBeat(p, s) /\ s < u.at THEN \E i : Probed(new, p, s) = {i} ELSE Probed(new, p, s) = {}
  <2>1. CASE s = t.at
    <3>1. Probed(ev, p, s) = {}
      BY <1>2, <2>1
    <3>2. Probed(new, p, s) = {Len(ev) + 1}
      <4>1. Probed(new, p, s) = Probed(ev, p, s) \cup {Len(ev) + 1}
        <5>1. e.what = "probe" /\ e.pod = p /\ e.at = s
          BY <2>1
        <5> QED
          BY <5>1, ProbedAppend
      <4> QED
        BY <3>1, <4>1
    <3>3. OnBeat(p, s) /\ s < u.at
      BY <1>2, <2>1
    <3> QED
      BY <3>2, <3>3
  <2>2. CASE s # t.at
    <3>1. Probed(new, p, s) = Probed(ev, p, s)
      BY <2>2, ProbedAppend
    <3>2. OnBeat(p, s) /\ s < u.at <=> OnBeat(p, s) /\ s < t.at
      <4>1. ASSUME OnBeat(p, s), s < u.at, ~(s < t.at) PROVE FALSE
        <5>1. s - first \in Nat /\ t.at - first < s - first /\ s - first < (t.at - first) + ProbeEvery
          BY <1>1, <1>3, <2>2, <4>1
        <5>2. (s - first) % ProbeEvery # 0
          BY <1>4, <5>1
        <5> QED
          BY <4>1, <5>2 DEF OnBeat
      <4>2. s < t.at => s < u.at
        OBVIOUS
      <4> QED
        BY <4>1, <4>2
    <3> QED
      BY <1>2, <3>1, <3>2
  <2> QED
    BY <2>1, <2>2
<1> HIDE DEF new, first
<1>7. Cadence(new, pend2, p)
  BY <1>5, <1>6 DEF Cadence
<1> QED
  BY <1>7 DEF new

LEMMA CadenceStep == IInv /\ EndInv /\ CadenceInv /\ [Next]_vars => CadenceInv'
<1> SUFFICES ASSUME IInv, EndInv, CadenceInv, [Next]_vars PROVE CadenceInv'
  OBVIOUS
<1>1. events \in Seq(Event) /\ now \in Nat
  BY DEF IInv, DstTypeOK
<1>2. CASE Pend' = Pend /\ UNCHANGED events
  BY <1>2 DEF CadenceInv
\* What probes no pod.
<1>3. ASSUME NEW e \in Event, events' = Append(events, e), e.what # "probe",
             \A p : Probes(Pend', p) = Probes(Pend, p)
      PROVE  CadenceInv'
  <2>1. \A i \in DOMAIN events' : events'[i].what = "probe" => events'[i].at < Duration
    BY <1>1, <1>3, Appended DEF CadenceInv
  <2>2. ASSUME NEW p \in Pods PROVE Cadence(events', Pend', p)
    <3>1. Cadence(events, Pend, p)
      BY DEF CadenceInv
    <3>2. Cadence(Append(events, e), Pend', p)
      BY <1>1, <1>3, <3>1, CadenceKept
    <3> QED
      BY <1>3, <3>2
  <2> QED
    BY <2>1, <2>2 DEF CadenceInv
<1>4. ASSUME NEW t \in batch, HandleProbe(t) PROVE CadenceInv'
  <2>1. PICK p \in Pods, e \in Event : \E u :
          /\ t.payload.ev = "probe" /\ t.payload.of = p
          /\ u.payload = t.payload /\ u.at = now + ProbeEvery
          /\ Pend' = (Pend \ {t}) \cup {u}
          /\ events' = Append(events, e) /\ e.what = "probe" /\ e.at = now /\ e.pod = p
    BY <1>4, ProbeDoes
  <2>2. PICK u : /\ u.payload = t.payload /\ u.at = now + ProbeEvery
                 /\ Pend' = (Pend \ {t}) \cup {u}
    BY <2>1
  <2>3. t \in Pend /\ t.at = now /\ now < Duration
    BY <1>4, <2>1, BeforeEnd DEF Pend, IInv, TimeInv, HandleAny
  <2>4. \A i \in DOMAIN events' : events'[i].what = "probe" => events'[i].at < Duration
    BY <1>1, <2>1, <2>3, Appended DEF CadenceInv
  <2>5. \A q : q # p => Probes(Pend', q) = Probes(Pend, q)
    BY <2>1, <2>2 DEF Probes
  <2>6. Cadence(events, Pend, p)
    BY DEF CadenceInv
  <2>7. Probes(Pend, p) = {t}
    <3>1. t \in Probes(Pend, p)
      BY <2>1, <2>3 DEF Probes
    <3>2. \E w : Probes(Pend, p) = {w}
      BY <2>6 DEF Cadence
    <3> QED
      BY <3>1, <3>2
  <2>8. Probes(Pend', p) = {u}
    BY <2>1, <2>2, <2>7 DEF Probes
  <2>9. Cadence(Append(events, e), Pend', p)
    BY <1>1, <2>1, <2>2, <2>3, <2>6, <2>7, <2>8, CadenceGoesOn
  <2>10. ASSUME NEW q \in Pods PROVE Cadence(events', Pend', q)
    <3>1. CASE q = p
      BY <2>1, <2>9, <3>1
    <3>2. CASE q # p
      <4>1. Cadence(events, Pend, q)
        BY DEF CadenceInv
      <4>2. Cadence(Append(events, e), Pend', q)
        BY <1>1, <2>1, <2>5, <3>2, <4>1, CadenceKept
      <4> QED
        BY <2>1, <4>2
    <3> QED
      BY <3>1, <3>2
  <2> QED
    BY <2>4, <2>10 DEF CadenceInv
<1>5. ASSUME NEW t \in batch, HandleFault(t) PROVE CadenceInv'
  <2>1. PICK e \in Event : \E u, v :
          /\ t.payload.ev = "fault"
          /\ u.payload.ev = "revert" /\ u.payload.of = totals.faults
          /\ v.payload.ev = "fault"
          /\ Pend' = (Pend \ {t}) \cup {u, v}
          /\ events' = Append(events, e) /\ e.what = "injected" /\ e.at = now
          /\ e.fault = totals.faults /\ e.kind \in Kinds /\ u.at = now + Lasts[e.kind]
          /\ totals'.faults = totals.faults + 1
    BY <1>5, FaultDoes
  <2>2. \A p : Probes(Pend', p) = Probes(Pend, p)
    BY <2>1 DEF Probes
  <2> QED
    BY <1>3, <2>1, <2>2
<1>6. ASSUME NEW t \in batch, HandleRevert(t) PROVE CadenceInv'
  <2>1. PICK e \in Event :
          /\ t.payload.ev = "revert" /\ Pend' = Pend \ {t}
          /\ events' = Append(events, e) /\ e.what = "reverted"
    BY <1>6, RevertDoes
  <2>2. \A p : Probes(Pend', p) = Probes(Pend, p)
    BY <2>1 DEF Probes
  <2> QED
    BY <1>3, <2>1, <2>2
<1>7. ASSUME NEW t \in batch, HandleEnd(t) PROVE CadenceInv'
  <2>1. PICK e \in Event :
          /\ t.payload.ev = "end" /\ Pend' = Pend \ {t}
          /\ events' = Append(events, e) /\ e.what = "ended"
    BY <1>7, EndDoes
  <2>2. \A p : Probes(Pend', p) = Probes(Pend, p)
    BY <2>1 DEF Probes
  <2> QED
    BY <1>3, <2>1, <2>2
<1>8. CASE NextBatch
  BY <1>2, <1>8, TickPends
<1>9. CASE UNCHANGED vars
  BY <1>2, <1>9 DEF vars, clockVars, dstVars, Pend
<1> QED
  BY <1>4, <1>5, <1>6, <1>7, <1>8, <1>9 DEF Next

\* The agenda of the start: each pod's first probe in the place of its number,
\* then the first fault if there is to be one, and the end.
LEMMA AgendaParts ==
  /\ DOMAIN Agenda \subseteq Nat /\ Pods \subseteq DOMAIN Agenda
  /\ \A p \in Pods : Agenda[p] = Request(FirstProbe(p), PROBE_PRIORITY, Sim("probe", p))
  /\ \A i \in DOMAIN Agenda : i \notin Pods => Agenda[i].payload.ev \in {"fault", "end"}
  /\ \E i \in DOMAIN Agenda : Agenda[i].payload.ev = "end"
<1> DEFINE front == FirstProbes \o FirstFault
           n == Len(FirstFault)
<1>1. /\ FirstProbes \in Seq(GoodRequests) /\ FirstFault \in Seq(GoodRequests)
      /\ TheEnd \in Seq(GoodRequests)
  BY AgendaGood
<1>2. /\ Len(FirstProbes) = PodCount
      /\ \A p \in Pods : FirstProbes[p] = Request(FirstProbe(p), PROBE_PRIORITY, Sim("probe", p))
  <2>1. DOMAIN FirstProbes = 1..PodCount
    BY DEF FirstProbes, Pods
  <2>2. Len(FirstProbes) = PodCount
    BY <1>1, <2>1
  <2> QED
    BY <2>2 DEF FirstProbes, FirstProbe
<1>3. n \in Nat /\ \A i \in 1..n : FirstFault[i].payload.ev = "fault"
  <2>1. CASE Enabled = {}
    <3>1. FirstFault = <<>>
      BY <2>1 DEF FirstFault
    <3> QED
      BY <3>1
  <2>2. CASE Enabled # {}
    <3>1. FirstFault = <<Request(Warmup, FAULT_PRIORITY, Sim("fault", 0))>>
      BY <2>2 DEF FirstFault
    <3> QED
      BY <3>1 DEF Request, Sim
  <2> QED
    BY <2>1, <2>2
<1>4. Len(TheEnd) = 1 /\ TheEnd[1].payload.ev = "end"
  BY DEF TheEnd, Request, Sim
<1> HIDE DEF n
<1>5. /\ front \in Seq(GoodRequests) /\ Len(front) = PodCount + n
      /\ \A i \in 1..(PodCount + n) :
           front[i] = IF i <= PodCount THEN FirstProbes[i] ELSE FirstFault[i - PodCount]
  BY <1>1, <1>2, ConcatProperties DEF n
<1> HIDE DEF front
<1>6. /\ Len(Agenda) = PodCount + n + 1 /\ DOMAIN Agenda = 1..(PodCount + n + 1)
      /\ \A i \in 1..(PodCount + n + 1) :
           Agenda[i] = IF i <= PodCount + n THEN front[i] ELSE TheEnd[i - (PodCount + n)]
  <2>1. Agenda = front \o TheEnd
    BY DEF Agenda, front
  <2>2. Agenda \in Seq(GoodRequests)
    BY AgendaGood
  <2>3. /\ Len(Agenda) = PodCount + n + 1
        /\ \A i \in 1..(PodCount + n + 1) :
             Agenda[i] = IF i <= PodCount + n THEN front[i] ELSE TheEnd[i - (PodCount + n)]
    <3>1. /\ Len(front \o TheEnd) = Len(front) + Len(TheEnd)
          /\ \A i \in 1..(Len(front) + Len(TheEnd)) :
               (front \o TheEnd)[i] = IF i <= Len(front) THEN front[i] ELSE TheEnd[i - Len(front)]
      BY <1>1, <1>5, ConcatProperties
    <3> QED
      BY <1>4, <1>5, <2>1, <3>1
  <2> QED
    BY <2>2, <2>3
<1>7. \A p \in Pods : p \in DOMAIN Agenda /\ Agenda[p] = Request(FirstProbe(p), PROBE_PRIORITY, Sim("probe", p))
  <2> SUFFICES ASSUME NEW p \in Pods
               PROVE  p \in DOMAIN Agenda /\ Agenda[p] = Request(FirstProbe(p), PROBE_PRIORITY, Sim("probe", p))
    OBVIOUS
  <2>1. p \in 1..(PodCount + n) /\ p \in 1..(PodCount + n + 1) /\ p <= PodCount
    BY <1>3 DEF Pods
  <2> QED
    BY <1>2, <1>5, <1>6, <2>1
<1>8. ASSUME NEW i \in DOMAIN Agenda, i \notin Pods PROVE Agenda[i].payload.ev \in {"fault", "end"}
  <2>1. CASE i <= PodCount + n
    <3>1. i \in 1..(PodCount + n) /\ ~(i <= PodCount) /\ i - PodCount \in 1..n
      BY <1>3, <1>6, <1>8, <2>1 DEF Pods
    <3>2. Agenda[i] = FirstFault[i - PodCount]
      BY <1>3, <1>5, <1>6, <2>1, <3>1
    <3> QED
      BY <1>3, <3>1, <3>2
  <2>2. CASE ~(i <= PodCount + n)
    <3>1. i - (PodCount + n) = 1
      BY <1>3, <1>6, <2>2
    <3>2. Agenda[i] = TheEnd[1]
      BY <1>6, <2>2, <3>1
    <3> QED
      BY <1>4, <3>2
  <2> QED
    BY <2>1, <2>2
<1>9. \E i \in DOMAIN Agenda : Agenda[i].payload.ev = "end"
  <2> DEFINE i == PodCount + n + 1
  <2>1. i \in 1..(PodCount + n + 1) /\ ~(i <= PodCount + n) /\ i - (PodCount + n) = 1
    BY <1>3
  <2>2. i \in DOMAIN Agenda /\ Agenda[i] = TheEnd[1]
    BY <1>6, <2>1
  <2> QED
    BY <1>4, <2>2
<1> QED
  BY <1>6, <1>7, <1>8, <1>9

LEMMA ScheduleInit == Init => EndInv /\ WindowInv /\ CadenceInv
<1> SUFFICES ASSUME Init PROVE EndInv /\ WindowInv /\ CadenceInv
  OBVIOUS
<1> DEFINE first(i) == [at |-> Agenda[i].at, prio |-> Agenda[i].prio, id |-> i - 1,
                        payload |-> Agenda[i].payload]
<1>1. /\ Pend = {first(i) : i \in DOMAIN Agenda}
      /\ DOMAIN events = {1} /\ events[1].what = "started"
      /\ done = FALSE
  BY DEF Init, Pend
<1>2. \A i \in DOMAIN Agenda : first(i).payload = Agenda[i].payload /\ first(i).at = Agenda[i].at
  OBVIOUS
<1> HIDE DEF first
<1>3. EndInv
  <2>1. PICK i \in DOMAIN Agenda : Agenda[i].payload.ev = "end"
    BY AgendaParts
  <2> QED
    BY <1>1, <1>2, <2>1 DEF EndInv
<1>4. \A i \in DOMAIN Agenda : i \in Pods => Agenda[i].payload.ev = "probe" /\ Agenda[i].payload.of = i
  <2> SUFFICES ASSUME NEW i \in Pods
               PROVE  Agenda[i].payload.ev = "probe" /\ Agenda[i].payload.of = i
    OBVIOUS
  <2>1. Agenda[i] = Request(FirstProbe(i), PROBE_PRIORITY, Sim("probe", i))
    BY AgendaParts
  <2> QED
    BY <2>1 DEF Request, Sim
<1>5. WindowInv
  <2>1. \A i \in DOMAIN Agenda : Agenda[i].payload.ev # "revert"
    BY <1>4, AgendaParts
  <2> QED
    BY <1>1, <1>2, <2>1 DEF WindowInv
<1>6. ASSUME NEW p \in Pods PROVE Cadence(events, Pend, p)
  <2>1. p \in DOMAIN Agenda /\ Agenda[p].at = FirstProbe(p)
    <3>1. p \in DOMAIN Agenda /\ Agenda[p] = Request(FirstProbe(p), PROBE_PRIORITY, Sim("probe", p))
      BY AgendaParts
    <3> QED
      BY <3>1 DEF Request
  <2>2. Probes(Pend, p) = {first(p)}
    <3>1. first(p) \in Probes(Pend, p)
      BY <1>1, <1>2, <1>4, <2>1 DEF Probes
    <3>2. ASSUME NEW u \in Probes(Pend, p) PROVE u = first(p)
      <4>1. PICK i \in DOMAIN Agenda : u = first(i)
        BY <1>1 DEF Probes
      <4>2. Agenda[i].payload.ev = "probe" /\ Agenda[i].payload.of = p
        BY <1>2, <3>2, <4>1 DEF Probes
      <4>3. i \in Pods
        BY <4>2, AgendaParts
      <4>4. i = p
        BY <1>4, <4>2, <4>3
      <4> QED
        BY <4>1, <4>4
    <3> QED
      BY <3>1, <3>2
  <2>3. first(p).at = FirstProbe(p) /\ FirstProbe(p) \in Nat
    BY <1>2, <2>1, FirstProbeIsNat
  <2>4. OnBeat(p, first(p).at)
    <3>1. first(p).at - FirstProbe(p) = 0 /\ FirstProbe(p) <= first(p).at
      BY <2>3
    <3>2. 0 % ProbeEvery = 0
      OBVIOUS
    <3> QED
      BY <3>1, <3>2 DEF OnBeat
  <2>5. \A s \in Nat : Probed(events, p, s) = {}
    BY <1>1 DEF Probed
  <2>6. \A s \in Nat : ~(OnBeat(p, s) /\ s < first(p).at)
    BY <2>3 DEF OnBeat
  <2> QED
    BY <2>2, <2>4, <2>5, <2>6 DEF Cadence
<1>7. CadenceInv
  BY <1>1, <1>6 DEF CadenceInv
<1> QED
  BY <1>3, <1>5, <1>7

ScheduleInv == EndInv /\ WindowInv /\ CadenceInv

LEMMA OnScheduleFollows == IInv /\ ScheduleInv => OnSchedule
<1> SUFFICES ASSUME IInv, ScheduleInv PROVE OnSchedule
  OBVIOUS
<1>1. FaultWindows
  <2> SUFFICES ASSUME done, NEW i \in DOMAIN events, events[i].what = "injected"
               PROVE  LET due == events[i].at + Lasts[events[i].kind]
                          reverts == Reverts(events, events[i].fault)
                      IN  IF due < Duration
                          THEN \E k \in reverts : reverts = {k} /\ events[k].at = due
                          ELSE reverts = {}
    BY DEF FaultWindows, Reverts
  <2> DEFINE due == events[i].at + Lasts[events[i].kind]
             reverts == Reverts(events, events[i].fault)
  <2>1. Window(events, Pend, events[i])
    BY DEF ScheduleInv, WindowInv
  <2>2. due \in Nat
    BY DEF IInv, DstTypeOK, Event
  <2>3. CASE reverts = {} /\ \E u : Undoes(Pend, events[i].fault) = {u} /\ u.at = due
    <3>1. PICK u \in Pend : u.at = due
      BY <2>3 DEF Undoes
    <3>2. Duration <= due
      BY <3>1 DEF ScheduleInv, EndInv
    <3> QED
      BY <2>2, <2>3, <3>2
  <2>4. CASE due < Duration /\ \E k : reverts = {k} /\ events[k].at = due
    BY <2>4
  <2> QED
    BY <2>1, <2>3, <2>4 DEF Window
<1>2. ProbeCadence
  <2> SUFFICES ASSUME done, NEW p \in Pods, NEW s \in 0..Duration
               PROVE  LET first == FirstProbe(p)
                      IN  Cardinality(Probed(events, p, s)) =
                            IF s >= first /\ s < Duration /\ (s - first) % ProbeEvery = 0 THEN 1 ELSE 0
    BY DEF ProbeCadence, Probed, FirstProbe
  <2>1. PICK u : /\ Probes(Pend, p) = {u}
                 /\ \A r \in Nat : IF OnBeat(p, r) /\ r < u.at
                                   THEN \E i : Probed(events, p, r) = {i}
                                   ELSE Probed(events, p, r) = {}
    BY DEF ScheduleInv, CadenceInv, Cadence
  <2>2. u \in Pend /\ Duration <= u.at /\ u.at \in Nat
    BY <2>1 DEF Probes, ScheduleInv, EndInv, Pend, IInv, DstTypeOK, Timer
  <2>3. s \in Nat /\ s <= Duration /\ FirstProbe(p) \in Nat
    BY FirstProbeIsNat
  <2>4. CASE s < Duration /\ OnBeat(p, s)
    <3>1. \E i : Probed(events, p, s) = {i}
      <4>1. s < u.at
        BY <2>2, <2>3, <2>4
      <4> QED
        BY <2>1, <2>3, <2>4, <4>1
    <3>2. Cardinality(Probed(events, p, s)) = 1
      BY <3>1, FS_Singleton
    <3> QED
      BY <2>3, <2>4, <3>2 DEF OnBeat
  <2>5. CASE ~(s < Duration /\ OnBeat(p, s))
    <3>1. Probed(events, p, s) = {}
      <4>1. CASE ~OnBeat(p, s)
        BY <2>1, <2>3, <4>1
      <4>2. CASE ~(s < Duration)
        <5>1. \A i \in DOMAIN events : events[i].what = "probe" => events[i].at < Duration
          BY DEF ScheduleInv, CadenceInv
        <5> QED
          BY <2>3, <4>2, <5>1 DEF Probed
      <4> QED
        BY <2>5, <4>1, <4>2
    <3>2. Cardinality(Probed(events, p, s)) = 0
      BY <3>1, FS_EmptySet
    <3> QED
      BY <2>3, <2>5, <3>2 DEF OnBeat
  <2> QED
    BY <2>4, <2>5
<1> QED
  BY <1>1, <1>2 DEF OnSchedule

\* What the engine schedules happens at its time, once, if that is before the
\* end: every pod is probed on each of its beats and at no other time, every
\* fault is reverted when it is due, and what is due later never happens.
\* For any pods, kinds and times.
THEOREM KeepsSchedule == Spec => []OnSchedule
<1>1. Init => ScheduleInv
  BY ScheduleInit DEF ScheduleInv
<1>2. IInv /\ IInv' /\ ScheduleInv /\ [Next]_vars => ScheduleInv'
  BY EndStep, WindowStep, CadenceStep DEF ScheduleInv
<1> QED
  BY <1>1, <1>2, DstInvariance, OnScheduleFollows, PTL DEF Spec
=============================================================================
