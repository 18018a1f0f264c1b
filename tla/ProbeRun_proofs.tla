--------------------------- MODULE ProbeRun_proofs ---------------------------
(***************************************************************************)
(* The types of ProbeRun, that its list is one of TimelineBus, so that its *)
(* verdicts mean what they are to mean, and that its baseline and its      *)
(* chaos phase are apart, for any probes, faults, periods, timeouts and    *)
(* delays, and however often a fault is reverted.                          *)
(***************************************************************************)
EXTENDS ProbeRun, FiniteSetTheorems, TLAPS

USE NamesAssumption, VerdictsAssumption, ProbeRunAssumption

(***************************************************************************)
(* The inductive invariant.                                                *)
(***************************************************************************)
\* Nothing is stamped or begun in the future, and the list is not empty.
Past ==
  /\ \A i \in DOMAIN events : events[i].at <= now
  /\ \A p \in Probes : began[p] <= now
  /\ Len(events) > 0

\* Which task builds which event.
Owned(t, e) ==
  \/ e.kind \in {"success", "failed", "timeout"} /\ e.who \in Probes /\ t = <<"probe", e.who>>
     /\ e.ms \in 0..MaxTime
  \/ e.kind = "reverted" /\ e.who \in Faults /\ KindOf[e.who] # "crash" /\ e.ms = 0
  \/ e.kind = "injected" /\ t = Handler /\ e.who \in Faults /\ e.ms = 0
  \/ e.kind = "ended" /\ t = Handler /\ e.who = "main"

\* An event that is built and not yet appended is young, is its task's, no
\* earlier than what its task has appended, and what it reverts was injected.
PendInv ==
  \A t \in Tasks : pend[t] # NoEvent =>
    /\ pend[t].at <= now /\ now <= pend[t].at + EmitGap
    /\ Owned(t, pend[t])
    /\ \A i \in DOMAIN events : Bus!SameTask(events[i], pend[t]) => events[i].at <= pend[t].at
    /\ pend[t].kind = "reverted" =>
         \E i \in Injections(events) : events[i].who = pend[t].who /\ events[i].at <= pend[t].at

\* What the handler has built; only it ends the list, and but once.
MainInv ==
  /\ pend[Handler] # NoEvent =>
       \/ /\ pc = "inject" /\ pend[Handler].kind = "injected"
          /\ \A i \in DOMAIN events : events[i].who # pend[Handler].who
       \/ pc = "blocked" /\ pend[Handler].kind = "reverted"
       \/ /\ pc = "end" /\ pend[Handler].kind = "ended"
          /\ \E n \in 1..Len(events) : pend[Handler].ms = Cardinality(Failures(SubSeq(events, 1, n)))
  /\ pc \notin {"report", "done", "exited"} => Of(events, {"ended"}) = {}

\* What is on the tracker's list, has a task or a job was injected.
FaultInv ==
  \A f \in Faults : timer[f] # "off" \/ job[f] # "none" \/ f \in listed =>
    KindOf[f] # "crash" /\ \E i \in Injections(events) : events[i].who = f

IInv == RunTypeOK /\ Past /\ PendInv /\ MainInv /\ FaultInv
(***************************************************************************)
(* What the two halves of emit() do.                                       *)
(***************************************************************************)
\* NoEvent is no event, and every event has the fields of one.
LEMMA Records ==
  /\ NoEvent \notin Event
  /\ \A e \in Event : /\ e.at \in Nat /\ e.kind \in EventKind /\ e.who \in Emitters /\ e.ms \in Nat
                      /\ e = [at |-> e.at, kind |-> e.kind, who |-> e.who, ms |-> e.ms]
BY DEF NoEvent, Event, EventKind

\* The tasks are distinct.
LEMMA TaskNames ==
  /\ Handler \in Tasks
  /\ \A p \in Probes : <<"probe", p>> \in Tasks /\ <<"probe", p>> # Handler
  /\ \A f \in Faults : /\ <<"timer", f>> \in Tasks /\ <<"timer", f>> # Handler
                       /\ <<"job", f>> \in Tasks /\ <<"job", f>> # Handler
BY DEF Tasks, Handler

\* Two tasks build no events of which one has to wait for the other.
LEMMA OneTask ==
  ASSUME NEW t, NEW d, NEW e, NEW g, Owned(t, e), Owned(d, g), Bus!SameTask(e, g)
  PROVE  t = d
BY DEF Owned, Bus!SameTask, Bus!Author

\* The clock is read: the event is its task's latest, and of this moment.
LEMMA Stamping ==
  ASSUME IInv, NEW t \in Tasks, NEW kind \in EventKind, NEW who \in Emitters, NEW ms \in Nat,
         Stamp(t, kind, who, ms), now' = now,
         Owned(t, [at |-> now, kind |-> kind, who |-> who, ms |-> ms]),
         kind = "reverted" => \E i \in Injections(events) : events[i].who = who
  PROVE  /\ PendInv'
         /\ pend' \in [Tasks -> Event \cup {NoEvent}]
         /\ pend'[t] = [at |-> now, kind |-> kind, who |-> who, ms |-> ms]
         /\ pend[t] = NoEvent
         /\ \A d \in Tasks \ {t} : pend'[d] = pend[d]
         /\ events' = events
<1> DEFINE new == [at |-> now, kind |-> kind, who |-> who, ms |-> ms]
<1>1. now \in Nat /\ EmitGap \in Nat /\ pend \in [Tasks -> Event \cup {NoEvent}]
  BY DEF IInv, RunTypeOK
<1>2. /\ new \in Event /\ new.at = now /\ new.kind = kind /\ new.who = who /\ new.ms = ms
      /\ Owned(t, new)
  BY <1>1 DEF Event
<1> HIDE DEF new
<1>3. /\ pend[t] = NoEvent /\ events' = events
      /\ pend' = [pend EXCEPT ![t] = new]
  BY DEF Stamp, new
<1>4. /\ pend' \in [Tasks -> Event \cup {NoEvent}]
      /\ pend'[t] = new
      /\ \A d \in Tasks \ {t} : pend'[d] = pend[d]
  BY <1>1, <1>2, <1>3
<1>5. ASSUME NEW d \in Tasks, pend'[d] # NoEvent
      PROVE  /\ pend'[d].at <= now' /\ now' <= pend'[d].at + EmitGap
             /\ Owned(d, pend'[d])
             /\ \A i \in DOMAIN events' : Bus!SameTask(events'[i], pend'[d]) => events'[i].at <= pend'[d].at
             /\ pend'[d].kind = "reverted" =>
                  \E i \in Injections(events') : events'[i].who = pend'[d].who /\ events'[i].at <= pend'[d].at
  <2>1. CASE d = t
    <3>1. Injections(events) \subseteq DOMAIN events /\ Injections(events') = Injections(events)
      BY <1>3 DEF Injections, Of
    <3>2. \A i \in DOMAIN events' : events'[i].at <= now
      BY <1>3 DEF IInv, Past
    <3>3. pend'[d] = new /\ now' = now /\ now <= now + EmitGap
      BY <2>1, <1>1, <1>4
    <3>4. kind = "reverted" =>
            \E i \in Injections(events') : events'[i].who = who /\ events'[i].at <= now
      BY <3>1, <3>2, <1>3
    <3>5. /\ pend'[d].at = now /\ pend'[d].kind = kind /\ pend'[d].who = who
          /\ Owned(d, pend'[d])
      BY <2>1, <3>3, <1>2
    <3>6. now <= now /\ now' <= now + EmitGap
      BY <3>3, <1>1
    <3> QED
      BY <3>2, <3>3, <3>4, <3>5, <3>6
  <2>2. CASE d # t
    <3>1. pend'[d] = pend[d] /\ pend[d] # NoEvent /\ Injections(events') = Injections(events)
      BY <2>2, <1>3, <1>4, <1>5
    <3> QED
      BY <3>1, <1>3 DEF IInv, PendInv
  <2> QED
    BY <2>1, <2>2
<1> QED
  BY <1>3, <1>4, <1>5 DEF PendInv, Bus!SameTask, Bus!Author, Owned, new

\* The lock is got: the list grows by the event as TimelineBus demands.
LEMMA Appending ==
  ASSUME IInv, NEW t \in Tasks, Appends(t), now' = now
  PROVE  /\ pend[t] \in Event /\ pend[t] # NoEvent /\ Owned(t, pend[t])
         /\ pend[t].at \in Bus!Recent /\ Bus!Emit(pend[t])
         /\ events' \in Seq(Event)
         /\ Len(events) \in Nat /\ Len(events') = Len(events) + 1
         /\ DOMAIN events = 1..Len(events) /\ DOMAIN events' = 1..Len(events) + 1
         /\ \A i \in 1..Len(events) : events'[i] = events[i]
         /\ events'[Len(events) + 1] = pend[t]
         /\ \A i \in DOMAIN events' : events'[i].at <= now
         /\ pend' \in [Tasks -> Event \cup {NoEvent}] /\ pend'[t] = NoEvent
         /\ \A d \in Tasks \ {t} : pend'[d] = pend[d]
         /\ PendInv'
<1>1. /\ now \in Nat /\ EmitGap \in Nat /\ pend \in [Tasks -> Event \cup {NoEvent}]
      /\ events \in Seq(Event) /\ pend[t] # NoEvent
      /\ events' = Append(events, pend[t]) /\ pend' = [pend EXCEPT ![t] = NoEvent]
  BY DEF IInv, RunTypeOK, Appends
<1>2. /\ pend[t] \in Event /\ pend[t].at \in Nat
      /\ pend[t].at <= now /\ now <= pend[t].at + EmitGap
      /\ Owned(t, pend[t])
      /\ \A i \in DOMAIN events : Bus!SameTask(events[i], pend[t]) => events[i].at <= pend[t].at
  BY <1>1, Records DEF IInv, PendInv
<1>3. /\ events' \in Seq(Event)
      /\ Len(events) \in Nat /\ Len(events') = Len(events) + 1
      /\ DOMAIN events = 1..Len(events) /\ DOMAIN events' = 1..Len(events) + 1
      /\ \A i \in 1..Len(events) : events'[i] = events[i]
      /\ events'[Len(events) + 1] = pend[t]
  BY <1>1, <1>2
<1>4. ASSUME NEW i \in DOMAIN events' PROVE events'[i].at <= now
  <2>1. i \in 1..Len(events) \/ i = Len(events) + 1
    BY <1>3
  <2> QED
    BY <2>1, <1>2, <1>3 DEF IInv, Past
<1>5. /\ pend' \in [Tasks -> Event \cup {NoEvent}] /\ pend'[t] = NoEvent
      /\ \A d \in Tasks \ {t} : pend'[d] = pend[d]
  BY <1>1
<1>6. pend[t].at \in Bus!Recent
  BY <1>1, <1>2 DEF Bus!Recent
<1>7. Bus!Emit(pend[t])
  BY <1>1, <1>2 DEF Bus!Emit
<1>8. ASSUME NEW d \in Tasks, pend'[d] # NoEvent
      PROVE  /\ pend'[d].at <= now' /\ now' <= pend'[d].at + EmitGap
             /\ Owned(d, pend'[d])
             /\ \A i \in DOMAIN events' : Bus!SameTask(events'[i], pend'[d]) => events'[i].at <= pend'[d].at
             /\ pend'[d].kind = "reverted" =>
                  \E i \in Injections(events') : events'[i].who = pend'[d].who /\ events'[i].at <= pend'[d].at
  <2>1. d # t /\ pend'[d] = pend[d] /\ pend[d] # NoEvent /\ Owned(d, pend[d])
    BY <1>5, <1>8 DEF IInv, PendInv
  <2>2. ASSUME NEW i \in DOMAIN events', Bus!SameTask(events'[i], pend'[d]) PROVE events'[i].at <= pend'[d].at
    <3>1. i \in 1..Len(events)
      BY <2>1, <2>2, <1>2, <1>3, OneTask
    <3>2. events'[i] = events[i] /\ i \in DOMAIN events
      BY <3>1, <1>3
    <3> QED
      BY <3>2, <2>1, <2>2 DEF IInv, PendInv
  <2>3. \A i \in Injections(events) : i \in Injections(events') /\ events'[i] = events[i]
    BY <1>3 DEF Injections, Of
  <2> QED
    BY <2>1, <2>2, <2>3 DEF IInv, PendInv
<1> QED
  BY <1>1, <1>2, <1>3, <1>4, <1>5, <1>6, <1>7, <1>8 DEF PendInv, Bus!SameTask, Bus!Author, Owned
\* Steps that leave the list alone.
LEMMA Unlisted ==
  ASSUME IInv, UNCHANGED <<now, listVars>>
  PROVE  PendInv'
<1>1. events' = events /\ pend' = pend /\ now' = now
  BY DEF listVars
<1> QED
  BY <1>1 DEF IInv, PendInv, Bus!SameTask, Bus!Author, Owned, Injections, Of

\* The total of SimulationEnded is that of the whole list.
LEMMA Total ==
  ASSUME IInv
  PROVE  /\ Summary(events).total_failures \in Nat
         /\ \E n \in 1..Len(events) :
              Summary(events).total_failures = Cardinality(Failures(SubSeq(events, 1, n)))
<1>1. /\ events \in Seq(Event) /\ Len(events) \in 1..Len(events)
      /\ SubSeq(events, 1, Len(events)) = events
  BY DEF IInv, RunTypeOK, Past
<1>2. Summary(events).total_failures = Cardinality(Failures(events))
  BY DEF Summary
<1>3. Cardinality(Failures(events)) \in Nat
  <2>1. Len(events) \in Nat /\ DOMAIN events = 1..Len(events)
    BY <1>1
  <2>2. IsFiniteSet(1..Len(events))
    BY <2>1, FS_Interval
  <2>3. Failures(events) \subseteq 1..Len(events)
    BY <2>1 DEF Failures, Of
  <2> QED
    BY <2>2, <2>3, FS_Subset, FS_CardinalityType
<1> QED
  BY <1>1, <1>2, <1>3

\* What held of the beginning of the list still does.


\* What held of the beginning of the list still does.
LEMMA Prefixes ==
  ASSUME IInv, NEW t \in Tasks, Appends(t), now' = now
  PROVE  \A n \in 1..Len(events) : n \in 1..Len(events') /\ SubSeq(events', 1, n) = SubSeq(events, 1, n)
BY Appending DEF IInv, RunTypeOK

\* What an append leaves of the list, and adds to it.
LEMMA Told ==
  ASSUME IInv, NEW t \in Tasks, Appends(t), now' = now
  PROVE  /\ \A i \in DOMAIN events : i \in DOMAIN events' /\ events'[i] = events[i]
         /\ \A i \in Injections(events) : i \in Injections(events') /\ events'[i] = events[i]
         /\ \A i \in DOMAIN events' : (i \in DOMAIN events /\ events'[i] = events[i]) \/ events'[i] = pend[t]
         /\ pend[t].kind = "injected" =>
              Len(events) + 1 \in Injections(events') /\ events'[Len(events) + 1] = pend[t]
         /\ \A K : pend[t].kind \notin K => Of(events', K) = Of(events, K)
<1>1. /\ Len(events) \in Nat
      /\ DOMAIN events = 1..Len(events) /\ DOMAIN events' = 1..Len(events) + 1
      /\ \A i \in 1..Len(events) : events'[i] = events[i]
      /\ events'[Len(events) + 1] = pend[t]
  BY Appending
<1>2. \A i \in DOMAIN events' : i \in DOMAIN events \/ i = Len(events) + 1
  BY <1>1
<1>3. \A i \in DOMAIN events : i \in DOMAIN events' /\ events'[i] = events[i]
  BY <1>1
<1>4. Len(events) + 1 \in DOMAIN events'
  BY <1>1
<1>5. \A i \in Injections(events) : i \in Injections(events') /\ events'[i] = events[i]
  BY <1>3 DEF Injections, Of
<1>6. \A i \in DOMAIN events' : (i \in DOMAIN events /\ events'[i] = events[i]) \/ events'[i] = pend[t]
  BY <1>1, <1>2, <1>3
<1>7. pend[t].kind = "injected" =>
        Len(events) + 1 \in Injections(events') /\ events'[Len(events) + 1] = pend[t]
  BY <1>1, <1>4 DEF Injections, Of
<1>8. ASSUME NEW K, pend[t].kind \notin K PROVE Of(events', K) = Of(events, K)
  BY <1>1, <1>2, <1>3, <1>8 DEF Of
<1> QED
  BY <1>3, <1>5, <1>6, <1>7, <1>8

\* The others disturb nothing of what the handler is about: they neither end
\* the list nor speak of a fault that was not injected.
LEMMA MainKept ==
  ASSUME IInv, NEW t \in Tasks \ {Handler}, Appends(t), now' = now, pc' = pc
  PROVE  MainInv'
<1>1. /\ pend[t] \in Event /\ pend[t] # NoEvent /\ Owned(t, pend[t])
      /\ Handler \in Tasks /\ pend'[Handler] = pend[Handler]
  BY Appending, TaskNames
<1>2. pend[t].kind # "ended"
  BY <1>1 DEF Owned
<1>3. pc \notin {"report", "done", "exited"} => Of(events', {"ended"}) = {}
  BY <1>2, Told DEF IInv, MainInv
<1>4. ASSUME pend[Handler] # NoEvent, pend[Handler].kind = "injected", pc = "inject"
      PROVE  \A i \in DOMAIN events' : events'[i].who # pend[Handler].who
  <2>1. /\ \A i \in DOMAIN events : events[i].who # pend[Handler].who
        /\ Owned(Handler, pend[Handler])
    BY <1>1, <1>4 DEF IInv, MainInv, PendInv
  <2>2. pend[Handler].who \in Faults
    BY <1>4, <2>1 DEF Owned
  <2>3. pend[t].who # pend[Handler].who
    <3>1. CASE pend[t].kind = "reverted"
      <4>1. PICK i \in Injections(events) : events[i].who = pend[t].who
        BY <1>1, <3>1 DEF IInv, PendInv
      <4> QED
        BY <2>1, <4>1 DEF Injections, Of
    <3>2. CASE pend[t].kind # "reverted"
      BY <1>1, <2>2, <3>2 DEF Owned
    <3> QED
      BY <3>1, <3>2
  <2> QED
    BY <2>1, <2>3, Told
<1>5. ASSUME pend[Handler] # NoEvent, NEW n \in 1..Len(events),
             pend[Handler].ms = Cardinality(Failures(SubSeq(events, 1, n)))
      PROVE  \E m \in 1..Len(events') : pend[Handler].ms = Cardinality(Failures(SubSeq(events', 1, m)))
  BY <1>5, Prefixes
<1> QED
  BY <1>1, <1>3, <1>4, <1>5 DEF IInv, MainInv

\* Nor is an injection ever taken back.
LEMMA FaultsKept ==
  ASSUME IInv, \A i \in Injections(events) : i \in Injections(events') /\ events'[i] = events[i],
         \A f \in Faults : timer'[f] # "off" \/ job'[f] # "none" \/ f \in listed' =>
                             timer[f] # "off" \/ job[f] # "none" \/ f \in listed
  PROVE  FaultInv'
<1> SUFFICES ASSUME NEW f \in Faults, timer[f] # "off" \/ job[f] # "none" \/ f \in listed
             PROVE  KindOf[f] # "crash" /\ \E i \in Injections(events') : events'[i].who = f
  BY DEF FaultInv
<1> QED
  BY DEF IInv, FaultInv

(***************************************************************************)
(* The invariant.                                                          *)
(***************************************************************************)
\* Initially nothing was built, begun or injected.
LEMMA Initially == Init => IInv
<1> SUFFICES ASSUME Init PROVE IInv
  OBVIOUS
<1> DEFINE first == [at |-> 0, kind |-> "started", who |-> "main", ms |-> 0]
<1>1. /\ first \in Event /\ events = <<first>>
      /\ \A i \in DOMAIN events : events[i] = first
      /\ Len(events) = 1 /\ events \in Seq(Event)
  BY DEF Init, Event, EventKind, Emitters
<1>2. RunTypeOK
  BY <1>1 DEF Init, RunTypeOK
<1>3. Past
  BY <1>1 DEF Init, Past
<1>4. PendInv /\ MainInv
  BY <1>1, TaskNames DEF Init, PendInv, MainInv, Of
<1>5. FaultInv
  BY DEF Init, FaultInv
<1> QED
  BY <1>2, <1>3, <1>4, <1>5 DEF IInv

\* A probe keeps it, whatever it answers.
LEMMA ProbeKeeps ==
  ASSUME IInv, NEW p \in Probes, Ticks(p) \/ Finishes(p) \/ Emits(p) \/ Cancelled(p)
  PROVE  IInv'
<1> DEFINE t == <<"probe", p>>
<1>0. /\ t \in Tasks \ {Handler} /\ Handler \in Tasks /\ p \in Emitters /\ p \notin Faults
  BY TaskNames DEF Emitters
<1>1. CASE Ticks(p) \/ Cancelled(p)
  <2>1. /\ cmd' = cmd /\ now' = now /\ events' = events /\ pend' = pend /\ cancelled' = cancelled
        /\ listed' = listed /\ timer' = timer /\ expire' = expire /\ job' = job
        /\ pc' = pc /\ wake' = wake /\ round' = round /\ captured' = captured
    BY <1>1 DEF Ticks, Cancelled, listVars, faultVars, mainVars
  <2>2. NextDue(p) \in Nat
    <3>1. Interval[p] \in Nat \ {0} /\ now \in Nat
      BY DEF IInv, RunTypeOK
    <3>2. now \div Interval[p] \in Nat
      BY <3>1
    <3> QED
      BY <3>1, <3>2 DEF NextDue
  <2>3. /\ probe' \in [Probes -> {"select", "checking", "emitting", "ended"}]
        /\ due' \in [Probes -> Nat]
        /\ began' \in [Probes -> 0..MaxTime]
        /\ \A q \in Probes : began'[q] <= now
    <3>1. /\ now \in 0..MaxTime /\ \A q \in Probes : began[q] <= now
          /\ probe \in [Probes -> {"select", "checking", "emitting", "ended"}]
          /\ due \in [Probes -> Nat] /\ began \in [Probes -> 0..MaxTime]
      BY DEF IInv, RunTypeOK, Past
    <3>2. CASE Ticks(p)
      BY <3>1, <3>2, <2>2 DEF Ticks
    <3>3. CASE Cancelled(p)
      BY <3>1, <3>3 DEF Cancelled, AfterCancel
    <3> QED
      BY <1>1, <3>2, <3>3
  <2>4. RunTypeOK' /\ Past'
    BY <2>1, <2>3 DEF IInv, RunTypeOK, Past
  <2>5. MainInv' /\ FaultInv'
    BY <2>1 DEF IInv, MainInv, FaultInv, Injections, Of
  <2> QED
    BY <2>1, <2>4, <2>5, Unlisted DEF IInv, listVars
<1>2. CASE Finishes(p)
  <2>1. PICK kind \in {"success", "failed", "timeout"} : Stamp(t, kind, p, now - began[p])
    BY <1>2 DEF Finishes
  <2>2. now - began[p] \in 0..MaxTime
    BY DEF IInv, RunTypeOK, Past
  <2>3. /\ UNCHANGED <<cmd, now, due, began, cancelled, faultVars, mainVars>>
        /\ probe' = [probe EXCEPT ![p] = "emitting"]
    BY <1>2 DEF Finishes
  <2>4. Owned(t, [at |-> now, kind |-> kind, who |-> p, ms |-> now - began[p]])
    BY <2>2 DEF Owned
  <2> HIDE DEF t
  <2>5. /\ PendInv'
        /\ pend' \in [Tasks -> Event \cup {NoEvent}]
        /\ pend'[Handler] = pend[Handler]
        /\ events' = events
    BY <1>0, <2>1, <2>2, <2>3, <2>4, Stamping DEF EventKind
  <2>6. RunTypeOK' /\ Past'
    BY <2>3, <2>5 DEF IInv, RunTypeOK, Past, faultVars, mainVars
  <2>7. MainInv'
    BY <2>3, <2>5 DEF IInv, MainInv, mainVars
  <2>8. FaultInv'
    BY <2>3, <2>5 DEF IInv, FaultInv, faultVars, Injections, Of
  <2> QED
    BY <2>5, <2>6, <2>7, <2>8 DEF IInv
<1>3. CASE Emits(p)
  <2>1. /\ Appends(t) /\ now' = now
        /\ UNCHANGED <<cmd, due, began, cancelled, faultVars, mainVars>>
        /\ probe' = [probe EXCEPT ![p] = "select"]
    BY <1>3 DEF Emits
  <2> HIDE DEF t
  <2>2. /\ events' \in Seq(Event) /\ Len(events) \in Nat /\ Len(events') = Len(events) + 1
        /\ \A i \in DOMAIN events' : events'[i].at <= now
        /\ pend' \in [Tasks -> Event \cup {NoEvent}]
        /\ PendInv'
    BY <1>0, <2>1, Appending
  <2>3. RunTypeOK' /\ Past'
    BY <2>1, <2>2 DEF IInv, RunTypeOK, Past, faultVars, mainVars
  <2>4. MainInv' /\ FaultInv'
    BY <1>0, <2>1, Told, MainKept, FaultsKept DEF mainVars, faultVars
  <2> QED
    BY <2>2, <2>3, <2>4 DEF IInv
<1> QED
  BY <1>1, <1>2, <1>3

\* So does the handler while it builds no event.
LEMMA WaitingKeeps ==
  ASSUME IInv,
         \/ EndWarmup \/ LoopEnds \/ RoundBegins \/ Interrupted \/ Skips \/ Abandons \/ Evicts
         \/ Sigint \/ Takes \/ Drained \/ Stops \/ Reports
  PROVE  IInv'
<1> USE DEF Resumes
<1>1. /\ cmd' = cmd /\ now' = now /\ events' = events /\ pend' = pend
      /\ expire' = expire /\ probe' = probe /\ due' = due /\ began' = began /\ timer' = timer
  BY DEF EndWarmup, LoopEnds, RoundBegins, Interrupted, Skips, Abandons, Evicts, Sigint, Takes, Drained,
         Stops, Reports, listVars, faultVars, taskVars
<1>2. /\ cancelled' \in {"no", "yes", "dropped"}
      /\ wake' \in Nat /\ captured' \in 0..Len(events)
  <2>1. /\ cancelled \in {"no", "yes", "dropped"} /\ wake \in Nat /\ now \in Nat
        /\ captured \in 0..Len(events) /\ Len(events) \in Nat
    BY DEF IInv, RunTypeOK
  <2> QED
    BY <2>1 DEF EndWarmup, LoopEnds, RoundBegins, Interrupted, Skips, Abandons, Evicts, Sigint, Takes,
                Drained, Stops, Reports, taskVars, mainVars
<1>3. /\ pc' \in {"warmup", "loop", "choose", "inject", "evict", "blocked", "drain", "join",
                  "stop", "count", "end", "report", "done", "exited"}
      /\ round' \in 0..Quarters
      /\ pc \in {"report", "done", "exited"} => pc' \in {"report", "done", "exited"}
      /\ pc' = pc \/ pc \notin {"inject", "blocked", "end"}
      /\ pc' \in {"warmup", "loop", "choose", "inject", "evict", "blocked"} => round' < Quarters
  <2>1. /\ pc \in {"warmup", "loop", "choose", "inject", "evict", "blocked", "drain", "join",
                   "stop", "count", "end", "report", "done", "exited"}
        /\ round \in 0..Quarters
        /\ pc \in {"warmup", "loop", "choose", "inject", "evict", "blocked"} => round < Quarters
    BY DEF IInv, RunTypeOK
  <2>2. CASE EndWarmup \/ Interrupted \/ Skips \/ Abandons \/ Evicts \/ Sigint \/ Takes \/ Drained \/ Stops \/ Reports
    BY <2>1, <2>2 DEF EndWarmup, Interrupted, Skips, Abandons, Evicts, Sigint, Takes, Drained, Stops,
                      Reports, mainVars
  <2>3. CASE LoopEnds \/ RoundBegins
    BY <2>1, <2>3 DEF LoopEnds, RoundBegins, Woken, LastRound
  <2> QED
    BY <2>2, <2>3
<1>4. /\ listed' \subseteq Faults
      /\ job' \in [Faults -> {"none", "reverting", "emitting"}]
      /\ \A f \in Faults : job'[f] # "none" \/ f \in listed' => job[f] # "none" \/ f \in listed
  <2>1. /\ listed \subseteq Faults
        /\ job \in [Faults -> {"none", "reverting", "emitting"}]
    BY DEF IInv, RunTypeOK
  <2>2. CASE Takes
    BY <2>1, <2>2 DEF Takes
  <2>3. CASE Drained
    BY <2>1, <2>3 DEF Drained
  <2>4. CASE ~Takes /\ ~Drained
    BY <2>1, <2>4 DEF EndWarmup, LoopEnds, RoundBegins, Interrupted, Skips, Abandons, Evicts, Sigint,
                      Stops, Reports, faultVars
  <2> QED
    BY <2>2, <2>3, <2>4
<1>5. RunTypeOK' /\ Past'
  BY <1>1, <1>2, <1>3, <1>4 DEF IInv, RunTypeOK, Past
<1>6. MainInv'
  BY <1>1, <1>3 DEF IInv, MainInv
<1>7. FaultInv'
  BY <1>1, <1>4, FaultsKept DEF Injections, Of
<1> QED
  BY <1>1, <1>5, <1>6, <1>7, Unlisted DEF IInv, listVars

\* And while it injects, or is refused an eviction.
LEMMA InjectingKeeps ==
  ASSUME IInv, NEW f \in Faults, Injects(f) \/ Injected(f) \/ Blocks(f)
  PROVE  IInv'
<1>0. Handler \in Tasks /\ f \in Emitters
  BY TaskNames DEF Emitters
<1>1. CASE Injects(f) \/ Blocks(f)
  <2> DEFINE kind == IF pc = "choose" THEN "injected" ELSE "reverted"
  <2>1. /\ Stamp(Handler, kind, f, 0) /\ now' = now /\ cmd' = cmd
        /\ listed' = listed /\ timer' = timer /\ expire' = expire /\ job' = job
        /\ round' = round /\ wake' = wake /\ captured' = captured
        /\ probe' = probe /\ due' = due /\ began' = began /\ cancelled' = cancelled
        /\ \/ /\ kind = "injected" /\ pc = "choose" /\ pc' = "inject"
              /\ \A i \in DOMAIN events : events[i].who # f
           \/ /\ kind = "reverted" /\ pc = "evict" /\ pc' = "blocked" /\ KindOf[f] # "crash"
              /\ \E i \in Injections(events) : events[i].who = f
    BY <1>1 DEF Injects, Blocks, taskVars, faultVars
  <2> HIDE DEF kind
  <2>2. Owned(Handler, [at |-> now, kind |-> kind, who |-> f, ms |-> 0])
    BY <2>1 DEF Owned
  <2>3. /\ PendInv'
        /\ pend' \in [Tasks -> Event \cup {NoEvent}]
        /\ pend'[Handler] = [at |-> now, kind |-> kind, who |-> f, ms |-> 0]
        /\ events' = events
    BY <1>0, <2>1, <2>2, Stamping DEF EventKind
  <2>4. RunTypeOK' /\ Past'
    BY <2>1, <2>3 DEF IInv, RunTypeOK, Past
  <2>5. MainInv'
    BY <2>1, <2>3 DEF IInv, MainInv
  <2>6. FaultInv'
    BY <2>1, <2>3, FaultsKept DEF Injections, Of
  <2> QED
    BY <2>3, <2>4, <2>5, <2>6 DEF IInv
<1>2. CASE Injected(f)
  <2>1. /\ Appends(Handler) /\ pend[Handler].who = f /\ pend[Handler] # NoEvent
        /\ now' = now /\ cmd' = cmd
        /\ pc = "inject" /\ pc' \in {"loop", "evict"} /\ (wake' = wake \/ wake' = now + FaultInterval)
        /\ listed' = IF Tracks(f) THEN listed \cup {f} ELSE listed
        /\ timer' = [timer EXCEPT ![f] = IF Tracks(f) \/ KindOf[f] = "stress" THEN "armed" ELSE "off"]
        /\ expire' = [expire EXCEPT ![f] = now + Lasts[f]] /\ job' = job
        /\ round' = round /\ captured' = captured
        /\ probe' = probe /\ due' = due /\ began' = began /\ cancelled' = cancelled
    BY <1>2 DEF Injected, Resumes, Appends, taskVars
  <2>2. pend[Handler].kind = "injected" /\ Of(events, {"ended"}) = {}
    BY <2>1 DEF IInv, MainInv
  <2>3. /\ events' \in Seq(Event) /\ Len(events) \in Nat /\ Len(events') = Len(events) + 1
        /\ \A i \in DOMAIN events' : events'[i].at <= now
        /\ pend' \in [Tasks -> Event \cup {NoEvent}] /\ pend'[Handler] = NoEvent
        /\ PendInv'
    BY <1>0, <2>1, Appending
  <2>4. RunTypeOK' /\ Past'
    <3>1. wake' \in Nat /\ expire' \in [Faults -> Nat] /\ listed' \subseteq Faults
      BY <2>1 DEF IInv, RunTypeOK
    <3>2. timer' \in [Faults -> {"off", "armed", "emitting", "untracking"}]
      BY <2>1 DEF IInv, RunTypeOK
    <3>3. round' < Quarters
      BY <2>1 DEF IInv, RunTypeOK
    <3> QED
      BY <3>1, <3>2, <3>3, <2>1, <2>3 DEF IInv, RunTypeOK, Past
  <2>5. MainInv'
    BY <1>0, <2>1, <2>2, <2>3, Told DEF MainInv
  <2>6. ASSUME NEW g \in Faults, timer'[g] # "off" \/ job'[g] # "none" \/ g \in listed'
        PROVE  KindOf[g] # "crash" /\ \E i \in Injections(events') : events'[i].who = g
    <3>1. \A i \in Injections(events) : i \in Injections(events') /\ events'[i] = events[i]
      BY <1>0, <2>1, Told
    <3>2. CASE timer[g] # "off" \/ job[g] # "none" \/ g \in listed
      BY <3>1, <3>2 DEF IInv, FaultInv
    <3>3. CASE ~(timer[g] # "off" \/ job[g] # "none" \/ g \in listed)
      <4>1. g = f /\ KindOf[f] # "crash"
        BY <2>1, <2>6, <3>3 DEF IInv, RunTypeOK, Tracks
      <4>2. Len(events) + 1 \in Injections(events') /\ events'[Len(events) + 1].who = f
        BY <1>0, <2>1, <2>2, Told
      <4> QED
        BY <4>1, <4>2
    <3> QED
      BY <3>2, <3>3
  <2> QED
    BY <2>3, <2>4, <2>5, <2>6 DEF IInv, FaultInv
<1> QED
  BY <1>1, <1>2

\* And when that is on the list.
LEMMA BlockedKeeps ==
  ASSUME IInv, Blocked
  PROVE  IInv'
<1>0. Handler \in Tasks
  BY TaskNames
<1>1. /\ Appends(Handler) /\ pend[Handler] # NoEvent /\ now' = now /\ cmd' = cmd
      /\ pc = "blocked" /\ pc' = "loop" /\ wake' = now + FaultInterval
      /\ listed' = listed /\ timer' = timer /\ expire' = expire /\ job' = job
      /\ round' = round /\ captured' = captured
      /\ probe' = probe /\ due' = due /\ began' = began /\ cancelled' = cancelled
  BY DEF Blocked, Resumes, Appends, taskVars, faultVars
<1>2. pend[Handler].kind = "reverted" /\ Of(events, {"ended"}) = {}
  BY <1>1 DEF IInv, MainInv
<1>3. /\ events' \in Seq(Event) /\ Len(events) \in Nat /\ Len(events') = Len(events) + 1
      /\ \A i \in DOMAIN events' : events'[i].at <= now
      /\ pend' \in [Tasks -> Event \cup {NoEvent}] /\ pend'[Handler] = NoEvent
      /\ PendInv'
  BY <1>0, <1>1, Appending
<1>4. RunTypeOK' /\ Past'
  <2>1. wake' \in Nat /\ round' < Quarters
    BY <1>1 DEF IInv, RunTypeOK
  <2> QED
    BY <2>1, <1>1, <1>3 DEF IInv, RunTypeOK, Past
<1>5. MainInv' /\ FaultInv'
  BY <1>0, <1>1, <1>2, <1>3, Told, FaultsKept DEF MainInv
<1> QED
  BY <1>3, <1>4, <1>5 DEF IInv
\* And while it ends the list.
LEMMA EndingKeeps ==
  ASSUME IInv, Counts \/ Ends
  PROVE  IInv'
<1>0. Handler \in Tasks /\ "main" \in Emitters
  BY TaskNames DEF Emitters
<1>1. CASE Counts
  <2> DEFINE total == Summary(events).total_failures
  <2>1. /\ Stamp(Handler, "ended", "main", total) /\ now' = now /\ cmd' = cmd
        /\ pc = "count" /\ pc' = "end"
        /\ listed' = listed /\ timer' = timer /\ expire' = expire /\ job' = job
        /\ round' = round /\ wake' = wake /\ captured' = captured
        /\ probe' = probe /\ due' = due /\ began' = began /\ cancelled' = cancelled
    BY <1>1 DEF Counts, taskVars, faultVars
  <2>2. Owned(Handler, [at |-> now, kind |-> "ended", who |-> "main", ms |-> total])
    BY DEF Owned
  <2>3. /\ total \in Nat
        /\ \E n \in 1..Len(events) : total = Cardinality(Failures(SubSeq(events, 1, n)))
    BY Total
  <2> HIDE DEF total
  <2>4. /\ PendInv'
        /\ pend' \in [Tasks -> Event \cup {NoEvent}]
        /\ pend'[Handler] = [at |-> now, kind |-> "ended", who |-> "main", ms |-> total]
        /\ events' = events
    BY <1>0, <2>1, <2>2, <2>3, Stamping DEF EventKind
  <2>5. RunTypeOK' /\ Past'
    BY <2>1, <2>4 DEF IInv, RunTypeOK, Past
  <2>6. MainInv'
    <3>1. Of(events', {"ended"}) = {}
      BY <2>1, <2>4 DEF IInv, MainInv
    <3>2. \E n \in 1..Len(events') : pend'[Handler].ms = Cardinality(Failures(SubSeq(events', 1, n)))
      BY <2>3, <2>4
    <3> QED
      BY <2>1, <2>4, <3>1, <3>2 DEF MainInv
  <2>7. FaultInv'
    BY <2>1, <2>4, FaultsKept DEF Injections, Of
  <2> QED
    BY <2>4, <2>5, <2>6, <2>7 DEF IInv
<1>2. CASE Ends
  <2>1. /\ Appends(Handler) /\ pend[Handler] # NoEvent /\ now' = now /\ cmd' = cmd
        /\ pc = "end" /\ pc' = "report"
        /\ listed' = listed /\ timer' = timer /\ expire' = expire /\ job' = job
        /\ round' = round /\ wake' = wake /\ captured' = captured
        /\ probe' = probe /\ due' = due /\ began' = began /\ cancelled' = cancelled
    BY <1>2 DEF Ends, Appends, taskVars, faultVars
  <2>2. /\ events' \in Seq(Event) /\ Len(events) \in Nat /\ Len(events') = Len(events) + 1
        /\ \A i \in DOMAIN events' : events'[i].at <= now
        /\ pend' \in [Tasks -> Event \cup {NoEvent}] /\ pend'[Handler] = NoEvent
        /\ PendInv'
    BY <1>0, <2>1, Appending
  <2>3. RunTypeOK' /\ Past' /\ MainInv'
    BY <2>1, <2>2 DEF IInv, RunTypeOK, Past, MainInv
  <2>4. FaultInv'
    BY <1>0, <2>1, Told, FaultsKept
  <2> QED
    BY <2>2, <2>3, <2>4 DEF IInv
<1> QED
  BY <1>1, <1>2

\* Reverts keep it, be they of a timer, of a job or of both: what is reverted
\* was injected.
LEMMA RevertsKeep ==
  ASSUME IInv, NEW f \in Faults,
         TimedRevert(f) \/ TimedReverted(f) \/ Untracks(f) \/ DrainReverts(f) \/ DrainReverted(f)
  PROVE  IInv'
<1>0. Handler \in Tasks /\ f \in Emitters
  BY TaskNames DEF Emitters
<1>1. /\ now' = now /\ cmd' = cmd /\ expire' = expire
      /\ pc' = pc /\ round' = round /\ wake' = wake /\ captured' = captured
      /\ probe' = probe /\ due' = due /\ began' = began /\ cancelled' = cancelled
      /\ listed' \subseteq Faults
      /\ timer' \in [Faults -> {"off", "armed", "emitting", "untracking"}]
      /\ job' \in [Faults -> {"none", "reverting", "emitting"}]
      /\ \A g \in Faults : timer'[g] # "off" \/ job'[g] # "none" \/ g \in listed' =>
                             timer[g] # "off" \/ job[g] # "none" \/ g \in listed
      /\ timer[f] # "off" \/ job[f] # "none"
  <2>1. /\ listed \subseteq Faults
        /\ timer \in [Faults -> {"off", "armed", "emitting", "untracking"}]
        /\ job \in [Faults -> {"none", "reverting", "emitting"}]
    BY DEF IInv, RunTypeOK
  <2>2. CASE TimedRevert(f)
    BY <2>1, <2>2 DEF TimedRevert, taskVars, mainVars
  <2>3. CASE TimedReverted(f)
    BY <2>1, <2>3 DEF TimedReverted, taskVars, mainVars
  <2>4. CASE Untracks(f)
    BY <2>1, <2>4 DEF Untracks, taskVars, mainVars
  <2>5. CASE DrainReverts(f)
    BY <2>1, <2>5 DEF DrainReverts, taskVars, mainVars
  <2>6. CASE DrainReverted(f)
    BY <2>1, <2>6 DEF DrainReverted, taskVars, mainVars
  <2> QED
    BY <2>2, <2>3, <2>4, <2>5, <2>6
<1>2. CASE TimedRevert(f) \/ DrainReverts(f)
  <2>1. PICK t \in Tasks \ {Handler} : Stamp(t, "reverted", f, 0)
    BY <1>2, TaskNames DEF TimedRevert, DrainReverts
  <2>2. KindOf[f] # "crash" /\ \E i \in Injections(events) : events[i].who = f
    BY <1>1 DEF IInv, FaultInv
  <2>3. Owned(t, [at |-> now, kind |-> "reverted", who |-> f, ms |-> 0])
    BY <2>2 DEF Owned
  <2>4. /\ PendInv'
        /\ pend' \in [Tasks -> Event \cup {NoEvent}]
        /\ pend'[Handler] = pend[Handler]
        /\ events' = events
    BY <1>0, <1>1, <2>1, <2>2, <2>3, Stamping DEF EventKind
  <2>5. RunTypeOK' /\ Past'
    BY <1>1, <2>4 DEF IInv, RunTypeOK, Past
  <2>6. MainInv'
    BY <1>1, <2>4 DEF IInv, MainInv
  <2>7. FaultInv'
    BY <1>1, <2>4, FaultsKept DEF Injections, Of
  <2> QED
    BY <2>4, <2>5, <2>6, <2>7 DEF IInv
<1>3. CASE TimedReverted(f) \/ DrainReverted(f)
  <2>1. PICK t \in Tasks \ {Handler} : Appends(t)
    BY <1>3, TaskNames DEF TimedReverted, DrainReverted
  <2>2. /\ events' \in Seq(Event) /\ Len(events) \in Nat /\ Len(events') = Len(events) + 1
        /\ \A i \in DOMAIN events' : events'[i].at <= now
        /\ pend' \in [Tasks -> Event \cup {NoEvent}]
        /\ PendInv'
    BY <1>1, <2>1, Appending
  <2>3. RunTypeOK' /\ Past'
    BY <1>1, <2>2 DEF IInv, RunTypeOK, Past
  <2>4. MainInv' /\ FaultInv'
    BY <1>1, <2>1, Told, MainKept, FaultsKept
  <2> QED
    BY <2>2, <2>3, <2>4 DEF IInv
<1>4. CASE Untracks(f)
  <2>1. events' = events /\ pend' = pend
    BY <1>4 DEF Untracks, listVars
  <2>2. RunTypeOK' /\ Past'
    BY <1>1, <2>1 DEF IInv, RunTypeOK, Past
  <2>3. MainInv'
    BY <1>1, <2>1 DEF IInv, MainInv
  <2>4. FaultInv'
    BY <1>1, <2>1, FaultsKept DEF Injections, Of
  <2> QED
    BY <1>1, <2>1, <2>2, <2>3, <2>4, Unlisted DEF IInv, listVars
<1> QED
  BY <1>2, <1>3, <1>4

\* Time waits for an append that is late.
LEMMA TickKeeps ==
  ASSUME IInv, Tick
  PROVE  IInv'
<1>1. /\ now < MaxTime /\ now' = now + 1 /\ cmd' = cmd
      /\ events' = events /\ pend' = pend
      /\ probe' = probe /\ due' = due /\ began' = began /\ cancelled' = cancelled
      /\ listed' = listed /\ timer' = timer /\ expire' = expire /\ job' = job
      /\ pc' = pc /\ wake' = wake /\ round' = round /\ captured' = captured
  BY DEF Tick, listVars, taskVars, faultVars, mainVars
<1>2. \A t \in Tasks : pend[t] # NoEvent => ~(now >= pend[t].at + EmitGap)
  BY DEF Tick, Urgent
<1>3. now \in 0..MaxTime /\ MaxTime \in Nat /\ EmitGap \in Nat
  BY DEF IInv, RunTypeOK
<1>4. RunTypeOK' /\ MainInv' /\ FaultInv'
  BY <1>1, <1>3 DEF IInv, RunTypeOK, MainInv, FaultInv, Injections, Of
<1>5. Past'
  <2>1. \A i \in DOMAIN events : events[i].at \in Nat
    BY Records DEF IInv, RunTypeOK
  <2>2. \A p \in Probes : began[p] \in Nat
    BY DEF IInv, RunTypeOK
  <2> QED
    BY <1>1, <1>3, <2>1, <2>2 DEF IInv, Past
<1>6. PendInv'
  <2>1. \A t \in Tasks : pend[t] # NoEvent => pend[t].at \in Nat
    BY Records DEF IInv, RunTypeOK
  <2>2. Injections(events') = Injections(events)
    BY <1>1
  <2> QED
    BY <1>1, <1>2, <1>3, <2>1, <2>2 DEF IInv, PendInv, Bus!SameTask, Bus!Author, Owned
<1> QED
  BY <1>4, <1>5, <1>6 DEF IInv

\* What a step is.
LEMMA Steps ==
  ASSUME Next
  PROVE  \/ \E p \in Probes : Ticks(p) \/ Finishes(p) \/ Emits(p) \/ Cancelled(p)
         \/ \/ EndWarmup \/ LoopEnds \/ RoundBegins \/ Interrupted \/ Skips \/ Abandons \/ Evicts
            \/ Sigint \/ Takes \/ Drained \/ Stops \/ Reports
         \/ \E f \in Faults : Injects(f) \/ Injected(f) \/ Blocks(f)
         \/ Blocked
         \/ Counts \/ Ends
         \/ \E f \in Faults :
              TimedRevert(f) \/ TimedReverted(f) \/ Untracks(f) \/ DrainReverts(f) \/ DrainReverted(f)
         \/ Tick
BY DEF Next, ProbeStep, MainStep, RevertStep

\* The invariant holds.
THEOREM Invariance == Spec => []IInv
<1>1. ASSUME IInv, [Next]_vars PROVE IInv'
  <2>1. CASE Next
    BY <1>1, <2>1, Steps, ProbeKeeps, WaitingKeeps, InjectingKeeps, BlockedKeeps, EndingKeeps, RevertsKeep,
       TickKeeps
  <2>2. CASE UNCHANGED vars
    <3>1. /\ cmd' = cmd /\ now' = now /\ events' = events /\ pend' = pend
          /\ probe' = probe /\ due' = due /\ began' = began /\ cancelled' = cancelled
          /\ listed' = listed /\ timer' = timer /\ expire' = expire /\ job' = job
          /\ pc' = pc /\ wake' = wake /\ round' = round /\ captured' = captured
      BY <2>2 DEF vars, listVars, taskVars, faultVars, mainVars
    <3>2. RunTypeOK' /\ Past' /\ MainInv' /\ FaultInv'
      BY <1>1, <3>1 DEF IInv, RunTypeOK, Past, MainInv, FaultInv, Injections, Of
    <3> QED
      BY <1>1, <3>1, <3>2, Unlisted DEF IInv, listVars
  <2> QED
    BY <1>1, <2>1, <2>2
<1> QED
  BY Initially, <1>1, PTL DEF Spec


\* Every variable of the run stays within its type, whatever the probes, the
\* faults and the times.
THEOREM RunTypes == Spec => []RunTypeOK
<1>1. IInv => RunTypeOK
  BY DEF IInv
<1> QED
  BY <1>1, Invariance, PTL
(***************************************************************************)
(* The phases of the baseline.                                             *)
(***************************************************************************)
\* Samples of the warmup that the baseline came too early for.
Missed == {i \in Samples(events) : i > captured /\ events[i].at < Warmup}

\* What is injected is injected after the warmup; what the baseline missed was
\* in flight when it was taken, one event of each probe at most.
PhaseInv ==
  /\ pc = "warmup" => wake = Warmup
  /\ pc # "warmup" => now >= Warmup
  /\ pend[Handler] # NoEvent => pend[Handler].at >= Warmup
  /\ \A i \in Injections(events) : events[i].at >= Warmup
  /\ captured > 0 =>
       /\ pc # "warmup"
       /\ \A i \in Missed : events[i].at + EmitGap >= Warmup
       /\ \A i, j \in Missed : events[i].who = events[j].who => i = j
       /\ \A p \in Probes : pend[<<"probe", p>>] # NoEvent /\ pend[<<"probe", p>>].at < Warmup =>
            \A i \in Missed : events[i].who # p

\* A step after which the warmup is over exactly if it was before.
SamePhase ==
  /\ captured' = captured
  /\ pc' = "warmup" <=> pc = "warmup"
  /\ pc = "warmup" => wake' = wake
  /\ now' = now \/ now' = now + 1

LEMMA PhaseFrame ==
  ASSUME IInv, PhaseInv, SamePhase, UNCHANGED listVars
  PROVE  PhaseInv'
<1>1. /\ events' = events /\ pend' = pend /\ captured' = captured
      /\ now \in Nat /\ (now' = now \/ now' = now + 1) /\ Warmup \in Nat
      /\ pc' = "warmup" <=> pc = "warmup"
      /\ pc = "warmup" => wake' = wake
  BY DEF SamePhase, listVars, IInv, RunTypeOK
<1>2. Missed' = Missed /\ Injections(events') = Injections(events)
  BY <1>1 DEF Missed
<1>3. /\ pc' = "warmup" => wake' = Warmup
      /\ pc' # "warmup" => now' >= Warmup
  BY <1>1 DEF PhaseInv
<1> QED
  BY <1>1, <1>2, <1>3 DEF PhaseInv

\* What is built after the warmup is of after the warmup.
LEMMA PhaseStamps ==
  ASSUME IInv, PhaseInv, SamePhase, now' = now, NEW t \in Tasks, t = Handler => pc # "warmup",
         NEW kind, NEW who, NEW ms, Stamp(t, kind, who, ms)
  PROVE  PhaseInv'
<1>1. /\ now \in Nat /\ Warmup \in Nat /\ pend \in [Tasks -> Event \cup {NoEvent}]
      /\ captured' = captured
      /\ pc' = "warmup" <=> pc = "warmup"
      /\ pc = "warmup" => wake' = wake
      /\ Handler \in Tasks /\ \A p \in Probes : <<"probe", p>> \in Tasks
  BY TaskNames DEF SamePhase, IInv, RunTypeOK
<1>2. /\ events' = events
      /\ pend' = [pend EXCEPT ![t] = [at |-> now, kind |-> kind, who |-> who, ms |-> ms]]
  BY DEF Stamp
<1>3. /\ pend'[t].at = now
      /\ \A d \in Tasks \ {t} : pend'[d] = pend[d]
  BY <1>1, <1>2
<1>4. Missed' = Missed /\ Injections(events') = Injections(events)
  BY <1>1, <1>2 DEF Missed
<1>5. pend'[Handler] # NoEvent => pend'[Handler].at >= Warmup
  BY <1>1, <1>3 DEF PhaseInv
<1>6. captured > 0 => \A p \in Probes : pend'[<<"probe", p>>] # NoEvent /\ pend'[<<"probe", p>>].at < Warmup =>
        \A i \in Missed : events[i].who # p
  <2> SUFFICES ASSUME captured > 0, NEW p \in Probes,
                      pend'[<<"probe", p>>] # NoEvent, pend'[<<"probe", p>>].at < Warmup
               PROVE  \A i \in Missed : events[i].who # p
    OBVIOUS
  <2>1. <<"probe", p>> # t
    BY <1>1, <1>3 DEF PhaseInv
  <2> QED
    BY <1>1, <1>3, <2>1 DEF PhaseInv
<1> QED
  BY <1>1, <1>2, <1>4, <1>5, <1>6 DEF PhaseInv

\* What is appended is an injection, which the handler built, a sample, which a
\* probe built, or neither.
LEMMA PhaseAppends ==
  ASSUME IInv, PhaseInv, SamePhase, now' = now, NEW t \in Tasks, Appends(t)
  PROVE  PhaseInv'
<1> DEFINE new == pend[t]
           n == Len(events) + 1
<1>1. /\ now \in Nat /\ Warmup \in Nat /\ EmitGap \in Nat /\ captured' = captured
      /\ captured \in Nat
      /\ pc' = "warmup" <=> pc = "warmup"
      /\ pc = "warmup" => wake' = wake
      /\ Handler \in Tasks /\ \A p \in Probes : <<"probe", p>> \in Tasks
  BY TaskNames DEF SamePhase, IInv, RunTypeOK
<1>2. /\ new \in Event /\ new # NoEvent
      /\ DOMAIN events' = 1..n /\ DOMAIN events = 1..(n - 1) /\ n \in Nat
      /\ \A i \in 1..(n - 1) : events'[i] = events[i]
      /\ events'[n] = new
      /\ Owned(t, new)
      /\ pend'[t] = NoEvent
      /\ \A d \in Tasks \ {t} : pend'[d] = pend[d]
  <2>1. Len(events) \in Nat /\ n - 1 = Len(events)
    BY DEF IInv, RunTypeOK
  <2> QED
    BY <2>1, Appending
<1>3. new.at \in Nat /\ now <= new.at + EmitGap
  BY <1>2, Records DEF IInv, PendInv
<1>4. /\ new.kind = "injected" => t = Handler
      /\ new.kind \in {"success", "failed", "timeout"} => t = <<"probe", new.who>> /\ new.who \in Probes
  BY <1>2 DEF Owned
<1> HIDE DEF new, n
<1>6. \A i \in DOMAIN events' : i \in DOMAIN events \/ i = n
  BY <1>2
<1>7. \A i \in Injections(events') : events'[i].at >= Warmup
  <2> SUFFICES ASSUME NEW i \in Injections(events') PROVE events'[i].at >= Warmup
    OBVIOUS
  <2>1. i \in DOMAIN events' /\ events'[i].kind = "injected"
    BY DEF Injections, Of
  <2>2. CASE i = n
    BY <1>2, <1>4, <2>1, <2>2 DEF PhaseInv, new
  <2>3. CASE i # n
    <3>1. i \in Injections(events) /\ events'[i] = events[i]
      BY <1>2, <1>6, <2>1, <2>3 DEF Injections, Of
    <3> QED
      BY <3>1 DEF PhaseInv
  <2> QED
    BY <2>2, <2>3
<1>8. \A i \in Missed' :
        \/ i \in Missed /\ events'[i] = events[i]
        \/ i = n /\ new.at < Warmup /\ t = <<"probe", new.who>> /\ new.who \in Probes
  <2> SUFFICES ASSUME NEW i \in Missed'
               PROVE  \/ i \in Missed /\ events'[i] = events[i]
                      \/ i = n /\ new.at < Warmup /\ t = <<"probe", new.who>> /\ new.who \in Probes
    OBVIOUS
  <2>1. /\ i \in DOMAIN events' /\ events'[i].kind \in {"success", "failed", "timeout"}
        /\ i > captured /\ events'[i].at < Warmup
    BY <1>1 DEF Missed, Samples, Successes, Failures, Of
  <2>2. CASE i = n
    BY <1>2, <1>4, <2>1, <2>2
  <2>3. CASE i # n
    BY <1>2, <1>6, <2>1, <2>3 DEF Missed, Samples, Successes, Failures, Of
  <2> QED
    BY <2>2, <2>3
<1>9. pend'[Handler] # NoEvent => pend'[Handler].at >= Warmup
  BY <1>1, <1>2 DEF PhaseInv
<1>10. ASSUME captured > 0
       PROVE  /\ pc # "warmup"
              /\ \A i \in Missed' : events'[i].at + EmitGap >= Warmup
              /\ \A i, j \in Missed' : events'[i].who = events'[j].who => i = j
              /\ \A p \in Probes : pend'[<<"probe", p>>] # NoEvent /\ pend'[<<"probe", p>>].at < Warmup =>
                   \A i \in Missed' : events'[i].who # p
  <2>1. pc # "warmup" /\ now >= Warmup
    BY <1>10 DEF PhaseInv
  <2>2. new.at + EmitGap >= Warmup
    BY <1>1, <1>3, <2>1
  <2>3. new.at < Warmup /\ t = <<"probe", new.who>> /\ new.who \in Probes =>
          \A i \in Missed : events[i].who # new.who
    BY <1>2, <1>10 DEF PhaseInv, new
  <2>4. n \notin Missed
    BY <1>2 DEF Missed, Samples, Successes, Failures, Of
  <2>5. ASSUME NEW i \in Missed', NEW j \in Missed', events'[i].who = events'[j].who
        PROVE  i = j
    <3>1. CASE i \in Missed /\ events'[i] = events[i] /\ j \in Missed /\ events'[j] = events[j]
      BY <1>10, <2>5, <3>1 DEF PhaseInv
    <3>2. CASE i = n /\ j # n
      BY <1>2, <1>8, <2>3, <2>4, <2>5, <3>2
    <3>3. CASE j = n /\ i # n
      BY <1>2, <1>8, <2>3, <2>4, <2>5, <3>3
    <3> QED
      BY <1>8, <2>4, <3>1, <3>2, <3>3
  <2>6. ASSUME NEW p \in Probes, pend'[<<"probe", p>>] # NoEvent, pend'[<<"probe", p>>].at < Warmup,
               NEW i \in Missed'
        PROVE  events'[i].who # p
    <3>1. <<"probe", p>> # t /\ pend'[<<"probe", p>>] = pend[<<"probe", p>>]
      BY <1>1, <1>2, <2>6
    <3>2. \A j \in Missed : events[j].who # p
      BY <1>10, <2>6, <3>1 DEF PhaseInv
    <3> QED
      BY <1>2, <1>8, <3>1, <3>2
  <2>7. \A i \in Missed' : events'[i].at + EmitGap >= Warmup
    BY <1>2, <1>8, <1>10, <2>2 DEF PhaseInv
  <2> QED
    BY <2>1, <2>5, <2>6, <2>7
<1> QED
  BY <1>1, <1>7, <1>9, <1>10 DEF PhaseInv

LEMMA PhaseStep == IInv /\ PhaseInv /\ [Next]_vars => PhaseInv'
<1> SUFFICES ASSUME IInv, PhaseInv, [Next]_vars PROVE PhaseInv'
  OBVIOUS
<1>0. /\ Handler \in Tasks
      /\ \A p \in Probes : <<"probe", p>> \in Tasks /\ <<"probe", p>> # Handler
      /\ \A f \in Faults : /\ <<"timer", f>> \in Tasks /\ <<"timer", f>> # Handler
                           /\ <<"job", f>> \in Tasks /\ <<"job", f>> # Handler
  BY TaskNames
<1>1. ASSUME NEW p \in Probes, Ticks(p) \/ Finishes(p) \/ Emits(p) \/ Cancelled(p)
      PROVE  PhaseInv'
  <2>1. SamePhase /\ now' = now
    BY <1>1 DEF Ticks, Finishes, Emits, Cancelled, SamePhase, mainVars
  <2>2. CASE Ticks(p) \/ Cancelled(p)
    BY <2>1, <2>2, PhaseFrame DEF Ticks, Cancelled
  <2>3. CASE Finishes(p)
    <3>1. PICK kind \in {"success", "failed", "timeout"} : Stamp(<<"probe", p>>, kind, p, now - began[p])
      BY <2>3 DEF Finishes
    <3> QED
      BY <1>0, <2>1, <3>1, PhaseStamps
  <2>4. CASE Emits(p)
    BY <1>0, <2>1, <2>4, PhaseAppends DEF Emits
  <2> QED
    BY <1>1, <2>2, <2>3, <2>4
<1>2. CASE EndWarmup
  <2>1. /\ events' = events /\ pend' = pend /\ now' = now /\ pc = "warmup" /\ pc' # "warmup"
        /\ now >= wake /\ now \in Nat /\ events \in Seq(Event)
        /\ captured' = captured \/ captured' = 0 \/ captured' = Len(events)
    BY <1>2 DEF EndWarmup, listVars, IInv, RunTypeOK
  <2>2. now >= Warmup /\ ~(captured > 0)
    BY <2>1 DEF PhaseInv
  <2>3. captured' > 0 => captured' = Len(events)
    BY <2>1, <2>2
  <2>4. captured' > 0 => Missed' = {}
    <3> SUFFICES ASSUME captured' > 0, NEW i \in Missed' PROVE FALSE
      OBVIOUS
    <3>1. i \in DOMAIN events /\ i > Len(events)
      BY <2>1, <2>3 DEF Missed, Samples, Successes, Failures, Of
    <3> QED
      BY <2>1, <3>1
  <2>5. Injections(events') = Injections(events)
    BY <2>1
  <2> QED
    BY <2>1, <2>2, <2>4, <2>5 DEF PhaseInv
<1>3. CASE \/ LoopEnds \/ RoundBegins \/ Interrupted \/ Skips \/ Abandons \/ Evicts
           \/ Sigint \/ Takes \/ Drained \/ Stops \/ Reports
  <2>1. UNCHANGED listVars /\ SamePhase
    BY <1>3 DEF LoopEnds, RoundBegins, Interrupted, Skips, Abandons, Evicts, Resumes, Sigint, Takes,
                Drained, Stops, Reports, Woken, SamePhase, mainVars
  <2> QED
    BY <2>1, PhaseFrame
<1>4. ASSUME Blocked \/ \E f \in Faults : Injects(f) \/ Injected(f) \/ Blocks(f) PROVE PhaseInv'
  <2>1. SamePhase /\ now' = now /\ pc # "warmup"
    BY <1>4 DEF Injects, Injected, Blocks, Blocked, Resumes, SamePhase
  <2> QED
    BY <1>0, <1>4, <2>1, PhaseStamps, PhaseAppends DEF Injects, Injected, Blocks, Blocked
<1>5. CASE Counts \/ Ends
  <2>1. SamePhase /\ now' = now /\ pc # "warmup"
    BY <1>5 DEF Counts, Ends, SamePhase
  <2> QED
    BY <1>0, <1>5, <2>1, PhaseStamps, PhaseAppends DEF Counts, Ends
<1>6. ASSUME NEW f \in Faults,
             TimedRevert(f) \/ TimedReverted(f) \/ Untracks(f) \/ DrainReverts(f) \/ DrainReverted(f)
      PROVE  PhaseInv'
  <2>1. SamePhase /\ now' = now
    BY <1>6 DEF TimedRevert, TimedReverted, Untracks, DrainReverts, DrainReverted, SamePhase, mainVars
  <2> QED
    BY <1>0, <1>6, <2>1, PhaseFrame, PhaseStamps, PhaseAppends
       DEF TimedRevert, TimedReverted, Untracks, DrainReverts, DrainReverted
<1>7. CASE Tick \/ UNCHANGED vars
  <2>1. UNCHANGED listVars /\ SamePhase
    BY <1>7 DEF Tick, vars, SamePhase, mainVars
  <2> QED
    BY <2>1, PhaseFrame
<1> QED
  BY <1>1, <1>2, <1>3, <1>4, <1>5, <1>6, <1>7, Steps

\* The baseline and the chaos phase share no sample, everything was injected
\* after the last sample of the baseline, and of each probe at most one sample
\* is in neither, of the last moments of the warmup: for any probes, faults,
\* periods, timeouts and delays of the lock.
THEOREM ApartPhases == Spec => []PhasesApart
<1>1. Init => PhaseInv
  BY TaskNames DEF Init, PhaseInv, Injections, Of
<1>2. IInv /\ PhaseInv => PhasesApart
  <2> SUFFICES ASSUME IInv, PhaseInv, captured > 0 PROVE PhasesApart
    BY DEF PhasesApart
  <2> DEFINE before == Baseline(SubSeq(events, 1, captured), Warmup)
             after == ChaosPhase(events, Warmup)
             lost == Samples(events) \ (before \cup after)
  <2>1. /\ events \in Seq(Event) /\ captured \in 0..Len(events) /\ Warmup \in Nat
        /\ \A i \in DOMAIN events : events[i].at \in Nat
    BY Records DEF IInv, RunTypeOK
  <2>2. /\ DOMAIN SubSeq(events, 1, captured) = 1..captured
        /\ \A i \in 1..captured : i \in DOMAIN events /\ SubSeq(events, 1, captured)[i] = events[i]
    BY <2>1
  <2>3. before = {i \in Samples(events) : i <= captured /\ events[i].at < Warmup}
    BY <2>1, <2>2 DEF Baseline, Samples, Successes, Failures, Of
  <2>4. after = {i \in Samples(events) : events[i].at >= Warmup}
    BY DEF ChaosPhase
  <2> HIDE DEF before, after
  <2>5. lost = Missed
    BY <2>1, <2>3, <2>4 DEF Missed, Samples, Successes, Failures, Of
  <2> HIDE DEF lost
  <2>6. before \cap after = {}
    BY <2>1, <2>3, <2>4 DEF Samples, Successes, Failures, Of
  <2>7. \A i \in Injections(events), j \in before : events[i].at > events[j].at
    BY <2>1, <2>3 DEF PhaseInv, Samples, Successes, Failures, Injections, Of
  <2>8. \A i \in lost : events[i].at + EmitGap >= Warmup
    BY <2>5 DEF PhaseInv
  <2>9. \A p \in Probes : Cardinality(By(events, lost, p)) <= 1
    <3> SUFFICES ASSUME NEW p \in Probes PROVE Cardinality(By(events, lost, p)) <= 1
      OBVIOUS
    <3>1. \A i, j \in By(events, lost, p) : i = j
      BY <2>5 DEF PhaseInv, By
    <3>2. ASSUME NEW S, \A i, j \in S : i = j PROVE Cardinality(S) <= 1
      <4>1. CASE S = {}
        <5>1. Cardinality(S) = 0
          BY <4>1, FS_EmptySet
        <5> QED
          BY <5>1
      <4>2. ASSUME NEW i \in S PROVE Cardinality(S) <= 1
        <5>1. S = {i}
          BY <3>2, <4>2
        <5>2. Cardinality({i}) = 1
          BY FS_Singleton
        <5> QED
          BY <5>1, <5>2
      <4> QED
        BY <4>1, <4>2
    <3> QED
      BY <3>1, <3>2
  <2> QED
    BY <2>6, <2>7, <2>8, <2>9 DEF PhasesApart, before, after, lost
<1> QED
  BY <1>1, <1>2, PhaseStep, Invariance, PTL DEF Spec
(***************************************************************************)
(* The list is one of TimelineBus.                                         *)
(***************************************************************************)

\* Whoever gets the lock, what is appended is what TimelineBus lets grow.
LEMMA AppendRefines ==
  ASSUME IInv, NEW t \in Tasks, Appends(t), now' = now
  PROVE  Bus!Emits
<1> DEFINE e == pend[t]
<1>1. /\ e \in Event /\ e # NoEvent /\ e.at \in Bus!Recent /\ Bus!Emit(e) /\ Owned(t, e)
  BY Appending
<1>2. e = [at |-> e.at, kind |-> e.kind, who |-> e.who, ms |-> e.ms]
  BY <1>1, Records
<1>3. /\ e.kind = "reverted" =>
            \E i \in Injections(events) : events[i].who = e.who /\ events[i].at <= e.at
      /\ t = Handler /\ e.kind = "injected" => \A i \in DOMAIN events : events[i].who # e.who
      /\ t = Handler /\ e.kind = "ended" =>
           /\ Of(events, {"ended"}) = {}
           /\ \E n \in 1..Len(events) : e.ms = Cardinality(Failures(SubSeq(events, 1, n)))
  BY <1>1 DEF IInv, PendInv, MainInv
<1> HIDE DEF e
<1>4. CASE e.kind \in {"success", "failed", "timeout"} /\ e.who \in Probes /\ e.ms \in 0..MaxTime
  <2> DEFINE a == [who |-> e.who, kind |-> e.kind, ms |-> e.ms]
  <2>1. a \in [who : Probes, kind : {"success", "failed", "timeout"}, ms : 0..MaxTime]
    BY <1>4
  <2>2. e = [at |-> e.at, kind |-> a.kind, who |-> a.who, ms |-> a.ms]
    BY <1>2
  <2> HIDE DEF a
  <2> QED
    BY <1>1, <2>1, <2>2 DEF Bus!EmitSample, Bus!Emits
<1>5. CASE e.kind = "reverted" /\ e.who \in Faults /\ KindOf[e.who] # "crash" /\ e.ms = 0
  <2>1. Bus!EmitReverted(e.who, e.at)
    BY <1>1, <1>2, <1>3, <1>5 DEF Bus!EmitReverted, Bus!Injections, Bus!Of, Injections, Of
  <2> QED
    BY <1>1, <1>5, <2>1 DEF Bus!Emits
<1>6. CASE e.kind = "injected" /\ t = Handler /\ e.who \in Faults /\ e.ms = 0
  <2>1. Bus!EmitInjected(e.who, e.at)
    BY <1>1, <1>2, <1>3, <1>6 DEF Bus!EmitInjected
  <2> QED
    BY <1>1, <1>6, <2>1 DEF Bus!Emits
<1>7. CASE e.kind = "ended" /\ t = Handler /\ e.who = "main"
  <2>1. PICK n \in 1..Len(events) : e.ms = Cardinality(Failures(SubSeq(events, 1, n)))
    BY <1>3, <1>7
  <2>2. e = [at |-> e.at, kind |-> "ended", who |-> "main", ms |-> Cardinality(Failures(SubSeq(events, 1, n)))]
    BY <1>2, <1>7, <2>1
  <2>3. Bus!EmitEnded(e.at)
    BY <1>1, <1>3, <1>7, <2>2 DEF Bus!EmitEnded, Bus!Of, Bus!Failures, Bus!Cardinality, Of, Failures, Cardinality
  <2> QED
    BY <1>1, <2>3 DEF Bus!Emits
<1> QED
  BY <1>1, <1>4, <1>5, <1>6, <1>7 DEF Owned

\* A step that appends is a step of TimelineBus, and no other touches the list.
LEMMA StepRefines ==
  ASSUME IInv, Next
  PROVE  [Bus!Next]_(Bus!vars)
<1>1. ASSUME NEW t \in Tasks, Appends(t), now' = now PROVE Bus!Next
  BY <1>1, AppendRefines DEF Bus!Next
<1>2. ASSUME NEW t, NEW kind, NEW who, NEW ms, Stamp(t, kind, who, ms), now' = now
      PROVE  UNCHANGED Bus!vars
  BY <1>2 DEF Stamp, Bus!vars
<1>3. ASSUME NEW p \in Probes, Ticks(p) \/ Finishes(p) \/ Emits(p) \/ Cancelled(p)
      PROVE  [Bus!Next]_(Bus!vars)
  <2>1. CASE Ticks(p) \/ Cancelled(p)
    BY <2>1 DEF Ticks, Cancelled, listVars, Bus!vars
  <2>2. CASE Finishes(p)
    BY <1>2, <2>2 DEF Finishes
  <2>3. CASE Emits(p)
    BY <1>1, <2>3, TaskNames DEF Emits
  <2> QED
    BY <1>3, <2>1, <2>2, <2>3
<1>4. CASE \/ EndWarmup \/ LoopEnds \/ RoundBegins \/ Interrupted \/ Skips \/ Abandons \/ Evicts
           \/ Sigint \/ Takes \/ Drained \/ Stops \/ Reports
  BY <1>4 DEF EndWarmup, LoopEnds, RoundBegins, Interrupted, Skips, Abandons, Evicts, Sigint, Takes, Drained,
              Stops, Reports, listVars, Bus!vars
<1>5. ASSUME NEW f \in Faults, Injects(f) \/ Injected(f) \/ Blocks(f)
      PROVE  [Bus!Next]_(Bus!vars)
  <2>1. CASE Injects(f)
    BY <1>2, <2>1 DEF Injects
  <2>2. CASE Injected(f)
    BY <1>1, <2>2, TaskNames DEF Injected
  <2>3. CASE Blocks(f)
    BY <1>2, <2>3 DEF Blocks
  <2> QED
    BY <1>5, <2>1, <2>2, <2>3
<1>6. CASE Blocked \/ Ends
  BY <1>1, <1>6, TaskNames DEF Blocked, Ends
<1>7. CASE Counts
  BY <1>2, <1>7 DEF Counts
<1>8. ASSUME NEW f \in Faults,
             TimedRevert(f) \/ TimedReverted(f) \/ Untracks(f) \/ DrainReverts(f) \/ DrainReverted(f)
      PROVE  [Bus!Next]_(Bus!vars)
  <2>1. CASE TimedRevert(f) \/ DrainReverts(f)
    BY <1>2, <2>1 DEF TimedRevert, DrainReverts
  <2>2. CASE TimedReverted(f) \/ DrainReverted(f)
    BY <1>1, <2>2, TaskNames DEF TimedReverted, DrainReverted
  <2>3. CASE Untracks(f)
    BY <2>3 DEF Untracks, listVars, Bus!vars
  <2> QED
    BY <1>8, <2>1, <2>2, <2>3
<1>9. CASE Tick
  BY <1>9 DEF Tick, listVars, Bus!Next, Bus!Tick
<1> QED
  BY <1>3, <1>4, <1>5, <1>6, <1>7, <1>8, <1>9, Steps

\* However the tasks of a run race, its list grows as TimelineBus says, so that
\* what is proved there of the verdicts holds of every run.
THEOREM Refinement == Spec => RefinesBus
<1>1. Init => Bus!Init
  BY DEF Init, Bus!Init
<1>2. ASSUME IInv, [Next]_vars PROVE [Bus!Next]_(Bus!vars)
  <2>1. CASE UNCHANGED vars
    BY <2>1 DEF vars, listVars, Bus!vars
  <2> QED
    BY <1>2, <2>1, StepRefines
<1> QED
  BY <1>1, <1>2, Invariance, PTL DEF Spec, RefinesBus, Bus!Spec

\* The module that says what a list promises, with all that is proved of it.
Verdict == INSTANCE TimelineBus_proofs WITH
  Answers <- [who : Probes, kind : {"success", "failed", "timeout"}, ms : 0..MaxTime]

\* Whatever the tasks of a run do, each verdict on its list means what it is
\* to mean: NoCascade, the recoveries and the detection latency up to races at
\* the ends of their windows, the budgets, ranks and rates exactly
\* (crates/props/src, on what crates/probe/src/runner.rs emits).
THEOREM RunVerdicts == Spec => [](Verdict!CascadeMeaning /\ Verdict!FaultMeaning /\ Verdict!ProbeMeaning)
<1>0. Verdict!NamesAssumption /\ Verdict!VerdictsAssumption /\ Verdict!BusAssumption
  BY DEF Verdict!NamesAssumption, Verdict!VerdictsAssumption, Verdict!BusAssumption
<1>1. Bus!Init => Verdict!Init
  BY DEF Bus!Init, Verdict!Init
<1>2. Bus!Next => Verdict!Next
  <2>1. ASSUME NEW e, Bus!Emit(e) PROVE Verdict!Emit(e)
    BY <2>1 DEF Bus!Emit, Verdict!Emit, Bus!Author, Verdict!Author, Bus!SameTask, Verdict!SameTask
  <2>2. Bus!Recent = Verdict!Recent
    BY DEF Bus!Recent, Verdict!Recent
  <2>3. /\ \A ev : Bus!Injections(ev) = Verdict!Injections(ev) /\ Bus!Reverts(ev) = Verdict!Reverts(ev)
        /\ \A ev : Bus!Failures(ev) = Verdict!Failures(ev)
        /\ Bus!Of(events, {"ended"}) = Verdict!Of(events, {"ended"})
    BY DEF Bus!Injections, Verdict!Injections, Bus!Reverts, Verdict!Reverts, Bus!Failures, Verdict!Failures, Bus!Of, Verdict!Of
  <2>4. ASSUME NEW at \in Bus!Recent, Bus!EmitSample(at) PROVE Verdict!EmitSample(at)
    BY <2>1, <2>4 DEF Bus!EmitSample, Verdict!EmitSample
  <2>5. ASSUME NEW at \in Bus!Recent, Bus!EmitEnded(at) PROVE Verdict!EmitEnded(at)
    BY <2>5 DEF Bus!EmitEnded, Verdict!EmitEnded, Bus!Emit, Verdict!Emit, Bus!Author, Verdict!Author, Bus!SameTask,
                Verdict!SameTask, Bus!Of, Verdict!Of, Bus!Failures, Verdict!Failures, Bus!Cardinality, Verdict!Cardinality
  <2>6. ASSUME NEW at \in Bus!Recent, NEW f \in Faults, Bus!EmitInjected(f, at) PROVE Verdict!EmitInjected(f, at)
    BY <2>1, <2>6 DEF Bus!EmitInjected, Verdict!EmitInjected
  <2>7. ASSUME NEW at \in Bus!Recent, NEW f \in Faults, Bus!EmitReverted(f, at) PROVE Verdict!EmitReverted(f, at)
    BY <2>1, <2>3, <2>7 DEF Bus!EmitReverted, Verdict!EmitReverted
  <2>8. Bus!Tick => Verdict!Tick
    BY DEF Bus!Tick, Verdict!Tick
  <2> QED
    BY <2>2, <2>4, <2>5, <2>6, <2>7, <2>8 DEF Bus!Next, Verdict!Next, Bus!Emits, Verdict!Emits
<1>3. UNCHANGED Bus!vars => UNCHANGED Verdict!vars
  BY DEF Bus!vars, Verdict!vars
<1>4. Bus!Spec => Verdict!Spec
  BY <1>1, <1>2, <1>3, PTL DEF Bus!Spec, Verdict!Spec
<1>5. Verdict!Spec => [](Verdict!CascadeMeaning /\ Verdict!FaultMeaning /\ Verdict!ProbeMeaning)
  <2>1. Verdict!Spec => []Verdict!CascadeMeaning
    BY <1>0, Verdict!CascadeSound
  <2>2. Verdict!Spec => []Verdict!FaultMeaning
    BY <1>0, Verdict!FaultsSound
  <2>3. Verdict!Spec => []Verdict!ProbeMeaning
    BY <1>0, Verdict!ProbesSound
  <2> QED
    BY <2>1, <2>2, <2>3, PTL
<1> QED
  BY <1>4, <1>5, Refinement, PTL DEF RefinesBus
=============================================================================
