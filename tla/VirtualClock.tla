---------------------------- MODULE VirtualClock ----------------------------
(***************************************************************************)
(* VirtualClock (crates/core/src/clock.rs): the time of a simulation and   *)
(* the heap of its timers.  The heap is a set: what pops first is the      *)
(* least timer by (wake time, priority, callback id), and identifiers are  *)
(* unique.  tick() hands out every timer that is due as one batch, in the  *)
(* order in which they pop; the batch is a set as well, for its order is   *)
(* the order of its timers.                                                *)
(***************************************************************************)
EXTENDS Naturals, Sequences

VARIABLES
  now,      \* current_time
  timers,   \* the pending timers
  nextId    \* next_callback_id

clockVars == <<now, timers, nextId>>

\* A timer that carries an event of the simulation's own, one of `payloads`.
Timer(payloads) == [at : Nat, prio : Nat, id : Nat, payload : payloads]

ClockInit ==
  /\ now = 0
  /\ timers = {}
  /\ nextId = 0

\* Mutation for TimelineOrdered: the priority is left out of the order.
BadBefore(s, t) == s.at < t.at \/ (s.at = t.at /\ s.id < t.id)

\* Ord for Timer: wake time, then priority, then the order of scheduling.
Before(s, t) ==
  \/ s.at < t.at
  \/ s.at = t.at /\ s.prio < t.prio
  \/ s.at = t.at /\ s.prio = t.prio /\ s.id < t.id

\* t pops before the rest of S.
IsFirst(t, S) == t \in S /\ \A u \in S \ {t} : Before(t, u)

\* What schedule() is asked for, and the timers a sequence of such calls adds.
Request(at, prio, payload) == [at |-> at, prio |-> prio, payload |-> payload]

NewTimers(reqs) ==
  {[at |-> reqs[i].at, prio |-> reqs[i].prio, id |-> nextId + i - 1, payload |-> reqs[i].payload] :
     i \in DOMAIN reqs}

Schedule(reqs) ==
  /\ timers' = timers \cup NewTimers(reqs)
  /\ nextId' = nextId + Len(reqs)

\* schedule_after(): relative to the current time.
After(delay, prio, payload) == Request(now + delay, prio, payload)

\* The timers due at time t.
Due(t) == {u \in timers : u.at <= t}

\* Mutation for RefinesAgenda: what is due a unit later leaves the heap as well.
BadTick(t) ==
  /\ \E u \in timers : /\ \A v \in timers : u.at <= v.at
                       /\ t = IF u.at > now THEN u.at ELSE now
  /\ now' = t
  /\ timers' = timers \ Due(t + 1)
  /\ UNCHANGED nextId

\* tick(): the time moves on to the first wake time, never back, and
\* everything due by then leaves the heap.
Tick(t) ==
  /\ \E u \in timers : /\ \A v \in timers : u.at <= v.at
                       /\ t = IF u.at > now THEN u.at ELSE now
  /\ now' = t
  /\ timers' = timers \ Due(t)
  /\ UNCHANGED nextId
=============================================================================
