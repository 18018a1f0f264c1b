---------------------------- MODULE EventAgenda ----------------------------
(***************************************************************************)
(* What a discrete-event simulation expects of its clock: one agenda of    *)
(* timers, of which the first by (time, priority, order of scheduling)     *)
(* fires next, whatever firing it adds to the agenda, until the end.  No   *)
(* timer fires out of order, twice or after the end, and none is lost.     *)
(***************************************************************************)
EXTENDS Naturals

VARIABLES
  pending,  \* the timers on the agenda
  last      \* the timers that fired last: none, or one

agenda == <<pending, last>>

Precedes(s, t) ==
  \/ s.at < t.at
  \/ s.at = t.at /\ s.prio < t.prio
  \/ s.at = t.at /\ s.prio = t.prio /\ s.id < t.id

First(t) == t \in pending /\ \A u \in pending \ {t} : Precedes(t, u)

AgendaInit == last = {}

\* The first timer fires; what is new on the agenda comes after it.
Fire(t) ==
  /\ First(t)
  /\ last' = {t}
  /\ pending \ {t} \subseteq pending'
  /\ t \notin pending'
  /\ \A u \in pending' \ pending : Precedes(t, u)

\* The timer that ends the simulation fires: the rest never does.
Close(t) ==
  /\ First(t)
  /\ last' = {t}
  /\ pending' = {}

AgendaNext == \E t \in pending : Fire(t) \/ Close(t)

AgendaSpec == AgendaInit /\ [][AgendaNext]_agenda
=============================================================================
