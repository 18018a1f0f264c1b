------------------------------ MODULE ProbeRun ------------------------------
(***************************************************************************)
(* A run as its timeline sees it: the probe tasks of                       *)
(* crates/probe/src/runner.rs, the handler that injects faults and reads   *)
(* the list at the end (crates/cli/src/main.rs: handle_run with --baseline *)
(* and, for `explore`, run_single_simulation), the tasks that revert, and  *)
(* emit() of crates/timeline/src/bus.rs, which reads the clock first and   *)
(* appends later, when it gets the lock.                                   *)
(*                                                                         *)
(* The tracker and the pods are in ChaosRun; here any command may fail or  *)
(* succeed, and a fault may be reverted twice, by its timer and by the     *)
(* drain.  Time is discrete; what the program does without awaiting takes  *)
(* less than a unit, except that between the clock and the lock of emit()  *)
(* up to EmitGap may pass.                                                 *)
(***************************************************************************)
EXTENDS Verdicts

CONSTANTS
  Interval,        \* period of each probe
  Timeout,         \* what bounds a check of each probe
  NamesTimeout,    \* probes whose error text tells an expired check from a failed one
  InTime,          \* what a check that ends in time reports
  Warmup,          \* --warmup
  FaultInterval,   \* a quarter of --duration
  Quarters,        \* rounds of the loop, the last of which injects nothing
  Lasts,           \* time after which a fault is reverted
  EmitGap,         \* bound on the time between the clock and the lock of emit()
  MaxLag,          \* bound on the time the handler takes to list pods and to inject
  MaxTime          \* bound on time, for model checking

ASSUME ProbeRunAssumption ==
  /\ Interval \in [Probes -> Nat \ {0}] /\ Timeout \in [Probes -> Nat \ {0}]
  /\ Warmup \in Nat \ {0} /\ FaultInterval \in Nat \ {0} /\ Quarters \in Nat \ {0}
  /\ Lasts \in [Faults -> Nat]
  /\ InTime \in [Probes -> SUBSET {"success", "failed", "timeout"}]
  /\ EmitGap \in Nat /\ MaxLag \in Nat /\ MaxTime \in Nat

VARIABLES
  cmd,        \* "run" or "explore"
  now,        \* time since the timeline was created
  events,     \* the list of the timeline
  pend,       \* pend[t]: the event t has built and not yet appended, or NoEvent
  probe,      \* where each probe task is
  due,        \* the next tick of its interval
  began,      \* when its check began
  listed,     \* the faults on the tracker's list
  timer,      \* where the task spawned with a fault is
  expire,     \* when it is due
  job,        \* where the job of the drain for a fault is
  pc,         \* where the handler is
  wake,       \* when its sleep ends
  round,      \* rounds of the loop begun
  cancelled,  \* the watch channel: true was sent, the sender was dropped, or neither
  captured    \* length of the list the baseline was taken from; 0: none

taskVars == <<probe, due, began, cancelled>>
faultVars == <<listed, timer, expire, job>>
mainVars == <<pc, wake, round, captured>>
listVars == <<events, pend>>
vars == <<cmd, now, listVars, taskVars, faultVars, mainVars>>

\* The tasks that emit: the probes, those spawned with a fault and those of
\* the drain, and the handler.
Handler == <<"handler", "main">>
Tasks == ({"probe"} \X Probes) \cup ({"timer", "job"} \X Faults) \cup {Handler}

NoEvent == [at |-> 0, kind |-> "none", who |-> "main", ms |-> 0]

RunTypeOK ==
  /\ cmd \in {"run", "explore"}
  /\ now \in 0..MaxTime
  /\ events \in Seq(Event)
  /\ pend \in [Tasks -> Event \cup {NoEvent}]
  /\ probe \in [Probes -> {"select", "checking", "emitting", "ended"}]
  /\ due \in [Probes -> Nat]
  /\ began \in [Probes -> 0..MaxTime]
  /\ listed \subseteq Faults
  /\ timer \in [Faults -> {"off", "armed", "emitting", "untracking"}]
  /\ expire \in [Faults -> Nat]
  /\ job \in [Faults -> {"none", "reverting", "emitting"}]
  /\ pc \in {"warmup", "loop", "choose", "inject", "evict", "blocked", "drain", "join",
             "stop", "count", "end", "report", "done", "exited"}
  /\ wake \in Nat
  /\ round \in 0..Quarters
  /\ pc \in {"warmup", "loop", "choose", "inject", "evict", "blocked"} => round < Quarters
  /\ cancelled \in {"no", "yes", "dropped"}
  /\ captured \in 0..Len(events)

Init ==
  /\ cmd \in {"run", "explore"}
  /\ now = 0
  /\ events = <<[at |-> 0, kind |-> "started", who |-> "main", ms |-> 0]>>
  /\ pend = [t \in Tasks |-> NoEvent]
  /\ probe = [p \in Probes |-> "select"]
  /\ due = Interval
  /\ began = [p \in Probes |-> 0]
  /\ listed = {} /\ expire = [f \in Faults |-> 0]
  /\ timer = [f \in Faults |-> "off"] /\ job = [f \in Faults |-> "none"]
  /\ pc = "warmup" /\ wake = Warmup /\ round = 0
  /\ cancelled = "no" /\ captured = 0

Alive == pc # "exited"

(***************************************************************************)
(* emit(): stamp, then append under the lock.                              *)
(***************************************************************************)
Stamp(t, kind, who, ms) ==
  /\ pend[t] = NoEvent
  /\ pend' = [pend EXCEPT ![t] = [at |-> now, kind |-> kind, who |-> who, ms |-> ms]]
  /\ UNCHANGED events

\* (Mutation: the lock is taken as a stack would give it.)
BadAppend(t) ==
  /\ pend[t] # NoEvent
  /\ events' = SubSeq(events, 1, Len(events) - 1) \o <<pend[t], events[Len(events)]>>
  /\ pend' = [pend EXCEPT ![t] = NoEvent]

Appends(t) ==
  /\ pend[t] # NoEvent
  /\ events' = Append(events, pend[t])
  /\ pend' = [pend EXCEPT ![t] = NoEvent]

(***************************************************************************)
(* A probe task.  The branches of select! are polled in random order, so   *)
(* that a task told to stop may still take a tick that is due.             *)
(***************************************************************************)
\* MissedTickBehavior::Skip: the next multiple of the period.
NextDue(p) == (now \div Interval[p] + 1) * Interval[p]

Ticks(p) ==
  /\ Alive
  /\ probe[p] = "select" /\ now >= due[p]
  /\ probe' = [probe EXCEPT ![p] = "checking"]
  /\ due' = [due EXCEPT ![p] = NextDue(p)]
  /\ began' = [began EXCEPT ![p] = now]
  /\ UNCHANGED <<cmd, now, listVars, cancelled, faultVars, mainVars>>

\* A check ends within its timeout; an error, also one that comes in time,
\* counts as a timeout if its text says so (runner.rs:82), which those of an
\* expired HTTP or gRPC client do not.
Finishes(p) ==
  /\ Alive
  /\ probe[p] = "checking"
  /\ \E kind \in IF now - began[p] < Timeout[p] THEN InTime[p]
               ELSE IF p \in NamesTimeout THEN {"timeout"} ELSE {"failed"} :
       Stamp(<<"probe", p>>, kind, p, now - began[p])
  /\ probe' = [probe EXCEPT ![p] = "emitting"]
  /\ UNCHANGED <<cmd, now, due, began, cancelled, faultVars, mainVars>>

Emits(p) ==
  /\ Alive
  /\ probe[p] = "emitting"
  /\ Appends(<<"probe", p>>)
  /\ probe' = [probe EXCEPT ![p] = "select"]
  /\ UNCHANGED <<cmd, now, due, began, cancelled, faultVars, mainVars>>

\* (Mutation: the break is missing.)
BadAfterCancel == "select"

\* What the task does once changed() returns and the value is true.
AfterCancel == "ended"

\* A dropped sender wakes the task as well, but the value is still false.
Cancelled(p) ==
  /\ Alive
  /\ probe[p] = "select" /\ cancelled = "yes"
  /\ probe' = [probe EXCEPT ![p] = AfterCancel]
  /\ UNCHANGED <<cmd, now, listVars, due, began, cancelled, faultVars, mainVars>>

ProbeStep == \E p \in Probes : Ticks(p) \/ Finishes(p) \/ Emits(p) \/ Cancelled(p)

(***************************************************************************)
(* The handler.                                                            *)
(***************************************************************************)
\* After the warmup, run takes its baseline; without samples it gives up.
EndWarmup ==
  /\ pc = "warmup" /\ now >= wake
  /\ IF cmd = "run" /\ Baseline(events, Warmup) = {}
       THEN pc' = "exited" /\ UNCHANGED <<wake, captured>>
       ELSE /\ pc' = "loop" /\ wake' = now + FaultInterval
            /\ captured' = IF cmd = "run" THEN Len(events) ELSE 0
  /\ UNCHANGED <<cmd, now, listVars, taskVars, faultVars, round>>

Woken == pc = "loop" /\ now >= wake

\* (Mutation: the time is added after the test.)
BadLastRound == round >= Quarters

LastRound == round + 1 >= Quarters

\* The last quarter ends the loop.
LoopEnds ==
  /\ Woken /\ LastRound
  /\ round' = round + 1
  /\ pc' = IF cmd = "run" THEN "drain" ELSE "stop"
  /\ UNCHANGED <<cmd, now, listVars, taskVars, faultVars, wake, captured>>

\* A SIGINT that comes after this test does not stop the round.
RoundBegins ==
  /\ Woken /\ ~LastRound /\ cancelled # "yes"
  /\ round' = round + 1 /\ pc' = "choose"
  /\ UNCHANGED <<cmd, now, listVars, taskVars, faultVars, wake, captured>>

Interrupted ==
  /\ pc = "loop" /\ cancelled = "yes"
  /\ pc' = "drain"
  /\ UNCHANGED <<cmd, now, listVars, taskVars, faultVars, wake, round, captured>>

\* The next round: `from` is where the handler was.
Resumes(from) ==
  /\ pc = from
  /\ pc' = "loop" /\ wake' = now + FaultInterval
  /\ UNCHANGED <<round, captured>>

\* No ready pod, a command that failed, or a fault that emits nothing: a time
\* warp and those of the interceptor.
Skips ==
  /\ Resumes("choose")
  /\ UNCHANGED <<cmd, now, listVars, taskVars, faultVars>>

\* The pods cannot be listed: run ends with an error; in explore the sender
\* of the channel is dropped with the simulation, the next seed goes on.
Abandons ==
  /\ pc = "choose"
  /\ IF cmd = "run" THEN pc' = "exited" /\ UNCHANGED cancelled
                    ELSE pc' = "done" /\ cancelled' = "dropped"
  /\ UNCHANGED <<cmd, now, listVars, probe, due, began, faultVars, wake, round, captured>>

\* The injection took effect (an eviction and a stress are only to be tried),
\* and its event is built; the identifier is new.
Injects(f) ==
  /\ pc = "choose"
  /\ \A i \in DOMAIN events : events[i].who # f
  /\ Stamp(Handler, "injected", f, 0)
  /\ pc' = "inject"
  /\ UNCHANGED <<cmd, now, taskVars, faultVars, wake, round, captured>>

\* What goes on the tracker's list, with a timer: explore ignores the
\* identifiers of the others.
Tracks(f) == KindOf[f] = "network" \/ (cmd = "run" /\ KindOf[f] \in {"dns", "stress"})

Injected(f) ==
  /\ pend[Handler].who = f
  /\ Appends(Handler)
  /\ IF KindOf[f] = "eviction"
       THEN pc = "inject" /\ pc' = "evict" /\ UNCHANGED <<wake, round, captured>>
       ELSE Resumes("inject")
  /\ listed' = IF Tracks(f) THEN listed \cup {f} ELSE listed
  /\ timer' = [timer EXCEPT ![f] = IF Tracks(f) \/ KindOf[f] = "stress" THEN "armed" ELSE "off"]
  /\ expire' = [expire EXCEPT ![f] = now + Lasts[f]]
  /\ UNCHANGED <<cmd, now, taskVars, job>>

\* The pod was evicted, or the call failed.
Evicts == Resumes("evict") /\ UNCHANGED <<cmd, now, listVars, taskVars, faultVars>>

\* A PodDisruptionBudget forbids the eviction, which is then said to be over.
Blocks(f) ==
  /\ pc = "evict" /\ pc' = "blocked"
  /\ KindOf[f] = "eviction"
  /\ \E i \in Injections(events) : events[i].who = f /\ \A j \in Injections(events) : j <= i
  /\ Stamp(Handler, "reverted", f, 0)
  /\ UNCHANGED <<cmd, now, taskVars, faultVars, wake, round, captured>>

Blocked == Resumes("blocked") /\ Appends(Handler) /\ UNCHANGED <<cmd, now, taskVars, faultVars>>

\* SIGINT stops the probes first; the handler then leaves its loop.
Sigint ==
  /\ cmd = "run" /\ pc \in {"loop", "choose", "inject", "evict", "blocked", "drain", "join"}
  /\ cancelled = "no"
  /\ cancelled' = "yes"
  /\ UNCHANGED <<cmd, now, listVars, probe, due, began, faultVars, mainVars>>

\* revert_all takes the list and spawns a job for each fault on it.
Takes ==
  /\ pc = "drain"
  /\ job' = [f \in Faults |-> IF f \in listed THEN "reverting" ELSE "none"]
  /\ listed' = {}
  /\ pc' = "join"
  /\ UNCHANGED <<cmd, now, listVars, taskVars, timer, expire, wake, round, captured>>

\* It has returned: no job is between its command and its event, and what did
\* not succeed in time goes back on a list that nobody reads any more.
Drained ==
  /\ pc = "join" /\ \A f \in Faults : job[f] # "emitting"
  /\ job' = [f \in Faults |-> "none"]
  /\ pc' = "stop"
  /\ UNCHANGED <<cmd, now, listVars, taskVars, listed, timer, expire, wake, round, captured>>

\* The handle awaited is that of run(), which returned when it had spawned the
\* tasks: nobody waits for them.
Stops ==
  /\ pc = "stop"
  /\ cancelled' = "yes"
  /\ pc' = IF cmd = "run" THEN "count" ELSE "report"
  /\ UNCHANGED <<cmd, now, listVars, probe, due, began, faultVars, wake, round, captured>>

Counts ==
  /\ pc = "count"
  /\ Stamp(Handler, "ended", "main", Summary(events).total_failures)
  /\ pc' = "end"
  /\ UNCHANGED <<cmd, now, taskVars, faultVars, wake, round, captured>>

Ends ==
  /\ pc = "end"
  /\ Appends(Handler)
  /\ pc' = "report"
  /\ UNCHANGED <<cmd, now, taskVars, faultVars, wake, round, captured>>

\* The list is read here: the verdicts are those of `events` in this state.
Reports ==
  /\ pc = "report"
  /\ pc' = IF cmd = "run" THEN "exited" ELSE "done"
  /\ UNCHANGED <<cmd, now, listVars, taskVars, faultVars, wake, round, captured>>

MainStep ==
  \/ EndWarmup \/ LoopEnds \/ RoundBegins \/ Interrupted \/ Skips \/ Abandons
  \/ \E f \in Faults : Injects(f) \/ Injected(f) \/ Blocks(f)
  \/ Evicts \/ Blocked \/ Takes \/ Drained \/ Stops \/ Counts \/ Ends \/ Reports

(***************************************************************************)
(* The reverts.  A timer does not look at the list: it and a job of the    *)
(* drain may both find a rule to delete, and both emit.                    *)
(***************************************************************************)
\* The command of the timer succeeded.  The task of a stress emits when the
\* command that makes the stress ends, whatever its result.
TimedRevert(f) ==
  /\ Alive
  /\ timer[f] = "armed" /\ (now >= expire[f] \/ KindOf[f] = "stress")
  /\ Stamp(<<"timer", f>>, "reverted", f, 0)
  /\ timer' = [timer EXCEPT ![f] = "emitting"]
  /\ UNCHANGED <<cmd, now, taskVars, listed, expire, job, mainVars>>

\* Then the fault comes off the list, but for a stress.
TimedReverted(f) ==
  /\ Alive
  /\ timer[f] = "emitting"
  /\ Appends(<<"timer", f>>)
  /\ timer' = [timer EXCEPT ![f] = IF KindOf[f] = "stress" THEN "off" ELSE "untracking"]
  /\ UNCHANGED <<cmd, now, taskVars, listed, expire, job, mainVars>>

Untracks(f) ==
  /\ Alive
  /\ timer[f] = "untracking"
  /\ timer' = [timer EXCEPT ![f] = "off"]
  /\ listed' = listed \ {f}
  /\ UNCHANGED <<cmd, now, listVars, taskVars, expire, job, mainVars>>

\* The command of the job succeeded; that for a stress emits nothing.
DrainReverts(f) ==
  /\ pc = "join" /\ job[f] = "reverting" /\ KindOf[f] # "stress"
  /\ Stamp(<<"job", f>>, "reverted", f, 0)
  /\ job' = [job EXCEPT ![f] = "emitting"]
  /\ UNCHANGED <<cmd, now, taskVars, listed, timer, expire, mainVars>>

DrainReverted(f) ==
  /\ pc = "join" /\ job[f] = "emitting"
  /\ Appends(<<"job", f>>)
  /\ job' = [job EXCEPT ![f] = "none"]
  /\ UNCHANGED <<cmd, now, taskVars, listed, timer, expire, mainVars>>

RevertStep ==
  \E f \in Faults :
    TimedRevert(f) \/ TimedReverted(f) \/ Untracks(f) \/ DrainReverts(f) \/ DrainReverted(f)

(***************************************************************************)
(* Time.                                                                   *)
(***************************************************************************)
\* What has to happen before time goes on: an append that has waited long
\* enough, a check that has timed out, a branch of select! that is ready, and
\* the steps of the handler that await nothing or no more than a timer.
Urgent ==
  \/ \E t \in Tasks : pend[t] # NoEvent /\ now >= pend[t].at + EmitGap
  \/ \E p \in Probes : probe[p] = "checking" /\ now - began[p] >= Timeout[p]
  \/ \E p \in Probes : probe[p] = "select" /\ (now >= due[p] \/ cancelled = "yes")
  \/ pc = "warmup" /\ now >= wake
  \/ pc = "loop" /\ (cancelled = "yes" \/ now >= wake)
  \/ pc \in {"choose", "evict"} /\ now >= wake + MaxLag
  \/ pc \in {"drain", "stop", "count", "report"}

Tick ==
  /\ Alive
  /\ now < MaxTime /\ ~Urgent
  /\ now' = now + 1
  /\ UNCHANGED <<cmd, listVars, taskVars, faultVars, mainVars>>

Next == ProbeStep \/ MainStep \/ Sigint \/ RevertStep \/ Tick

\* The runtime runs every task that is ready and every check has a timeout;
\* select! picks among its ready branches at random.
Fairness ==
  /\ \A p \in Probes : WF_vars(Ticks(p)) /\ WF_vars(Finishes(p)) /\ WF_vars(Emits(p))
  /\ \A p \in Probes : SF_vars(Cancelled(p))

Spec == Init /\ [][Next]_vars /\ Fairness

(***************************************************************************)
(* What the tasks make of the list.                                        *)
(***************************************************************************)
Bus == INSTANCE TimelineBus WITH
  Answers <- [who : Probes, kind : {"success", "failed", "timeout"}, ms : 0..MaxTime]

\* However the tasks race for the lock, the list grows as TimelineBus says
\* (bus.rs:33-87): events are at most EmitGap out of order, those of a probe or
\* of the handler not at all, a fault is injected once and before all its
\* reverts, and the totals of SimulationEnded are those of a list that was
\* there before.
\* So what that module shows of the verdicts holds of every run.
RefinesBus == Bus!Spec

\* The baseline is a copy of the list taken while probes are emitting
\* (main.rs:962); the chaos phase is read from the list at the end.  No sample
\* is in both and none was taken under a fault; a probe has at most one that
\* is in neither, of the last moments of the warmup.
PhasesApart ==
  captured > 0 =>
    LET before == Baseline(SubSeq(events, 1, captured), Warmup)
        after == ChaosPhase(events, Warmup)
        lost == Samples(events) \ (before \cup after)
    IN /\ before \cap after = {}
       /\ \A i \in Injections(events), j \in before : events[i].at > events[j].at
       /\ \A i \in lost : events[i].at + EmitGap >= Warmup
       /\ \A p \in Probes : Cardinality(By(events, lost, p)) <= 1

(***************************************************************************)
(* Liveness.                                                               *)
(***************************************************************************)
\* Once told to stop, every probe task ends, whatever check it is in and
\* however often select! prefers the tick (runner.rs:57-62).
ProbesEnd == cancelled = "yes" ~> pc = "exited" \/ \A p \in Probes : probe[p] = "ended"
=============================================================================
