---------------------------- MODULE FaultTracker ----------------------------
(***************************************************************************)
(* FaultTracker (crates/k8s/src/fault_tracker.rs) with every client it may *)
(* have: tasks that track a fault, the timed-revert task of a fault, and   *)
(* any number of concurrent calls of revert_all.                           *)
(*                                                                         *)
(* A step ends where the code awaits, takes or frees the mutex, or touches *)
(* the `reverting` flag.  The Vec of active faults is a set: the code      *)
(* searches it by identifier and never by position, and PartsDisjoint says *)
(* that no fault is ever put into it twice.  Pods and the commands a       *)
(* revert consists of are in ChaosRun; here a revert returns Ok or not.    *)
(***************************************************************************)

CONSTANTS
  Faults,  \* identifiers of faults
  Calls    \* the calls of revert_all, each made at most once

VARIABLES
  active,     \* FaultTracker.active: the faults the tracker lists
  reverting,  \* FaultTracker.reverting: the guard of revert_all
  call,       \* call[c]: how far the call c of revert_all has come
  held,       \* faults whose revert job the draining call has spawned and not collected
  requeue,    \* faults the draining call collected as failed
  timer,      \* timer[f]: the timed-revert task of f
  tracked,    \* history: the faults ever tracked
  settled     \* history: the faults some revert of which returned Ok

trackerVars == <<active, reverting, call, held, requeue, timer, tracked, settled>>

CallState == {"idle", "waiting", "claimed", "draining", "returned"}
TimerState == {"none", "armed", "confirmed", "done"}

\* The faults somebody is still responsible for.
Owed == active \cup held \cup requeue

Owners == {c \in Calls : call[c] \in {"claimed", "draining"}}

TrackerTypes ==
  /\ active \subseteq Faults
  /\ reverting \in BOOLEAN
  /\ call \in [Calls -> CallState]
  /\ held \subseteq Faults
  /\ requeue \subseteq Faults
  /\ timer \in [Faults -> TimerState]
  /\ tracked \subseteq Faults
  /\ settled \subseteq Faults

\* The tracker keeps its types, and the JoinSet of jobs and the list of failed
\* faults, which are locals of the call that drains, are empty while none does.
TrackerTypeOK ==
  /\ TrackerTypes
  /\ reverting \/ (held = {} /\ requeue = {})

TrackerInit ==
  /\ active = {}
  /\ reverting = FALSE
  /\ call = [c \in Calls |-> "idle"]
  /\ held = {}
  /\ requeue = {}
  /\ timer = [f \in Faults |-> "none"]
  /\ tracked = {}
  /\ settled = {}

-----------------------------------------------------------------------------
\* Mutations: each is an action below with one plausible mistake, and breaks
\* the property named.  They are used in place of the action, never beside it.

\* TrackerTypeOK: the flag is freed once the jobs are spawned, not collected.
BadEarlyRelease(c) ==
  /\ call[c] = "draining"
  /\ reverting' = FALSE
  /\ call' = [call EXCEPT ![c] = "returned"]
  /\ UNCHANGED <<active, held, requeue, timer, tracked, settled>>

\* DrainApart: the flag is set without being tested.
BadClaimGuard(c) ==
  /\ call[c] = "idle"
  /\ reverting' = TRUE
  /\ call' = [call EXCEPT ![c] = "claimed"]
  /\ UNCHANGED <<active, held, requeue, timer, tracked, settled>>

\* NoFaultForgotten: the failed faults replace what was tracked meanwhile.
BadRequeue(c) ==
  /\ call[c] = "draining"
  /\ held = {}
  /\ requeue # {}
  /\ active' = requeue
  /\ requeue' = {}
  /\ UNCHANGED <<reverting, call, held, timer, tracked, settled>>

\* RefinesLedger: the task untracks a fault whose revert failed.
BadTimedRevertErr(f) ==
  /\ timer[f] = "armed"
  /\ timer' = [timer EXCEPT ![f] = "done"]
  /\ active' = active \ {f}
  /\ UNCHANGED <<reverting, call, held, requeue, tracked, settled>>

\* DrainEnds: the draining call returns without freeing the guard.
BadRelease(c) ==
  /\ call[c] = "draining"
  /\ held = {}
  /\ requeue = {}
  /\ call' = [call EXCEPT ![c] = "returned"]
  /\ UNCHANGED <<active, reverting, held, requeue, timer, tracked, settled>>

-----------------------------------------------------------------------------
\* The clients of the tracker.

\* track(), and the spawn of the timed-revert task that follows it without an
\* await; `timed` is FALSE for the faults that get no such task (stress).
Track(f, timed) ==
  /\ f \notin tracked
  /\ active' = active \cup {f}
  /\ tracked' = tracked \cup {f}
  /\ timer' = [timer EXCEPT ![f] = IF timed THEN "armed" ELSE "none"]
  /\ UNCHANGED <<reverting, call, held, requeue, settled>>

\* The timed revert of f returns Ok; the task has yet to call untrack().
TimedRevertOk(f) ==
  /\ timer[f] = "armed"
  /\ timer' = [timer EXCEPT ![f] = "confirmed"]
  /\ settled' = settled \cup {f}
  /\ UNCHANGED <<active, reverting, call, held, requeue, tracked>>

\* It returns Err: the task logs "will retry at shutdown" and ends.
TimedRevertErr(f) ==
  /\ timer[f] = "armed"
  /\ timer' = [timer EXCEPT ![f] = "done"]
  /\ UNCHANGED <<active, reverting, call, held, requeue, tracked, settled>>

\* untrack(): removes f from the list, and from nowhere else.
Untrack(f) ==
  /\ timer[f] = "confirmed"
  /\ active' = active \ {f}
  /\ timer' = [timer EXCEPT ![f] = "done"]
  /\ UNCHANGED <<reverting, call, held, requeue, tracked, settled>>

-----------------------------------------------------------------------------
\* revert_all().

\* compare_exchange(false, true) succeeds: this call drains.
ClaimGuard(c) ==
  /\ call[c] = "idle"
  /\ ~reverting
  /\ reverting' = TRUE
  /\ call' = [call EXCEPT ![c] = "claimed"]
  /\ UNCHANGED <<active, held, requeue, timer, tracked, settled>>

\* compare_exchange fails: this call polls the flag.
JoinWait(c) ==
  /\ call[c] = "idle"
  /\ reverting
  /\ call' = [call EXCEPT ![c] = "waiting"]
  /\ UNCHANGED <<active, reverting, held, requeue, timer, tracked, settled>>

\* A poll finds the flag free: the waiting call returns no results.
WaitOver(c) ==
  /\ call[c] = "waiting"
  /\ ~reverting
  /\ call' = [call EXCEPT ![c] = "returned"]
  /\ UNCHANGED <<active, reverting, held, requeue, timer, tracked, settled>>

\* mem::take of the list under the lock, and one revert job per fault taken.
TakeAll(c) ==
  /\ call[c] = "claimed"
  /\ held' = active
  /\ active' = {}
  /\ call' = [call EXCEPT ![c] = "draining"]
  /\ UNCHANGED <<reverting, requeue, timer, tracked, settled>>

\* The job of f ends well and join_next() collects it.
JobOk(f) ==
  /\ f \in held
  /\ held' = held \ {f}
  /\ settled' = settled \cup {f}
  /\ UNCHANGED <<active, reverting, call, requeue, timer, tracked>>

\* The job of f fails or hits its 10 s timeout, and is collected.  All jobs
\* start together, so the 30 s total deadline cannot pass before all of them
\* have ended.  A job that panicked would be passed over, but none can.
JobErr(f) ==
  /\ f \in held
  /\ held' = held \ {f}
  /\ requeue' = requeue \cup {f}
  /\ UNCHANGED <<active, reverting, call, timer, tracked, settled>>

\* All jobs collected: what failed goes back to the list, under the lock.
Requeue(c) ==
  /\ call[c] = "draining"
  /\ held = {}
  /\ requeue # {}
  /\ active' = active \cup requeue
  /\ requeue' = {}
  /\ UNCHANGED <<reverting, call, held, timer, tracked, settled>>

\* store(false) and return; also the early return for an empty list.
Release(c) ==
  /\ call[c] = "draining"
  /\ held = {}
  /\ requeue = {}
  /\ reverting' = FALSE
  /\ call' = [call EXCEPT ![c] = "returned"]
  /\ UNCHANGED <<active, held, requeue, timer, tracked, settled>>

-----------------------------------------------------------------------------
ClientStep(f) ==
  \/ \E timed \in BOOLEAN : Track(f, timed)
  \/ TimedRevertOk(f)
  \/ TimedRevertErr(f)
  \/ Untrack(f)

CallStep(c) ==
  \/ ClaimGuard(c)
  \/ JoinWait(c)
  \/ WaitOver(c)
  \/ TakeAll(c)
  \/ Requeue(c)
  \/ Release(c)

JobStep(f) == JobOk(f) \/ JobErr(f)

TrackerNext ==
  \/ \E f \in Faults : ClientStep(f) \/ JobStep(f)
  \/ \E c \in Calls : CallStep(c)

TrackerSpec == TrackerInit /\ [][TrackerNext]_trackerVars

\* Whoever runs revert_all keeps being scheduled, and a job ends, at the
\* latest at its timeout.  Nobody has to call revert_all, to track a fault or
\* to see a timer fire.
Fairness ==
  /\ \A c \in Calls : WF_trackerVars(WaitOver(c) \/ TakeAll(c) \/ Requeue(c) \/ Release(c))
  /\ \A f \in Faults : WF_trackerVars(JobStep(f))

FairTrackerSpec == TrackerSpec /\ Fairness

-----------------------------------------------------------------------------
\* At most one call of revert_all drains, and the flag is up exactly while
\* one does: two calls never split the list, and no call leaves the flag up.
OneDrain ==
  /\ \A c, d \in Owners : c = d
  /\ reverting <=> Owners # {}

\* A fault is listed, or in a job, or failed and about to be listed again, and
\* never two of these: no fault gets two jobs of a drain or two list entries.
PartsDisjoint ==
  /\ active \cap held = {}
  /\ active \cap requeue = {}
  /\ held \cap requeue = {}

\* Both at once: the flag keeps drains apart, and the list, the jobs and the
\* failed faults partition what one drain and the other tasks hold.
DrainApart == OneDrain /\ PartsDisjoint

\* Every fault ever tracked is still owed or a revert of it was confirmed:
\* neither a racing untrack(), nor a drain, nor a failed job loses one.
NoFaultForgotten == tracked \subseteq Owed \cup settled

\* The tracker implements the ledger: draining, failing and requeueing strike
\* off nothing that was not confirmed, and owe nothing that was not tracked.
Ledger == INSTANCE FaultLedger WITH owed <- Owed
RefinesLedger == Ledger!LedgerSpec

\* A call of revert_all, the waiting ones too, returns: the flag a waiter
\* polls is always taken down again.
CallsReturn == \A c \in Calls : call[c] # "idle" ~> call[c] = "returned"

\* A fault a drain has taken out of the list is confirmed or listed again.
TakenComesBack == \A f \in Faults : f \in held ~> f \in active \cup settled

\* A drain gives back all it took: the flag to those that wait for it, and
\* every fault to the list or to those that are settled.
DrainEnds == CallsReturn /\ TakenComesBack
=============================================================================
