---------------------------- MODULE PtraceTracer ----------------------------
(***************************************************************************)
(* trace_with_faults (crates/intercept/src/tracer.rs) and the tracer it    *)
(* drives (ptrace.rs): attach to every thread, then wait for a thread to   *)
(* enter a system call, decide with the handler (handler.rs), see the call *)
(* through to its exit, and so on until the deadline; detach and exit.     *)
(*                                                                         *)
(* The tracer is one thread.  A step of it ends where it waits for a       *)
(* status, and where threads of the target may move between two requests   *)
(* with a visible difference.  A delay inside a step is a chance for time  *)
(* to pass, which Expire takes at any step.                                *)
(***************************************************************************)
EXTENDS Tracees

CONSTANT Config   \* what the NetworkFaultConfig does to a connect

ASSUME ConfigAssumption == Config \in {"connect_error", "connect_latency"}

VARIABLES
  pc,         \* where the tracer is
  todo,       \* the directory entries of /proc/PID/task not yet attached
  table,      \* threads: the tracer's view of each thread
  cur,        \* the thread in hand: the one handled, or the parent of a clone
              \* (Leader if there is none)
  expired,    \* the deadline has passed
  shutdown,   \* the flag set by SIGINT
  outcome     \* what trace_with_faults returns

tracerState == <<pc, todo, table, cur, expired, shutdown, outcome>>
vars == <<threadVars, tracerState>>

PC == {"enumerate", "attach", "loop", "poll", "childwait", "handle", "exitwait",
       "detach", "leave", "done"}

TracerTypeOK ==
  /\ ThreadsTypeOK
  /\ pc \in PC
  /\ todo \subseteq Threads
  /\ table \in [Threads -> {"none", "Running", "SyscallEntry"}]
  /\ cur \in Threads
  /\ expired \in BOOLEAN
  /\ shutdown \in BOOLEAN
  /\ outcome \in {"none", "ok", "error", "sigint"}
  /\ outcome = "none" <=> pc \notin {"detach", "leave", "done"}

Init ==
  /\ ThreadsInit
  /\ pc = "enumerate"
  /\ todo = {}
  /\ table = [t \in Threads |-> "none"]
  /\ cur = Leader
  /\ expired = FALSE
  /\ shutdown = FALSE
  /\ outcome = "none"

Listed == {t \in Threads : table[t] # "none"}

\* (Mutation: the result of the loop is dropped.)
BadGiveUp(p, result) == pc' = p /\ UNCHANGED outcome

\* The function returns to its caller, which goes on at p.
GiveUp(p, result) == pc' = p /\ outcome' = result

\* ptrace::syscall(t, _) for all of S, whatever was reported of them.
Resume(S) ==
  /\ place' = Resumed(place, S)
  /\ pending' = pending \ Stopped(S)

\* waitpid reports t, which has died.
Reap(t) ==
  /\ place' = [place EXCEPT ![t] = "gone"]
  /\ traced' = traced \ {t}
  /\ pending' = pending \ {t}

(***************************************************************************)
(* trace_process.                                                          *)
(***************************************************************************)
\* No entry for a process that has gone: the fallback attaches to its PID and fails.
Enumerate ==
  /\ pc = "enumerate"
  /\ IF Live = {} THEN GiveUp("leave", "error") /\ UNCHANGED todo
     ELSE todo' = Live /\ pc' = "attach" /\ UNCHANGED outcome
  /\ UNCHANGED <<threadVars, table, cur, expired, shutdown>>

\* Attach, wait for the stop, set the options; a thread that has gone is skipped.
Attach(t) ==
  /\ pc = "attach" /\ t \in todo
  /\ todo' = todo \ {t}
  /\ IF t \in Live
     THEN /\ place' = [place EXCEPT ![t] = "signal"]
          /\ traced' = traced \cup {t}
          /\ table' = [table EXCEPT ![t] = "Running"]
     ELSE UNCHANGED <<place, traced, table>>
  /\ UNCHANGED <<call, child, pending, pc, cur, expired, shutdown, outcome>>

\* Any other errno (the thread has another tracer): trace_with_faults returns,
\* with some threads attached, and so does main.
AttachFails ==
  /\ pc = "attach" /\ todo # {}
  /\ GiveUp("leave", "error")
  /\ UNCHANGED <<threadVars, todo, table, cur, expired, shutdown>>

AllAttached ==
  /\ pc = "attach" /\ todo = {}
  /\ pc' = "loop"
  /\ UNCHANGED <<threadVars, todo, table, cur, expired, shutdown, outcome>>

(***************************************************************************)
(* run_loop and wait_for_syscall.                                          *)
(***************************************************************************)
StopGracefully ==
  /\ pc = "loop" /\ shutdown
  /\ GiveUp("detach", "ok")
  /\ UNCHANGED <<threadVars, todo, table, cur, expired, shutdown>>

ResumeRunning ==
  /\ pc = "loop" /\ ~shutdown
  /\ Resume({t \in Threads : table[t] = "Running"})
  /\ pc' = "poll"
  /\ UNCHANGED <<call, child, traced, todo, table, cur, expired, shutdown, outcome>>

DurationExpired ==
  /\ pc = "poll" /\ expired
  /\ GiveUp("detach", "ok")
  /\ UNCHANGED <<threadVars, todo, table, cur, expired, shutdown>>

\* ECHILD: there is nothing to wait for.
NoChildren ==
  /\ pc = "poll" /\ ~expired /\ traced = {}
  /\ GiveUp("detach", "error")
  /\ UNCHANGED <<threadVars, todo, table, cur, expired, shutdown>>

Polls(t) == pc = "poll" /\ ~expired /\ Waitable(t)

\* PtraceSyscall: taken for an entry, whichever it is.
SyscallStop(t) ==
  /\ Polls(t) /\ place[t] \in {"entry", "exit"}
  /\ pending' = pending \ {t}
  /\ table' = [table EXCEPT ![t] = "SyscallEntry"]
  /\ cur' = t
  /\ pc' = "handle"
  /\ UNCHANGED <<place, call, child, traced, todo, expired, shutdown, outcome>>

\* PTRACE_EVENT_CLONE: wait for the new thread next.
CloneEvent(t) ==
  /\ Polls(t) /\ place[t] = "clone"
  /\ pending' = pending \ {t}
  /\ cur' = t
  /\ pc' = "childwait"
  /\ UNCHANGED <<place, call, child, traced, todo, table, expired, shutdown, outcome>>

\* The first stop of the new thread, or any later one: both threads go on.  (It
\* cannot have been reaped before, so the branch for ECHILD is not taken.)
ChildStopped ==
  LET n == child[cur] IN
  /\ pc = "childwait" /\ Waitable(n) /\ place[n] \in Stops
  /\ Resume({n, cur})
  /\ table' = [table EXCEPT ![n] = "Running", ![cur] = "Running"]
  /\ cur' = Leader
  /\ pc' = "poll"
  /\ UNCHANGED <<call, child, traced, todo, expired, shutdown, outcome>>

\* The wait reports its death, and setoptions fails.
ChildDied ==
  /\ pc = "childwait" /\ Waitable(child[cur]) /\ place[child[cur]] \in Deaths
  /\ Reap(child[cur])
  /\ GiveUp("detach", "error")
  /\ UNCHANGED <<call, child, todo, table, cur, expired, shutdown>>

\* A signal is passed on; a thread the table lacks stays out of it.
SignalStop(t) ==
  /\ Polls(t) /\ place[t] = "signal"
  /\ Resume({t})
  /\ table' = [table EXCEPT ![t] = IF @ = "none" THEN @ ELSE "Running"]
  /\ UNCHANGED <<call, child, traced, pc, todo, cur, expired, shutdown, outcome>>

\* Forget(t): threads.remove.
Forget(t) == table' = [table EXCEPT ![t] = "none"]

Died(t) ==
  /\ Polls(t) /\ place[t] \in Deaths
  /\ Reap(t)
  /\ Forget(t)
  /\ IF t = Leader \/ Listed \subseteq {t}
     THEN GiveUp("detach", IF place[t] = "exited" THEN "ok" ELSE "error")
     ELSE UNCHANGED <<pc, outcome>>
  /\ UNCHANGED <<call, child, todo, cur, expired, shutdown>>

(***************************************************************************)
(* The handler, set_result and wait_for_syscall_exit.                      *)
(***************************************************************************)
Handle(c) ==
  IF c # "connect" THEN "Allow" ELSE IF Config = "connect_error" THEN "Block" ELSE "Delay"

\* (Mutation: an allowed call is resumed without waiting for its exit.)
BadSetResult ==
  /\ pc = "handle" /\ place[cur] \in Stops
  /\ Resume({cur})
  /\ call' = IF Handle(call[cur]) = "Block" /\ place[cur] = "entry"
             THEN [call EXCEPT ![cur] = "return"] ELSE call
  /\ IF Handle(call[cur]) = "Allow"
     THEN table' = [table EXCEPT ![cur] = "Running"] /\ pc' = "loop"
     ELSE UNCHANGED table /\ pc' = "exitwait"
  /\ UNCHANGED <<child, traced, todo, cur, expired, shutdown, outcome>>

\* A blocked call is replaced by one the kernel skips, if it has not run yet.
SetResult ==
  /\ pc = "handle" /\ place[cur] \in Stops
  /\ Resume({cur})
  /\ call' = IF Handle(call[cur]) = "Block" /\ place[cur] = "entry"
             THEN [call EXCEPT ![cur] = "return"] ELSE call
  /\ pc' = "exitwait"
  /\ UNCHANGED <<child, traced, todo, table, cur, expired, shutdown, outcome>>

\* The thread has been killed since: ESRCH.
SetResultFails ==
  /\ pc = "handle" /\ place[cur] \notin Stops
  /\ GiveUp("detach", "error")
  /\ UNCHANGED <<threadVars, todo, table, cur, expired, shutdown>>

\* (Mutation: the thread is not marked as running again.)
BadExitStop ==
  /\ pc = "exitwait" /\ Waitable(cur) /\ place[cur] \in {"entry", "exit"}
  /\ pending' = pending \ {cur}
  /\ cur' = Leader
  /\ pc' = "loop"
  /\ UNCHANGED <<place, call, child, traced, todo, table, expired, shutdown, outcome>>

\* PtraceSyscall: the thread stays in this stop until the next wait_for_syscall.
ExitStop ==
  /\ pc = "exitwait" /\ Waitable(cur) /\ place[cur] \in {"entry", "exit"}
  /\ pending' = pending \ {cur}
  /\ table' = [table EXCEPT ![cur] = "Running"]
  /\ cur' = Leader
  /\ pc' = "loop"
  /\ UNCHANGED <<place, call, child, traced, todo, expired, shutdown, outcome>>

\* A signal is passed on, an event passed over.
OtherStop ==
  /\ pc = "exitwait" /\ Waitable(cur) /\ place[cur] \in {"signal", "clone"}
  /\ Resume({cur})
  /\ UNCHANGED <<call, child, traced, tracerState>>

DiedInCall ==
  /\ pc = "exitwait" /\ Waitable(cur) /\ place[cur] \in Deaths
  /\ Reap(cur)
  /\ GiveUp("detach", "error")
  /\ UNCHANGED <<call, child, todo, table, cur, expired, shutdown>>

(***************************************************************************)
(* detach and the end of the process.                                      *)
(***************************************************************************)
\* (Mutation: a thread stays listed until it could be detached.)
BadDetach(t) ==
  /\ pc = "detach" /\ t \in Listed
  /\ IF place[t] \in Stops
     THEN /\ Forget(t)
          /\ place' = [place EXCEPT ![t] = "user"]
          /\ traced' = traced \ {t}
          /\ pending' = pending \ {t}
     ELSE UNCHANGED <<table, place, traced, pending>>
  /\ UNCHANGED <<call, child, pc, todo, cur, expired, shutdown, outcome>>

\* PTRACE_DETACH fails on a thread that is not stopped, which is only logged.
Detach(t) ==
  /\ pc = "detach" /\ t \in Listed
  /\ Forget(t)
  /\ IF place[t] \in Stops
     THEN /\ place' = [place EXCEPT ![t] = "user"]
          /\ traced' = traced \ {t}
          /\ pending' = pending \ {t}
     ELSE UNCHANGED <<place, traced, pending>>
  /\ UNCHANGED <<call, child, pc, todo, cur, expired, shutdown, outcome>>

Detached ==
  /\ pc = "detach" /\ Listed = {}
  /\ pc' = "leave"
  /\ UNCHANGED <<threadVars, todo, table, cur, expired, shutdown, outcome>>

\* The process exits: PTRACE_O_EXITKILL kills the target if a thread is still attached.
Leave ==
  /\ pc = "leave"
  /\ pc' = "done"
  /\ IF Live \cap traced = {} THEN UNCHANGED place
     ELSE place' = [t \in Threads |-> IF t \in Live THEN "signaled" ELSE place[t]]
  /\ UNCHANGED <<call, child, traced, pending, todo, table, cur, expired, shutdown, outcome>>

(***************************************************************************)
(* Time and SIGINT.                                                        *)
(***************************************************************************)
Expire ==
  /\ pc \notin {"enumerate", "attach", "done"} /\ ~expired
  /\ expired' = TRUE
  /\ UNCHANGED <<threadVars, pc, todo, table, cur, shutdown, outcome>>

\* Before the handler is registered SIGINT ends the tracer.
Sigint ==
  /\ IF pc \in {"enumerate", "attach"}
     THEN GiveUp("leave", "sigint") /\ UNCHANGED shutdown
     ELSE pc \notin {"leave", "done"} /\ shutdown' = TRUE /\ UNCHANGED <<pc, outcome>>
  /\ UNCHANGED <<threadVars, todo, table, cur, expired>>

ReportOf(t) == SyscallStop(t) \/ CloneEvent(t) \/ SignalStop(t) \/ Died(t)

TracerStep ==
  \/ Enumerate \/ AttachFails \/ AllAttached
  \/ StopGracefully \/ ResumeRunning \/ DurationExpired \/ NoChildren
  \/ ChildStopped \/ ChildDied
  \/ SetResult \/ SetResultFails \/ ExitStop \/ OtherStop \/ DiedInCall
  \/ Detached \/ Leave
  \/ \E t \in Threads : Attach(t) \/ ReportOf(t) \/ Detach(t)

TargetStep == pc \notin {"leave", "done"} /\ ThreadStep /\ UNCHANGED tracerState

Next == TracerStep \/ TargetStep \/ Expire \/ Sigint
Fairness ==
  /\ WF_vars(TracerStep)
  /\ WF_vars(Expire)
  /\ \A t \in Threads : WF_vars(pc \notin {"leave", "done"} /\ Executes(t) /\ UNCHANGED tracerState)
Spec == Init /\ [][Next]_vars /\ Fairness

(***************************************************************************)
(* Properties.                                                             *)
(***************************************************************************)
\* While the tracer waits, every stopped thread has a status the tracer will
\* be given: no thread hangs in a stop that nobody will look at.
NoStopForgotten ==
  pc \in {"poll", "childwait", "exitwait"} =>
    \A t \in traced : place[t] \in Stops =>
      t \in pending \/ (pc = "childwait" /\ t = cur)

\* Until it gives up, the tracer lists only threads it still traces, so it
\* makes no request of a thread number the kernel may have given away; and
\* only the thread in hand is listed as stopped at an entry.
TableSound ==
  pc \in {"attach", "loop", "poll", "childwait", "handle", "exitwait"} =>
    \A t \in Listed : t \in traced
      /\ (table[t] = "SyscallEntry" <=> pc \in {"handle", "exitwait"} /\ t = cur)

\* What the tracer knows of its threads and what the kernel has to tell it
\* never contradict each other.
TracerInformed == NoStopForgotten /\ TableSound

\* A traced thread never gets a connect past the tracer that must refuse it
\* (CHANGELOG: "no threads escape fault injection").
NoConnectEscapes ==
  Config = "connect_error" => \A t \in Threads : ~InKernel(t, "connect")

\* With a single thread the tracer stays in step with it: it waits for an
\* entry when one is due and for an exit after that, and no connect escapes.
Alone == \A t \in Threads \ {Leader} : place[t] = "none"
AloneInStep ==
  Alone /\ Leader \in traced =>
    /\ NoConnectEscapes
    /\ pc = "poll" => place[Leader] \notin {"kernel", "exit", "clone"}
    /\ pc = "exitwait" => place[Leader] \notin {"user", "entry"}

\* The trace ends, or the tracer waits for ever for one thread: one that
\* waits for another, that makes no call though one is awaited (the tracer is
\* out of step), or the dead leader of threads the tracer has not reaped.
Awaited == IF pc = "childwait" THEN child[cur] ELSE cur
Stuck ==
  /\ pc \in {"childwait", "exitwait"}
  /\ \/ InKernel(Awaited, "wait")
     \/ place[Awaited] \in {"user", "signal"}
     \/ Awaited = Leader /\ place[Leader] \in Deaths
EndsOrStuck == <>(pc = "done") \/ <>[]Stuck
=============================================================================
