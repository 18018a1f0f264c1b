------------------------------ MODULE Tracees ------------------------------
(***************************************************************************)
(* The threads of a target process and what the kernel's ptrace does to    *)
(* them, as far as crates/intercept/src/ptrace.rs uses it: every thread    *)
(* resumed with PTRACE_SYSCALL stops at the entry and at the exit of each  *)
(* system call, at a clone (PTRACE_O_TRACECLONE) and at a signal; waitpid  *)
(* reports each stop once; PTRACE_O_EXITKILL is set on every tracee.       *)
(*                                                                         *)
(* Three rules of the kernel matter most here.  A stopped thread can be    *)
(* resumed whether or not its stop was reported, and an unreported stop is *)
(* then never reported.  Only a stopped thread can be detached.  The death *)
(* of the leader is reported after all other threads have been reaped.     *)
(***************************************************************************)
EXTENDS Naturals, FiniteSets

CONSTANTS
  Threads,    \* the threads the target may ever have
  Leader      \* its first thread

ASSUME LeaderAssumption == Leader \in Threads

VARIABLES
  place,      \* where each thread is
  call,       \* the system call it makes; "return" if it is about to return
  child,      \* the thread its clone made (PTRACE_GETEVENTMSG)
  traced,     \* the threads attached to the tracer
  pending     \* those of them with a status waitpid has not reported

threadVars == <<place, call, child, traced, pending>>

\* What a thread asks of the kernel.  "wait" returns when another thread has
\* made a call of kind "other"; every other call returns by itself.
Calls == {"connect", "other", "clone", "wait", "exit", "exit_group"}

Stops == {"entry", "exit", "clone", "signal"}
Deaths == {"exited", "signaled"}

Live == {t \in Threads : place[t] \in Stops \cup {"user", "kernel"}}
Reaped(t) == place[t] \in {"none", "gone"}

ThreadsTypeOK ==
  /\ place \in [Threads -> Stops \cup Deaths \cup {"none", "user", "kernel", "gone"}]
  /\ call \in [Threads -> Calls \cup {"return"}]
  /\ child \in [Threads -> Threads]
  /\ traced \subseteq Threads
  /\ pending \subseteq traced

\* The target has some threads, all running, when the tracer starts.
ThreadsInit ==
  /\ place \in {p \in [Threads -> {"none", "user"}] : p[Leader] = "user"}
  /\ call = [t \in Threads |-> "return"]
  /\ child = [t \in Threads |-> Leader]
  /\ traced = {}
  /\ pending = {}

(***************************************************************************)
(* waitpid and the requests of the tracer.                                 *)
(***************************************************************************)
Waitable(t) ==
  /\ t \in pending
  /\ (t = Leader /\ place[t] \in Deaths) => \A u \in Threads \ {t} : Reaped(u)

\* Resumed(p, S): the places p after PTRACE_SYSCALL on those of S that are stopped.
Resumed(p, S) ==
  [t \in Threads |->
     IF t \in S /\ p[t] \in {"entry", "clone"} THEN "kernel"
     ELSE IF t \in S /\ p[t] \in {"exit", "signal"} THEN "user" ELSE p[t]]

Stopped(S) == {t \in S : place[t] \in Stops}

(***************************************************************************)
(* What threads do by themselves.                                          *)
(***************************************************************************)
\* A traced thread makes a system call and stops at its entry.
Enter(t) ==
  /\ t \in traced /\ place[t] = "user"
  /\ \E c \in Calls : call' = [call EXCEPT ![t] = c]
  /\ place' = [place EXCEPT ![t] = "entry"]
  /\ pending' = pending \cup {t}
  /\ UNCHANGED <<child, traced>>

\* A signal arrives for a traced thread.
Signal(t) ==
  /\ t \in traced /\ place[t] = "user"
  /\ place' = [place EXCEPT ![t] = "signal"]
  /\ pending' = pending \cup {t}
  /\ UNCHANGED <<call, child, traced>>

InKernel(t, c) == t \in traced /\ place[t] = "kernel" /\ call[t] = c

\* The call returns, and the thread stops at its exit.
Return(t) ==
  /\ \E c \in {"connect", "other", "return"} : InKernel(t, c)
  /\ place' = [place EXCEPT ![t] = "exit"]
  /\ pending' = pending \cup {t}
  /\ call' = [u \in Threads |->
                IF u = t \/ (call[t] = "other" /\ InKernel(u, "wait")) THEN "return" ELSE call[u]]
  /\ child' = [child EXCEPT ![t] = Leader]
  /\ UNCHANGED traced

\* The new thread is traced from its first instruction and stops there.
Clone(t, n) ==
  /\ InKernel(t, "clone") /\ place[n] = "none"
  /\ place' = [place EXCEPT ![t] = "clone", ![n] = "signal"]
  /\ call' = [call EXCEPT ![t] = "return"]
  /\ child' = [child EXCEPT ![t] = n]
  /\ traced' = traced \cup {n}
  /\ pending' = pending \cup {t, n}

\* A clone beyond the threads of the model fails with EAGAIN.
CloneFails(t) ==
  /\ InKernel(t, "clone") /\ \A n \in Threads : place[n] # "none"
  /\ call' = [call EXCEPT ![t] = "return"]
  /\ UNCHANGED <<place, child, traced, pending>>

\* The thread ends; there is no exit stop.
ThreadExit(t) ==
  /\ InKernel(t, "exit")
  /\ place' = [place EXCEPT ![t] = "exited"]
  /\ pending' = pending \cup {t}
  /\ UNCHANGED <<call, child, traced>>

\* Dying(p): every thread dies, the untraced ones without a trace.
Dying(d) ==
  /\ place' = [t \in Threads |-> IF t \notin Live THEN place[t]
                                 ELSE IF t \in traced THEN d ELSE "gone"]
  /\ pending' = pending \cup (Live \cap traced)
  /\ UNCHANGED <<call, child, traced>>

ExitGroup(t) == InKernel(t, "exit_group") /\ Dying("exited")

\* SIGKILL, or another signal that is fatal, from outside or from a forward.
Kill == Live # {} /\ Dying("signaled")

\* An untraced thread clones, ends, or ends the process.
FreeClone(t, n) ==
  /\ t \in Live \ traced /\ place[n] = "none"
  /\ place' = [place EXCEPT ![n] = "user"]
  /\ UNCHANGED <<call, child, traced, pending>>

FreeExit(t) ==
  /\ t \in Live \ (traced \cup {Leader})
  /\ place' = [place EXCEPT ![t] = "gone"]
  /\ UNCHANGED <<call, child, traced, pending>>

FreeExitGroup(t) == t \in Live \ traced /\ Dying("exited")

Executes(t) == Return(t) \/ CloneFails(t) \/ ThreadExit(t) \/ ExitGroup(t) \/ \E n \in Threads : Clone(t, n)

ThreadStep ==
  \/ \E t \in Threads : Enter(t) \/ Signal(t) \/ Executes(t) \/ FreeExit(t) \/ FreeExitGroup(t)
  \/ \E t, n \in Threads : FreeClone(t, n)
  \/ Kill
=============================================================================
