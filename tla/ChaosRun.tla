------------------------------ MODULE ChaosRun ------------------------------
(***************************************************************************)
(* The fault-injection part of the three commands that inject faults into  *)
(* a cluster (crates/cli/src/main.rs): handle_run, handle_diverge_run and, *)
(* for `explore`, run_single_simulation.  The main task injects a fault    *)
(* per round and tracks it; a task per fault reverts it after a time; a    *)
(* task waits for SIGINT; at the end the tracker reverts what is left.     *)
(*                                                                         *)
(* The tracker is FaultTracker, whose actions are conjuncts here; the pods *)
(* and the commands of a revert are FaultOps.  Every step of a task lasts  *)
(* from one await to the next.  Time is left out: a timed revert may start *)
(* at any moment after its fault is tracked, since the rounds (a quarter   *)
(* of --duration) may be shorter or longer than the 15 to 20 s it sleeps.  *)
(* The cluster takes steps of its own: debug containers run, and pods go   *)
(* and come back, at any moment.                                           *)
(***************************************************************************)
EXTENDS FaultTracker, FaultOps, FiniteSets, Functions

CONSTANTS
  Commands,   \* the commands considered
  RunKinds,   \* the kinds of fault enabled on the command line
  Rounds      \* injections per run: the fourth quarter of --duration ends the loop

ASSUME CommandsAssumption == Commands \subseteq {"run", "explore", "diverge"}
ASSUME RunKindsAssumption == RunKinds \subseteq Kinds
ASSUME RoundsAssumption == Rounds \in Nat /\ Faults = 1..Rounds
ASSUME CallsAssumption == Calls = {"main", "sigint"}

VARIABLES
  command,    \* the command that runs; never changes
  pc,         \* where the main task is
  round,      \* the round, and the identifier of the fault it injects
  at,         \* the next command of the injection in progress
  desc,       \* desc[f]: what fault f is, or NoFault
  signalled,  \* SIGINT has been delivered (and, in run, the token cancelled)
  outcome,    \* how the process ended
  step,       \* step[t][f]: the next command of the revert of f by task t
  failed,     \* failed[t][f]: a command of the revert in progress failed
  tried,      \* history: faults a revert job of a drain has been through
  bereft      \* history: faults whose pod has gone since they were drawn

mainVars == <<command, pc, round, at, desc, signalled, outcome>>
revertVars == <<step, failed, tried>>
vars == <<trackerVars, podVars, mainVars, revertVars, bereft>>

NoFault == [kind |-> "none"]
Reverters == {"timer", "job"}

PC == {"sleep", "discover", "inject", "rollback", "track", "count", "drain", "report", "exited"}

TypeOK ==
  /\ TrackerTypes
  /\ PodsTypeOK
  /\ command \in Commands
  /\ pc \in PC
  /\ round \in 0..Rounds
  /\ at \in 1..2
  /\ desc \in [Faults -> FaultDesc \cup {NoFault}]
  /\ signalled \in BOOLEAN
  /\ outcome \in {"none", "ok", "error", "sigint"}
  /\ step \in [Reverters -> [Faults -> 1..2]]
  /\ failed \in [Reverters -> [Faults -> BOOLEAN]]
  /\ tried \subseteq Faults
  /\ bereft \subseteq Faults

\* Mutation for NoOrphanRule: only partitions and stress are tracked.
BadTracked(f) == desc[f].kind \in {"partition", "stress"}

\* What a command injects; diverge warns of any other kind and skips the round.
Supported == IF command = "diverge" THEN NetworkKinds ELSE Kinds

\* The faults a command hands to the tracker, and those it starts a timed
\* revert for.
Tracked(f) ==
  \/ command \in {"run", "diverge"}
  \/ desc[f].kind \in {"latency", "partition"}
Timed(f) == desc[f].kind \in NetworkKinds

Alive == pc # "exited"

Init ==
  /\ TrackerInit
  /\ PodsInit
  /\ command \in Commands
  /\ command = "diverge" => method = "debug"
  /\ pc = "sleep"
  /\ round = 0
  /\ at = 1
  /\ desc = [f \in Faults |-> NoFault]
  /\ signalled = FALSE
  /\ outcome = "none"
  /\ step = [t \in Reverters |-> [f \in Faults |-> 1]]
  /\ failed = [t \in Reverters |-> [f \in Faults |-> FALSE]]
  /\ tried = {}
  /\ bereft = {}

Exit(how) ==
  /\ pc' = "exited"
  /\ outcome' = how

-----------------------------------------------------------------------------
\* Mutations of the definitions below, one mistake each.

\* TypeOK: one round too many.
BadNextRound ==
  /\ pc = "sleep"
  /\ ~(command = "run" /\ signalled)
  /\ round' = round + 1
  /\ pc' = "discover"
  /\ UNCHANGED <<trackerVars, podVars, command, at, desc, signalled, outcome, revertVars, bereft>>

\* CleanExit: SIGINT leaves the handler without cleanup.
BadAfterLoop == IF command = "explore" \/ signalled THEN "report" ELSE "count"

\* Terminates: the loop skips its rounds after SIGINT but is not left.
BadLeaveLoop ==
  /\ pc = "sleep"
  /\ round = Rounds
  /\ pc' = IF command = "explore" THEN "report" ELSE "count"
  /\ UNCHANGED <<trackerVars, podVars, command, round, at, desc, signalled, outcome, revertVars, bereft>>

\* SecondChance: `active > 1` for `active > 0`.
BadCountActive ==
  /\ pc = "count"
  /\ pc' = IF Cardinality(active) > 1 THEN "drain" ELSE "report"
  /\ UNCHANGED <<trackerVars, podVars, command, round, at, desc, signalled, outcome, revertVars, bereft>>

\* ImplementsTracker: the timed task untracks a fault it has not reverted.
BadTimedUntrack(f) ==
  /\ Alive
  /\ timer[f] = "armed"
  /\ active' = active \ {f}
  /\ timer' = [timer EXCEPT ![f] = "done"]
  /\ UNCHANGED <<reverting, call, held, requeue, tracked, settled, podVars, mainVars, revertVars, bereft>>

-----------------------------------------------------------------------------
\* The main task.

\* The process's next stop once the loop is left: explore has no cleanup.
AfterLoop == IF command = "explore" THEN "report" ELSE "count"

\* The sleep of a round ends; run looks at the token again before injecting.
NextRound ==
  /\ pc = "sleep"
  /\ round < Rounds
  /\ ~(command = "run" /\ signalled)
  /\ round' = round + 1
  /\ pc' = "discover"
  /\ UNCHANGED <<trackerVars, podVars, command, at, desc, signalled, outcome, revertVars, bereft>>

\* The duration is over, or run's token was cancelled.
LeaveLoop ==
  /\ pc = "sleep"
  /\ round = Rounds \/ (command = "run" /\ signalled)
  /\ pc' = AfterLoop
  /\ UNCHANGED <<trackerVars, podVars, command, round, at, desc, signalled, outcome, revertVars, bereft>>

\* discover_pods() lists the ready pods and one fault is drawn.  A partition
\* cuts its target off the address of another ready pod, if there is one.
DrawFault ==
  /\ pc = "discover"
  /\ \E d \in FaultDesc :
       /\ d.kind \in RunKinds \cap Supported
       /\ up[d.pod]
       /\ IF d.kind = "partition"
          THEN d.peer # d.pod /\ \E p \in Pods \ {d.pod} : up[p]
          ELSE d.peer = d.pod
       /\ desc' = [desc EXCEPT ![round] = d]
  /\ at' = 1
  /\ pc' = "inject"
  /\ UNCHANGED <<trackerVars, podVars, command, round, signalled, outcome, revertVars, bereft>>

\* No pod is ready (one may exist and not be), a partition was drawn and there
\* is no second ready pod, or the kind drawn is not supported.
SkipRound ==
  /\ pc = "discover"
  /\ pc' = "sleep"
  /\ UNCHANGED <<trackerVars, podVars, command, round, at, desc, signalled, outcome, revertVars, bereft>>

\* discover_pods() fails and `?` leaves the handler: main returns the error
\* and the runtime is dropped with every task.  explore loses only the seed.
DiscoverFails ==
  /\ pc = "discover"
  /\ SpareError("discover")
  /\ IF command = "explore"
     THEN pc' = "report" /\ UNCHANGED outcome
     ELSE Exit("error")
  /\ UNCHANGED <<trackerVars, method, rules, up, waiting, vain,
                 command, round, at, desc, signalled, revertVars, bereft>>

\* One command of inject_network_latency, inject_partition or
\* inject_dns_failure.  A failure of the second goes on to undo the first.
InjectCommand ==
  LET cmds == RulesOf(desc[round])
  IN  /\ pc = "inject"
      /\ desc[round].kind \in NetworkKinds
      /\ \E reply \in BOOLEAN :
           /\ Exec("add", cmds[at], reply)
           /\ \/ /\ reply
                 /\ at < Len(cmds)
                 /\ at' = at + 1
                 /\ UNCHANGED <<pc, desc>>
              \/ /\ reply
                 /\ at = Len(cmds)
                 /\ pc' = "track"
                 /\ UNCHANGED <<at, desc>>
              \/ /\ ~reply
                 /\ at > 1
                 /\ pc' = "rollback"
                 /\ UNCHANGED <<at, desc>>
              \/ /\ ~reply
                 /\ at = 1
                 /\ pc' = "sleep"
                 /\ desc' = [desc EXCEPT ![round] = NoFault]
                 /\ UNCHANGED at
      /\ UNCHANGED <<trackerVars, command, round, signalled, outcome, revertVars, bereft>>

\* inject_dns_failure removes its UDP rule, ignores how that went and fails.
RollBack ==
  /\ pc = "rollback"
  /\ \E reply \in BOOLEAN : Exec("del", RulesOf(desc[round])[at - 1], reply)
  /\ desc' = [desc EXCEPT ![round] = NoFault]
  /\ pc' = "sleep"
  /\ UNCHANGED <<trackerVars, command, round, at, signalled, outcome, revertVars, bereft>>

\* inject_stress only spawns the task that runs stress-ng, and returns Ok.
InjectStress ==
  /\ pc = "inject"
  /\ desc[round].kind = "stress"
  /\ pc' = "track"
  /\ UNCHANGED <<trackerVars, podVars, command, round, at, desc, signalled, outcome, revertVars, bereft>>

\* A pod goes, and with it what any fault had installed there.
LosePod(p) ==
  /\ DeletePod(p)
  /\ bereft' = bereft \cup {f \in Faults : desc[f] # NoFault /\ desc[f].pod = p}

\* inject_pod_crash and inject_eviction: the pod goes at once, or it goes after
\* its grace period (PodGoes), or the API server refuses.  Neither is tracked.
InjectDeletion ==
  /\ pc = "inject"
  /\ desc[round].kind \in {"crash", "eviction"}
  /\ LosePod(desc[round].pod) \/ UNCHANGED <<podVars, bereft>>
  /\ desc' = [desc EXCEPT ![round] = NoFault]
  /\ pc' = "sleep"
  /\ UNCHANGED <<trackerVars, command, round, at, signalled, outcome, revertVars>>

\* tracker.track(fault) and the spawn of the timed revert.
TrackFault ==
  /\ pc = "track"
  /\ Tracked(round)
  /\ Track(round, Timed(round))
  /\ pc' = "sleep"
  /\ UNCHANGED <<podVars, command, round, at, desc, signalled, outcome, revertVars, bereft>>

\* run_single_simulation drops the identifier of a stress or DNS fault.
DropFault ==
  /\ pc = "track"
  /\ ~Tracked(round)
  /\ desc' = [desc EXCEPT ![round] = NoFault]
  /\ pc' = "sleep"
  /\ UNCHANGED <<trackerVars, podVars, command, round, at, signalled, outcome, revertVars, bereft>>

\* active_count(): an empty list needs no cleanup.
CountActive ==
  /\ pc = "count"
  /\ pc' = IF active = {} THEN "report" ELSE "drain"
  /\ UNCHANGED <<trackerVars, podVars, command, round, at, desc, signalled, outcome, revertVars, bereft>>

\* The call of revert_all has returned; its results are not looked at.
DrainOver ==
  /\ pc = "drain"
  /\ call["main"] = "returned"
  /\ pc' = "report"
  /\ UNCHANGED <<trackerVars, podVars, command, round, at, desc, signalled, outcome, revertVars, bereft>>

\* The handler writes its report and returns; main exits.
Finish ==
  /\ pc = "report"
  /\ Exit("ok")
  /\ UNCHANGED <<trackerVars, podVars, command, round, at, desc, signalled, revertVars, bereft>>

-----------------------------------------------------------------------------
\* SIGINT, at most once: tokio keeps the handler it installed, so a second one
\* does nothing.  run cancels its token, diverge starts its own drain, and
\* explore, which installs no handler, is killed.
Sigint ==
  /\ Alive
  /\ ~signalled
  /\ signalled' = TRUE
  /\ IF command = "explore" THEN Exit("sigint") ELSE UNCHANGED <<pc, outcome>>
  /\ UNCHANGED <<trackerVars, podVars, command, round, at, desc, revertVars, bereft>>

\* diverge's handler calls process::exit(130) once its revert_all is back.
SigintExit ==
  /\ Alive
  /\ command = "diverge"
  /\ call["sigint"] = "returned"
  /\ Exit("sigint")
  /\ UNCHANGED <<trackerVars, podVars, command, round, at, desc, signalled, revertVars, bereft>>

\* A call of revert_all: the main task's, or that of diverge's SIGINT handler.
Calling(c) ==
  \/ c = "main" /\ pc = "drain"
  \/ c = "sigint" /\ command = "diverge" /\ signalled

DrainStep(c) ==
  /\ Alive
  /\ Calling(c)
  /\ CallStep(c)
  /\ UNCHANGED <<podVars, mainVars, revertVars, bereft>>

-----------------------------------------------------------------------------
\* revert_network_latency, revert_partition and revert_dns_failure, as run by
\* the timed-revert task of f or by its drain job: all its commands, one after
\* the other; Ok if all of them succeeded.
RevertCommand(t, f, Ok, Err) ==
  LET cmds == RulesOf(desc[f])
      n == step[t][f]
  IN  \E reply \in BOOLEAN :
        LET bad == failed[t][f] \/ ~reply
        IN  /\ Exec("del", cmds[n], reply)
            /\ IF n < Len(cmds)
               THEN /\ step' = [step EXCEPT ![t][f] = n + 1]
                    /\ failed' = [failed EXCEPT ![t][f] = bad]
                    /\ UNCHANGED trackerVars
               ELSE /\ step' = [step EXCEPT ![t][f] = 1]
                    /\ failed' = [failed EXCEPT ![t][f] = FALSE]
                    /\ IF bad THEN Err ELSE Ok

\* Mutation for RulesMatchFaults: a revert whose command failed is confirmed too.
BadTimedRevert(f) ==
  /\ Alive
  /\ timer[f] = "armed"
  /\ RevertCommand("timer", f, TimedRevertOk(f), TimedRevertOk(f))
  /\ UNCHANGED <<mainVars, tried, bereft>>

\* The timed revert of f, and its untrack() on success.
TimedRevert(f) ==
  /\ Alive
  /\ timer[f] = "armed"
  /\ RevertCommand("timer", f, TimedRevertOk(f), TimedRevertErr(f))
  /\ UNCHANGED <<mainVars, tried, bereft>>

TimedUntrack(f) ==
  /\ Alive
  /\ Untrack(f)
  /\ UNCHANGED <<podVars, mainVars, revertVars, bereft>>

\* The drain job of f.
JobRevert(f) ==
  /\ Alive
  /\ f \in held
  /\ desc[f].kind \in NetworkKinds
  /\ RevertCommand("job", f, JobOk(f), JobErr(f))
  /\ tried' = IF f \in held' THEN tried ELSE tried \cup {f}
  /\ UNCHANGED <<mainVars, bereft>>

\* The job of a stress fault runs pkill once.  In the pod's own container it
\* reports Ok however that went; in a debug container an exit status other than
\* 0 and 1 is an error.
JobStress(f) ==
  /\ Alive
  /\ f \in held
  /\ desc[f].kind = "stress"
  /\ \/ JobOk(f) /\ UNCHANGED podVars
     \/ /\ method = "debug"
        /\ SpareError("del")
        /\ JobErr(f)
        /\ UNCHANGED <<method, rules, up, waiting, vain>>
  /\ tried' = tried \cup {f}
  /\ UNCHANGED <<mainVars, step, failed, bereft>>

\* A job hits its 10 s timeout: kubectl is killed, the command it ran may have
\* taken effect.
JobTimeout(f) ==
  /\ Alive
  /\ f \in held
  /\ IF desc[f].kind = "stress"
     THEN SpareError("timeout") /\ UNCHANGED <<method, rules, up, waiting, vain>>
     ELSE Cut("del", RulesOf(desc[f])[step["job"][f]])
  /\ JobErr(f)
  /\ step' = [step EXCEPT !["job"][f] = 1]
  /\ failed' = [failed EXCEPT !["job"][f] = FALSE]
  /\ tried' = tried \cup {f}
  /\ UNCHANGED <<mainVars, bereft>>

-----------------------------------------------------------------------------
\* The cluster.

\* A debug container runs, or comes to nothing.
ContainerStep(verb, r) ==
  /\ RunContainer(verb, r)
  /\ UNCHANGED <<trackerVars, mainVars, revertVars, bereft>>

\* A pod goes: deleted or evicted by this command a while ago, or by somebody else.
PodGoes(p) ==
  /\ up[p]
  /\ LosePod(p)
  /\ UNCHANGED <<trackerVars, mainVars, revertVars>>

\* A pod is there again under its old name.
PodComesBack(p) ==
  /\ PodReturns(p)
  /\ UNCHANGED <<trackerVars, mainVars, revertVars, bereft>>

-----------------------------------------------------------------------------
MainStep ==
  \/ NextRound
  \/ LeaveLoop
  \/ DrawFault
  \/ SkipRound
  \/ DiscoverFails
  \/ InjectCommand
  \/ RollBack
  \/ InjectStress
  \/ InjectDeletion
  \/ TrackFault
  \/ DropFault
  \/ CountActive
  \/ DrainOver
  \/ Finish

RevertStep(f) ==
  \/ TimedRevert(f)
  \/ TimedUntrack(f)
  \/ JobRevert(f)
  \/ JobStress(f)
  \/ JobTimeout(f)

ClusterStep ==
  \/ \E verb \in Verbs, r \in Rules : ContainerStep(verb, r)
  \/ \E p \in Pods : PodGoes(p) \/ PodComesBack(p)

Next ==
  \/ MainStep
  \/ Sigint
  \/ SigintExit
  \/ \E c \in Calls : DrainStep(c)
  \/ \E f \in Faults : RevertStep(f)
  \/ ClusterStep

Spec == Init /\ [][Next]_vars

\* The runtime keeps polling every task, kubectl commands and the sleeps of
\* the loop and of the timed reverts end, and a job ends by its timeout at the
\* latest.  Nobody has to press Ctrl-C, and the cluster has to do nothing: no
\* debug container need ever run.
RunFairness ==
  /\ WF_vars(MainStep)
  /\ WF_vars(SigintExit)
  /\ \A c \in Calls : WF_vars(DrainStep(c))
  /\ \A f \in Faults : /\ WF_vars(TimedRevert(f))
                       /\ WF_vars(TimedUntrack(f))
                       /\ WF_vars(JobRevert(f) \/ JobStress(f) \/ JobTimeout(f))

FairSpec == Spec /\ RunFairness

-----------------------------------------------------------------------------
\* How many of the faults in F install rule r.
Users(F, r) == Cardinality({f \in F : r \in Range(RulesOf(desc[f]))})

\* The fault being injected: its rules may be in place before it is tracked.
InFlight == IF pc \in {"inject", "rollback", "track"} THEN {round} ELSE {}

\* The commands that track every rule they install, except that the exit of
\* diverge's SIGINT handler may cut an injection short.
Accounted == command = "run" \/ (command = "diverge" /\ Alive)

\* Deletions of r that kubectl debug has reported Ok, or may yet, and that have
\* deleted nothing.  A deletion by kubectl exec that is reported Ok took effect.
InVain(r) == IF method = "exec" THEN 0 ELSE waiting["del"][r] + vain[r]

\* Every rule in the kernel of a pod belongs to a fault that the tracker still
\* owes a revert, however timed reverts, drain jobs, failing reverts, pods that
\* come and go and SIGINT interleave; of run, also after it has ended.  With
\* the method "debug", as many rules more may stand as deletions were reported
\* Ok and deleted nothing: nothing else leaves a rule behind.
NoOrphanRule ==
  Accounted => \A r \in Rules : rules[r] <= Users(Owed \cup InFlight, r) + InVain(r)

\* FaultReverted tells the truth up to such deletions: beyond them, as many
\* instances of a rule as there are in a kernel, so many faults with that rule
\* have not been reported reverted.
RevertedMeansGone ==
  Accounted =>
    \A r \in Rules : rules[r] <= Users((tracked \cup InFlight) \ settled, r) + InVain(r)

\* Faults that nobody has begun to revert.
Untouched ==
  {f \in tracked \ (held \cup tried) : timer[f] = "armed" /\ step["timer"][f] = 1}

\* In run with the method "exec", a fault stays in force until its own revert
\* begins or its pod goes: reverting one fault does not end another that has
\* the same rule on the same pod, except that the revert of a fault whose pod
\* has gone may take one instance that a later fault has on the pod that came
\* back under the name.
StaysInForce ==
  command = "run" /\ method = "exec" =>
    \A r \in Rules :
      rules[r] + Users((tracked \cap bereft) \ Untouched, r) >= Users(Untouched \ bereft, r)

\* So a rule stands for as long as its faults do: not longer (what is reported
\* reverted is gone) and not shorter (no revert takes the rule of another).
RulesMatchFaults == RevertedMeansGone /\ StaysInForce

\* At the end of the process, every tracked fault is confirmed reverted or a
\* drain has tried to revert it.
CleanedUp == \A f \in tracked : f \in settled \cup tried

\* run that ends on its own or through SIGINT gives every fault whose timed
\* revert failed, or had not happened, its second chance at shutdown.
SecondChance == command = "run" /\ outcome = "ok" => CleanedUp

\* If no command fails without cause, run with the method "exec" leaves no rule
\* behind on any pod.
CleanExit ==
  command = "run" /\ method = "exec" /\ outcome = "ok" /\ errs = 0 =>
    \A r \in Rules : rules[r] = 0

\* Every step of the three commands is a step the tracker allows, or none.
ImplementsTracker == TrackerSpec

\* Whatever fails, and with SIGINT at any moment, the process ends.
Terminates == <>(pc = "exited")

\* However the process ends, every fault it tracked has been reverted, or a
\* drain has tried to.
AllReverted == pc = "exited" => CleanedUp
=============================================================================
