--------------------------- MODULE ChaosRun_proofs ---------------------------
(***************************************************************************)
(* Proofs about ChaosRun for any number of rounds, any pods and any number *)
(* of errors: the three commands use the tracker as FaultTracker allows,   *)
(* so what is proved of it holds of them; they keep their types; `run`     *)
(* gives every fault it tracked a revert before it ends; the rules in the  *)
(* kernels of the pods are those of the faults in force, no more but for   *)
(* deletions that kubectl debug left undone and, in run with the method    *)
(* "exec", no fewer but for reverts on a pod that has come back; and, if   *)
(* no command fails without cause, such a run leaves no rule behind.       *)
(***************************************************************************)
EXTENDS ChaosRun, FaultTracker_proofs, FiniteSetTheorems

\* The round names a fault whenever one is being injected.
RoundInv ==
  /\ round \in 0..Rounds
  /\ pc \in {"discover", "inject", "rollback", "track"} => round \in 1..Rounds

USE RoundsAssumption, CallsAssumption

LEMMA MainRound == RoundInv /\ MainStep => RoundInv'
<1> SUFFICES ASSUME RoundInv, MainStep PROVE RoundInv'
  OBVIOUS
<1> USE DEF RoundInv
<1>1. CASE NextRound
  BY <1>1 DEF NextRound
<1>2. CASE LeaveLoop
  BY <1>2 DEF LeaveLoop, AfterLoop
<1>3. CASE DrawFault \/ SkipRound
  BY <1>3 DEF DrawFault, SkipRound
<1>4. CASE DiscoverFails
  BY <1>4 DEF DiscoverFails, Exit
<1>5. CASE InjectCommand
  BY <1>5 DEF InjectCommand
<1>6. CASE RollBack \/ InjectStress \/ InjectDeletion \/ TrackFault \/ DropFault
  BY <1>6 DEF RollBack, InjectStress, InjectDeletion, TrackFault, DropFault
<1>7. CASE CountActive \/ DrainOver \/ Finish
  BY <1>7 DEF CountActive, DrainOver, Finish, Exit
<1>8. QED
  BY <1>1, <1>2, <1>3, <1>4, <1>5, <1>6, <1>7 DEF MainStep

LEMMA RevertKeepsMain == ASSUME NEW f \in Faults, RevertStep(f) PROVE UNCHANGED mainVars
  BY DEF RevertStep, TimedRevert, TimedUntrack, JobRevert, JobStress, JobTimeout, mainVars

\* The cluster touches the pods only.
LEMMA ClusterKeeps == ClusterStep => UNCHANGED <<trackerVars, mainVars, revertVars>>
  BY DEF ClusterStep, ContainerStep, PodGoes, PodComesBack

LEMMA RoundStep == RoundInv /\ [Next]_vars => RoundInv'
<1> SUFFICES ASSUME RoundInv, [Next]_vars PROVE RoundInv'
  OBVIOUS
<1>1. CASE MainStep
  BY <1>1, MainRound
<1>2. CASE Sigint \/ SigintExit
  BY <1>2 DEF Sigint, SigintExit, Exit, RoundInv
<1>3. ASSUME NEW c \in Calls, DrainStep(c) PROVE RoundInv'
  BY <1>3 DEF DrainStep, mainVars, RoundInv
<1>4. ASSUME NEW f \in Faults, RevertStep(f) PROVE RoundInv'
  BY <1>4, RevertKeepsMain DEF mainVars, RoundInv
<1>5. CASE ClusterStep \/ UNCHANGED vars
  BY <1>5, ClusterKeeps DEF vars, mainVars, RoundInv
<1>6. QED
  BY <1>1, <1>2, <1>3, <1>4, <1>5 DEF Next

-----------------------------------------------------------------------------
\* Each task touches the tracker through the tracker's own operations only.
LEMMA TrackerStep == RoundInv /\ [Next]_vars => [TrackerNext]_trackerVars
<1> SUFFICES ASSUME RoundInv, [Next]_vars PROVE TrackerNext \/ UNCHANGED trackerVars
  OBVIOUS
<1>1. CASE MainStep
  <2>1. CASE TrackFault
    <3>1. round \in Faults
      BY <2>1 DEF TrackFault, RoundInv
    <3>2. Timed(round) \in BOOLEAN
      BY DEF Timed
    <3>3. ClientStep(round)
      BY <2>1, <3>2 DEF TrackFault, ClientStep
    <3>4. QED
      BY <3>1, <3>3 DEF TrackerNext
  <2>2. CASE NextRound \/ LeaveLoop \/ DrawFault \/ SkipRound \/ DiscoverFails
    BY <2>2 DEF NextRound, LeaveLoop, DrawFault, SkipRound, DiscoverFails
  <2>3. CASE InjectCommand \/ RollBack \/ InjectStress \/ InjectDeletion \/ DropFault
    BY <2>3 DEF InjectCommand, RollBack, InjectStress, InjectDeletion, DropFault
  <2>4. CASE CountActive \/ DrainOver \/ Finish
    BY <2>4 DEF CountActive, DrainOver, Finish
  <2>5. QED
    BY <1>1, <2>1, <2>2, <2>3, <2>4 DEF MainStep
<1>2. CASE Sigint \/ SigintExit
  BY <1>2 DEF Sigint, SigintExit
<1>3. ASSUME NEW c \in Calls, DrainStep(c) PROVE TrackerNext
  BY <1>3 DEF DrainStep, TrackerNext
<1>4. ASSUME NEW f \in Faults, RevertStep(f) PROVE TrackerNext \/ UNCHANGED trackerVars
  <2>1. CASE TimedRevert(f)
    <3>1. TimedRevertOk(f) \/ TimedRevertErr(f) \/ UNCHANGED trackerVars
      BY <2>1 DEF TimedRevert, RevertCommand
    <3>2. QED
      BY <3>1 DEF TrackerNext, ClientStep
  <2>2. CASE TimedUntrack(f)
    BY <2>2 DEF TimedUntrack, TrackerNext, ClientStep
  <2>3. CASE JobRevert(f)
    <3>1. JobOk(f) \/ JobErr(f) \/ UNCHANGED trackerVars
      BY <2>3 DEF JobRevert, RevertCommand
    <3>2. QED
      BY <3>1 DEF TrackerNext, JobStep
  <2>4. CASE JobStress(f) \/ JobTimeout(f)
    BY <2>4 DEF JobStress, JobTimeout, TrackerNext, JobStep
  <2>5. QED
    BY <1>4, <2>1, <2>2, <2>3, <2>4 DEF RevertStep
<1>5. CASE ClusterStep \/ UNCHANGED vars
  BY <1>5, ClusterKeeps DEF vars
<1>6. QED
  BY <1>1, <1>2, <1>3, <1>4, <1>5 DEF Next

\* run, explore and diverge are clients the tracker was verified for.
THEOREM UsesTracker == Spec => ImplementsTracker
<1>1. Init => RoundInv /\ TrackerInit
  BY DEF Init, RoundInv
<1>2. Spec => []RoundInv
  BY <1>1, RoundStep, PTL DEF Spec
<1>3. QED
  BY <1>1, <1>2, TrackerStep, PTL DEF Spec, TrackerSpec, ImplementsTracker

-----------------------------------------------------------------------------
\* What run does at its end.  Only the main task calls revert_all, so it never
\* waits for another drain; once it has taken the list, every tracked fault is
\* confirmed, or its job is running, or has been through a job.
DrainInv ==
  command = "run" =>
    /\ call["sigint"] = "idle"
    /\ pc \notin {"drain", "report", "exited"} => call["main"] = "idle"
    /\ call["main"] # "waiting"
    /\ call["main"] \in {"draining", "returned"} => tracked \subseteq settled \cup tried \cup held
    /\ pc = "report" => CleanedUp
    /\ outcome = "ok" => pc = "exited" /\ CleanedUp

LEMMA MainDrain == IInv /\ DrainInv /\ MainStep => DrainInv'
<1> SUFFICES ASSUME IInv, DrainInv, MainStep, command' = "run" PROVE DrainInv'
  BY DEF DrainInv
<1> USE DEF DrainInv, CleanedUp
<1>1. CASE NextRound \/ LeaveLoop \/ DrawFault \/ SkipRound
  BY <1>1 DEF NextRound, LeaveLoop, AfterLoop, DrawFault, SkipRound, trackerVars, revertVars
<1>2. CASE DiscoverFails
  BY <1>2 DEF DiscoverFails, Exit, trackerVars, revertVars
<1>3. CASE InjectCommand
  BY <1>3 DEF InjectCommand, trackerVars, revertVars
<1>4. CASE RollBack \/ InjectStress \/ InjectDeletion \/ DropFault
  BY <1>4 DEF RollBack, InjectStress, InjectDeletion, DropFault, trackerVars, revertVars
<1>5. CASE TrackFault
  BY <1>5 DEF TrackFault, Track, revertVars
<1>6. CASE CountActive
  <2>1. command = "run" /\ call["main"] = "idle" /\ call["sigint"] = "idle"
    BY <1>6 DEF CountActive
  <2>2. held = {} /\ requeue = {}
    BY <2>1 DEF IInv, HeldByDrain
  <2>3. active = {} => tracked \subseteq settled
    BY <2>2 DEF IInv, NoFaultForgotten, Owed
  <2>4. QED
    BY <1>6, <2>1, <2>3 DEF CountActive, trackerVars, revertVars
<1>7. CASE DrainOver
  <2>1. command = "run" /\ call["main"] = "returned" /\ call["sigint"] = "idle"
    BY <1>7 DEF DrainOver
  <2>2. held = {}
    BY <2>1 DEF IInv, HeldByDrain
  <2>3. tracked \subseteq settled \cup tried
    BY <2>1, <2>2
  <2>4. QED
    BY <1>7, <2>1, <2>3 DEF DrainOver, trackerVars, revertVars
<1>8. CASE Finish
  BY <1>8 DEF Finish, Exit, trackerVars, revertVars
<1>9. QED
  BY <1>1, <1>2, <1>3, <1>4, <1>5, <1>6, <1>7, <1>8 DEF MainStep

LEMMA CallDrain ==
  ASSUME IInv, DrainInv, NEW c \in Calls, DrainStep(c) PROVE DrainInv'
<1> SUFFICES ASSUME command' = "run" PROVE DrainInv'
  BY DEF DrainInv
<1> USE DEF DrainInv, CleanedUp
<1>1. /\ c = "main" /\ pc = "drain" /\ command = "run"
      /\ pc' = pc /\ outcome' = outcome /\ tried' = tried
  BY DEF DrainStep, Calling, mainVars, revertVars
<1>2. call \in [Calls -> CallState]
  BY DEF IInv, TrackerTypes
<1>3. CASE ClaimGuard(c)
  BY <1>1, <1>2, <1>3 DEF ClaimGuard
<1>4. CASE JoinWait(c)
  \* nobody else drains, so the guard is free
  BY <1>1, <1>4 DEF JoinWait, IInv, OneDrain, Owners
<1>5. CASE WaitOver(c)
  BY <1>1, <1>5 DEF WaitOver
<1>6. CASE TakeAll(c)
  <2>1. held = {} /\ requeue = {}
    BY <1>1, <1>6 DEF TakeAll, IInv, HeldByDrain
  <2>2. tracked \subseteq active \cup settled
    BY <2>1 DEF IInv, NoFaultForgotten, Owed
  <2>3. QED
    BY <1>1, <1>2, <1>6, <2>2 DEF TakeAll
<1>7. CASE Requeue(c)
  BY <1>1, <1>7 DEF Requeue
<1>8. CASE Release(c)
  BY <1>1, <1>2, <1>8 DEF Release
<1>9. QED
  BY <1>3, <1>4, <1>5, <1>6, <1>7, <1>8 DEF DrainStep, CallStep

LEMMA RevertDrain ==
  ASSUME DrainInv, NEW f \in Faults, RevertStep(f) PROVE DrainInv'
<1> USE DEF DrainInv, CleanedUp
<1>1. UNCHANGED mainVars
  BY RevertKeepsMain
<1>2. CASE TimedRevert(f)
  <2>1. tried' = tried /\ (TimedRevertOk(f) \/ TimedRevertErr(f) \/ UNCHANGED trackerVars)
    BY <1>2 DEF TimedRevert, RevertCommand
  <2>2. QED
    BY <1>1, <2>1 DEF mainVars, TimedRevertOk, TimedRevertErr, trackerVars
<1>3. CASE TimedUntrack(f)
  BY <1>1, <1>3 DEF mainVars, TimedUntrack, Untrack, revertVars
<1>4. CASE JobRevert(f)
  <2>1. CASE UNCHANGED trackerVars
    BY <1>1, <1>4, <2>1 DEF JobRevert, mainVars, trackerVars
  <2>2. CASE JobOk(f) \/ JobErr(f)
    <3>1. tried' = tried \cup {f}
      BY <1>4, <2>2 DEF JobRevert, JobOk, JobErr
    <3>2. QED
      BY <1>1, <2>2, <3>1 DEF JobOk, JobErr, mainVars
  <2>3. QED
    BY <1>4, <2>1, <2>2 DEF JobRevert, RevertCommand
<1>5. CASE JobStress(f)
  BY <1>1, <1>5 DEF JobStress, JobOk, JobErr, mainVars
<1>6. CASE JobTimeout(f)
  BY <1>1, <1>6 DEF JobTimeout, JobErr, mainVars
<1>7. QED
  BY <1>2, <1>3, <1>4, <1>5, <1>6 DEF RevertStep

LEMMA DrainInvStep == IInv /\ DrainInv /\ [Next]_vars => DrainInv'
<1> SUFFICES ASSUME IInv, DrainInv, [Next]_vars PROVE DrainInv'
  OBVIOUS
<1>1. CASE MainStep
  BY <1>1, MainDrain
<1>2. CASE Sigint
  BY <1>2 DEF Sigint, Exit, DrainInv, CleanedUp, trackerVars, revertVars
<1>3. CASE SigintExit
  BY <1>3 DEF SigintExit, DrainInv
<1>4. CASE \E c \in Calls : DrainStep(c)
  BY <1>4, CallDrain
<1>5. CASE \E f \in Faults : RevertStep(f)
  BY <1>5, RevertDrain
<1>6. CASE ClusterStep \/ UNCHANGED vars
  BY <1>6, ClusterKeeps DEF vars, mainVars, trackerVars, revertVars, DrainInv, CleanedUp
<1>7. QED
  BY <1>1, <1>2, <1>3, <1>4, <1>5, <1>6 DEF Next

\* No fault a command has handed to the tracker is forgotten, however the
\* loop, SIGINT, the timed reverts and the drains interleave.
THEOREM RunForgetsNothing == Spec => []NoFaultForgotten
  BY UsesTracker, NothingForgotten, PTL DEF ImplementsTracker

\* `run` that ends by itself or through SIGINT has had every tracked fault
\* reverted, or has tried to in its final drain.
THEOREM RunSecondChance == Spec => []SecondChance
<1>1. Init => DrainInv
  BY DEF Init, TrackerInit, DrainInv, CleanedUp
<1>2. Spec => []IInv
  BY UsesTracker, Invariance, PTL DEF ImplementsTracker
<1>3. Spec => []DrainInv
  BY <1>1, <1>2, DrainInvStep, PTL DEF Spec
<1>4. DrainInv => SecondChance
  BY DEF DrainInv, SecondChance
<1>5. QED
  BY <1>3, <1>4, PTL
-----------------------------------------------------------------------------
\* A fault as the main task draws it: a partition has two ends.
Proper(d) == d \in FaultDesc /\ (d.kind = "partition" <=> d.peer # d.pod)

\* The kinds a command hands on: deletions end with the injection.
Lasting == NetworkKinds \cup {"stress"}

Cmds(f) == RulesOf(desc[f])

\* What the injection in progress has come to.
AtInv ==
  /\ pc \in {"inject", "rollback", "track"} => Proper(desc[round])
  /\ pc = "inject" => at = 1 \/ desc[round].kind = "dns"
  /\ pc = "rollback" => desc[round].kind = "dns" /\ at = 2
  /\ pc = "track" => desc[round].kind \in Lasting

\* The tracked faults are of earlier rounds, and what they are never changes.
TrackedInv ==
  \A f \in tracked :
    /\ Proper(desc[f]) /\ desc[f].kind \in Lasting
    /\ f <= round
    /\ pc \in {"discover", "inject", "rollback", "track"} => f < round

\* A revert stands at its first command unless its task is at work; only DNS
\* has a second, and a failure is remembered from the first to the second.
StepInv ==
  /\ \A f \in Faults : timer[f] # "none" => desc[f].kind \in NetworkKinds
  /\ \A t \in Reverters, f \in Faults :
       /\ step[t][f] = 1 => ~failed[t][f]
       /\ step[t][f] = 2 => f \in tracked /\ desc[f].kind = "dns"
  /\ \A f \in Faults \ held : step["job"][f] = 1


\* The commands of a fault: one rule each, two for DNS, all on its pod.
LEMMA CommandsOf ==
  ASSUME NEW d, Proper(d)
  PROVE  /\ d.kind \in {"latency", "partition"} => Len(RulesOf(d)) = 1
         /\ d.kind = "dns" => Len(RulesOf(d)) = 2 /\ RulesOf(d)[1] # RulesOf(d)[2]
         /\ d.kind \notin NetworkKinds => Len(RulesOf(d)) = 0
         /\ \A i \in 1..Len(RulesOf(d)) :
              /\ RulesOf(d)[i] \in Rules
              /\ RulesOf(d)[i][1] = d.pod
              /\ d.kind = "dns" => RulesOf(d)[i][2] # "netem"
<1> USE DEF Proper, FaultDesc, Rules, RuleNames
<1>0. d.pod \in Pods /\ d.peer \in Pods
  OBVIOUS
<1>1. CASE d.kind = "latency"
  <2>1. RulesOf(d) = <<<<d.pod, "netem", d.pod>>>>
    BY <1>1 DEF RulesOf, LatencyRules
  <2>2. QED
    BY <1>0, <1>1, <2>1 DEF NetworkKinds
<1>2. CASE d.kind = "partition"
  <2>1. RulesOf(d) = <<<<d.pod, "drop", d.peer>>>>
    BY <1>2 DEF RulesOf, PartitionRules
  <2>2. QED
    BY <1>0, <1>2, <2>1 DEF NetworkKinds
<1>3. CASE d.kind = "dns"
  <2>1. RulesOf(d) = <<<<d.pod, "udp53", d.pod>>, <<d.pod, "tcp53", d.pod>>>>
    BY <1>3 DEF RulesOf, DnsRules
  <2>2. QED
    BY <1>0, <1>3, <2>1 DEF NetworkKinds
<1>4. CASE d.kind \notin NetworkKinds
  <2>1. RulesOf(d) = <<>>
    BY <1>4 DEF RulesOf, NetworkKinds
  <2>2. QED
    BY <1>4, <2>1 DEF NetworkKinds
<1>5. QED
  BY <1>1, <1>2, <1>3, <1>4 DEF NetworkKinds

\* The instances of a rule that stand, or that a debug container may yet add.
Standing(r) == rules[r] + waiting["add"][r]

\* One entry of the table of waiting debug containers changes.
LEMMA WaitingAt ==
  ASSUME PodsTypeOK, NEW verb \in Verbs, NEW r \in Rules, NEW n \in Nat,
         waiting' = [waiting EXCEPT ![verb][r] = n]
  PROVE  /\ waiting' \in [Verbs -> [Rules -> Nat]]
         /\ waiting'[verb][r] = n
         /\ \A v \in Verbs, q \in Rules : v # verb \/ q # r => waiting'[v][q] = waiting[v][q]
<1> DEFINE C == [Rules -> Nat]
<1>1. waiting[verb] \in C /\ [waiting[verb] EXCEPT ![r] = n] \in C
  BY DEF PodsTypeOK
<1>2. waiting' = [waiting EXCEPT ![verb] = [waiting[verb] EXCEPT ![r] = n]]
  BY DEF PodsTypeOK
<1>3. waiting' \in [Verbs -> C]
  <2>1. waiting \in [Verbs -> C]
    BY DEF PodsTypeOK
  <2> HIDE DEF C
  <2>2. QED
    BY <1>1, <1>2, <2>1
<1>4. waiting'[verb] = [waiting[verb] EXCEPT ![r] = n]
      /\ \A v \in Verbs : v # verb => waiting'[v] = waiting[v]
  BY <1>2 DEF PodsTypeOK
<1>5. waiting'[verb][r] = n /\ \A q \in Rules : q # r => waiting'[verb][q] = waiting[verb][q]
  BY <1>1, <1>4
<1>6. QED
  BY <1>3, <1>4, <1>5

\* What an addition puts up, at once or once its container runs; and a deletion
\* takes one instance down, or is one more that may be in vain.
LEMMA Accepts ==
  ASSUME PodsTypeOK, NEW verb \in Verbs, NEW r \in Rules,
         Accepted(verb, r), Accept(verb, r), UNCHANGED <<method, vain>>
  PROVE  /\ rules' \in [Rules -> Nat] /\ waiting' \in [Verbs -> [Rules -> Nat]]
         /\ \A q \in Rules : q # r => rules'[q] = rules[q] /\ \A v \in Verbs : waiting'[v][q] = waiting[v][q]
         /\ verb = "add" => /\ rules[r] <= rules'[r]
                            /\ method = "exec" => rules'[r] = rules[r] + 1
                            /\ Standing(r)' = Standing(r) + 1 /\ InVain(r)' = InVain(r)
         /\ verb = "del" => /\ rules'[r] <= rules[r] /\ rules[r] <= rules'[r] + 1
                            /\ method = "exec" => rules'[r] + 1 = rules[r]
                            /\ Standing(r)' <= Standing(r)
                            /\ Standing(r)' + InVain(r) + 1 = Standing(r) + InVain(r)'
<1>1. /\ rules \in [Rules -> Nat] /\ "add" \in Verbs /\ "del" \in Verbs
      /\ \A v \in Verbs : waiting[v][r] \in Nat
      /\ vain[r] \in Nat
  BY DEF PodsTypeOK, Verbs
<1>2. CASE method = "exec"
  <2>1. /\ Granted(verb, r) /\ waiting' = waiting
        /\ rules' = [rules EXCEPT ![r] = IF verb = "add" THEN rules[r] + 1 ELSE rules[r] - 1]
    BY <1>2 DEF Accepted, Accept, Done
  <2>2. verb = "del" => rules[r] > 0
    BY <2>1 DEF Granted
  <2>3. rules' \in [Rules -> Nat] /\ rules'[r] = IF verb = "add" THEN rules[r] + 1 ELSE rules[r] - 1
    BY <1>1, <2>1, <2>2 DEF Verbs
  <2>4. \A q \in Rules : q # r => rules'[q] = rules[q]
    BY <1>1, <2>1
  <2>5. InVain(r) = 0 /\ InVain(r)' = 0
    BY <1>2 DEF InVain
  <2>6. /\ Standing(r) = rules[r] + waiting["add"][r] /\ Standing(r)' = rules'[r] + waiting["add"][r]
        /\ rules[r] \in Nat /\ waiting["add"][r] \in Nat /\ waiting' \in [Verbs -> [Rules -> Nat]]
    BY <1>1, <2>1 DEF Standing, PodsTypeOK
  <2>7. CASE verb = "add"
    BY <1>2, <2>1, <2>3, <2>4, <2>5, <2>6, <2>7
  <2>8. CASE verb = "del"
    <3>1. rules'[r] = rules[r] - 1 /\ rules[r] > 0
      BY <2>2, <2>3, <2>8
    <3>2. PICK n \in Nat, w \in Nat : n = rules[r] /\ w = waiting["add"][r]
      BY <2>6
    <3>3. n > 0 /\ rules'[r] = n - 1 /\ Standing(r) = n + w /\ Standing(r)' = n - 1 + w
      BY <2>6, <3>1, <3>2
    <3>4. /\ n - 1 <= n /\ n <= n - 1 + 1 /\ n - 1 + 1 = n /\ n - 1 + w <= n + w
          /\ n - 1 + w + 0 + 1 = n + w + 0
      BY <3>2
    <3>5. QED
      BY <2>1, <2>3, <2>4, <2>5, <2>6, <2>8, <3>2, <3>3, <3>4
  <2>9. QED
    BY <2>7, <2>8 DEF Verbs
<1>3. CASE method # "exec"
  <2>1. rules' = rules /\ waiting' = [waiting EXCEPT ![verb][r] = waiting[verb][r] + 1]
    BY <1>3 DEF Accept
  <2>2. waiting[verb][r] + 1 \in Nat
    BY <1>1
  <2>3. /\ waiting' \in [Verbs -> [Rules -> Nat]]
        /\ waiting'[verb][r] = waiting[verb][r] + 1
        /\ \A v \in Verbs, q \in Rules : v # verb \/ q # r => waiting'[v][q] = waiting[v][q]
    BY <2>1, <2>2, WaitingAt
  <2>4. InVain(r) = waiting["del"][r] + vain[r] /\ InVain(r)' = waiting'["del"][r] + vain[r]
    BY <1>3 DEF InVain
  <2>5. Standing(r) = rules[r] + waiting["add"][r] /\ Standing(r)' = rules[r] + waiting'["add"][r]
    BY <2>1 DEF Standing
  <2>6. CASE verb = "add"
    BY <1>1, <1>3, <2>1, <2>3, <2>4, <2>5, <2>6
  <2>7. CASE verb = "del"
    BY <1>1, <1>3, <2>1, <2>3, <2>4, <2>5, <2>7
  <2>8. QED
    BY <2>6, <2>7 DEF Verbs
<1>4. QED
  BY <1>2, <1>3

\* A command changes its own rule only, and only as its reply says unless an
\* error is spent on it.
LEMMA ExecEffect ==
  ASSUME PodsTypeOK, NEW verb \in Verbs, NEW r \in Rules, NEW reply \in BOOLEAN,
         Exec(verb, r, reply)
  PROVE  /\ PodsTypeOK' /\ UNCHANGED <<method, up, vain>> /\ errs <= errs'
         /\ UNCHANGED <<rules, waiting>> \/ (Accepted(verb, r) /\ Accept(verb, r))
         /\ errs' = errs => reply = Accepted(verb, r)
         /\ reply => Accepted(verb, r) /\ Accept(verb, r)
         /\ errs' = errs \/ errs' = errs + 1
<1>1. UNCHANGED <<method, up, vain>>
  BY DEF Exec
<1>2. UNCHANGED <<rules, waiting>> \/ (Accepted(verb, r) /\ Accept(verb, r))
  BY DEF Exec
<1>3. rules' \in [Rules -> Nat] /\ waiting' \in [Verbs -> [Rules -> Nat]]
  <2>1. CASE UNCHANGED <<rules, waiting>>
    BY <2>1 DEF PodsTypeOK
  <2>2. CASE Accepted(verb, r) /\ Accept(verb, r)
    BY <1>1, <2>2, Accepts
  <2>3. QED
    BY <1>2, <2>1, <2>2
<1>4. /\ errs \in Nat /\ errs' \in 0..MaxErrs /\ errs <= errs'
      /\ errs' = errs \/ errs' = errs + 1
  BY MaxErrsAssumption DEF Exec, SpareError, PodsTypeOK
<1>5. /\ errs' = errs => reply = Accepted(verb, r)
      /\ reply => Accepted(verb, r) /\ Accept(verb, r)
  BY <1>4 DEF Exec, SpareError
<1>6. PodsTypeOK'
  BY <1>1, <1>3, <1>4 DEF PodsTypeOK
<1>7. QED
  BY <1>1, <1>2, <1>4, <1>5, <1>6

\* So does one whose kubectl is killed.
LEMMA CutEffect ==
  ASSUME PodsTypeOK, NEW verb \in Verbs, NEW r \in Rules, Cut(verb, r)
  PROVE  /\ PodsTypeOK' /\ UNCHANGED <<method, up, vain>> /\ errs' = errs + 1
         /\ UNCHANGED <<rules, waiting>> \/ (Accepted(verb, r) /\ Accept(verb, r))
<1>1. /\ UNCHANGED <<method, up, vain>> /\ errs' = errs + 1 /\ errs' \in 0..MaxErrs
      /\ UNCHANGED <<rules, waiting>> \/ (Accepted(verb, r) /\ Accept(verb, r))
  BY MaxErrsAssumption DEF Cut, SpareError, PodsTypeOK
<1>2. rules' \in [Rules -> Nat] /\ waiting' \in [Verbs -> [Rules -> Nat]]
  <2>1. CASE UNCHANGED <<rules, waiting>>
    BY <2>1 DEF PodsTypeOK
  <2>2. CASE Accepted(verb, r) /\ Accept(verb, r)
    BY <1>1, <2>2, Accepts
  <2>3. QED
    BY <1>1, <2>1, <2>2
<1>3. QED
  BY <1>1, <1>2 DEF PodsTypeOK

\* A container that runs takes its turn out of those waiting.
LEMMA ContainerEffect ==
  ASSUME PodsTypeOK, NEW verb \in Verbs, NEW r \in Rules, RunContainer(verb, r)
  PROVE  /\ PodsTypeOK' /\ UNCHANGED <<method, up, errs>> /\ waiting[verb][r] > 0
         /\ \A q \in Rules :
              q # r => /\ rules'[q] = rules[q] /\ vain'[q] = vain[q]
                       /\ \A v \in Verbs : waiting'[v][q] = waiting[v][q]
         /\ Standing(r)' <= Standing(r)
         /\ verb = "del" => Standing(r)' + waiting["del"][r] + vain[r]
                             <= Standing(r) + waiting'["del"][r] + vain'[r]
         /\ verb = "add" => waiting'["del"][r] = waiting["del"][r] /\ vain' = vain
<1>1. /\ rules \in [Rules -> Nat] /\ "add" \in Verbs /\ "del" \in Verbs
      /\ \A v \in Verbs : waiting[v][r] \in Nat
      /\ vain \in [Rules -> Nat] /\ UNCHANGED <<method, up, errs>> /\ waiting[verb][r] > 0
  BY DEF PodsTypeOK, Verbs, RunContainer
<1>2. waiting' = [waiting EXCEPT ![verb][r] = waiting[verb][r] - 1] /\ waiting[verb][r] - 1 \in Nat
  BY <1>1 DEF RunContainer
<1>3. /\ waiting' \in [Verbs -> [Rules -> Nat]]
      /\ waiting'[verb][r] = waiting[verb][r] - 1
      /\ \A v \in Verbs, q \in Rules : v # verb \/ q # r => waiting'[v][q] = waiting[v][q]
  BY <1>2, WaitingAt
<1>4. /\ rules' \in [Rules -> Nat] /\ vain' \in [Rules -> Nat]
      /\ \A q \in Rules : q # r => rules'[q] = rules[q] /\ vain'[q] = vain[q]
      /\ \/ verb = "add" /\ rules'[r] \in {rules[r], rules[r] + 1} /\ vain' = vain
         \/ verb = "del" /\ rules'[r] + 1 = rules[r] /\ vain' = vain
         \/ verb = "del" /\ rules' = rules /\ vain'[r] = vain[r] + 1
  <2>1. CASE Granted(verb, r) /\ rules' = Done(verb, r) /\ UNCHANGED vain
    <3>1. verb = "del" => rules[r] > 0
      BY <2>1 DEF Granted
    <3>2. QED
      BY <1>1, <2>1, <3>1 DEF Done, Verbs
  <2>2. CASE vain' = (IF verb = "del" THEN [vain EXCEPT ![r] = vain[r] + 1] ELSE vain) /\ UNCHANGED rules
    BY <1>1, <2>2 DEF Verbs
  <2>3. QED
    BY <2>1, <2>2 DEF RunContainer
<1>5. Standing(r)' <= Standing(r)
  BY <1>1, <1>3, <1>4 DEF Standing
<1>6. verb = "del" => Standing(r)' + waiting["del"][r] + vain[r]
                      <= Standing(r) + waiting'["del"][r] + vain'[r]
  <2>1. SUFFICES ASSUME verb = "del"
                 PROVE  Standing(r)' + waiting["del"][r] + vain[r]
                        <= Standing(r) + waiting'["del"][r] + vain'[r]
    OBVIOUS
  <2>2. /\ waiting'["add"][r] = waiting["add"][r]
        /\ waiting["del"][r] \in Nat /\ waiting["add"][r] \in Nat
        /\ waiting'["del"][r] = waiting["del"][r] - 1
    BY <1>1, <1>3, <2>1
  <2>3. /\ rules[r] \in Nat /\ vain[r] \in Nat
        /\ \/ rules'[r] + 1 = rules[r] /\ vain'[r] = vain[r]
           \/ rules'[r] = rules[r] /\ vain'[r] = vain[r] + 1
    BY <1>1, <1>4, <2>1
  <2>4. rules'[r] \in Nat
    BY <1>4
  <2>5. PICK n \in Nat, m \in Nat, a \in Nat, d \in Nat, v \in Nat :
          /\ n = rules[r] /\ m = rules'[r] /\ a = waiting["add"][r]
          /\ d = waiting["del"][r] /\ v = vain[r]
    BY <2>2, <2>3, <2>4
  <2>6. /\ Standing(r) = n + a /\ Standing(r)' = m + a /\ waiting'["del"][r] = d - 1
        /\ (m + 1 = n /\ vain'[r] = v) \/ (m = n /\ vain'[r] = v + 1)
    BY <2>2, <2>3, <2>5 DEF Standing
  <2>7. m + a + d + v <= n + a + (d - 1) + vain'[r]
    BY <2>5, <2>6
  <2>8. QED
    BY <2>5, <2>6, <2>7
<1>7. PodsTypeOK'
  BY <1>1, <1>3, <1>4 DEF PodsTypeOK
<1>8. QED
  BY <1>1, <1>3, <1>4, <1>5, <1>6, <1>7

LEMMA DeletedTypes ==
  ASSUME PodsTypeOK, NEW p, DeletePod(p)
  PROVE  /\ PodsTypeOK' /\ UNCHANGED <<method, errs>>
         /\ \A x \in Pods : up'[x] = (x # p /\ up[x])
         /\ \A q \in Rules : LET kept(n) == IF q[1] = p THEN 0 ELSE n
                             IN  /\ rules'[q] = kept(rules[q]) /\ vain'[q] = kept(vain[q])
                                 /\ \A v \in Verbs : waiting'[v][q] = kept(waiting[v][q])
<1>1. /\ rules' = [r \in Rules |-> IF r[1] = p THEN 0 ELSE rules[r]]
      /\ vain' = [r \in Rules |-> IF r[1] = p THEN 0 ELSE vain[r]]
      /\ waiting' = [v \in Verbs |-> [r \in Rules |-> IF r[1] = p THEN 0 ELSE waiting[v][r]]]
      /\ up' = [up EXCEPT ![p] = FALSE] /\ UNCHANGED <<method, errs>>
  BY DEF DeletePod
<1>2. rules' \in [Rules -> Nat] /\ vain' \in [Rules -> Nat] /\ up' \in [Pods -> BOOLEAN]
  BY <1>1 DEF PodsTypeOK
<1>3. waiting' \in [Verbs -> [Rules -> Nat]]
  <2>1. \A v \in Verbs : [r \in Rules |-> IF r[1] = p THEN 0 ELSE waiting[v][r]] \in [Rules -> Nat]
    BY DEF PodsTypeOK
  <2> DEFINE C == [Rules -> Nat]
             G(v) == [r \in Rules |-> IF r[1] = p THEN 0 ELSE waiting[v][r]]
  <2>2. (\A v \in Verbs : G(v) \in C) /\ waiting' = [v \in Verbs |-> G(v)]
    BY <1>1, <2>1
  <2> HIDE DEF C, G
  <2>3. waiting' \in [Verbs -> C]
    BY <2>2
  <2>4. QED
    BY <2>3 DEF C
<1>4. PodsTypeOK'
  BY <1>1, <1>2, <1>3 DEF PodsTypeOK
<1>5. \A x \in Pods : up'[x] = (x # p /\ up[x])
  BY <1>1 DEF PodsTypeOK
<1>6. QED
  BY <1>1, <1>4, <1>5

-----------------------------------------------------------------------------
\* What holds of every command that runs, whatever fails.
RunInv == TypeOK /\ AtInv /\ TrackedInv /\ StepInv

LEMMA CommandAt ==
  ASSUME NEW f \in Faults, Proper(desc[f]), desc[f].kind \in NetworkKinds,
         NEW n \in 1..2, n = 2 => desc[f].kind = "dns"
  PROVE  /\ Len(Cmds(f)) \in 1..2 /\ n \in 1..Len(Cmds(f)) /\ Cmds(f)[n] \in Rules
         /\ n < Len(Cmds(f)) => desc[f].kind = "dns" /\ n = 1 /\ Len(Cmds(f)) = 2
  BY CommandsOf DEF Cmds, NetworkKinds

\* A command of a revert by task t, and how far it brings the task.
Proceeds(t, f, n, bad) ==
  /\ step' = [step EXCEPT ![t][f] = n]
  /\ failed' = [failed EXCEPT ![t][f] = bad]

StepTypes ==
  /\ step \in [Reverters -> [Faults -> 1..2]]
  /\ failed \in [Reverters -> [Faults -> BOOLEAN]]

LEMMA ProceedsAt ==
  ASSUME StepTypes, NEW t \in Reverters, NEW f \in Faults, NEW n \in 1..2, NEW bad \in BOOLEAN,
         Proceeds(t, f, n, bad)
  PROVE  /\ StepTypes'
         /\ step'[t][f] = n /\ failed'[t][f] = bad
         /\ \A u \in Reverters, g \in Faults :
              u # t \/ g # f => step'[u][g] = step[u][g] /\ failed'[u][g] = failed[u][g]
<1> DEFINE F == [Faults -> 1..2]
           B == [Faults -> BOOLEAN]
<1>1. step[t] \in F /\ failed[t] \in B
  BY DEF StepTypes
<1>2. [step[t] EXCEPT ![f] = n] \in F /\ [failed[t] EXCEPT ![f] = bad] \in B
  BY <1>1
<1>3. /\ step' = [step EXCEPT ![t] = [step[t] EXCEPT ![f] = n]]
      /\ failed' = [failed EXCEPT ![t] = [failed[t] EXCEPT ![f] = bad]]
  BY DEF StepTypes, Proceeds
<1>4. StepTypes'
  <2>1. step \in [Reverters -> F] /\ failed \in [Reverters -> B]
    BY DEF StepTypes
  <2> HIDE DEF F, B
  <2>2. step' \in [Reverters -> F] /\ failed' \in [Reverters -> B]
    BY <1>2, <1>3, <2>1
  <2>3. QED
    BY <2>2 DEF StepTypes, F, B
<1>5. step'[t][f] = n /\ failed'[t][f] = bad
  BY <1>1, <1>3 DEF StepTypes
<1>6. ASSUME NEW u \in Reverters, NEW g \in Faults, u # t \/ g # f
      PROVE  step'[u][g] = step[u][g] /\ failed'[u][g] = failed[u][g]
  BY <1>1, <1>3, <1>6 DEF StepTypes
<1>7. QED
  BY <1>4, <1>5, <1>6

\* The last command of a revert leaves no failure behind.
Ends(t, f) == Proceeds(t, f, 1, FALSE)

LEMMA EndsAt ==
  ASSUME StepTypes, NEW t \in Reverters, NEW f \in Faults, Ends(t, f)
  PROVE  /\ StepTypes'
         /\ step'[t][f] = 1 /\ ~failed'[t][f]
         /\ \A u \in Reverters, g \in Faults :
              u # t \/ g # f => step'[u][g] = step[u][g] /\ failed'[u][g] = failed[u][g]
<1>1. 1 \in 1..2 /\ FALSE \in BOOLEAN
  OBVIOUS
<1>2. /\ StepTypes'
      /\ step'[t][f] = 1 /\ failed'[t][f] = FALSE
      /\ \A u \in Reverters, g \in Faults :
           u # t \/ g # f => step'[u][g] = step[u][g] /\ failed'[u][g] = failed[u][g]
  BY <1>1, ProceedsAt, Zenon DEF Ends
<1>3. QED
  BY <1>2

\* The first of two remembers that it failed.
GoesOn(t, f, reply) == Proceeds(t, f, 2, ~reply)

LEMMA GoesOnAt ==
  ASSUME StepTypes, NEW t \in Reverters, NEW f \in Faults, NEW reply \in BOOLEAN,
         GoesOn(t, f, reply)
  PROVE  /\ StepTypes'
         /\ step'[t][f] = 2 /\ (failed'[t][f] <=> ~reply)
         /\ \A u \in Reverters, g \in Faults :
              u # t \/ g # f => step'[u][g] = step[u][g] /\ failed'[u][g] = failed[u][g]
<1>1. (~reply) \in BOOLEAN /\ 2 \in 1..2
  OBVIOUS
<1>2. PICK bad \in BOOLEAN : bad = ~reply
  BY <1>1
<1>3. Proceeds(t, f, 2, bad)
  BY <1>2, Zenon DEF GoesOn
<1>4. /\ StepTypes'
      /\ step'[t][f] = 2 /\ failed'[t][f] = bad
      /\ \A u \in Reverters, g \in Faults :
           u # t \/ g # f => step'[u][g] = step[u][g] /\ failed'[u][g] = failed[u][g]
  BY <1>1, <1>3, ProceedsAt
<1>5. QED
  BY <1>2, <1>4

\* One such command with its reply; after the last one the task is done.
Moves(t, f, reply, Ok, Err) ==
  /\ step[t][f] \in 1..Len(Cmds(f))
  /\ Cmds(f)[step[t][f]] \in Rules
  /\ Exec("del", Cmds(f)[step[t][f]], reply)
  /\ \/ /\ step[t][f] = 1 /\ Len(Cmds(f)) = 2 /\ desc[f].kind = "dns"
        /\ GoesOn(t, f, reply)
        /\ UNCHANGED trackerVars
     \/ /\ step[t][f] = Len(Cmds(f))
        /\ Ends(t, f)
        /\ IF failed[t][f] \/ ~reply THEN Err ELSE Ok

LEMMA RevertEffect ==
  ASSUME IInv, RunInv, NEW t \in Reverters, NEW f \in tracked,
         desc[f].kind \in NetworkKinds,
         NEW ACTION Ok, NEW ACTION Err, RevertCommand(t, f, Ok, Err)
  PROVE  \E reply \in BOOLEAN : Moves(t, f, reply, Ok, Err)
<1> DEFINE n == step[t][f]
<1>1. f \in Faults /\ Proper(desc[f])
  BY DEF IInv, TrackerTypes, RunInv, TrackedInv
<1>2. n \in 1..2 /\ (n = 2 => desc[f].kind = "dns") /\ (n = 1 => ~failed[t][f])
      /\ failed[t][f] \in BOOLEAN
  BY <1>1 DEF RunInv, TypeOK, StepInv
<1>3. /\ Len(Cmds(f)) \in 1..2 /\ n \in 1..Len(Cmds(f)) /\ Cmds(f)[n] \in Rules
      /\ n < Len(Cmds(f)) => desc[f].kind = "dns" /\ n = 1 /\ Len(Cmds(f)) = 2
  BY <1>1, <1>2, CommandAt
<1>4. PICK reply \in BOOLEAN :
        /\ Exec("del", Cmds(f)[n], reply)
        /\ IF n < Len(Cmds(f))
           THEN /\ Proceeds(t, f, n + 1, failed[t][f] \/ ~reply)
                /\ UNCHANGED trackerVars
           ELSE /\ Ends(t, f)
                /\ IF failed[t][f] \/ ~reply THEN Err ELSE Ok
  BY DEF RevertCommand, Cmds, Proceeds, Ends
<1>5. CASE n < Len(Cmds(f))
  <2>1. n = 1 /\ Len(Cmds(f)) = 2 /\ desc[f].kind = "dns" /\ ~failed[t][f]
    BY <1>2, <1>3, <1>5
  <2>2. GoesOn(t, f, reply)
    BY <1>4, <1>5, <2>1 DEF Proceeds, GoesOn
  <2>3. QED
    BY <1>3, <1>4, <1>5, <2>1, <2>2 DEF Moves
<1>6. CASE ~(n < Len(Cmds(f)))
  <2>1. n = Len(Cmds(f))
    BY <1>3, <1>6
  <2>2. QED
    BY <1>3, <1>4, <1>6, <2>1 DEF Moves
<1>7. QED
  BY <1>5, <1>6

LEMMA MainRun ==
  ASSUME IInv, IInv', RoundInv, RoundInv', RunInv, MainStep PROVE RunInv'
<1> USE DEF RunInv, AtInv, TrackedInv, StepInv, TypeOK, PC, RoundInv
<1>0. /\ TrackerTypes /\ TrackerTypes' /\ round \in 0..Rounds /\ round' \in 0..Rounds
      /\ tracked \subseteq Faults /\ held \subseteq tracked /\ settled \subseteq tracked
      /\ \A f \in Faults : timer[f] # "none" => f \in tracked
  BY DEF IInv, OnlyTracked, Owed, TrackerTypes
<1>1. CASE NextRound \/ LeaveLoop \/ SkipRound
  <2>1. /\ UNCHANGED <<trackerVars, podVars, command, at, desc, signalled, outcome, revertVars, bereft>>
        /\ \/ round' = round + 1 /\ pc' = "discover"
           \/ round' = round /\ pc' \in {"report", "count", "sleep"}
    BY <1>1 DEF NextRound, LeaveLoop, AfterLoop, SkipRound
  <2>2. TypeOK'
    BY <1>0, <2>1 DEF trackerVars, podVars, revertVars, PodsTypeOK
  <2>3. TrackedInv'
    BY <1>0, <2>1 DEF trackerVars
  <2>4. AtInv' /\ StepInv'
    BY <1>0, <2>1 DEF trackerVars, revertVars
  <2>5. QED
    BY <2>2, <2>3, <2>4
<1>2. CASE DiscoverFails
  BY <1>0, <1>2, MaxErrsAssumption DEF DiscoverFails, SpareError, Exit, trackerVars, revertVars, PodsTypeOK
<1>3. CASE DrawFault
  <2>1. PICK d \in FaultDesc : /\ IF d.kind = "partition" THEN d.peer # d.pod ELSE d.peer = d.pod
                              /\ desc' = [desc EXCEPT ![round] = d]
    BY <1>3 DEF DrawFault
  <2>2. Proper(d)
    BY <2>1 DEF Proper
  <2>3. round \in Faults /\ round \notin tracked
    BY <1>0, <1>3 DEF DrawFault
  <2>4. \A f \in Faults : f # round => desc'[f] = desc[f]
    BY <2>1
  <2>5. desc'[round] = d
    BY <2>1, <2>3
  <2>6. UNCHANGED <<trackerVars, podVars, command, round, signalled, outcome, revertVars, bereft>>
        /\ at' = 1 /\ pc = "discover" /\ pc' = "inject"
    BY <1>3 DEF DrawFault
  <2>7. TypeOK'
    BY <1>0, <2>1, <2>6 DEF trackerVars, podVars, revertVars, PodsTypeOK
  <2>8. QED
    BY <1>0, <2>2, <2>3, <2>4, <2>5, <2>6, <2>7 DEF trackerVars, revertVars
<1>4. ASSUME InjectCommand \/ RollBack PROVE RunInv'
  <2>1. /\ Proper(desc[round]) /\ round \in Faults /\ round \notin tracked
        /\ pc \in {"inject", "rollback"}
        /\ UNCHANGED <<trackerVars, command, round, signalled, outcome, revertVars, bereft>>
    BY <1>0, <1>4 DEF InjectCommand, RollBack
  <2>2. PICK verb \in Verbs, reply \in BOOLEAN, n \in 1..2 :
          Exec(verb, RulesOf(desc[round])[n], reply) /\ n \in 1..Len(RulesOf(desc[round]))
    <3>1. CASE InjectCommand
      <4>1. at \in 1..Len(RulesOf(desc[round]))
        BY <2>1, <3>1, CommandsOf DEF InjectCommand, NetworkKinds
      <4>2. QED
        BY <3>1, <4>1 DEF InjectCommand, Verbs
    <3>2. CASE RollBack
      <4>1. at = 2 /\ Len(RulesOf(desc[round])) = 2
        BY <2>1, <3>2, CommandsOf DEF RollBack
      <4>2. QED
        BY <3>2, <4>1 DEF RollBack, Verbs
    <3>3. QED
      BY <1>4, <3>1, <3>2
  <2>3. PodsTypeOK'
    BY <2>1, <2>2, CommandsOf, ExecEffect
  <2>4. /\ desc' \in {desc, [desc EXCEPT ![round] = NoFault]}
        /\ \A f \in tracked : desc'[f] = desc[f]
    <3>1. desc' = desc \/ desc' = [desc EXCEPT ![round] = NoFault]
      BY <1>4 DEF InjectCommand, RollBack
    <3>2. \A f \in tracked : f \in Faults /\ f # round
      BY <1>0, <2>1
    <3>3. desc \in [Faults -> FaultDesc \cup {NoFault}]
      OBVIOUS
    <3>4. QED
      BY <3>1, <3>2, <3>3
  <2>5. TypeOK' /\ AtInv'
    <3>0. desc' \in [Faults -> FaultDesc \cup {NoFault}]
      <4> DEFINE D == FaultDesc \cup {NoFault}
      <4>1. desc \in [Faults -> D] /\ NoFault \in D
        OBVIOUS
      <4> HIDE DEF D
      <4>2. desc' \in [Faults -> D]
        BY <2>4, <4>1, Zenon
      <4> QED
        BY <4>2 DEF D
    <3>1. CASE RollBack
      <4>1. at' = at /\ pc' = "sleep"
        BY <3>1 DEF RollBack
      <4>2. QED
        BY <1>0, <2>1, <2>3, <3>0, <4>1 DEF trackerVars, revertVars
    <3>2. CASE InjectCommand
      <4>1. /\ desc[round].kind \in NetworkKinds
            /\ desc[round].kind # "dns" => Len(RulesOf(desc[round])) = 1
            /\ desc[round].kind = "dns" => Len(RulesOf(desc[round])) = 2
        BY <2>1, <3>2, CommandsOf DEF InjectCommand, NetworkKinds
      <4>2. /\ at' \in 1..2
            /\ \/ pc' = "inject" /\ desc' = desc /\ desc[round].kind = "dns"
               \/ pc' = "track" /\ desc' = desc
               \/ pc' = "rollback" /\ desc' = desc /\ desc[round].kind = "dns" /\ at' = 2
               \/ pc' = "sleep"
        <5>1. at \in 1..2 /\ pc = "inject" /\ (at = 1 \/ desc[round].kind = "dns")
          BY <3>2 DEF InjectCommand
        <5>2. \/ at < Len(RulesOf(desc[round])) /\ at' = at + 1 /\ UNCHANGED <<pc, desc>>
              \/ pc' = "track" /\ UNCHANGED <<at, desc>>
              \/ at > 1 /\ pc' = "rollback" /\ UNCHANGED <<at, desc>>
              \/ pc' = "sleep" /\ UNCHANGED at
          BY <3>2 DEF InjectCommand
        <5> DEFINE len == Len(RulesOf(desc[round]))
        <5>3. /\ at < len /\ at' = at + 1 => at' = 2 /\ desc[round].kind = "dns"
              /\ at > 1 => at = 2 /\ desc[round].kind = "dns"
          <6>1. len = 1 \/ (len = 2 /\ desc[round].kind = "dns")
            BY <4>1
          <6> HIDE DEF len
          <6>2. QED
            BY <5>1, <6>1
        <5>4. QED
          BY <5>1, <5>2, <5>3
      <4>3. TypeOK'
        <5>1. UNCHANGED <<command, round, signalled, outcome, step, failed, tried, bereft>>
              /\ pc' \in PC /\ at' \in 1..2
          BY <2>1, <4>2 DEF revertVars
        <5>2. TypeOK
          OBVIOUS
        <5>3. QED
          BY <1>0, <2>3, <3>0, <5>1, <5>2
      <4>4. AtInv'
        BY <2>1, <4>1, <4>2 DEF Lasting
      <4>5. QED
        BY <4>3, <4>4
    <3>3. QED
      BY <1>4, <3>1, <3>2
  <2>6. TrackedInv'
    BY <2>1, <2>4 DEF trackerVars
  <2>7. StepInv'
    BY <1>0, <2>1, <2>4 DEF trackerVars, revertVars
  <2>8. QED
    BY <2>5, <2>6, <2>7
<1>5. CASE InjectStress
  BY <1>0, <1>5 DEF InjectStress, Lasting, trackerVars, podVars, revertVars, PodsTypeOK
<1>6. CASE InjectDeletion \/ DropFault
  <2>1. /\ round \in Faults /\ round \notin tracked
        /\ UNCHANGED <<trackerVars, command, round, at, signalled, outcome, revertVars>>
        /\ desc' = [desc EXCEPT ![round] = NoFault] /\ pc' = "sleep"
    BY <1>0, <1>6 DEF InjectDeletion, DropFault
  <2>2. PodsTypeOK' /\ bereft' \subseteq Faults
    <3>1. CASE UNCHANGED <<podVars, bereft>>
      BY <3>1 DEF PodsTypeOK, podVars
    <3>2. CASE LosePod(desc[round].pod)
      <4>1. PodsTypeOK /\ bereft \subseteq Faults
        OBVIOUS
      <4>2. QED
        BY <3>2, <4>1, DeletedTypes DEF LosePod
    <3>3. QED
      BY <1>6, <3>1, <3>2 DEF InjectDeletion, DropFault
  <2>3. TypeOK'
    BY <1>0, <2>1, <2>2 DEF trackerVars, revertVars
  <2>4. QED
    BY <1>0, <2>1, <2>3 DEF trackerVars, revertVars
<1>7. CASE TrackFault
  <2>1. /\ round \in Faults /\ tracked' = tracked \cup {round} /\ round \notin tracked
        /\ UNCHANGED <<held, podVars, command, round, at, desc, signalled, outcome, revertVars, bereft>>
        /\ timer' = [timer EXCEPT ![round] = IF Timed(round) THEN "armed" ELSE "none"]
        /\ pc = "track" /\ pc' = "sleep"
    BY <1>7 DEF TrackFault, Track
  <2>2. TypeOK' /\ AtInv' /\ TrackedInv'
    BY <1>0, <2>1 DEF podVars, revertVars, PodsTypeOK
  <2>3. StepInv'
    BY <1>0, <2>1 DEF Timed, revertVars, TrackerTypes
  <2>4. QED
    BY <2>2, <2>3
<1>8. CASE CountActive \/ DrainOver \/ Finish
  BY <1>0, <1>8 DEF CountActive, DrainOver, Finish, Exit, trackerVars, podVars, revertVars, PodsTypeOK
<1>9. QED
  BY <1>1, <1>2, <1>3, <1>4, <1>5, <1>6, <1>7, <1>8 DEF MainStep

\* A fault that is timed or in a job is tracked, and has commands unless its
\* job kills stress-ng.
LEMMA InHands ==
  ASSUME IInv, RunInv, NEW f \in Faults
  PROVE  /\ timer[f] # "none" => f \in tracked /\ desc[f].kind \in NetworkKinds
         /\ f \in held => f \in tracked
  BY DEF IInv, OnlyTracked, Owed, RunInv, StepInv

LEMMA RevertRun ==
  ASSUME IInv, IInv', RoundInv, RunInv, NEW f \in Faults, RevertStep(f)
  PROVE  RunInv'
<1> USE DEF RunInv
<1>0. UNCHANGED mainVars /\ TrackerTypes'
  BY RevertKeepsMain DEF IInv
<1>1. tracked' = tracked /\ (\A g \in Faults : timer'[g] = "none" <=> timer[g] = "none")
      /\ held' \in {held, held \ {f}} /\ TrackerTypes
  <2>1. TrackerTypes
    BY DEF IInv
  <2>2. CASE TimedRevert(f)
    <3>1. TimedRevertOk(f) \/ TimedRevertErr(f) \/ UNCHANGED trackerVars
      BY <2>2 DEF TimedRevert, RevertCommand
    <3>2. QED
      BY <2>1, <3>1 DEF TimedRevertOk, TimedRevertErr, trackerVars, TrackerTypes
  <2>3. CASE TimedUntrack(f)
    BY <2>1, <2>3 DEF TimedUntrack, Untrack, TrackerTypes
  <2>4. CASE JobRevert(f)
    <3>1. JobOk(f) \/ JobErr(f) \/ UNCHANGED trackerVars
      BY <2>4 DEF JobRevert, RevertCommand
    <3>2. QED
      BY <2>1, <3>1 DEF JobOk, JobErr, trackerVars
  <2>5. CASE JobStress(f) \/ JobTimeout(f)
    BY <2>1, <2>5 DEF JobStress, JobTimeout, JobOk, JobErr
  <2>6. QED
    BY <2>2, <2>3, <2>4, <2>5 DEF RevertStep
<1>2. AtInv' /\ TrackedInv'
  BY <1>0, <1>1 DEF AtInv, TrackedInv, mainVars
<1>3. /\ PodsTypeOK' /\ tried' \subseteq Faults /\ bereft' = bereft
      /\ \/ UNCHANGED <<step, failed>> /\ held' = held
         \/ UNCHANGED <<step, failed>> /\ desc[f].kind = "stress"
         \/ Ends("timer", f) /\ held' = held
         \/ Ends("job", f)
         \/ \E t \in Reverters, reply \in BOOLEAN :
              /\ GoesOn(t, f, reply) /\ f \in tracked /\ desc[f].kind = "dns"
              /\ held' = held /\ (t = "job" => f \in held)
  <2>1. PodsTypeOK /\ tried \subseteq Faults /\ bereft' = bereft /\ "del" \in Verbs
    BY DEF TypeOK, RevertStep, TimedRevert, TimedUntrack, JobRevert, JobStress, JobTimeout, Verbs
  <2>2. CASE TimedRevert(f)
    <3>1. f \in tracked /\ desc[f].kind \in NetworkKinds /\ "timer" \in Reverters
      BY <2>2, InHands DEF TimedRevert, Reverters
    <3>2. PICK reply \in BOOLEAN :
            Moves("timer", f, reply, TimedRevertOk(f), TimedRevertErr(f))
      BY <2>2, <3>1, RevertEffect DEF TimedRevert
    <3>3. PodsTypeOK'
      BY <2>1, <3>2, ExecEffect DEF Moves
    <3>4. held' = held /\ tried' = tried
      BY <2>2, <3>2 DEF Moves, TimedRevert, TimedRevertErr, TimedRevertOk, trackerVars
    <3>5. Ends("timer", f) \/ (desc[f].kind = "dns" /\ GoesOn("timer", f, reply))
      BY <3>2 DEF Moves
    <3>6. QED
      BY <2>1, <3>1, <3>3, <3>4, <3>5
  <2>3. CASE TimedUntrack(f)
    BY <2>1, <2>3 DEF TimedUntrack, Untrack, podVars, revertVars, PodsTypeOK
  <2>4. CASE JobRevert(f)
    <3>1. f \in tracked /\ desc[f].kind \in NetworkKinds /\ "job" \in Reverters
      BY <2>4, InHands DEF JobRevert, Reverters
    <3>2. PICK reply \in BOOLEAN :
            Moves("job", f, reply, JobOk(f), JobErr(f))
      BY <2>4, <3>1, RevertEffect DEF JobRevert
    <3>3. PodsTypeOK'
      BY <2>1, <3>2, ExecEffect DEF Moves
    <3>4. tried' \subseteq Faults
      BY <2>1, <2>4 DEF JobRevert
    <3>5. \/ Ends("job", f)
          \/ /\ desc[f].kind = "dns" /\ GoesOn("job", f, reply)
             /\ held' = held /\ f \in held
      BY <2>4, <3>2 DEF Moves, JobRevert, trackerVars
    <3>6. QED
      BY <2>1, <3>1, <3>3, <3>4, <3>5
  <2>5. CASE JobStress(f)
    BY <2>1, <2>5, MaxErrsAssumption DEF JobStress, podVars, PodsTypeOK, SpareError
  <2>6. CASE JobTimeout(f)
    <3>1. f \in tracked /\ "job" \in Reverters /\ desc[f].kind \in Lasting
      BY <2>6, InHands DEF JobTimeout, Reverters, TrackedInv
    <3>2. desc[f].kind # "stress" => RulesOf(desc[f])[step["job"][f]] \in Rules
      BY <3>1, CommandAt DEF Cmds, TypeOK, StepInv, TrackedInv, Lasting
    <3>3. PodsTypeOK'
      <4>1. CASE desc[f].kind = "stress"
        BY <2>1, <2>6, <4>1, MaxErrsAssumption DEF JobTimeout, PodsTypeOK, SpareError
      <4>2. CASE desc[f].kind # "stress"
        BY <2>1, <2>6, <3>2, <4>2, CutEffect DEF JobTimeout
      <4>3. QED
        BY <4>1, <4>2
    <3>4. Ends("job", f) /\ tried' = tried \cup {f}
      BY <2>6 DEF JobTimeout, Proceeds, Ends
    <3>5. QED
      BY <2>1, <3>1, <3>3, <3>4
  <2>7. QED
    BY <2>2, <2>3, <2>4, <2>5, <2>6 DEF RevertStep
<1>4. StepTypes /\ StepTypes'
  <2>1. StepTypes
    BY DEF StepTypes, TypeOK
  <2>2. "timer" \in Reverters /\ "job" \in Reverters /\ 1 \in 1..2 /\ 2 \in 1..2
    BY DEF Reverters
  <2>3. CASE UNCHANGED <<step, failed>>
    BY <2>1, <2>3 DEF StepTypes
  <2>4. CASE Ends("timer", f) \/ Ends("job", f)
    BY <2>1, <2>2, <2>4, EndsAt
  <2>5. ASSUME NEW t \in Reverters, NEW reply \in BOOLEAN, GoesOn(t, f, reply) PROVE StepTypes'
    BY <2>1, <2>5, GoesOnAt
  <2>6. QED
    BY <1>3, <2>1, <2>3, <2>4, <2>5
<1>5. TypeOK'
  BY <1>0, <1>3, <1>4 DEF StepTypes, TypeOK, RoundInv, mainVars
<1>6. StepInv'
  <2>1. \A g \in Faults : timer'[g] # "none" => desc'[g].kind \in NetworkKinds
    BY <1>0, <1>1 DEF StepInv, mainVars
  <2>2. /\ StepInv /\ desc' = desc /\ tracked' = tracked
        /\ "timer" \in Reverters /\ "job" \in Reverters /\ 1 \in 1..2 /\ 2 \in 1..2
    BY <1>0, <1>1 DEF mainVars, Reverters
  <2>3. CASE UNCHANGED <<step, failed>> /\ (held' = held \/ desc[f].kind = "stress")
    <3>1. desc[f].kind = "stress" => step["job"][f] = 1
      BY <1>4, <2>2 DEF StepInv, StepTypes
    <3>2. QED
      BY <1>1, <2>1, <2>2, <2>3, <3>1 DEF StepInv
  <2>4. CASE Ends("timer", f) /\ held' = held
    <3>1. /\ step'["timer"][f] = 1 /\ ~failed'["timer"][f]
          /\ \A u \in Reverters, g \in Faults :
               u # "timer" \/ g # f => step'[u][g] = step[u][g] /\ failed'[u][g] = failed[u][g]
      BY <1>4, <2>2, <2>4, EndsAt
    <3>2. QED
      BY <2>1, <2>2, <2>4, <3>1 DEF StepInv
  <2>5. CASE Ends("job", f)
    <3>1. /\ step'["job"][f] = 1 /\ ~failed'["job"][f]
          /\ \A u \in Reverters, g \in Faults :
               u # "job" \/ g # f => step'[u][g] = step[u][g] /\ failed'[u][g] = failed[u][g]
      BY <1>4, <2>2, <2>5, EndsAt
    <3>2. QED
      BY <1>1, <2>1, <2>2, <3>1 DEF StepInv
  <2>6. ASSUME NEW t \in Reverters, NEW reply \in BOOLEAN, GoesOn(t, f, reply),
               f \in tracked, desc[f].kind = "dns", held' = held, t = "job" => f \in held
        PROVE  StepInv'
    <3>1. /\ step'[t][f] = 2
          /\ \A u \in Reverters, g \in Faults :
               u # t \/ g # f => step'[u][g] = step[u][g] /\ failed'[u][g] = failed[u][g]
      BY <1>4, <2>2, <2>6, GoesOnAt
    <3>2. QED
      BY <2>1, <2>2, <2>6, <3>1 DEF StepInv
  <2>7. QED
    BY <1>3, <2>3, <2>4, <2>5, <2>6
<1>7. QED
  BY <1>2, <1>5, <1>6

LEMMA RunStep ==
  ASSUME IInv, IInv', RoundInv, RoundInv', RunInv, [Next]_vars PROVE RunInv'
<1>0. TrackerTypes'
  BY DEF IInv
<1>1. CASE MainStep
  BY <1>1, MainRun
<1>2. CASE Sigint \/ SigintExit
  <2>1. /\ UNCHANGED <<trackerVars, podVars, command, round, at, desc, step, failed, tried, bereft>>
        /\ signalled' \in BOOLEAN
        /\ UNCHANGED <<pc, outcome>> \/ (pc' = "exited" /\ outcome' = "sigint")
    BY <1>2 DEF Sigint, SigintExit, Exit, revertVars, RunInv, TypeOK
  <2>2. TypeOK'
    BY <1>0, <2>1 DEF RunInv, TypeOK, PC, podVars, PodsTypeOK
  <2>3. AtInv' /\ TrackedInv' /\ StepInv'
    BY <2>1 DEF RunInv, AtInv, TrackedInv, StepInv, trackerVars
  <2>4. QED
    BY <2>2, <2>3 DEF RunInv
<1>3. ASSUME NEW c \in Calls, DrainStep(c) PROVE RunInv'
  <2>1. /\ UNCHANGED <<podVars, mainVars, revertVars, bereft>>
        /\ tracked' = tracked /\ timer' = timer
        /\ TakeAll(c) \/ held' = held
    BY <1>3 DEF DrainStep, CallStep, ClaimGuard, JoinWait, WaitOver, TakeAll, Requeue, Release
  <2>2. held \subseteq held'
    BY <2>1 DEF TakeAll, IInv, HeldByDrain, OneDrain, Owners
  <2>3. TypeOK'
    BY <1>0, <2>1 DEF RunInv, TypeOK, PC, podVars, mainVars, revertVars, PodsTypeOK
  <2>4. AtInv' /\ TrackedInv' /\ StepInv'
    BY <2>1, <2>2 DEF RunInv, AtInv, TrackedInv, StepInv, mainVars, revertVars
  <2>5. QED
    BY <2>3, <2>4 DEF RunInv
<1>4. ASSUME NEW f \in Faults, RevertStep(f) PROVE RunInv'
  BY <1>4, RevertRun
<1>5. CASE ClusterStep \/ UNCHANGED vars
  <2>1. UNCHANGED <<trackerVars, mainVars, revertVars>>
    BY <1>5, ClusterKeeps DEF vars
  <2>2. PodsTypeOK' /\ bereft' \subseteq Faults
    <3>1. PodsTypeOK /\ bereft \subseteq Faults
      BY DEF RunInv, TypeOK
    <3>2. ASSUME NEW verb \in Verbs, NEW r \in Rules, ContainerStep(verb, r)
          PROVE  PodsTypeOK' /\ bereft' = bereft
      BY <3>1, <3>2, ContainerEffect DEF ContainerStep
    <3>3. ASSUME NEW p \in Pods, PodGoes(p) PROVE PodsTypeOK' /\ bereft' \subseteq Faults
      BY <3>1, <3>3, DeletedTypes DEF PodGoes, LosePod
    <3>4. ASSUME NEW p \in Pods, PodComesBack(p) PROVE PodsTypeOK' /\ bereft' = bereft
      BY <3>1, <3>4 DEF PodComesBack, PodReturns, PodsTypeOK
    <3>5. CASE UNCHANGED vars
      BY <3>1, <3>5 DEF vars, podVars, PodsTypeOK
    <3>6. QED
      BY <1>5, <3>1, <3>2, <3>3, <3>4, <3>5 DEF ClusterStep
  <2>3. TypeOK'
    BY <1>0, <2>1, <2>2 DEF RunInv, TypeOK, mainVars, revertVars
  <2>4. AtInv' /\ TrackedInv' /\ StepInv'
    BY <2>1 DEF RunInv, AtInv, TrackedInv, StepInv, trackerVars, mainVars, revertVars
  <2>5. QED
    BY <2>3, <2>4 DEF RunInv
<1>6. QED
  BY <1>1, <1>2, <1>3, <1>4, <1>5 DEF Next

LEMMA InitRun == Init => RunInv
<1> SUFFICES ASSUME Init PROVE RunInv
  OBVIOUS
<1>1. TypeOK
  <2>1. TrackerTypes
    BY InitIInv DEF Init, IInv
  <2>2. PodsTypeOK
    <3>1. /\ rules \in [Rules -> Nat] /\ vain \in [Rules -> Nat] /\ up \in [Pods -> BOOLEAN]
          /\ method \in Methods /\ errs \in 0..MaxErrs
      BY MaxErrsAssumption DEF Init, PodsInit
    <3>2. waiting \in [Verbs -> [Rules -> Nat]]
      <4> DEFINE C == [Rules -> Nat]
      <4>1. [r \in Rules |-> 0] \in C
        OBVIOUS
      <4> HIDE DEF C
      <4>2. waiting \in [Verbs -> C]
        BY <4>1 DEF Init, PodsInit
      <4>3. QED
        BY <4>2 DEF C
    <3>3. QED
      BY <3>1, <3>2 DEF PodsTypeOK
  <2>3. desc \in [Faults -> FaultDesc \cup {NoFault}]
    <3> DEFINE D == FaultDesc \cup {NoFault}
    <3>1. NoFault \in D /\ desc = [f \in Faults |-> NoFault]
      BY DEF Init
    <3> HIDE DEF D
    <3>2. desc \in [Faults -> D]
      BY <3>1
    <3>3. QED
      BY <3>2 DEF D
  <2>4. StepTypes
    <3> DEFINE F == [Faults -> 1..2]
               B == [Faults -> BOOLEAN]
    <3>1. [f \in Faults |-> 1] \in F /\ [f \in Faults |-> FALSE] \in B
      OBVIOUS
    <3> HIDE DEF F, B
    <3>2. step \in [Reverters -> F] /\ failed \in [Reverters -> B]
      BY <3>1 DEF Init
    <3>3. QED
      BY <3>2 DEF StepTypes, F, B
  <2>5. /\ command \in Commands /\ pc \in PC /\ round \in 0..Rounds /\ at \in 1..2
        /\ outcome \in {"none", "ok", "error", "sigint"} /\ tried \subseteq Faults /\ bereft \subseteq Faults
    <3>1. /\ command \in Commands /\ pc = "sleep" /\ round = 0 /\ at = 1 /\ outcome = "none"
          /\ tried = {} /\ bereft = {}
      BY DEF Init
    <3>2. QED
      BY <3>1 DEF PC
  <2>6. signalled \in BOOLEAN
    BY Zenon DEF Init
  <2>7. QED
    BY <2>1, <2>2, <2>3, <2>4, <2>5, <2>6 DEF TypeOK, StepTypes
<1>2. AtInv /\ TrackedInv /\ StepInv
  <2>1. /\ pc = "sleep" /\ tracked = {} /\ timer = [f \in Faults |-> "none"]
        /\ step = [t \in Reverters |-> [f \in Faults |-> 1]]
        /\ failed = [t \in Reverters |-> [f \in Faults |-> FALSE]]
    BY DEF Init, TrackerInit
  <2>2. /\ \A f \in Faults : timer[f] = "none"
        /\ \A t \in Reverters, f \in Faults : step[t][f] = 1 /\ ~failed[t][f]
        /\ "job" \in Reverters
    BY <2>1 DEF Reverters
  <2>3. QED
    BY <2>1, <2>2 DEF AtInv, TrackedInv, StepInv
<1>3. QED
  BY <1>1, <1>2 DEF RunInv

\* The values the commands work with keep their types, whatever fails.
THEOREM RunTypes == Spec => []TypeOK
<1>1. Spec => []IInv
  BY UsesTracker, Invariance, PTL DEF ImplementsTracker
<1>2. Init => RoundInv
  BY DEF Init, RoundInv
<1>3. IInv /\ IInv' /\ RoundInv /\ RoundInv' /\ RunInv /\ [Next]_vars => RunInv'
  BY RunStep
<1>4. RunInv => TypeOK
  BY DEF RunInv
<1>5. QED
  BY <1>1, <1>2, <1>3, <1>4, InitRun, RoundStep, PTL DEF Spec

-----------------------------------------------------------------------------
\* What a step may do to the pods.
LEMMA PodMoves ==
  ASSUME IInv, RoundInv, RunInv, [Next]_vars
  PROVE  \/ UNCHANGED <<method, rules, up, waiting, vain>>
         \/ \E verb \in Verbs, r \in Rules : /\ Accepted(verb, r) /\ Accept(verb, r)
                                             /\ UNCHANGED <<method, up, vain>>
         \/ \E verb \in Verbs, r \in Rules : RunContainer(verb, r)
         \/ \E p \in Pods : DeletePod(p) \/ PodReturns(p)
<1> DEFINE Same == UNCHANGED <<method, rules, up, waiting, vain>>
           Runs(verb, r) == Accepted(verb, r) /\ Accept(verb, r) /\ UNCHANGED <<method, up, vain>>
<1>0. PodsTypeOK /\ "add" \in Verbs /\ "del" \in Verbs
  BY DEF RunInv, TypeOK, Verbs
<1>1. ASSUME NEW verb \in Verbs, NEW r \in Rules, NEW reply \in BOOLEAN, Exec(verb, r, reply)
      PROVE  Same \/ \E v \in Verbs, q \in Rules : Runs(v, q)
  BY <1>0, <1>1, ExecEffect
<1>2. CASE InjectCommand \/ RollBack
  <2>1. /\ pc \in {"inject", "rollback"} /\ Proper(desc[round]) /\ at \in 1..2
        /\ pc = "inject" => at = 1 \/ desc[round].kind = "dns"
        /\ pc = "rollback" => desc[round].kind = "dns" /\ at = 2
    BY <1>2 DEF InjectCommand, RollBack, RunInv, AtInv, TypeOK
  <2>2. CASE InjectCommand
    <3>1. RulesOf(desc[round])[at] \in Rules
      BY <2>1, <2>2, CommandsOf DEF InjectCommand, NetworkKinds
    <3>2. QED
      BY <1>0, <1>1, <2>2, <3>1 DEF InjectCommand
  <2>3. CASE RollBack
    <3>1. RulesOf(desc[round])[at - 1] \in Rules
      BY <2>1, <2>3, CommandsOf DEF RollBack
    <3>2. QED
      BY <1>0, <1>1, <2>3, <3>1 DEF RollBack
  <2>4. QED
    BY <1>2, <2>2, <2>3
<1>3. CASE InjectDeletion
  <2>1. desc[round].pod \in Pods
    BY <1>3 DEF InjectDeletion, RunInv, AtInv, Proper, FaultDesc
  <2>2. QED
    BY <1>3, <2>1 DEF InjectDeletion, LosePod, podVars
<1>4. CASE MainStep /\ ~InjectCommand /\ ~RollBack /\ ~InjectDeletion
  BY <1>4 DEF MainStep, NextRound, LeaveLoop, DrawFault, SkipRound, DiscoverFails, InjectStress,
              TrackFault, DropFault, CountActive, DrainOver, Finish, podVars
<1>5. CASE Sigint \/ SigintExit \/ (\E c \in Calls : DrainStep(c)) \/ UNCHANGED vars
  BY <1>5 DEF Sigint, SigintExit, DrainStep, vars, podVars
<1>6. ASSUME NEW f \in Faults, RevertStep(f)
      PROVE  Same \/ \E v \in Verbs, q \in Rules : Runs(v, q)
  <2>1. "timer" \in Reverters /\ "job" \in Reverters
    BY DEF Reverters
  <2>2. CASE TimedRevert(f)
    <3>1. f \in tracked /\ desc[f].kind \in NetworkKinds
      BY <2>2, InHands DEF TimedRevert
    <3>2. \E reply \in BOOLEAN : Moves("timer", f, reply, TimedRevertOk(f), TimedRevertErr(f))
      BY <2>1, <2>2, <3>1, RevertEffect DEF TimedRevert
    <3>3. QED
      BY <1>0, <1>1, <3>2 DEF Moves
  <2>3. CASE JobRevert(f)
    <3>1. f \in tracked /\ desc[f].kind \in NetworkKinds
      BY <2>3, InHands DEF JobRevert
    <3>2. \E reply \in BOOLEAN : Moves("job", f, reply, JobOk(f), JobErr(f))
      BY <2>1, <2>3, <3>1, RevertEffect DEF JobRevert
    <3>3. QED
      BY <1>0, <1>1, <3>2 DEF Moves
  <2>4. CASE JobTimeout(f)
    <3>1. CASE desc[f].kind = "stress"
      BY <2>4, <3>1 DEF JobTimeout
    <3>2. CASE desc[f].kind # "stress"
      <4>1. f \in tracked /\ Proper(desc[f]) /\ desc[f].kind \in NetworkKinds
        BY <2>4, <3>2, InHands DEF JobTimeout, RunInv, TrackedInv, Lasting
      <4>2. RulesOf(desc[f])[step["job"][f]] \in Rules
        BY <2>1, <4>1, CommandAt DEF Cmds, RunInv, TypeOK, StepInv
      <4>3. QED
        BY <1>0, <2>4, <3>2, <4>2, CutEffect DEF JobTimeout
    <3>3. QED
      BY <3>1, <3>2
  <2>5. CASE TimedUntrack(f) \/ JobStress(f)
    BY <2>5 DEF TimedUntrack, JobStress, podVars
  <2>6. QED
    BY <1>6, <2>2, <2>3, <2>4, <2>5 DEF RevertStep
<1>7. CASE ClusterStep
  BY <1>7 DEF ClusterStep, ContainerStep, PodGoes, LosePod, PodComesBack
<1>8. QED
  BY <1>2, <1>3, <1>4, <1>5, <1>6, <1>7 DEF Next

\* A pod that is gone has no rules and no containers, and with the method
\* "exec" there are no debug containers.
GoneInv == \A r \in Rules : ~up[r[1]] => rules[r] = 0 /\ \A v \in Verbs : waiting[v][r] = 0
ExecInv == method = "exec" => \A v \in Verbs, r \in Rules : waiting[v][r] = 0
PodInv == GoneInv /\ ExecInv

LEMMA PodStep ==
  ASSUME IInv, RoundInv, RunInv, PodInv, [Next]_vars PROVE PodInv'
<1> USE DEF PodInv, GoneInv, ExecInv
<1>0. PodsTypeOK /\ \A r \in Rules : r[1] \in Pods
  BY DEF RunInv, TypeOK, Rules
<1>1. CASE UNCHANGED <<method, rules, up, waiting, vain>>
  BY <1>1
<1>2. ASSUME NEW verb \in Verbs, NEW r \in Rules,
             Accepted(verb, r), Accept(verb, r), UNCHANGED <<method, up, vain>>
      PROVE  PodInv'
  <2>1. \A q \in Rules : q # r => rules'[q] = rules[q] /\ \A v \in Verbs : waiting'[v][q] = waiting[v][q]
    BY <1>0, <1>2, Accepts
  <2>2. up[r[1]] /\ (method = "exec" => waiting' = waiting)
    BY <1>2 DEF Accepted, Accept, Granted
  <2>3. QED
    BY <1>2, <2>1, <2>2
<1>3. ASSUME NEW verb \in Verbs, NEW r \in Rules, RunContainer(verb, r) PROVE PodInv'
  <2>1. /\ UNCHANGED <<method, up>> /\ waiting[verb][r] > 0
        /\ \A q \in Rules : q # r => rules'[q] = rules[q] /\ \A v \in Verbs : waiting'[v][q] = waiting[v][q]
    BY <1>0, <1>3, ContainerEffect
  <2>2. method # "exec" /\ up[r[1]]
    BY <2>1
  <2>3. QED
    BY <2>1, <2>2
<1>4. ASSUME NEW p \in Pods, DeletePod(p) PROVE PodInv'
  <2>1. /\ method' = method
        /\ \A x \in Pods : up'[x] = (x # p /\ up[x])
        /\ \A q \in Rules : /\ rules'[q] = IF q[1] = p THEN 0 ELSE rules[q]
                            /\ \A v \in Verbs : waiting'[v][q] = IF q[1] = p THEN 0 ELSE waiting[v][q]
    BY <1>0, <1>4, DeletedTypes
  <2>2. QED
    BY <1>0, <2>1
<1>5. ASSUME NEW p \in Pods, PodReturns(p) PROVE PodInv'
  <2>1. /\ UNCHANGED <<method, rules, waiting>>
        /\ \A x \in Pods : up[x] => up'[x]
    BY <1>0, <1>5 DEF PodReturns, PodsTypeOK
  <2>2. QED
    BY <1>0, <2>1
<1>6. QED
  BY <1>1, <1>2, <1>3, <1>4, <1>5, PodMoves

LEMMA InitPods == Init => PodInv
<1> SUFFICES ASSUME Init PROVE PodInv
  OBVIOUS
<1>1. rules = [r \in Rules |-> 0] /\ waiting = [v \in Verbs |-> [r \in Rules |-> 0]]
  BY DEF Init, PodsInit
<1>2. \A r \in Rules : rules[r] = 0 /\ \A v \in Verbs : waiting[v][r] = 0
  BY <1>1
<1>3. QED
  BY <1>2 DEF PodInv, GoneInv, ExecInv

-----------------------------------------------------------------------------
\* Only what has been drawn has lost its pod; and if the fault being injected
\* has, so have all the earlier ones on that pod.
DrawnInv ==
  \A f \in Faults : desc[f] # NoFault \/ f \in bereft => f <= round /\ (pc = "discover" => f < round)
OldInv ==
  pc \in {"inject", "rollback", "track"} /\ round \in bereft =>
    \A f \in tracked : desc[f].pod = desc[round].pod => f \in bereft
BereftInv == DrawnInv /\ OldInv

LEMMA LostPod ==
  ASSUME NEW p, LosePod(p)
  PROVE  /\ DeletePod(p) /\ bereft \subseteq bereft'
         /\ \A f \in Faults : f \in bereft' <=> f \in bereft \/ (desc[f] # NoFault /\ desc[f].pod = p)
  BY DEF LosePod

LEMMA MainBereft ==
  ASSUME IInv, RoundInv, RunInv, BereftInv, MainStep PROVE BereftInv'
<1> USE DEF BereftInv, DrawnInv, OldInv
<1>0. round \in 0..Rounds /\ bereft \subseteq Faults /\ desc \in [Faults -> FaultDesc \cup {NoFault}]
      /\ \A f \in Faults : f \in Int
  BY DEF RoundInv, RunInv, TypeOK
<1>1. CASE NextRound
  BY <1>0, <1>1 DEF NextRound
<1>2. CASE LeaveLoop \/ SkipRound \/ DiscoverFails \/ CountActive \/ DrainOver \/ Finish
  BY <1>0, <1>2 DEF LeaveLoop, AfterLoop, SkipRound, DiscoverFails, CountActive, DrainOver, Finish, Exit
<1>3. CASE DrawFault
  <2>1. /\ round \in Faults /\ round' = round /\ bereft' = bereft /\ pc = "discover" /\ pc' = "inject"
        /\ \A f \in Faults : f # round => desc'[f] = desc[f]
    BY <1>0, <1>3 DEF DrawFault, RoundInv
  <2>2. round \notin bereft
    BY <1>0, <2>1
  <2>3. QED
    BY <1>0, <2>1, <2>2
<1>4. CASE InjectCommand \/ RollBack \/ DropFault
  <2>1. /\ round' = round /\ bereft' = bereft /\ tracked' = tracked
        /\ pc' = "sleep" \/ (pc' \in {"inject", "rollback", "track"} /\ desc' = desc)
        /\ pc \in {"inject", "rollback", "track"}
        /\ desc' = desc \/ desc' = [desc EXCEPT ![round] = NoFault]
    BY <1>4 DEF InjectCommand, RollBack, DropFault, trackerVars
  <2>2. \A f \in Faults : desc'[f] # NoFault => desc[f] # NoFault
    BY <1>0, <2>1
  <2>3. QED
    BY <1>0, <2>1, <2>2
<1>5. CASE InjectDeletion
  <2>1. /\ round' = round /\ pc' = "sleep" /\ pc = "inject"
        /\ desc' = [desc EXCEPT ![round] = NoFault]
        /\ LosePod(desc[round].pod) \/ bereft' = bereft
    BY <1>5 DEF InjectDeletion
  <2>2. \A f \in Faults : desc'[f] # NoFault => desc[f] # NoFault
    BY <1>0, <2>1
  <2>3. \A f \in Faults : f \in bereft' => f \in bereft \/ desc[f] # NoFault
    BY <2>1, LostPod
  <2>4. QED
    BY <1>0, <2>1, <2>2, <2>3
<1>6. CASE InjectStress \/ TrackFault
  BY <1>0, <1>6 DEF InjectStress, TrackFault, trackerVars
<1>7. QED
  BY <1>1, <1>2, <1>3, <1>4, <1>5, <1>6 DEF MainStep

LEMMA BereftStep ==
  ASSUME IInv, RoundInv, RunInv, BereftInv, [Next]_vars PROVE BereftInv'
<1>1. CASE MainStep
  BY <1>1, MainBereft
<1>2. CASE Sigint \/ SigintExit
  BY <1>2 DEF Sigint, SigintExit, Exit, BereftInv, DrawnInv, OldInv, trackerVars
<1>3. ASSUME NEW c \in Calls, DrainStep(c) PROVE BereftInv'
  <2>1. tracked' = tracked /\ UNCHANGED <<mainVars, bereft>>
    BY <1>3 DEF DrainStep, CallStep, ClaimGuard, JoinWait, WaitOver, TakeAll, Requeue, Release
  <2>2. QED
    BY <2>1 DEF BereftInv, DrawnInv, OldInv, mainVars
<1>4. ASSUME NEW f \in Faults, RevertStep(f) PROVE BereftInv'
  <2>1. UNCHANGED mainVars /\ bereft' = bereft
    BY <1>4, RevertKeepsMain DEF RevertStep, TimedRevert, TimedUntrack, JobRevert, JobStress, JobTimeout
  <2>2. tracked' = tracked
    BY <1>4 DEF RevertStep, TimedRevert, TimedUntrack, JobRevert, JobStress, JobTimeout, RevertCommand,
         TimedRevertOk, TimedRevertErr, Untrack, JobOk, JobErr, trackerVars
  <2>3. QED
    BY <2>1, <2>2 DEF BereftInv, DrawnInv, OldInv, mainVars
<1>5. CASE ClusterStep
  <2>1. UNCHANGED <<trackerVars, mainVars>>
    BY <1>5, ClusterKeeps
  <2>2. CASE bereft' = bereft
    BY <2>1, <2>2 DEF BereftInv, DrawnInv, OldInv, trackerVars, mainVars
  <2>3. ASSUME NEW p \in Pods, LosePod(p) PROVE BereftInv'
    <3>1. \A f \in Faults : f \in bereft' <=> f \in bereft \/ (desc[f] # NoFault /\ desc[f].pod = p)
      BY <2>3, LostPod
    <3>2. /\ tracked \subseteq Faults /\ \A f \in tracked : desc[f] # NoFault
          /\ pc \in {"inject", "rollback", "track"} => round \in Faults
      BY DEF IInv, TrackerTypes, RunInv, TrackedInv, Proper, FaultDesc, Kinds, NetworkKinds, NoFault, RoundInv
    <3>3. QED
      BY <2>1, <3>1, <3>2 DEF BereftInv, DrawnInv, OldInv, trackerVars, mainVars
  <2>4. QED
    BY <1>5, <2>2, <2>3 DEF ClusterStep, ContainerStep, PodGoes, PodComesBack
<1>6. CASE UNCHANGED vars
  BY <1>6 DEF vars, BereftInv, DrawnInv, OldInv, trackerVars, mainVars
<1>7. QED
  BY <1>1, <1>2, <1>3, <1>4, <1>5, <1>6 DEF Next

LEMMA InitBereft == Init => BereftInv
  BY DEF Init, TrackerInit, BereftInv, DrawnInv, OldInv

-----------------------------------------------------------------------------
\* Rules and faults, whatever fails.  A rule stands as long as its faults do:
\* not longer, up to an injection that could not be undone and to deletions in
\* vain, and not shorter, up to reverts of faults whose pod is another by now.

\* Command i of fault f concerns rule r.
At(f, i, r) == i \in 1..Len(Cmds(f)) /\ Cmds(f)[i] = r

\* The revert of f by task t has removed what its command i concerns.
Past(t, f, i) == step[t][f] > i /\ ~failed[t][f]

\* The tracked faults that may have an instance of rule r in a kernel.
Owing(r) ==
  {f \in tracked \ settled : \E i \in 1..2 : At(f, i, r) /\ \A t \in Reverters : ~Past(t, f, i)}

\* The timed revert of f has yet to run its command i.
ToCome(f, i) == timer[f] = "armed" /\ step["timer"][f] <= i

\* The tracked faults whose timed revert has not come to rule r.
Facing(r) == {f \in tracked : \E i \in 1..2 : At(f, i, r) /\ ToCome(f, i)}

\* The fault being injected, if it has added r.
Flight(r) == {f \in InFlight : \E i \in 1..2 : At(f, i, r) /\ (pc = "track" \/ i < at)}

\* The faults that must have an instance of r before the drain.
Firm(r) == (Facing(r) \cup Flight(r)) \ bereft

\* The faults whose pod has gone and whose timed revert has deleted r, or tried
\* to: on the pod that has come back under the name, it was the rule of another.
Spent(r) == {f \in tracked \cap bereft : \E i \in 1..2 : At(f, i, r) /\ ~ToCome(f, i)}

\* With one error, the roll-back that follows it is as good as it reports; a
\* lost reply is an error that leaves a rule nobody knows of.
Tolerated == errs <= IF "lost" \in Unreliable THEN 0 ELSE 1

\* From above, for the commands that track what they install; an injection that
\* has to be undone had its error, or its pod went and the rule with it.
UpperInv ==
  Accounted /\ Tolerated =>
    /\ pc = "rollback" => errs >= 1 \/ Standing(Cmds(round)[1]) = 0
    /\ \A r \in Rules : Standing(r) <= Cardinality(Owing(r) \cup Flight(r)) + InVain(r)

\* Until the drain of run takes the list.
Undrained == command = "run" /\ method = "exec" /\ call["main"] \in {"idle", "claimed"}

\* From below.
LowerInv ==
  Undrained => \A r \in Rules : Cardinality(Firm(r)) <= rules[r] + Cardinality(Spent(r))

\* Whoever is settled while its timer runs was settled by a job.
SettledInv == \A f \in settled : timer[f] = "armed" => f \in tried

StandInv == SettledInv /\ UpperInv /\ LowerInv

LEMMA FaultsFinite == \A S \in SUBSET Faults : IsFiniteSet(S) /\ Cardinality(S) \in Nat
<1>1. IsFiniteSet(Faults)
  BY FS_Interval
<1>2. QED
  BY <1>1, FS_Subset, FS_CardinalityType

\* How a count and its bound, with an allowance, may move together.
LEMMA Bounded ==
  ASSUME NEW S \in SUBSET Faults, NEW T \in SUBSET Faults, NEW f,
         NEW n \in Nat, NEW m \in Nat, NEW v \in Nat, NEW w \in Nat, n <= Cardinality(S) + v,
         \/ m = 0
         \/ m + v <= n + w /\ S \subseteq T
         \/ m + v + 1 <= n + w /\ S \ {f} \subseteq T
         \/ m + v <= n + w + 1 /\ f \notin S /\ S \cup {f} \subseteq T
  PROVE  m <= Cardinality(T) + w
<1>1. /\ IsFiniteSet(S) /\ IsFiniteSet(T)
      /\ Cardinality(S) \in Nat /\ Cardinality(T) \in Nat
  BY FaultsFinite
<1>2. CASE m + v <= n + w /\ S \subseteq T
  <2>1. Cardinality(S) <= Cardinality(T)
    BY <1>1, <1>2, FS_Subset
  <2>2. QED
    BY <1>1, <1>2, <2>1
<1>3. CASE m + v + 1 <= n + w /\ S \ {f} \subseteq T
  <2>1. Cardinality(S) - 1 <= Cardinality(S \ {f}) /\ Cardinality(S \ {f}) \in Nat
    <3>1. /\ IsFiniteSet(S \ {f})
          /\ Cardinality(S \ {f}) = IF f \in S THEN Cardinality(S) - 1 ELSE Cardinality(S)
      BY <1>1, FS_RemoveElement
    <3>2. Cardinality(S \ {f}) \in Nat
      BY <3>1, FS_CardinalityType
    <3>3. QED
      BY <1>1, <3>1, <3>2
  <2>2. Cardinality(S \ {f}) <= Cardinality(T)
    BY <1>1, <1>3, FS_Subset
  <2>3. QED
    BY <1>1, <1>3, <2>1, <2>2
<1>4. CASE m + v <= n + w + 1 /\ f \notin S /\ S \cup {f} \subseteq T
  <2>1. Cardinality(S \cup {f}) = Cardinality(S) + 1
    BY <1>1, <1>4, FS_AddElement
  <2>2. Cardinality(S \cup {f}) <= Cardinality(T)
    BY <1>1, <1>4, FS_Subset
  <2>3. QED
    BY <1>1, <1>4, <2>1, <2>2
<1>5. QED
  BY <1>1, <1>2, <1>3, <1>4

\* How a count and what it covers may move together.
LEMMA Covered ==
  ASSUME NEW S \in SUBSET Faults, NEW T \in SUBSET Faults, NEW f,
         NEW n \in Nat, NEW m \in Nat, Cardinality(S) <= n,
         \/ n <= m /\ T \subseteq S
         \/ n <= m + 1 /\ f \in S /\ T \subseteq S \ {f}
         \/ n + 1 <= m /\ T \subseteq S \cup {f}
         \/ T = {}
  PROVE  Cardinality(T) <= m
<1>1. /\ IsFiniteSet(S) /\ IsFiniteSet(T)
      /\ Cardinality(S) \in Nat /\ Cardinality(T) \in Nat
  BY FaultsFinite
<1>2. CASE n <= m /\ T \subseteq S
  <2>1. Cardinality(T) <= Cardinality(S)
    BY <1>1, <1>2, FS_Subset
  <2>2. QED
    BY <1>1, <1>2, <2>1
<1>3. CASE n <= m + 1 /\ f \in S /\ T \subseteq S \ {f}
  <2>1. IsFiniteSet(S \ {f}) /\ Cardinality(S \ {f}) = Cardinality(S) - 1
    BY <1>1, <1>3, FS_RemoveElement
  <2>2. Cardinality(T) <= Cardinality(S \ {f})
    BY <1>3, <2>1, FS_Subset
  <2>3. QED
    BY <1>1, <1>3, <2>1, <2>2
<1>4. CASE n + 1 <= m /\ T \subseteq S \cup {f}
  <2>1. IsFiniteSet(S \cup {f})
        /\ Cardinality(S \cup {f}) = IF f \in S THEN Cardinality(S) ELSE Cardinality(S) + 1
    BY <1>1, FS_AddElement
  <2>2. Cardinality(T) <= Cardinality(S \cup {f})
    BY <1>4, <2>1, FS_Subset
  <2>3. QED
    BY <1>1, <1>4, <2>1, <2>2
<1>5. CASE T = {}
  BY <1>5, FS_EmptySet
<1>6. QED
  BY <1>2, <1>3, <1>4, <1>5

LEMMA CountTypes ==
  /\ PodsTypeOK => \A r \in Rules : rules[r] \in Nat /\ Standing(r) \in Nat /\ InVain(r) \in Nat
  /\ PodsTypeOK' => \A r \in Rules : rules'[r] \in Nat /\ Standing(r)' \in Nat /\ InVain(r)' \in Nat
<1>1. "add" \in Verbs /\ "del" \in Verbs
  BY DEF Verbs
<1>2. ASSUME PodsTypeOK, NEW r \in Rules
      PROVE  rules[r] \in Nat /\ Standing(r) \in Nat /\ InVain(r) \in Nat
  <2>1. rules[r] \in Nat /\ waiting["add"][r] \in Nat /\ waiting["del"][r] \in Nat /\ vain[r] \in Nat
    BY <1>1, <1>2 DEF PodsTypeOK
  <2>2. QED
    BY <2>1 DEF Standing, InVain
<1>3. ASSUME PodsTypeOK', NEW r \in Rules
      PROVE  rules'[r] \in Nat /\ Standing(r)' \in Nat /\ InVain(r)' \in Nat
  <2>1. /\ rules'[r] \in Nat /\ waiting'["add"][r] \in Nat /\ waiting'["del"][r] \in Nat
        /\ vain'[r] \in Nat
    BY <1>1, <1>3 DEF PodsTypeOK
  <2>2. QED
    BY <2>1 DEF Standing, InVain
<1>4. QED
  BY <1>2, <1>3

LEMMA StandingTypes ==
  ASSUME IInv, RoundInv, RunInv
  PROVE  /\ tracked \subseteq Faults /\ settled \subseteq tracked /\ InFlight \subseteq Faults
         /\ InFlight \cap tracked = {} /\ PodsTypeOK /\ bereft \subseteq Faults
         /\ \A r \in Rules : /\ rules[r] \in Nat /\ Standing(r) \in Nat /\ InVain(r) \in Nat
                             /\ Owing(r) \subseteq tracked /\ Facing(r) \subseteq tracked
                             /\ Flight(r) \subseteq InFlight /\ Spent(r) \subseteq tracked
                             /\ Firm(r) \subseteq Faults /\ Cardinality(Spent(r)) \in Nat
<1>1. tracked \subseteq Faults /\ settled \subseteq tracked /\ bereft \subseteq Faults
  BY DEF IInv, TrackerTypes, OnlyTracked, RunInv, TypeOK
<1>2. InFlight \subseteq Faults /\ InFlight \cap tracked = {}
  BY DEF InFlight, RoundInv, RunInv, TrackedInv
<1>3. PodsTypeOK
  BY DEF RunInv, TypeOK
<1>4. ASSUME NEW r \in Rules
      PROVE  /\ Owing(r) \subseteq tracked /\ Facing(r) \subseteq tracked
             /\ Flight(r) \subseteq InFlight /\ Spent(r) \subseteq tracked
             /\ Firm(r) \subseteq Faults /\ Cardinality(Spent(r)) \in Nat
  <2>1. /\ Owing(r) \subseteq tracked /\ Facing(r) \subseteq tracked
        /\ Flight(r) \subseteq InFlight /\ Spent(r) \subseteq tracked
    BY DEF Owing, Facing, Flight, Spent
  <2>2. QED
    BY <1>1, <1>2, <2>1, FaultsFinite DEF Firm
<1>5. QED
  BY <1>1, <1>2, <1>3, <1>4, CountTypes

\* A fault's commands are on its pod.
LEMMA PodOf ==
  ASSUME NEW f, Proper(desc[f]), NEW i, NEW r, At(f, i, r)
  PROVE  desc[f].pod = r[1] /\ desc[f] # NoFault
<1>1. desc[f].pod = r[1]
  BY CommandsOf DEF At, Cmds
<1>2. desc[f] # NoFault
  BY DEF Proper, FaultDesc, Kinds, NetworkKinds, NoFault
<1>3. QED
  BY <1>1, <1>2

\* How the standing instances of a rule, less the deletions of it in vain, move.
Ebbs(q) ==
  /\ Standing(q)' <= Standing(q)
  /\ Standing(q)' + InVain(q) <= Standing(q) + InVain(q)'
Falls(q) == Ebbs(q) /\ Standing(q)' + InVain(q) + 1 <= Standing(q) + InVain(q)'
Rises(q) == Standing(q)' + InVain(q) <= Standing(q) + InVain(q)' + 1

\* A deletion removes one instance at most, and says so or is in vain if it
\* does not remove it.
LEMMA Deletion ==
  ASSUME PodsTypeOK, NEW r \in Rules,
         UNCHANGED <<rules, waiting>> \/ (Accepted("del", r) /\ Accept("del", r)),
         UNCHANGED <<method, up, vain>>, NEW q \in Rules
  PROVE  /\ rules'[q] \in Nat /\ rules'[q] <= rules[q] /\ rules[q] <= rules'[q] + 1
         /\ q # r => rules'[q] = rules[q]
         /\ Ebbs(q)
         /\ q = r /\ Accepted("del", r) /\ Accept("del", r) => Falls(q)
<1>0. /\ rules[q] \in Nat /\ Standing(q) \in Nat /\ InVain(q) \in Nat /\ "del" \in Verbs
      /\ waiting["add"][q] \in Nat
  BY CountTypes DEF PodsTypeOK, Verbs
<1>1. CASE UNCHANGED <<rules, waiting>> /\ ~(Accepted("del", r) /\ Accept("del", r))
  <2>1. Standing(q)' = Standing(q) /\ InVain(q)' = InVain(q)
    BY <1>1 DEF Standing, InVain
  <2>2. QED
    BY <1>0, <1>1, <2>1 DEF Ebbs
<1>2. CASE Accepted("del", r) /\ Accept("del", r)
  <2>1. /\ rules' \in [Rules -> Nat] /\ waiting' \in [Verbs -> [Rules -> Nat]]
        /\ q # r => rules'[q] = rules[q] /\ \A v \in Verbs : waiting'[v][q] = waiting[v][q]
        /\ rules'[r] <= rules[r] /\ rules[r] <= rules'[r] + 1
        /\ Standing(r)' <= Standing(r)
        /\ Standing(r)' + InVain(r) + 1 = Standing(r) + InVain(r)'
    BY <1>0, <1>2, Accepts
  <2>2. q # r => Standing(q)' = Standing(q) /\ InVain(q)' = InVain(q)
    BY <2>1 DEF Standing, InVain, Verbs
  <2>3. Standing(q)' \in Nat /\ InVain(q)' \in Nat /\ rules'[q] \in Nat
    <3>1. rules'[q] \in Nat /\ waiting'["add"][q] \in Nat /\ waiting'["del"][q] \in Nat /\ vain'[q] \in Nat
      BY <2>1 DEF PodsTypeOK, Verbs
    <3>2. QED
      BY <3>1 DEF Standing, InVain
  <2>4. CASE q = r
    BY <1>0, <2>1, <2>3, <2>4 DEF Ebbs, Falls
  <2>5. CASE q # r
    BY <1>0, <2>1, <2>2, <2>3, <2>5 DEF Ebbs
  <2>6. QED
    BY <2>4, <2>5
<1>3. QED
  BY <1>1, <1>2

LEMMA ExecDeletes ==
  ASSUME PodsTypeOK, NEW r \in Rules, NEW reply \in BOOLEAN, Exec("del", r, reply), NEW q \in Rules
  PROVE  /\ rules'[q] \in Nat /\ rules'[q] <= rules[q] /\ rules[q] <= rules'[q] + 1
         /\ q # r => rules'[q] = rules[q]
         /\ Ebbs(q)
         /\ reply /\ q = r => Falls(q)
<1>1. /\ UNCHANGED <<rules, waiting>> \/ (Accepted("del", r) /\ Accept("del", r))
      /\ UNCHANGED <<method, up, vain>>
      /\ reply => Accepted("del", r) /\ Accept("del", r)
  BY ExecEffect DEF Verbs
<1>2. QED
  BY <1>1, Deletion

\* A step that leaves the pods alone.
LEMMA Still ==
  ASSUME RunInv, UNCHANGED <<method, rules, waiting, vain>>, NEW q \in Rules
  PROVE  /\ Standing(q)' = Standing(q) /\ InVain(q)' = InVain(q)
         /\ Ebbs(q) /\ Rises(q)
<1>1. Standing(q) \in Nat /\ InVain(q) \in Nat
  BY CountTypes DEF RunInv, TypeOK
<1>2. Standing(q)' = Standing(q) /\ InVain(q)' = InVain(q)
  BY DEF Standing, InVain
<1>3. QED
  BY <1>1, <1>2 DEF Ebbs, Rises

\* The first clause of the bound from above, where nothing is added.
LEMMA RollbackKept ==
  ASSUME RunInv, UpperInv, PodsTypeOK', UNCHANGED mainVars, errs <= errs',
         \A q \in Rules : Ebbs(q) \/ Standing(q)' = 0, Accounted, Tolerated, pc = "rollback"
  PROVE  errs' >= 1 \/ Standing(Cmds(round)[1])' = 0
<1>1. /\ errs \in Nat /\ errs' \in Nat
      /\ UNCHANGED <<round, desc>>
  BY MaxErrsAssumption DEF RunInv, TypeOK, PodsTypeOK, mainVars
<1>2. PICK r \in Rules : r = Cmds(round)[1]
  <2>1. Proper(desc[round]) /\ desc[round].kind = "dns"
    BY DEF RunInv, AtInv
  <2>2. QED
    BY <2>1, CommandsOf DEF Cmds
<1>3. errs >= 1 \/ Standing(r) = 0
  BY <1>2 DEF UpperInv
<1>4. Standing(r) \in Nat /\ Standing(r)' \in Nat
  BY CountTypes DEF RunInv, TypeOK
<1>5. errs' >= 1 \/ Standing(r)' = 0
  BY <1>1, <1>3, <1>4 DEF Ebbs
<1>6. Standing(Cmds(round)[1])' = Standing(r)'
  BY <1>1, <1>2 DEF Cmds, Standing
<1>7. QED
  BY <1>5, <1>6

\* A step that adds nothing and leaves the faults alone keeps the bound from above.
LEMMA UpperEbbs ==
  ASSUME IInv, RoundInv, RunInv, UpperInv, PodsTypeOK', UNCHANGED mainVars, errs <= errs',
         \A q \in Rules : /\ (Owing(q) \cup Flight(q))' = Owing(q) \cup Flight(q)
                          /\ Ebbs(q) \/ Standing(q)' = 0
  PROVE  UpperInv'
<1>1. /\ errs \in Nat /\ errs' \in Nat
      /\ UNCHANGED <<command, pc, round, desc>>
  BY MaxErrsAssumption DEF RunInv, TypeOK, PodsTypeOK, mainVars
<1>2. Accounted' = Accounted /\ (Tolerated' => Tolerated)
  BY <1>1 DEF Accounted, Alive, Tolerated
<1>3. Accounted /\ Tolerated /\ pc = "rollback" => errs' >= 1 \/ Standing(Cmds(round)[1])' = 0
  BY RollbackKept
<1>4. ASSUME Accounted, Tolerated, NEW q \in Rules
      PROVE  Standing(q)' <= Cardinality((Owing(q) \cup Flight(q))') + InVain(q)'
  <2> DEFINE S == Owing(q) \cup Flight(q)
  <2>1. /\ S \in SUBSET Faults /\ Standing(q) \in Nat /\ InVain(q) \in Nat
        /\ Standing(q)' \in Nat /\ InVain(q)' \in Nat
    BY StandingTypes, CountTypes
  <2>2. Standing(q) <= Cardinality(S) + InVain(q)
    BY <1>4 DEF UpperInv
  <2>3. S' = S /\ (Ebbs(q) \/ Standing(q)' = 0)
    OBVIOUS
  <2> HIDE DEF S
  <2>4. Standing(q)' <= Cardinality(S) + InVain(q)'
    BY <2>1, <2>2, <2>3, Bounded DEF Ebbs
  <2>5. QED
    BY <2>3, <2>4 DEF S
<1>5. QED
  BY <1>1, <1>2, <1>3, <1>4 DEF UpperInv

\* A step that removes nothing, or all there is with the pod of the faults it
\* belongs to, keeps the bound from below.
LEMMA LowerKept ==
  ASSUME IInv, IInv', RoundInv, RoundInv', RunInv, RunInv', LowerInv, Undrained' => Undrained,
         \A q \in Rules : /\ Spent(q) \subseteq Spent(q)'
                          /\ \/ Firm(q)' \subseteq Firm(q) /\ rules[q] <= rules'[q]
                             \/ Firm(q)' = {}
  PROVE  LowerInv'
<1>1. SUFFICES ASSUME Undrained, NEW q \in Rules
               PROVE  Cardinality(Firm(q)') <= rules'[q] + Cardinality(Spent(q)')
  BY DEF LowerInv
<1>2. /\ Firm(q) \in SUBSET Faults /\ rules[q] \in Nat
      /\ Spent(q) \in SUBSET Faults /\ Cardinality(Spent(q)) \in Nat
  BY StandingTypes
<1>3. /\ Firm(q)' \in SUBSET Faults /\ rules'[q] \in Nat
      /\ Spent(q)' \in SUBSET Faults /\ Cardinality(Spent(q)') \in Nat
  <2>1. /\ tracked' \subseteq Faults /\ InFlight' \subseteq Faults /\ PodsTypeOK'
    BY DEF IInv, TrackerTypes, RunInv, TypeOK, InFlight, RoundInv
  <2>2. Firm(q)' \subseteq Faults /\ Spent(q)' \subseteq Faults
    BY <2>1 DEF Firm, Facing, Flight, Spent
  <2>3. QED
    BY <2>1, <2>2, CountTypes, FaultsFinite
<1>4. Cardinality(Firm(q)) <= rules[q] + Cardinality(Spent(q))
  BY <1>1 DEF LowerInv
<1>5. Cardinality(Spent(q)) <= Cardinality(Spent(q)')
  BY <1>2, <1>3, FaultsFinite, FS_Subset
<1>6. \/ rules[q] + Cardinality(Spent(q)) <= rules'[q] + Cardinality(Spent(q)') /\ Firm(q)' \subseteq Firm(q)
      \/ Firm(q)' = {}
  BY <1>2, <1>3, <1>5
<1>7. QED
  BY <1>2, <1>3, <1>4, <1>6, Covered

\* A revert command of task t for f: what it leaves of the task, and whether
\* the fault is settled by it.
Reverts(t, f, reply) ==
  /\ tracked' = tracked /\ UNCHANGED mainVars
  /\ step[t][f] \in 1..Len(Cmds(f)) /\ Len(Cmds(f)) \in 1..2
  /\ \/ /\ step'[t][f] = 2 /\ (failed'[t][f] <=> ~reply)
        /\ step[t][f] = 1 /\ Len(Cmds(f)) = 2 /\ settled' = settled
     \/ /\ step'[t][f] = 1
        /\ \/ settled' = settled
           \/ /\ settled' = settled \cup {f} /\ reply /\ ~failed[t][f]
              /\ step[t][f] = Len(Cmds(f))
  /\ \A u \in Reverters, g \in Faults :
       u # t \/ g # f => step'[u][g] = step[u][g] /\ failed'[u][g] = failed[u][g]

LEMMA OwingReverted ==
  ASSUME IInv, RoundInv, RunInv, NEW t \in Reverters, NEW f \in tracked, NEW reply \in BOOLEAN,
         Reverts(t, f, reply), NEW q \in Rules
  PROVE  /\ Owing(q) \ {f} \subseteq Owing(q)'
         /\ (reply /\ Cmds(f)[step[t][f]] = q) \/ Owing(q) \subseteq Owing(q)'
         /\ Owing(q)' \subseteq Faults /\ Flight(q)' = Flight(q)
<1>1. /\ tracked \subseteq Faults /\ tracked' = tracked /\ settled' \ {f} = settled \ {f}
      /\ pc' = pc /\ at' = at /\ round' = round /\ desc' = desc
  BY DEF IInv, TrackerTypes, Reverts, mainVars
<1>2. \A g \in Faults, i \in 1..2 : At(g, i, q)' <=> At(g, i, q)
  BY <1>1 DEF At, Cmds
<1>3. Flight(q)' = Flight(q) /\ Owing(q)' \subseteq Faults
  BY <1>1 DEF Flight, At, Cmds, InFlight, Owing
<1>4. ASSUME NEW g \in Owing(q), g # f PROVE g \in Owing(q)'
  <2>1. PICK i \in 1..2 : At(g, i, q) /\ \A t_1 \in Reverters : ~Past(t_1, g, i)
    BY DEF Owing
  <2>2. g \in tracked \ settled /\ g \in Faults
    BY <1>1 DEF Owing
  <2>3. g \in tracked' \ settled'
    BY <1>1, <1>4, <2>2
  <2>4. \A u \in Reverters : step'[u][g] = step[u][g] /\ failed'[u][g] = failed[u][g]
    BY <1>4, <2>2 DEF Reverts
  <2>5. \A u \in Reverters : ~(step'[u][g] > i /\ ~failed'[u][g])
    BY <2>1, <2>4 DEF Past
  <2>6. QED
    BY <1>2, <2>1, <2>2, <2>3, <2>5 DEF Owing, Past
<1>5. ASSUME f \in Owing(q), f \notin Owing(q)' PROVE reply /\ Cmds(f)[step[t][f]] = q
  <2>1. PICK i \in 1..2 : At(f, i, q) /\ \A u \in Reverters : ~Past(u, f, i)
    BY <1>5 DEF Owing
  <2>2. f \in tracked \ settled /\ f \in Faults
    BY <1>1, <1>5 DEF Owing
  <2>3. f \in settled' \/ \E u \in Reverters : step'[u][f] > i /\ ~failed'[u][f]
    BY <1>1, <1>2, <1>5, <2>1, <2>2 DEF Owing, Past
  <2>4. i \in 1..Len(Cmds(f)) /\ Cmds(f)[i] = q
    BY <2>1 DEF At
  <2>5. \A u \in Reverters : u # t => step'[u][f] = step[u][f] /\ failed'[u][f] = failed[u][f]
    BY <2>2 DEF Reverts
  <2>6. f \in settled' \/ (step'[t][f] > i /\ ~failed'[t][f])
    BY <2>1, <2>3, <2>5 DEF Past
  <2>7. ~(step[t][f] > i /\ ~failed[t][f])
    BY <2>1 DEF Past
  <2>8. reply /\ step[t][f] = i
    <3>1. CASE step'[t][f] = 2 /\ (failed'[t][f] <=> ~reply) /\ step[t][f] = 1 /\ settled' = settled
      BY <2>2, <2>6, <3>1
    <3>2. CASE /\ step'[t][f] = 1
               /\ \/ settled' = settled
                  \/ /\ settled' = settled \cup {f} /\ reply /\ ~failed[t][f]
                     /\ step[t][f] = Len(Cmds(f))
      <4>1. reply /\ ~failed[t][f] /\ step[t][f] = Len(Cmds(f))
        BY <2>2, <2>6, <3>2
      <4>2. Len(Cmds(f)) \in 1..2
        BY DEF Reverts
      <4>3. QED
        BY <2>4, <2>7, <4>1, <4>2
    <3>3. QED
      BY <3>1, <3>2 DEF Reverts
  <2>9. QED
    BY <2>4, <2>8
<1>6. QED
  BY <1>3, <1>4, <1>5

\* The bound from above moves with the count.
LEMMA UpperReverted ==
  ASSUME IInv, RoundInv, RunInv, PodsTypeOK', NEW t \in Reverters, NEW f \in tracked,
         NEW reply \in BOOLEAN, Reverts(t, f, reply), NEW q \in Rules,
         Ebbs(q), reply /\ Cmds(f)[step[t][f]] = q => Falls(q),
         Standing(q) <= Cardinality(Owing(q) \cup Flight(q)) + InVain(q)
  PROVE  Standing(q)' <= Cardinality((Owing(q) \cup Flight(q))') + InVain(q)'
<1> DEFINE S == Owing(q) \cup Flight(q)
           T == Owing(q)' \cup Flight(q)'
<1>1. /\ Owing(q) \ {f} \subseteq Owing(q)'
      /\ (reply /\ Cmds(f)[step[t][f]] = q) \/ Owing(q) \subseteq Owing(q)'
      /\ Owing(q)' \subseteq Faults /\ Flight(q)' = Flight(q)
  BY OwingReverted
<1>2. /\ S \in SUBSET Faults /\ T \in SUBSET Faults
      /\ Standing(q) \in Nat /\ InVain(q) \in Nat /\ Standing(q)' \in Nat /\ InVain(q)' \in Nat
  BY <1>1, StandingTypes, CountTypes
<1>3. S \ {f} \subseteq T /\ ((reply /\ Cmds(f)[step[t][f]] = q) \/ S \subseteq T)
  BY <1>1
<1>4. Standing(q) <= Cardinality(S) + InVain(q)
  OBVIOUS
<1> HIDE DEF S, T
<1>5. Standing(q)' <= Cardinality(T) + InVain(q)'
  BY <1>2, <1>3, <1>4, Bounded DEF Ebbs, Falls
<1>6. QED
  BY <1>5 DEF T

\* What one command of a task does to the kernels and to the task.
Deleting(t, f, reply) ==
  /\ f \in tracked /\ Reverts(t, f, reply) /\ Cmds(f)[step[t][f]] \in Rules
  /\ Exec("del", Cmds(f)[step[t][f]], reply)

LEMMA RevertsAt ==
  ASSUME IInv, RunInv, NEW t \in Reverters, NEW f \in tracked, NEW reply \in BOOLEAN,
         desc[f].kind \in NetworkKinds, UNCHANGED mainVars,
         NEW ACTION Ok, NEW ACTION Err, Moves(t, f, reply, Ok, Err),
         Err => tracked' = tracked /\ settled' = settled,
         Ok => tracked' = tracked /\ settled' = settled \cup {f}
  PROVE  Deleting(t, f, reply)
<1>1. StepTypes /\ f \in Faults /\ 1 \in 1..2 /\ 2 \in 1..2
  BY DEF RunInv, TypeOK, StepTypes, IInv, TrackerTypes
<1>2. step[t][f] \in 1..Len(Cmds(f)) /\ Len(Cmds(f)) \in 1..2
  <2>1. step[t][f] \in 1..Len(Cmds(f))
    BY DEF Moves
  <2>2. Proper(desc[f]) /\ step[t][f] \in 1..2 /\ (step[t][f] = 2 => desc[f].kind = "dns")
    BY <1>1 DEF RunInv, TrackedInv, StepInv, StepTypes
  <2>3. QED
    BY <1>1, <2>1, <2>2, CommandAt
<1>3. CASE GoesOn(t, f, reply) /\ step[t][f] = 1 /\ Len(Cmds(f)) = 2 /\ UNCHANGED trackerVars
  <2>1. /\ step'[t][f] = 2 /\ (failed'[t][f] <=> ~reply)
        /\ \A u \in Reverters, g \in Faults :
             u # t \/ g # f => step'[u][g] = step[u][g] /\ failed'[u][g] = failed[u][g]
    BY <1>1, <1>3, GoesOnAt
  <2>2. tracked' = tracked /\ settled' = settled
    BY <1>3 DEF trackerVars
  <2>3. Reverts(t, f, reply)
    BY <1>2, <1>3, <2>1, <2>2 DEF Reverts
  <2>4. QED
    BY <2>3 DEF Deleting, Moves
<1>4. CASE /\ step[t][f] = Len(Cmds(f)) /\ Ends(t, f)
           /\ IF failed[t][f] \/ ~reply THEN Err ELSE Ok
  <2>1. /\ step'[t][f] = 1
        /\ \A u \in Reverters, g \in Faults :
             u # t \/ g # f => step'[u][g] = step[u][g] /\ failed'[u][g] = failed[u][g]
    BY <1>1, <1>4, EndsAt
  <2>2. /\ tracked' = tracked
        /\ settled' = settled \/ (settled' = settled \cup {f} /\ reply /\ ~failed[t][f])
    BY <1>4
  <2>3. Reverts(t, f, reply)
    BY <1>2, <1>4, <2>1, <2>2 DEF Reverts
  <2>4. QED
    BY <2>3 DEF Deleting, Moves
<1>5. QED
  BY <1>3, <1>4 DEF Moves

LEMMA TimedDeletes ==
  ASSUME IInv, RunInv, NEW f \in Faults, TimedRevert(f)
  PROVE  /\ \E reply \in BOOLEAN : Deleting("timer", f, reply)
         /\ step'["timer"][f] = 2 \/ timer'[f] # "armed"
         /\ \A g \in Faults : g # f => timer'[g] = timer[g]
         /\ f \in settled' /\ f \notin settled => timer'[f] # "armed"
         /\ settled' \subseteq settled \cup {f} /\ tried' = tried /\ UNCHANGED <<call, held, mainVars>>
<1>1. /\ f \in tracked /\ desc[f].kind \in NetworkKinds /\ "timer" \in Reverters
      /\ UNCHANGED mainVars /\ tried' = tried
  BY InHands DEF TimedRevert, Reverters, mainVars
<1>2. PICK reply \in BOOLEAN : Moves("timer", f, reply, TimedRevertOk(f), TimedRevertErr(f))
  BY <1>1, RevertEffect DEF TimedRevert
<1>3. /\ TimedRevertErr(f) => tracked' = tracked /\ settled' = settled
      /\ TimedRevertOk(f) => tracked' = tracked /\ settled' = settled \cup {f}
  BY DEF TimedRevertOk, TimedRevertErr
<1>4. Deleting("timer", f, reply)
  BY <1>1, <1>2, <1>3, RevertsAt
<1>5. timer \in [Faults -> TimerState]
  BY DEF IInv, TrackerTypes
<1>6. CASE UNCHANGED trackerVars /\ GoesOn("timer", f, reply)
  <2>1. step'["timer"][f] = 2
    BY <1>1, <1>6, GoesOnAt DEF StepTypes, RunInv, TypeOK
  <2>2. QED
    BY <1>1, <1>4, <1>6, <2>1 DEF trackerVars
<1>7. CASE TimedRevertOk(f) \/ TimedRevertErr(f)
  <2>1. /\ timer'[f] # "armed" /\ \A g \in Faults : g # f => timer'[g] = timer[g]
    BY <1>5, <1>7 DEF TimedRevertOk, TimedRevertErr
  <2>2. UNCHANGED <<call, held>> /\ settled' \subseteq settled \cup {f}
    BY <1>7 DEF TimedRevertOk, TimedRevertErr
  <2>3. QED
    BY <1>1, <1>4, <2>1, <2>2
<1>8. QED
  BY <1>2, <1>6, <1>7 DEF Moves

LEMMA JobDeletes ==
  ASSUME IInv, RunInv, NEW f \in Faults, JobRevert(f)
  PROVE  /\ \E reply \in BOOLEAN : Deleting("job", f, reply)
         /\ settled' = settled \/ (settled' = settled \cup {f} /\ tried' = tried \cup {f})
         /\ tried \subseteq tried' /\ UNCHANGED <<timer, call, mainVars>>
<1>1. /\ f \in tracked /\ desc[f].kind \in NetworkKinds /\ "job" \in Reverters
      /\ UNCHANGED mainVars /\ tried \subseteq tried'
  BY InHands DEF JobRevert, Reverters, mainVars
<1>2. PICK reply \in BOOLEAN : Moves("job", f, reply, JobOk(f), JobErr(f))
  BY <1>1, RevertEffect DEF JobRevert
<1>3. /\ JobErr(f) => tracked' = tracked /\ settled' = settled
      /\ JobOk(f) => tracked' = tracked /\ settled' = settled \cup {f}
  BY DEF JobOk, JobErr
<1>4. Deleting("job", f, reply)
  BY <1>1, <1>2, <1>3, RevertsAt
<1>5. UNCHANGED trackerVars \/ JobOk(f) \/ JobErr(f)
  BY <1>2 DEF Moves
<1>6. /\ settled' = settled \/ (settled' = settled \cup {f} /\ tried' = tried \cup {f})
      /\ UNCHANGED <<timer, call>>
  BY <1>5 DEF trackerVars, JobOk, JobErr, JobRevert
<1>7. QED
  BY <1>1, <1>4, <1>6

\* A job that times out reverts as one whose command failed.
LEMMA TimeoutReverts ==
  ASSUME IInv, RunInv, NEW f \in Faults, JobTimeout(f), desc[f].kind # "stress"
  PROVE  /\ f \in tracked /\ Reverts("job", f, FALSE) /\ PodsTypeOK' /\ errs <= errs' /\ method' = method
         /\ \A q \in Rules : Ebbs(q)
         /\ UNCHANGED <<timer, call, settled, mainVars>> /\ tried \subseteq tried'
<1>1. /\ f \in tracked /\ desc[f].kind \in NetworkKinds /\ "job" \in Reverters
      /\ UNCHANGED mainVars /\ StepTypes /\ Proper(desc[f]) /\ PodsTypeOK
  BY InHands DEF JobTimeout, Reverters, mainVars, StepTypes, RunInv, TypeOK, TrackedInv, Lasting
<1>2. step["job"][f] \in 1..2 /\ (step["job"][f] = 2 => desc[f].kind = "dns")
  BY <1>1 DEF StepTypes, RunInv, StepInv
<1>3. Len(Cmds(f)) \in 1..2 /\ step["job"][f] \in 1..Len(Cmds(f)) /\ Cmds(f)[step["job"][f]] \in Rules
  BY <1>1, <1>2, CommandAt
<1>4. PICK r \in Rules : r = Cmds(f)[step["job"][f]]
  BY <1>3
<1>5. Cut("del", r)
  BY <1>4 DEF JobTimeout, Cmds
<1>6. /\ PodsTypeOK' /\ UNCHANGED <<method, up, vain>> /\ errs' = errs + 1
      /\ UNCHANGED <<rules, waiting>> \/ (Accepted("del", r) /\ Accept("del", r))
  BY <1>1, <1>5, CutEffect DEF Verbs
<1>7. errs <= errs'
  BY <1>1, <1>6, MaxErrsAssumption DEF PodsTypeOK
<1>8. \A q \in Rules : Ebbs(q)
  BY <1>1, <1>6, Deletion
<1>9. /\ UNCHANGED <<timer, call, settled, tracked>> /\ tried \subseteq tried'
      /\ Ends("job", f)
  BY DEF JobTimeout, JobErr, Ends, Proceeds
<1>10. /\ step'["job"][f] = 1
       /\ \A u \in Reverters, g \in Faults :
            u # "job" \/ g # f => step'[u][g] = step[u][g] /\ failed'[u][g] = failed[u][g]
  BY <1>1, <1>9, EndsAt
<1>11. Reverts("job", f, FALSE)
  BY <1>1, <1>3, <1>9, <1>10 DEF Reverts
<1>12. QED
  BY <1>1, <1>6, <1>7, <1>8, <1>9, <1>11

\* A command of any task keeps the bound from above.
LEMMA UpperDeleted ==
  ASSUME IInv, RoundInv, RunInv, UpperInv, PodsTypeOK', errs <= errs',
         NEW t \in Reverters, NEW f \in tracked, NEW reply \in BOOLEAN, Reverts(t, f, reply),
         \A q \in Rules : Ebbs(q) /\ (reply /\ Cmds(f)[step[t][f]] = q => Falls(q))
  PROVE  UpperInv'
<1>1. UNCHANGED mainVars /\ errs \in Nat /\ errs' \in Nat
  BY MaxErrsAssumption DEF Reverts, RunInv, TypeOK, PodsTypeOK
<1>2. UNCHANGED <<command, pc, round, desc>>
  BY <1>1 DEF mainVars
<1>3. Accounted' = Accounted /\ (Tolerated' => Tolerated)
  BY <1>1, <1>2 DEF Accounted, Alive, Tolerated
<1>4. Accounted /\ Tolerated /\ pc = "rollback" => errs' >= 1 \/ Standing(Cmds(round)[1])' = 0
  BY <1>1, RollbackKept
<1>5. ASSUME Accounted, Tolerated, NEW q \in Rules
      PROVE  Standing(q)' <= Cardinality((Owing(q) \cup Flight(q))') + InVain(q)'
  <2>1. Standing(q) <= Cardinality(Owing(q) \cup Flight(q)) + InVain(q)
    BY <1>5 DEF UpperInv
  <2>2. QED
    BY <2>1, UpperReverted
<1>6. QED
  BY <1>2, <1>3, <1>4, <1>5 DEF UpperInv

LEMMA DeletingUpper ==
  ASSUME IInv, RoundInv, RunInv, UpperInv, NEW t \in Reverters, NEW f, NEW reply \in BOOLEAN,
         Deleting(t, f, reply)
  PROVE  UpperInv' /\ method' = method
<1>1. PICK r \in Rules : r = Cmds(f)[step[t][f]] /\ Exec("del", r, reply)
  BY DEF Deleting
<1>2. PodsTypeOK /\ f \in tracked /\ Reverts(t, f, reply)
  BY DEF Deleting, RunInv, TypeOK
<1>3. PodsTypeOK' /\ errs <= errs' /\ method' = method
  BY <1>1, <1>2, ExecEffect DEF Verbs
<1>4. \A q \in Rules : Ebbs(q) /\ (reply /\ r = q => Falls(q))
  BY <1>1, <1>2, ExecDeletes
<1>5. QED
  BY <1>1, <1>2, <1>3, <1>4, UpperDeleted

\* The timed revert of a fault that must stand takes the instance of its own;
\* that of a fault whose pod has gone may take another's, once per rule.
LEMMA LowerDeleted ==
  ASSUME IInv, RoundInv, RunInv, LowerInv, NEW f \in Faults, TimedRevert(f) PROVE LowerInv'
<1>1. /\ \E reply \in BOOLEAN : Deleting("timer", f, reply)
      /\ step'["timer"][f] = 2 \/ timer'[f] # "armed"
      /\ \A g \in Faults : g # f => timer'[g] = timer[g]
      /\ UNCHANGED <<call, mainVars>>
  BY TimedDeletes
<1>2. PICK reply \in BOOLEAN : Deleting("timer", f, reply)
  BY <1>1
<1>3. PICK r \in Rules : r = Cmds(f)[step["timer"][f]] /\ Exec("del", r, reply)
  BY <1>2 DEF Deleting
<1>4. /\ f \in tracked /\ tracked' = tracked /\ timer[f] = "armed" /\ tracked \subseteq Faults
      /\ step["timer"][f] \in 1..Len(Cmds(f)) /\ Len(Cmds(f)) \in 1..2
      /\ \A g \in Faults : g # f => step'["timer"][g] = step["timer"][g]
      /\ PodsTypeOK /\ bereft' = bereft /\ method' = method
      /\ step'["timer"][f] = 2 => step["timer"][f] = 1
  <2>1. "timer" \in Reverters
    BY DEF Reverters
  <2>2. QED
    BY <1>2, <1>3, <2>1 DEF Deleting, Reverts, TimedRevert, Exec, RunInv, TypeOK, IInv, TrackerTypes
<1>5. /\ command' = command /\ pc' = pc /\ at' = at /\ round' = round /\ desc' = desc
  BY <1>1 DEF mainVars
<1>6. \A g \in Faults, i \in 1..2, q \in Rules : At(g, i, q)' <=> At(g, i, q)
  BY <1>5 DEF At, Cmds
<1>7. \A q \in Rules : Flight(q)' = Flight(q)
  BY <1>5 DEF Flight, At, Cmds, InFlight
\* The commands of f are distinct.
<1>8. \A i \in 1..2 : At(f, i, r) => i = step["timer"][f]
  <2>1. Proper(desc[f])
    BY <1>4 DEF RunInv, TrackedInv
  <2>2. Len(Cmds(f)) = 2 => Cmds(f)[1] # Cmds(f)[2]
    BY <2>1, CommandsOf DEF Cmds, NetworkKinds, Proper, FaultDesc, Kinds
  <2>3. QED
    BY <1>3, <1>4, <2>2 DEF At
<1>9. At(f, step["timer"][f], r) /\ step["timer"][f] \in 1..2
  BY <1>3, <1>4 DEF At
<1>10. \A g \in Faults, i \in 1..2 : ToCome(g, i)' => ToCome(g, i) /\ (g = f => i # step["timer"][f])
  BY <1>1, <1>4 DEF ToCome
<1>11. ASSUME NEW q \in Rules, Cardinality(Firm(q)) <= rules[q] + Cardinality(Spent(q))
       PROVE  Cardinality(Firm(q)') <= rules'[q] + Cardinality(Spent(q)')
  <2> DEFINE S == Firm(q)
             T == Firm(q)'
             A == Spent(q)
             B == Spent(q)'
  <2>1. \A g \in Facing(q)' : g \in Facing(q) /\ (q = r => g # f)
    BY <1>4, <1>6, <1>8, <1>10 DEF Facing
  <2>2. T \subseteq S /\ (q = r => f \notin T)
    <3>1. f \notin Flight(q)
      BY <1>4, StandingTypes
    <3>2. QED
      BY <1>4, <1>7, <2>1, <3>1 DEF Firm
  <2>3. q = r /\ f \notin bereft => f \in S
    BY <1>4, <1>9 DEF Firm, Facing, ToCome
  <2>4. A \subseteq B /\ A \subseteq Faults /\ B \subseteq Faults
    BY <1>4, <1>6, <1>10 DEF Spent
  <2>5. q = r /\ f \in bereft => f \notin A /\ f \in B
    <3>1. ASSUME q = r, f \in bereft, f \in A PROVE FALSE
      <4>1. PICK i \in 1..2 : At(f, i, r) /\ ~ToCome(f, i)
        BY <3>1 DEF Spent
      <4>2. QED
        BY <1>4, <1>8, <4>1 DEF ToCome
    <3>2. ASSUME q = r, f \in bereft PROVE f \in B
      BY <1>4, <1>6, <1>9, <1>10, <3>2 DEF Spent
    <3>3. QED
      BY <3>1, <3>2
  <2>6. /\ S \in SUBSET Faults /\ T \in SUBSET Faults /\ rules[q] \in Nat
        /\ rules'[q] \in Nat /\ rules[q] <= rules'[q] + 1
        /\ q # r => rules'[q] = rules[q]
    BY <1>3, <1>4, <2>2, StandingTypes, ExecDeletes
  <2>7. /\ Cardinality(A) \in Nat /\ Cardinality(B) \in Nat /\ Cardinality(A) <= Cardinality(B)
        /\ q = r /\ f \in bereft => Cardinality(A) + 1 <= Cardinality(B)
    <3>1. /\ IsFiniteSet(A) /\ IsFiniteSet(B) /\ Cardinality(A) \in Nat /\ Cardinality(B) \in Nat
          /\ Cardinality(A) <= Cardinality(B)
      BY <2>4, FaultsFinite, FS_Subset
    <3>2. ASSUME q = r, f \in bereft PROVE Cardinality(A) + 1 <= Cardinality(B)
      <4>1. f \notin A /\ A \cup {f} \subseteq B
        BY <2>4, <2>5, <3>2
      <4>2. Cardinality(A \cup {f}) = Cardinality(A) + 1
        BY <3>1, <4>1, FS_AddElement
      <4>3. QED
        BY <3>1, <4>1, <4>2, FS_Subset
    <3>3. QED
      BY <3>1, <3>2
  <2>8. Cardinality(S) <= rules[q] + Cardinality(A)
    BY <1>11
  <2>9. CASE q = r /\ f \notin bereft
    <3>1. f \in S /\ T \subseteq S \ {f}
      BY <2>2, <2>3, <2>9
    <3> HIDE DEF S, T, A, B
    <3>2. rules[q] + Cardinality(A) <= (rules'[q] + Cardinality(B)) + 1
      BY <2>6, <2>7
    <3>3. Cardinality(T) <= rules'[q] + Cardinality(B)
      BY <2>6, <2>7, <2>8, <3>1, <3>2, Covered
    <3>4. QED
      BY <3>3 DEF T, B
  <2>10. CASE ~(q = r /\ f \notin bereft)
    <3> HIDE DEF S, T, A, B
    <3>1. rules[q] + Cardinality(A) <= rules'[q] + Cardinality(B)
      BY <2>6, <2>7, <2>10
    <3>2. Cardinality(T) <= rules'[q] + Cardinality(B)
      BY <2>2, <2>6, <2>7, <2>8, <3>1, Covered
    <3>3. QED
      BY <3>2 DEF T, B
  <2>11. QED
    BY <2>9, <2>10
<1>12. QED
  BY <1>1, <1>4, <1>5, <1>11 DEF LowerInv, Undrained

\* A step that leaves the faults and their reverts alone.
LEMMA FaultsKept ==
  ASSUME tracked \subseteq Faults, UNCHANGED <<mainVars, step, failed, tracked, settled, bereft>>,
         \A g \in Faults : timer'[g] = "armed" <=> timer[g] = "armed", NEW q \in Rules
  PROVE  /\ Owing(q)' = Owing(q) /\ Flight(q)' = Flight(q)
         /\ Firm(q)' = Firm(q) /\ Spent(q)' = Spent(q)
<1>1. /\ \A g \in Faults, i \in 1..2 : At(g, i, q)' <=> At(g, i, q)
      /\ \A g \in Faults, i \in 1..2 : ToCome(g, i)' <=> ToCome(g, i)
      /\ \A g \in Faults, i \in 1..2, t \in Reverters : Past(t, g, i)' <=> Past(t, g, i)
  BY DEF At, Cmds, ToCome, Past, mainVars
<1>2. Owing(q)' = Owing(q)
  BY <1>1 DEF Owing
<1>3. Flight(q)' = Flight(q)
  BY DEF Flight, At, Cmds, InFlight, mainVars
<1>4. Facing(q)' = Facing(q) /\ Spent(q)' = Spent(q)
  BY <1>1 DEF Facing, Spent
<1>5. QED
  BY <1>2, <1>3, <1>4 DEF Firm

LEMMA RevertStands ==
  ASSUME IInv, IInv', RoundInv, RoundInv', RunInv, RunInv', DrainInv, StandInv,
         NEW f \in Faults, RevertStep(f)
  PROVE  StandInv'
<1> USE DEF StandInv
<1>0. /\ "timer" \in Reverters /\ "job" \in Reverters /\ PodsTypeOK' /\ tracked \subseteq Faults
      /\ settled \subseteq Faults /\ errs \in Nat
  BY MaxErrsAssumption DEF Reverters, RunInv, TypeOK, PodsTypeOK, IInv, TrackerTypes
\* Before the drain of run there are no jobs.
<1>a. Undrained => held = {}
  BY DEF Undrained, DrainInv, IInv, HeldByDrain
<1>b. ASSUME f \in held, UNCHANGED <<call, mainVars, method>> PROVE LowerInv'
  BY <1>a, <1>b DEF LowerInv, Undrained, mainVars
<1>1. CASE TimedRevert(f)
  <2>1. PICK reply \in BOOLEAN : Deleting("timer", f, reply)
    BY <1>1, TimedDeletes
  <2>2. SettledInv'
    <3>1. /\ \A g \in Faults : g # f => timer'[g] = timer[g]
          /\ f \in settled' /\ f \notin settled => timer'[f] # "armed"
          /\ settled' \subseteq settled \cup {f} /\ tried' = tried
      BY <1>1, TimedDeletes
    <3>2. settled \subseteq Faults /\ timer[f] = "armed"
      BY <1>1 DEF IInv, TrackerTypes, TimedRevert
    <3>3. QED
      BY <3>1, <3>2 DEF SettledInv
  <2>3. QED
    BY <1>0, <1>1, <2>1, <2>2, DeletingUpper, LowerDeleted
<1>2. CASE TimedUntrack(f)
  <2>1. /\ UNCHANGED <<podVars, mainVars, revertVars, bereft, call, held, tracked, settled>>
        /\ timer' = [timer EXCEPT ![f] = "done"] /\ timer[f] = "confirmed"
    BY <1>2 DEF TimedUntrack, Untrack
  <2>2. \A g \in Faults : timer'[g] = "armed" <=> timer[g] = "armed"
    BY <2>1 DEF IInv, TrackerTypes
  <2>3. SettledInv'
    BY <1>0, <2>1, <2>2 DEF SettledInv, revertVars
  <2>4. /\ UNCHANGED <<method, rules, waiting, vain, errs, step, failed>>
        /\ UNCHANGED <<command, pc, round, desc>>
    BY <2>1 DEF podVars, revertVars, mainVars
  <2>5. \A q \in Rules : /\ Owing(q)' = Owing(q) /\ Flight(q)' = Flight(q)
                         /\ Firm(q)' = Firm(q) /\ Spent(q)' = Spent(q)
    BY <1>0, <2>1, <2>2, <2>4, FaultsKept
  <2>6. UpperInv'
    BY <1>0, <2>1, <2>4, <2>5, Still, UpperEbbs
  <2>7. LowerInv'
    BY <2>1, <2>4, <2>5 DEF LowerInv, Undrained
  <2>8. QED
    BY <2>3, <2>6, <2>7
<1>3. CASE JobRevert(f)
  <2>1. PICK reply \in BOOLEAN : Deleting("job", f, reply)
    BY <1>3, JobDeletes
  <2>2. SettledInv' /\ UNCHANGED <<call, mainVars>>
    BY <1>3, JobDeletes DEF SettledInv
  <2>3. UpperInv' /\ method' = method
    BY <1>0, <2>1, DeletingUpper
  <2>4. QED
    BY <1>3, <1>b, <2>2, <2>3 DEF JobRevert
<1>4. CASE JobStress(f) \/ (JobTimeout(f) /\ desc[f].kind = "stress")
  <2>1. /\ UNCHANGED <<method, rules, up, waiting, vain, mainVars, timer, tracked, call, bereft>>
        /\ settled' = settled \/ settled' = settled \cup {f}
        /\ tried' = tried \cup {f} /\ desc[f].kind = "stress" /\ f \in held
    BY <1>4 DEF JobStress, JobTimeout, JobOk, JobErr, podVars
  <2>2. f \in tracked /\ Len(Cmds(f)) = 0 /\ StepTypes
    BY <2>1, InHands, CommandsOf DEF Cmds, RunInv, TrackedInv, NetworkKinds, TypeOK, StepTypes
  <2>3. \A u \in Reverters, g \in Faults :
          g # f => step'[u][g] = step[u][g] /\ failed'[u][g] = failed[u][g]
    <3>1. CASE JobStress(f)
      BY <3>1 DEF JobStress
    <3>2. CASE JobTimeout(f)
      <4>1. Ends("job", f)
        BY <3>2 DEF JobTimeout, Ends, Proceeds
      <4>2. QED
        BY <1>0, <2>2, <4>1, EndsAt
    <3>3. QED
      BY <1>4, <3>1, <3>2
  <2>4. SettledInv'
    BY <2>1 DEF SettledInv
  <2>5. LowerInv'
    BY <1>b, <2>1
  <2>6. ASSUME NEW r \in Rules PROVE Owing(r)' = Owing(r) /\ Flight(r)' = Flight(r)
    <3>1. \A i \in 1..2 : ~At(f, i, r)
      BY <2>2 DEF At
    <3>2. \A g \in Faults, i \in 1..2 : At(g, i, r)' <=> At(g, i, r)
      BY <2>1 DEF At, Cmds, mainVars
    <3>3. \A g \in Faults, i \in 1..2, u \in Reverters : g # f => (Past(u, g, i)' <=> Past(u, g, i))
      BY <2>3 DEF Past
    <3>4. \A g \in Faults : g # f => (g \in tracked \ settled)' = (g \in tracked \ settled)
      BY <2>1
    <3>5. Owing(r)' = Owing(r)
      BY <1>0, <2>1, <3>1, <3>2, <3>3, <3>4 DEF Owing
    <3>6. Flight(r)' = Flight(r)
      BY <2>1 DEF Flight, At, Cmds, InFlight, mainVars
    <3>7. QED
      BY <3>5, <3>6
  <2>7. errs <= errs'
    BY <1>0, <1>4 DEF JobStress, JobTimeout, SpareError, podVars
  <2>8. UpperInv'
    BY <1>0, <2>1, <2>6, <2>7, Still, UpperEbbs
  <2>9. QED
    BY <2>4, <2>5, <2>8
<1>5. CASE JobTimeout(f) /\ desc[f].kind # "stress"
  <2>1. /\ f \in tracked /\ Reverts("job", f, FALSE) /\ errs <= errs' /\ method' = method
        /\ \A q \in Rules : Ebbs(q)
        /\ UNCHANGED <<timer, call, settled, mainVars>> /\ tried \subseteq tried'
    BY <1>5, TimeoutReverts
  <2>2. SettledInv'
    BY <2>1 DEF SettledInv
  <2>3. LowerInv'
    BY <1>5, <1>b, <2>1 DEF JobTimeout
  <2>4. UpperInv'
    <3>1. FALSE \in BOOLEAN
      OBVIOUS
    <3>2. QED
      BY <1>0, <2>1, <3>1, UpperDeleted
  <2>5. QED
    BY <2>2, <2>3, <2>4
<1>6. QED
  BY <1>1, <1>2, <1>3, <1>4, <1>5 DEF RevertStep

LEMMA CallStands ==
  ASSUME IInv, RoundInv, RunInv, RunInv', StandInv, NEW c \in Calls, DrainStep(c) PROVE StandInv'
<1>1. /\ UNCHANGED <<podVars, mainVars, revertVars, bereft, tracked, settled, timer>>
      /\ call \in [Calls -> CallState] /\ CallStep(c) /\ tracked \subseteq Faults
  BY DEF DrainStep, CallStep, ClaimGuard, JoinWait, WaitOver, TakeAll, Requeue, Release, IInv, TrackerTypes
<1>2. /\ UNCHANGED <<method, rules, waiting, vain, errs, step, failed, tried>>
      /\ UNCHANGED <<command, pc, round, desc>>
  BY <1>1 DEF podVars, revertVars, mainVars
<1>3. Undrained' => Undrained
  <2>1. ASSUME call'["main"] \in {"idle", "claimed"} PROVE call["main"] \in {"idle", "claimed"}
    BY <1>1, <2>1, CallsAssumption DEF CallStep, ClaimGuard, JoinWait, WaitOver, TakeAll, Requeue, Release
  <2>2. QED
    BY <1>2, <2>1 DEF Undrained
<1>4. \A q \in Rules : /\ Owing(q)' = Owing(q) /\ Flight(q)' = Flight(q)
                       /\ Firm(q)' = Firm(q) /\ Spent(q)' = Spent(q)
  BY <1>1, <1>2, FaultsKept
<1>5. SettledInv'
  BY <1>1, <1>2 DEF StandInv, SettledInv
<1>6. UpperInv'
  <2>1. PodsTypeOK' /\ errs <= errs'
    BY <1>2, MaxErrsAssumption DEF RunInv, TypeOK, PodsTypeOK
  <2>2. QED
    BY <1>1, <1>2, <1>4, <2>1, Still, UpperEbbs DEF StandInv
<1>7. LowerInv'
  BY <1>2, <1>3, <1>4 DEF StandInv, LowerInv
<1>8. QED
  BY <1>5, <1>6, <1>7 DEF StandInv

-----------------------------------------------------------------------------
\* The steps of the main task leave the tracked faults alone, except that the
\* fault of the round becomes one.
LEMMA MainKeeps ==
  ASSUME IInv, RoundInv, RunInv, UNCHANGED <<trackerVars, revertVars>>, bereft \subseteq bereft',
         \A f \in tracked : desc'[f] = desc[f], NEW q \in Rules
  PROVE  Owing(q)' = Owing(q) /\ Facing(q)' = Facing(q) /\ Spent(q) \subseteq Spent(q)'
<1>1. UNCHANGED <<tracked, settled, timer, step, failed>> /\ tracked \subseteq Faults
  BY DEF trackerVars, revertVars, IInv, TrackerTypes
<1>2. \A f \in tracked, i \in 1..2 : At(f, i, q)' <=> At(f, i, q)
  BY <1>1 DEF At, Cmds
<1>3. Owing(q)' = Owing(q)
  BY <1>1, <1>2 DEF Owing, Past
<1>4. Facing(q)' = Facing(q) /\ Spent(q) \subseteq Spent(q)'
  BY <1>1, <1>2 DEF Facing, Spent, ToCome
<1>5. QED
  BY <1>3, <1>4

LEMMA MainFrame ==
  ASSUME IInv, RoundInv, RunInv, MainStep
  PROVE  /\ command' = command /\ call' = call /\ settled' = settled /\ revertVars' = revertVars
         /\ pc # "exited" /\ errs <= errs' /\ errs \in Nat /\ errs' \in Nat
         /\ pc \in {"discover", "inject", "rollback", "track"} => round \in Faults /\ round \notin tracked
         /\ \A f \in tracked : desc'[f] = desc[f]
         /\ pc # "track" => UNCHANGED trackerVars
         /\ method' = method /\ bereft \subseteq bereft'
<1>1. /\ command' = command /\ call' = call /\ settled' = settled /\ revertVars' = revertVars
      /\ pc # "exited"
      /\ pc # "track" => UNCHANGED trackerVars
  BY DEF MainStep, NextRound, LeaveLoop, DrawFault, SkipRound, DiscoverFails, InjectCommand, RollBack,
         InjectStress, InjectDeletion, TrackFault, DropFault, CountActive, DrainOver, Finish,
         Track, trackerVars
<1>2. errs <= errs' /\ errs \in Nat /\ errs' \in Nat
  <2>1. errs \in Nat
    BY MaxErrsAssumption DEF RunInv, TypeOK, PodsTypeOK
  <2>2. errs' = errs \/ errs' = errs + 1
    <3>1. CASE InjectCommand \/ RollBack
      BY <3>1 DEF InjectCommand, RollBack, Exec, SpareError
    <3>2. CASE DiscoverFails
      BY <3>2 DEF DiscoverFails, SpareError
    <3>3. CASE InjectDeletion
      BY <3>3 DEF InjectDeletion, LosePod, DeletePod, podVars
    <3>4. CASE ~(InjectCommand \/ RollBack \/ DiscoverFails \/ InjectDeletion)
      BY <3>4 DEF MainStep, NextRound, LeaveLoop, DrawFault, SkipRound, InjectStress, TrackFault,
                  DropFault, CountActive, DrainOver, Finish, podVars
    <3>5. QED
      BY <3>1, <3>2, <3>3, <3>4
  <2>3. QED
    BY <2>1, <2>2
<1>3. pc \in {"discover", "inject", "rollback", "track"} => round \in Faults /\ round \notin tracked
  BY DEF RoundInv, RunInv, TrackedInv
<1>4. \A f \in tracked : desc'[f] = desc[f]
  <2>1. \/ desc' = desc
        \/ /\ pc \in {"discover", "inject", "rollback", "track"}
           /\ \E d : desc' = [desc EXCEPT ![round] = d]
    BY DEF MainStep, NextRound, LeaveLoop, DrawFault, SkipRound, DiscoverFails, InjectCommand, RollBack,
           InjectStress, InjectDeletion, TrackFault, DropFault, CountActive, DrainOver, Finish
  <2>2. tracked \subseteq Faults /\ desc \in [Faults -> FaultDesc \cup {NoFault}]
    BY DEF IInv, TrackerTypes, RunInv, TypeOK
  <2>3. QED
    BY <1>3, <2>1, <2>2
<1>5. bereft \subseteq bereft'
  BY DEF MainStep, NextRound, LeaveLoop, DrawFault, SkipRound, DiscoverFails, InjectCommand, RollBack,
         InjectStress, InjectDeletion, LosePod, TrackFault, DropFault, CountActive, DrainOver, Finish
<1>6. method' = method
  BY DEF MainStep, NextRound, LeaveLoop, DrawFault, SkipRound, DiscoverFails, InjectCommand, RollBack, Exec,
         InjectStress, InjectDeletion, LosePod, DeletePod, TrackFault, DropFault, CountActive, DrainOver,
         Finish, podVars
<1>7. QED
  BY <1>1, <1>2, <1>3, <1>4, <1>5, <1>6

\* The commands of the fault of the round.
LEMMA RoundCommands ==
  ASSUME RoundInv, RunInv, pc \in {"inject", "rollback", "track"}
  PROVE  /\ Proper(desc[round]) /\ at \in 1..2
         /\ \A i \in 1..Len(Cmds(round)) : Cmds(round)[i] \in Rules /\ Cmds(round)[i][1] = desc[round].pod
         /\ desc[round].kind \notin NetworkKinds => Len(Cmds(round)) = 0
         /\ desc[round].kind \in NetworkKinds => Len(Cmds(round)) \in 1..2
         /\ Len(Cmds(round)) = 2 <=> desc[round].kind = "dns"
         /\ Len(Cmds(round)) = 2 => Cmds(round)[1] # Cmds(round)[2] /\ Cmds(round)[2][2] # "netem"
         /\ pc = "rollback" => desc[round].kind = "dns" /\ at = 2
         /\ pc = "inject" => at = 1 \/ desc[round].kind = "dns"
<1>1. Proper(desc[round]) /\ at \in 1..2
      /\ (pc = "rollback" => desc[round].kind = "dns" /\ at = 2)
      /\ (pc = "inject" => at = 1 \/ desc[round].kind = "dns")
  BY DEF RunInv, AtInv, TypeOK
<1>2. QED
  BY <1>1, CommandsOf DEF Cmds, NetworkKinds

\* A pod goes with its rules.
LEMMA PodLost ==
  ASSUME RunInv, NEW p, LosePod(p), NEW q \in Rules
  PROVE  /\ PodsTypeOK' /\ method' = method /\ errs' = errs
         /\ q[1] = p => Standing(q)' = 0
         /\ q[1] # p => Ebbs(q) /\ rules'[q] = rules[q]
<1>1. PodsTypeOK /\ "add" \in Verbs /\ "del" \in Verbs
  BY DEF RunInv, TypeOK, Verbs
<1>2. /\ PodsTypeOK' /\ UNCHANGED <<method, errs>>
      /\ q[1] = p => rules'[q] = 0 /\ waiting'["add"][q] = 0
      /\ q[1] # p => /\ rules'[q] = rules[q] /\ vain'[q] = vain[q]
                     /\ waiting'["add"][q] = waiting["add"][q] /\ waiting'["del"][q] = waiting["del"][q]
  BY <1>1, LostPod, DeletedTypes
<1>3. q[1] = p => Standing(q)' = 0
  BY <1>2 DEF Standing
<1>4. q[1] # p => Standing(q)' = Standing(q) /\ InVain(q)' = InVain(q)
  BY <1>2 DEF Standing, InVain
<1>5. Standing(q) \in Nat /\ InVain(q) \in Nat
  BY <1>1, CountTypes
<1>6. QED
  BY <1>2, <1>3, <1>4, <1>5 DEF Ebbs

\* How a step of the injection may move a count, its bound from above and its
\* bound from below.
UpperMove(q) ==
  \/ Ebbs(q) /\ Flight(q) \subseteq Flight(q)'
  \/ Rises(q) /\ round \notin Flight(q) /\ Flight(q) \cup {round} \subseteq Flight(q)'
  \/ Falls(q) /\ Flight(q) \ {round} \subseteq Flight(q)'
  \/ Standing(q)' = 0
  \/ ~Tolerated'

LowerMove(q) ==
  \/ rules[q] <= rules'[q] /\ Flight(q)' \subseteq Flight(q)
  \/ rules[q] + 1 <= rules'[q] /\ Flight(q)' \subseteq Flight(q) \cup {round}
  \/ rules[q] <= rules'[q] + 1 /\ round \in Flight(q) \ bereft /\ Flight(q)' \subseteq Flight(q) \ {round}
  \/ (Facing(q) \cup Flight(q))' \subseteq bereft'
  \/ method # "exec"

LEMMA FlightKept ==
  ASSUME IInv, IInv', RoundInv, RoundInv', RunInv, RunInv', UpperInv, LowerInv, MainStep,
         UNCHANGED trackerVars, NEW q \in Rules, Flight(q)' \subseteq Faults,
         Flight(q) # Flight(q)' => round \in Faults /\ round \notin tracked,
         UpperMove(q), LowerMove(q)
  PROVE  /\ Accounted /\ Tolerated' => Standing(q)' <= Cardinality((Owing(q) \cup Flight(q))') + InVain(q)'
         /\ Undrained => Cardinality(Firm(q)') <= rules'[q] + Cardinality(Spent(q)')
<1> DEFINE SU == Owing(q) \cup Flight(q)
           TU == Owing(q)' \cup Flight(q)'
           SL == Firm(q)
           TL == Firm(q)'
           A == Spent(q)
           B == Spent(q)'
<1>1. /\ Owing(q)' = Owing(q) /\ Facing(q)' = Facing(q) /\ A \subseteq B
      /\ errs <= errs' /\ errs \in Nat /\ errs' \in Nat /\ bereft \subseteq bereft'
      /\ tracked' = tracked
  BY MainFrame, MainKeeps DEF trackerVars
<1>2. /\ tracked \subseteq Faults /\ InFlight \subseteq Faults /\ InFlight \cap tracked = {}
      /\ Owing(q) \subseteq tracked /\ Facing(q) \subseteq tracked
      /\ Flight(q) \subseteq InFlight /\ A \subseteq tracked
      /\ Standing(q) \in Nat /\ InVain(q) \in Nat /\ rules[q] \in Nat
      /\ Standing(q)' \in Nat /\ InVain(q)' \in Nat /\ rules'[q] \in Nat
  BY StandingTypes, CountTypes DEF RunInv, TypeOK
<1>3. /\ SU \in SUBSET Faults /\ TU \in SUBSET Faults /\ SL \in SUBSET Faults /\ TL \in SUBSET Faults
      /\ A \in SUBSET Faults /\ B \in SUBSET Faults
  BY <1>1, <1>2 DEF Firm, Spent
<1>4. ASSUME Accounted, Tolerated' PROVE Standing(q)' <= Cardinality(TU) + InVain(q)'
  <2>1. Standing(q) <= Cardinality(SU) + InVain(q)
    BY <1>1, <1>4 DEF UpperInv, Tolerated
  <2>2. \/ Standing(q)' = 0
        \/ Ebbs(q) /\ SU \subseteq TU
        \/ Falls(q) /\ SU \ {round} \subseteq TU
        \/ Rises(q) /\ round \notin SU /\ SU \cup {round} \subseteq TU
    BY <1>1, <1>2, <1>4 DEF UpperMove
  <2> HIDE DEF SU, TU
  <2>3. PICK n \in Nat, m \in Nat, v \in Nat, w \in Nat :
          n = Standing(q) /\ m = Standing(q)' /\ v = InVain(q) /\ w = InVain(q)'
    BY <1>2
  <2>4. \/ m = 0
        \/ m + v <= n + w /\ SU \subseteq TU
        \/ m + v + 1 <= n + w /\ SU \ {round} \subseteq TU
        \/ m + v <= n + w + 1 /\ round \notin SU /\ SU \cup {round} \subseteq TU
    BY <2>2, <2>3 DEF Ebbs, Falls, Rises
  <2>5. n <= Cardinality(SU) + v
    BY <2>1, <2>3
  <2>6. m <= Cardinality(TU) + w
    BY <1>3, <2>4, <2>5, Bounded
  <2>7. QED
    BY <2>3, <2>6
<1>5. ASSUME Undrained PROVE Cardinality(TL) <= rules'[q] + Cardinality(B)
  <2>1. Cardinality(SL) <= rules[q] + Cardinality(A)
    BY <1>5 DEF LowerInv
  <2>2. Cardinality(A) <= Cardinality(B) /\ Cardinality(A) \in Nat /\ Cardinality(B) \in Nat
    <3> HIDE DEF A, B
    <3>1. QED
      BY <1>1, <1>3, FaultsFinite, FS_Subset
  <2>3. \/ rules[q] <= rules'[q] /\ TL \subseteq SL
        \/ rules[q] <= rules'[q] + 1 /\ round \in SL /\ TL \subseteq SL \ {round}
        \/ rules[q] + 1 <= rules'[q] /\ TL \subseteq SL \cup {round}
        \/ TL = {}
    BY <1>1, <1>2, <1>5 DEF LowerMove, Firm, Undrained
  <2> HIDE DEF SL, TL, A, B
  <2>b. rules[q] + Cardinality(A) \in Nat /\ rules'[q] + Cardinality(B) \in Nat
    BY <1>2, <2>2
  <2>4. PICK n \in Nat, m \in Nat : n = rules[q] + Cardinality(A) /\ m = rules'[q] + Cardinality(B)
    BY <2>b
  <2>5. \/ n <= m /\ TL \subseteq SL
        \/ n <= m + 1 /\ round \in SL /\ TL \subseteq SL \ {round}
        \/ n + 1 <= m /\ TL \subseteq SL \cup {round}
        \/ TL = {}
    <3>1. PICK a \in Nat, b \in Nat : a = rules[q] /\ b = rules'[q]
      BY <1>2
    <3>2. n = a + Cardinality(A) /\ m = b + Cardinality(B)
      BY <2>4, <3>1
    <3>3. (a <= b => n <= m) /\ (a <= b + 1 => n <= m + 1) /\ (a + 1 <= b => n + 1 <= m)
      BY <2>2, <3>2
    <3>4. QED
      BY <2>3, <3>1, <3>3
  <2>6. Cardinality(TL) <= m
    BY <1>3, <2>1, <2>4, <2>5, Covered
  <2>7. QED
    BY <2>4, <2>6
<1>6. QED
  BY <1>4, <1>5 DEF TU, TL, B

\* A command of the injection adds the rule and the fault to what it covers.
LEMMA InjectMoves ==
  ASSUME IInv, RoundInv, RunInv, PodInv, InjectCommand
  PROVE  /\ pc' = "rollback" => errs' >= 1 \/ Standing(Cmds(round)[1])' = 0
         /\ \A q \in Rules : /\ Flight(q)' \subseteq {round}
                             /\ UpperMove(q) /\ LowerMove(q)
<1>1. /\ pc = "inject" /\ desc[round].kind \in NetworkKinds /\ round' = round
      /\ PodsTypeOK /\ InFlight = {round} /\ errs \in Nat
  BY MaxErrsAssumption DEF InjectCommand, RunInv, TypeOK, InFlight, PodsTypeOK
<1>2. PICK reply \in BOOLEAN :
        /\ Exec("add", Cmds(round)[at], reply)
        /\ \/ reply /\ at < Len(Cmds(round)) /\ at' = at + 1 /\ pc' = pc /\ desc' = desc
           \/ reply /\ at = Len(Cmds(round)) /\ pc' = "track" /\ at' = at /\ desc' = desc
           \/ ~reply /\ at > 1 /\ pc' = "rollback" /\ at' = at /\ desc' = desc
           \/ ~reply /\ at = 1 /\ pc' = "sleep" /\ at' = at
  BY DEF InjectCommand, Cmds
<1>3. /\ at \in 1..Len(Cmds(round)) /\ Len(Cmds(round)) \in 1..2 /\ at \in 1..2
      /\ Len(Cmds(round)) = 2 => Cmds(round)[1] # Cmds(round)[2] /\ Cmds(round)[2][2] # "netem"
      /\ \A i \in 1..Len(Cmds(round)) : Cmds(round)[i] \in Rules /\ Cmds(round)[i][1] = desc[round].pod
  <2>1. /\ Len(Cmds(round)) \in 1..2 /\ at \in 1..2
        /\ Len(Cmds(round)) = 2 <=> desc[round].kind = "dns"
        /\ at = 1 \/ desc[round].kind = "dns"
        /\ Len(Cmds(round)) = 2 => Cmds(round)[1] # Cmds(round)[2] /\ Cmds(round)[2][2] # "netem"
        /\ \A i \in 1..Len(Cmds(round)) : Cmds(round)[i] \in Rules /\ Cmds(round)[i][1] = desc[round].pod
    BY <1>1, RoundCommands
  <2>2. at \in 1..Len(Cmds(round))
    BY <2>1
  <2>3. QED
    BY <2>1, <2>2
<1>4. PICK r \in Rules : r = Cmds(round)[at]
  BY <1>3
<1>5. /\ Exec("add", r, reply) /\ PodsTypeOK' /\ UNCHANGED <<method, up, vain>>
      /\ UNCHANGED <<rules, waiting>> \/ (Accepted("add", r) /\ Accept("add", r))
      /\ errs' = errs \/ errs' = errs + 1
      /\ errs' = errs => reply = Accepted("add", r)
      /\ reply => Accepted("add", r) /\ Accept("add", r)
  BY <1>1, <1>2, <1>4, ExecEffect DEF Verbs
\* A failing addition takes effect only if its reply is lost.
<1>6. ~reply => UNCHANGED <<rules, waiting>> \/ ~Tolerated'
  <2>1. ASSUME ~reply, ~UNCHANGED <<rules, waiting>>
        PROVE  "lost" \in Unreliable /\ errs' = errs + 1
    BY <1>5, <2>1 DEF Exec, SpareError
  <2>2. QED
    BY <1>1, <2>1 DEF Tolerated
<1>7. ASSUME Accepted("add", r), Accept("add", r)
      PROVE  /\ Rises(r) /\ (method = "exec" => rules[r] + 1 <= rules'[r]) /\ rules[r] <= rules'[r]
             /\ \A q \in Rules : q # r => Ebbs(q) /\ rules'[q] = rules[q]
  <2>1. /\ rules' \in [Rules -> Nat] /\ waiting' \in [Verbs -> [Rules -> Nat]]
        /\ \A q \in Rules : q # r => rules'[q] = rules[q] /\ \A v \in Verbs : waiting'[v][q] = waiting[v][q]
        /\ method = "exec" => rules'[r] = rules[r] + 1
        /\ rules[r] <= rules'[r]
        /\ Standing(r)' = Standing(r) + 1 /\ InVain(r)' = InVain(r)
    BY <1>1, <1>5, <1>7, Accepts DEF Verbs
  <2>2. \A q \in Rules : q # r => Standing(q)' = Standing(q) /\ InVain(q)' = InVain(q)
    BY <1>5, <2>1 DEF Standing, InVain, Verbs
  <2>3. /\ \A q \in Rules : Standing(q) \in Nat /\ InVain(q) \in Nat /\ rules[q] \in Nat
        /\ rules'[r] \in Nat
    BY <1>1, <2>1, CountTypes
  <2>4. Rises(r)
    BY <2>1, <2>3 DEF Rises
  <2>5. \A q \in Rules : q # r => Ebbs(q)
    BY <2>2, <2>3 DEF Ebbs
  <2>6. QED
    BY <2>1, <2>3, <2>4, <2>5
<1>8. ASSUME UNCHANGED <<rules, waiting>>, NEW q \in Rules PROVE Ebbs(q) /\ rules[q] <= rules'[q]
  BY <1>1, <1>5, <1>8, Still, CountTypes
<1>9. pc' = "rollback" => errs' >= 1 \/ Standing(Cmds(round)[1])' = 0
  <2>1. SUFFICES ASSUME pc' = "rollback", errs' = errs PROVE Standing(Cmds(round)[1])' = 0
    BY <1>1, <1>5
  <2>2. ~reply /\ at = 2 /\ desc' = desc /\ Len(Cmds(round)) = 2
    BY <1>1, <1>2, <1>3, <2>1
  <2>3. PICK q \in Rules : q = Cmds(round)[1] /\ q[1] = r[1]
    BY <1>3, <1>4, <2>2
  <2>4. r[2] # "netem" /\ ~Accepted("add", r)
    BY <1>3, <1>4, <1>5, <2>1, <2>2
  <2>5. ~up[r[1]]
    BY <2>4 DEF Accepted, Granted
  <2>6. rules[q] = 0 /\ waiting["add"][q] = 0 /\ UNCHANGED <<rules, waiting>>
    BY <1>5, <2>3, <2>4, <2>5 DEF PodInv, GoneInv, Verbs
  <2>7. Standing(q)' = 0
    BY <2>6 DEF Standing
  <2>8. Standing(Cmds(round)[1])' = Standing(q)'
    BY <1>1, <2>2, <2>3 DEF Cmds, Standing
  <2>9. QED
    BY <2>7, <2>8
<1>10. ASSUME NEW q \in Rules
       PROVE  /\ Flight(q) = {f \in {round} : \E i \in 1..2 : At(round, i, q) /\ i < at}
              /\ desc' = desc => Flight(q)' = IF pc' = "sleep" THEN {}
                                              ELSE {f \in {round} : \E i \in 1..2 : At(round, i, q)
                                                                         /\ (pc' = "track" \/ i < at')}
              /\ Flight(q)' \subseteq {round}
              /\ pc' = "sleep" => Flight(q)' = {}
  <2>1. InFlight' = IF pc' = "sleep" THEN {} ELSE {round}
    BY <1>1, <1>2 DEF InFlight
  <2>2. Flight(q) = {f \in {round} : \E i \in 1..2 : At(round, i, q) /\ i < at}
    BY <1>1 DEF Flight
  <2>3. Flight(q)' = {f \in InFlight' : \E i \in 1..2 : At(f, i, q)' /\ (pc' = "track" \/ i < at')}
    BY DEF Flight
  <2>4. ASSUME desc' = desc, NEW i \in 1..2 PROVE At(round, i, q)' <=> At(round, i, q)
    BY <1>1, <2>4 DEF At, Cmds
  <2>5. QED
    BY <1>1, <2>1, <2>2, <2>3, <2>4
<1>11. ASSUME NEW q \in Rules PROVE UpperMove(q) /\ LowerMove(q)
  <2>1. CASE reply /\ q = r
    <3>1. round \notin Flight(q)
      <4>1. ASSUME NEW i \in 1..2, At(round, i, q), i < at PROVE FALSE
        <5>1. i = 1 /\ at = 2 /\ Len(Cmds(round)) = 2
          BY <1>3, <4>1
        <5>2. QED
          BY <1>3, <1>4, <2>1, <4>1, <5>1 DEF At
      <4>2. QED
        BY <1>10, <4>1
    <3>2. Flight(q)' = {round}
      <4>1. PICK i \in 1..2 : i = at
        BY <1>3
      <4>2. At(round, i, q) /\ (pc' = "track" \/ i < at') /\ desc' = desc /\ pc' # "sleep"
        BY <1>1, <1>2, <1>3, <1>4, <2>1, <4>1 DEF At
      <4>3. QED
        BY <1>10, <4>2
    <3>3. Rises(q) /\ (method = "exec" => rules[q] + 1 <= rules'[q])
      BY <1>5, <1>7, <2>1
    <3>4. QED
      BY <1>10, <3>1, <3>2, <3>3 DEF UpperMove, LowerMove
  <2>2. CASE reply /\ q # r
    <3>1. Ebbs(q) /\ rules'[q] = rules[q]
      BY <1>5, <1>7, <2>2
    <3>2. desc' = desc /\ pc' # "sleep" /\ (pc' = "track" \/ at' = at + 1)
          /\ (pc' = "track" => at = Len(Cmds(round)))
      BY <1>1, <1>2, <2>2
    <3>3. \A i \in 1..2 : At(round, i, q) => (pc' = "track" \/ i < at' <=> i < at)
      <4>1. ASSUME NEW i \in 1..2, At(round, i, q) PROVE pc' = "track" \/ i < at' <=> i < at
        <5>1. i # at /\ i \in 1..Len(Cmds(round))
          BY <1>4, <2>2, <4>1 DEF At
        <5>2. QED
          BY <1>3, <3>2, <5>1
      <4>2. QED
        BY <4>1
    <3>4. Flight(q)' = Flight(q)
      BY <1>10, <3>2, <3>3
    <3>5. rules[q] <= rules'[q]
      BY <1>1, <3>1, CountTypes
    <3>6. QED
      BY <3>1, <3>4, <3>5 DEF UpperMove, LowerMove
  <2>3. CASE ~reply
    <3>1. Flight(q)' = Flight(q)
      <4>1. CASE pc' = "rollback"
        BY <1>2, <1>10, <2>3, <4>1
      <4>2. CASE pc' = "sleep"
        <5>1. at = 1
          BY <1>1, <1>2, <2>3, <4>2
        <5>2. Flight(q) = {}
          BY <1>10, <5>1
        <5>3. QED
          BY <1>10, <4>2, <5>2
      <4>3. QED
        BY <1>2, <2>3, <4>1, <4>2
    <3>2. rules[q] <= rules'[q]
      <4>1. CASE UNCHANGED <<rules, waiting>>
        BY <1>8, <4>1
      <4>2. CASE Accepted("add", r) /\ Accept("add", r)
        <5>1. q = r => rules[q] <= rules'[q]
          BY <1>7, <4>2
        <5>2. q # r => rules[q] <= rules'[q]
          BY <1>1, <1>7, <4>2, CountTypes
        <5>3. QED
          BY <5>1, <5>2
      <4>3. QED
        BY <1>5, <4>1, <4>2
    <3>3. Ebbs(q) \/ ~Tolerated'
      BY <1>6, <1>8, <2>3
    <3>4. QED
      BY <3>1, <3>2, <3>3 DEF UpperMove, LowerMove
  <2>4. QED
    BY <2>1, <2>2, <2>3
<1>12. QED
  BY <1>9, <1>10, <1>11

\* The roll-back removes the rule with the fault, or it is not there, or it is
\* the second error.
LEMMA RollBackMoves ==
  ASSUME IInv, RoundInv, RunInv, PodInv, BereftInv, StandInv, Accounted, RollBack
  PROVE  \A q \in Rules : /\ Flight(q)' \subseteq {round}
                          /\ UpperMove(q) /\ LowerMove(q)
<1>1. /\ pc = "rollback" /\ pc' = "sleep" /\ at = 2 /\ Len(Cmds(round)) = 2
      /\ PodsTypeOK /\ InFlight = {round} /\ InFlight' = {} /\ errs \in Nat
      /\ Cmds(round)[1] \in Rules /\ Cmds(round)[1][1] = desc[round].pod
      /\ UNCHANGED <<trackerVars, revertVars, bereft>>
  <2>1. pc = "rollback" /\ pc' = "sleep" /\ PodsTypeOK /\ errs \in Nat
        /\ UNCHANGED <<trackerVars, revertVars, bereft>>
    BY MaxErrsAssumption DEF RollBack, RunInv, TypeOK, PodsTypeOK
  <2>2. at = 2 /\ Len(Cmds(round)) = 2 /\ Cmds(round)[1] \in Rules
        /\ Cmds(round)[1][1] = desc[round].pod
    BY <2>1, RoundCommands
  <2>3. QED
    BY <2>1, <2>2 DEF InFlight
<1>2. PICK r \in Rules : r = Cmds(round)[1] /\ r[1] = desc[round].pod
  BY <1>1
<1>3. PICK reply \in BOOLEAN : Exec("del", r, reply)
  BY <1>1, <1>2 DEF RollBack, Cmds
<1>4. /\ UNCHANGED <<method, up, vain>>
      /\ UNCHANGED <<rules, waiting>> \/ (Accepted("del", r) /\ Accept("del", r))
      /\ errs' = errs \/ errs' = errs + 1
      /\ errs' = errs => reply = Accepted("del", r)
      /\ reply => Accepted("del", r) /\ Accept("del", r)
  BY <1>1, <1>3, ExecEffect DEF Verbs
<1>5. ASSUME NEW q \in Rules
      PROVE  /\ rules'[q] \in Nat /\ rules[q] <= rules'[q] + 1
             /\ q # r => rules'[q] = rules[q]
             /\ Ebbs(q)
             /\ q = r /\ Accepted("del", r) /\ Accept("del", r) => Falls(q)
  BY <1>1, <1>4, Deletion
<1>6. Standing(r)' = 0 \/ Falls(r) \/ ~Tolerated'
  <2>1. SUFFICES ASSUME ~reply, Tolerated', UNCHANGED <<rules, waiting>> PROVE Standing(r)' = 0
    BY <1>4, <1>5
  <2>2. Standing(r)' = Standing(r)
    BY <2>1 DEF Standing
  <2>3. Tolerated
    BY <1>1, <1>4, <2>1 DEF Tolerated
  <2>4. errs >= 1 \/ Standing(r) = 0
    BY <1>1, <1>2, <2>3 DEF StandInv, UpperInv
  <2>5. ASSUME errs >= 1 PROVE Standing(r) = 0
    <3>1. errs' = errs
      BY <1>1, <1>4, <2>1, <2>5 DEF Tolerated
    <3>2. ~Accepted("del", r)
      BY <1>4, <2>1, <3>1
    <3>3. CASE up[r[1]]
      <4>1. method = "exec" /\ ~(rules[r] > 0)
        BY <3>2, <3>3 DEF Accepted, Granted
      <4>2. rules[r] \in Nat /\ "add" \in Verbs
        BY <1>1 DEF PodsTypeOK, Verbs
      <4>3. rules[r] = 0 /\ waiting["add"][r] = 0
        BY <4>1, <4>2 DEF PodInv, ExecInv
      <4>4. QED
        BY <4>3 DEF Standing
    <3>4. CASE ~up[r[1]]
      BY <3>4 DEF PodInv, GoneInv, Standing, Verbs
    <3>5. QED
      BY <3>3, <3>4
  <2>6. QED
    BY <2>2, <2>4, <2>5
<1>7. \A q \in Rules : Flight(q)' = {} /\ (Flight(q) = IF q = r THEN {round} ELSE {})
  <2>1. ASSUME NEW q \in Rules PROVE Flight(q)' = {}
    BY <1>1 DEF Flight
  <2>2. ASSUME NEW q \in Rules PROVE Flight(q) = IF q = r THEN {round} ELSE {}
    <3>1. \A i \in 1..2 : At(round, i, q) /\ i < at <=> i = 1 /\ q = r
      BY <1>1, <1>2 DEF At
    <3>2. Flight(q) = {f \in {round} : \E i \in 1..2 : At(round, i, q) /\ i < at}
      BY <1>1 DEF Flight
    <3>3. 1 \in 1..2
      OBVIOUS
    <3>4. QED
      BY <3>1, <3>2, <3>3
  <2>3. QED
    BY <2>1, <2>2
\* If the pod has gone meanwhile, it has gone for all that had the rule on it.
<1>8. round \in bereft => Facing(r)' \subseteq bereft'
  <2>1. SUFFICES ASSUME round \in bereft PROVE Facing(r) \subseteq bereft
    <3>1. \A f \in tracked : desc'[f] = desc[f]
      BY MainFrame DEF MainStep
    <3>2. Facing(r)' = Facing(r)
      BY <1>1, <3>1, MainKeeps
    <3>3. QED
      BY <1>1, <3>2
  <2>2. ASSUME NEW f \in Facing(r) PROVE f \in bereft
    <3>1. PICK i \in 1..2 : f \in tracked /\ At(f, i, r)
      BY DEF Facing
    <3>2. Proper(desc[f])
      BY <3>1 DEF RunInv, TrackedInv
    <3>3. desc[f].pod = desc[round].pod
      BY <1>2, <3>1, <3>2, PodOf
    <3>4. QED
      BY <1>1, <2>1, <3>1, <3>3 DEF BereftInv, OldInv
  <2>3. QED
    BY <2>2
<1>9. ASSUME NEW q \in Rules PROVE UpperMove(q) /\ LowerMove(q)
  <2>1. CASE q = r
    <3>1. Flight(q) = {round} /\ Flight(q)' = {}
      BY <1>7, <2>1
    <3>2. CASE round \in bereft
      <4>1. (Facing(q) \cup Flight(q))' \subseteq bereft'
        BY <1>8, <2>1, <3>1, <3>2
      <4>2. QED
        BY <1>6, <2>1, <3>1, <4>1 DEF UpperMove, LowerMove
    <3>3. CASE round \notin bereft
      BY <1>5, <1>6, <2>1, <3>1, <3>3 DEF UpperMove, LowerMove
    <3>4. QED
      BY <3>2, <3>3
  <2>2. CASE q # r
    <3>1. rules'[q] = rules[q] /\ rules'[q] \in Nat /\ Flight(q) = {} /\ Flight(q)' = {} /\ Ebbs(q)
      BY <1>5, <1>7, <2>2
    <3>2. QED
      BY <3>1 DEF UpperMove, LowerMove
  <2>3. QED
    BY <2>1, <2>2
<1>10. QED
  BY <1>7, <1>9

\* The other steps before a fault is tracked add and remove no rule, except
\* with a pod and all its rules, and what is drawn has not been injected.
LEMMA QuietMoves ==
  ASSUME IInv, RoundInv, RunInv, StandInv, MainStep, pc # "track", ~InjectCommand, ~RollBack
  PROVE  /\ pc' # "rollback"
         /\ \A q \in Rules : /\ Flight(q)' = {} /\ Flight(q) = {}
                             /\ UpperMove(q) /\ LowerMove(q)
<1>0. PodsTypeOK
  BY DEF RunInv, TypeOK
<1>1. /\ pc' # "rollback"
      /\ UNCHANGED <<method, rules, waiting, vain>> \/ InjectDeletion
      /\ InFlight = {} \/ (pc = "inject" /\ InFlight = {round} /\ desc[round].kind \notin NetworkKinds)
      /\ \/ InFlight' = {} \/ (DrawFault /\ pc' = "inject" /\ at' = 1)
         \/ (InjectStress /\ InFlight' = {round} /\ desc' = desc)
  BY DEF MainStep, NextRound, LeaveLoop, AfterLoop, DrawFault, SkipRound, DiscoverFails, InjectStress,
         InjectDeletion, TrackFault, DropFault, CountActive, DrainOver, Finish, Exit, InFlight, NetworkKinds,
         podVars
<1>2. ASSUME NEW q \in Rules PROVE Flight(q) = {} /\ Flight(q)' = {}
  <2>1. Flight(q) = {}
    <3>1. CASE InFlight = {}
      BY <3>1 DEF Flight
    <3>2. CASE pc = "inject" /\ InFlight = {round} /\ desc[round].kind \notin NetworkKinds
      <4>1. Len(Cmds(round)) = 0
        BY <3>2, RoundCommands
      <4>2. QED
        BY <3>2, <4>1 DEF Flight, At
    <3>3. QED
      BY <1>1, <3>1, <3>2
  <2>2. Flight(q)' = {}
    <3>1. CASE InFlight' = {}
      BY <3>1 DEF Flight
    <3>2. CASE DrawFault /\ pc' = "inject" /\ at' = 1
      <4>1. ~\E i \in 1..2 : i < at'
        BY <3>2
      <4>2. QED
        BY <3>2, <4>1 DEF Flight
    <3>3. CASE InjectStress /\ InFlight' = {round} /\ desc' = desc
      <4>1. Len(Cmds(round)) = 0
        BY <3>3, RoundCommands DEF InjectStress, NetworkKinds
      <4>2. \A f \in {round}, i \in 1..2 : ~At(f, i, q)'
        BY <3>3, <4>1 DEF At, Cmds
      <4>3. QED
        BY <3>3, <4>2 DEF Flight
    <3>4. QED
      BY <1>1, <3>1, <3>2, <3>3
  <2>3. QED
    BY <2>1, <2>2
<1>3. ASSUME NEW q \in Rules PROVE UpperMove(q) /\ LowerMove(q)
  <2>1. CASE UNCHANGED <<method, rules, waiting, vain>>
    <3>1. Ebbs(q) /\ rules[q] <= rules'[q]
      BY <1>0, <2>1, Still, CountTypes
    <3>2. QED
      BY <1>2, <3>1 DEF UpperMove, LowerMove
  <2>2. CASE LosePod(desc[round].pod) /\ InjectDeletion
    <3>1. /\ q[1] = desc[round].pod => Standing(q)' = 0
          /\ q[1] # desc[round].pod => Ebbs(q) /\ rules'[q] = rules[q]
      BY <2>2, PodLost
    <3>2. CASE q[1] # desc[round].pod
      <4>1. rules[q] <= rules'[q]
        BY <1>0, <3>1, <3>2, CountTypes
      <4>2. QED
        BY <1>2, <3>1, <3>2, <4>1 DEF UpperMove, LowerMove
    <3>3. CASE q[1] = desc[round].pod
      <4>1. Facing(q)' = Facing(q)
        BY <2>2, MainFrame, MainKeeps DEF InjectDeletion
      <4>2. ASSUME NEW f \in Facing(q) PROVE f \in bereft'
        <5>1. PICK i \in 1..2 : f \in tracked /\ At(f, i, q)
          BY DEF Facing
        <5>2. Proper(desc[f]) /\ f \in Faults
          BY <5>1 DEF RunInv, TrackedInv, IInv, TrackerTypes
        <5>3. QED
          BY <2>2, <3>3, <5>1, <5>2, PodOf, LostPod
      <4>3. (Facing(q) \cup Flight(q))' \subseteq bereft'
        BY <1>2, <4>1, <4>2
      <4>4. QED
        BY <3>1, <3>3, <4>3 DEF UpperMove, LowerMove
    <3>4. QED
      BY <3>2, <3>3
  <2>3. QED
    BY <1>1, <2>1, <2>2 DEF InjectDeletion, podVars
<1>4. QED
  BY <1>1, <1>2, <1>3

LEMMA TrackStands ==
  ASSUME IInv, IInv', RoundInv, RoundInv', RunInv, RunInv', StandInv, TrackFault PROVE StandInv'
<1>1. /\ round \in Faults /\ round \notin tracked /\ tracked' = tracked \cup {round}
      /\ InFlight = {round} /\ InFlight' = {} /\ pc = "track" /\ pc' = "sleep"
      /\ UNCHANGED <<settled, call, podVars, command, round, desc, revertVars, bereft>>
      /\ timer' = [timer EXCEPT ![round] = IF Timed(round) THEN "armed" ELSE "none"]
      /\ tracked \subseteq Faults /\ settled \subseteq tracked /\ timer \in [Faults -> TimerState]
  BY DEF TrackFault, Track, RoundInv, RunInv, TrackedInv, InFlight, IInv, TrackerTypes, OnlyTracked
<1>2. \A t \in Reverters : step[t][round] = 1
  BY <1>1 DEF RunInv, StepInv, TypeOK
<1>3. \A f \in Faults, i \in 1..2, q \in Rules : At(f, i, q)' <=> At(f, i, q)
  BY <1>1 DEF At, Cmds
<1>4. \A f \in tracked : timer'[f] = timer[f]
  BY <1>1
<1>5. ASSUME NEW q \in Rules
      PROVE  (Owing(q) \cup Flight(q))' = Owing(q) \cup Flight(q)
  <2>1. Flight(q) = {f \in {round} : \E i \in 1..2 : At(f, i, q)} /\ Flight(q)' = {}
    BY <1>1 DEF Flight
  <2>2. Owing(q)' = Owing(q) \cup {f \in {round} : \E i \in 1..2 : At(f, i, q)}
    <3>1. \A i \in 1..2, t \in Reverters : ~Past(t, round, i)
      BY <1>2 DEF Past
    <3>2. \A f \in tracked', i \in 1..2, t \in Reverters : Past(t, f, i)' <=> Past(t, f, i)
      BY <1>1 DEF Past, revertVars
    <3>3. Owing(q)' = {f \in tracked' \ settled :
                         \E i \in 1..2 : At(f, i, q) /\ \A t \in Reverters : ~Past(t, f, i)}
      BY <1>1, <1>3, <3>2 DEF Owing
    <3>4. tracked' \ settled = (tracked \ settled) \cup {round}
      BY <1>1
    <3>5. QED
      BY <3>1, <3>3, <3>4 DEF Owing
  <2>3. QED
    BY <2>1, <2>2
<1>6. ASSUME NEW q \in Rules
      PROVE  Firm(q)' \subseteq Firm(q) /\ Spent(q) \subseteq Spent(q)'
  <2>1. Flight(q) = {f \in {round} : \E i \in 1..2 : At(f, i, q)} /\ Flight(q)' = {}
    BY <1>1 DEF Flight
  <2>2. \A f \in tracked, i \in 1..2 : ToCome(f, i)' <=> ToCome(f, i)
    BY <1>1, <1>4 DEF ToCome, revertVars
  <2>3. ASSUME NEW f \in Facing(q)' PROVE f \in Facing(q) \cup Flight(q)
    <3>1. PICK i \in 1..2 : At(f, i, q)' /\ ToCome(f, i)' /\ f \in tracked'
      BY <1>1 DEF Facing
    <3>2. At(f, i, q) /\ (f = round \/ (f \in tracked /\ ToCome(f, i)))
      BY <1>1, <1>3, <2>2, <3>1
    <3>3. QED
      BY <2>1, <3>2 DEF Facing
  <2>4. Spent(q) \subseteq Spent(q)'
    BY <1>1, <1>3, <2>2 DEF Spent
  <2>5. QED
    BY <1>1, <2>1, <2>3, <2>4 DEF Firm
<1>7. SettledInv'
  BY <1>1, <1>4 DEF StandInv, SettledInv, revertVars
<1>8. UNCHANGED <<method, rules, waiting, vain, errs>>
  BY <1>1 DEF podVars
<1>9. UpperInv'
  <2>1. \A q \in Rules : Standing(q)' = Standing(q) /\ InVain(q)' = InVain(q)
    BY <1>8, Still
  <2>2. QED
    BY <1>1, <1>5, <1>8, <2>1 DEF StandInv, UpperInv, Accounted, Alive, Tolerated
<1>10. LowerInv'
  <2>1. Undrained' => Undrained
    BY <1>1, <1>8 DEF Undrained
  <2>2. \A q \in Rules : rules[q] <= rules'[q]
    BY <1>8, CountTypes DEF RunInv, TypeOK
  <2>3. QED
    BY <1>6, <2>1, <2>2, LowerKept DEF StandInv
<1>11. QED
  BY <1>7, <1>9, <1>10 DEF StandInv

LEMMA MainStands ==
  ASSUME IInv, IInv', RoundInv, RoundInv', RunInv, RunInv', PodInv, BereftInv, StandInv, MainStep
  PROVE  StandInv'
<1>1. CASE TrackFault
  BY <1>1, TrackStands
<1>2. ASSUME ~TrackFault, ~Accounted \/ DropFault PROVE StandInv'
  \* explore does not account for what it injects, and run and diverge track it.
  <2>1. ~Accounted' /\ ~Undrained'
    <3>1. command \in Commands /\ command' = command /\ pc # "exited"
      BY MainFrame DEF RunInv, TypeOK
    <3>2. command \notin {"run", "diverge"}
      BY <1>2, <3>1 DEF Accounted, Alive, DropFault, Tracked
    <3>3. QED
      BY <3>1, <3>2 DEF Accounted, Undrained
  <2>2. UNCHANGED <<trackerVars, revertVars>>
    <3>1. pc # "track" => UNCHANGED <<trackerVars, revertVars>>
      BY MainFrame
    <3>2. pc = "track" => DropFault
      BY <1>2 DEF MainStep, NextRound, LeaveLoop, DrawFault, SkipRound, DiscoverFails, InjectCommand,
                  RollBack, InjectStress, InjectDeletion, CountActive, DrainOver, Finish
    <3>3. QED
      BY <3>1, <3>2 DEF DropFault
  <2>3. SettledInv'
    BY <2>2 DEF StandInv, SettledInv, trackerVars, revertVars
  <2>4. QED
    BY <2>1, <2>3 DEF StandInv, UpperInv, LowerInv
<1>3. ASSUME Accounted, ~TrackFault, ~DropFault PROVE StandInv'
  <2>1. pc # "track"
    BY <1>3 DEF MainStep, NextRound, LeaveLoop, DrawFault, SkipRound, DiscoverFails, InjectCommand, RollBack,
                InjectStress, InjectDeletion, CountActive, DrainOver, Finish
  <2>2. /\ UNCHANGED <<command, call, settled, trackerVars, revertVars, method>> /\ pc # "exited"
        /\ pc \in {"discover", "inject", "rollback"} => round \in Faults /\ round \notin tracked
    BY <2>1, MainFrame
  <2>3. /\ pc' = "rollback" => errs' >= 1 \/ Standing(Cmds(round)[1])' = 0
        /\ \A q \in Rules : /\ Flight(q)' \subseteq Faults
                            /\ Flight(q) # Flight(q)' => round \in Faults /\ round \notin tracked
                            /\ UpperMove(q) /\ LowerMove(q)
    <3>1. CASE InjectCommand
      <4>1. round \in Faults /\ round \notin tracked
        BY <2>2, <3>1 DEF InjectCommand
      <4>2. QED
        BY <3>1, <4>1, InjectMoves
    <3>2. CASE RollBack
      <4>1. round \in Faults /\ round \notin tracked /\ pc' # "rollback"
        BY <2>2, <3>2 DEF RollBack
      <4>2. QED
        BY <1>3, <3>2, <4>1, RollBackMoves
    <3>3. CASE ~InjectCommand /\ ~RollBack
      BY <2>1, <3>3, QuietMoves
    <3>4. QED
      BY <3>1, <3>2, <3>3
  <2>4. ASSUME NEW q \in Rules
        PROVE  /\ Accounted /\ Tolerated' =>
                    Standing(q)' <= Cardinality((Owing(q) \cup Flight(q))') + InVain(q)'
               /\ Undrained => Cardinality(Firm(q)') <= rules'[q] + Cardinality(Spent(q)')
    BY <2>2, <2>3, FlightKept DEF StandInv
  <2>5. Undrained' = Undrained
    BY <2>2 DEF Undrained
  <2>6. SettledInv'
    BY <2>2 DEF StandInv, SettledInv, trackerVars, revertVars
  <2>7. UpperInv'
    BY <1>3, <2>3, <2>4 DEF UpperInv
  <2>8. LowerInv'
    BY <2>4, <2>5 DEF LowerInv
  <2>9. QED
    BY <2>6, <2>7, <2>8 DEF StandInv
<1>4. QED
  BY <1>1, <1>2, <1>3

\* What the cluster does by itself: a debug container turns into a rule or a
\* deletion, or into one in vain; a pod goes with all its rules.
LEMMA ClusterStands ==
  ASSUME IInv, IInv', RoundInv, RoundInv', RunInv, RunInv', PodInv, StandInv, ClusterStep
  PROVE  StandInv'
<1>0. UNCHANGED <<trackerVars, mainVars, revertVars>> /\ PodsTypeOK
  BY ClusterKeeps DEF RunInv, TypeOK
<1>1. /\ UNCHANGED <<step, failed, tracked, settled, call, timer, tried, desc, command>>
      /\ tracked \subseteq Faults
  BY <1>0 DEF trackerVars, revertVars, mainVars, IInv, TrackerTypes
<1>2. SettledInv'
  BY <1>1 DEF StandInv, SettledInv
<1>3. bereft' = bereft => \A q \in Rules : /\ Owing(q)' = Owing(q) /\ Flight(q)' = Flight(q)
                                           /\ Firm(q)' = Firm(q) /\ Spent(q)' = Spent(q)
  BY <1>0, <1>1, FaultsKept
<1>4. ASSUME NEW verb \in Verbs, NEW r \in Rules, ContainerStep(verb, r) PROVE StandInv'
  <2>1. /\ PodsTypeOK' /\ UNCHANGED <<method, up, errs>> /\ waiting[verb][r] > 0 /\ bereft' = bereft
        /\ \A q \in Rules :
             q # r => /\ rules'[q] = rules[q] /\ vain'[q] = vain[q]
                      /\ \A v \in Verbs : waiting'[v][q] = waiting[v][q]
        /\ Standing(r)' <= Standing(r)
        /\ verb = "del" => Standing(r)' + waiting["del"][r] + vain[r]
                            <= Standing(r) + waiting'["del"][r] + vain'[r]
        /\ verb = "add" => waiting'["del"][r] = waiting["del"][r] /\ vain' = vain
    BY <1>0, <1>4, ContainerEffect DEF ContainerStep
  <2>2. method # "exec" /\ "add" \in Verbs /\ "del" \in Verbs
    BY <2>1 DEF PodInv, ExecInv, Verbs
  <2>3. ASSUME NEW q \in Rules PROVE Ebbs(q)
    <3>1. /\ InVain(q) = waiting["del"][q] + vain[q] /\ InVain(q)' = waiting'["del"][q] + vain'[q]
          /\ Standing(q) = rules[q] + waiting["add"][q] /\ Standing(q)' = rules'[q] + waiting'["add"][q]
      BY <2>1, <2>2 DEF InVain, Standing
    <3>2. /\ Standing(q) \in Nat /\ Standing(q)' \in Nat
          /\ waiting["del"][q] \in Nat /\ vain[q] \in Nat
          /\ waiting'["del"][q] \in Nat /\ vain'[q] \in Nat
      BY <1>0, <2>1, <2>2, CountTypes DEF PodsTypeOK
    <3>3. CASE q # r
      BY <2>1, <2>2, <3>1, <3>2, <3>3 DEF Ebbs
    <3>4. CASE q = r /\ verb = "del"
      <4>1. /\ Standing(q)' <= Standing(q)
            /\ Standing(q)' + waiting["del"][q] + vain[q] <= Standing(q) + waiting'["del"][q] + vain'[q]
        BY <2>1, <3>4
      <4>2. Standing(q)' + InVain(q) <= Standing(q) + InVain(q)'
        BY <3>1, <3>2, <4>1
      <4>3. QED
        BY <4>1, <4>2 DEF Ebbs
    <3>5. CASE q = r /\ verb = "add"
      <4>1. Standing(q)' <= Standing(q) /\ InVain(q)' = InVain(q) /\ InVain(q) \in Nat
        BY <2>1, <3>1, <3>2, <3>5
      <4>2. QED
        BY <3>2, <4>1 DEF Ebbs
    <3>6. QED
      BY <3>3, <3>4, <3>5 DEF Verbs
  <2>4. errs <= errs'
    BY <1>0, <2>1, MaxErrsAssumption DEF PodsTypeOK
  <2>5. UpperInv'
    BY <1>0, <1>3, <2>1, <2>3, <2>4, UpperEbbs DEF StandInv
  <2>6. LowerInv'
    BY <2>1, <2>2 DEF LowerInv, Undrained
  <2>7. QED
    BY <1>2, <2>5, <2>6 DEF StandInv
<1>5. ASSUME NEW p \in Pods, PodGoes(p) PROVE StandInv'
  <2>1. LosePod(p) /\ bereft \subseteq bereft'
    BY <1>5, LostPod DEF PodGoes
  <2>2. /\ PodsTypeOK' /\ method' = method /\ errs <= errs'
        /\ \A q \in Rules : /\ q[1] = p => Standing(q)' = 0
                            /\ q[1] # p => Ebbs(q) /\ rules'[q] = rules[q]
    <3>1. errs \in Nat
      BY <1>0, MaxErrsAssumption DEF PodsTypeOK
    <3>2. RunInv' => PodsTypeOK'
      BY DEF RunInv, TypeOK
    <3>3. method' = method /\ errs' = errs
      BY <2>1, LostPod DEF DeletePod
    <3>4. QED
      BY <2>1, <3>1, <3>2, <3>3, PodLost
  <2>3. \A q \in Rules : Owing(q)' = Owing(q) /\ Flight(q)' = Flight(q) /\ Facing(q)' = Facing(q)
    BY <1>0, <1>1 DEF Owing, Past, Facing, ToCome, Flight, At, Cmds, InFlight, mainVars
  <2>4. UpperInv'
    BY <1>0, <2>2, <2>3, UpperEbbs DEF StandInv
  <2>5. ASSUME NEW q \in Rules
        PROVE  /\ Spent(q) \subseteq Spent(q)'
               /\ \/ Firm(q)' \subseteq Firm(q) /\ rules[q] <= rules'[q]
                  \/ Firm(q)' = {}
    <3>1. Spent(q) \subseteq Spent(q)'
      BY <1>1, <2>1 DEF Spent, ToCome, At, Cmds
    <3>2. CASE q[1] # p
      <4>1. Firm(q)' \subseteq Firm(q)
        BY <2>1, <2>3 DEF Firm
      <4>2. rules[q] <= rules'[q]
        BY <1>0, <2>2, <3>2, CountTypes
      <4>3. QED
        BY <3>1, <4>1, <4>2
    <3>3. CASE q[1] = p
      <4>1. ASSUME NEW f \in Facing(q) \cup Flight(q) PROVE f \in bereft'
        <5>1. PICK i \in 1..2 : At(f, i, q)
          BY DEF Facing, Flight
        <5>2. f \in Faults /\ Proper(desc[f])
          <6>1. CASE f \in tracked
            BY <1>1, <6>1 DEF RunInv, TrackedInv
          <6>2. CASE f \in InFlight
            BY <6>2, StandingTypes DEF InFlight, RunInv, AtInv
          <6>3. QED
            BY <6>1, <6>2 DEF Facing, Flight
        <5>3. desc[f].pod = p /\ desc[f] # NoFault
          BY <3>3, <5>1, <5>2, PodOf
        <5>4. QED
          BY <2>1, <5>2, <5>3, LostPod
      <4>2. Firm(q)' = {}
        BY <2>3, <4>1 DEF Firm
      <4>3. QED
        BY <3>1, <4>2
    <3>4. QED
      BY <3>2, <3>3
  <2>6. Undrained' => Undrained
    BY <1>1, <2>2 DEF Undrained
  <2>7. LowerInv'
    BY <2>5, <2>6, LowerKept DEF StandInv
  <2>8. QED
    BY <1>2, <2>4, <2>7 DEF StandInv
<1>6. ASSUME NEW p \in Pods, PodComesBack(p) PROVE StandInv'
  <2>1. UNCHANGED <<method, rules, waiting, vain, errs, bereft>>
    BY <1>6 DEF PodComesBack, PodReturns
  <2>2. PodsTypeOK' /\ errs <= errs'
    BY <1>0, <2>1, MaxErrsAssumption DEF PodsTypeOK, RunInv, TypeOK
  <2>3. UpperInv'
    BY <1>0, <1>3, <2>1, <2>2, Still, UpperEbbs DEF StandInv
  <2>4. LowerInv'
    BY <1>1, <1>3, <2>1 DEF StandInv, LowerInv, Undrained
  <2>5. QED
    BY <1>2, <2>3, <2>4 DEF StandInv
<1>7. QED
  BY <1>4, <1>5, <1>6 DEF ClusterStep

LEMMA StandStep ==
  ASSUME IInv, IInv', RoundInv, RoundInv', RunInv, RunInv', PodInv, BereftInv, DrainInv, StandInv,
         [Next]_vars
  PROVE  StandInv'
<1>0. tracked \subseteq Faults /\ PodsTypeOK
  BY DEF IInv, TrackerTypes, RunInv, TypeOK
<1>1. CASE MainStep
  BY <1>1, MainStands
<1>2. CASE Sigint \/ SigintExit \/ UNCHANGED vars
  <2>1. /\ UNCHANGED <<trackerVars, podVars, command, round, at, desc, revertVars, bereft>>
        /\ UNCHANGED pc \/ (pc' = "exited" /\ command # "run")
    BY <1>2 DEF Sigint, SigintExit, Exit, vars, mainVars
  <2>2. /\ UNCHANGED <<method, rules, waiting, vain, errs>>
        /\ UNCHANGED <<step, failed, tried, tracked, settled, timer, call>>
    BY <2>1 DEF trackerVars, podVars, revertVars
  <2>3. SettledInv'
    BY <2>2 DEF StandInv, SettledInv
  <2>4. CASE UNCHANGED pc
    <3>1. \A q \in Rules : /\ Owing(q)' = Owing(q) /\ Flight(q)' = Flight(q)
                           /\ Firm(q)' = Firm(q) /\ Spent(q)' = Spent(q)
      <4>1. ASSUME NEW q \in Rules
            PROVE  /\ Owing(q)' = Owing(q) /\ Flight(q)' = Flight(q)
                   /\ Facing(q)' = Facing(q) /\ Spent(q)' = Spent(q)
        BY <2>1, <2>2, <2>4 DEF Owing, Past, Facing, Spent, ToCome, Flight, At, Cmds, InFlight
      <4>2. QED
        BY <2>1, <4>1 DEF Firm
    <3>2. \A q \in Rules : Standing(q)' = Standing(q) /\ InVain(q)' = InVain(q)
      BY <2>2, Still
    <3>3. UpperInv'
      BY <2>1, <2>2, <2>4, <3>1, <3>2 DEF StandInv, UpperInv, Accounted, Alive, Tolerated, Cmds, Standing
    <3>4. LowerInv'
      BY <2>1, <2>2, <3>1 DEF StandInv, LowerInv, Undrained
    <3>5. QED
      BY <2>3, <3>3, <3>4 DEF StandInv
  <2>5. CASE pc' = "exited" /\ command # "run"
    BY <2>1, <2>3, <2>5 DEF StandInv, UpperInv, LowerInv, Accounted, Alive, Undrained
  <2>6. QED
    BY <2>1, <2>4, <2>5
<1>3. CASE \E c \in Calls : DrainStep(c)
  BY <1>3, CallStands
<1>4. CASE \E f \in Faults : RevertStep(f)
  BY <1>4, RevertStands
<1>5. CASE ClusterStep
  BY <1>5, ClusterStands
<1>6. QED
  BY <1>1, <1>2, <1>3, <1>4, <1>5 DEF Next

LEMMA InitStands == Init => StandInv
<1> SUFFICES ASSUME Init PROVE StandInv
  OBVIOUS
<1>1. /\ rules = [r \in Rules |-> 0] /\ waiting = [v \in Verbs |-> [r \in Rules |-> 0]]
      /\ vain = [r \in Rules |-> 0] /\ pc = "sleep" /\ tracked = {} /\ settled = {}
  BY DEF Init, PodsInit, TrackerInit
<1>2. \A r \in Rules : rules[r] = 0 /\ Standing(r) = 0 /\ InVain(r) = 0
  BY <1>1 DEF Standing, InVain, Verbs
<1>3. \A r \in Rules : Owing(r) \cup Flight(r) = {} /\ Firm(r) = {} /\ Spent(r) = {}
  BY <1>1 DEF Owing, Facing, Flight, InFlight, Firm, Spent
<1>4. \A r \in Rules : /\ Cardinality(Owing(r) \cup Flight(r)) = 0
                       /\ Cardinality(Firm(r)) = 0 /\ Cardinality(Spent(r)) = 0
  BY <1>3, FS_EmptySet
<1>5. SettledInv
  BY <1>1 DEF SettledInv
<1>6. ASSUME NEW r \in Rules
      PROVE  /\ Standing(r) <= Cardinality(Owing(r) \cup Flight(r)) + InVain(r)
             /\ Cardinality(Firm(r)) <= rules[r] + Cardinality(Spent(r))
  <2>1. 0 <= 0 + 0
    OBVIOUS
  <2>2. QED
    BY <1>2, <1>4, <2>1, Zenon
<1>7. UpperInv /\ LowerInv
  BY <1>1, <1>6, Zenon DEF UpperInv, LowerInv
<1>8. QED
  BY <1>5, <1>7 DEF StandInv

-----------------------------------------------------------------------------
\* What the bounds say of the faults that install a rule.
LEMMA UsersCount ==
  ASSUME NEW F \in SUBSET Faults, NEW r \in Rules
  PROVE  /\ {f \in F : r \in Range(RulesOf(desc[f]))} = {f \in F : \E i \in 1..Len(Cmds(f)) : At(f, i, r)}
         /\ \A S \in SUBSET Faults :
              /\ S \subseteq {f \in F : r \in Range(RulesOf(desc[f]))} => Cardinality(S) <= Users(F, r)
              /\ {f \in F : r \in Range(RulesOf(desc[f]))} \subseteq S => Users(F, r) <= Cardinality(S)
<1> DEFINE U == {f \in F : r \in Range(RulesOf(desc[f]))}
<1>1. U = {f \in F : \E i \in 1..Len(Cmds(f)) : At(f, i, r)}
  <2>1. ASSUME NEW f \in F PROVE DOMAIN RulesOf(desc[f]) = 1..Len(RulesOf(desc[f]))
    <3>1. CASE desc[f].kind = "latency"
      <4>1. RulesOf(desc[f]) = LatencyRules(desc[f])
        BY <3>1 DEF RulesOf
      <4>2. QED
        BY <4>1 DEF LatencyRules
    <3>2. CASE desc[f].kind = "partition"
      <4>1. RulesOf(desc[f]) = PartitionRules(desc[f])
        BY <3>2 DEF RulesOf
      <4>2. QED
        BY <4>1 DEF PartitionRules
    <3>3. CASE desc[f].kind = "dns"
      <4>1. RulesOf(desc[f]) = DnsRules(desc[f])
        BY <3>3 DEF RulesOf
      <4>2. QED
        BY <4>1 DEF DnsRules
    <3>4. CASE desc[f].kind \notin NetworkKinds
      <4>1. RulesOf(desc[f]) = <<>>
        BY <3>4 DEF RulesOf, NetworkKinds
      <4>2. QED
        BY <4>1
    <3>5. QED
      BY <3>1, <3>2, <3>3, <3>4 DEF NetworkKinds
  <2>2. ASSUME NEW f \in F
        PROVE  r \in Range(RulesOf(desc[f])) <=> \E i \in 1..Len(Cmds(f)) : At(f, i, r)
    BY <2>1 DEF Range, At, Cmds
  <2>3. QED
    BY <2>2
<1>2. U \in SUBSET Faults /\ Users(F, r) = Cardinality(U)
  BY DEF Users
<1>3. ASSUME NEW S \in SUBSET Faults
      PROVE  /\ S \subseteq U => Cardinality(S) <= Cardinality(U)
             /\ U \subseteq S => Cardinality(U) <= Cardinality(S)
  <2> HIDE DEF U
  <2>1. IsFiniteSet(S) /\ IsFiniteSet(U)
    BY <1>2, FaultsFinite
  <2>2. QED
    BY <2>1, FS_Subset
<1>4. QED
  BY <1>1, <1>2, <1>3

\* From above: what is not settled is what the tracker owes a revert, and the
\* fault being injected.
LEMMA UpperMeans ==
  ASSUME IInv, RoundInv, RunInv, StandInv, Tolerated PROVE NoOrphanRule /\ RevertedMeansGone
<1> SUFFICES ASSUME Accounted, NEW r \in Rules
             PROVE  /\ rules[r] <= Users(Owed \cup InFlight, r) + InVain(r)
                    /\ rules[r] <= Users((tracked \cup InFlight) \ settled, r) + InVain(r)
  BY DEF NoOrphanRule, RevertedMeansGone
<1> DEFINE S == Owing(r) \cup Flight(r)
           A == Owed \cup InFlight
           B == (tracked \cup InFlight) \ settled
<1>1. /\ tracked \subseteq Faults /\ settled \subseteq tracked /\ InFlight \subseteq Faults
      /\ InFlight \cap tracked = {} /\ rules[r] \in Nat /\ InVain(r) \in Nat /\ waiting["add"][r] \in Nat
      /\ Owed \subseteq tracked /\ tracked \subseteq Owed \cup settled
  BY StandingTypes DEF IInv, OnlyTracked, NoFaultForgotten, PodsTypeOK, Verbs
<1>2. S \in SUBSET Faults /\ A \in SUBSET Faults /\ B \in SUBSET Faults
  BY <1>1, StandingTypes
<1>3. \A f \in S : f \in A /\ f \in B /\ \E i \in 1..Len(Cmds(f)) : At(f, i, r)
  <2>1. ASSUME NEW f \in S PROVE \E i \in 1..2 : At(f, i, r)
    BY DEF Owing, Flight
  <2>2. ASSUME NEW f \in S PROVE \E i \in 1..Len(Cmds(f)) : At(f, i, r)
    BY <2>1 DEF At
  <2>3. \A f \in S : f \in tracked \ settled \/ f \in InFlight
    BY DEF Owing, Flight
  <2>4. QED
    BY <1>1, <2>2, <2>3
<1>4. Standing(r) <= Cardinality(S) + InVain(r) /\ Standing(r) = rules[r] + waiting["add"][r]
  BY DEF StandInv, UpperInv, Standing
<1>5. Cardinality(S) <= Users(A, r) /\ Cardinality(S) <= Users(B, r)
  <2> HIDE DEF S, A, B
  <2>1. ASSUME NEW F \in SUBSET Faults, \A f \in S : f \in F /\ \E i \in 1..Len(Cmds(f)) : At(f, i, r)
        PROVE  Cardinality(S) <= Users(F, r)
    <3>1. S \subseteq {f \in F : r \in Range(RulesOf(desc[f]))}
      BY <2>1, UsersCount
    <3>2. QED
      BY <1>2, <3>1, UsersCount
  <2>2. QED
    BY <1>2, <1>3, <2>1
<1>6. Users(A, r) \in Nat /\ Users(B, r) \in Nat /\ Cardinality(S) \in Nat
  BY <1>2, FaultsFinite DEF Users
<1> HIDE DEF S, A, B
<1>7. rules[r] <= Users(A, r) + InVain(r) /\ rules[r] <= Users(B, r) + InVain(r)
  BY <1>1, <1>4, <1>5, <1>6
<1>8. QED
  BY <1>7 DEF A, B

\* From below: before the drain of run, whatever nobody has begun to revert
\* must stand; after it, somebody has begun with everything.
LEMMA LowerMeans ==
  ASSUME IInv, RoundInv, RunInv, DrainInv, StandInv PROVE StaysInForce
<1> DEFINE Old == (tracked \cap bereft) \ Untouched
           New == Untouched \ bereft
<1> SUFFICES ASSUME command = "run", method = "exec", NEW r \in Rules
             PROVE  rules[r] + Users(Old, r) >= Users(New, r)
  BY DEF StaysInForce
<1>1. /\ tracked \subseteq Faults /\ rules[r] \in Nat /\ Untouched \subseteq tracked
      /\ Firm(r) \in SUBSET Faults /\ Spent(r) \in SUBSET Faults
      /\ Old \in SUBSET Faults /\ New \in SUBSET Faults
  BY StandingTypes DEF Untouched
<1>2. call["main"] \in {"idle", "claimed", "draining", "returned"}
  BY DEF IInv, TrackerTypes, CallState, DrainInv
<1>3. CASE call["main"] \in {"idle", "claimed"}
  <2>1. Cardinality(Firm(r)) <= rules[r] + Cardinality(Spent(r))
    BY <1>3 DEF StandInv, LowerInv, Undrained
  <2>2. \A f \in tracked : \A i \in 1..Len(Cmds(f)) : i \in 1..2 /\ 1 <= i
    <3>1. ASSUME NEW f \in tracked PROVE Len(Cmds(f)) \in 0..2
      <4>1. Proper(desc[f])
        BY DEF RunInv, TrackedInv
      <4>2. QED
        BY <4>1, CommandsOf DEF Cmds, NetworkKinds, Proper, FaultDesc, Kinds
    <3>2. ASSUME NEW f \in tracked, NEW i \in 1..Len(Cmds(f)) PROVE i \in 1..2 /\ 1 <= i
      <4>1. PICK n \in 0..2 : n = Len(Cmds(f))
        BY <3>1
      <4>2. i \in 1..n
        BY <4>1
      <4>3. QED
        BY <4>2
    <3>3. QED
      BY <3>2
  <2>3. {f \in New : r \in Range(RulesOf(desc[f]))} \subseteq Firm(r)
    <3>1. ASSUME NEW f \in New, NEW i \in 1..Len(Cmds(f)), At(f, i, r) PROVE f \in Firm(r)
      <4>1. f \in tracked /\ timer[f] = "armed" /\ step["timer"][f] = 1 /\ f \notin bereft
        BY DEF Untouched
      <4>2. QED
        BY <2>2, <3>1, <4>1 DEF Firm, Facing, ToCome
    <3>2. \A f \in New : r \in Range(RulesOf(desc[f])) => f \in Firm(r)
      BY <1>1, <3>1, UsersCount
    <3>3. QED
      BY <3>2
  <2>4. Spent(r) \subseteq {f \in Old : r \in Range(RulesOf(desc[f]))}
    <3>1. ASSUME NEW f \in Spent(r) PROVE f \in Old /\ \E i \in 1..Len(Cmds(f)) : At(f, i, r)
      <4>1. PICK i \in 1..2 : f \in tracked \cap bereft /\ At(f, i, r) /\ ~ToCome(f, i)
        BY DEF Spent
      <4>2. i \in 1..Len(Cmds(f)) /\ 1 <= i
        BY <4>1 DEF At
      <4>3. f \notin Untouched
        BY <4>1, <4>2 DEF ToCome, Untouched
      <4>4. QED
        BY <4>1, <4>2, <4>3
    <3>2. {f \in Old : r \in Range(RulesOf(desc[f]))} = {f \in Old : \E i \in 1..Len(Cmds(f)) : At(f, i, r)}
      <4> HIDE DEF Old
      <4>1. QED
        BY <1>1, UsersCount
    <3>3. QED
      BY <3>1, <3>2
  <2>5. Users(New, r) <= Cardinality(Firm(r)) /\ Cardinality(Spent(r)) <= Users(Old, r)
    <3> HIDE DEF Old, New
    <3>1. QED
      BY <1>1, <2>3, <2>4, UsersCount
  <2>6. /\ Users(New, r) \in Nat /\ Users(Old, r) \in Nat
        /\ Cardinality(Firm(r)) \in Nat /\ Cardinality(Spent(r)) \in Nat
    BY <1>1, FaultsFinite DEF Users
  <2> HIDE DEF Old, New
  <2>7. QED
    BY <1>1, <2>1, <2>5, <2>6
<1>4. CASE call["main"] \in {"draining", "returned"}
  <2>1. tracked \subseteq settled \cup tried \cup held
    BY <1>4 DEF DrainInv
  <2>2. New = {}
    BY <2>1 DEF Untouched, StandInv, SettledInv
  <2>3. Users(New, r) = 0
    <3>1. {f \in New : r \in Range(RulesOf(desc[f]))} = {}
      BY <2>2
    <3>2. QED
      BY <3>1, FS_EmptySet DEF Users
  <2>4. Users(Old, r) \in Nat
    BY <1>1, FaultsFinite DEF Users
  <2> HIDE DEF Old, New
  <2>5. QED
    BY <1>1, <2>3, <2>4
<1>5. QED
  BY <1>2, <1>3, <1>4

LEMMA AlwaysStands ==
  Spec => [](IInv /\ RoundInv /\ RunInv /\ PodInv /\ BereftInv /\ DrainInv /\ StandInv)
<1>1. Spec => []IInv
  BY UsesTracker, Invariance, PTL DEF ImplementsTracker
<1>2. Init => RoundInv /\ DrainInv
  BY DEF Init, TrackerInit, RoundInv, DrainInv, CleanedUp
<1>3. IInv /\ IInv' /\ RoundInv /\ RoundInv' /\ RunInv /\ [Next]_vars => RunInv'
  BY RunStep
<1>4. IInv /\ RoundInv /\ RunInv /\ PodInv /\ BereftInv /\ [Next]_vars => PodInv' /\ BereftInv'
  BY PodStep, BereftStep
<1>5. /\ IInv /\ IInv' /\ RoundInv /\ RoundInv' /\ RunInv /\ RunInv' /\ PodInv /\ BereftInv
      /\ DrainInv /\ StandInv /\ [Next]_vars
      => StandInv'
  BY StandStep
<1>6. QED
  BY <1>1, <1>2, <1>3, <1>4, <1>5, InitRun, InitPods, InitBereft, InitStands, RoundStep, DrainInvStep,
     PTL DEF Spec

\* Whatever the inject method, the pods that come and go, the rounds and the
\* order of injections, timed reverts, drain jobs, debug containers and SIGINT,
\* and if all the reverts fail: until a second command fails without cause, or
\* a reply is lost, every rule in a kernel belongs to a fault that the tracker
\* still owes a revert, but for one rule per deletion that kubectl debug has
\* reported Ok and that has deleted nothing, or not yet.
THEOREM NoOrphans == Spec => [](Tolerated => NoOrphanRule)
<1>1. IInv /\ RoundInv /\ RunInv /\ StandInv => (Tolerated => NoOrphanRule)
  BY UpperMeans
<1>2. QED
  BY <1>1, AlwaysStands, PTL

\* In run with the method "exec", however many commands fail, no revert ends
\* another fault than its own: as long as nobody has begun to revert it and its
\* pod is there, a fault's rules stand, but for one instance per fault on an
\* earlier pod of that name whose revert has begun.
THEOREM FaultsStay == Spec => []StaysInForce
<1>1. IInv /\ RoundInv /\ RunInv /\ DrainInv /\ StandInv => StaysInForce
  BY LowerMeans
<1>2. QED
  BY <1>1, AlwaysStands, PTL

\* Under the same condition as NoOrphans, a fault's rules stand for as long as
\* the fault does, and what is reported reverted is gone, each up to what is
\* allowed above.
THEOREM RulesFollowFaults == Spec => [](Tolerated => RulesMatchFaults)
<1>1. IInv /\ RoundInv /\ RunInv /\ DrainInv /\ StandInv => (Tolerated => RulesMatchFaults)
  BY UpperMeans, LowerMeans DEF RulesMatchFaults
<1>2. QED
  BY <1>1, AlwaysStands, PTL

-----------------------------------------------------------------------------
\* What run with the method "exec" leaves in the kernels if no command fails
\* without cause.

\* Those whose job in the drain has still to run its command on rule r.
Ahead(r) == {f \in held : \E i \in 1..2 : At(f, i, r) /\ step["job"][f] <= i}

Quiet == command = "run" /\ method = "exec" /\ errs = 0
Drains == \A r \in Rules : rules[r] <= Cardinality(Ahead(r))
Clean == \A r \in Rules : rules[r] = 0

\* In the drain a rule has no more instances than jobs still to come to it,
\* and then none.
CountInv ==
  Quiet =>
    /\ call["main"] = "draining" => Drains
    /\ call["main"] = "returned" \/ pc = "report" \/ outcome = "ok" => Clean

LEMMA CountedTypes ==
  ASSUME IInv, RoundInv, RunInv
  PROVE  \A r \in Rules : rules[r] \in Nat /\ Ahead(r) \subseteq Faults
  BY DEF IInv, TrackerTypes, RunInv, TypeOK, PodsTypeOK, Ahead

\* Without errors the bound from above holds of run, and nothing is half
\* injected once the loop is left.
LEMMA QuietStands ==
  ASSUME IInv, RoundInv, RunInv, StandInv, Quiet, pc \in {"count", "drain"}
  PROVE  \A r \in Rules : rules[r] <= Cardinality(Owing(r))
<1>1. Accounted /\ Tolerated
  BY DEF Quiet, Accounted, Tolerated
<1>2. SUFFICES ASSUME NEW r \in Rules PROVE rules[r] <= Cardinality(Owing(r))
  OBVIOUS
<1>3. Owing(r) \cup Flight(r) = Owing(r)
  BY DEF Flight, InFlight
<1>4. Standing(r) <= Cardinality(Owing(r)) + InVain(r) /\ InVain(r) = 0
  BY <1>1, <1>3 DEF StandInv, UpperInv, InVain, Quiet
<1>5. /\ Standing(r) = rules[r] + waiting["add"][r] /\ rules[r] \in Nat /\ waiting["add"][r] \in Nat
      /\ Owing(r) \in SUBSET Faults
  BY StandingTypes DEF Standing, PodsTypeOK, Verbs
<1>6. Cardinality(Owing(r)) \in Nat
  BY <1>5, FaultsFinite
<1>7. QED
  BY <1>4, <1>5, <1>6

\* How a count and its bound may move together.
LEMMA Counted ==
  ASSUME NEW S \in SUBSET Faults, NEW T \in SUBSET Faults, NEW f,
         NEW n \in Nat, NEW m \in Nat, n <= Cardinality(S),
         \/ m = 0
         \/ m <= n /\ S \subseteq T
         \/ m + 1 <= n /\ S \ {f} \subseteq T
  PROVE  m <= Cardinality(T)
<1>1. PICK v \in Nat : v = 0
  OBVIOUS
<1>2. Cardinality(S) \in Nat /\ Cardinality(T) \in Nat
  BY FaultsFinite
<1>3. n <= Cardinality(S) + v
  BY <1>1, <1>2
<1>4. \/ m = 0
      \/ m + v <= n + v /\ S \subseteq T
      \/ m + v + 1 <= n + v /\ S \ {f} \subseteq T
  BY <1>1
<1>5. m <= Cardinality(T) + v
  BY <1>3, <1>4, Bounded
<1>6. QED
  BY <1>1, <1>2, <1>5

\* What a deletion of r does to the count of any rule q.
Deletes(r, reply, q) ==
  /\ rules[q] \in Nat /\ rules'[q] \in Nat /\ rules'[q] <= rules[q]
  /\ q # r => rules'[q] = rules[q]
  /\ q = r => IF reply THEN rules'[q] + 1 = rules[q] ELSE rules'[q] = 0

\* A deletion without an error of its own fails only where nothing is to delete.
LEMMA QuietDeletion ==
  ASSUME PodsTypeOK, GoneInv, NEW r \in Rules, NEW reply \in BOOLEAN,
         Exec("del", r, reply), method = "exec", errs' = errs, NEW q \in Rules
  PROVE  Deletes(r, reply, q)
<1>1. /\ reply = Granted("del", r) /\ rules \in [Rules -> Nat]
      /\ Granted("del", r) => rules' = [rules EXCEPT ![r] = rules[r] - 1]
      /\ ~Granted("del", r) => rules' = rules
  <2>1. reply = Granted("del", r)
    BY ExecEffect DEF Accepted, Verbs
  <2>2. errs \in Nat
    BY MaxErrsAssumption DEF PodsTypeOK
  <2>3. IF reply THEN Accept("del", r) ELSE UNCHANGED <<rules, waiting>>
    BY <2>2 DEF Exec, SpareError
  <2>4. QED
    BY <2>1, <2>3 DEF Accept, Done, PodsTypeOK
<1>2. Granted("del", r) <=> up[r[1]] /\ rules[r] > 0
  BY DEF Granted
<1>3. ~Granted("del", r) => rules[r] = 0
  BY <1>1, <1>2 DEF GoneInv
<1>4. CASE Granted("del", r)
  BY <1>1, <1>2, <1>4 DEF Deletes
<1>5. CASE ~Granted("del", r)
  BY <1>1, <1>3, <1>5 DEF Deletes
<1>6. QED
  BY <1>4, <1>5

\* A revert command of a drain job moves the count and its bound together.
LEMMA JobCounts ==
  ASSUME IInv, RoundInv, RunInv, PodInv, NEW f \in Faults, JobRevert(f), method = "exec",
         errs' = errs, NEW q \in Rules
  PROVE  /\ rules[q] <= Cardinality(Ahead(q)) => rules'[q] <= Cardinality(Ahead(q)')
         /\ rules'[q] <= rules[q]
<1>1. /\ f \in tracked /\ f \in held /\ desc[f].kind \in NetworkKinds /\ "job" \in Reverters
      /\ UNCHANGED mainVars /\ StepTypes /\ PodsTypeOK /\ 1 \in 1..2 /\ 2 \in 1..2
  BY InHands DEF JobRevert, Reverters, RunInv, TypeOK, StepTypes
<1> DEFINE n == step["job"][f]
           len == Len(Cmds(f))
<1>2. PICK reply \in BOOLEAN : Moves("job", f, reply, JobOk(f), JobErr(f))
  BY <1>1, RevertEffect DEF JobRevert
<1>3. PICK r \in Rules : r = Cmds(f)[n] /\ Exec("del", r, reply)
  BY <1>2 DEF Moves
<1>3a. n \in 1..len /\ len \in 1..2
  <2>1. n \in 1..len
    BY <1>2 DEF Moves
  <2>2. Proper(desc[f]) /\ f \in Faults /\ n \in 1..2 /\ (n = 2 => desc[f].kind = "dns")
    BY <1>1 DEF RunInv, TrackedInv, StepInv, StepTypes
  <2>3. QED
    BY <1>1, <2>1, <2>2, CommandAt
<1>3b. Deletes(r, reply, q)
  BY <1>1, <1>3, QuietDeletion DEF PodInv
<1>4. Ahead(q) \subseteq Faults /\ held \subseteq Faults
  BY CountedTypes DEF IInv, TrackerTypes
<1>5. \/ GoesOn("job", f, reply) /\ n = 1 /\ len = 2 /\ held' = held
      \/ Ends("job", f) /\ n = len /\ held' = held \ {f}
  BY <1>2 DEF Moves, JobOk, JobErr, trackerVars
<1>6. /\ \/ step'["job"][f] = 2 /\ n = 1 /\ len = 2 /\ held' = held
         \/ step'["job"][f] = 1 /\ n = len /\ held' = held \ {f}
      /\ \A g \in Faults : g # f => step'["job"][g] = step["job"][g]
  <2>1. CASE GoesOn("job", f, reply) /\ n = 1 /\ len = 2 /\ held' = held
    <3>1. /\ step'["job"][f] = 2
          /\ \A u \in Reverters, g \in Faults :
               u # "job" \/ g # f => step'[u][g] = step[u][g]
      BY <1>1, <2>1, GoesOnAt
    <3>2. QED
      BY <1>1, <2>1, <3>1
  <2>2. CASE Ends("job", f) /\ n = len /\ held' = held \ {f}
    <3>1. /\ step'["job"][f] = 1 /\ ~failed'["job"][f]
          /\ \A u \in Reverters, g \in Faults :
               u # "job" \/ g # f => step'[u][g] = step[u][g] /\ failed'[u][g] = failed[u][g]
      BY <1>1, <2>2, EndsAt
    <3>2. QED
      BY <1>1, <2>2, <3>1
  <2>3. QED
    BY <1>5, <2>1, <2>2
<1>7. \A g \in Faults, i \in 1..2 : At(g, i, q)' <=> At(g, i, q)
  BY <1>1 DEF At, Cmds, mainVars
<1>8. Ahead(q) \ {f} \subseteq Ahead(q)' /\ Ahead(q)' \subseteq Faults
  BY <1>4, <1>5, <1>6, <1>7 DEF Ahead
<1>9. CASE f \in Ahead(q) => f \in Ahead(q)'
  <2>1. Ahead(q) \subseteq Ahead(q)'
    BY <1>8, <1>9
  <2>2. QED
    <3>1. rules[q] <= Cardinality(Ahead(q)) => rules'[q] <= Cardinality(Ahead(q)')
      BY <1>4, <1>8, <1>3b, <2>1, Counted DEF Deletes
    <3>2. QED
      BY <1>3b, <3>1 DEF Deletes
<1>10. CASE f \in Ahead(q) /\ f \notin Ahead(q)'
  <2>1. PICK i \in 1..2 : At(f, i, q) /\ n <= i
    BY <1>10 DEF Ahead
  <2>2. i \in 1..len /\ Cmds(f)[i] = q
    BY <2>1 DEF At
  <2>3. f \in held' => ~(step'["job"][f] <= i)
    BY <1>7, <1>10, <2>1 DEF Ahead
  <2>4. i = n
    BY <1>1, <1>3a, <1>6, <2>1, <2>2, <2>3
  <2>5. rules'[q] + 1 = rules[q] \/ rules'[q] = 0
    BY <1>3, <1>3b, <2>2, <2>4 DEF Deletes
  <2>6. QED
    <3>1. PICK S \in SUBSET Faults, T \in SUBSET Faults : S = Ahead(q) /\ T = Ahead(q)'
      BY <1>4, <1>8
    <3>2. PICK n0 \in Nat, m0 \in Nat : n0 = rules[q] /\ m0 = rules'[q]
      BY <1>3b DEF Deletes
    <3>3. S \ {f} \subseteq T /\ (m0 = 0 \/ m0 + 1 <= n0)
      BY <1>8, <2>5, <3>1, <3>2
    <3>4. n0 <= Cardinality(S) => m0 <= Cardinality(T)
      BY <3>3, Counted
    <3>5. rules[q] <= Cardinality(Ahead(q)) => rules'[q] <= Cardinality(Ahead(q)')
      BY <3>1, <3>2, <3>4
    <3>6. QED
      BY <1>3b, <3>5 DEF Deletes
<1>11. QED
  BY <1>9, <1>10

LEMMA RevertCounts ==
  ASSUME IInv, RoundInv, RunInv, DrainInv, PodInv, CountInv, NEW f \in Faults, RevertStep(f)
  PROVE  CountInv'
<1>1. UNCHANGED mainVars /\ PodsTypeOK /\ errs \in Nat
  BY RevertKeepsMain, MaxErrsAssumption DEF RunInv, TypeOK, PodsTypeOK
<1>2. CASE TimedRevert(f)
  <2>1. PICK reply \in BOOLEAN : Deleting("timer", f, reply)
    BY <1>2, TimedDeletes
  <2>2. PICK r \in Rules : Exec("del", r, reply)
    BY <2>1 DEF Deleting
  <2>3. errs <= errs' /\ errs' \in Nat /\ method' = method
    BY <1>1, <2>2, ExecEffect, MaxErrsAssumption DEF PodsTypeOK, Verbs
  <2>4. \A q \in Rules : rules[q] \in Nat /\ rules'[q] \in Nat /\ rules'[q] <= rules[q]
    BY <1>1, <2>2, ExecDeletes DEF PodsTypeOK
  <2>5. UNCHANGED <<call, held>>
    BY <1>2, TimedDeletes
  <2>6. \A q \in Rules : Ahead(q)' = Ahead(q)
    <3>1. \A g \in Faults : step'["job"][g] = step["job"][g]
      BY <2>1 DEF Deleting, Reverts, Reverters
    <3>2. held \subseteq Faults /\ desc' = desc
      BY <1>1 DEF IInv, TrackerTypes, mainVars
    <3>3. QED
      BY <2>5, <3>1, <3>2 DEF Ahead, At, Cmds
  <2>7. ASSUME Drains PROVE Drains'
    <3>1. ASSUME NEW q \in Rules PROVE rules'[q] <= Cardinality(Ahead(q)')
      <4>1. rules[q] <= Cardinality(Ahead(q)) /\ Cardinality(Ahead(q)) \in Nat
        BY <2>7, CountedTypes, FaultsFinite DEF Drains
      <4>2. QED
        BY <2>4, <2>6, <4>1
    <3>2. QED
      BY <3>1 DEF Drains
  <2>8. Clean => Clean'
    BY <2>4 DEF Clean
  <2>9. Quiet' => Quiet
    BY <1>1, <2>3 DEF Quiet, mainVars
  <2>10. QED
    BY <1>1, <2>5, <2>7, <2>8, <2>9 DEF CountInv, mainVars
<1>3. CASE TimedUntrack(f)
  <2>1. UNCHANGED <<podVars, mainVars, revertVars>> /\ UNCHANGED <<call, held>>
    BY <1>3 DEF TimedUntrack, Untrack
  <2>2. QED
    BY <2>1 DEF CountInv, Quiet, Drains, Clean, Ahead, At, Cmds, podVars, mainVars, revertVars
<1>4. CASE JobRevert(f)
  <2>1. PICK reply \in BOOLEAN : Deleting("job", f, reply)
    BY <1>4, JobDeletes
  <2>2. PICK r \in Rules : Exec("del", r, reply)
    BY <2>1 DEF Deleting
  <2>3. errs <= errs' /\ errs' \in Nat /\ PodsTypeOK' /\ method' = method
    BY <1>1, <2>2, ExecEffect, MaxErrsAssumption DEF PodsTypeOK, Verbs
  <2>4. call' = call
    BY <1>4, JobDeletes
  <2>5. ASSUME Quiet' PROVE Quiet /\ errs' = errs
    BY <1>1, <2>3, <2>5 DEF Quiet, mainVars
  <2>6. Quiet => call["main"] = "draining"
    BY <1>4, CallsAssumption DEF JobRevert, IInv, HeldByDrain, DrainInv, Quiet
  <2>7. ASSUME errs' = errs, method = "exec", Drains PROVE Drains'
    BY <1>4, <2>7, JobCounts DEF Drains
  <2>8. ASSUME errs' = errs, method = "exec", Clean PROVE Clean'
    BY <1>4, <2>3, <2>8, JobCounts DEF Clean, PodsTypeOK
  <2>9. QED
    BY <1>1, <2>4, <2>5, <2>6, <2>7, <2>8 DEF CountInv, Quiet, mainVars
<1>5. CASE JobStress(f)
  <2>1. /\ UNCHANGED <<mainVars, step, failed, method, rules>>
        /\ held' = held \ {f} /\ f \in held /\ call' = call /\ desc[f].kind = "stress"
        /\ errs' = errs \/ errs' = errs + 1
    BY <1>5 DEF JobStress, JobOk, JobErr, podVars, SpareError
  <2>2. Len(Cmds(f)) = 0
    BY <2>1, InHands, CommandsOf DEF Cmds, RunInv, TrackedInv, NetworkKinds
  <2>3. \A r \in Rules : Ahead(r)' = Ahead(r)
    BY <2>1, <2>2 DEF Ahead, At, Cmds, mainVars
  <2>4. Quiet => call["main"] = "draining"
    BY <2>1, CallsAssumption DEF IInv, HeldByDrain, DrainInv, Quiet
  <2>5. (Quiet' => Quiet) /\ (Drains => Drains') /\ (Clean => Clean')
    BY <1>1, <2>1, <2>3 DEF Quiet, Drains, Clean, mainVars
  <2>6. QED
    BY <2>1, <2>4, <2>5 DEF CountInv, mainVars
<1>6. CASE JobTimeout(f)
  <2>1. errs' = errs + 1
    BY <1>6 DEF JobTimeout, Cut, SpareError
  <2>2. ~Quiet'
    BY <1>1, <2>1 DEF Quiet
  <2>3. QED
    BY <2>2 DEF CountInv
<1>7. QED
  BY <1>2, <1>3, <1>4, <1>5, <1>6 DEF RevertStep

LEMMA CallCounts ==
  ASSUME IInv, RoundInv, RunInv, DrainInv, StandInv, CountInv, NEW c \in Calls, DrainStep(c)
  PROVE  CountInv'
<1>1. /\ UNCHANGED <<podVars, mainVars, revertVars>> /\ tracked' = tracked /\ settled' = settled
      /\ call \in [Calls -> CallState] /\ CallStep(c)
  BY DEF DrainStep, CallStep, ClaimGuard, JoinWait, WaitOver, TakeAll, Requeue, Release, IInv, TrackerTypes
<1>2. Quiet' = Quiet /\ Clean' = Clean
  BY <1>1 DEF Quiet, Clean, podVars, mainVars
<1> SUFFICES ASSUME Quiet PROVE CountInv'
  BY <1>2 DEF CountInv
<1>3. c = "main" /\ pc = "drain" /\ "main" \in Calls /\ outcome # "ok"
  BY CallsAssumption DEF DrainStep, Calling, Quiet, DrainInv
<1>4. CASE ClaimGuard(c)
  BY <1>1, <1>2, <1>3, <1>4 DEF ClaimGuard, CountInv, mainVars
<1>5. CASE JoinWait(c)
  BY <1>1, <1>3, <1>5 DEF JoinWait, CountInv, mainVars
<1>6. CASE WaitOver(c)
  BY <1>3, <1>6 DEF WaitOver, DrainInv, Quiet
<1>7. CASE TakeAll(c)
  <2>1. call'["main"] = "draining" /\ held' = active
    BY <1>1, <1>3, <1>7 DEF TakeAll
  <2>2. held = {} /\ requeue = {}
    BY <1>3, <1>7 DEF TakeAll, IInv, HeldByDrain, OneDrain, Owners
  <2>3. tracked \ settled \subseteq held' /\ held' \subseteq Faults
    BY <2>1, <2>2 DEF IInv, NoFaultForgotten, Owed, TrackerTypes
  <2>4. \A f \in Faults : step'["job"][f] = 1
    BY <1>1, <2>2 DEF RunInv, StepInv, revertVars
  <2>5. ASSUME NEW r \in Rules PROVE rules'[r] <= Cardinality(Ahead(r)')
    <3>1. rules[r] <= Cardinality(Owing(r)) /\ rules[r] \in Nat /\ rules'[r] = rules[r]
          /\ Owing(r) \subseteq Faults
      BY <1>1, <1>3, QuietStands, StandingTypes DEF podVars
    <3>2. Owing(r) \subseteq Ahead(r)' /\ Ahead(r)' \subseteq Faults
      <4>1. ASSUME NEW f \in Owing(r) PROVE f \in Ahead(r)'
        <5>1. PICK i \in 1..2 : At(f, i, r) /\ f \in tracked \ settled
          BY DEF Owing
        <5>2. f \in held' /\ f \in Faults /\ step'["job"][f] <= i
          <6>1. f \in held' /\ f \in Faults
            BY <2>3, <5>1
          <6>2. step'["job"][f] = 1 /\ 1 <= i
            BY <2>4, <5>1, <6>1
          <6>3. QED
            BY <6>1, <6>2
        <5>3. At(f, i, r)'
          BY <1>1, <5>1 DEF At, Cmds, mainVars
        <5>4. QED
          BY <5>2, <5>3 DEF Ahead
      <4>2. QED
        BY <2>3, <4>1 DEF Ahead
    <3>3. Cardinality(Owing(r)) <= Cardinality(Ahead(r)')
          /\ Cardinality(Owing(r)) \in Nat /\ Cardinality(Ahead(r)') \in Nat
      BY <3>1, <3>2, FaultsFinite, FS_Subset
    <3>4. QED
      BY <3>1, <3>3
  <2>6. QED
    BY <1>1, <1>3, <2>1, <2>5 DEF CountInv, Drains, mainVars
<1>8. CASE Requeue(c)
  <2>1. call' = call /\ held' = held /\ call["main"] = "draining"
    BY <1>3, <1>8 DEF Requeue
  <2>2. Drains' = Drains
    BY <1>1, <2>1 DEF Drains, Ahead, At, Cmds, podVars, mainVars, revertVars
  <2>3. QED
    BY <1>1, <1>3, <2>1, <2>2 DEF CountInv, mainVars
<1>9. CASE Release(c)
  <2>1. call'["main"] = "returned" /\ held = {} /\ Drains
    BY <1>1, <1>3, <1>9 DEF Release, CountInv
  <2>2. ASSUME NEW r \in Rules PROVE rules'[r] = 0
    <3>1. Cardinality(Ahead(r)) = 0
      BY <2>1, FS_EmptySet DEF Ahead
    <3>2. rules'[r] = rules[r] /\ rules[r] \in Nat
      BY <1>1, CountedTypes DEF podVars
    <3>3. QED
      BY <2>1, <3>1, <3>2 DEF Drains
  <2>3. QED
    BY <1>1, <1>3, <2>1, <2>2 DEF CountInv, Clean, mainVars
<1>10. QED
  BY <1>1, <1>4, <1>5, <1>6, <1>7, <1>8, <1>9 DEF CallStep

LEMMA MainCounts ==
  ASSUME IInv, RoundInv, RunInv, DrainInv, StandInv, CountInv, MainStep PROVE CountInv'
<1>1. /\ command' = command /\ call' = call /\ method' = method
      /\ errs <= errs' /\ errs \in Nat /\ errs' \in Nat
  BY MainFrame
<1> SUFFICES ASSUME Quiet' PROVE CountInv'
  BY DEF CountInv
<1>2. Quiet
  BY <1>1 DEF Quiet
<1>3. CASE DrainOver \/ Finish
  <2>1. /\ UNCHANGED <<trackerVars, podVars>>
        /\ call["main"] = "returned" \/ pc = "report"
    BY <1>3 DEF DrainOver, Finish
  <2>2. Clean /\ Clean'
    BY <1>2, <2>1 DEF CountInv, Clean, podVars
  <2>3. ASSUME NEW r \in Rules PROVE rules'[r] <= Cardinality(Ahead(r)')
    <3>1. rules'[r] = 0 /\ Ahead(r)' \subseteq Faults
      BY <2>1, <2>2 DEF Clean, Ahead, trackerVars, IInv, TrackerTypes
    <3>2. Cardinality(Ahead(r)') \in Nat
      BY <3>1, FaultsFinite
    <3>3. QED
      BY <3>1, <3>2
  <2>4. QED
    BY <2>2, <2>3 DEF CountInv, Drains
<1>4. CASE CountActive
  <2>1. /\ UNCHANGED <<podVars, outcome>>
        /\ pc = "count" /\ pc' = IF active = {} THEN "report" ELSE "drain"
    BY <1>4 DEF CountActive
  <2>2. call["main"] = "idle" /\ outcome # "ok"
    BY <1>2, <2>1 DEF DrainInv, Quiet
  <2>3. ASSUME active = {}, NEW r \in Rules PROVE rules'[r] = 0
    <3>1. held = {} /\ requeue = {}
      BY <1>2, <2>2, CallsAssumption DEF IInv, HeldByDrain, DrainInv, Quiet
    <3>2. tracked \subseteq settled
      BY <2>3, <3>1 DEF IInv, NoFaultForgotten, Owed
    <3>3. Owing(r) = {}
      BY <3>2 DEF Owing
    <3>4. Cardinality(Owing(r)) = 0
      BY <3>3, FS_EmptySet
    <3>5. rules[r] <= 0 /\ rules[r] \in Nat
      BY <1>2, <2>1, <3>4, QuietStands, CountedTypes
    <3>6. QED
      BY <2>1, <3>5 DEF podVars
  <2>4. QED
    BY <1>1, <2>1, <2>2, <2>3 DEF CountInv, Clean
<1>5. CASE ~DrainOver /\ ~Finish /\ ~CountActive
  <2>1. /\ pc \notin {"drain", "report", "exited"} /\ pc' # "report"
        /\ outcome' = outcome \/ outcome' = "error"
    BY <1>2, <1>5 DEF MainStep, NextRound, LeaveLoop, AfterLoop, DrawFault, SkipRound, DiscoverFails,
         InjectCommand, RollBack, InjectStress, InjectDeletion, TrackFault, DropFault, Exit, Quiet
  <2>2. call["main"] = "idle" /\ outcome # "ok"
    BY <1>2, <2>1 DEF DrainInv, Quiet
  <2>3. QED
    BY <1>1, <2>1, <2>2 DEF CountInv
<1>6. QED
  BY <1>3, <1>4, <1>5

LEMMA CountStep ==
  ASSUME IInv, RoundInv, RunInv, DrainInv, PodInv, StandInv, CountInv, [Next]_vars PROVE CountInv'
<1>1. CASE MainStep
  BY <1>1, MainCounts
<1>2. CASE Sigint \/ SigintExit
  <2>1. UNCHANGED <<trackerVars, podVars, command, desc, revertVars>>
        /\ (command = "run" => UNCHANGED <<pc, outcome>>)
    BY <1>2 DEF Sigint, SigintExit
  <2>2. Quiet' = Quiet /\ Drains' = Drains /\ Clean' = Clean
    BY <2>1 DEF Quiet, Drains, Clean, Ahead, At, Cmds, trackerVars, podVars, revertVars
  <2>3. QED
    BY <2>1, <2>2 DEF CountInv, Quiet, trackerVars
<1>3. CASE \E c \in Calls : DrainStep(c)
  BY <1>3, CallCounts
<1>4. CASE \E f \in Faults : RevertStep(f)
  BY <1>4, RevertCounts
<1>5. CASE UNCHANGED vars
  <2>1. UNCHANGED <<trackerVars, podVars, mainVars, revertVars>>
    BY <1>5 DEF vars
  <2>2. Quiet' = Quiet /\ Drains' = Drains /\ Clean' = Clean
    BY <2>1 DEF Quiet, Drains, Clean, Ahead, At, Cmds, trackerVars, podVars, mainVars, revertVars
  <2>3. QED
    BY <2>1, <2>2 DEF CountInv, trackerVars, mainVars
<1>6. CASE ClusterStep
  <2>1. UNCHANGED <<trackerVars, mainVars, revertVars>>
    BY <1>6, ClusterKeeps
  <2>2. ASSUME Quiet'
        PROVE  Quiet /\ \A r \in Rules : rules'[r] = rules[r] \/ rules'[r] = 0
    <3>1. PodsTypeOK
      BY DEF RunInv, TypeOK
    <3>2. CASE \E verb \in Verbs, r \in Rules : ContainerStep(verb, r)
      <4>1. PICK verb \in Verbs, r \in Rules : RunContainer(verb, r)
        BY <3>2 DEF ContainerStep
      <4>2. waiting[verb][r] > 0 /\ method' = method
        BY <4>1 DEF RunContainer
      <4>3. method # "exec"
        BY <4>2 DEF PodInv, ExecInv
      <4>4. QED
        BY <2>2, <4>2, <4>3 DEF Quiet
    <3>3. ASSUME NEW p \in Pods, PodGoes(p)
          PROVE  Quiet /\ \A r \in Rules : rules'[r] = rules[r] \/ rules'[r] = 0
      BY <2>1, <2>2, <3>1, <3>3 DEF PodGoes, LosePod, DeletePod, PodsTypeOK, Quiet, mainVars
    <3>4. ASSUME NEW p \in Pods, PodComesBack(p)
          PROVE  Quiet /\ \A r \in Rules : rules'[r] = rules[r] \/ rules'[r] = 0
      BY <2>1, <2>2, <3>4 DEF PodComesBack, PodReturns, Quiet, mainVars
    <3>5. QED
      BY <1>6, <3>2, <3>3, <3>4 DEF ClusterStep
  <2>3. \A r \in Rules : Ahead(r)' = Ahead(r)
    BY <2>1 DEF Ahead, At, Cmds, trackerVars, mainVars, revertVars
  <2>4. ASSUME Quiet', Drains PROVE Drains'
    <3>1. ASSUME NEW r \in Rules PROVE rules'[r] <= Cardinality(Ahead(r)')
      <4>1. /\ rules[r] <= Cardinality(Ahead(r)) /\ Ahead(r) \subseteq Faults
            /\ rules'[r] = rules[r] \/ rules'[r] = 0
        BY <2>2, <2>4, CountedTypes DEF Drains
      <4>2. Cardinality(Ahead(r)) \in Nat
        BY <4>1, FaultsFinite
      <4>3. QED
        BY <2>3, <4>1, <4>2
    <3>2. QED
      BY <3>1 DEF Drains
  <2>5. Quiet' /\ Clean => Clean'
    BY <2>2 DEF Clean
  <2>6. QED
    BY <2>1, <2>2, <2>4, <2>5 DEF CountInv, trackerVars, mainVars
<1>7. QED
  BY <1>1, <1>2, <1>3, <1>4, <1>5, <1>6 DEF Next

LEMMA InitCounts == Init => CountInv
<1> SUFFICES ASSUME Init PROVE CountInv
  OBVIOUS
<1>1. pc = "sleep" /\ outcome = "none" /\ "main" \in Calls /\ call["main"] = "idle"
  BY CallsAssumption DEF Init, TrackerInit
<1>2. QED
  BY <1>1 DEF CountInv

\* If no command fails without cause, run with the method "exec" leaves no rule
\* behind on any pod: whatever the rounds, the kinds, the pods that come and go
\* and the order of timed reverts and drain jobs, each rule added is deleted or
\* its pod is gone.
THEOREM RunCleansUp == Spec => []CleanExit
<1>1. /\ IInv /\ RoundInv /\ RunInv /\ PodInv /\ DrainInv /\ StandInv /\ CountInv /\ [Next]_vars
      => CountInv'
  BY CountStep
<1>2. CountInv => CleanExit
  BY DEF CountInv, Quiet, Clean, CleanExit
<1>3. QED
  BY <1>1, <1>2, InitCounts, AlwaysStands, PTL DEF Spec
=============================================================================
