# Verification of heisensim

Heisensim injects faults into pods of a Kubernetes cluster (or into a simulated
one), probes services meanwhile, records both on a timeline and judges the
timeline by properties.  This directory holds TLA+ models of its core, TLC
configurations that check them on small instances, and proofs, checked by
TLAPS, of what holds for every instance.  Paths below are relative to the
repository root; `main.rs` is `crates/cli/src/main.rs`.

    tlc -workers 2 -config MCFaultTracker.cfg MCFaultTracker
    tlapm FaultTracker_proofs.tla

## 1. The system and its parts

| Component (crates/) | State it keeps | Operations | Hard behaviour | What makes it correct |
|---|---|---|---|---|
| fault tracker (`k8s/src/fault_tracker.rs`) | list of active faults behind a mutex, `reverting` flag | `track`, `untrack`, `active_count`, `revert_all` | several callers of `revert_all`, tasks that untrack meanwhile, jobs that fail or time out | no fault is lost, doubled, or struck off without a confirmed revert; callers return |
| fault operator (`k8s/src/fault_ops.rs`) | none; the pods' kernels do | inject and revert each kind through `kubectl debug`/`exec`, delete, evict | replies lost, half-done faults, equal rules of two faults | the rules on a pod are those of faults not reverted |
| command handlers (`cli/src/main.rs`) | locals of the handler, cancellation tokens, spawned tasks | `run`, `explore`, `diverge run`: fault loop, timed reverts, SIGINT, cleanup | SIGINT at any await, early returns, racing cleanups | every exit has reverted, or tried to revert, every fault |
| deterministic simulation (`cli/src/dst.rs`, `simulate.rs`) | clock, network, active faults, timeline, totals | discrete-event loop: probe, schedule fault, revert, end | many timers at one instant, overlapping faults, the boundary of the end | the timeline is ordered and explains itself |
| virtual clock and network (`core/src/clock.rs`, `net.rs`) | heap of timers, partitions, pending messages | `schedule`, `tick`; partitions, `send`, `deliver_ready` | timers set while a batch is handled | timers fire in order, none is lost |
| probe runner (`probe/src/runner.rs`) | one task per probe | tick, check, emit; cancel | a check in flight when cancelled, missed ticks, `select!` choosing at random | every task ends once told to; no sample is in both phases of the baseline |
| probes (`probe/src/{http,tcp,exec,grpc}.rs`) | none | one request with a timeout | - | - |
| timeline (`timeline/src`) | list of events behind a lock | `emit`, queries | time read before the lock is taken | queries do not depend on the order of racing events |
| properties (`props/src`) | none per evaluation | one verdict per property and timeline | overlapping faults, boundaries of windows | each verdict equals its definition |
| exploration (`fault/src/explorer.rs`, `handle_explore` and its variants in `main.rs` and `mock.rs`) | next seed and offset, combinations seen, results, interesting seeds, last good seed | draw a batch, join its runs, bisect, summarise | outcomes that are not monotone or not repeatable, runs in error, strategies that leave seeds out | a bisection names a boundary, every seed named has a result, the exit code tells what was found |
| fault scheduling (`fault/src/scheduler.rs`) | seeded generator | `next_fault`, `next_delay` | - | - |
| property definitions (`cli/src/properties.rs`) | none | templates, merging, `build_checker` | definitions that cannot be built | every template can be built |
| Kubernetes access (`k8s/src/{discovery,probe_scraper,cluster,fencing}.rs`) | none | list calls, k3d, namespace fence | errors | - |
| diverge client (`diverge/src`) | none | get and list environments, wait for one | - | - |
| interceptor (`intercept/src`) | tracee table, virtual time, seeded generator | ptrace loop, syscall handlers, seccomp filter | threads that stop, exit and clone in any order | each thread sees its own results |
| vDSO replacement (`intercept/src/vdso`, `bin/heisensim_inject.rs`, `time-warp`) | in the target: twelve bytes of `clock_gettime`, a region per injection; the handles printed | inject, revert, update | other threads run on, signals end the attach or the single step, the tool is killed, the target crashes and comes back with the same pid | a patch in place is complete, patches nest, no region leaks, the main thread goes on with its own state |
| process table, seeds, types (`core/src`) | small data types | - | - | - |
| demo, mock timelines, reports, diff, metrics, RBAC (`cli/src`) | none | formatting and scripted output | - | - |

How they interact: a handler owns the main task; it calls the fault operator
and hands each injected fault to the tracker, spawns a task that sleeps and
reverts it, and a task that waits for SIGINT.  Handlers, operator and probe
tasks all emit to one shared timeline.  The tracker calls the operator back
from its revert jobs.  The simulation is a loop without tasks; it uses the
clock, the network and the fault scheduler by plain calls.  The properties read
a finished timeline; `explore` runs one simulation per seed and reads its findings
and verdicts.  The interceptor and the vDSO tool are processes of their own, in
an ephemeral container next to the target.

`PROJECT.json` lists each component with its status, and under `hazards` the
places where this code is hard to test, each with the properties that watch it.

## 2. Modules

| Module | Models |
|---|---|
| `FaultLedger` | what the tracker promises: a fault is owed a revert until one is confirmed |
| `FaultTracker` | the tracker with all its callers: `track`, timed reverts, `untrack`, any number of calls of `revert_all` with flag, jobs and requeue |
| `FaultOps` | the pods' rules, the `tc` and `iptables` commands of each fault, their replies |
| `ChaosRun` | `handle_run`, `handle_diverge_run` and `run_single_simulation` on top of the two: fault loop, timed reverts, SIGINT, cleanup, exit |
| `EventAgenda` | what a simulation expects of a clock: one agenda, fired in order |
| `VirtualClock`, `VirtualNetwork` | timers and `tick()`; partitions |
| `DstEngine` | the event loop of `dst.rs` on these two |
| `Tracees` | the threads of a traced process and the kernel's rules for ptrace (external: modelled from how `ptrace.rs` uses them) |
| `PtraceTracer` | `trace_with_faults`, the tracer of `ptrace.rs` and the handler's decision, on `Tracees` |
| `Timeline`, `Verdicts` | the events and queries of a timeline; whether each property of `props/src` passes on it |
| `TimelineBus` | what a timeline promises its readers, and what each verdict means on one |
| `ProbeRun` | a run as its timeline sees it: probe tasks, `emit()`, the handler that warms up, injects, counts and reports, the reverts that emit |
| `VdsoTarget` | a process whose `clock_gettime` is patched: its threads, memory, signals and restarts (mostly external) |
| `VdsoPatch` | `inject`, `revert` and `update_time` on such a process, request by request |
| `PropertyDefs` | templates and definitions of properties, and which of them make a checker |
| `Exploration` | `explore` in its three modes with the explorer of seeds and both bisections |
| `*_proofs` | the proofs about the module of that name |
| `MC*` | what a TLC run needs beyond the module: a self-loop for a process that has ended, values of constants |

Every module with state has mutations of its own actions (`Bad...`), each one
plausible mistake in the code it models; with the mutation in place of the
action the property it names fails.  They are part of no specification.

### State and actions against the code

*FaultTracker.*  `active` and `reverting` are the two fields.  `held` and
`requeue` are the locals of the one draining `revert_all`: the faults whose job
is in the join set, and those collected as failed.  `call[c]` is the position
of a call: before the compare-exchange, polling the flag, owner of the flag,
draining, returned.  A step ends where the code awaits or touches the mutex or
the flag, so `TakeAll` (the `mem::take` under the lock), each `join_next`,
`Requeue` and `Release` are separate steps.  `timer[f]` is the task that
sleeps, reverts and, in a later step, untracks.

*FaultOps.*  A pod's network state is a count per rule: `tc qdisc add` of a
root qdisc fails if there is one, `iptables -A` appends as often as asked, `-D`
removes one instance or fails.  With `Unreliable`, a command may fail without
cause, or take effect and have its reply lost.  What a reply says depends on
`method`, the inject method.  With "exec" the command runs in the pod's own
container and `kubectl exec` returns its exit status.  With "debug", the only
method of `diverge`, `kubectl debug` is not attached to the ephemeral container
it creates (`fault_ops.rs:261-275`): its exit status says that the container was
created, `waiting` counts the containers that have yet to run their command, and
`RunContainer` runs one at any later time, in any order, or lets it come to
nothing.  `vain` is history: the deletions that deleted nothing.  A pod goes at
any time, with its rules and containers (`DeletePod`), and may come back under
its name with a network namespace of its own (`PodReturns`), as the pods of a
StatefulSet do; those of a Deployment are pods that do not come back.

*ChaosRun.*  `pc` is the main task's position: sleeping in a round, discovering
pods, injecting (`at` is the next command), rolling back, tracking, counting,
draining, reporting.  `step` and `failed` are the position within a revert, for
the timer task and the drain job of each fault separately, so both may be in
the middle of reverting the same fault.  The tracker's actions are conjuncts of
the steps here.  When a step leaves `main` (`Exit`), no task takes another step,
which is what dropping the runtime does; the cluster goes on, so that debug
containers may still run.  `bereft` is history: the faults whose pod has gone.  A
fault of a pod that comes back is reverted on the new one.

*DstEngine.*  The heap and the batch that `tick` returned are sets; the order
in which `pop` yields them is the order of `Before`.  `active` is the map of
active faults, `events` the timeline.  The draws of the generator are choices.
The latencies of probes are reduced to "slow" or not; identifiers are numbers.

*Tracees.*  `place` is where a thread is: running, in the kernel, in one of the
stops, dead and not reaped, gone.  `pending` are the stops and deaths `waitpid`
has not reported.  Three rules of the kernel carry the results.  A stopped
thread can be resumed before its stop was reported, and that stop is then never
reported.  Only a stopped thread can be detached; the request fails on a
running one.  The death of the first thread is reported after all others have
been reaped.  System calls are six kinds: `connect` stands for the call the
configuration faults, on a port it selects; `wait` for one that returns only
when another thread has done something; `clone`, `exit` and `exit_group` for
themselves; `other` for the rest.  Group stops are not told from signals.

*PtraceTracer.*  The tracer is one thread and `pc` is where it waits or where
the target may move between two of its requests: reading `/proc/PID/task`
(`todo` are the entries read), attaching, the head of `run_loop`, the three
`waitpid` loops (any thread, the child of a clone, the exit of the thread in
hand), deciding, detaching, leaving.  `table` is the map `threads`, `cur` the
thread in hand.  A delay that a handler asks for is a chance for time to pass,
which the model gives at every step.

*Timeline, Verdicts.*  An event is a record of its elapsed time, its kind, the
probe or fault it speaks of and a number; a timeline is a sequence of them, and
sets of events are sets of positions.  `Window` is the loop that the verdicts
share, from the event after a fault up to the first one that is too late.  The
verdicts compare percentages as fractions where the code uses `f64`.  Events
that no verdict and no query reads (`WorkloadStarted`, notes) are left out, and
so are the texts of a verdict.

*TimelineBus.*  `emit()` reads the clock, then waits for the lock and appends:
an event carries a time of up to `EmitGap` ago (`Recent`).  What one task
appends is in order of its times.  Against such lists the verdicts, which read
them as sorted, are compared with definitions that do not follow their loops.
`Surely` and `Perhaps` say how far a race can blur a window.

*ProbeRun.*  `pend[t]` is the event task `t` has stamped and not yet appended;
`Tasks` are the probes, a timer and a drain job for each fault, and the
handler.  `probe[p]` is where a probe task is: in `select!`, in its check,
emitting, ended; `due` is the next tick of its interval, where missed ticks are
skipped.  `pc` is the handler: warming up, in its loop, listing pods, injecting,
evicting, draining (`Takes` the list, joins its jobs), stopping the probes,
counting the failures for `SimulationEnded`, appending that event, reporting.  A
SIGINT that comes in the middle of a round stops the probes, and the round goes
on.  `Urgent` is what time does not pass by: an append at its bound, a check at
its timeout, a ready branch of `select!`, steps of the handler that wait for
nothing.  What the rules on the pods are is `ChaosRun`; here any command may
fail or succeed.  `listed` is the tracker's list, `timer`, `expire` and `job`
the tasks that revert.  The timer does not look at the list, and so the timer
and a drain job of one fault may both succeed and both emit `FaultReverted`: two
faults may have an equal rule, and with the method "debug" every deletion is
reported Ok.  The task of a stress fault emits when stress-ng ends, whatever its
result, and an eviction that a PodDisruptionBudget forbids is injected and
reverted at once.  The list of `TimelineBus` therefore bounds no fault to one
revert.  A check that ends at its timeout is a failure for the clients of HTTP
and gRPC, whose error text `runner.rs:82` does not know, and a timeout for the
others.

*VdsoTarget.*  `fn` are the twelve bytes: the original ones, the jump to the
region at some address, or, between the two writes of a patch, a mixture.
`mem[a]` is the region at `a`: mapped or not, its payload written or not, its
control block on, off or still zero, and the bytes it has saved.  `place` is
where each thread is: outside, in the first instructions, in the rest, in a
payload, in saved bytes, or in what is no code (`beyond`), from where the
process may crash at any time.  `regs` says whether the main thread has its own
registers and code, those of an injected system call, or such ones although it
was let go.  A stop the tool waits for is reported with whatever signal came
first; a request that lets the thread go on passes none, so a SIGSTOP of the
attach that was not reported is still there (`stopPending`) and stops the single
step or, after the detach, the process (`frozen`).

*VdsoPatch.*  `tool` is the one invocation at work, `pc` its next request; two
cannot be attached at once.  `handles` are the JSON objects that injections have
printed.  `chain` and `disturbed` are history: the regions patched in, and
whether a revert was made out of turn or in another life, or a kill tore the
bytes.  The values in a control block are on or off: the payload tests `enabled`
and then applies seconds and nanoseconds.  The speed it never reads, though
`trampoline.rs:103` says that offset and speed are applied, and a negative sum of
nanoseconds is not borrowed from the seconds, though `control.rs:20` calls them
normalized; both are arithmetic of the payload and left out.  `time-warp
--revert` prints instructions and changes nothing, so only the tool reverts.

*PropertyDefs.*  A definition is its name, its type and the set of fields that
are given; whether `build_checker` accepts it depends on no more.

*Exploration.*  `args` are the options that matter, one constant record per
behaviour.  `explorer` is `StrategicExplorer`; `batch` the seeds drawn whose
handles are not yet joined; `results` and `interesting` the two vectors; `bis`
is the loop of the bisection at work, `low`, `high` and `nearest` its locals.  A
run of a seed is one step that shows anything on a cluster and, in the
simulation and on the mock, what that seed has shown before (`world`).  `Asked`
are the definitions the templates and the config file ask for, `Judged` those a
run in the mode at hand evaluates.  A seed shows "bad" if it lacks a property
that is judged, "missed" if it lacks one that is asked for and not judged,
"found" if a failure makes it interesting, "both" if found and missed.  `drawn`
and `probed` are history.  The draw of a random explorer is a choice, and the
combinations a run covers are any.

## 3. Runs

| Run | Question | Bounds | Result |
|---|---|---|---|
| `fault_tracker` | can any interleaving of three `revert_all` calls, tracking and timed reverts lose or double a fault, or hang a caller? | 2 faults, 3 calls | holds |
| `chaos_commands` | rules on pods against tracker and reports, in all three commands, by exec and by debug containers that run late, out of order or not at all, under SIGINT, one error and pods that go and come back | 2 rounds, 1 unforced error of any kind but a lost addition; by exec 2 pods and all 6 kinds, by debug 1 pod, latency and stress, any number of failing containers | holds |
| `dst_engine` | does the timeline of every simulation explain itself? | 2 pods, 4 kinds, 45 s in units of 5 s | holds |
| `verdicts` | what does each verdict mean on a timeline that is only nearly sorted? | 5 events, 2 probes, a crash and a DNS fault, 3 units of time, appends up to 1 late | holds |
| `observed_run` | is every run's timeline such a one, do the baseline's phases stay apart, do probes stop? | 2 probes of periods 2 and 4, a network, a DNS, a stress and an eviction fault, warmup 3, 2 rounds, 5 units of time | holds |
| `vdso` | what may injections, reverts and updates leave behind when signals, crashes and kills interrupt them? | 2 threads, 2 addresses, 3 invocations, 1 signal, 1 kill, 1 restart | holds |
| `exploration` | what do a bisection, the summary and the exit code of `explore` tell? | 4 seeds, batches of 2, starts 0 and 1, every template, malformed definitions | holds |
| `ptrace_tracer` | does the tracer lose a stop, keep a stale thread, fall out of step with a single thread, or hang for a reason nobody can name? | 3 threads | holds |
| `ptrace_escape` | do no threads escape fault injection, as the changelog says? | 3 threads | violated |
| `diverge_sigint` | does `diverge` revert all faults before it exits on SIGINT, or try to? | no error | violated |
| `vdso_continues` | does the payload go on with the rest of the function, as its comments say? | 1 thread, 1 invocation | violated |
| `explore_bisect` | does `--bisect` name the minimal failing seed? | 2 seeds from 1, on a cluster | violated |

Why the bounds are enough.  Three calls are one draining, one waiting and one
that comes after both.  Two faults are the least that tell a lost list from a
lost entry and that can share a rule; two rounds on two pods let a pod be
crashed under a tracked fault and come back before its timed revert, two
partitions of the same pair overlap, and a fault be tracked while another is
drained.  For debug containers one pod and one rule have to do (`Bounded`
in `MCChaosRun`), since containers race on one rule only: two latency faults have
up to two additions and four deletions of it waiting, by their timers and the
drain.  `MaxErrs = 1` makes one reply
wrong at any point; a rollback that fails as well needs two and leaves an
untracked rule, as the hazards say.  A run with three rounds, partition and DNS
faults and errors of deletions has held as well, but takes over five minutes.
In `dst_engine` the unit is 5 s: the fault durations (10, 15, 20 s) and delays
(10 to 25 s) are exact multiples, so that every coincidence of probes, faults,
reverts and the end happens; `Stagger` is one unit instead of 100 ms, which is
what 50 pods would see and makes probes of two pods interleave with both.
Latency and eviction are left out of its kinds: they last as long as a crash and
act as stress and crash do.

The violations are findings: `PROJECT.json` quotes the sentence each one
refutes.  In `diverge` the main loop goes on while the SIGINT task drains.  In
the tracer, `wait_for_syscall` resumes every thread listed as running, among
them those whose stop it has not been told of yet: the exit of the call is then
taken for its entry, and the calls after it go by unhandled.  The payload calls
the twelve bytes it saved and has no jump back to the function behind them.  A
live bisection may name a seed that was never drawn, in the least case seed 0
with the default start of 1, and the summary unwraps its result.

What the code does besides, seen in the models and kept out of the properties
by name:

- `explore` on a cluster never drains its tracker and does not track DNS faults
  (`DropFault`, `AfterLoop`), although `CHANGELOG.md:20-24` speaks of all three
  paths; `NoOrphanRule` and `RulesMatchFaults` are about the other commands
  (`Accounted`).
- The `?` on pod discovery leaves `run` and `diverge` without their cleanup
  (`DiscoverFails`); `SecondChance` and `CleanExit` speak of the outcome "ok".
- `detach` does not stop the threads first, so those that run stay attached and
  are killed by `PTRACE_O_EXITKILL` when the tracer leaves, at every deadline
  of a busy target and although `tracer.rs:28` calls it clean.
- The wait for a call's exit looks at no deadline, so a call that does not
  return holds the tracer beyond its duration: the `Stuck` of `EndsOrStuck`.
- With the inject method "debug" a revert that is reported Ok may have deleted
  nothing: its container ran before that of the injection, was refused or never
  started.  Its fault is off the list and counted as reverted, and the rule stays,
  although `fault_tracker.rs:44-46` says that `revert_all` prevents it.  This takes
  one latency fault and no error of kubectl; `CleanExit` is therefore of exec
  alone, and `NoOrphanRule` counts such deletions (`InVain`).
- The exit code of `explore` does not tell of every property that fails, as the
  repository's `README.md:186` has it.  A definition that cannot be built makes
  the simulation judge nothing, not even its other properties, and exit 0; every
  run on a cluster an error and exit 0; and the mock exit 1.  The types
  `dns_resolution` and `steady_state` of `README.md:197-198` are such definitions:
  `build_checker` knows them with hyphens only (`properties.rs:276-291`).  The mock
  reads neither `--property-template` (`README.md:268`) nor the template of the
  config file (`mock.rs:284`).  `ExitTells` names these cases and shows that there
  are no others.
- The timed revert of a fault whose pod was deleted and is back under its name
  deletes the rule a later fault has there; the later one then cannot be reverted
  (`bereft` in `StaysInForce` says how many rules may go so, and no more).
- A fault of which the tracker's list and the timer both know may be reverted, and
  `FaultReverted` emitted, twice; the verdicts mean the same on such lists.
- A revert job that panics would be dropped with its fault (`fault_tracker.rs:258`):
  no job of the model does.
- A seed that bisection finds to lack a property does not count for the exit
  code of the simulation, and the offsets of the coverage strategy may draw a
  seed twice.  In a batch, or with a strategy that goes back, the last good seed
  may lie beyond the failing one; the live bisection then tries nothing (the
  premise of `BisectBoundary`).
- The handle of an injection names a process by its pid, and a restarted
  container has the same one; a revert out of turn puts back bytes that lead to
  a region that is gone (the premise `disturbed` of `PatchChain`).
- A thread that calls a function patched twice and reverted in order still
  meets a region that is being freed under it: only the main thread is stopped.
- The main thread itself may have been stopped in the region a revert frees.
  It is then let go where nothing is mapped; if the tool comes back before it has
  crashed, the next revert fails before its `munmap` and leaves its region mapped
  (the premise `Doomed` of `RegionsOwned` and `MainUntouched`).

In `verdicts` five events are the start and four more: a fault, two answers and
a revert, or two faults and two answers, which is what the loops of the verdicts
relate at a time, with any order of their times that `EmitGap` lets happen.  The
four answers are a quick and a slow one of each probe, two of them failures, so
that each fault meets a failure it expects and one it does not.  The bounds and
windows of the verdicts range over all numbers up to `MaxTime` or the length.
The multiplier of the baseline is 2 and its allowed drop 0; the other bounds of
a verdict are quantified.

In `observed_run` one probe's check may take as long as its period, so that it
misses ticks, and the other may time out by name; the warmup ends between two
ticks of one and within a check of the other.  A fault is due for its revert as
soon as it is injected, so that timer and drain race.  Two rounds are one that
injects, skips or gives up, and the last, which does not.  Listing pods and
injecting take up to one unit (`MaxLag`).  A check that ends in time succeeds
(`InTime`): what it reports decides nothing but the verdicts, which `verdicts`
and the proofs are about.  The four faults are one of each way to be tracked and
reverted: listed by both commands with a timer, by `run` only, listed without a
timer and with a task that emits in any case, and never listed.  Five units cover
the warmup, the loop and a check that was begun at its end.

Three things the models show in passing.  A probe task that is in a check when
it is told to stop finishes it and emits after the failures were counted, even
after `SimulationEnded`: the totals are those of some earlier list, which is
all `TimelineBus` promises of them (`EmitEnded`).  When the pods cannot be
listed in `explore`, the sender of the cancellation is dropped and not used
(`Abandons`), so those probes run on while the next seed is simulated.  And
`steady_state.rs` wants one moment without faults, so it passes although a later
fault is never reverted, and fails for any run whose only faults are crashes,
which have no revert (`SteadyMeaning` says what it does ensure).

In `vdso` two threads are the one that is stopped and one that is not; two
addresses let two patches nest and a third allocation reuse a region that was
freed; three invocations are two injections and a revert, an injection, its
revert out of turn and another injection, or a revert of another life's handle.
One signal is enough to be reported instead of the SIGSTOP or to end a single
step, and one kill to leave any step undone.

In `exploration` four seeds give a sequential search a failing seed with up to
three before it, so that both loops of bisection halve twice and meet seed 0;
two per batch let a later seed of a batch be good before an earlier one is
bisected.  Most templates and definitions are tried with one seed
(`MCExploration`), as they only decide what a run can show.

Three threads are one in hand, one that stops meanwhile and one that is cloned,
dies or was never attached; the tracer's steps relate no more than two of them
at a time.

## 4. Fairness

`FaultTracker`: a call of `revert_all` that has begun keeps being polled, and a
job ends (each has a 10 s timeout).  Nobody is obliged to call, to track, or to
see a timer fire.  `ChaosRun`: tokio polls every ready task, so the main task,
the timed reverts and the drain's steps are weakly fair; a `kubectl` command
ends, inside a job by its timeout at the latest.  SIGINT is never obliged to
come, no pod to go or come back, and no debug container to run.
`PtraceTracer`: the tracer takes its steps, the deadline passes, and a call in
the kernel returns, unless it is one that waits for another thread.  No thread
is obliged to make a call, and no signal to come.  `EndsOrStuck` says under
these that the only ways not to end are three, each a wait for one thread
without a deadline.

`ProbeRun`: a probe task that is ready is polled (weak fairness of `Ticks`,
`Finishes` and `Emits`), and a check ends, at its timeout at the latest.
`Cancelled` is strongly fair: `tokio::select!` polls its ready branches in
random order, so a tick that is due may win many times but not for ever.  The
handler, the timers and SIGINT are obliged to nothing.

`VdsoPatch`: the tool's own steps are weakly fair; nobody is obliged to invoke
it, to send a signal, or to kill anything, and the target may stay where it is.
`Exploration`: the command goes on, which includes that the run of a seed ends
(its loop is `Terminates` of `ChaosRun`); outcomes are chosen by nobody in
particular, so that `ExploreEnds` holds for all of them.

The simulation and `TimelineBus` are checked for safety only; that the former
does not get stuck is TLC's deadlock check.

Time is not modelled in `FaultTracker` and `ChaosRun`: a timer may fire at any
moment after it was set.  That covers every duration of a run; it also covers
orders that the actual 15 or 20 s exclude for some durations, and the
properties hold of those too.  In one place time is used: all jobs of a drain
start together with 10 s each, so its deadline of 30 s cannot cut one off.

## 5. What is proved

`FaultTracker_proofs`, for any set of faults and any number of calls: types,
`DrainApart` (its halves are `OneDrain` and `PartsDisjoint`),
`NoFaultForgotten`, and the refinement of `FaultLedger`.  None of the invariants
is inductive.  `IInv` adds that jobs and failed jobs exist only while a call
drains (so `TakeAll` overwrites nothing), that a task about to untrack has seen
its revert succeed (so `Untrack` strikes off a settled fault), and that nothing
is owed or timed that was not tracked (so `Track` adds a fresh fault).

`ChaosRun_proofs`, for any number of rounds and pods and any errors:
`UsesTracker`, every step of the commands is a step of the tracker, by `RoundInv`
(a fault's identifier is tracked only when its round tracks it); hence
`RunForgetsNothing` by the theorems about the tracker; and `RunSecondChance`, by
`DrainInv`, which follows the list from `CountActive` through the drain.
`RunTypes`, the types, needs to know which command of an injection or of a
revert is next (`AtInv`, `StepInv`) and that only proper faults are tracked
(`TrackedInv`).  The rest is about the rules in the kernels, and its invariant is
`StandInv`, which no property states, as it holds at the single command and not
only between them.  From above (`UpperInv`) a rule has no more instances than
there are faults that may have one: those half injected, and those tracked, not
settled, and passed by no revert, of the timer or the drain, that goes well
(`Owing`), and deletions that `kubectl debug` took and that have deleted nothing
(`InVain`); instances still to be added by a container count as well
(`Standing`).  From below (`LowerInv`), until the drain of `run` by exec takes the
list, it has no fewer than there are faults whose pod is there and whose timed
revert has not come to it (`Firm`), less those a revert of an earlier pod's fault
may have taken (`Spent`).  Two faults on one rule count twice on both sides.  Each
command moves rule and set together: a deletion without an error of its own fails
only where there is nothing to delete, a pod that is gone has no rules and no
containers (`GoneInv`), with "exec" no container ever waits (`ExecInv`), and a
fault on a pod that is gone is bereft (`BereftInv`).  From it follow

- `NoOrphans`: every rule belongs to a fault that is owed a revert, but for one
  per deletion in vain, for both inject methods, and `RulesFollowFaults`: what
  is reported reverted is gone up to such deletions, and, for `run` by exec,
  what is in force stands.  Both are under `Tolerated`, that at most one command
  has failed without cause, and none if replies can be lost: a second error
  makes the roll-back of a DNS injection fail and leaves a rule that no fault
  owns, which is how the code is.  The run has one error and no lost addition,
  so there the premise is always true;
- `FaultsStay`: in `run` by exec, a tracked fault that nobody has begun to revert
  and whose pod is there is in force, whatever fails and however often.  No revert
  of another fault takes its rule, but for a fault of an earlier pod of the same
  name, which takes one at most (this is `StaysInForce` of `RulesMatchFaults`);
- `RunCleansUp`, which is `CleanExit`, for `run` by exec and by `CountInv`: in the
  drain a rule has no more instances than jobs still to come to it, and then none.
  With "debug" it is false (section 3).

`DstEngine_proofs`, for any pods, kinds and times with a positive probe
interval, positive delays and durations: the types; `FiresInOrder`, the
refinement of `EventAgenda`, by `TimeInv` (the batch is due now and the heap is
in the future, which is where the positive times are needed);
`TimelineInOrder`, by `PrioInv` (each event of the simulation has its priority)
and `OrderInv` (once a pod was probed at an instant only probes are left of the
batch); `ProbesExplained`, by `ActiveInv`: the faults in the map of active faults
are those the timeline shows in force, and the partitions of the network those of
the faults among them, each its own, so that the revert of one never heals
another; and `KeepsSchedule`, that what is scheduled happens at its time, once, or
not at all after the end.  That needs to follow every timer: the end is pending
until it is over (`EndInv`), an injected fault has one revert pending when it is
due or had it then (`Window`), and each pod has one probe pending on its beat, and
on every beat before it was probed once (`Cadence`).

`PtraceTracer_proofs`, for any threads: the types; `TracerIsInformed` (no stop
is forgotten while the tracer waits, and until it gives up it lists only threads
it traces) by an invariant that adds that a thread is
pending only in a stop or death, that at most one thread is in hand and its stop has been
reported, that threads which never ran are in no table, and that the parent of
an awaited child is traced and stopped; and `SingleThreadInStep`, by an
invariant that places the only thread for each position of the tracer.

`TimelineBus_proofs`, for any probes, faults, answers, bounds and windows:
`ListInOrder`, the order of the list, where a fault is injected once and may have
any number of reverts, all of them later, by an invariant that adds that nothing
is stamped in the future and that injections and reverts alone name a fault; and
from that order `CascadeSound`, `RecoverySound`, `DetectionSound` and, of the
last two, `FaultsSound`: NoCascade, RecoveryTime, DnsResolution and the detection
latency mean what they should, up to races at the ends of their windows.
`ProbesSound` is `ProbeMeaning`, what the verdicts that count mean, from
a second invariant, `SampleInv` (samples are of the probes, the list begins at
zero): `RankedIs`, that a rank among latencies is at most `m` iff that many of
them are; `Slides`, that the windows that start at an event bound every other;
and `StreakIs` and `ActiveIs`, that two loops over the list leave, after each
event, what a set of its positions says (`RunOf`, `ActiveAt`).  The library's
theorems on induction cannot be used here, but the first position at which loop
and set differ can be chosen, and there they do not (`Least`).

`ProbeRun_proofs`, for any probes, faults, periods, timeouts and delays: the
types, and `Refinement`: every step of a run is a step of `TimelineBus` or
changes nothing of the list.  A
step that appends refines only if the pending event is still recent, is no
earlier than what its task has appended and speaks of the right thing
(`PendInv`); if the handler's pending event is the injection of a fault not yet
used, the revert of a blocked eviction, or the one end of the list, with totals of
some prefix (`MainInv`); and if what is listed, has a task or is in a job was
injected (`FaultInv`).  One lemma, `AppendRefines`, is about any task's append.
Nothing is assumed of how often a fault is reverted.  With the
theorems about `TimelineBus` this gives `RunVerdicts`: on the list of every run
every verdict means what it is to mean.  `ApartPhases` is `PhasesApart`, by
`PhaseInv`: the samples of the warmup that the baseline came too early for
(`Missed`) were pending when it was taken, at most one of each probe, and no probe
that has one of these in the list has another to come.

`VdsoPatch_proofs`, for any threads, addresses and numbers of invocations,
signals, kills and restarts: the types; `MainGoesOn`, by `MainInv`, which says
for each request of an invocation whether the main thread has its own registers
and that only a region gone keeps `Restore` from giving them back; and
`PatchesNest`.  That one needs more than its chain: `ChainInv` adds that no
region occurs twice in the chain, and `HandInv` says what the invocation at work
holds: which parts of its region are written at each step, that the region is in
no other patch, and that the handle of a revert in turn is the last of the
chain.  Both hold as long as the process lives and nothing was disturbed.
`NoRegionLeaks` is `RegionsOwned`, by `OwnedInv`: what is mapped is patched in or
in the hands of the invocation at work, because without signals and kills the
step that the tool asks for executes the call, and so an injection has an address
exactly if `mmap` gave it one.

`Exploration_proofs`, for any seeds, outcomes, strategies and definitions: the
types, where `high = mid - 1` stays a natural number only because the loop
breaks at 0; `BoundarySeen`, by `BisInv` (below `low` a seed was seen to pass, or
`low` is the start; at `nearest` one was seen to fail, or it is the seed itself;
`high` follows `nearest` by the rule of its loop); `ExitIsTold`, without a
premise on template or definitions, by `ResInv` (results are the runs drawn that
ended well, and what was missed is excused) and the lemmas that what is asked for
can be built if the config file's definitions can (`AskedCheckable`), as every
template can, and that only the two cases of `ExitTells` leave a property asked
for unjudged (`MissedExcused`); and
`PanicsOnlyThen`, by an invariant that says of a sequential search from 0 that
every seed below the next one has a result, that no bisection leaves those, and
that a batch joined in order has results for all before it.

The assumptions are those named in the modules: types of the constants, and
the positive times just mentioned, which `run()` ensures for the probe interval
and its literals give for the rest.

Only model-checked: liveness (`DrainEnds`, `Terminates`, `EndsOrStuck`, `ProbesEnd`,
`Resumes`, `ExploreEnds`), which this prover does not do under fairness.  Every
other property of a passing run is also a theorem, two of them, `NoOrphanRule` and
`RulesMatchFaults`, under `Tolerated`, without which they are false.

## 6. What is not modelled, and what could come

Left out for good: single probes, discovery and k3d calls, requests to the
diverge service, parsing, formatting, telemetry, RBAC manifests, ELF and machine
code: I/O and data conversions without state that a model would only restate.
`wait_for_running` is a loop over one request and a clock; it polls before it
compares the deadline, so an environment that becomes ready during the last
sleep is still seen, and any error of a poll ends it.  The process table, the
message queue of `VirtualNetwork` and `fault/src/{injector,schedule}.rs` are used
by tests only.  `validate_namespace` (`fencing.rs`) is a predicate that of all
commands only `diverge run` calls.

Could come, in this order:

1. Proofs: what `Tolerated` excludes, a bound on the rules left behind by the
   number of errors; for `Terminates` and `ExploreEnds` the safety half, a
   measure that every step but a timer's decreases.
2. The processes of a pod, for what a late `pkill` does to stress-ng.
3. `checker.rs` and the dispatch of `props/src/timeline.rs`.

The runs are one per question; what is added is to share a run with the
component it belongs to where one of the present questions covers it.
