------------------------ MODULE PtraceTracer_proofs ------------------------
(***************************************************************************)
(* The tracer's table and the stops it has to see, for any set of threads. *)
(***************************************************************************)
EXTENDS PtraceTracer, TLAPS

USE LeaderAssumption

\* Before it resumes the threads, a stop that has been reported is known to the table.
StopsKnown ==
  pc \in {"attach", "loop"} =>
    \A t \in traced : place[t] \in Stops => t \in pending \/ table[t] = "Running"

\* While a call is handled, only the thread that makes it is in a reported stop.
OneInHand ==
  pc = "handle" => \A t \in traced : place[t] \in Stops => t \in pending \/ t = cur

\* Before it attaches, the tracer knows no thread.
Fresh == pc = "enumerate" => traced = {} /\ Listed = {}

\* The parent of a clone is traced while its child is awaited.
ParentTraced == pc = "childwait" => cur \in traced

IInv ==
  /\ TracerTypeOK
  /\ NoStopForgotten
  /\ TableSound
  /\ StopsKnown
  /\ OneInHand
  /\ Fresh
  /\ ParentTraced

\* Resuming threads moves them between places a thread may have, and out of
\* every stop; it stops none.
LEMMA ResumedPlaces ==
  ASSUME ThreadsTypeOK, NEW S \in SUBSET Threads
  PROVE  /\ Resumed(place, S) \in [Threads -> Stops \cup Deaths \cup {"none", "user", "kernel", "gone"}]
         /\ \A t \in Threads : Resumed(place, S)[t] \in Stops => t \notin S /\ place[t] \in Stops
         /\ pending \ Stopped(S) \subseteq traced
         /\ \A t \in pending : t \notin S => t \in pending \ Stopped(S)
BY DEF ThreadsTypeOK, Resumed, Stopped, Stops, Deaths

\* Whatever the threads do by themselves, none is released by it, and one that
\* stops has a status to be reported.
LEMMA NewStops ==
  ASSUME ThreadsTypeOK, ThreadStep
  PROVE  /\ ThreadsTypeOK'
         /\ traced \subseteq traced' /\ pending \subseteq pending'
         /\ traced = {} => traced' = {}
         /\ \A t \in traced' : place'[t] \in Stops =>
              t \in pending' \/ (t \in traced /\ place[t] \in Stops)
<1> DEFINE G ==
      /\ ThreadsTypeOK'
      /\ traced \subseteq traced' /\ pending \subseteq pending'
      /\ traced = {} => traced' = {}
      /\ \A t \in traced' : place'[t] \in Stops =>
           t \in pending' \/ (t \in traced /\ place[t] \in Stops)
<1> USE DEF ThreadsTypeOK, Stops, Deaths, Calls
<1>1. ASSUME NEW t \in Threads, Enter(t) PROVE G
  BY <1>1 DEF Enter
<1>2. ASSUME NEW t \in Threads, Signal(t) PROVE G
  BY <1>2 DEF Signal
<1>3. ASSUME NEW t \in Threads, Return(t) PROVE G
  BY <1>3 DEF Return, InKernel
<1>4. ASSUME NEW t \in Threads, CloneFails(t) PROVE G
  BY <1>4 DEF CloneFails, InKernel
<1>5. ASSUME NEW t \in Threads, ThreadExit(t) PROVE G
  BY <1>5 DEF ThreadExit, InKernel
<1>6. ASSUME NEW t \in Threads, NEW n \in Threads, Clone(t, n) PROVE G
  BY <1>6 DEF Clone, InKernel
<1>7. ASSUME NEW d \in Deaths, Dying(d) PROVE G
  BY <1>7 DEF Dying, Live
<1>8. ASSUME NEW t \in Threads, NEW n \in Threads, FreeClone(t, n) PROVE G
  BY <1>8 DEF FreeClone, Live
<1>9. ASSUME NEW t \in Threads, FreeExit(t) PROVE G
  BY <1>9 DEF FreeExit, Live
<1>10. ASSUME NEW t \in Threads, Executes(t) PROVE G
  BY <1>10, <1>3, <1>4, <1>5, <1>6, <1>7 DEF Executes, ExitGroup
<1> QED
  BY <1>1, <1>2, <1>7, <1>8, <1>9, <1>10 DEF ThreadStep, FreeExitGroup, Kill

\* Initially nothing is attached and nothing listed.
LEMMA InitIInv == Init => IInv
<1> SUFFICES ASSUME Init PROVE IInv
  OBVIOUS
<1>1. ThreadsTypeOK
  <2>1. place \in [Threads -> {"none", "user"}]
    BY DEF Init, ThreadsInit
  <2> QED BY <2>1 DEF Init, ThreadsInit, ThreadsTypeOK, Stops, Deaths, Calls
<1>2. TracerTypeOK
  BY <1>1 DEF Init, TracerTypeOK, PC
<1>3. Listed = {} /\ traced = {} /\ pc = "enumerate"
  BY DEF Init, ThreadsInit, Listed
<1> QED
  BY <1>2, <1>3 DEF IInv, NoStopForgotten, TableSound, StopsKnown, OneInHand, Fresh, ParentTraced

\* The inductive invariant is kept by every step.
LEMMA StepIInv == IInv /\ [Next]_vars => IInv'
<1> SUFFICES ASSUME IInv, [Next]_vars PROVE IInv'
  OBVIOUS
<1> USE DEF IInv, TracerTypeOK, PC
<1> DEFINE Inv == NoStopForgotten /\ TableSound /\ StopsKnown /\ OneInHand /\ Fresh /\ ParentTraced
<1> USE DEF NoStopForgotten, TableSound, StopsKnown, OneInHand, Fresh, ParentTraced, Listed
<1>1. CASE Enumerate
  BY <1>1 DEF Enumerate, GiveUp, threadVars, ThreadsTypeOK, Live
<1>2. ASSUME NEW t \in Threads, Attach(t) PROVE IInv'
  <2>1. TracerTypeOK'
    BY <1>2 DEF Attach, ThreadsTypeOK, Stops
  <2>2. Inv'
    BY <1>2 DEF Attach, ThreadsTypeOK
  <2> QED BY <2>1, <2>2
<1>3. CASE AttachFails \/ AllAttached \/ StopGracefully \/ DurationExpired \/ NoChildren
           \/ SetResultFails \/ Detached
  BY <1>3 DEF AttachFails, AllAttached, StopGracefully, DurationExpired, NoChildren,
              SetResultFails, Detached, GiveUp, threadVars, ThreadsTypeOK
<1>4. CASE ResumeRunning
  <2> DEFINE S == {t \in Threads : table[t] = "Running"}
  <2>1. place' = Resumed(place, S) /\ pending' = pending \ Stopped(S)
    BY <1>4 DEF ResumeRunning, Resume
  <2> HIDE DEF S
  <2>2. S \in SUBSET Threads /\ \A t \in Threads : table[t] = "Running" => t \in S
    BY DEF S
  <2>3. TracerTypeOK'
    BY <1>4, <2>1, <2>2, ResumedPlaces DEF ResumeRunning, ThreadsTypeOK
  <2>4. Inv'
    BY <1>4, <2>1, <2>2, ResumedPlaces DEF ResumeRunning, ThreadsTypeOK
  <2> QED BY <2>3, <2>4
<1>5. ASSUME NEW t \in Threads, SyscallStop(t) PROVE IInv'
  BY <1>5 DEF SyscallStop, Polls, Waitable, ThreadsTypeOK
<1>6. ASSUME NEW t \in Threads, CloneEvent(t) PROVE IInv'
  BY <1>6 DEF CloneEvent, Polls, Waitable, ThreadsTypeOK
<1>7. CASE ChildStopped
  <2> DEFINE n == child[cur]
  <2> DEFINE S == {n, cur}
  <2>1. n \in Threads /\ n \in traced /\ cur \in traced
    BY <1>7 DEF ChildStopped, Waitable, ThreadsTypeOK
  <2>2. place' = Resumed(place, S) /\ pending' = pending \ Stopped(S)
    BY <1>7 DEF ChildStopped, Resume
  <2>3. /\ pc = "childwait" /\ pc' = "poll" /\ cur' = Leader
        /\ table' = [table EXCEPT ![n] = "Running", ![cur] = "Running"]
        /\ UNCHANGED <<call, child, traced, todo, expired, shutdown, outcome>>
    BY <1>7 DEF ChildStopped
  <2> HIDE DEF n, S
  <2>4. S \in SUBSET Threads /\ cur \in S
    BY <2>1 DEF S
  <2>5. TracerTypeOK'
    BY <2>1, <2>2, <2>3, <2>4, ResumedPlaces DEF ThreadsTypeOK
  <2>6. Inv'
    BY <2>1, <2>2, <2>3, <2>4, ResumedPlaces DEF ThreadsTypeOK
  <2> QED BY <2>5, <2>6
<1>8. CASE ChildDied
  BY <1>8 DEF ChildDied, Waitable, Reap, GiveUp, ThreadsTypeOK, Stops
<1>9. ASSUME NEW t \in Threads, SignalStop(t) PROVE IInv'
  <2>1. /\ place' = Resumed(place, {t}) /\ pending' = pending \ Stopped({t})
        /\ pc = "poll" /\ t \in traced
        /\ table' = [table EXCEPT ![t] = IF @ = "none" THEN @ ELSE "Running"]
        /\ UNCHANGED <<call, child, traced, pc, todo, cur, expired, shutdown, outcome>>
    BY <1>9 DEF SignalStop, Resume, Polls, Waitable, ThreadsTypeOK
  <2>2. TracerTypeOK'
    BY <2>1, ResumedPlaces DEF ThreadsTypeOK
  <2>3. Inv'
    BY <2>1, ResumedPlaces DEF ThreadsTypeOK
  <2> QED BY <2>2, <2>3
<1>10. ASSUME NEW t \in Threads, Died(t) PROVE IInv'
  <2>1. TracerTypeOK'
    BY <1>10 DEF Died, Polls, Waitable, Reap, Forget, GiveUp, ThreadsTypeOK
  <2>2. Inv'
    BY <1>10 DEF Died, Polls, Waitable, Reap, Forget, GiveUp, ThreadsTypeOK, Stops
  <2> QED BY <2>1, <2>2
<1>11. CASE SetResult
  <2>1. /\ place' = Resumed(place, {cur}) /\ pending' = pending \ Stopped({cur})
        /\ pc = "handle" /\ pc' = "exitwait"
        /\ UNCHANGED <<child, traced, todo, table, cur, expired, shutdown, outcome>>
    BY <1>11 DEF SetResult, Resume
  <2>2. call' \in [Threads -> Calls \cup {"return"}]
    BY <1>11 DEF SetResult, ThreadsTypeOK
  <2>3. TracerTypeOK'
    BY <2>1, <2>2, ResumedPlaces DEF ThreadsTypeOK
  <2>4. Inv'
    BY <2>1, ResumedPlaces DEF ThreadsTypeOK
  <2> QED BY <2>3, <2>4
<1>12. CASE ExitStop
  BY <1>12 DEF ExitStop, Waitable, ThreadsTypeOK
<1>13. CASE OtherStop
  <2>1. /\ place' = Resumed(place, {cur}) /\ pending' = pending \ Stopped({cur})
        /\ pc = "exitwait"
        /\ UNCHANGED <<call, child, traced, tracerState>>
    BY <1>13 DEF OtherStop, Resume
  <2>2. TracerTypeOK'
    BY <2>1, ResumedPlaces DEF ThreadsTypeOK, tracerState
  <2>3. Inv'
    BY <2>1, ResumedPlaces DEF ThreadsTypeOK, tracerState
  <2> QED BY <2>2, <2>3
<1>14. CASE DiedInCall
  BY <1>14 DEF DiedInCall, Waitable, Reap, GiveUp, ThreadsTypeOK, Stops
<1>15. ASSUME NEW t \in Threads, Detach(t) PROVE IInv'
  BY <1>15 DEF Detach, Forget, ThreadsTypeOK, Stops
<1>16. CASE Leave
  BY <1>16 DEF Leave, ThreadsTypeOK, Stops, Deaths
<1>17. CASE TargetStep
  <2>1. /\ ThreadsTypeOK'
        /\ traced \subseteq traced' /\ pending \subseteq pending'
        /\ traced = {} => traced' = {}
        /\ \A t \in traced' : place'[t] \in Stops =>
             t \in pending' \/ (t \in traced /\ place[t] \in Stops)
    BY <1>17, NewStops DEF TargetStep
  <2>2. UNCHANGED tracerState
    BY <1>17 DEF TargetStep
  <2> QED BY <2>1, <2>2 DEF tracerState
<1>18. CASE Expire \/ Sigint
  BY <1>18 DEF Expire, Sigint, GiveUp, threadVars, ThreadsTypeOK
<1>19. CASE UNCHANGED vars
  BY <1>19 DEF vars, threadVars, tracerState, ThreadsTypeOK, Stops
<1> QED
  BY <1>1, <1>2, <1>3, <1>4, <1>5, <1>6, <1>7, <1>8, <1>9, <1>10, <1>11, <1>12, <1>13, <1>14,
     <1>15, <1>16, <1>17, <1>18, <1>19 DEF Next, TracerStep, ReportOf

\* The inductive invariant holds for any set of threads.
THEOREM TracerInvariance == Spec => []IInv
<1>1. Init => IInv
  BY InitIInv
<1>2. IInv /\ [Next]_vars => IInv'
  BY StepIInv
<1> QED BY <1>1, <1>2, PTL DEF Spec

\* The tracer and the threads keep their types (trace_with_faults).
THEOREM TracerTypes == Spec => []TracerTypeOK
<1>1. IInv => TracerTypeOK
  BY DEF IInv
<1> QED BY <1>1, TracerInvariance, PTL

\* No thread hangs in a stop the tracer will not look at (wait_for_syscall,
\* set_result), although clones, signals and deaths come in any order.
THEOREM StopsAreSeen == Spec => []NoStopForgotten
<1>1. IInv => NoStopForgotten
  BY DEF IInv
<1> QED BY <1>1, TracerInvariance, PTL

\* The table names only threads the tracer still traces (threads, in PtraceTracer).
THEOREM TableIsSound == Spec => []TableSound
<1>1. IInv => TableSound
  BY DEF IInv
<1> QED BY <1>1, TracerInvariance, PTL

\* The table and the stops still to be reported agree (PtraceTracer as a whole).
THEOREM TracerIsInformed == Spec => []TracerInformed
<1>1. NoStopForgotten /\ TableSound => TracerInformed
  BY DEF TracerInformed
<1> QED BY StopsAreSeen, TableIsSound, <1>1, PTL
(***************************************************************************)
(* A target with a single thread.                                          *)
(***************************************************************************)
\* Where the only thread is, for each place of the tracer.
LeaderPlaced ==
  LET here == place[Leader] IN
  /\ pc \notin {"enumerate", "childwait"}
  /\ pc \in {"attach", "loop"} =>
       here \in {"exit", "signal"} \cup Deaths /\ table[Leader] = "Running"
  /\ pc = "poll" => here \in {"user", "entry", "signal"} \cup Deaths
  /\ pc = "handle" => here \in {"entry"} \cup Deaths /\ cur = Leader
  /\ pc = "exitwait" =>
       /\ here \in {"kernel", "exit"} \cup Deaths
       /\ cur = Leader
       /\ Config = "connect_error" => call[Leader] # "connect"
  /\ pc \in {"detach", "leave", "done"} => here # "kernel"

AInv ==
  /\ place[Leader] # "none"
  /\ Alone /\ Leader \in traced => LeaderPlaced

\* What the only thread does by itself keeps it in step, for it can do in
\* each place of the tracer only what the tracer expects there.
LEMMA AloneTarget ==
  ASSUME TracerTypeOK, AInv, TargetStep
  PROVE  AInv'
<1> USE DEF ThreadsTypeOK, TracerTypeOK, AInv, Alone, LeaderPlaced, Deaths, PC
<1>0. UNCHANGED tracerState /\ ThreadStep
  BY DEF TargetStep
<1> USE <1>0 DEF tracerState
<1>1. ASSUME NEW t \in Threads, Enter(t) PROVE AInv'
  BY <1>1 DEF Enter
<1>2. ASSUME NEW t \in Threads, Signal(t) PROVE AInv'
  BY <1>2 DEF Signal
<1>3. ASSUME NEW t \in Threads, Return(t) PROVE AInv'
  BY <1>3 DEF Return, InKernel
<1>4. ASSUME NEW t \in Threads, CloneFails(t) PROVE AInv'
  BY <1>4 DEF CloneFails, InKernel
<1>5. ASSUME NEW t \in Threads, ThreadExit(t) PROVE AInv'
  BY <1>5 DEF ThreadExit, InKernel
<1>6. ASSUME NEW t \in Threads, NEW n \in Threads, Clone(t, n) PROVE AInv'
  BY <1>6 DEF Clone, InKernel
<1>7. ASSUME NEW d \in Deaths, Dying(d) PROVE AInv'
  BY <1>7 DEF Dying, Live, Stops
<1>8. ASSUME NEW t \in Threads, NEW n \in Threads, FreeClone(t, n) PROVE AInv'
  BY <1>8 DEF FreeClone, Live
<1>9. ASSUME NEW t \in Threads, FreeExit(t) PROVE AInv'
  BY <1>9 DEF FreeExit, Live
<1>10. ASSUME NEW t \in Threads, Executes(t) PROVE AInv'
  BY <1>10, <1>3, <1>4, <1>5, <1>6, <1>7 DEF Executes, ExitGroup
<1> QED
  BY <1>1, <1>2, <1>7, <1>8, <1>9, <1>10 DEF ThreadStep, FreeExitGroup, Kill

\* Every step keeps the only thread and the tracer in step.
LEMMA AloneStep == IInv /\ AInv /\ [Next]_vars => AInv'
<1> SUFFICES ASSUME IInv, AInv, [Next]_vars PROVE AInv'
  OBVIOUS
<1> USE DEF IInv, TracerTypeOK, ThreadsTypeOK, AInv, Alone, LeaderPlaced, Deaths, PC
<1>1. CASE Enumerate
  BY <1>1 DEF Enumerate, GiveUp, threadVars, Fresh
<1>2. ASSUME NEW t \in Threads, Attach(t) PROVE AInv'
  BY <1>2 DEF Attach, Live
<1>3. CASE AttachFails \/ AllAttached \/ StopGracefully \/ DurationExpired \/ NoChildren
           \/ SetResultFails \/ Detached
  BY <1>3 DEF AttachFails, AllAttached, StopGracefully, DurationExpired, NoChildren,
              SetResultFails, Detached, GiveUp, threadVars, Stops
<1>4. CASE ResumeRunning
  BY <1>4 DEF ResumeRunning, Resume, Resumed, Stops
<1>5. ASSUME NEW t \in Threads, SyscallStop(t) PROVE AInv'
  BY <1>5 DEF SyscallStop, Polls
<1>6. ASSUME NEW t \in Threads, CloneEvent(t) PROVE AInv'
  BY <1>6 DEF CloneEvent, Polls
<1>7. CASE ChildStopped \/ ChildDied
  BY <1>7 DEF ChildStopped, ChildDied, Resume, Resumed, Reap, GiveUp
<1>8. ASSUME NEW t \in Threads, SignalStop(t) PROVE AInv'
  BY <1>8 DEF SignalStop, Polls, Resume, Resumed
<1>9. ASSUME NEW t \in Threads, Died(t) PROVE AInv'
  BY <1>9 DEF Died, Polls, Reap, Forget, GiveUp
<1>10. CASE SetResult
  BY <1>10 DEF SetResult, Resume, Resumed, Handle, Stops
<1>11. CASE ExitStop \/ OtherStop \/ DiedInCall
  BY <1>11 DEF ExitStop, OtherStop, DiedInCall, Resume, Resumed, Reap, GiveUp, tracerState
<1>12. ASSUME NEW t \in Threads, Detach(t) PROVE AInv'
  BY <1>12 DEF Detach, Forget
<1>13. CASE Leave
  BY <1>13 DEF Leave
<1>14. CASE TargetStep
  BY <1>14, AloneTarget
<1>15. CASE Expire \/ Sigint
  BY <1>15 DEF Expire, Sigint, GiveUp, threadVars
<1>16. CASE UNCHANGED vars
  BY <1>16 DEF vars, threadVars, tracerState
<1> QED
  BY <1>1, <1>2, <1>3, <1>4, <1>5, <1>6, <1>7, <1>8, <1>9, <1>10, <1>11, <1>12, <1>13, <1>14,
     <1>15, <1>16 DEF Next, TracerStep, ReportOf

\* A target with a single thread is traced in step, and none of its connects
\* escapes (wait_for_syscall and set_result taking turns).
THEOREM SingleThreadInStep == Spec => []AloneInStep
<1>1. Init => AInv
  BY DEF Init, ThreadsInit, AInv
<1>2. IInv /\ AInv /\ [Next]_vars => AInv'
  BY AloneStep
<1>3. IInv /\ AInv => AloneInStep
  BY DEF IInv, AInv, TracerTypeOK, ThreadsTypeOK, Alone, LeaderPlaced, AloneInStep,
         NoConnectEscapes, InKernel, Deaths, PC
<1> QED BY <1>1, <1>2, <1>3, TracerInvariance, PTL DEF Spec
=============================================================================
