------------------------ MODULE FaultTracker_proofs ------------------------
(***************************************************************************)
(* Proofs about FaultTracker, for any set of faults and any set of calls.  *)
(* The invariants are proved through the inductive invariant IInv; the     *)
(* refinement of FaultLedger through IInv and one step per action.         *)
(***************************************************************************)
EXTENDS FaultTracker, TLAPS

\* Jobs and failed jobs exist only while a call drains.
HeldByDrain == held \cup requeue # {} => \E c \in Calls : call[c] = "draining"

\* A timed-revert task that is about to untrack has seen its revert succeed.
ConfirmedIsSettled == \A f \in Faults : timer[f] = "confirmed" => f \in settled

\* Nothing is owed, settled or timed that was not tracked.
OnlyTracked ==
  /\ Owed \cup settled \subseteq tracked
  /\ \A f \in Faults : timer[f] # "none" => f \in tracked

IInv ==
  /\ TrackerTypes
  /\ OneDrain
  /\ HeldByDrain
  /\ PartsDisjoint
  /\ NoFaultForgotten
  /\ ConfirmedIsSettled
  /\ OnlyTracked

USE DEF CallState, TimerState, Owners

-----------------------------------------------------------------------------
LEMMA InitIInv == TrackerInit => IInv
  BY DEF TrackerInit, IInv, TrackerTypes, OneDrain, HeldByDrain, PartsDisjoint,
         NoFaultForgotten, ConfirmedIsSettled, OnlyTracked, Owed

LEMMA TypeStep == TrackerTypes /\ [TrackerNext]_trackerVars => TrackerTypes'
<1> SUFFICES ASSUME TrackerTypes, [TrackerNext]_trackerVars PROVE TrackerTypes'
  OBVIOUS
<1> USE DEF TrackerTypes
<1>1. ASSUME NEW f \in Faults, ClientStep(f) PROVE TrackerTypes'
  BY <1>1 DEF ClientStep, Track, TimedRevertOk, TimedRevertErr, Untrack
<1>2. ASSUME NEW f \in Faults, JobStep(f) PROVE TrackerTypes'
  BY <1>2 DEF JobStep, JobOk, JobErr
<1>3. ASSUME NEW c \in Calls, CallStep(c) PROVE TrackerTypes'
  BY <1>3 DEF CallStep, ClaimGuard, JoinWait, WaitOver, TakeAll, Requeue, Release
<1>4. CASE UNCHANGED trackerVars
  BY <1>4 DEF trackerVars
<1>5. QED
  BY <1>1, <1>2, <1>3, <1>4 DEF TrackerNext

\* The guard: who owns it changes only at ClaimGuard and Release.
LEMMA GuardStep ==
  TrackerTypes /\ OneDrain /\ HeldByDrain /\ [TrackerNext]_trackerVars
    => OneDrain' /\ HeldByDrain'
<1> SUFFICES ASSUME TrackerTypes, OneDrain, HeldByDrain, [TrackerNext]_trackerVars
             PROVE  OneDrain' /\ HeldByDrain'
  OBVIOUS
<1> USE DEF TrackerTypes, OneDrain, HeldByDrain
<1>1. ASSUME NEW f \in Faults, ClientStep(f) PROVE OneDrain' /\ HeldByDrain'
  BY <1>1 DEF ClientStep, Track, TimedRevertOk, TimedRevertErr, Untrack
<1>2. ASSUME NEW f \in Faults, JobStep(f) PROVE OneDrain' /\ HeldByDrain'
  BY <1>2 DEF JobStep, JobOk, JobErr
<1>3. ASSUME NEW c \in Calls, CallStep(c) PROVE OneDrain' /\ HeldByDrain'
  <2>1. CASE ClaimGuard(c)
    BY <2>1 DEF ClaimGuard
  <2>2. CASE JoinWait(c) \/ WaitOver(c)
    BY <2>2 DEF JoinWait, WaitOver
  <2>3. CASE TakeAll(c)
    BY <2>3 DEF TakeAll
  <2>4. CASE Requeue(c)
    BY <2>4 DEF Requeue
  <2>5. CASE Release(c)
    BY <2>5 DEF Release
  <2>6. QED
    BY <1>3, <2>1, <2>2, <2>3, <2>4, <2>5 DEF CallStep
<1>4. CASE UNCHANGED trackerVars
  BY <1>4 DEF trackerVars
<1>5. QED
  BY <1>1, <1>2, <1>3, <1>4 DEF TrackerNext

\* Where the faults are.
LEMMA FaultsStep == IInv /\ [TrackerNext]_trackerVars
    => PartsDisjoint' /\ NoFaultForgotten' /\ ConfirmedIsSettled' /\ OnlyTracked'
<1> DEFINE Goal == PartsDisjoint /\ NoFaultForgotten /\ ConfirmedIsSettled /\ OnlyTracked
<1> SUFFICES ASSUME IInv, [TrackerNext]_trackerVars PROVE Goal'
  OBVIOUS
<1> USE DEF IInv, TrackerTypes, PartsDisjoint, NoFaultForgotten, ConfirmedIsSettled,
            OnlyTracked, Owed
<1>1. ASSUME NEW f \in Faults, ClientStep(f) PROVE Goal'
  <2>1. ASSUME NEW timed \in BOOLEAN, Track(f, timed) PROVE Goal'
    BY <2>1 DEF Track
  <2>2. CASE TimedRevertOk(f) \/ TimedRevertErr(f)
    BY <2>2 DEF TimedRevertOk, TimedRevertErr
  <2>3. CASE Untrack(f)
    BY <2>3 DEF Untrack
  <2>4. QED
    BY <1>1, <2>1, <2>2, <2>3 DEF ClientStep
<1>2. ASSUME NEW f \in Faults, JobStep(f) PROVE Goal'
  BY <1>2 DEF JobStep, JobOk, JobErr
<1>3. ASSUME NEW c \in Calls, CallStep(c) PROVE Goal'
  <2>1. CASE ClaimGuard(c) \/ JoinWait(c) \/ WaitOver(c) \/ Release(c)
    BY <2>1 DEF ClaimGuard, JoinWait, WaitOver, Release
  <2>2. CASE TakeAll(c)
    <3>1. held = {} /\ requeue = {}
      \* no other call can be draining while c owns the guard
      BY <2>2 DEF TakeAll, OneDrain, HeldByDrain
    <3>2. QED
      BY <2>2, <3>1 DEF TakeAll
  <2>3. CASE Requeue(c)
    BY <2>3 DEF Requeue
  <2>4. QED
    BY <1>3, <2>1, <2>2, <2>3 DEF CallStep
<1>4. CASE UNCHANGED trackerVars
  BY <1>4 DEF trackerVars
<1>5. QED
  BY <1>1, <1>2, <1>3, <1>4 DEF TrackerNext

\* IInv is an invariant of the tracker.
THEOREM Invariance == TrackerSpec => []IInv
<1>1. IInv /\ [TrackerNext]_trackerVars => IInv'
  BY TypeStep, GuardStep, FaultsStep DEF IInv
<1>2. QED
  BY InitIInv, <1>1, PTL DEF TrackerSpec

-----------------------------------------------------------------------------
\* The tracker's variables keep their types, and what a call of revert_all holds
\* is gone once it has freed the guard.
THEOREM TypeCorrect == TrackerSpec => []TrackerTypeOK
<1>1. IInv => TrackerTypeOK
  BY DEF IInv, TrackerTypeOK, OneDrain, HeldByDrain
<1>2. QED
  BY Invariance, <1>1, PTL

\* The compare_exchange guard of revert_all admits one drain at a time, and is
\* up exactly while there is one.
THEOREM MutualExclusion == TrackerSpec => []OneDrain
<1>1. IInv => OneDrain
  BY DEF IInv
<1>2. QED
  BY Invariance, <1>1, PTL

\* A fault is in at most one of the list, the jobs and the failed jobs.
THEOREM OnePlace == TrackerSpec => []PartsDisjoint
<1>1. IInv => PartsDisjoint
  BY DEF IInv
<1>2. QED
  BY Invariance, <1>1, PTL

\* Drains are kept apart by the flag, and faults by the list (revert_all).
THEOREM DrainsApart == TrackerSpec => []DrainApart
<1>1. OneDrain /\ PartsDisjoint => DrainApart
  BY DEF DrainApart
<1>2. QED
  BY MutualExclusion, OnePlace, <1>1, PTL

\* Whatever races with whatever, a tracked fault stays owed until a revert of
\* it was confirmed.
THEOREM NothingForgotten == TrackerSpec => []NoFaultForgotten
<1>1. IInv => NoFaultForgotten
  BY DEF IInv
<1>2. QED
  BY Invariance, <1>1, PTL

-----------------------------------------------------------------------------
\* A step of the tracker is a step of the ledger or leaves the ledger alone.
LEMMA LedgerStep ==
  IInv /\ [TrackerNext]_trackerVars => [Ledger!LedgerNext]_(Ledger!ledger)
<1> SUFFICES ASSUME IInv, [TrackerNext]_trackerVars
             PROVE  Ledger!LedgerNext \/ UNCHANGED Ledger!ledger
  BY DEF Ledger!ledger
<1> USE DEF Ledger!LedgerNext, Ledger!ledger, Owed
<1>1. ASSUME NEW f \in Faults, ClientStep(f)
      PROVE  Ledger!LedgerNext \/ UNCHANGED Ledger!ledger
  <2>1. ASSUME NEW timed \in BOOLEAN, Track(f, timed) PROVE Ledger!Incur(f)
    BY <2>1 DEF Track, IInv, OnlyTracked, Ledger!Incur
  <2>2. CASE TimedRevertOk(f)
    <3>1. f \in Owed \cup settled
      BY <2>2 DEF TimedRevertOk, IInv, OnlyTracked, NoFaultForgotten
    <3>2. Ledger!Confirm(f)
      BY <2>2, <3>1 DEF TimedRevertOk, Ledger!Confirm
    <3>3. QED
      BY <3>2
  <2>3. CASE TimedRevertErr(f)
    BY <2>3 DEF TimedRevertErr
  <2>4. CASE Untrack(f)
    <3>1. f \in settled
      BY <2>4 DEF Untrack, IInv, ConfirmedIsSettled
    <3>2. CASE f \in held \cup requeue
      BY <2>4, <3>2 DEF Untrack
    <3>3. CASE f \notin held \cup requeue
      <4>1. Ledger!StrikeOff(f)
        BY <2>4, <3>1, <3>3 DEF Untrack, Ledger!StrikeOff
      <4>2. QED
        BY <4>1
    <3>4. QED
      BY <3>2, <3>3
  <2>5. QED
    BY <1>1, <2>1, <2>2, <2>3, <2>4 DEF ClientStep
<1>2. CASE \E f \in Faults : JobOk(f)
  <2>1. PICK f \in Faults : JobOk(f)
    BY <1>2
  <2>2. Owed' = Owed \ {f}
    BY <2>1 DEF JobOk, IInv, PartsDisjoint
  <2>3. Ledger!Confirm(f)
    BY <2>1, <2>2 DEF JobOk, Ledger!Confirm
  <2>4. QED
    BY <2>3
<1>3. CASE \E f \in Faults : JobErr(f)
  BY <1>3 DEF JobErr
<1>4. ASSUME NEW c \in Calls, CallStep(c) PROVE UNCHANGED Ledger!ledger
  <2>1. CASE TakeAll(c)
    <3>1. held = {} /\ requeue = {}
      BY <2>1 DEF TakeAll, IInv, TrackerTypes, OneDrain, HeldByDrain
    <3>2. QED
      BY <2>1, <3>1 DEF TakeAll
  <2>2. CASE Requeue(c)
    BY <2>2 DEF Requeue
  <2>3. CASE ClaimGuard(c) \/ JoinWait(c) \/ WaitOver(c) \/ Release(c)
    BY <2>3 DEF ClaimGuard, JoinWait, WaitOver, Release
  <2>4. QED
    BY <1>4, <2>1, <2>2, <2>3 DEF CallStep
<1>5. CASE UNCHANGED trackerVars
  BY <1>5 DEF trackerVars
<1>6. QED
  BY <1>1, <1>2, <1>3, <1>4, <1>5 DEF TrackerNext, JobStep

\* The tracker implements the ledger: it strikes a fault off only after a
\* confirmed revert, whoever races with whom.
THEOREM Refinement == TrackerSpec => RefinesLedger
<1>1. TrackerInit => Ledger!LedgerInit
  BY DEF TrackerInit, Ledger!LedgerInit, Owed
<1>2. QED
  BY Invariance, LedgerStep, <1>1, PTL DEF TrackerSpec, RefinesLedger, Ledger!LedgerSpec
=============================================================================
