---------------------------- MODULE FaultLedger ----------------------------
(***************************************************************************)
(* What the fault tracker of crates/k8s promises, without its lock, its    *)
(* flag and its tasks.  A fault that was injected is owed a revert; it     *)
(* stops being owed only once a revert of it was reported successful.      *)
(***************************************************************************)

CONSTANT Faults  \* identifiers of injected faults (Uuid in the code)

VARIABLES
  owed,     \* faults somebody still has to revert
  settled   \* faults some revert of which returned Ok

ledger == <<owed, settled>>

LedgerInit == owed = {} /\ settled = {}

\* A new fault is owed.  An identifier is used for one fault only.
Incur(f) ==
  /\ f \notin owed \cup settled
  /\ owed' = owed \cup {f}
  /\ UNCHANGED settled

\* A revert of f succeeds.  The debt may be struck off now or later.
Confirm(f) ==
  /\ f \in owed \cup settled
  /\ settled' = settled \cup {f}
  /\ owed' \in {owed, owed \ {f}}

\* A confirmed fault is struck off.
StrikeOff(f) ==
  /\ f \in settled
  /\ owed' = owed \ {f}
  /\ UNCHANGED settled

LedgerNext == \E f \in Faults : Incur(f) \/ Confirm(f) \/ StrikeOff(f)

LedgerSpec == LedgerInit /\ [][LedgerNext]_ledger
=============================================================================
