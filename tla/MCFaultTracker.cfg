SPECIFICATION MCSpec
CONSTANTS
  Faults = {f1, f2}
  Calls = {c1, c2, c3}
INVARIANTS
  TrackerTypeOK
  DrainApart
  NoFaultForgotten
PROPERTIES
  RefinesLedger
  DrainEnds
