SPECIFICATION MCSpec
CONSTANTS
  Probes = {"api", "db"}
  Faults = {"network", "dns", "stress", "eviction"}
  KindOf <- MCKindOf
  Expected <- MCExpected
  Interval <- MCInterval
  Timeout <- MCTimeout
  NamesTimeout = {"db"}
  InTime <- MCInTime
  Lasts <- MCLasts
  Warmup = 3
  FaultInterval = 1
  Quarters = 2
  EmitGap = 1
  MaxLag = 1
  MaxTime = 5
INVARIANTS
  RunTypeOK
  PhasesApart
PROPERTIES
  RefinesBus
  ProbesEnd
