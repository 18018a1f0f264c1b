SPECIFICATION MCSpec
CONSTANTS
  Probes = {"api", "db"}
  Faults = {"crash", "dns"}
  KindOf <- MCKindOf
  Expected <- MCExpected
  Answers <- MCAnswers
  EmitGap = 1
  MaxTime = 3
  MaxLen = 5
INVARIANTS
  BusTypeOK
  TimelineOrder
  CascadeMeaning
  FaultMeaning
  ProbeMeaning
