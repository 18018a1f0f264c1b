SPECIFICATION MCSpec
CONSTANTS
  PodCount = 2
  Enabled = {"crash", "partition", "dns", "stress"}
  Duration = 9
  Warmup = 1
  ProbeEvery = 2
  Stagger = 1
  Delays = {2, 3, 4, 5}
  Lasts <- MCLasts
INVARIANTS
  DstTypeOK
  TimelineExplainsProbes
  TimelineOrdered
  OnSchedule
PROPERTY
  RefinesAgenda
