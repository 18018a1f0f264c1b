SPECIFICATION MCSpec
CONSTANTS
  Threads = {main, w1, w2}
  Leader = main
  Config = "connect_error"
INVARIANTS
  TracerTypeOK
  TracerInformed
  AloneInStep
PROPERTIES
  EndsOrStuck
