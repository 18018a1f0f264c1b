SPECIFICATION MCSpec
CONSTANTS
  Threads = {main, worker}
  Main = main
  Addrs = {a1, a2}
  NoAddr = other
  MaxSignals = 1
  MaxLives = 1
  MaxOps = 3
  MaxKills = 1
INVARIANTS
  VdsoTypeOK
  PatchChain
  RegionsOwned
  MainUntouched
PROPERTIES
  Resumes
