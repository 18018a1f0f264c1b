SPECIFICATION MCFairSpec
CONSTANTS
  Faults = {1, 2}
  Rounds = 2
  Calls = {"main", "sigint"}
  Pods = {p1, p2}
  Methods = {"exec", "debug"}
  Commands = {"run", "explore", "diverge"}
  RunKinds = {"latency", "partition", "dns", "stress", "crash", "eviction"}
  Unreliable = {"add", "del", "timeout", "discover", "container"}
  MaxErrs = 1
  DebugPods = {p1}
  DebugKinds = {"latency", "stress"}
CONSTRAINT
  Bounded
INVARIANTS
  TypeOK
  NoOrphanRule
  RulesMatchFaults
  SecondChance
  CleanExit
PROPERTIES
  ImplementsTracker
  Terminates
