SPECIFICATION MCSpec
CONSTANTS
  Faults = {1, 2}
  Rounds = 2
  Calls = {"main", "sigint"}
  Pods = {p1, p2}
  Methods = {"debug"}
  Commands = {"diverge"}
  RunKinds = {"latency", "partition", "dns"}
  Unreliable = {}
  MaxErrs = 1
  DebugPods = {p1, p2}
  DebugKinds = {"latency", "partition", "dns"}
INVARIANT
  AllReverted
