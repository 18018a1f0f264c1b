SPECIFICATION MCSpec
CONSTANTS
  Modes = {"cluster"}
  Strategies = {"sequential"}
  Starts = {1}
  MaxSeeds = 2
  MaxParallel = 1
  Templates = {"none"}
  Explicits = {{}}
  Pool = {}
  Combos = {}
INVARIANT EverySeedFound
