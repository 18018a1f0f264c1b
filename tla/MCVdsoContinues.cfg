SPECIFICATION MCSpec
CONSTANTS
  Threads = {main}
  Main = main
  Addrs = {a1}
  NoAddr = other
  MaxSignals = 0
  MaxLives = 0
  MaxOps = 1
  MaxKills = 0
PROPERTY Continues
