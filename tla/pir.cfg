SPECIFICATION PirSpec
CONSTANTS
  PIR = "pir"
  RNG_FINDER = "rng"
  Wired = {"pir", "rng"}
  QueueLen = 2
  MaxEdges = 6
  MaxOutages = 2
CHECK_DEADLOCK FALSE
INVARIANT SignalPerEdge
PROPERTY EdgeIsSignalled
