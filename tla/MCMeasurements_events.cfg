SPECIFICATION MeasurementsSpec
CONSTANTS
  p1 = p1
  p2 = p2
  Instances = {p1, p2}
  None = None
  OfflineAfter = 1
  Disturbances = {"rebalance", "leave", "crash"}
  MaxRebalances = 1
  Faults = {"write", "unknown", "send", "restore"}
  MaxFaults = 1
  MaxVersion = 2
  Values = {0, 4, 5}
  MaxDelta = 1
  AcceptAfter = 2
  BatchSize = 2
  MaxFrames = 3
  MaxUpsets = 2
  Base = 4
  MaxPdu = 2
  AddressSpace = 6
  MaxReadWords = 3
  MaxNow = 7
  Speeds = {1, 3}
  MaxTurns = 1
  MaxCatchUp = 4
  Draws <- SmallDraws
  MaxEdges = 2
INVARIANTS
  ReadsAreTrue
  SpikesAreHeld
  WorldIsOne
PROPERTIES
  NoFalseEvent
  GuessNeverCovers
  HandoverIsClean
SYMMETRY Symmetry
CHECK_DEADLOCK FALSE
