SPECIFICATION LineSpec
CONSTANTS
  Devices = {1, 2}
  Blocks = 2
  MaxRuns = 2
  MaxStops = 2
  MaxTrips = 1
  Units <- TwoUnits
  FaultKinds = {"silent", "stall", "crc", "offline"}
  Slots = {"s1", "s2"}
  SlowFor = 2
  MaxBacklog = 2
  MaxChaos = 2
  Breakable <- TwoFaults
  MaxChanges = 2
  MaxAdded = 1
  MaxLosses = 1
INVARIANTS
  LineIsSound
PROPERTIES
  LateStepsSpareTheCycle
  StopCompletes
  DevicesAreRead
CHECK_DEADLOCK FALSE
