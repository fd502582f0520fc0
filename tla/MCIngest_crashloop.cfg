SPECIFICATION FairSpec
CONSTANTS
  p1 = p1
  p2 = p2
  Instances = {p1}
  None = None
  NoValue = NoValue
  MinValue = 0
  MaxValue = 10
  Hysteresis = 2
  Debounce = 1
  Modes = {"cooling"}
  Frames <- NormalAndHigh
  MaxLog = 3
  MaxBatch = 3
  MaxAttempts = 1
  Faults = {"crash"}
  MaxFaults = 1
PROPERTIES
  PartitionDrains
CHECK_DEADLOCK FALSE
