SPECIFICATION FairSpec
CONSTANTS
  p1 = p1
  p2 = p2
  Instances = {p1, p2}
  None = None
  NoValue = NoValue
  MinValue = 0
  MaxValue = 10
  Hysteresis = 2
  Debounce = 2
  Modes = {"cooling"}
  Frames <- WithZone
  MaxLog = 4
  MaxBatch = 2
  MaxAttempts = 1
  Faults = {"crash", "write", "send"}
  MaxFaults = 2
INVARIANTS
  EpisodesAreSound
  DebouncedRaise
  ClosedForReason
PROPERTIES
  DrainsUnlessRejected
CHECK_DEADLOCK FALSE
