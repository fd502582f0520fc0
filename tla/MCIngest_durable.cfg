SPECIFICATION Spec
CONSTANTS
  p1 = p1
  p2 = p2
  Instances = {p1, p2}
  None = None
  NoValue = NoValue
  MinValue = 0
  MaxValue = 10
  Hysteresis = 2
  Debounce = 1
  Modes = {"cooling"}
  Frames <- EveryKind
  MaxLog = 3
  MaxBatch = 2
  MaxAttempts = 1
  Faults = {"crash", "evict", "write", "send", "refused", "restore", "edit", "unloaded"}
  MaxFaults = 2
INVARIANTS
  TypeOK
  CommittedIsDurable
  PublishedIsStored
SYMMETRY Symmetry
CHECK_DEADLOCK FALSE
