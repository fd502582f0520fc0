SPECIFICATION FairSpec
CONSTANTS
  p1 = p1
  Instances = {p1}
  None = None
  OfflineAfter = 1
  Disturbances = {}
  MaxRebalances = 0
  Faults = {"send"}
  MaxFaults = 1
PROPERTIES
  StateReachesTable
CHECK_DEADLOCK FALSE
