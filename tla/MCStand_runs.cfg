SPECIFICATION StandSpec
CONSTANTS
  g1 = g1
  g2 = g2
  door = door
  Gateways = {g1, g2}
  Faults = {door}
  Scripts <- MCScripts
  MaxRuns = 2
  MaxMishaps = 1
  WatchedGroups = {1}
  GatewayGroups = {1}
  WatchedMembers = {a}
  a = a
  WatchedPartitions = {1}
  Window = 1
  JournalLimit = 3
  MaxHigh = 1
  MaxChanges = 2
  MaxBreaks = 1
  CiAvailable <- MCAvailable
  AskedLists <- MCAsked
  StartLimit = 15
  ResultLimit = 6
  MaxStarted = 2
INVARIANTS
  KeptAndKnown
  ConclusionsAreEarned
PROPERTIES
  OutcomesStand
  StandEnds
CHECK_DEADLOCK FALSE
