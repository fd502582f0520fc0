SPECIFICATION AskedSpec
CONSTANTS
  p1 = p1
  p2 = p2
  Instances = {p1, p2}
  MaxRuns = 2
  MaxWindow = 1
  QueueTimeout = 1
  StaleAfter = 1
  TimeLimit = 1
  Kept = 1
  MaxMishaps = 2
  MaxFailures = 1
  Messages = 2
  FinalAttempts = 2
  Limit = 2
  MaxRequests = 2
  LetterFaults = {"send", "commit", "unknown", "fail", "crash", "redelivery"}
  g1 = g1
  g2 = g2
  Gateways = {g1, g2}
  Kinds = {"disable", "broken"}
  Batch = 2
  MaxCommands = 2
  Faults = {"send", "mark", "gateway", "collector", "processor", "expiry", "compaction"}
  MaxFaults = 1
INVARIANTS
  NothingVanishes
  RunsAreWhole
  RowsAreKept
  SentOncePerFailure
PROPERTIES
  OutcomesStand
  RequestsEnd
  StagesGoForward
CHECK_DEADLOCK FALSE
