SPECIFICATION EndsSpec
CONSTANTS
  t1 = t1
  t2 = t2
  NoTab = NoTab
  NoId = NoId
  Tabs = {t1, t2}
  MaxTokens = 5
  MaxSessions = 2
  MaxRequests = 3
  MaxSessionFaults = 1
  Capacity = 2
  MaxEvents = 3
  MaxEpochs = 2
  MaxRenewals = 1
  MaxFaults = 1
  BufferCapacity = 3
  BatchSize = 2
  Topics = 2
  MaxMessages = 6
  MaxFailures = 2
  MaxRuns = 2
  MaxTroubles = 1
  MaxUses = 1
  mail = mail
  ip = ip
  Emails = {mail}
  Address = ip
  EmailCapacity = 2
  AddressCapacity = 1
  RefillMs = 2
  MaxAttempts = 2
  MaxTime = 3
  anna = anna
  boris = boris
  Editors = {anna, boris}
  Keys = {1, 2}
  MaxActs = 2
  MaxSlips = 1
  Episodes = {1, 2}
  Filters = {"active"}
  Moments = {1}
  Shared = {2}
  PageSize = 1
  MaxAcks = 1
  MaxReads = 2
  MaxLosses = 1
INVARIANTS
  EveryChangeHasItsTrace
CHECK_DEADLOCK FALSE
