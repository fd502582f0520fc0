SPECIFICATION ReplaySpec
CONSTANTS
  Partitions = {1, 2}
  Logs <- MCLogs
  From = 2
  To = 4
  EndSlack = 1
  MaxEpisodes = 1
  MaxRejoins = 1
  MaxDeleted = 4
  NoValue = NoValue
  Absent = Absent
  Keep = Keep
  Blank = Blank
  NoNumber = NoNumber
INVARIANTS
  ReadingIsSound
  AskedIsMeant
PROPERTIES
  EveryReadingEnds
CHECK_DEADLOCK FALSE
