SPECIFICATION CSpec
CONSTANTS
  Client = {c1, c2}
  GameId = {g1, g2}
  ShardOf <- OneShard
  AvailableTasks = 2
  MaxTaskCount = 3
  RedisMayFail = TRUE
  None = None
  Unclaimed = Unclaimed
  Task = {t1, t2}
  TaskCounts = {1, 3}
  PublicTests <- OneTest
  PrivateTests <- OneTest
  MaxOutputs = 2
  MaxIndex = 2
SYMMETRY Alike
VIEW ButKnown
INVARIANTS
  CTypeOK
  JudgedGameStays
  JudgedAgainstItsRun
  DoneMeansAllMatch
  NewsIsTrue
  RosterIsReal
  KeyNamesHost
PROPERTIES
  ImplementsSessions
