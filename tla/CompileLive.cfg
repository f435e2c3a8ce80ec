SPECIFICATION CFairSpec
CONSTANTS
  Client = {c1, c2}
  GameId = {g1}
  ShardOf <- OneShard
  AvailableTasks = 2
  MaxTaskCount = 3
  RedisMayFail = FALSE
  None = None
  Unclaimed = Unclaimed
  Task = {t1, t2}
  TaskCounts = {1, 3}
  PublicTests <- OneTest
  PrivateTests <- OneTest
  MaxOutputs = 1
  MaxIndex = 1
PROPERTIES
  CompileEnds
  RequestsEnd
  ClosingEnds
\* A handler that never ends is what the properties look for, and with the
\* other connections over it stops the system.
CHECK_DEADLOCK FALSE
