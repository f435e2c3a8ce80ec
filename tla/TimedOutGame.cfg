SPECIFICATION CSpec
CONSTANTS
  Client = {c1, c2}
  GameId = {g1}
  ShardOf <- OneShard
  AvailableTasks = 2
  MaxTaskCount = 2
  RedisMayFail = FALSE
  None = None
  Unclaimed = Unclaimed
  Task = {t1, t2}
  TaskCounts = {1}
  PublicTests <- OneTest
  PrivateTests <- OneTest
  MaxOutputs = 1
  MaxIndex = 1
INVARIANTS
  DroppedGameIsOver
