SPECIFICATION Spec
CONSTANTS
  Client = {c1, c2}
  GameId = {g1}
  ShardOf <- TwoShards
  AvailableTasks = 1
  MaxTaskCount = 2
  RedisMayFail = FALSE
  None = None
  Unclaimed = Unclaimed
PROPERTIES
  ExistsSparesLiveGames
