SPECIFICATION Spec
CONSTANTS
  Client = {c1, c2}
  GameId = {g1}
  ShardOf <- OneShard
  AvailableTasks = 1
  MaxTaskCount = 2
  RedisMayFail = FALSE
  None = None
  Unclaimed = Unclaimed
INVARIANTS
  OneHostPerGame
