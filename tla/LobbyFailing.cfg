SPECIFICATION Spec
CONSTANTS
  Client = {c1, c2, c3}
  GameId = {g1}
  ShardOf <- OneShard
  AvailableTasks = 0
  MaxTaskCount = 1
  RedisMayFail = TRUE
  None = None
  Unclaimed = Unclaimed
SYMMETRY Alike
INVARIANTS
  TypeOK
  RosterIsReal
  KeyNamesHost
  HalfStartedIsClosing
PROPERTIES
  ImplementsSessions
