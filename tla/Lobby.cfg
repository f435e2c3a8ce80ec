SPECIFICATION Spec
CONSTANTS
  Client = {c1, c2, c3}
  GameId = {g1, g2}
  ShardOf <- TwoShards
  AvailableTasks = 1
  MaxTaskCount = 2
  RedisMayFail = FALSE
  None = None
  Unclaimed = Unclaimed
SYMMETRY AlikeOnShard
INVARIANTS
  RosterIsReal
  RosterAgrees
  NoMembershipCycle
