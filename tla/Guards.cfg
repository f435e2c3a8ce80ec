SPECIFICATION GSpec
CONSTANTS
  Client = {c1, c2, c3}
  ShardIn <- TwoShards
  Workers = 2
  Connection = {k1, k2}
  None = None
SYMMETRY AlikeOnShard
INVARIANTS
  GTypeOK
  OnlyThreeDeadlocks
  SomebodyMoves
  PoolWhole
  WorksAlone
CHECK_DEADLOCK FALSE
