SPECIFICATION GSpec
CONSTANTS
  Client = {c1, c2, c3}
  ShardIn <- OwnShards
  Workers = 2
  Connection = {k1, k2}
  None = None
SYMMETRY Alike
INVARIANTS
  NoDeadlock
CHECK_DEADLOCK FALSE
