\* With three threads all may come to be blocked, two of them by handlers.
\* The process may end, and so may everything in it.
CHECK_DEADLOCK FALSE
SPECIFICATION SFairSpec
CONSTANTS
  Peer = {p1, p2, p3}
  Workers = 3
INVARIANTS
  STypeOK
  FuturesThere
  NoWakeLost
PROPERTIES
  EndIsNoticed
