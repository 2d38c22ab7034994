SPECIFICATION Spec
CONSTANTS
  Drivers = {d1}
  Conns = {c1, c2}
  MaxConns = 2
  MinThreads = 1
  MaxThreads = 2
  LowPct = 100
  HighPct = 100
  ConnsPerThread = 1
  ThreadTimeout = TRUE
  Tunable = FALSE
  DefaultPool = TRUE
  None = None
  Zombie = Zombie
INVARIANTS
  ConnNotLost
CHECK_DEADLOCK FALSE
