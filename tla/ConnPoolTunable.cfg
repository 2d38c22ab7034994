SPECIFICATION Spec
CONSTANTS
  Drivers = {d1}
  Conns = {c1, c2}
  MaxConns = 2
  MinThreads = 1
  MaxThreads = 2
  LowPct = 100
  HighPct = 100
  ConnsPerThread = 1
  ThreadTimeout = FALSE
  Tunable = TRUE
  DefaultPool = FALSE
  None = None
  Zombie = Zombie
SYMMETRY Symmetry
INVARIANTS
  PoolCounts
CHECK_DEADLOCK FALSE
