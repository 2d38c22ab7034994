SPECIFICATION Spec
CONSTANTS
  Drivers = {d1, d2}
  Conns = {c1, c2}
  MaxConns = 2
  MinThreads = 1
  MaxThreads = 2
  LowPct = 100
  HighPct = 100
  ConnsPerThread = 1
  ThreadTimeout = FALSE
  Tunable = FALSE
  DefaultPool = FALSE
  None = None
  Zombie = Zombie
SYMMETRY Symmetry
INVARIANTS
  ConnNotLost
  SignalInv
CHECK_DEADLOCK FALSE
