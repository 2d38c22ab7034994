CONSTANTS
    Socks = {s1, s2}
    Driver = driver
    Pool = pool
    Spoolers = {p1}
    None = none
    Async = TRUE
    ClosesFd = FALSE
    MaxConns = 1
    NThreads = 1
    MaxQueue = 2
    AcceptSize = 1
    TrigCap = 1
    DriftCap = 0
SPECIFICATION Spec
SYMMETRY Symmetry
CHECK_DEADLOCK FALSE
INVARIANTS
    OwnerInv
    TriggerComing
    SpoolerTriggerComing
    RequestHandedOver
PROPERTY LifeSpec
