SPECIFICATION IoSpec
CONSTANTS
    IoParts = {"writer", "async", "proxies", "slave", "reaper", "wire", "sockcb", "sock", "task", "httptask", "cgi", "cgitext", "nscp", "pghandle", "dbtext"}
    WConns = {c1}
    WJobs = {j1, j2}
    NoJob = NoJob
    WBufMax = 1
    WBytes = 1
    WHeaders = {0}
    WriterRaces = TRUE
    ConnReuse = FALSE
    StreamPartial = FALSE
    Lines = {l1, l2, l3}
    LineParts = 2
    AsyncRaces = TRUE
    PipeBytes = 2
    PxIds = {p1, p2, p3}
    PxThreads = {t1, t2, t3}
    PxMax = 2
    PxMaxes = {0, 1, 2}
    PxTimed = TRUE
    PxConfigures = TRUE
    HMaxRuns = 3
    HInits = TRUE
    HStops = TRUE
    Slaves = {s1, s2}
    ReapThreads = {r1}
    BigResults = TRUE
    ReapsInShutdown = FALSE
    WHead = 2
    BodyMax = 4
    PipeMax = 3
    SpaceMax = 4
    Fds = {f1, f2}
    Cbs = {b1, b2, b3}
    TimedCbs = {b3}
    NoCb = NoCb
    ChanRaces = TRUE
    ReqMax = 2
    Socks = {s1, s2, s3}
    Driver = driver
    Pool = pool
    Spoolers = {}
    Async = FALSE
    ClosesFd = TRUE
    MaxConns = 2
    NThreads = 2
    MaxQueue = 2
    AcceptSize = 2
    TrigCap = 1
    DriftCap = 0
    None = none
    Tasks = {tk1, tk2}
    TaskRaces = FALSE
    Nil = Nil
    HtReplies <- McReplies
    HtLimits <- McLimits
    HtRaces = TRUE
    HtSpoolFails = TRUE
    HtWaitsShort = TRUE
    CgiThreads = {c1, c2, c3}
    MaxCgi = 1
    MaxCgiUrl = 5
    MaxOutput = 4
    NDSTRINGS = 5
    CpUsers <- McCpUsers
    CpWords <- McCpWords
    CpTyped = 5
    CpEcho = TRUE
    PgThreads = {i1}
    MaxStatements = 2
    MaxRows = 2
    BlobSegments = 2
    ReopenFails = TRUE
    OddSql = TRUE
    PgUnbound = TRUE
    DiesInBlob = TRUE
    MaxSql = 4
    MaxFile = 4
    MaxElement = 2
    BlobBytes = {0, 7, 39, 92, 131, 255}
INVARIANTS
    
    ProxyInv
    
    DatabaseInv
    QueueSize
PROPERTIES
    SignalsInOrder
    LifeSpec
CHECK_DEADLOCK FALSE
