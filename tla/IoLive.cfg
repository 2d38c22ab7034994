SPECIFICATION IoLiveSpec
CONSTANTS
    IoParts = {"writer", "async", "proxies", "slave", "reaper", "sockcb", "sock", "task", "httptask", "cgi", "pghandle"}
    WConns = {c1}
    WJobs = {j1}
    NoJob = NoJob
    WBufMax = 2
    WBytes = 3
    WHeaders = {0, 1}
    WriterRaces = FALSE
    ConnReuse = FALSE
    StreamPartial = FALSE
    Lines = {l1, l2}
    LineParts = 2
    AsyncRaces = FALSE
    PipeBytes = 2
    PxIds = {p1, p2}
    PxThreads = {t1, t2}
    PxMax = 2
    PxMaxes = {}
    PxTimed = FALSE
    PxConfigures = FALSE
    HMaxRuns = 2
    HInits = TRUE
    HStops = FALSE
    Slaves = {s1}
    ReapThreads = {r1}
    BigResults = FALSE
    ReapsInShutdown = FALSE
    WHead = 2
    BodyMax = 4
    PipeMax = 3
    SpaceMax = 4
    Fds = {f1}
    Cbs = {b1, b2}
    TimedCbs = {b2}
    NoCb = NoCb
    ChanRaces = FALSE
    ReqMax = 2
    Socks = {s1}
    Driver = driver
    Pool = pool
    Spoolers = {p1}
    Async = TRUE
    ClosesFd = TRUE
    MaxConns = 1
    NThreads = 1
    MaxQueue = 2
    AcceptSize = 1
    TrigCap = 0
    DriftCap = 0
    None = none
    Tasks = {tk1}
    TaskRaces = FALSE
    Nil = Nil
    HtReplies <- McRepliesCalm
    HtLimits <- McLimits
    HtRaces = FALSE
    HtSpoolFails = FALSE
    HtWaitsShort = FALSE
    CgiThreads = {c1, c2}
    MaxCgi = 1
    MaxCgiUrl = 5
    MaxOutput = 4
    NDSTRINGS = 5
    CpUsers <- McCpUsers
    CpWords <- McCpWords
    CpTyped = 5
    CpEcho = TRUE
    PgThreads = {i1, i2}
    MaxStatements = 2
    MaxRows = 2
    BlobSegments = 2
    ReopenFails = FALSE
    OddSql = FALSE
    PgUnbound = FALSE
    DiesInBlob = FALSE
    MaxSql = 4
    MaxFile = 4
    MaxElement = 2
    BlobBytes = {0, 7, 39, 92, 131, 255}

    
PROPERTIES
    BackgroundLive
    ProxyLive
CHECK_DEADLOCK FALSE
