SPECIFICATION WebLiveSpec
CONSTANTS
    WebParts = {"readreq", "requests", "urlspace", "nsperm", "cookies", "response", "fastpath", "adppages", "adpexec", "pool"}
    Shapes <- McShapesCalm
    ReadBufSize = 4
    ReadAhead = 4
    MaxInput = 14
    MaxUpload = 6
    MaxHeaders = 2
    Spoolers = 1
    Async = TRUE
    Fails = FALSE
    ReqConns = {rc1}
    MaxRegs = 2
    PostErrors = FALSE
    RegSeqs <- McCalmSeqs
    AskSeqs <- McAskSeqs
    Wild = {"*", "*.t", "x*"}
    StringMatch <- McStringMatch
    MaxUrlData = 3
    AnyDestroy = FALSE
    IndexKeys = {1, 2, 3, 4, 5}
    IndexMax = 6
    PermUsers = {"", "u"}
    UserKinds <- McKinds
    NewPwds = {"p"}
    Admins = {pa1}
    MaxUserObjs = 2
    MaxGroupObjs = 1
    MaxPermCmds = 2
    MaxMade = 3
    PermRaces = FALSE
    Redefines = FALSE
    DelInherited = FALSE
    Lookers = {k1, k2}
    MaxU2f = 3
    MaxUrl = 5
    MaxHost = 4
    MaxLine = 5
    MaxText = 3
    HashLevels = 1
    MaxQuery = 4
    MaxContent = 5
    MaxParts = 2
    MaxName = 3
    CkNames <- McCkNamesOwn
    CkValues <- McCkValues
    MaxCookies = 3
    Versions = {9, 10, 11}
    ConnHdrs = {"none", "close", "keep-alive"}
    Uploads = {"ok", "nolength"}
    Sizes = {1, 2, 3}
    MinSize = 2
    MaxDownload = 2
    MaxPieces = 2
    MaxRecursion = 1
    ZipLevel = 1
    ZipStreams = FALSE
    Dishonest = FALSE
    SendFails = FALSE
    HeadRanges = FALSE
    MaxObjLength = 7
    MaxRanges = 3
    FpThreads = {1, 2}
    Pages = {1}
    Dirc <- McDirc1
    CacheRoom = 1
    Changing = {1}
    FirstSecond = 2
    MaxSeconds = 3
    MaxWrites = 3
    MaxServed = 2
    UseGzip = TRUE
    GzRaces = FALSE
    MtimeKept = FALSE
    AdpInterps = {i1, i2}
    AdpFiles = {1, 2}
    CachedFiles = {1}
    InterpRoom = 2
    MaxDepth = 2
    MaxSources = 2
    MaxAdpWrites = 2
    SelfInclude = FALSE
    MixedUse = FALSE
    ServerFlags = {"cache", "display"}
    ErrorPage = FALSE
    BufSize = 1
    Blocks = 2
    MaxFrames = 3
    MaxCommands = 3
    Commands = {"include", "parse", "trunc", "ctl", "puts", "exception", "error", "flush"}
    ScriptsGoOn = FALSE
    FlushFails = TRUE
    MaxTokens = 4
    Drivers = {d1}
    Conns = {c1, c2}
    MaxConns = 2
    MinThreads = 1
    MaxThreads = 1
    LowPct = 0
    HighPct = 0
    ConnsPerThread = 1
    ThreadTimeout = FALSE
    Tunable = FALSE
    DefaultPool = TRUE
    None = None
    Zombie = Zombie

    
PROPERTIES
    WebLive
    PoolLive
CHECK_DEADLOCK FALSE
