SPECIFICATION WebSpec
CONSTANTS
    WebParts = {"readreq", "requests", "urlspace", "index", "nsperm", "url2file", "urls", "forms", "cookies", "response", "ranges", "fastpath", "adppages", "adpexec", "adpparse"}
    Shapes <- McShapes
    ReadBufSize = 4
    ReadAhead = 4
    MaxInput = 9
    MaxUpload = 6
    MaxHeaders = 2
    Spoolers = 1
    Async = TRUE
    Fails = TRUE
    ReqConns = {rc1, rc2}
    MaxRegs = 2
    PostErrors = TRUE
    RegSeqs <- McRegSeqs
    AskSeqs <- McAskSeqs
    Wild = {"*", "*.t", "*.t*", "x*"}
    StringMatch <- McStringMatch
    MaxUrlData = 3
    AnyDestroy = TRUE
    IndexKeys = {1, 2, 3, 4, 5}
    IndexMax = 6
    PermUsers = {"", "u"}
    UserKinds <- McKinds1
    NewPwds = {}
    Admins = {pa1, pa2}
    MaxUserObjs = 2
    MaxGroupObjs = 2
    MaxPermCmds = 0
    MaxMade = 4
    PermRaces = TRUE
    Redefines = TRUE
    DelInherited = TRUE
    Lookers = {k1, k2}
    MaxU2f = 3
    MaxUrl = 5
    MaxHost = 4
    MaxLine = 5
    MaxText = 3
    HashLevels = 1
    MaxQuery = 4
    MaxContent = 5
    MaxParts = 2
    MaxName = 3
    CkNames <- McCkNames
    CkValues <- McCkValues
    MaxCookies = 3
    Versions = {10, 11}
    ConnHdrs = {"none", "keep-alive"}
    Uploads = {"ok"}
    Sizes = {1, 2}
    MinSize = 2
    MaxDownload = 2
    MaxPieces = 1
    MaxRecursion = 1
    ZipLevel = 1
    ZipStreams = TRUE
    Dishonest = TRUE
    SendFails = TRUE
    HeadRanges = TRUE
    MaxObjLength = 7
    MaxRanges = 3
    FpThreads = {1, 2}
    Pages = {1, 2}
    Dirc <- McDirc
    CacheRoom = 1
    Changing = {1}
    FirstSecond = 2
    MaxSeconds = 4
    MaxWrites = 2
    MaxServed = 3
    UseGzip = FALSE
    GzRaces = TRUE
    MtimeKept = FALSE
    AdpInterps = {i1, i2}
    AdpFiles = {1}
    CachedFiles = {1}
    InterpRoom = 2
    MaxDepth = 1
    MaxSources = 4
    MaxAdpWrites = 2
    SelfInclude = FALSE
    MixedUse = FALSE
    ServerFlags = {"cache", "autoabort"}
    ErrorPage = TRUE
    BufSize = 1
    Blocks = 1
    MaxFrames = 3
    MaxCommands = 3
    Commands = {"include", "nocache", "eval", "safeeval", "puts", "exception", "timeout", "error", "flush", "close", "trunc", "ctl"}
    ScriptsGoOn = TRUE
    FlushFails = TRUE
    MaxTokens = 4
    Drivers = {d1}
    Conns = {c1, c2}
    MaxConns = 2
    MinThreads = 1
    MaxThreads = 1
    LowPct = 0
    HighPct = 0
    ConnsPerThread = 1
    ThreadTimeout = FALSE
    Tunable = FALSE
    DefaultPool = TRUE
    None = None
    Zombie = Zombie
INVARIANTS
    
    TextInv
    ResponseInv
    
CHECK_DEADLOCK FALSE
