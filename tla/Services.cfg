SPECIFICATION ServicesSpec
CONSTANTS
    ServicesParts = {"sched", "schedorder", "job", "cache", "db", "watchdog", "binder", "lifecycle", "rwlock", "critsec", "threadlib", "tclsynch", "serverlog", "rollfile", "accesslog", "nsset", "nsv", "tclinterps"}
    Events = {ev1, ev2}
    EventThreads = {et1, et2}
    JobsPerThread = 1
    EventKinds <- MCEventKinds
    ResumesRunning = FALSE
    SchedNone = SchedNone
    MaxTime = 2
    CancelsInside = FALSE
    Times = {1, 2, 3, 4}
    MaxHeap = 5
    JobQueues = {q1}
    Jobs = {j1, j2}
    JobClients = {c1, c2}
    JobThreads = {w1, w2}
    QueueMax <- MCQueueMax
    JobsPerThread_ = 0
    IdleTimeout = TRUE
    SplitLookup = TRUE
    JobNone = JobNone
    CacheKeys = {k1, k2}
    CacheThreads = {t1, t2}
    CacheMax = 2
    CacheEntryMax = 3
    CacheSizes = {1, 3, 4}
    CacheTTLs = {0, 1}
    CacheForces = FALSE
    CacheTimeouts = TRUE
    CacheTime = 3
    NoKey = NoKey
    DbHandles = {h1, h2}
    DbThreads = {t1, t2}
    DbCheckers = {k1, k2}
    DbTimedWait = TRUE
    DbBounces = 1
    MaxRestarts = 5
    MaxRestartWait = 4
    SignalsInSleep = TRUE
    Addrs = {80, 8080, 443}
    RootAddrs = {80, 443}
    Listeners = {l1, l2}
    SharedAddrs = FALSE
    NoAddr = NoAddr
    Procs = {f1, f2}
    RegisterMax = 2
    RwThreads = {rw1, rw2, rw3, rw4}
    RwTurns = 2
    CsThreads = {cs1, cs2, cs3}
    CsDepth = 2
    SemaPosts <- McSemaPosts
    SemaWaiters = {sm1, sm2, sm3, sm4}
    LibThreads = {th1, th2}
    MainThread = th1
    TlsKeys = {1, 2, 3}
    TlsTrys = 2
    ResetPasses = 2
    SyThreads = {1, 2}
    SyNames = {0, 7}
    SyMade = 4
    LogThreads = {lt1, lt2}
    MaxFilters = 1
    MaxMsgs = 3
    RemovesHead = TRUE
    EmptyMsgs = FALSE
    Rollers = {ro1}
    MaxBackup = 3
    MaxRolls = 9
    LogConns = {al1, al2}
    MaxLines = 3
    BufferSizes = {0, 1}
    AccessRaces = TRUE
    FileTrouble = TRUE
    SetKeys = {"a", "A"}
    SetValues = {1, 2}
    Lower <- McLower
    Prefix <- McPrefix
    Rest <- McRest
    NoName = NoName
    MaxSetObjs = 3
    MaxFields = 2
    SelfMoves = FALSE
    Interps = {i1, i2}
    ApiThreads = {}
    NsvNames <- McNsvNames
    NsvKeys = {"k"}
    Nbuckets = 2
    MaxNsvArrays = 2
    MaxNsvValue = 1
    Walkers = {i2}
    NsvOps = {"array set", "unset", "array size"}
    SharedUnset = TRUE
    TclThreads = {t1, t2}
    MaxUsers = 1
    MaxRequests = 1
    MaxSaves = 3
    EpochRange = 3
    MaxScripts = 1
    LateAtClose = TRUE
INVARIANTS
    
    QueueInv
    
    ProcessInv
    RwInv
    ThreadInv
    LogInv
    TclDataInv
PROPERTIES
    NothingTwice
CHECK_DEADLOCK FALSE
