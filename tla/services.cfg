SPECIFICATION Spec
CONSTANTS
    Batches = {b1, b2}
    LogWorkers = {k1, k2}
    SideWorkers = {k3}
    LogCap = 1
    SideCap = 1
    BatchSize = 1
    StableRequired = 2
    Panels = {k1, k2}
    SendCap = 1
    MaxEvents = 1
    Callers = {k1, k2}
    Pingers = {k3}
    MaxTries = 2
    MaxOutages = 1
    Admins = {a1, a2}
    Settings = {maxIPs, grace}
    Own = {maxIPs}
    Least <- LeastValues
    Most <- MostValues
    Base <- BaseValues
    MaxValue = 2
    None = None
    MaxRequests = 3
    Logins = {l1, l2, l3}
    MaxFailures = 2
    LockTime = 2
    KeepTime = 1
    SessionTTL = 2
    Tokens = {t1, t2}
    Users = {u1, u2, u3, u4}
    FirstUsers = {u1, u2, u3}
    Limits = {0, 1}
    FirstLimit = 1
    PageSize = 2
    Ticker = ticker
    Handlers = {k1}
    ReqTries = 2
    MaxEdits = 1
    MaxFaults = 1
    Every = 2
    Timeout = 5
    MaxDelay = 1
    MaxQueued = 1
    MaxBacklog = 1
    Recorders = {w1, w2}
    Places = {i1, i2}
    NetOf <- Nets
    MobileNetOf <- Mobile
    SourceWindow = 3
    HeuristicsWindow = 2
    MaxWait = 1
    Targets = {k1, k2}
    MaxParallel = 1
INVARIANTS
    TypeOK
    CleanDrain
    NoSendOnClosed
    CopiesContiguous
    CopiesAgree
    AliveIsOnline
    DeadIsOffline
PROPERTIES
    ImplementsDelivery
    ShutdownEnds
    PanelsHear
    CallsReturn
    LockNotProlonged
    LimitsFromPanel
    LimitsCatchUp
    CountsWindow
    CommandsReturn
    TerminalEnds
