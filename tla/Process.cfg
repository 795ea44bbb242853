SPECIFICATION ProcessSpec
CONSTANTS
    p1 = p1
    t1 = t1
    t2 = t2
    t3 = t3
    r1 = r1
    r2 = r2
    Procs = {p1}
    Threads <- MCThreads
    Home <- OneHome
    Jobs = {a}
    Keys = {k1, k2}
    NoKey = NoKey
    NoItem = NoItem
    DlqEnabled = TRUE
    MaxQueue = 3
    Clients = {"ann", "eve"}
    LimitWindow = 3
    LimitCalls = 2
    DedupeKeys = {"k1", "k2", "k3"}
    DedupeTtl = 1
    DedupeMax = 2
    MaxAdmissions = 6
    Checks = {"c1", "c2"}
    Levels = {"warning"}
    AlertCooldown = 2
    PurgeCooldown = 2
    MaxSent = 3
    NumMessages = 3
    MaxDocs = 2
    ChatWindow = 1
    ContextFor = 2
    ClarifyFor = 0
    MaxTogether = 2
    Askers = {"c1", "c2"}
    Coins = {"btc"}
    Charts = {"day", "week"}
    SourceTypes = {"coingecko", "other"}
    LegacyColumn = TRUE
    RateLimit = 2
    Minute = 2
    PriceTtl = 1
    ChartTtl = 2
    MaxFetches = 3
    Workers = {"p"}
    WorkRuns = {"r1", "r2"}
    CommandIds = {"i1"}
    NoId = "NONE"
    MaxPosts = 2
    Commands = {"c1", "c2"}
    Scopes = {"core", "client"}
    Unscoped = "-"
    MaxTexts = 4
    MaxWrites = 4
    Recalls <- MCRecalls
    Chats = {"a", "b"}
    PageSizes = {1}
    Wordings <- Messages
    Ms = 2
    RecallWindow = 0
    MaxRows = 2
    MaxRecalls = 3
    MaxTime <- Clocks
    MaxFlight <- Flights
    MaxFaults <- Failures
INVARIANTS TypeOK OneAtATime KeysMatch KeysDistinct LimiterExact
    AdmittedOnce FullTextIsNewest NamesMatch AlertsSpaced RunsTold SpacedOnceCached AnswersFresh
    ReportsOfCommand ScopedStateKept PagesExact
PROPERTIES PendingKept
SYMMETRY Alike
CHECK_DEADLOCK FALSE
