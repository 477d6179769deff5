SPECIFICATION FairHostSpec
CONSTANTS
    a = a
    b = b
    c = c
    d = d
    s = s
    t = t
    bad = bad
    Processes = {p1, p2}
    Releases = {"new", "old", "fork", "edited"}
    Names = {1, 2, 3}
    Texts = {a, b, c, d}
    InitialMigrations <- HostMigrations
    Clashing <- HostClashing
    MaxFaults = 1
    Agents = {a, b, c}
    ByHand = {c}
    RuntimeDirectory = FALSE
    KojidStops = FALSE
    Operator = TRUE
    MaxAgentFaults = 2
    Limit = 2
    MaxOutput = 3
    Children = TRUE
    Services = {s, t}
    BadNames = {bad}
    DevServices <- OneService
    Blank = Blank
    Lines <- ConfigLines
    FlagValues <- ConfigFlags
    DefaultTTL = 2
    DefaultIdle = 1
    MaxLines = 3
    MaxFlags = 2
    MetricsRequests = {r1, r2}
    Wrap = 8
    MaxTicks = 3
    MaxFalls = 1
    MaxPid = 3
    Policies <- ListPolicies
    MaxBirths = 4
    Checks = {r1, r2}
    MaxCount = 2
    Job = a
    Other = b
    Polls = {q1, q2}
    MaxChanges = 2
    MaxPageFaults = 2
    Parts = {"migrations", "agent", "unit", "runner", "config", "probe", "list", "counters", "page"}
CHECK_DEADLOCK FALSE
INVARIANTS
    TypeOK
    PartsTypeOK
    HistoryIsTrue
    ServedSchemaIsCurrent
    ServingIsReachable
    VerdictIsTrue
    ScanIsDeclared
    MutationIsExplicit
    UsageIsAPercentage
    ListIsTrue
    CountsFollowEvents
PROPERTIES
    FilesFoundAreKept
    OnlyOverlapsMixHistories
    StartsAreDecided
    AgentReachableAgain
    CommandReturns
    GoesBackOnlyByOverlap
    LeftIsLeft
    CatchesUp
