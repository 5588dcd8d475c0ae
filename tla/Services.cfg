\* services: the components around the agent's turn, each on its own.
SPECIFICATION ServicesSpec
CONSTANTS
    Hubs = {h1, h2}
    Agents = {a1, a2}
    Dirs = {d1, d2}
    Homes = {x}
    Nested = {n}
    TrashTTL = 0
    MaxClock = 1
    MaxCopies = 1
    MaxCalls = 3
    p1 = p1
    p2 = p2
    p3 = p3
    Providers = {p1, p2, p3}
    Priority <- MCPriority
    Score <- MCScore
    Position <- MCPosition
    Requests = {r1}
    Sweeps = {s1}
    FailureThreshold = 2
    MaxSwings = 2
    MaxIds = 5
    Stores = {client}
    Keys = {k1, k2}
    Limit <- MCLimit
    Window = 2
    MaxEntries = 1
    MaxHits = 5
    MaxTime = 3
    Turns = {t1, t2}
    MaxConcurrent = 1
    MaxEvents = 2
    MaxPings = 1
    ta = ta
    tb = tb
    minor = minor
    major = major
    Executions = {e1, e2}
    RunDirs = {base, next}
    MaxVersion = 2
    OutcomesOf <- MCOutcomesOf
    Clusters = {minor, major}
    Critical = {major}
    MostFaults = 1
    RootIsAbsolute = TRUE
    MinRate = 50
    MaxFailed = 1
    MaxFaults = 0
    MaxClusters = 1
    MaxCritical = 0
    q1 = q1
    q2 = q2
    RepairTasks = {q1, q2}
    ReasonOf <- MCReasonOf
    SeverityOf <- MCSeverityOf
    Diagnoses = {{q1, q2}}
    Commanded = {q1}
    PlanDirs = {w1, w2}
    Repairers = {x1, x2}
    MaxAttempts = 2
    Recordable = {"complete", "in_progress"}
    u1 = u1
    u2 = u2
    wf = wf
    rt = rt
    qt = qt
    EvalTasks = {u1, u2}
    TaskRuns = {y1, y2}
    ToolCalls = {wf, rt, qt}
    ToolOf <- MCToolOf
    SourceOf <- MCSourceOf
    KindOf <- MCKindOf
    SpecOf <- MCSpecOf
    MaxRows = 2
    Openings <- MCOpenings
    Exchanges <- MCExchanges
    MaxTalk = 8
    TurnTokens = 20
    TightTokens = 14
    SchemaTokens = 2
    LeastChars = 12
    MaxToolChars = 9
    TrimNote = 3
    SummarySizes = {6, 15}
    KeepRecent = 4
    LeastKept = 2
    ThinkRoom = 6
    Callers = {c1, c2}
    Prompts = {"run", "repair"}
    RepliesTo <- MCRepliesTo
    MaxRetries = 1
    CacheSize = 1
    CacheTTL = 1
    MaxSkipped = 1
    MaxMoment = 2
    g1 = g1
    g2 = g2
    z1 = z1
    z2 = z2
    st = st
    StoredRunners = {g1, g2}
    Sessions = {z1, z2}
    PlanSteps = {st}
    CallIds = {i1, nocallid}
    NoCallId = nocallid
    StoredJobs <- MCStoredJobs
    MaxTurns <- MCMaxTurns
    MaxBatch = 1
    wd = wd
    bak = bak
    Workers = {w3, w4}
    Paths = {wd, bak}
    BackupOf <- MCBackupOf
    OldText = oldtext
    Undecodable = bytes
INVARIANTS
    ServicesTypeOK
    UpProviderAnswers
    NothingLost
    ServedWithinLimit
    StreamTellsAll
    GatedRunIsOne
    NoRegressionKeepsGate
    AttemptsAccountForPlan
    FinalsAreBacked
    SuccessIsEarned
    ContextHolds
    AnswersAsSent
    StoreTellsTrue
    BackupHolds
PROPERTY DestroyedOnlyFromTrash
CHECK_DEADLOCK FALSE
