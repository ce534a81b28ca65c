SPECIFICATION Spec
CONSTANTS
    Request = {r1, r2}
    CveRequest = {r1, r2}
    Analyst = {a1, a2}
    Worker = {w1, w2}
    Sweeper = {w1, w2}
    App = {app1}
    Log = {l1, l2}
    Reader = {v1}
    Source = {alert, sweep}
    Delayed = {sweep}
    Cve = {c1, c2}
    Recent = {c1, c2}
    None = None
    Unset = Unset
    Entries <- OneEntry
    TopVersion = 3
    PageSize = 1
    BatchSize = 2
    MaxNews = 2
    MaxFails = 1
    Listed = {"listed"}
    Uploaded = {"uploaded"}
    Loop = "loop"
    FeedRequest = "request"
    DayLength = 2
    UtcAhead = 1
    Retention = 2
    Sizes = {2}
    FeedInterval = 2
    LastDay = 3
    MaxFeed = 1
    MaxFeedChange = 2
    RuleKey = {"a.yar", "b.yar"}
    RuleFile = {"a.yar", "b.yar"}
    PathIsKey = TRUE
    MaxVersion = 2
    MaxRelease = 1
    MaxSync = 3
    PackSyncer = {w1, w2}
    MaxPack = 4
    MaxDie = 2
    MaxCases = 1
    MaxHour = 2
    MaxReopen = 1
    Sla = 0
    StaleAfter = 0
    PartCall = {1, 2, 3}
    Thing = {"x1"}
    Kinds = {"asset", "task", "indicator", "link"}
    AgentGroup = {"g"}
    BuiltIn = {}
    Custom = {"k"}
    Asker = {1, 2}
    AuditPolicy = {"p1", "p2"}
    Thread = {1, 2}
    MaxPolicyChange = 2
    MaxPolicyTrouble = 2
    Models = {"volume_anomaly"}
    Stages = 2
    ChainWindow = 1
    ConvergenceWindow = 1
    ScoreWindow = 1
    CaseCooldown = 1
    MinIndicators = 2
    CaseThreshold = 3
    LastHour = 2
    MaxAlert = 2
    MaxToggle = 1
    Switches = {"autocase"}
    Partner = {"partner"}
    Machine = {h1, h2, h3}
    Week = 2
    Lookback = 6
    MinDays = 3
    MinBaseline = 0
    Multiplier = 4
    MaxRare = 1
    MinCalls = 3
    Cv = 2
    MaxDay = 6
    MaxCount = 3
    MaxCalls = 4
    MaxGap = 3
    Lines = 3
    MaxChunk = 2
    MaxStaged = 4
    MaxErrors = 1
    Formats = {"ndjson", "whole"}
    Orderly = TRUE
    Tab = {t1, t2}
    Rules = 3
    MaxShare = 2
    MaxSwitch = 1
    Cooldown = 1
    MaxTrouble = 2
    TooLong = 1
    QuietBaseline = 3
    HushLength = 1
    MaxOffline = 2
    MaxDeaths = 1
    MaxAge = 2
    MaxId = 3
    MaxDies = 1
    MaxNow = 2
    Suspicious = {2}
    Attempts = 2
    Spools = TRUE
    Cap = 1
    MaxFail = 4
    MaxCrash = 1
    Path = {"p"}
    Content = {"c1", "c2"}
    MaxWrite = 2
    MaxKept = 1
    MaxStop = 1
    Call = {1, 2, 3}
    Exhibit = {"f1", "f2"}
    MaxMishap = 1
INVARIANTS
    TypeOK StoredWhole ReplayedAll DeliveredOrHeld NoStackedProbes
    SilenceToldOnce EvidenceFound ScoredExactlyOnce
    RiskEarned IntelKept
    EvidenceHeld CaseTold ChannelsFollow ChangesTold
PROPERTIES TransferSpec RulesHeal
CHECK_DEADLOCK FALSE
