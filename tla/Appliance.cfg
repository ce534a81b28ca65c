SPECIFICATION ApplianceSpec
CONSTANTS
    PlainRule = {p1}
    AggRule = {a1}
    Group = {g1}
    Trouble = {"fail", "remove", "rule", "torn"}
    MaxLog = 3
    MaxNow = 3
    MaxTries = 2
    Batch = 2
    Threshold = 2
    AggWindow = 1
    Request = {w1, w2}
    MaxRule = 2
    MaxRelease = 2
    MaxEdit = 1
    Sweep = {w1, w2}
    MaxCase = 1
    MaxRun = 2
    Lists <- ActionLists
    Shaky = {"url"}
    AllowLists <- IsolationLists
    MaxScript = 3
    MaxTrouble = 2
    Worker = {w1, w2}
    Platforms = {"windows", "linux", "macos"}
    None = None
SYMMETRY Symmetry
INVARIANTS
    NothingSkipped CountedOnce AlertsEarned EditsRemembered RunsAreWhole AnswersAreTrue
PROPERTY SchemaWhole
CHECK_DEADLOCK FALSE
