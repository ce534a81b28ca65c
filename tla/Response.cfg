SPECIFICATION ResponseSpec
CONSTANTS
    Sweep = {w1, w2}
    MaxCase = 2
    MaxRuns = 1
    MaxToggles = 1
    Scheduled <- FirstOnly
    Host = {h1}
    Worker = {w1, w2}
    Slot = {x1, x2}
    MaxPerHost = 2
    MaxTries = 1
    Label = {"script", "upgrade", "uninstall"}
    LegacyHost = {}
    Timely = FALSE
    Trouble = {"cancel", "crash", "delay", "reinstall"}
    None = None
SYMMETRY Symmetry
INVARIANTS
    CommandTypeOK DecidedOnce NoDanglingRevert NoCaseForgotten RateBound
    FirstDispatchInOrder VerdictBacked FireAndForgetOnce
PROPERTY QuietIsFinal
