SPECIFICATION CommandSpec
CONSTANTS
    Host = {h1}
    Worker = {w1, w2}
    Slot = {s1}
    MaxPerHost = 1
    MaxTries = 1
    Label = {"script"}
    LegacyHost = {}
    Timely = FALSE
    Trouble = {"cancel"}
    None = None
INVARIANT NeverReceivedIsTrue
