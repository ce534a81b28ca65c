SPECIFICATION RestoreSpec
CONSTANTS
    None = None
    PlainRule = {p1}
    AggRule = {}
    Group = {g1}
    Trouble = {}
    MaxLog = 3
    MaxNow = 0
    MaxTries = 1
    Batch = 2
    Threshold = 2
    AggWindow = 1
INVARIANT NothingSkipped
CHECK_DEADLOCK FALSE
