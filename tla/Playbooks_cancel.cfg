SPECIFICATION Spec
CONSTANTS
    Sweep = {s1}
    MaxCase = 1
    MaxRuns = 1
    MaxToggles = 0
    Scheduled <- Isolation
INVARIANT CancelledStaysCancelled
