SPECIFICATION Spec
CONSTANTS
    Worker = {w1}
    MaxStart = 1
    MaxDeath = 0
    Reported = FALSE
    Calls <- AgentCalls
INVARIANT CheckInServed
CHECK_DEADLOCK FALSE
