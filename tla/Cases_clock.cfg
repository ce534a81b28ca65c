SPECIFICATION Spec
CONSTANTS
    Analyst = {a1}
    MaxCases = 1
    MaxNow = 2
    MaxReopen = 1
    Sla = 1
    StaleAfter = 1
PROPERTY FreshClock
CHECK_DEADLOCK FALSE
