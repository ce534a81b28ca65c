SPECIFICATION FairSpec
CONSTANTS
    Request = {r1}
    Analyst = {a1, a2}
    Worker = {w1, w2}
    Sweeper = {w1, w2}
    App = {app1}
    Host = {h1}
    Server = {sv1}
    Slot = {s1}
    Orderly = TRUE
    None = None
PROPERTIES
    EventuallySettled EventuallyAnnounced EventuallyStored EventuallyAlarmed
    EventuallyReported EventuallyClosed EventuallyCounted EventuallySwept
CHECK_DEADLOCK FALSE
