SPECIFICATION FairSpec
CONSTANTS
    r1 = r1
    r2 = r2
    r3 = r3
    NoRequest = NoRequest
    Request = {r1, r2}
    Tor = FALSE
    LateNews = FALSE
    MaxSessions = 2
    MaxAttempts = 2
    MaxChanges = 0
    MaxDrops = 1
PROPERTIES EveryRequestEnds IdleSessionIsReleased
CHECK_DEADLOCK FALSE
