SPECIFICATION Spec
CONSTANTS
    r1 = r1
    r2 = r2
    r3 = r3
    NoRequest = NoRequest
    Request = {r1, r2, r3}
    Tor = TRUE
    LateNews = TRUE
    MaxSessions = 2
    MaxAttempts = 2
    MaxChanges = 1
    MaxDrops = 1
INVARIANTS RequestsAccountedFor RunsOnItsSession HttpInv
PROPERTY EndsOnce
CHECK_DEADLOCK FALSE
