CONSTANTS
    MaxSessions = 2
    MaxDrops = 0
SPECIFICATION Spec
INVARIANT LoadsLoggedInSessions
CHECK_DEADLOCK FALSE
