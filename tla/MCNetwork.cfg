CONSTANTS
    MaxSessions = 3
    MaxDrops = 1
SPECIFICATION FairSpec
INVARIANTS TypeOK SessionsAccountedFor ReleasedTwiceOnlyAfterTimeout LoadedNetworkStaysUsable UserKeepsSession LoggedInSessionsAreMapped OutageIsTrue
PROPERTY LoadEnds
CHECK_DEADLOCK FALSE
