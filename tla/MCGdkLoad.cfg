CONSTANTS
    connect = connect
    login = login
    sync = sync
    load = load
    session = session
    Task = {connect, login, sync, load}
    Group = {g1}
    Session = {session}
    TorSession = {session}
    Needs <- MCNeeds
    Kind <- MCKind
    SessionOf <- MCSessionOf
    Interactive = FALSE
    MaxDrops = 0
    MaxNext = 1
SPECIFICATION GdkFairSpec
PROPERTIES GroupEnds FailureReachesGroup
CHECK_DEADLOCK FALSE
