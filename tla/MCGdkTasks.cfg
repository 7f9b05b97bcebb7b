CONSTANTS
    connect = connect
    login = login
    assets = assets
    session = session
    Task = {connect, login, assets}
    Group = {g1, g2}
    Session = {session}
    TorSession = {}
    Needs <- MCNeeds
    Kind <- MCKind
    SessionOf <- MCSessionOf
    Interactive = TRUE
    MaxDrops = 1
    MaxNext = 1
SPECIFICATION GdkSpec
INVARIANTS RunningInputsFinished
PROPERTIES ConnectFailureIsFinal Spec
CHECK_DEADLOCK FALSE
