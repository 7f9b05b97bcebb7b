CONSTANTS
    connect = connect
    login = login
    load = load
    Task = {connect, login, load}
    Group = {g1, g2}
    Needs <- MCNeeds
SPECIFICATION Spec
SYMMETRY Symmetry

INVARIANTS FailedGroupRunsNothing GroupsAgreeWithTasks BusyIsAccurate SchedulerInv
CHECK_DEADLOCK FALSE
