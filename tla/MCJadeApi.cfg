CONSTANTS
    ping = ping
    update = update
    login = login
    Call = {ping, update, login}
    Kind <- MCKind
    Messages = 1
    MaxId = 6
    MaxRepeats = 1
    MaxHttp = 1
    MaxDrops = 1
SPECIFICATION Spec
INVARIANTS BusyTellsTheTruth
PROPERTIES CallsAnsweredOnce OneExchangeAtATime NoOvertaking
CHECK_DEADLOCK FALSE
