CONSTANTS
    info = info
    message = message
    unlock = unlock
    Call = {info, message, unlock}
    Kind <- MCKind
    Messages = 1
    MaxId = 6
    MaxRepeats = 0
    MaxHttp = 2
    MaxDrops = 1
SPECIFICATION FairSpec
PROPERTIES EveryCallEnds
CHECK_DEADLOCK FALSE
