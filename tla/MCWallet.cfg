CONSTANTS
    w1 = w1
    old1 = old1
    New = {w1}
    Old = {old1}
    Logins <- MCLogins
    MaxCrashes = 1
    MaxTries = 3
    MaxOpen = 1
SPECIFICATION Spec
INVARIANTS RecordsFollowWallets AttemptsAreCounted MigrationIsComplete StoreInv
PROPERTY NoWriteAfterRemoval
CHECK_DEADLOCK FALSE
