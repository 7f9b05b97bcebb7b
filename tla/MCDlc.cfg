SPECIFICATION FairSpec
CONSTANTS
    o1 = o1
    o2 = o2
    Order <- BothOrders
    Taker <- OneTaker
    MaxRetries = 1
    Others = TRUE
    MaxCalls = 2
INVARIANTS TypeOK SubmitsOnlyWithContext
PROPERTY TakerMovesOn
