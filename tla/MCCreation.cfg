CONSTANTS
    a1 = a1
    a2 = a2
    s1 = s1
    s2 = s2
    x1 = x1
    priced = priced
    plain = plain
    NoCoins = NoCoins
    NoTx = NoTx
    NoResult = NoResult
    Accounts = {a1, a2}
    Assets = {s1, s2}
    Addresses = {x1}
    Links = {priced, plain}
    Priced = {priced}
    LinkAsset <- MCLinkAsset
    MaxChanges = 1
    MaxTicks = 1
    MaxOut = 2
SPECIFICATION FairSpec
INVARIANTS TypeOK ShowsWhatWasEntered
PROPERTIES KeepsWhatWasTyped Settles
CHECK_DEADLOCK FALSE
