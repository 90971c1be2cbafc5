CONSTANTS
    m1 = m1
    m2 = m2
    g1 = g1
    g2 = g2
    Machines <- MCMachines
    Guards <- MCGuards
    Wallet = Wallet
    NoId = NoId
    Empty = Empty
    Junk = Junk
SPECIFICATION Spec
INVARIANT CacheNamesLiveGuard
