SPECIFICATION FairSpec
CONSTANTS
    Clients = {c1, c2}
    Values = {v1}
    v1 = v1
    Nil = Nil
    Keys <- ForkKeys
    Ops <- ClientOps
    Prefix <- Prefix2
    VersionModulus = 16
    MaxCalls = 4
    MaxLosses = 1
    Mortal = {c1}
INVARIANTS TypeOK WatchFaithful PrefixReady
PROPERTIES EraseExact EveryCallReturns
CHECK_DEADLOCK FALSE
