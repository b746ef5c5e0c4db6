SPECIFICATION FairSpec
CONSTANTS
    Clients = {c1}
    Values = {v1}
    v1 = v1
    Nil = Nil
    Keys <- TwoKeys
    Ops <- CommitLoopOps
    Prefix <- NoPrefix
    VersionModulus = 16
    MaxCalls = 2
    MaxLosses = 0
    Mortal = {}
PROPERTY EveryCallReturns
CHECK_DEADLOCK FALSE
