SPECIFICATION FairSpec
CONSTANTS
    Clients = {c1, c2}
    Values = {v1, v2}
    v1 = v1
    v2 = v2
    Nil = Nil
    Keys <- ForkKeys
    Ops <- ConsulOps
    Prefix <- Prefix1
    MaxCalls = 4
    MaxLosses = 1
    Mortal = {c1}
INVARIANT WatchComplete
PROPERTIES Linearizable ChangeNoticed
CHECK_DEADLOCK FALSE
