SPECIFICATION Spec
CONSTANTS
    Clients = {c1, c2}
    Values = {v1, v2}
    v1 = v1
    v2 = v2
    Nil = Nil
    Keys <- ForkKeys
    Ops <- EtcdOps
    Prefix <- Prefix1
    MaxCalls = 4
    MaxLosses = 1
    Mortal = {c1}
INVARIANTS WatchSound WatchComplete SetSettles CommitReadsRightly
PROPERTY Linearizable
CHECK_DEADLOCK FALSE
