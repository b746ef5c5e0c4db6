SPECIFICATION Spec
CONSTANTS
    Clients = {c1}
    Values = {v1, v2}
    v1 = v1
    v2 = v2
    Nil = Nil
    Keys <- ForkKeys
    Ops <- ExampleOps
    Prefix <- NoPrefix
    MaxCalls = 4
    MaxLosses = 0
    Mortal = {}
INVARIANT CommitReturns
CHECK_DEADLOCK FALSE
