SPECIFICATION MCSpec
CONSTANTS
    Clients = {c1, c2, c3}
    c1 = c1
    c2 = c2
    c3 = c3
    Values = {v1, v2}
    v1 = v1
    v2 = v2
    Nil = Nil
    Keys <- ForkKeys
    Ops <- AllOps
    Prefix <- NoPrefix
    VersionModulus = 16
    MaxCalls = 4
    MaxLosses = 1
    Mortal = {c1}
SYMMETRY Alike
PROPERTY LinearizableUpToConflicts
CHECK_DEADLOCK FALSE
