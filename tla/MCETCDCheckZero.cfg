SPECIFICATION Spec
CONSTANTS
    Clients = {c1}
    Values = {v1, v2}
    v1 = v1
    v2 = v2
    Nil = Nil
    Keys <- OneKey
    Ops <- CheckZeroOps
    Prefix <- NoPrefix
    MaxCalls = 2
    MaxLosses = 0
    Mortal = {}
PROPERTY Linearizable
CHECK_DEADLOCK FALSE
