SPECIFICATION FairSpec
CONSTANTS
    Callers = {c1, c2}
    Nil = Nil
    MaxEvents = 2
    MaxFailures = 1
INVARIANTS HandlersPaired SettledAtJoin CancelWaitsForEver
PROPERTIES WritesInTurn CreateReturns DestructorReturns
CHECK_DEADLOCK FALSE
