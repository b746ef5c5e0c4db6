SPECIFICATION FairSpec
CONSTANTS
    Callers = {c1, c2}
    Nil = Nil
    MaxEvents = 2
    MaxFailures = 0
PROPERTY WatchFires
CHECK_DEADLOCK FALSE
