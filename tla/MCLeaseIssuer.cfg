SPECIFICATION MCSpec
CONSTANTS
    Threads = {t1, t2, t3}
    Leases = {l1, l2, l3}
    t3 = t3
    l1 = l1
    l2 = l2
    l3 = l3
    Nil = Nil
    TTL = 10
    MaxDelay = 1
    MaxOutage = 1
    MaxOutages = 1
INVARIANTS LeaseKept SenderUsable
PROPERTY LeasesEnd
CHECK_DEADLOCK FALSE
