SPECIFICATION FairSpec
CONSTANTS
    Senders = {s1, s2, s3}
    Ctls = {x1, x2}
    Nil = Nil
INVARIANTS NoUseAfterFree NoLostWakeup
PROPERTY Reclaimed
CHECK_DEADLOCK FALSE
