CONSTANTS
    w1 = w1
    w2 = w2
    Waiters <- TwoWaiters
    Owner = Owner
    Free = Free
    MaxStarts = 2
CHECK_DEADLOCK FALSE
SPECIFICATION FairSpec
INVARIANTS
    TypeOK
    ExclusiveUse
    NoLostWakeup
    TerminatesOnlyAfterSelfEnd
    NoThreadOutlives
PROPERTIES
    StopReturns
    WaitReturns
