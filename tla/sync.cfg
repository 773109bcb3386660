SPECIFICATION FairSpec
CONSTANTS
    Jobs = {j1, j2}
    Kinds <- AllKinds
    Replicas = {r1, r2}
    Conns = {c1, c2}
    MaxAttempts = 2
    Environments <- OneTrouble

INVARIANTS
    InstanceSafe
    ScheduledOnce
    HistoryCloses
PROPERTY
    JobEnds
CHECK_DEADLOCK FALSE
