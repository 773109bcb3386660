SPECIFICATION Spec
CONSTANTS
    Jobs = {j1, j2}
    Kinds <- Scheduled
    Replicas = {r1, r2}
    Conns = {c1, c2}
    MaxAttempts = 2
    Environments <- OnlyEnding

INVARIANT
    OneImport
CHECK_DEADLOCK FALSE
