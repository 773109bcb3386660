SPECIFICATION FairSpec
CONSTANTS
    Files = {f1, f2}
    TooBig = {f2}
    Runs = {s1, s2}
    Workers = {w1, w2}
    f1 = f1
    f2 = f2
    s1 = s1
    s2 = s2
    w1 = w1
    w2 = w2
    Changing = {f1}
    MaxVersion = 2
    Isolated = TRUE
    NoFile = NoFile
INVARIANTS
    StreamShared
    SkipIsSafe
    RunCatchesUp
PROPERTY
    RunEnds
CHECK_DEADLOCK FALSE
