SPECIFICATION Spec
CONSTANTS
    c1 = c1
    c2 = c2
    i1 = i1
    i2 = i2
    i3 = i3
    r1 = r1
    r2 = r2
    t1 = t1
    t2 = t2
    NoConfig = NoConfig
    NoItem = NoItem
    NoTxn = NoTxn
    Requests = {r1, r2}
    Configs = {c1, c2}
    Items = {i1, i2, i3}
    Txns = {t1, t2}
    Plans <- SomePlans
    TotalPriceCents = 2
    TemplateTotals = {2}
    Amounts = {1}
    Environments <- SomeEnvironments
SYMMETRY Symmetry
INVARIANTS
    ScheduleSound
    CacheFreshWithCare
PROPERTIES
    SyncRepairs
    NeverEmptied
CHECK_DEADLOCK FALSE
