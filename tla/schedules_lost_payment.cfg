SPECIFICATION Spec
CONSTANTS
    c1 = c1
    i1 = i1
    r1 = r1
    r2 = r2
    t1 = t1
    t2 = t2
    NoConfig = NoConfig
    NoItem = NoItem
    NoTxn = NoTxn
    Requests = {r1, r2}
    Configs = {c1}
    Items = {i1}
    Txns = {t1, t2}
    Plans <- SomePlans
    TotalPriceCents = 2
    TemplateTotals = {2}
    Amounts = {1}
    Environments <- OnlyPayments
SYMMETRY Symmetry
INVARIANTS
    CacheFresh
CHECK_DEADLOCK FALSE
