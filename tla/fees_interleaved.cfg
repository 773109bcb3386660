SPECIFICATION Spec
CONSTANTS
    r1 = r1
    r2 = r2
    i1 = i1
    NoInvoice = NoInvoice
    Requests = {r1, r2}
    Invoices = {i1}
    Amounts = {1, 2}
    Operations <- InterleavedStripe
    Faulty = {"invoice", "webhook"}
    Isolated = FALSE
    External = {"failPayment", "dashboardRefund"}
SYMMETRY Symmetry
INVARIANTS
    RowTruthful
    TypeOK
    EventAppliedOnce
    RefundWithinPeak
CHECK_DEADLOCK FALSE
