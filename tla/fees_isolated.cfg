SPECIFICATION FairSpec
CONSTANTS
    r1 = r1
    r2 = r2
    i1 = i1
    i2 = i2
    NoInvoice = NoInvoice
    Requests = {r1, r2}
    Invoices = {i1, i2}
    Amounts = {1, 2}
    Operations = {"update", "send", "markPaid", "delete", "invoice", "stripeRefund", "webhook"}
    Faulty = {"stripeRefund"}
    Isolated = TRUE
    External = {"failPayment"}
INVARIANTS
    LedgersAgree
    OneLiveInvoice
PROPERTIES
    Promise
    PaymentEventuallyApplied
CHECK_DEADLOCK FALSE
