SPECIFICATION FairSpec
CONSTANTS
    r1 = r1
    r2 = r2
    i1 = i1
    NoInvoice = NoInvoice
    Requests = {r1, r2}
    Invoices = {i1}
    Amounts = {1}
    Operations = {"invoice", "webhook"}
    Faulty = {"webhook"}
    Isolated = FALSE
    External = {}
PROPERTIES
    PaymentEventuallyApplied
CHECK_DEADLOCK FALSE
