SPECIFICATION Spec
CONSTANTS
    e1 = e1
    a1 = a1
    d1 = d1
    c1 = c1
    c2 = c2
    c3 = c3
    NoRequest = NoRequest
    Edits = {e1}
    Applications = {a1}
    Removals = {d1}
    Connections = {c1, c2, c3}
INVARIANTS
    AuditReportsCommitted
CHECK_DEADLOCK FALSE
