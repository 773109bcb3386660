SPECIFICATION FairSpec
CONSTANTS
    e1 = e1
    a1 = a1
    d1 = d1
    d2 = d2
    c1 = c1
    c2 = c2
    c3 = c3
    NoRequest = NoRequest
    Edits = {e1}
    Applications = {a1}
    Removals = {d1, d2}
    Connections = {c1, c2, c3}
INVARIANTS
    AuditSafe
PROPERTY
    AuditDoesNotBlock
CHECK_DEADLOCK FALSE
