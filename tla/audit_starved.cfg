SPECIFICATION FairSpec
CONSTANTS
    e1 = e1
    e2 = e2
    c1 = c1
    c2 = c2
    NoRequest = NoRequest
    Edits = {e1, e2}
    Applications = {}
    Removals = {}
    Connections = {c1, c2}
PROPERTY
    AuditDoesNotBlock
CHECK_DEADLOCK FALSE
