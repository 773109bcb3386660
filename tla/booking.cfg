SPECIFICATION Spec
CONSTANTS
    Requests = {r1, r2}
    Keys = {k1, k2}
    r1 = r1
    r2 = r2
    k1 = k1
    k2 = k2
    MaxSessions = 2
    Environments <- AllEnvironments
    NoSession = NoSession
    NoKey = NoKey
    NoRef = NoRef
SYMMETRY Symmetry
INVARIANTS
    BookingSafe
    BookingsRecorded
    OneBookingPerSession
PROPERTY
    FollowsLifecycle
