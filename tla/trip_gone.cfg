SPECIFICATION Spec
CONSTANTS
    r1 = r1
    r2 = r2
    Requests = {r1, r2}
    MaxTrips = 2
    MaxOrders = 2
    MaxItins = 1
    MaxDays = 1
    MaxActs = 2
    MaxDate = 1
    Environments <- OneTrip
SYMMETRY Symmetry
CHECK_DEADLOCK FALSE
PROPERTIES
    OnlyDraftsRemoved
