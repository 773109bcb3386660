SPECIFICATION Spec
CONSTANTS
    r1 = r1
    r2 = r2
    Requests = {r1, r2}
    MaxTrips = 2
    MaxOrders = 2
    MaxItins = 4
    MaxDays = 10
    MaxActs = 6
    MaxDate = 2
    Environments <- Every
SYMMETRY Symmetry
CHECK_DEADLOCK FALSE
INVARIANTS
    ItineraryRules
    DayNumbers
    SegmentsOfOneSave
    NoParentCycle
    CopiesInOrder
    OneActivityPerForm
    BookingRecorded
    OrdersTruthful
    TypeOK
PROPERTIES
    RepeatsMakeWhole
    TripRules
