SPECIFICATION Spec
CONSTANTS
    Absent = Absent
    Scale = 10
    Step = 2
    ImpactRate = 1
    FeeRate = 1
    Participation = 5
    Latency = 1
    MinNotional = 10
    MaxFillsPerOrder = 3
    MaxSessionOrders = 3
    Offers <- RecoveryOffers
    Bars <- RecoveryBars
    Evidence <- NoEvidence
    Instruments = {1}
    Orders = {1, 2}
    StartingCash = 100
    MaxGroup = 12
    Brokers = {b1, b2}
    Answers = {}
    Settlements = {"cancelled"}
    MayCrash = TRUE
    MayFail = TRUE
    MaxTime = 2
    MaxOps = 3
CHECK_DEADLOCK FALSE
SYMMETRY Symmetry
INVARIANT MemoryMatchesLog
PROPERTY ImplementsLifecycle
