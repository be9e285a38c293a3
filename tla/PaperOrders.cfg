SPECIFICATION Spec
CONSTANTS
    Absent = Absent
    Scale = 10
    Step = 2
    ImpactRate = 1
    FeeRate = 1
    Participation = 5
    Latency = 2
    MinNotional = 10
    MaxFillsPerOrder = 3
    MaxSessionOrders = 3
    Offers <- OrderOffers
    Bars <- OrderBars
    Evidence <- NoEvidence
    Instruments = {1}
    Orders = {1, 2}
    StartingCash = 48
    MaxGroup = 12
    Brokers = {b1}
    Answers = {}
    Settlements = {"rejected"}
    MayCrash = FALSE
    MayFail = FALSE
    MaxTime = 5
    MaxOps = 5
CHECK_DEADLOCK FALSE
INVARIANTS TypeOK RollbackCannotFail BooksBalance LiquidityShared FillsWithinOrders
