SPECIFICATION Spec
CONSTANTS
    Absent = Absent
    Scale = 10
    Step = 2
    ImpactRate = 1
    FeeRate = 1
    Participation = 5
    Latency = 1
    MinNotional = 10
    MaxFillsPerOrder = 3
    MaxSessionOrders = 3
    Offers <- UnknownOffers
    Bars <- UnknownBars
    Evidence <- NoEvidence
    Instruments = {1, 2}
    Orders = {1, 2, 3}
    StartingCash = 48
    MaxGroup = 8
    Brokers = {b1}
    Answers = {"acknowledged", "filled"}
    Settlements = {"unknown"}
    MayCrash = FALSE
    MayFail = FALSE
    MaxTime = 2
    MaxOps = 4
CHECK_DEADLOCK FALSE
INVARIANT NoInventedFill
