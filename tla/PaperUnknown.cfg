SPECIFICATION Spec
CONSTANTS
    Absent = Absent
    Scale = 10
    Step = 2
    ImpactRate = 1
    FeeRate = 1
    Participation = 5
    Latency = 1
    MinNotional = 10
    MaxFillsPerOrder = 3
    MaxSessionOrders = 3
    Offers <- UnknownOffers
    Bars <- UnknownBars
    Evidence <- UnknownEvidence
    Instruments = {1, 2}
    Orders = {1, 2, 3}
    StartingCash = 48
    MaxGroup = 8
    Brokers = {b1}
    Answers = {"acknowledged"}
    Settlements = {"unknown"}
    MayCrash = FALSE
    MayFail = TRUE
    MaxTime = 3
    MaxOps = 5
CHECK_DEADLOCK FALSE
INVARIANTS CohortFits MemoryMatchesLog IndexesMatch
