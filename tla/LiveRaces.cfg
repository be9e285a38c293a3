SPECIFICATION Spec
CONSTANTS
  Confirmations = {c1, c2}
  Intents = {i1}
  Brokers = {b1}
  Unavailable = unavailable
  Submitters = {w1, w2}
  Reconcilers = {r1}
  Operators = {o1}
  Nobody = nobody
  ReconMaxAge = 1
  RiskTTL = 1
  ConfirmLifetime = 1
  MayCrash = TRUE
  MaxTime = 0
  MaxReports = 2
  MaxLedger = 0
INVARIANTS SingleFlight OneCallPerConfirmation
  ReplaysAgree OrdersAreAccounted
PROPERTIES ImplementsSubmission ReleasedOnlyByCoveringClear
SYMMETRY Symmetry
CHECK_DEADLOCK FALSE
