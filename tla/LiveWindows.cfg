SPECIFICATION Spec
CONSTANTS
  Confirmations = {c1}
  Intents = {i1}
  Brokers = {b1, b2}
  Unavailable = unavailable
  Submitters = {w1}
  Reconcilers = {r1}
  Operators = {o1}
  Nobody = nobody
  ReconMaxAge = 1
  RiskTTL = 2
  ConfirmLifetime = 2
  MayCrash = TRUE
  MaxTime = 2
  MaxReports = 2
  MaxLedger = 1
INVARIANTS ClaimWithinWindows ReconciledSinceActivation
PROPERTY AuthorisedCall
SYMMETRY Symmetry
CHECK_DEADLOCK FALSE
