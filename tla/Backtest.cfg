SPECIFICATION Spec
CONSTANTS
  Scale = 1000
  Step = 2
  ImpactRate = 50
  FeeRate = 10
  Participation = 1000
  Latency = 0
  TradeRisk = 5
  PositionShare = 100
  GrossShare = 45
  DailyLoss = 5
  Drawdown = 10
  MinNotional = 15
  Asset = 1
  Instruments = {1}
  StartingCash = 2400
  Bars <- MCBars
  Signals <- MCSignals
  MaxHolding = 3
  Closeout = TRUE
  MaxBars = 7
INVARIANTS BooksReconcile WithinApproval ExitsCover SizedIsAdmissible
PROPERTY NoLookAhead
CHECK_DEADLOCK FALSE
