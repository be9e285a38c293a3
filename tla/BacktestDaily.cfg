SPECIFICATION Spec
CONSTANTS
  Scale = 1000
  Step = 2
  ImpactRate = 50
  FeeRate = 10
  Participation = 1000
  Latency = 1
  TradeRisk = 5
  PositionShare = 100
  GrossShare = 500
  DailyLoss = 20
  Drawdown = 100
  MinNotional = 15
  Asset = 1
  Instruments = {1}
  StartingCash = 1200
  Bars <- DailyBars
  Signals <- DailySignals
  MaxHolding = 0
  Closeout = TRUE
  MaxBars = 9
INVARIANT DailyLossRespected
CHECK_DEADLOCK FALSE
