SPECIFICATION FairSpec
CONSTANTS
  Tools = {t1, t2}
  CallIds = {i1, i2}
  Outputs <- MCOutputs
  AsOf = 1
  MayInterrupt = TRUE
INVARIANTS TraceIsWhole NoLookAhead NoWorkerLeft
PROPERTIES ResultBeginsInTime AnalysisEnds
CHECK_DEADLOCK FALSE
