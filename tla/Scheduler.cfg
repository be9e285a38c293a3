SPECIFICATION FairSpec
CONSTANTS
  r1 = r1
  r2 = r2
  r3 = r3
  k1 = k1
  k2 = k2
  Workers = {w1, w2}
  Runs <- MCRuns
  Keys <- MCKeys
  KeyOf <- MCKeyOf
  DueAt <- MCDueAt
  MaxLateness = 1
  Nothing = nothing
  MayFail = TRUE
  MaxTime = 3
INVARIANTS ExecutedAtMostOnce MutualExclusion ExclusionsPair
PROPERTIES NeverRunLate ExclusionReleased
CHECK_DEADLOCK FALSE
