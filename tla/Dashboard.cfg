SPECIFICATION FairSpec
CONSTANTS
  Exporters = {e1, e2}
  Dirs = {d1, d2}
  NoDir = NoDir
  Absent = Absent
  MaxChanges = 2
INVARIANTS OnlyWholeFiles OwnersAreAlone
PROPERTIES ImplementsPublication EveryExportEnds
CHECK_DEADLOCK FALSE
