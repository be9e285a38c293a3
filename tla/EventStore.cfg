SPECIFICATION Spec
CONSTANTS
  Writers = {w1, w2}
  Aggregates = {a1, a2}
  EventIds = {e1, e2, e3}
  NoEvent = none
  NoWriter = nobody
  MaxBatch = 2
INVARIANT ContiguousSequences
PROPERTY AtomicAppend
SYMMETRY Symmetry
