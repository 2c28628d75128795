\* One aggregate, two writers and one reader: three events, then removal and
\* two more; a page holds one row, so that every read of two rows is split.
SPECIFICATION BusSpec
CONSTANTS
  Aggregates = {a}
  Writers = {w1, w2}
  Readers = {r}
  Origins = {o}
  Reserved = {0, 1}
  BatchSizes = {2}
  Persist = TRUE
  PageSize = 1
  MaxEvents = 2
  MaxRemovals = 1
  None = None
INVARIANTS
  BusTypeOK
  NothingIsSkipped
  LogIsComplete
  CopyHasNoGap
PROPERTIES
  ToldInOrder
  ReadersCatchUp
CHECK_DEADLOCK FALSE
