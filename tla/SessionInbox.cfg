SPECIFICATION Spec
CONSTANTS
  p = p
  q = q
  compaction = compaction
  move = move
  IDs = {p, q, compaction, move}
  Callers = {c1, c2, c3}
  Requests <- InboxRequests
  Runner = Runner
  None = None
SYMMETRY CallersAlike
INVARIANTS PendingOrDelivered OneCompaction AnswersAreKept
PROPERTY LedgerSafe
CHECK_DEADLOCK FALSE
