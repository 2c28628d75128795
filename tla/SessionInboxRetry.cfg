SPECIFICATION Spec
CONSTANTS
  p = p
  q = q
  compaction = compaction
  move = move
  IDs = {p}
  Callers = {c1, c2}
  Requests <- RetryRequests
  Runner = Runner
  None = None
INVARIANT RetryIsIdempotent
CHECK_DEADLOCK FALSE
