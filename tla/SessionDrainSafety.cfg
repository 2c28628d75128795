SPECIFICATION DrainSpec
CONSTANTS
  p = p
  q = q
  IDs = {p, q}
  Callers = {c1, c2}
  Requests <- PromptRequests
  Runner = Runner
  Session = Session
  MaxStops = 1
  MaxReloads = 1
  MaxResumes = 1
  None = None
SYMMETRY CallersAlike
INVARIANT NoStrandedInput
PROPERTY QueuedWaits
CHECK_DEADLOCK FALSE
