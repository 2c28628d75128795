SPECIFICATION DrainSpec
CONSTANTS
  p = p
  q = q
  IDs = {p, q}
  Callers = {c1}
  Requests <- PromptRequests
  Runner = Runner
  Session = Session
  MaxStops = 1
  MaxReloads = 0
  MaxResumes = 0
  None = None
INVARIANT DeliveredNeedsNoResumption
CHECK_DEADLOCK FALSE
