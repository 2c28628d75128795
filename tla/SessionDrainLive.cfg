SPECIFICATION DrainSpec
CONSTANTS
  p = p
  q = q
  IDs = {p, q}
  Callers = {c1, c2}
  Requests <- MixedRequests
  Runner = Runner
  Session = Session
  MaxStops = 0
  MaxReloads = 1
  MaxResumes = 0
  None = None
PROPERTIES SteersAreTaken RequestsReturn
INVARIANT DrainTypeOK
CHECK_DEADLOCK FALSE
