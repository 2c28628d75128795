SPECIFICATION TurnSpec
CONSTANTS
  k1 = k1
  s1 = s1
  Keys = {k1}
  Fibers = {f1, f2}
  Calls = {s1, c1, c2}
  Sweeper <- OneSweeper
  MaxAttempts = 1
  MaxDeaths = 1
  MaxFaults = 0
  None = None
PROPERTY DrainingIsUntouched
CHECK_DEADLOCK FALSE
