SPECIFICATION TurnSpec
CONSTANTS
  k1 = k1
  s1 = s1
  Keys = {k1}
  Fibers = {f1, f2}
  Calls = {s1, c1, c2}
  Sweeper <- OneSweeper
  MaxAttempts = 2
  MaxDeaths = 3
  MaxFaults = 1
  None = None
INVARIANTS
  TurnTypeOK
  OwedIsClaimed
  BudgetHolds
PROPERTY ClaimsAreReleased
CHECK_DEADLOCK FALSE
