\* One child or shell in the background and the sweep of its own process.
SPECIFICATION Spec
CONSTANTS
  Shells = {s}
  Children = {c}
  Tools = {t1}
  Exits = {"completed"}
  MaxGenerations = 2
  MaxDeaths = 0
INVARIANTS
  RestartsAreTrue
CHECK_DEADLOCK FALSE
