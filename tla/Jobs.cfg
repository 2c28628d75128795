\* A shell, a child, two tool calls, three jobs and two restarts: a call joins,
\* replaces, blocks on or backgrounds what the other or the sweep started.
SPECIFICATION Spec
CONSTANTS
  Shells = {s}
  Children = {c}
  Tools = {t1, t2}
  Exits = {"completed"}
  MaxGenerations = 3
  MaxDeaths = 2
INVARIANTS
  JobsTypeOK
  NoNoticeIsLost
  OutcomeIsTold
  WaitersHaveAJob
  SweepIsThorough
PROPERTIES
  BlockersReturn
CHECK_DEADLOCK FALSE
