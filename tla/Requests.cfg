SPECIFICATION RequestsSpec
CONSTANTS
  Askers = {a1, a2}
  Replies = {u1, u2}
  Calls = {a1, a2}
  Users = {u1, u2}
  Sessions = {s, t}
  Resources = {r, q, p}
  Allowed = {p}
  MaxFaults = 1
  MaxFormFaults = 1
SYMMETRY RequestsSymmetry
CONSTRAINT QuestionsApart
INVARIANTS
  PermissionTypeOK WaitersArePending ReleasedWasTold CardsAreLive
  FormTypeOK FormWaitersArePending EndsAreHeard FormCardsAreLive
PROPERTY GrantsAreCovered
CHECK_DEADLOCK FALSE
