\* One key, three calls, no symmetry: every interleaving of wakes, runs,
\* interrupts, waits and abandoned waits over an execution and its successor.
CONSTANTS
  Keys = {k1}
  Fibers = {f1, f2}
  Calls = {c1, c2, c3}
  None = None
SPECIFICATION Spec
INVARIANTS
  ExecutionsOwnFibers
  OneExecutionPerKey
  WaitersWillBeResolved
PROPERTIES
  DoorbellSafe
  WorkIsAnswered
  CallsReturn
CHECK_DEADLOCK FALSE
