CONSTANTS
  e1 = e1
  e2 = e2
  Executions = {e1}
  Attempts = 2
  Threads = 2
SPECIFICATION Spec
CHECK_DEADLOCK FALSE
INVARIANTS
  PerformedOnce
