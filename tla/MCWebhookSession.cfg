CONSTANTS
  e1 = e1
  e2 = e2
  s1 = s1
  s2 = s2
  Executions = {e1, e2}
  Sessions = {s1, s2}
  SessionOf <- MCSessionOf
  Scripts <- MCScripts
  Attempts = 3
  Threads = 1
SPECIFICATION SessionSpec
CHECK_DEADLOCK FALSE
INVARIANTS
  PerformedOnce
  OutcomeIsTrue
  SeamsFailClosed
  PrincipalEchoed
PROPERTIES
  KeepsContract
  ExecuteReturns
