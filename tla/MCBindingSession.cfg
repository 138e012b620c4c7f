CONSTANTS
  Bindings = {"node", "python"}
  MaxCalls = 3
  MaxEvents = 2
SPECIFICATION FairSpec
CHECK_DEADLOCK FALSE
INVARIANTS
  TurnsInOrder
  ClosedIsFinal
  HostOutcomes
PROPERTIES
  CallsSettle
