SPECIFICATION Spec
CONSTANTS
  list = list
  detail = detail
  Routes = {list, detail}
  WorkingTimeoutMs = "undefined"
  MaxSends = 3
  MaxCards = 1
  MaxMessages = 1
  MaxFragments = 1
INVARIANTS
  ExecutedShowsResult
CHECK_DEADLOCK FALSE
