SPECIFICATION FairSpec
CONSTANTS
  list = list
  detail = detail
  Routes = {list, detail}
  WorkingTimeoutMs = "number"
  MaxSends = 3
  MaxCards = 1
  MaxMessages = 1
  MaxFragments = 2
INVARIANTS
  ViewsTrackStore
  TranscriptFaithful
  FramesInOrder
PROPERTIES
  DecisionsStand
  WaitingEnds
  DecisionSettles
CHECK_DEADLOCK FALSE
