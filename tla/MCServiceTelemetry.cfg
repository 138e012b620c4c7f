CONSTANTS
  s1 = s1
  s2 = s2
  Streams = {s1, s2}
  Extractors = {"extension", "headers", "verify_session"}
  Seams <- MCSeams
  Statuses = {"2xx", "5xx"}
  MaxAttempts = 2
  MaxCalls = 2
  MaxCards = 2
SPECIFICATION Spec
SYMMETRY MCSymmetry
CHECK_DEADLOCK FALSE
INVARIANT
  InstrumentsAreTrue
