CONSTANTS
  Capacity = 2
  Transports = {"websocket"}
  MaxFrames = 2
  MaxEvents = 3
SPECIFICATION FairSpec
CHECK_DEADLOCK FALSE
PROPERTIES
  SessionsEnd
