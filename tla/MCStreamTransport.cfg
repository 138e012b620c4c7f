CONSTANTS
  Capacity = 2
  Transports = {"websocket", "grpc"}
  MaxFrames = 3
  MaxEvents = 3
SPECIFICATION FairSpec
CHECK_DEADLOCK FALSE
INVARIANTS
  OrderedDelivery
  InitFirst
  TurnsAccounted
PROPERTIES
  StreamsSettle
