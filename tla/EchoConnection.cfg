SPECIFICATION FairSpec
CONSTANTS
  SizeBytes = 2
  ValueBytes = 2
  MaxText = 4
  MaxMessages = 3
  Capacity = 5
INVARIANTS
  TypeOK
  NothingLeftOver
PROPERTIES
  EchoSpec
  RoundTripsEnd
  ConnectionReleased
CHECK_DEADLOCK FALSE
