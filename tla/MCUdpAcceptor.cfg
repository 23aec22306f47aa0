SPECIFICATION MCSpec
CONSTANTS
  o1 = o1
  o2 = o2
  o3 = o3
  e1 = e1
  e2 = e2
  Op <- MCOp
  Endpoint <- MCEndpoint
  Datagram <- MCDatagram
  MaxStarts = 2
  MaxDatagrams = 2
  MaxErrors = 1
INVARIANTS
  TypeOK
  ExclusiveUntilReload
  ChainsBounded
  ProcessedIntact
PROPERTY DatagramsAreRead
CHECK_DEADLOCK FALSE
