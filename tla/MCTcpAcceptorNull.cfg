SPECIFICATION Spec
CONSTANTS
  t1 = t1
  t2 = t2
  c1 = c1
  c2 = c2
  c3 = c3
  c4 = c4
  c5 = c5
  Thread <- MCThread
  Conn <- MCConn
  MaxStarts = 2
  MaxClients = 1
  MaxErrors = 1
  none = none
INVARIANTS
  NoNullMember
CHECK_DEADLOCK FALSE
