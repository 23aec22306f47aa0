SPECIFICATION Spec
CONSTANTS
  SizeBytes = 4
  NumberSizes = {2, 4, 8, 16}
  MaxText = 5
  MaxValues = 2
INVARIANT PacketStartsWithSize
CHECK_DEADLOCK FALSE
