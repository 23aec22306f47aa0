SPECIFICATION FairSpec
CONSTANTS
  N = 4
  Max = 255
  SizeRange = 16
  Blocks = {1, 2, 3, 4}
INVARIANTS
  TypeOK
  WellFormed
PROPERTIES
  AllocateReturns
  PoolSpec
