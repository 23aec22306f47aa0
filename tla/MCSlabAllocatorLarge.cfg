SPECIFICATION Spec
CONSTANTS
  N = 4
  Max = 255
  SizeRange = 16
  Blocks = {1, 2, 3, 4, 5}
INVARIANTS
  AllocationInside
