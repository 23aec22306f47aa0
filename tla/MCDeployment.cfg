SPECIFICATION Spec
CONSTANTS
  Op = {o1, o2, o3, o4}
  Socket = {s1, s2}
  MaxCalls = 3
  none = none
INVARIANTS
  TypeOK
  StopReleasesAll
  CrashesDuringCalls
PROPERTY ReleasedByOwner
SYMMETRY Symmetry
CHECK_DEADLOCK FALSE
