SPECIFICATION Spec
CONSTANTS
  l = l
  a = a
  b = b
  logger = logger
  worker = worker
  lib1 = lib1
  lib2 = lib2
  l1 = l1
  w1 = w1
  w2 = w2
  full = full
  swap = swap
  twice = twice
  none = none
  delayed_logger = delayed_logger
  cpp_logger = cpp_logger
  LoggerType = logger
  Name <- MCName
  Type <- MCType
  Binary <- MCBinary
  Object <- MCObject
  TypeOf <- MCTypeOf
  Node <- MCConstructed
  Path <- MCPath
  File <- MCFile
SYMMETRY MCSymmetry
INVARIANTS
  TypeOK
  NoAliasing
  RunningAccounted
  SuccessMatchesConfig
  DependenciesFirst
  ReloadAllOrNothing
  NoRecordLost
PROPERTIES
  RegistrySpec
CHECK_DEADLOCK FALSE
