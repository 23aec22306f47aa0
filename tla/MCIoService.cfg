SPECIFICATION FairSpec
CONSTANTS
  th1 = th1
  th2 = th2
  th3 = th3
  task = task
  lg1 = lg1
  lg2 = lg2
  Logger <- MCLogger
  plumber = plumber
  none = none
  Thread <- MCThread
  Task <- MCTask
  Config <- MCConfig
  hardware_concurrency = 0
  MaxThreads = 2
  PlumberTasks = 1
  MaxQueue = 2
INVARIANTS
  TypeOK
  PoolProvisioned
  QuiescentAfterStop
  LoggerPresent
PROPERTIES
  StopCompletes
  TasksServed
  PoolSpec
