SPECIFICATION FairSpec
CONSTANTS
  Workers = {w1, w2}
  NoThread = NoThread
  NoTask = NoTask
  MaxTasks = 1
  MaxSpurious = 1
PROPERTIES
  ShutdownCompletes
CHECK_DEADLOCK FALSE
