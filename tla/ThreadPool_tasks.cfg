SPECIFICATION FairSpec
CONSTANTS
  Workers = {w1, w2, w3}
  NoThread = NoThread
  NoTask = NoTask
  MaxTasks = 3
  MaxSpurious = 1
INVARIANTS
  TypeOK
  StartupBarrier
  NoLostWakeup
  TasksAccountedFor
  DrainedWhenJoined
PROPERTIES
  ImplementsTaskQueue
  EveryTaskFinishes
\* The pool is destroyed, or its owner has no more tasks.
CHECK_DEADLOCK FALSE
