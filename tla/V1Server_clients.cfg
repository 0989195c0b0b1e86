SPECIFICATION AllSpec
CONSTANTS
  Workers = {1, 2}
  Cells = {c1, c2, c3, c4}
  NULL = NULL
  Free = Free
  NoClient = NoClient
  MaxClients = 3
  MaxSpurious = 1
  Threads = {1, 2, 3}
  NoThread = NoThread
  u1 = u1
  u2 = u2
  u3 = u3
  Urls = {u1, u2, u3}
  NoUrl = NoUrl
  ElementSize <- MCElementSize
  MaxSize = 7
  MaxElementSize = 6
  NoSocket = NoSocket
  MaxFds = 5
INVARIANTS
  PerClientTypeOK
  ListIsWhole
  SizeIsAccounted
  CopiesAreFromRaces
  ThreadsKeepToTheirClients
PROPERTIES
  ImplementsTaskQueue
  EveryClientIsSeenTo
\* The bound on the clients ends every behaviour.
CHECK_DEADLOCK FALSE
