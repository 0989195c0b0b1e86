SPECIFICATION StartupSpec
CONSTANTS
  k1 = k1
  k2 = k2
  k3 = k3
  u1 = u1
  u2 = u2
  r1 = r1
  r2 = r2
  Clients = {k1, k2, k3}
  Workers = {w1, w2}
  NumThreads = 2
  Fds = {4, 5, 6, 7}
  Closed = Closed
  NoFd = NoFd
  Resources <- MCResources
  RequestOf <- MCRequestOf
  ResponseParts = 1
  Environments <- MCEnvironments
  Urls = {u1, u2}
  KeyOf <- MCKeyOf
  Cells = {c1, c2}
  Free = Free
  Capacities = {0, 1, 2, 100, 70000, 100000}
  NotMade = NotMade
  Huge = 100000
  Null = Null
  NoRequest = NoRequest
INVARIANTS
  StartupTypeOK
  PermitsConserved
  EndsForAReason
PROPERTIES
  SharesOneLRUCache
  WorkersNoticeSigint
\* Everything comes to rest after SIGINT, or a double close ends the process.
CHECK_DEADLOCK FALSE
