SPECIFICATION StartupSpec
CONSTANTS
  k1 = k1
  k2 = k2
  k3 = k3
  u1 = u1
  u2 = u2
  r1 = r1
  r2 = r2
  Clients = {k1, k2}
  Workers = {w1, w2}
  NumThreads = 2
  Fds = {4, 5, 6, 7}
  Closed = Closed
  NoFd = NoFd
  Resources <- MCResources
  RequestOf <- MCRequestOf
  ResponseParts = 1
  Environments <- RoomyOnly
  Urls = {u1, u2}
  KeyOf <- MCKeyOf
  Cells = {c1, c2}
  Free = Free
  Capacities = {100}
  NotMade = NotMade
  Huge = 100
  Null = Null
  NoRequest = NoRequest
INVARIANTS
  ReturnsTheResponse
CHECK_DEADLOCK FALSE
