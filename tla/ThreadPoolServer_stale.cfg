SPECIFICATION Spec
CONSTANTS
  k1 = k1
  k2 = k2
  k3 = k3
  u1 = u1
  u2 = u2
  r1 = r1
  r2 = r2
  r3 = r3
  Clients = {k1, k2, k3}
  Workers = {w1, w2}
  Fds = {4, 5, 6, 7, 8}
  Closed = Closed
  NoFd = NoFd
  Resources <- MCResources
  RequestOf <- MCRequestOf
  Urls = {u1, u2}
  KeyOf <- MCKeyOf
  Cells = {c1, c2}
  Free = Free
  Null = Null
  NoRequest = NoRequest
  NoTask = NoTask
  ResponseParts = 1
  Environments <- CalmOnly
  Capacities = {1}
INVARIANTS
  ReturnsAResponseOfTheUrl
CHECK_DEADLOCK FALSE
