SPECIFICATION Spec
CONSTANTS
  k1 = k1
  k2 = k2
  k3 = k3
  u1 = u1
  u2 = u2
  r1 = r1
  r2 = r2
  r3 = r3
  Clients = {k1, k2, k3}
  Workers = {w1, w2}
  Fds = {4, 5, 6, 7, 8}
  Closed = Closed
  NoFd = NoFd
  Resources <- MCResources
  RequestOf <- MCRequestOf
  Urls = {u1, u2}
  KeyOf <- MCKeyOf
  Cells = {c1, c2}
  Free = Free
  Null = Null
  NoRequest = NoRequest
  NoTask = NoTask
  ResponseParts = 2
  Environments <- MCEnvironments
  Capacities = {0, 1, 2}
INVARIANTS
  TypeOK
  DescriptorsHaveOneOwner
  RightWhileNothingIsEvicted
  CachesWholeResponses
  EndsForACause
\* The process may end, or every client that comes is served.
CHECK_DEADLOCK FALSE
