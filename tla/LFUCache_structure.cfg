SPECIFICATION HistorySpec
CONSTANTS
  Urls = {u1, u2, u3}
  Values = {d1, d2}
  Cells = {c1, c2, c3}
  Free = Free
  Capacities = {0, 1, 2}
  MaxClock = 6
INVARIANTS
  TypeOK
  Consistent
  CrashOnlyWithoutRoom
  FirstNodeIsTheHighest
PROPERTIES
  EvictsOnlyToMakeRoom
\* The bound on the history ends every behaviour.
CHECK_DEADLOCK FALSE
