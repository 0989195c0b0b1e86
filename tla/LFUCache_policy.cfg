SPECIFICATION HistorySpec
CONSTANTS
  Urls = {u1, u2, u3}
  Values = {d1}
  Cells = {c1, c2, c3}
  Free = Free
  Capacities = {2}
  MaxClock = 6
PROPERTIES
  EvictsLeastFrequentlyUsed
\* The bound on the history ends every behaviour.
CHECK_DEADLOCK FALSE
