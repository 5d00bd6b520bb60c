CONSTANTS
  Workers = {w1, w2}
  Tasks = {awaited}
  Awaited = {awaited}
  Late = {}
  NULL = NULL
SPECIFICATION FairSpec
PROPERTIES
  StopReturns
CHECK_DEADLOCK FALSE
