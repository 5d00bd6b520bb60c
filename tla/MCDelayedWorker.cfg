CONSTANTS
  Workers = {w1, w2, w3}
  Tasks = {awaited, abandoned, late}
  Awaited = {awaited}
  Late = {late}
  NULL = NULL
SPECIFICATION FairSpec
INVARIANTS
  TypeOK
  OnePlace
  NoLostWakeup
  NothingLeftBehind
PROPERTIES
  TaskEnds
CHECK_DEADLOCK FALSE
