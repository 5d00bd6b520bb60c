CONSTANTS
  Callers = {c1, c2}
  Workers = {w1, w2}
  Sizes = {0, 1, 3}
  PartSize = 2
  MaxApiRetryCount = 2
  Disturbances = {"read"}
SPECIFICATION Spec
INVARIANTS
  TypeOK
  QuietAfterReturn
  AbortsOnFailure
  FailsByItself
PROPERTIES
  ReplacesAsAWhole
  Answered
CHECK_DEADLOCK FALSE
