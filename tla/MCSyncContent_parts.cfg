CONSTANTS
  ObjectSize = 4
  MaxSize = 5
  PartSize = 2
  ShortRead = 1
  Workers = {w1, w2}
  Caller = caller
  Lengths = {1, 2, 4}
  Disturbances = {"parallel"}
SPECIFICATION FairSpec
INVARIANTS
  ReadsTheObject
