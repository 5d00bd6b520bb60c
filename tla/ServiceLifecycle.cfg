CONSTANT
  Drives = {x, y}
SPECIFICATION FairSpec
INVARIANTS
  TypeOK
  StaysUp
PROPERTY
  EndsUnlessRobbed
