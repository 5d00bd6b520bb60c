CONSTANT
  Drives = {x, y}
SPECIFICATION FairSpec
PROPERTY
  EndsAlways
