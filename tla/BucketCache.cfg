CONSTANTS
  Callers = {c1}
  timer = timer
  listener = listener
  Buckets = {near, far}
  Foreign = {far}
  Expiry = 1
  Period = 2
  Window = 1
SPECIFICATION Spec
INVARIANTS
  TypeOK
  ListsAreRecent
  HeadsAreRecent
  RefusedIsHidden
