CONSTANTS
  Threads = {t1, t2, t3}
  Names = {a, b}
  Objects = {o1, o2, o3}
  NULL = NULL
SPECIFICATION FairSpec
INVARIANTS
  TypeOK
  MutualExclusion
  StoreTracksShares
PROPERTIES
  ImplementsNameLocks
  OnlyDoubleLockHangs
CHECK_DEADLOCK FALSE
