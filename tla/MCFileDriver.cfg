CONSTANTS
  Paths = {a, b}
  Contexts = {c1, c2}
  Files = {f1, f2, f3, f4, f5}
  Entries = {e1, e2, e3, e4, e5, e6, e7}
  NULL = NULL
  ABSENT = ABSENT
  Worlds <- CalmOrDisturbed
SPECIFICATION Spec
SYMMETRY Symmetry
VIEW Distinguished
CHECK_DEADLOCK FALSE
INVARIANTS
  TypeOK
  NoEntryLeak
  RegisteredWhenCalm
  ReadsSeeWrites
  Durable
PROPERTIES
  CreatesOnlyNew
  DeletesOnlyTheDeleted
