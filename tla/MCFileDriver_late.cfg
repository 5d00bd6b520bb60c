CONSTANTS
  Paths = {a}
  Contexts = {c1, c2}
  Files = {f1, f2, f3, f4}
  Entries = {e1, e2, e3, e4, e5, e6}
  NULL = NULL
  ABSENT = ABSENT
  Worlds <- LateCloses
SPECIFICATION Spec
SYMMETRY Symmetry
CHECK_DEADLOCK FALSE
INVARIANTS
  Registered
