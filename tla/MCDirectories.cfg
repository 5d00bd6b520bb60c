CONSTANTS
  Threads = {t1, t2}
  Dir = dir
  Top = Top
  Files = {f, g}
  Dirs = {dir}
  Parent <- InOneDirectory
  Worlds <- FourKinds
SPECIFICATION DirSpec
SYMMETRY Symmetry
INVARIANTS
  DirectoriesTypeOK
  FilesRight
  ListsRight
  ShowsWhatStays
  LeavesNothingBehind
