SPECIFICATION MCSpec
CONSTANTS
  None = None
  Files = {f, g}
  Contents = {1}
  Procs = {a, b}
  KeepLast = 1
  KeepDays = 1
  MaxRuns = 3
  MaxEdits = 2
  MaxActs = 4
  MaxFaults = 1
  MaxRestores = 1
SYMMETRY MCSymmetry
CHECK_DEADLOCK FALSE
INVARIANTS
  OneBackup
  NeverEmptied
PROPERTIES
  NothingLost
