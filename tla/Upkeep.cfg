SPECIFICATION BothSpec
CONSTANTS
  None = None
  Clients = {a, b}
  Cals = {home, work1}
  Documents <- MCDocuments
  RefreshEvery = 2
  MaxActs = 3
  MaxFaults = 1
  MaxRounds = 2
  Order <- MCOrder
  Dir <- MCDir
  Given = {"event", "task"}
  ReadOnly = {"mirror"}
  Names = {garden}
  Commands = {c1, c2}
  MaxStarts = 4
INVARIANTS
  TokensSafe
  MirrorWhole
  ServesAll
  ShiftedOnce
SYMMETRY MCSymmetry
CHECK_DEADLOCK FALSE
