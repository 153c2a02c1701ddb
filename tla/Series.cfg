SPECIFICATION Spec
CONSTANTS
  FirstYear = 2024
  Months = 16
  MaxPeriods = 10000
  None = None
  Uids = {u1, u2, u3}
  Titles = {"a", "b"}
  Events <- MCEvents
  Foreign <- MCForeign
  Flags <- MCFlags
  Shared <- MCShared
  FormDates = {44}
  From = 40
  To = 150
  Windows <- MCWindows
  MaxOps = 2
SYMMETRY MCSymmetry
CHECK_DEADLOCK FALSE
INVARIANTS
  WindowAgrees
  FilesFaithful
PROPERTIES
  ScopesHold
