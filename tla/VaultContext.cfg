SPECIFICATION Spec
CONSTANTS
  None = None
  Tasks = {t1}
  Series = {e1, e2}
  Recurring = {e1, e2}
  Slots = {1}
  Calendars = {work, feed}
  ReadOnly = {feed}
  Projects = {p1}
  MaxOps = 3
  MaxFaults = 1
SYMMETRY MCSymmetry
PROPERTIES
  Consistent
  UndoRestores
  NothingDropped
  ProjectUnassigned
