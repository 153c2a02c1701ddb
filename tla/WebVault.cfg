SPECIFICATION FairSpec
CONSTANTS
  None = None
  Procs = {p1, p2}
  Tasks = {t1}
  Events = {e1}
  TasksDir = tasks
  Calendars = {inbox, work}
  Default = inbox
  ReportsOpens = FALSE
  MaxActs = 2
  MaxFaults = 1
INVARIANTS
  DifferenceIsKnown
PROPERTIES
  SyncEditsStand
  RemovalKeepsKnown
  CatchesUp
  Answered
