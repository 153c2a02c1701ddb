SPECIFICATION BothSpec
CONSTANTS
  t1 = t1
  t2 = t2
  garden = garden
  e1 = e1
  e2 = e2
  TaskOrder <- MCTaskOrder
  Columns <- MCColumns
  Finished = "done"
  ProjectNames = {garden}
  Initial <- MCInitial
  Theirs <- MCTheirs
  Absent = None
  MaxPresses = 2
  MaxCount = 2
  MaxEdits = 1
  MaxFails = 1
  EventOrder <- MCEventOrder
  ProjectList <- MCProjectList
  Due <- MCDue
  Today = 1
  Days = 2
  DaySlots = 3
  Commands <- MCCommands
  Hits <- MCHits
  Repeats = 2
  Given <- MCGiven
  MaxCalKeys = 2
  MaxCalEdits = 1
INVARIANT NoticesEdits
PROPERTIES ScreensSound ChangesShown EditsShown
CHECK_DEADLOCK FALSE
