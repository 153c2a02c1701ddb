SPECIFICATION Spec
CONSTANTS
  FirstYear = 2024
  Months = 2
  MaxPeriods = 10000
  None = None
  Bad = Bad
  t1 = t1
  t2 = t2
  u1 = u1
  u2 = u2
  Tasks = {t1, t2}
  Uids = {u1, u2}
  Titles = {"a", "b"}
  Statuses = {"todo", "done"}
  Default = "todo"
  FirstDone = "done"
  Calendars = {"home", "mirror"}
  ReadOnly = {"mirror"}
  Projects = {"p"}
  Requests = {r1, r2}
  Answers <- MCAnswers
  MaxRounds = 2
  MaxEdits = 2
  Tasks0 <- MCTasks0
  Series0 <- MCSeries0
CHECK_DEADLOCK FALSE
PROPERTIES
  KeepsApproval
  Ends
