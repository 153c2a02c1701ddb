------------------------------ MODULE Screens ------------------------------
(***************************************************************************)
(* The terminal UI: its task tabs (Tui) and beside them the calendar tab   *)
(* (Planner).  They share no state that matters here.                      *)
(***************************************************************************)
EXTENDS Integers

CONSTANTS
  Absent,                                              \* None of both
  TaskOrder, Columns, Finished, ProjectNames, Initial, \* see Tui
  Theirs, MaxPresses, MaxCount, MaxEdits, MaxFails,
  EventOrder, ProjectList, Due, Today, Days, DaySlots, \* see Planner
  Commands, Hits, Repeats, Given, MaxCalKeys, MaxCalEdits

VARIABLES
  onDisk, trash, taskCache, undos, redos, news, flagged, pc, listing, ui, modal, job,
  presses, edits, failed,
  events, ticked, projects, calUi, calModal, timer, fired, calPc, shown, aim,
  calKeys, calEdits

Screen == INSTANCE Tui WITH
  Order <- TaskOrder, Done <- Finished, Projects <- ProjectNames, None <- Absent,
  MaxKeys <- MaxPresses, MaxFaults <- MaxFails,
  disk <- onDisk, cache <- taskCache, undo <- undos, redo <- redos, stale <- flagged,
  keys <- presses, faults <- failed

Plan == INSTANCE Planner WITH
  Order <- EventOrder, Slots <- DaySlots, None <- Absent, MaxKeys <- MaxCalKeys,
  MaxEdits <- MaxCalEdits,
  done <- ticked, ui <- calUi, modal <- calModal, pc <- calPc, keys <- calKeys, edits <- calEdits

ASSUME ScreensAssumption == Screen!TuiAssumption /\ Plan!Scheduled

taskVars ==
  <<onDisk, trash, taskCache, undos, redos, news, flagged, pc, listing, ui, modal, job,
    presses, edits, failed>>
calVars ==
  <<events, ticked, projects, calUi, calModal, timer, fired, calPc, shown, aim,
    calKeys, calEdits>>

\* The task tabs never rest on an outdated copy (main.rs run_loop).
NoticesEdits == Screen!NoticesEdits

\* A key on the calendar changes what the screen marked (app.rs:817, 1656).
ChangesShown == Plan!ChangesShown
=============================================================================
