-------------------------------- MODULE MCTui --------------------------------
(***************************************************************************)
(* The terminal UI for TLC; a behaviour is one of the task tabs or one of  *)
(* the calendar tab.                                                       *)
(***************************************************************************)
EXTENDS Screens

CONSTANTS t1, t2, garden, e1, e2

VARIABLE focus

MCTaskOrder == <<t1, t2>>
MCColumns == <<"todo", "doing", "done">>
MCInitial ==
  <<[status |-> "todo", project |-> Absent], [status |-> "doing", project |-> Absent]>>

MCTheirs ==
  {[status |-> "doing", project |-> garden], [status |-> "done", project |-> Absent]}

\* Two events that overlap, and a task due on the first of two days of three slots.
MCEventOrder == <<e1, e2>>
MCProjectList == <<garden>>
MCDue == <<1>>
MCCommands == <<"today", "delete", "board", "new-event">>
MCHits == [q \in {"d", "z"} |-> IF q = "d" THEN <<"delete", "today">> ELSE <<>>]
MCGiven ==
  [e \in {e1, e2} |->
     IF e = e1 THEN [start |-> 3, end |-> 5, allDay |-> FALSE, project |-> Absent]
     ELSE [start |-> 4, end |-> 7, allDay |-> FALSE, project |-> garden]]

\* The other part starts in any one way.
BothInit ==
  /\ Screen!Init /\ Plan!Init /\ focus \in {"tasks", "calendar"}
  /\ focus = "tasks" => calUi.view = "month"
  /\ focus = "calendar" => ui.tab = "board"

BothNext ==
  /\ UNCHANGED focus
  /\ \/ focus = "tasks" /\ Screen!Next /\ UNCHANGED calVars
     \/ focus = "calendar" /\ Plan!Next /\ UNCHANGED taskVars

\* On the calendar's side the loop and the watcher have nothing to do.
BothSpec == BothInit /\ [][BothNext]_<<focus, taskVars, calVars>> /\ Screen!Fairness

\* An edit by others shows in the end (main.rs run_loop).
EditsShown == Screen!EditsShown

\* The task tabs' state has its types, a form's cursor is on a field that it asks
\* for, a list's on an entry, in whatever order the keys came (app.rs
\* handle_modal_key); and a key acts on what is marked (app.rs target_uids).
ScreensSound == [](Screen!TypeOK /\ Plan!CursorShown) /\ Screen!ActsOnMarked
=============================================================================
