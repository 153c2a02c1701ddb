-------------------------------- MODULE Tui --------------------------------
(***************************************************************************)
(* The terminal UI (crates/mgmt-tui/src/app.rs) under its host loop        *)
(* (crates/mgmt-cli/src/main.rs), on task files that other processes write *)
(* too.  The loop reloads the vault when a watcher has raised a flag and   *)
(* no modal is open, then waits for a key.  Keys act on the tasks marked   *)
(* in visual mode, or on the one under the cursor; a bulk action writes    *)
(* its tasks one file after the other.                                     *)
(*                                                                         *)
(* A task has a status, which is its column on the board, and a project,   *)
(* by which the views are filtered.  The calendar and focus tabs, the      *)
(* sidebar and the forms for events are left out; so are drawing and the   *)
(* text of prompts.                                                        *)
(***************************************************************************)
EXTENDS Integers, SequencesExt

CONSTANTS
  Order,       \* uids of tasks, in the order of their files and of the sort
  Columns,     \* ids of the workflow's statuses, from left to right
  Done,        \* the one that counts as done
  Projects,
  Initial,     \* the tasks there are to begin with, the first of Order
  Theirs,      \* what others may make of a task
  None,        \* Option::None
  MaxKeys,     \* bound on keys, other than those that only move the cursor
  MaxCount,    \* bound on the count typed before a key
  MaxEdits,    \* bound on writes of others
  MaxFaults    \* bound on failing writes

Tasks == ToSet(Order)
Option(S) == S \cup {None}
Task == [status : ToSet(Columns), project : Option(Projects)]
Entry == [uid : Tasks, val : Task]                \* a cached task
Snapshot == [uid : Tasks, val : Option(Task)]     \* Snapshot::Task

TuiAssumption ==
  /\ Order \in Seq(Tasks) /\ IsInjective(Order) /\ Order # <<>>
  /\ IsInjective(Columns) /\ Len(Columns) > 1 /\ Done \in ToSet(Columns) \ {Columns[1]}
  /\ Initial \in Seq(Task) /\ Len(Initial) <= Len(Order)
  /\ Theirs \subseteq Task
  /\ None \notin Tasks \cup Projects \cup Task
  /\ MaxCount \in Nat \ {0}
  /\ {MaxKeys, MaxEdits, MaxFaults} \subseteq Nat

VARIABLES
  disk,      \* the task files
  trash,     \* the trashed task files
  cache,     \* task_cache, a sequence
  undo,      \* undo_stack
  redo,      \* redo_stack
  news,      \* a change of files the watcher has not reported yet
  stale,     \* vault_stale
  pc,        \* where the loop is: top, ready, reading, busy, edited
  listing,   \* the reload at work: files still to read, tasks read
  ui,        \* tab, cursors, visual mode and project scope
  modal,     \* the open modal
  job,       \* the bulk action at work
  keys, edits, faults   \* keys pressed, writes of others, failed writes so far

vault == <<disk, trash>>
context == <<cache, undo, redo>>
bounds == <<keys, edits, faults>>
vars == <<disk, trash, cache, undo, redo, news, stale, pc, listing, ui, modal, job,
          keys, edits, faults>>

-----------------------------------------------------------------------------
(* The cache. *)

At(c, t) == SelectInSeq(c, LAMBDA e : e.uid = t)
Cached(c, t) == LET i == At(c, t) IN IF i = 0 THEN None ELSE c[i].val

\* The cache after task t has become v.
With(c, t, v) ==
  LET i == At(c, t) IN
  IF v = None THEN SelectSeq(c, LAMBDA e : e.uid # t)
  ELSE IF i = 0 THEN Append(c, [uid |-> t, val |-> v])
  ELSE [c EXCEPT ![i].val = v]

Uids(c) == [i \in DOMAIN c |-> c[i].uid]

\* Where a task is in the order of the files.
Place(t) == CHOOSE i \in DOMAIN Order : Order[i] = t

ColumnOf(s) == SelectInSeq(Columns, LAMBDA col : col = s)

-----------------------------------------------------------------------------
(* What the views show, and what a key aims at. *)

Visible(u, v) == u.scope \in {None, v.project}

\* The cards of a column, in the order of the cache.
Cards(c, u, k) ==
  Uids(SelectSeq(c, LAMBDA e : e.val.status = Columns[k] /\ Visible(u, e.val)))

\* One pane of the Tasks view: the open tasks, or those done.
Pane(c, u, pane) ==
  SelectSeq(Order, LAMBDA t :
    LET v == Cached(c, t) IN
    v # None /\ Visible(u, v) /\ (v.status = Done) = (pane = "done"))

Min2(a, b) == IF a < b THEN a ELSE b
Clamp(n, seq) == IF seq = <<>> THEN 1 ELSE Min2(n, Len(seq))

\* The task under the cursor.  The Tasks view clamps its cursor, the board does not.
CursorUid(c, u) ==
  IF u.tab = "board"
  THEN LET cards == Cards(c, u, u.col) IN
       IF u.row \in DOMAIN cards THEN cards[u.row] ELSE None
  ELSE LET list == Pane(c, u, u.pane) IN
       IF list = <<>> THEN None ELSE list[Clamp(u.sel[u.pane], list)]

\* The universe of a visual range.
VisualOrder(c, u) ==
  IF u.tab = "board" THEN Cards(c, u, u.col)
  ELSE Pane(c, u, "open") \o Pane(c, u, "done")

\* A mistake: the marked tasks, whether or not the view still shows them.
TargetsMarked(c, u) ==
  IF u.selected = {}
  THEN IF CursorUid(c, u) = None THEN <<>> ELSE <<CursorUid(c, u)>>
  ELSE SelectSeq(Uids(c), LAMBDA t : t \in u.selected)

Targets(c, u) ==
  IF u.selected = {}
  THEN IF CursorUid(c, u) = None THEN <<>> ELSE <<CursorUid(c, u)>>
  ELSE SelectSeq(VisualOrder(c, u), LAMBDA t : t \in u.selected)

ExitVisual(u) == [u EXCEPT !.visual = FALSE, !.anchor = None, !.selected = {}]

ToggleVisual(c, u) ==
  IF u.visual THEN ExitVisual(u)
  ELSE IF CursorUid(c, u) = None THEN u
  ELSE [u EXCEPT !.visual = TRUE, !.anchor = CursorUid(c, u), !.selected = {CursorUid(c, u)}]

\* The range between the anchor and the cursor, after the cursor has moved.
Marked(c, u) ==
  LET order == VisualOrder(c, u)
      a == SelectInSeq(order, LAMBDA t : t = u.anchor)
      b == SelectInSeq(order, LAMBDA t : t = CursorUid(c, u))
  IN IF ~u.visual \/ a = 0 \/ b = 0 THEN u
     ELSE [u EXCEPT !.selected = {order[i] : i \in Min2(a, b)..(a + b - Min2(a, b))}]

ClampBoard(c, u) == [u EXCEPT !.row = Clamp(u.row, Cards(c, u, u.col))]

ResetTasks(u) == ExitVisual([u EXCEPT !.sel = [open |-> 1, done |-> 1], !.pane = "open"])

-----------------------------------------------------------------------------
(* Moving the cursor. *)

BoardMotion(c, u, k) ==
  LET moved == CASE k = "left" -> [u EXCEPT !.col = IF @ = 1 THEN 1 ELSE @ - 1]
                 [] k = "right" -> [u EXCEPT !.col = Min2(@ + 1, Len(Columns))]
                 [] k = "up" -> [u EXCEPT !.row = IF @ = 1 THEN 1 ELSE @ - 1]
                 [] k = "down" -> [u EXCEPT !.row = @ + 1]
  IN Marked(c, ClampBoard(c, moved))

\* Up and down cross between the panes; J and K jump.
TasksMotion(c, u, k) ==
  LET open == Pane(c, u, "open")
      done == Pane(c, u, "done")
      moved ==
        CASE k = "up" /\ u.pane = "done" /\ u.sel.done = 1 ->
               [u EXCEPT !.pane = "open", !.sel.open = Clamp(Len(open), open)]
          [] k = "up" /\ ~(u.pane = "done" /\ u.sel.done = 1) ->
               [u EXCEPT !.sel[u.pane] = IF @ = 1 THEN 1 ELSE @ - 1]
          [] k = "down" /\ u.pane = "open" /\ u.sel.open < Len(open) ->
               [u EXCEPT !.sel.open = @ + 1]
          [] k = "down" /\ u.pane = "open" /\ u.sel.open >= Len(open) ->
               IF done = <<>> THEN u ELSE [u EXCEPT !.pane = "done", !.sel.done = 1]
          [] k = "down" /\ u.pane = "done" -> [u EXCEPT !.sel.done = Clamp(@ + 1, done)]
          [] k = "right" ->       \* Action::NextPane
               IF done = <<>> THEN u
               ELSE [u EXCEPT !.pane = "done", !.sel.done = Clamp(@, done)]
          [] k = "left" ->        \* Action::PrevPane
               [u EXCEPT !.pane = "open", !.sel.open = Clamp(@, open)]
  IN Marked(c, moved)

-----------------------------------------------------------------------------
(* The context's operations on a task: what becomes of value v. *)

Toggled(v) == [v EXCEPT !.status = IF v.status = Done THEN Columns[1] ELSE Done]

\* Workflow::neighbor, clamped at the ends.
Neighbour(s, dir) ==
  LET n == ColumnOf(s) + dir IN Columns[IF n < 1 THEN 1 ELSE Min2(n, Len(Columns))]

Result(op, v) ==
  CASE op.kind = "toggle" -> Toggled(v)
    [] op.kind = "delete" -> None
    [] op.kind = "move" -> [v EXCEPT !.status = Neighbour(v.status, op.dir)]
    [] op.kind = "assign" -> [v EXCEPT !.project = op.project]

Ops == {[kind |-> "toggle"], [kind |-> "delete"]}

\* MgmtContext::apply: the file, the trash, then the cache.
Apply(t, v) ==
  /\ disk' = [disk EXCEPT ![t] = v]
  /\ trash' = IF v # None THEN [trash EXCEPT ![t] = None]
              ELSE IF Cached(cache, t) = None THEN trash
              ELSE [trash EXCEPT ![t] = Cached(cache, t)]
  /\ cache' = With(cache, t, v)
  /\ news' = TRUE

Prior(t) == [uid |-> t, val |-> Cached(cache, t)]

\* MgmtContext::record: a fresh mutation.
Record(t, v) ==
  /\ Apply(t, v)
  /\ undo' = Append(undo, Prior(t))
  /\ redo' = <<>>

Untouched == UNCHANGED <<vault, context, news>>

-----------------------------------------------------------------------------
(* The host loop. *)

\* Whether vault_stale.swap is reached, and finds the flag up.
Reloads == modal = None /\ stale

StartReading ==
  /\ pc' = "reading"
  /\ listing' = [left |-> {t \in Tasks : disk[t] # None}, got |-> <<>>]

StartReload ==
  /\ pc = "ready" /\ Reloads
  /\ stale' = FALSE
  /\ StartReading
  /\ UNCHANGED <<vault, context, news, ui, modal, job, bounds>>

\* load_all gives up at a file that has gone since it listed the directory.
ReadFile ==
  /\ pc = "reading"
  /\ \E t \in listing.left :
       /\ \A x \in listing.left : Place(t) <= Place(x)
       /\ IF disk[t] # None
          THEN /\ listing' = [left |-> listing.left \ {t},
                              got |-> Append(listing.got, [uid |-> t, val |-> disk[t]])]
               /\ UNCHANGED <<pc, ui>>
          ELSE /\ pc' = "ready"
               /\ listing' = None
               /\ ui' = ClampBoard(cache, ui)
  /\ UNCHANGED <<vault, context, news, stale, modal, job, bounds>>

\* A mistake: the flag is taken down once the vault is read.
FinishTakingFlag ==
  /\ pc = "reading" /\ listing.left = {}
  /\ cache' = listing.got
  /\ ui' = ClampBoard(listing.got, ui)
  /\ pc' = "ready"
  /\ listing' = None
  /\ stale' = FALSE
  /\ UNCHANGED <<vault, undo, redo, news, modal, job, bounds>>

FinishReload ==
  /\ pc = "reading" /\ listing.left = {}
  /\ cache' = listing.got
  /\ ui' = ClampBoard(listing.got, ui)
  /\ pc' = "ready"
  /\ listing' = None
  /\ UNCHANGED <<vault, undo, redo, news, stale, modal, job, bounds>>

\* A mistake: nothing is noticed under a modal.
WatchUnlessModal ==
  /\ news
  /\ news' = FALSE /\ stale' = (stale \/ modal = None)
  /\ UNCHANGED <<vault, context, pc, listing, ui, modal, job, bounds>>

Watch ==
  /\ news
  /\ news' = FALSE /\ stale' = TRUE
  /\ UNCHANGED <<vault, context, pc, listing, ui, modal, job, bounds>>

-----------------------------------------------------------------------------
(* Keys.  One comes while the loop waits, having found nothing to reload.   *)
(* The watcher may raise the flag during that wait as well as after the key.  *)

Ready == pc = "ready" /\ ~Reloads

Waiting == Ready /\ UNCHANGED <<stale, listing, edits>>
Key == Waiting /\ keys < MaxKeys /\ keys' = keys + 1

\* A key that only moves the cursor or the marks.
Motion(k) ==
  /\ Ready /\ modal = None
  /\ ui' = IF ui.tab = "board" THEN BoardMotion(cache, ui, k) ELSE TasksMotion(cache, ui, k)
  /\ pc' = "ready"
  /\ Untouched
  /\ UNCHANGED <<stale, listing, modal, job, bounds>>

Looks(u) ==
  /\ Key /\ modal = None
  /\ ui' = u
  /\ pc' = "ready"
  /\ Untouched /\ UNCHANGED <<modal, job, faults>>

PressVisual == Looks(ToggleVisual(cache, ui))
CycleTab == Looks(ExitVisual([ui EXCEPT !.tab = IF @ = "board" THEN "tasks" ELSE "board"]))
CycleScope(p) ==
  /\ p # ui.scope
  /\ Looks(ClampBoard(cache, ResetTasks([ui EXCEPT !.scope = p])))

\* A bulk action begins: `shown` is what the key found marked, or under the cursor.
Begin(op, uids, reps, board) ==
  job' = [op |-> op, rest |-> uids, single |-> Len(uids) = 1, follow |-> None,
          reps |-> reps, board |-> board, shown |-> uids]

\* apply_to_targets, and move_card with a count before it.
Act(op, reps) ==
  LET uids == Targets(cache, ui) IN
  /\ IF uids = <<>> THEN pc' = "ready" /\ UNCHANGED job
     ELSE pc' = "busy" /\ Begin(op, uids, reps, ui.tab = "board" /\ modal = None)
  /\ UNCHANGED ui

PressAct(op) == Key /\ modal = None /\ Act(op, 1) /\ Untouched /\ UNCHANGED <<modal, faults>>

PressMove(dir, n) ==
  /\ Key /\ modal = None /\ ui.tab = "board"
  /\ Act([kind |-> "move", dir |-> dir], n)
  /\ Untouched /\ UNCHANGED <<modal, faults>>

\* What is done in $EDITOR changes one field.
Near(v, w) == (v.status = w.status) # (v.project = w.project)

\* $EDITOR on the task's file: what the user leaves there, then a reload.
Edit(v) ==
  LET t == CursorUid(cache, ui) IN
  /\ Key /\ modal = None
  /\ t # None
  /\ Near(Cached(cache, t), v)
  /\ disk' = [disk EXCEPT ![t] = v]
  /\ news' = TRUE
  /\ pc' = "edited"
  /\ UNCHANGED <<trash, context, ui, modal, job, faults>>

Edited ==
  /\ pc = "edited"
  /\ StartReading
  /\ UNCHANGED <<vault, context, news, stale, ui, modal, job, bounds>>

-----------------------------------------------------------------------------
(* A bulk action at work, one task per step. *)

Fails == faults < MaxFaults /\ faults' = faults + 1

Busy == pc = "busy" /\ UNCHANGED <<stale, listing, modal, keys, edits>>

EndJob(u) ==
  /\ ui' = IF job.board THEN ClampBoard(cache, u) ELSE u
  /\ job' = None
  /\ pc' = "ready"

Write ==
  /\ Busy /\ job.rest # <<>>
  /\ \E v \in {Result(job.op, Cached(cache, Head(job.rest)))} :
        /\ Record(Head(job.rest), v)
        /\ job' = [job EXCEPT !.rest = Tail(@), !.follow = IF v = None THEN None ELSE v.status]
  /\ UNCHANGED <<pc, ui, faults>>

\* A deletion that fails may have left its copy in the trash.  Moving cards
\* goes on with the next one, everything else stops.
WriteFails ==
  /\ Busy /\ job.rest # <<>> /\ Fails
  /\ LET t == Head(job.rest) IN
     \/ UNCHANGED <<trash, news>>
     \/ /\ job.op.kind = "delete"
        /\ trash' = [trash EXCEPT ![t] = Cached(cache, t)]
        /\ news' = TRUE
  /\ IF job.op.kind = "move"
     THEN job' = [job EXCEPT !.rest = Tail(@)] /\ UNCHANGED <<pc, ui>>
     ELSE EndJob(ExitVisual(ui))
  /\ UNCHANGED <<disk, context>>

Follows == job.op.kind = "move" /\ job.single /\ job.follow # None

\* The column of a single card that has moved becomes the cursor's.
AfterJob ==
  ExitVisual(IF Follows THEN [ui EXCEPT !.col = ColumnOf(job.follow)] ELSE ui)

EndRound ==
  /\ Busy /\ job.rest = <<>> /\ job.reps = 1
  /\ EndJob(AfterJob)
  /\ Untouched /\ UNCHANGED faults

\* dispatch: the next of the rounds a count asks for, with targets of its own.
NextRound ==
  /\ Busy /\ job.rest = <<>> /\ job.reps > 1
  /\ LET u == ClampBoard(cache, AfterJob)
         uids == Targets(cache, u)
     IN /\ ui' = u
        /\ IF uids = <<>> THEN job' = None /\ pc' = "ready"
           ELSE /\ job' = [job EXCEPT !.rest = uids, !.single = Len(uids) = 1,
                                      !.follow = None, !.reps = @ - 1]
                /\ UNCHANGED pc
  /\ Untouched /\ UNCHANGED faults

-----------------------------------------------------------------------------
(* Undo and redo.  The entry is gone before it is applied. *)

Undo ==
  \/ undo = <<>> /\ Untouched /\ UNCHANGED faults
  \/ /\ undo # <<>>
     /\ Apply(Last(undo).uid, Last(undo).val)
     /\ undo' = Front(undo)
     /\ redo' = Append(redo, Prior(Last(undo).uid))
     /\ UNCHANGED faults
  \/ /\ undo # <<>> /\ Fails
     /\ undo' = Front(undo)
     /\ UNCHANGED <<vault, cache, redo, news>>

Redo ==
  \/ redo = <<>> /\ Untouched /\ UNCHANGED faults
  \/ /\ redo # <<>>
     /\ Apply(Last(redo).uid, Last(redo).val)
     /\ redo' = Front(redo)
     /\ undo' = Append(undo, Prior(Last(redo).uid))
     /\ UNCHANGED faults
  \/ /\ redo # <<>> /\ Fails
     /\ redo' = Front(redo)
     /\ UNCHANGED <<vault, cache, undo, news>>

PressUndo == Key /\ modal = None /\ Undo /\ pc' = "ready" /\ UNCHANGED <<ui, modal, job>>
PressRedo == Key /\ modal = None /\ Redo /\ pc' = "ready" /\ UNCHANGED <<ui, modal, job>>

-----------------------------------------------------------------------------
(* Modals.  What they are about is noted when they open. *)

Open(m) ==
  /\ Waiting /\ modal = None
  /\ modal' = m
  /\ pc' = "ready"
  /\ Untouched /\ UNCHANGED <<ui, job, keys, faults>>

Trashed(tr) == {t \in Tasks : tr[t] # None}

OpenPalette == Open([kind |-> "palette"])
OpenPicker ==
  /\ Targets(cache, ui) # <<>>
  /\ Open([kind |-> "picker", uids |-> Targets(cache, ui)])
OpenTrash == Open([kind |-> "trash", items |-> Trashed(trash)])
OpenForm == Open([kind |-> "form"])

In(kind) == Key /\ modal # None /\ modal.kind = kind

Escape ==
  /\ Waiting /\ modal # None
  /\ modal' = None
  /\ pc' = "ready"
  /\ Untouched /\ UNCHANGED <<ui, job, keys, faults>>

\* The palette's commands aim at whatever the view has marked when they run.
\* Changing the view leaves visual mode on.
PaletteActs(op) ==
  /\ In("palette")
  /\ modal' = None
  /\ Act(op, 1)
  /\ Untouched /\ UNCHANGED faults

PaletteGoes(tab) ==
  /\ In("palette")
  /\ modal' = None
  /\ ui' = [ui EXCEPT !.tab = tab]
  /\ pc' = "ready"
  /\ Untouched /\ UNCHANGED <<job, faults>>

\* pick_project, for the tasks noted when the picker opened.
Pick(p) ==
  /\ In("picker")
  /\ modal' = None
  /\ Begin([kind |-> "assign", project |-> p], modal.uids, 1, FALSE)
  /\ pc' = "busy"
  /\ Untouched /\ UNCHANGED <<ui, faults>>

\* reopen_trash
Reopened == modal' = IF Trashed(trash') = {} THEN None
                     ELSE [kind |-> "trash", items |-> Trashed(trash')]

InTrash == In("trash") /\ pc' = "ready" /\ Reopened /\ UNCHANGED <<ui, job>>

\* The entry may have left the trash since the list was made.
Restore(t) ==
  /\ t \in modal.items
  /\ \/ /\ trash[t] # None
        /\ Record(t, trash[t])
        /\ UNCHANGED faults
     \/ trash[t] = None /\ Untouched /\ UNCHANGED faults
     \/ trash[t] # None /\ Fails /\ Untouched
  /\ InTrash

Purge(S) ==
  /\ trash' = [t \in Tasks |-> IF t \in S THEN None ELSE trash[t]]
  /\ news' = TRUE
  /\ InTrash
  /\ UNCHANGED <<disk, context, faults>>

Named(t) == /\ disk[t] = None /\ trash[t] = None /\ Cached(cache, t) = None
            /\ \A i \in DOMAIN undo : undo[i].uid # t
            /\ \A i \in DOMAIN redo : redo[i].uid # t

\* ensure_task_visible
Showing(c, u, t) ==
  LET open == Pane(c, u, "open")
      i == SelectInSeq(open, LAMBDA x : x = t)
  IN [u EXCEPT !.pane = "open", !.sel.open = IF i = 0 THEN 1 ELSE i]

\* submit_task: the task, then its optional fields in a write whose failure is
\* ignored.  The form stays open when the first write fails.
Submit(t, p, more) ==
  LET v == [status |-> Columns[1], project |-> p] IN
  /\ In("form") /\ Named(t)
  /\ \/ /\ Apply(t, v)
        /\ undo' = undo \o IF more THEN <<Prior(t), [uid |-> t, val |-> v]>>
                           ELSE <<Prior(t)>>
        /\ redo' = <<>>
        /\ modal' = None
        /\ ui' = Showing(cache', ui, t)
        /\ UNCHANGED faults
     \/ Fails /\ Untouched /\ UNCHANGED <<ui, modal>>
  /\ pc' = "ready"
  /\ UNCHANGED job

-----------------------------------------------------------------------------
(* Others: the command line, a short process with a context of its own; what *)
(* the web UI and a sync write is of the same kind.                          *)

Others ==
  /\ edits < MaxEdits
  /\ edits' = edits + 1
  /\ news' = TRUE
  /\ UNCHANGED <<context, stale, pc, listing, ui, modal, job, keys, faults>>

\* `mgmt task add`, and `task edit`, which may set or clear any of the fields.
OthersPut(t, v) ==
  /\ disk' = [disk EXCEPT ![t] = v]
  /\ trash' = [trash EXCEPT ![t] = None]
  /\ Others

\* `mgmt task rm`: resolve_task finds the file, delete_task puts it in the trash.
OthersDelete(t) ==
  /\ disk[t] # None
  /\ disk' = [disk EXCEPT ![t] = None]
  /\ trash' = [trash EXCEPT ![t] = disk[t]]
  /\ Others

-----------------------------------------------------------------------------

\* The calendar, where the program starts, is left with Tab.
Init ==
  /\ disk = [t \in Tasks |-> IF Place(t) <= Len(Initial) THEN Initial[Place(t)] ELSE None]
  /\ trash = [t \in Tasks |-> None]
  /\ cache = [i \in DOMAIN Initial |-> [uid |-> Order[i], val |-> Initial[i]]]
  /\ undo = <<>> /\ redo = <<>>
  /\ news = FALSE /\ stale = FALSE
  /\ pc = "ready" /\ listing = None
  /\ \E tab \in {"board", "tasks"} :
       ui = [tab |-> tab, col |-> 1, row |-> 1, pane |-> "open",
             sel |-> [open |-> 1, done |-> 1], visual |-> FALSE, anchor |-> None,
             selected |-> {}, scope |-> None]
  /\ modal = None /\ job = None
  /\ keys = 0 /\ edits = 0 /\ faults = 0

Loop == StartReload \/ ReadFile \/ FinishReload \/ Edited

Bulk == Write \/ WriteFails \/ EndRound \/ NextRound

Keys ==
  \/ \E k \in {"up", "down", "left", "right"} : Motion(k)
  \/ PressVisual \/ CycleTab
  \/ \E p \in Option(Projects) : CycleScope(p)
  \/ \E op \in Ops : PressAct(op)
  \/ \E dir \in {-1, 1}, n \in 1..MaxCount : PressMove(dir, n)
  \/ \E v \in Task : Edit(v)
  \/ PressUndo \/ PressRedo
  \/ OpenPalette \/ OpenPicker \/ OpenTrash \/ OpenForm \/ Escape
  \/ \E op \in Ops : PaletteActs(op)
  \/ \E tab \in {"board", "tasks"} : PaletteGoes(tab)
  \/ \E p \in Option(Projects) : Pick(p)
  \/ In("trash") /\ \E t \in Tasks : Restore(t) \/ Purge({t} \cap modal.items)
  \/ In("trash") /\ Purge(Tasks)
  \/ \E t \in Tasks, p \in Option(Projects), more \in BOOLEAN : Submit(t, p, more)

OthersAct == \E t \in Tasks : OthersDelete(t) \/ \E v \in Theirs : OthersPut(t, v)

Next == Loop \/ Watch \/ Bulk \/ Keys \/ OthersAct

\* The loop, which works keys off too, never rests for longer than its poll; the
\* watcher delivers.
Fairness == WF_vars(Loop \/ Bulk) /\ WF_vars(Watch)

Spec == Init /\ [][Next]_vars /\ Fairness

-----------------------------------------------------------------------------

TypeOK ==
  /\ disk \in [Tasks -> Option(Task)] /\ trash \in [Tasks -> Option(Task)]
  /\ cache \in Seq(Entry) /\ undo \in Seq(Snapshot) /\ redo \in Seq(Snapshot)
  /\ news \in BOOLEAN /\ stale \in BOOLEAN
  /\ pc \in {"ready", "reading", "busy", "edited"}
  /\ (listing # None) = (pc = "reading") /\ (job # None) = (pc = "busy")
  /\ ui.selected \subseteq Tasks /\ ui.row \in Nat \ {0} /\ ui.col \in DOMAIN Columns
  /\ keys \in 0..MaxKeys /\ edits \in 0..MaxEdits /\ faults \in 0..MaxFaults

\* What the TUI knows of the tasks is what their files say.
Agrees == \A t \in Tasks : Cached(cache, t) = disk[t]

\* The TUI never rests on an outdated copy: unless a change is still on its
\* way (unreported, flagged, or being read), its cache is what the files say,
\* whatever its own keys and the writes of others were (main.rs run_loop).
NoticesEdits == ~news /\ ~stale /\ pc \notin {"reading", "edited"} => Agrees

\* A key acts on the tasks that the view shows marked, or else on the one under
\* the cursor, and changes no other file, until it is done or fails
\* (target_uids).  A count before a move is repeated with new targets and is
\* left out here.
Aimed ==
  LET shown == IF ui.tab = "board" THEN ToSet(Cards(cache, ui, ui.col))
               ELSE ToSet(Pane(cache, ui, "open")) \cup ToSet(Pane(cache, ui, "done"))
  IN IF ui.selected = {} THEN {CursorUid(cache, ui)} ELSE ui.selected \cap shown

ActsOnMarked ==
  [][pc = "ready" /\ job' # None /\ job'.op.kind # "assign" =>
       ToSet(job'.rest) = Aimed \ {None}]_vars

\* An edit by others shows in the end, if the user keeps leaving the modals
\* and writes no more: the flag outlasts a modal, and a change during a reload
\* raises it again.
EditsShown == []<>(modal = None) => <>[]Agrees

\* "When moving a single card, follow it to whichever column the workflow
\* landed it in" (app.rs move_card): the cursor is on the card afterwards.
FollowsCard ==
  [][pc = "busy" /\ pc' = "ready" /\ Follows =>
       CursorUid(cache', ui') = job.shown[1]]_vars
=============================================================================
