------------------------------ MODULE ChatTools ------------------------------
(***************************************************************************)
(* The tools the model may call (crates/mgmt-web/src/chat/tools.rs): what  *)
(* each does to the vault.  Arguments that do not parse, a uid nobody has, *)
(* a status the workflow lacks, a read-only calendar and a file that could *)
(* not be written are results the model reads, and change nothing.         *)
(*                                                                         *)
(* A call has every argument of every tool, None where it is left out; Bad *)
(* stands for text that does not parse and for a blank title.  The `due`   *)
(* of a task is also its `scheduled`, its priority and its project; the    *)
(* title of an event also its description, its location and its project.   *)
(***************************************************************************)
EXTENDS Occurrences

CONSTANTS
  Tasks,       \* uids of tasks
  Statuses,    \* those of the workflow
  Default,     \* default_id
  FirstDone,   \* first_done
  Calendars,
  ReadOnly,    \* subscribed_calendars
  Projects,
  Bad

ASSUME ToolsAssumption ==
  /\ Tasks \cap Uids = {}
  /\ {Default, FirstDone} \subseteq Statuses
  /\ ReadOnly \subseteq Calendars /\ Calendars \ ReadOnly # {}
  /\ Bad \notin Titles \cup Statuses \cup Projects \cup Int

\* What the vault holds.  An edited title may be blank.
Names == Titles \cup {Bad}
Option(S) == S \cup {None}
Task == [title : Names, due : Option(Int), status : Statuses]
Rule == [freq : Frequencies, interval : Nat, count : Option(Int), until : Option(Int),
         months : SUBSET Int, monthdays : SUBSET Int, weekdays : SUBSET ByDay,
         setpos : SUBSET Int, wkst : Int]
Master == [title : Names, start : Int, dur : Int, day : BOOLEAN, rule : Option(Rule),
           out : SUBSET Int]
Override == [at : Int, title : Names, start : Int, dur : Int, day : BOOLEAN]
EventSeries == [master : Master, over : SUBSET Override]
Vault == [tasks : [Tasks -> Option(Task)], series : [Uids -> Option(EventSeries)],
          home : [Uids -> Calendars], projects : SUBSET Projects]

\* What a confirm shows.
Prompt == [title : Names, at : Option(Int)]

ASSUME NoneIsNothing == None \notin Task /\ None \notin EventSeries /\ None \notin Prompt

Call(tool) ==
  [tool |-> tool, uid |-> None, title |-> None, due |-> None, status |-> None,
   start |-> None, end |-> None, at |-> None, scope |-> None, cal |-> None,
   day |-> FALSE]

Reads == {"now", "list_events", "list_tasks", "list_projects", "list_calendars",
          "get_settings"}

\* A call with the arguments its tool must have.  One without them changes nothing.
Time == Int \cup {None, Bad}
EventTools == {"create_event", "update_event", "delete_event"}
TaskTools == {"create_task", "update_task", "set_task_status", "complete_task", "delete_task"}

Argument ==
  [tool : EventTools \cup TaskTools \cup Reads \cup {"create_project"},
   uid : Option(Tasks \cup Uids), title : Option(Names \cup Projects), due : Time,
   status : Statuses \cup {None, Bad}, start : Time, end : Time, at : Time,
   scope : Scopes \cup {None, Bad}, cal : Option(Calendars), day : BOOLEAN]

ToolCall == {c \in Argument :
  /\ c.tool \in EventTools \cup TaskTools => c.title \in Option(Names)
  /\ c.tool \in {"update_event", "delete_event"} => c.uid \in Uids
  /\ c.tool \in TaskTools \ {"create_task"} => c.uid \in Tasks
  /\ c.tool \in {"create_event", "create_task"} => c.title # None
  /\ c.tool = "create_event" => None \notin {c.start, c.end, c.cal}
  /\ c.tool = "create_project" => c.title \in Projects \cup {Bad}}

Given(new, old) == IF new = None THEN old ELSE new

\* What dispatch returns: `ok`, and the vault it leaves.
Ok(v) == [ok |-> TRUE, vault |-> v]
Err(v) == [ok |-> FALSE, vault |-> v]

Writable(cal) == cal \notin ReadOnly

-----------------------------------------------------------------------------
(* Events. *)

WithMaster(v, u, e, cal) ==
  LET over == IF v.series[u] = None THEN {} ELSE v.series[u].over
  IN [v EXCEPT !.series[u] = [master |-> e, over |-> over], !.home[u] = cal]

CreateEvent(v, c, new) ==
  IF Bad \in {c.start, c.end} THEN Err(v)
  ELSE IF c.end <= c.start \/ ~Writable(c.cal) THEN Err(v)
  ELSE Ok(WithMaster(v, new, [title |-> c.title, start |-> c.start, dur |-> c.end - c.start,
                              day |-> c.day, rule |-> None, out |-> {}], c.cal))

\* The master as the call would have it.  The end may come before the start.
Changed(m, c) ==
  LET start == Given(c.start, m.start)
  IN [m EXCEPT !.title = Given(c.title, @), !.start = start,
               !.dur = Given(c.end, m.start + m.dur) - start]

\* A mistake: the occurrence keeps its time by taking that of the call's slot.
ChangedAtSlot(m, c) ==
  LET start == Given(c.start, Given(c.at, m.start))
  IN [m EXCEPT !.title = Given(c.title, @), !.start = start]

UpdateEvent(v, c, new) ==
  IF v.series[c.uid] = None \/ Bad \in {c.start, c.end, c.at} THEN Err(v)
  ELSE
    LET m == v.series[c.uid].master
        e == Changed(m, c)
        cal == Given(c.cal, v.home[c.uid])
        scope == Given(c.scope, "all")
        whole == c.at = None \/ scope = "all" \/ m.rule = None
        changed == UpdateOccurrence(v.series, c.uid, c.at, e, scope, new)
    IN IF scope = Bad /\ c.at # None THEN Err(v)
       ELSE IF c.at # None /\ ~Writable(v.home[c.uid]) THEN Err(v)
       ELSE IF whole /\ ~Writable(cal) THEN Err(v)
       ELSE IF whole THEN Ok(WithMaster(v, c.uid, e, cal))
       ELSE Ok([v EXCEPT !.series = changed,
                         !.home = IF scope = "following" THEN [@ EXCEPT ![new] = cal]
                                  ELSE @])

DeleteEvent(v, c) ==
  IF v.series[c.uid] = None \/ c.at = Bad THEN Err(v)
  ELSE IF (c.at # None /\ c.scope = Bad) \/ ~Writable(v.home[c.uid]) THEN Err(v)
  ELSE Ok([v EXCEPT !.series =
             DeleteOccurrence(@, c.uid, c.at,
                              IF c.at = None THEN "all" ELSE Given(c.scope, "all"))])

-----------------------------------------------------------------------------
(* Tasks and projects. *)

CreateTask(v, c, new) ==
  IF Bad \in {c.title, c.due} THEN Err(v)
  ELSE Ok([v EXCEPT !.tasks[new] =
             [title |-> c.title, due |-> c.due, status |-> Default]])

UpdateTask(v, c) ==
  IF v.tasks[c.uid] = None \/ c.due = Bad THEN Err(v)
  ELSE Ok([v EXCEPT !.tasks[c.uid].title = Given(c.title, @),
                    !.tasks[c.uid].due = Given(c.due, @)])

SetTaskStatus(v, c) ==
  IF v.tasks[c.uid] = None \/ c.status \notin Statuses THEN Err(v)
  ELSE Ok([v EXCEPT !.tasks[c.uid].status = c.status])

CompleteTask(v, c) == SetTaskStatus(v, [c EXCEPT !.status = FirstDone])

DeleteTask(v, c) ==
  IF v.tasks[c.uid] = None THEN Err(v) ELSE Ok([v EXCEPT !.tasks[c.uid] = None])

CreateProject(v, c) ==
  IF c.title = Bad THEN Err(v) ELSE Ok([v EXCEPT !.projects = @ \cup {c.title}])

-----------------------------------------------------------------------------
(* dispatch.  `new` is the uid of what the call makes, should it. *)

Dispatch(v, c, new) ==
  CASE c.tool = "create_event" -> CreateEvent(v, c, new)
    [] c.tool = "update_event" -> UpdateEvent(v, c, new)
    [] c.tool = "delete_event" -> DeleteEvent(v, c)
    [] c.tool = "create_task" -> CreateTask(v, c, new)
    [] c.tool = "update_task" -> UpdateTask(v, c)
    [] c.tool = "set_task_status" -> SetTaskStatus(v, c)
    [] c.tool = "complete_task" -> CompleteTask(v, c)
    [] c.tool = "delete_task" -> DeleteTask(v, c)
    [] c.tool = "create_project" -> CreateProject(v, c)
    [] c.tool \in Reads -> Ok(v)

\* The uids a call may take for what it makes.
Fresh(v, c) ==
  CASE c.tool = "create_task" -> {t \in Tasks : v.tasks[t] = None}
    [] c.tool = "create_event" \/ (c.tool = "update_event" /\ c.scope = "following") ->
         {u \in Uids : v.series[u] = None}
    [] OTHER -> {None}

\* Any write may also fail, as one does when the uids of the instance run out.
Outcomes(v, c) == {Dispatch(v, c, new) : new \in Fresh(v, c)} \cup {Err(v)}

Destructive == {"delete_event", "delete_task"}

\* describe_destructive: what the user would be asked about, or None when the
\* target is not there.
Described(v, c) ==
  CASE c.tool = "delete_event" ->
         IF v.series[c.uid] = None THEN None
         ELSE [title |-> v.series[c.uid].master.title,
               at |-> IF c.at \in {None, Bad} THEN v.series[c.uid].master.start ELSE c.at]
    [] c.tool = "delete_task" ->
         IF v.tasks[c.uid] = None THEN None
         ELSE [title |-> v.tasks[c.uid].title, at |-> None]
=============================================================================
