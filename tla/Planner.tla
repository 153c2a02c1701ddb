------------------------------ MODULE Planner ------------------------------
(***************************************************************************)
(* The calendar tab of the terminal UI (crates/mgmt-tui/src/app.rs), with  *)
(* what shares its screen: the event form, the project picker, the command *)
(* palette, the sidebar's projects and the focus timer.                    *)
(*                                                                         *)
(* The selection is a place in the agenda of a day, not an event, and a    *)
(* reminder that navigates moves it between two keys.  The keys act on it  *)
(* in either pane, and it is marked in one.  The loop reloads,             *)
(* ticks, draws and then takes a key (mgmt-cli main.rs run_loop).  A time  *)
(* is a number of slots; texts are a choice between what they may match.   *)
(* Recurring events, undo, the trash and the other tabs' tasks are left    *)
(* out here (modules Series and Tui).                                      *)
(***************************************************************************)
EXTENDS Integers, SequencesExt, FiniteSetsExt

CONSTANTS
  Order,       \* uids of events, as the cache holds them
  ProjectList, \* names of projects, in their order
  Due,         \* the days the tasks of the calendar are due, in order
  Today, Days, \* the first and the last day anybody looks at are 1 and Days
  Slots,       \* of a day
  Commands,    \* PALETTE_CMDS
  Hits,        \* what of them matches a text that is typed
  Repeats,     \* RecurChoice::ALL, 0 is "does not repeat"
  None,
  Given,       \* the events there are to begin with
  MaxKeys, MaxEdits   \* bounds on keys but motions and those that stay in a modal, on changes of others

Events == ToSet(Order)
Names == ToSet(ProjectList)
Option(S) == S \cup {None}
Event == [start : Nat, end : Nat, allDay : BOOLEAN, project : Option(Names)]

Scheduled == Given \in [Events -> Option(Event)]

VARIABLES
  events,    \* event_cache
  done,      \* the tasks of Due that are done
  projects,
  ui,        \* tab, cal_view, cal_focus, day, agenda_sel, project_scope, event_query
  modal,
  timer,
  fired,     \* fired_reminders: events whose reminder has come
  pc,        \* top: before the reload; ticked; drawn: a key may come
  shown,     \* the event at the selection in the frame that awaits a key, and the one
             \* that is marked there
  aim,       \* the event that was there when the modal opened
  keys, edits

vars == <<events, done, projects, ui, modal, timer, fired, pc, shown, aim, keys, edits>>
store == <<events, done, projects>>

-----------------------------------------------------------------------------
(* The agenda of a day. *)

DayOf(t) == t \div Slots

Visible(evs, u, e) == u.query \in {None, e} /\ u.scope \in {None, evs[e].project}

\* What overlaps the day, by its start.
Agenda(evs, u) ==
  LET on(e) == /\ evs[e] # None
               /\ evs[e].start < (u.day + 1) * Slots /\ evs[e].end > u.day * Slots
               /\ Visible(evs, u, e)
      place(e) == Len(Order) * evs[e].start + SelectInSeq(Order, LAMBDA x : x = e)
  IN SortSeq(SelectSeq(Order, on), LAMBDA a, b : place(a) < place(b))

\* The tasks of the calendar are of no project.
DueOn(u) ==
  SelectSeq([i \in DOMAIN Due |-> i], LAMBDA i : Due[i] = u.day /\ u.scope = None)

Total(evs, u) == Len(Agenda(evs, u)) + Len(DueOn(u))

\* selected_event_uid
Selected(u) ==
  LET list == Agenda(events, u)
  IN IF u.tab = "calendar" /\ u.sel \in DOMAIN list THEN list[u.sel] ELSE None

\* The end of calendar_action.
Clamped(evs, u) ==
  [u EXCEPT !.sel = IF Total(evs, u) = 0 THEN 1 ELSE Min({@, Total(evs, u)})]

-----------------------------------------------------------------------------
(* Moving about. *)

\* The places of the timed events that overlap the selected one, by their times
\* of day; none if that is not timed.
Lanes(u) ==
  LET list == Agenda(events, u)
      from(i) == events[list[i]].start % Slots
      to(i) == Max({events[list[i]].end % Slots, from(i) + 1})
      timed(i) == ~events[list[i]].allDay
  IN IF ~(u.sel \in DOMAIN list /\ timed(u.sel)) THEN {}
     ELSE {i \in DOMAIN list : timed(i) /\ from(i) < to(u.sel) /\ to(i) > from(u.sel)}

\* h and l: from lane to lane, around; or by a day.
LaneNavigate(u, dir) ==
  LET lanes == IF u.pane # "agenda" /\ u.view # "day" THEN {} ELSE Lanes(u)
      beyond == {i \in lanes : (i - u.sel) * dir > 0}
      nearest(S) == IF dir > 0 THEN Min(S) ELSE Max(S)
  IN IF Cardinality(lanes) <= 1 THEN [u EXCEPT !.day = @ + dir]
     ELSE [u EXCEPT !.sel = nearest(IF beyond = {} THEN lanes ELSE beyond)]

\* j and k: through the agenda, or by a week or a day.
Vertical(u, dir) ==
  LET down == Min({u.sel + 1, Total(events, u)})
  IN IF u.pane = "agenda" \/ u.view = "day"
     THEN [u EXCEPT !.sel = Max({1, IF dir > 0 THEN down ELSE @ - 1})]
     ELSE [u EXCEPT !.day = @ + (IF u.view = "month" THEN 7 ELSE 1) * dir]

NextView(v) == CASE v = "month" -> "week" [] v = "week" -> "day" [] v = "day" -> "month"

\* Entering the day view goes to the agenda.
InView(u, v) == [u EXCEPT !.view = v, !.pane = IF v = "day" THEN "agenda" ELSE @]

SwitchPane(u) == [u EXCEPT !.pane = IF @ = "date" THEN "agenda" ELSE "date"]

\* focus_event: the day view of the event's day, with the event selected if it shows.
FocusEvent(u, e) ==
  LET there == [u EXCEPT !.tab = "calendar", !.view = "day", !.pane = "agenda",
                         !.day = DayOf(events[e].start)]
      place == SelectInSeq(Agenda(events, there), LAMBDA x : x = e)
  IN [there EXCEPT !.sel = Max({1, place})]

\* mgmt --view
SetView(u, v) == [InView(u, v) EXCEPT !.tab = "calendar"]

-----------------------------------------------------------------------------
(* The loop. *)

\* A reload finds what others did to one event; not under a modal.
Reload ==
  /\ pc = "top" /\ modal = None
  /\ edits < MaxEdits /\ edits' = edits + 1
  /\ \E e \in Events, v \in {None} \cup {Given[x] : x \in Events} :
       events[e] # v /\ events' = [events EXCEPT ![e] = v]
  /\ UNCHANGED <<done, projects, ui, modal, timer, fired, pc, shown, aim, keys>>

\* fire_due_reminders, for one that navigates; a tick may find several.
\* A mistake: it comes between the drawing and the key.
NavigateLate(e) ==
  /\ events[e] # None /\ e \notin fired
  /\ fired' = fired \cup {e}
  /\ ui' = FocusEvent(ui, e)
  /\ pc' = IF pc = "drawn" THEN pc ELSE "ticked"
  /\ UNCHANGED <<store, modal, timer, shown, aim, keys, edits>>
Navigate(e) ==
  /\ pc \in {"top", "ticked"}
  /\ events[e] # None /\ e \notin fired
  /\ fired' = fired \cup {e}
  /\ ui' = FocusEvent(ui, e)
  /\ pc' = "ticked"
  /\ UNCHANGED <<store, modal, timer, shown, aim, keys, edits>>

\* Timer::skip; the clock runs on if it ran.
Skip(t) == [t EXCEPT !.focus = ~@]

\* tick, once the phase's time has run out.
PhaseEnds ==
  /\ pc \in {"top", "ticked"} /\ timer.running
  /\ timer' = Skip(timer)
  /\ pc' = "ticked"
  /\ UNCHANGED <<store, ui, modal, fired, shown, aim, keys, edits>>

\* The selection is marked while the agenda has the focus, not the dates.
Draw ==
  /\ pc \in {"top", "ticked"}
  /\ pc' = "drawn"
  /\ shown' = [event |-> Selected(ui),
               marked |-> IF ui.pane = "agenda" THEN Selected(ui) ELSE None]
  /\ UNCHANGED <<store, ui, modal, timer, fired, aim, keys, edits>>

\* The poll ends without a key.
NoKey ==
  /\ pc = "drawn" /\ pc' = "top" /\ shown' = None
  /\ UNCHANGED <<store, ui, modal, timer, fired, aim, keys, edits>>

Pressed == pc = "drawn" /\ pc' = "top" /\ shown' = None /\ UNCHANGED <<fired, edits>>
Counted == keys < MaxKeys /\ keys' = keys + 1
\* A key of the calendar tab.
OnCalendar == Pressed /\ modal = None /\ ui.tab = "calendar"

-----------------------------------------------------------------------------
(* Keys of the calendar. *)

Motion ==
  /\ OnCalendar
  /\ \E dir \in {-1, 1} : \E u \in {LaneNavigate(ui, dir), Vertical(ui, dir)} :
       u.day \in 1..Days /\ ui' = Clamped(events, u)
  /\ UNCHANGED <<store, modal, timer, aim, keys>>

\* v, Enter, t, and Esc, which does not clamp.
Look ==
  /\ OnCalendar /\ Counted
  /\ \/ \E u \in {InView(ui, NextView(ui.view)), SwitchPane(ui), [ui EXCEPT !.day = Today]} :
          ui' = Clamped(events, u)
     \/ ui' = IF ui.pane = "agenda" THEN [ui EXCEPT !.pane = "date"]
              ELSE [ui EXCEPT !.query = None]
  /\ UNCHANGED <<store, modal, timer, aim>>

\* adjust_event_start, adjust_event_end: not past the other edge.
Nudged(v, edge, by) ==
  LET w == [v EXCEPT ![edge] = @ + by] IN IF w.start < w.end THEN w ELSE v

\* `val` takes the place of the event selected, if there is one.
Changed(val) ==
  IF Selected(ui) = None THEN events ELSE [events EXCEPT ![Selected(ui)] = val]

Change(val) ==
  /\ OnCalendar /\ Counted
  /\ events' = Changed(val)
  /\ ui' = Clamped(events', ui)
  /\ UNCHANGED <<done, projects, modal, timer, aim>>

Nudge ==
  \E edge \in {"start", "end"}, by \in {-1, 1} :
    Change(Nudged(events[Selected(ui)], edge, by))
Delete == Change(None)

\* The tasks come after the events.
ToggleDone ==
  /\ OnCalendar /\ Counted
  /\ LET i == ui.sel - Len(Agenda(events, ui)) IN
     /\ i \in DOMAIN DueOn(ui)
     /\ done' = SymDiff(done, {DueOn(ui)[i]})
  /\ UNCHANGED <<events, projects, ui, modal, timer, aim>>

-----------------------------------------------------------------------------
(* Keys of the other tabs, and of all. *)

\* cycle_tab and cycle_project_scope
Leave ==
  /\ Pressed /\ modal = None /\ Counted
  /\ \/ \E t \in {"calendar", "board", "tasks", "focus"} \ {ui.tab} : ui' = [ui EXCEPT !.tab = t]
     \/ \E p \in Option(projects) \ {ui.scope} : ui' = [ui EXCEPT !.scope = p]
  /\ UNCHANGED <<store, modal, timer, aim>>

\* apply_sidebar_selection, on a project or on all of them
Sidebar ==
  /\ Pressed /\ modal = None /\ ui.tab = "tasks" /\ Counted
  /\ \E p \in Option(projects) : ui' = [ui EXCEPT !.scope = p]
  /\ UNCHANGED <<store, modal, timer, aim>>

\* The focus tab: start or pause, skip.
FocusKey ==
  /\ Pressed /\ modal = None /\ ui.tab = "focus" /\ Counted
  /\ timer' \in {[timer EXCEPT !.running = ~@], Skip(timer)}
  /\ UNCHANGED <<store, ui, modal, aim>>

-----------------------------------------------------------------------------
(* Modals. *)

\* EventForm: new, on the day shown, or of an event.
NewForm(u) ==
  [kind |-> "event", uid |-> None, day |-> u.day, allDay |-> FALSE, recur |-> 0,
   field |-> 0, project |-> u.scope]
FormOf(e) ==
  [kind |-> "event", uid |-> e, day |-> DayOf(events[e].start), allDay |-> events[e].allDay,
   recur |-> 0, field |-> 0, project |-> events[e].project]

\* An input of one line, for a search or a date.
Input(purpose) == [kind |-> "input", purpose |-> purpose]
Picker(e) == [kind |-> "picker", uid |-> e, projects |-> projects, typed |-> FALSE, sel |-> 1]
Palette == [kind |-> "palette", query |-> "", sel |-> 1]
Confirm(p) == [kind |-> "confirm", project |-> p]

Opens(m) ==
  /\ Pressed /\ modal = None /\ Counted
  /\ modal' = m
  /\ aim' = shown.event
  /\ UNCHANGED <<store, ui, timer>>

\* a, e, p, /, g; the palette everywhere; deleting the sidebar's project.
Open ==
  \/ Opens(Palette)
  \/ ui.tab = "calendar" /\ \E m \in {NewForm(ui), Input("search"), Input("date")} : Opens(m)
  \/ Selected(ui) # None /\ \E m \in {FormOf(Selected(ui)), Picker(Selected(ui))} : Opens(m)
  \/ ui.tab = "tasks" /\ \E p \in projects : Opens(Confirm(p))

In(kind) == Pressed /\ modal # None /\ modal.kind = kind

Closes == modal' = None /\ aim' = None

Escape ==
  /\ Pressed /\ modal # None /\ Closes
  /\ UNCHANGED <<store, ui, timer, keys>>

\* A key that stays in the modal.
Stays(m) ==
  /\ modal' = m
  /\ UNCHANGED <<store, ui, timer, aim, keys>>

-----------------------------------------------------------------------------
(* The event form.  Its fields, from 0: summary, all day, date, start, end,  *)
(* location, project, repeat, until, description.                            *)

Fields == 10
AllDayField == 1
RecurField == 7
UntilField == 8

\* A field that is not asked for is passed over.
Asked(f, i) == ~(f.allDay /\ i \in {3, 4}) /\ ~(f.recur = 0 /\ i = UntilField)

NextField(f) == IF f.allDay /\ f.field + 1 \in {3, 4} THEN 5
                ELSE IF f.recur = 0 /\ f.field + 1 = UntilField THEN UntilField + 1
                ELSE f.field + 1

\* A mistake: one of the two times is passed over.
PrevFieldByOne(f) ==
  LET prev == Max({0, f.field - 1})
      asked == IF f.recur = 0 /\ prev = UntilField THEN prev - 1 ELSE prev
  IN IF f.allDay /\ asked \in {3, 4} THEN asked - 1 ELSE asked
PrevField(f) ==
  LET prev == Max({0, f.field - 1})
      asked == IF f.recur = 0 /\ prev = UntilField THEN prev - 1 ELSE prev
  IN IF f.allDay /\ asked \in {3, 4} THEN 2 ELSE asked

\* Space and the arrows turn the two fields that are not typed.
Turned(f) ==
  CASE f.field = AllDayField -> {[f EXCEPT !.allDay = ~@]}
    [] f.field = RecurField -> {[f EXCEPT !.recur = (@ + dir) % Repeats] : dir \in {1, Repeats - 1}}
    [] OTHER -> {}

FormKey ==
  /\ In("event")
  /\ \E f \in {[modal EXCEPT !.field = PrevField(modal)]} \cup Turned(modal)
                \cup (IF modal.field + 1 < Fields
                      THEN {[modal EXCEPT !.field = NextField(modal)]} ELSE {}) : Stays(f)

\* What the date and the times, typed or as they were, make of the form: an end
\* at or before the start is on the next day.
Filled(f) ==
  IF f.allDay
  THEN {[start |-> d * Slots, end |-> (d + 1) * Slots, allDay |-> TRUE, project |-> f.project] :
          d \in {f.day, Today}}
  ELSE {[start |-> f.day * Slots + a, end |-> f.day * Slots + b + (IF b <= a THEN Slots ELSE 0),
         allDay |-> FALSE, project |-> f.project] : a, b \in 0..Slots - 1}

\* A mistake: the form is about what is selected by now.
EditedNow == Selected(ui)
Edited == modal.uid

\* submit_event, with Shift+Enter anywhere or Enter at the last field.  A text
\* that does not parse and a failing write keep the form.
Submit ==
  /\ In("event") /\ Counted
  /\ \E v \in Filled(modal), e \in IF modal.uid = None THEN {x \in Events : events[x] = None}
                                   ELSE {Edited} \ {None} :
       events' = [events EXCEPT ![e] = v]
  /\ projects' = projects \cup ({modal.project} \ {None})
  /\ Closes
  /\ UNCHANGED <<done, ui, timer>>

-----------------------------------------------------------------------------
(* The lists: a text that is typed, or erased, goes back to the first entry. *)

\* Picker::entries: no project and those there are; or a new one and none.
Entries(m) ==
  IF m.typed THEN <<"new", None>>
  ELSE <<None>> \o SelectSeq(ProjectList, LAMBDA p : p \in m.projects)

\* CommandPalette::entries
Offered(m) == IF m.query = "" THEN Commands ELSE Hits[m.query]

\* A mistake: the cursor stays where it was.
RetypedStaying(m) ==
  IF m.kind = "picker" THEN {[m EXCEPT !.typed = ~@]}
  ELSE {[m EXCEPT !.query = q] : q \in {""} \cup DOMAIN Hits}
Retyped(m) ==
  IF m.kind = "picker" THEN {[m EXCEPT !.typed = ~@, !.sel = 1]}
  ELSE {[m EXCEPT !.query = q, !.sel = 1] : q \in {""} \cup DOMAIN Hits}

Arrows(m, list) ==
  {[m EXCEPT !.sel = Max({1, @ - 1})], [m EXCEPT !.sel = Max({1, Min({@ + 1, Len(list)})})]}

ListKey ==
  \/ In("picker") /\ \E m \in Retyped(modal) \cup Arrows(modal, Entries(modal)) : Stays(m)
  \/ In("palette") /\ \E m \in Retyped(modal) \cup Arrows(modal, Offered(modal)) : Stays(m)

\* pick_project, for the event the picker was opened on.  A new project's name
\* is not told from the one there is.
Pick ==
  /\ In("picker") /\ Counted
  /\ LET entry == Entries(modal)[modal.sel]
         p == IF entry = "new" THEN ProjectList[1] ELSE entry
     IN /\ projects' = projects \cup ({p} \ {None})
        /\ events' = [events EXCEPT ![modal.uid].project = p]
  /\ Closes
  /\ UNCHANGED <<done, ui, timer>>

\* execute_cmd, on the tab and the selection of the moment; a list without an
\* entry closes.
Execute(c) ==
  \/ /\ c = "today"      \* set_selected_due
     /\ LET e == Selected(ui)
            by == IF e = None THEN 0 ELSE (Today - DayOf(events[e].start)) * Slots
        IN /\ events' = Changed([events[e] EXCEPT !.start = @ + by, !.end = @ + by])
           /\ ui' = IF e = None THEN ui ELSE [ui EXCEPT !.day = Today]
     /\ Closes
  \/ c = "delete" /\ events' = Changed(None) /\ UNCHANGED ui /\ Closes
  \/ c = "board" /\ UNCHANGED events /\ ui' = [ui EXCEPT !.tab = "board"] /\ Closes
  \/ /\ c = "new-event"
     /\ ui' = [ui EXCEPT !.tab = "calendar"]
     /\ modal' = NewForm(ui)
     /\ UNCHANGED <<events, aim>>

Run ==
  /\ In("palette") /\ Counted
  /\ IF Offered(modal) = <<>> THEN Closes /\ UNCHANGED <<events, ui>>
     ELSE Execute(Offered(modal)[modal.sel])
  /\ UNCHANGED <<done, projects, timer>>

\* submit_input.  A date that does not parse changes nothing.
Enter ==
  /\ In("input") /\ Counted
  /\ IF modal.purpose = "search"
     THEN \E q \in Option(Events) : ui' = [ui EXCEPT !.query = q, !.sel = 1]
     ELSE \E d \in 1..Days : ui' = [ui EXCEPT !.day = d]
  /\ Closes
  /\ UNCHANGED <<store, timer>>

\* perform_confirm: what is of the project is of none, and the scope goes with it.
DeleteProject ==
  /\ In("confirm") /\ Counted
  /\ LET p == modal.project IN
     /\ projects' = projects \ {p}
     /\ events' = [e \in Events |->
                     IF events[e] # None /\ events[e].project = p
                     THEN [events[e] EXCEPT !.project = None] ELSE events[e]]
     /\ ui' = [ui EXCEPT !.scope = IF @ = p THEN None ELSE @]
  /\ Closes
  /\ UNCHANGED <<done, timer>>

-----------------------------------------------------------------------------

\* mgmt, mgmt --view, mgmt --event
Init ==
  /\ events = Given /\ done = {} /\ projects = Names
  /\ LET u == [tab |-> "calendar", view |-> "month", pane |-> "date", day |-> Today, sel |-> 1,
               scope |-> None, query |-> None]
     IN ui \in {u} \cup {SetView(u, v) : v \in {"day", "week"}}
                  \cup {FocusEvent(u, e) : e \in {x \in Events : Given[x] # None}}
  /\ modal = None
  /\ timer = [focus |-> TRUE, running |-> FALSE]
  /\ fired = {} /\ pc = "top" /\ shown = None /\ aim = None
  /\ keys = 0 /\ edits = 0

Next ==
  \/ Reload \/ PhaseEnds \/ Draw \/ NoKey
  \/ \E e \in Events : Navigate(e)
  \/ Motion \/ Look \/ Nudge \/ Delete \/ ToggleDone
  \/ Leave \/ Sidebar \/ FocusKey
  \/ Open \/ Escape \/ FormKey \/ Submit \/ ListKey \/ Pick \/ Run \/ Enter \/ DeleteProject

Spec == Init /\ [][Next]_vars

-----------------------------------------------------------------------------

\* A key changes, moves or deletes no event but the one that the frame on the screen
\* had at the selection, and had marked there if the agenda has the focus now; a form
\* or a picker none but the one it was opened on, whatever a reminder has put on the
\* screen behind it (app.rs:817, 1656).  With the focus on the dates nothing is marked
\* (app.rs:2416, 2647), and a key changes the event at the place the agenda was left
\* at.  Deleting a project is about its events.
ChangesShown ==
  [][pc = "drawn" /\ ~(modal # None /\ modal.kind = "confirm") =>
       \A e \in Events : events[e] # None /\ events'[e] # events[e] =>
         IF modal # None /\ modal.kind \in {"event", "picker"} THEN e = aim
         ELSE e = shown.event /\ (ui.pane = "agenda" => e = shown.marked)]_vars

\* The cursor of a form is on a field that it asks for, that of a list on one of
\* its entries, in whatever order the keys came (app.rs:1006, 1085).
CursorShown ==
  modal # None =>
    CASE modal.kind = "event" -> modal.field \in 0..Fields - 1 /\ Asked(modal, modal.field)
      [] modal.kind = "picker" -> modal.sel \in DOMAIN Entries(modal)
      [] modal.kind = "palette" -> modal.sel \in DOMAIN Offered(modal) \cup {1}
      [] OTHER -> TRUE
=============================================================================
