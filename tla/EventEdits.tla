------------------------------ MODULE EventEdits ------------------------------
(***************************************************************************)
(* What the command line (`mgmt event edit`, crates/mgmt-cli/src/crud.rs)  *)
(* and the terminal UI (the event form, the nudges and the move to a date, *)
(* crates/mgmt-tui/src/app.rs) make of a stored event before they store it *)
(* with put_event: whole series only, the master is what they edit.        *)
(***************************************************************************)
EXTENDS VEvent

Midnight(t) == Instant(Date(t), 0)

-----------------------------------------------------------------------------
(* mgmt event edit. *)

\* The flags: an end or a duration, all-day or timed, a rule or none at all.
NoFlags == [start |-> None, end |-> None, duration |-> None, allDay |-> FALSE,
            timed |-> FALSE, rule |-> None, clearRule |-> FALSE]

\* A new start keeps the duration.
DurationGiven(m, flags, start) ==
  CASE flags.end # None -> flags.end - start
    [] flags.end = None /\ flags.duration # None -> flags.duration
    [] OTHER -> m.dur

\* A mistake: an end before the start is taken.
EditAnyEnd(m, flags) ==
  LET start == IF flags.start = None THEN m.start ELSE flags.start
      dur == DurationGiven(m, flags, start)
  IN [m EXCEPT !.start = IF flags.allDay THEN Midnight(start) ELSE start,
               !.dur = IF flags.allDay THEN Max({dur, HalfDaysOfDay}) ELSE dur,
               !.day = IF flags.allDay THEN TRUE ELSE @ /\ ~flags.timed,
               !.rule = CASE flags.clearRule -> None
                          [] ~flags.clearRule /\ flags.rule # None -> flags.rule
                          [] OTHER -> @]

\* The event as it is stored, or None if the command stops with an error.
CommandEdit(m, flags) ==
  LET start == IF flags.start = None THEN m.start ELSE flags.start
      dur == DurationGiven(m, flags, start)
  IN IF dur < 0 THEN None
     ELSE [m EXCEPT !.start = IF flags.allDay THEN Midnight(start) ELSE start,
                    !.dur = IF flags.allDay THEN Max({dur, HalfDaysOfDay}) ELSE dur,
                    !.day = IF flags.allDay THEN TRUE ELSE @ /\ ~flags.timed,
                    !.rule = CASE flags.clearRule -> None
                               [] ~flags.clearRule /\ flags.rule # None -> flags.rule
                               [] OTHER -> @]

\* mgmt event add: an all-day event begins at its date's midnight, one without
\* an end lasts a day or an hour.
Default15 == {[related |-> "before", minutes |-> 15]}

Blank(title, start) ==
  [title |-> title, start |-> start, dur |-> 1, day |-> FALSE, rule |-> None, out |-> {},
   alarms |-> Default15, conference |-> None, link |-> None]

CommandAdd(title, flags) ==
  LET start == IF flags.allDay THEN Midnight(flags.start) ELSE flags.start
      blank == [Blank(title, start) EXCEPT !.dur = IF flags.allDay THEN HalfDaysOfDay ELSE @]
      dur == DurationGiven(blank, flags, start)
  IN IF dur < 0 THEN None
     ELSE [blank EXCEPT !.dur = dur, !.day = flags.allDay, !.rule = flags.rule]

-----------------------------------------------------------------------------
(* The event form: one date, two times of day, and a frequency. *)

FormOf(m) ==
  [title |-> m.title, day |-> m.day, date |-> Date(m.start),
   from |-> m.start % HalfDaysOfDay, to |-> (m.start + m.dur) % HalfDaysOfDay,
   freq |-> IF m.rule = None THEN None ELSE m.rule.freq,
   until |-> IF m.rule = None \/ m.rule.until = None THEN None ELSE Date(m.rule.until)]

FormRule(f) ==
  IF f.freq = None THEN None
  ELSE [Every(f.freq, 1) EXCEPT
          !.until = IF f.until = None THEN None ELSE EndOfDay(f.until)]

\* An end at or before the start is on the next day.
FormDuration(f) ==
  CASE f.day -> HalfDaysOfDay
    [] ~f.day /\ f.to > f.from -> f.to - f.from
    [] OTHER -> f.to - f.from + HalfDaysOfDay

\* submit_event of a form over a stored event.
Submit(f, m) ==
  [m EXCEPT !.title = f.title, !.day = f.day,
            !.start = Instant(f.date, IF f.day THEN 0 ELSE f.from),
            !.dur = FormDuration(f), !.rule = FormRule(f)]

\* The form of a new event, from morning to evening.
NewForm(title, date) ==
  [title |-> title, day |-> FALSE, date |-> date, from |-> 0, to |-> 1, freq |-> None,
   until |-> None]

\* The user changes one field of it, or none.
Filled(f, titles, dates) ==
  {[f EXCEPT !.title = t] : t \in titles} \cup
  {[f EXCEPT !.day = ~@], [f EXCEPT !.to = HalfDaysOfDay - 1 - @], [f EXCEPT !.freq = None]}
  \cup {[f EXCEPT !.date = d] : d \in dates} \cup {[f EXCEPT !.until = d] : d \in dates}

-----------------------------------------------------------------------------
(* Nudging an edge (adjust_event_start, adjust_event_end) stops where the  *)
(* event would have no length; moving to a date keeps the times of day.    *)

NudgeStart(m, by) ==
  IF m.dur - by > 0 THEN [m EXCEPT !.start = @ + by, !.dur = @ - by] ELSE m

NudgeEnd(m, by) == IF m.dur + by > 0 THEN [m EXCEPT !.dur = @ + by] ELSE m

\* set_selected_due on the calendar: by as many days as the *series* is away.
MoveToDate(m, date) == [m EXCEPT !.start = Instant(date, @)]
=============================================================================
