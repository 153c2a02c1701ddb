-------------------------------- MODULE VEvent --------------------------------
(***************************************************************************)
(* The file of a series: one VEVENT for the master and one for each        *)
(* override (crates/mgmt-ical/src/vevent.rs and rrule.rs).  A line of text *)
(* is a field; a line that is left out is None.  Free text (summary,       *)
(* location, participants...) is escaped and read back by inverse          *)
(* functions and is kept as it is.                                         *)
(***************************************************************************)
EXTENDS Recurrence

HalfDaysOfDay == 2

\* An instant as the file has it: VALUE=DATE drops the time of day.
Stamp(t, day) == [date |-> day, at |-> IF day THEN HalfDaysOfDay * Date(t) ELSE t]

\* The end of a date: a date-only UNTIL means that day to its end.
EndOfDay(date) == HalfDaysOfDay * date + HalfDaysOfDay - 1

-----------------------------------------------------------------------------
(* Writing. *)

\* to_rrule: what is the default is not written.
WriteRule(r) ==
  [r EXCEPT !.interval = IF @ > 1 THEN @ ELSE None,
            !.wkst = IF @ = 0 THEN None ELSE @,
            !.until = IF @ = None THEN None ELSE Stamp(@, FALSE)]

\* trigger_line: a duration from the start or, RELATED, from the end; minus
\* is earlier.
WriteAlarm(a) ==
  CASE a.related = "before" -> [related |-> None, dur |-> -a.minutes, at |-> None]
    [] a.related = "after" -> [related |-> None, dur |-> a.minutes, at |-> None]
    [] a.related = "beforeEnd" -> [related |-> "end", dur |-> -a.minutes, at |-> None]
    [] a.related = "at" -> [related |-> None, dur |-> None, at |-> a.minutes]

\* A mistake: DTEND of an all-day event is written as its last day.
WriteInclusive(e, rid) ==
  [start |-> Stamp(e.start, e.day),
   end |-> Stamp(IF e.day THEN e.start + e.dur - HalfDaysOfDay ELSE e.start + e.dur, e.day),
   title |-> e.title,
   rule |-> IF e.rule = None THEN None ELSE WriteRule(e.rule),
   exdates |-> {Stamp(d, e.day) : d \in e.out},
   rid |-> IF rid = None THEN None ELSE Stamp(rid, e.day),
   alarms |-> {WriteAlarm(a) : a \in e.alarms},
   conference |-> e.conference, link |-> e.link]

\* A mistake: an override's slot is always a date.
WriteSlotAsDate(e, rid) ==
  [start |-> Stamp(e.start, e.day), end |-> Stamp(e.start + e.dur, e.day),
   title |-> e.title,
   rule |-> IF e.rule = None THEN None ELSE WriteRule(e.rule),
   exdates |-> {Stamp(d, e.day) : d \in e.out},
   rid |-> IF rid = None THEN None ELSE Stamp(rid, TRUE),
   alarms |-> {WriteAlarm(a) : a \in e.alarms},
   conference |-> e.conference, link |-> e.link]

\* write_vevent.  Dates or instants: the component's own all_day decides, for
\* its EXDATEs and its RECURRENCE-ID too.
WriteEvent(e, rid) ==
  [start |-> Stamp(e.start, e.day), end |-> Stamp(e.start + e.dur, e.day),
   title |-> e.title,
   rule |-> IF e.rule = None THEN None ELSE WriteRule(e.rule),
   exdates |-> {Stamp(d, e.day) : d \in e.out},
   rid |-> IF rid = None THEN None ELSE Stamp(rid, e.day),
   alarms |-> {WriteAlarm(a) : a \in e.alarms},
   conference |-> e.conference, link |-> e.link]

\* series_to_ics.
Written(s) ==
  {WriteEvent(s.master, None)} \cup
  { WriteEvent([title |-> o.title, start |-> o.start, dur |-> o.dur, day |-> o.day,
                rule |-> None, out |-> {}, alarms |-> s.master.alarms,
                conference |-> s.master.conference, link |-> s.master.link], o.at)
      : o \in s.over }

-----------------------------------------------------------------------------
(* Reading. *)

\* from_rrule, with parse_until.
ReadRule(r) ==
  [r EXCEPT !.interval = IF @ = None THEN 1 ELSE @,
            !.wkst = IF @ = None THEN 0 ELSE @,
            !.until = CASE @ = None -> None
                        [] @ # None /\ @.date -> EndOfDay(Date(@.at))
                        [] OTHER -> @.at]

\* parse_trigger: a duration that is not positive lies before the start.
ReadAlarm(w) ==
  CASE w.at # None -> [related |-> "at", minutes |-> w.at]
    [] w.at = None /\ w.related = "end" -> [related |-> "beforeEnd", minutes |-> -w.dur]
    [] w.at = None /\ w.related # "end" /\ w.dur <= 0 ->
         [related |-> "before", minutes |-> -w.dur]
    [] OTHER -> [related |-> "after", minutes |-> w.dur]

\* from_component: without DTEND an event has no length, and without
\* CONFERENCE its description's link is taken for one.
ReadEvent(w) ==
  [title |-> w.title, start |-> w.start.at,
   dur |-> IF w.end = None THEN 0 ELSE w.end.at - w.start.at,
   day |-> w.start.date,
   rule |-> IF w.rule = None THEN None ELSE ReadRule(w.rule),
   out |-> {d.at : d \in w.exdates},
   alarms |-> {ReadAlarm(a) : a \in w.alarms},
   conference |-> IF w.conference # None THEN w.conference ELSE w.link,
   link |-> w.link]

\* series_from_ics.
Parsed(text) ==
  [ master |-> ReadEvent(CHOOSE w \in text : w.rid = None),
    over |-> { LET e == ReadEvent(w)
               IN [at |-> w.rid.at, title |-> e.title, start |-> e.start, dur |-> e.dur,
                   day |-> e.day]
                 : w \in {x \in text : x.rid # None} } ]
=============================================================================
