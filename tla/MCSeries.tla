------------------------------- MODULE MCSeries -------------------------------
EXTENDS Series, TLC

MCSymmetry == Permutations(Uids)

\* 31 January 2024 is day 30, a Wednesday; February has 29 days.
MCEvent(day, time, dur, rule) ==
  [title |-> "a", start |-> 2 * day + time, dur |-> dur, day |-> FALSE, rule |-> rule,
   out |-> {}, alarms |-> {[related |-> "after", minutes |-> 15]},
   conference |-> None, link |-> None]

On(days) == {[weekday |-> d, ordinal |-> None] : d \in days}
NthOf(n, d) == {[weekday |-> d, ordinal |-> n]}

MCEvents ==
  { \* every day but two, thrice; every other week on two days, in weeks from
    \* Sunday; the days 31 and the last day but one of the month
    MCEvent(30, 1, 1, [Every("daily", 3) EXCEPT !.count = 3]),
    MCEvent(32, 0, 3, [Every("weekly", 2) EXCEPT !.weekdays = On({0, 4}), !.wkst = 6,
                                                 !.until = 130]),
    MCEvent(30, 0, 1, Every("monthly", 1)),
    MCEvent(30, 1, 2, [Every("monthly", 1) EXCEPT !.monthdays = {-2, 31}, !.count = 4]),
    \* the last Friday, the last weekday, the second Monday of every other month
    MCEvent(25, 0, 1, [Every("monthly", 1) EXCEPT !.weekdays = NthOf(-1, 4)]),
    MCEvent(30, 0, 1, [Every("monthly", 1) EXCEPT !.weekdays = On(0..4),
                                                  !.setpos = {-1}, !.count = 3]),
    MCEvent(35, 1, 1, [Every("monthly", 2) EXCEPT !.weekdays = NthOf(2, 0)]),
    \* by the year: the 29 of February, the 100th Sunday, the 3rd of two months
    MCEvent(59, 0, 1, Every("yearly", 1)),
    MCEvent(40, 0, 1, [Every("yearly", 1) EXCEPT !.weekdays = NthOf(10, 6)]),
    MCEvent(33, 0, 1, [Every("yearly", 1) EXCEPT !.monthdays = {3}, !.months = {2, 4}]),
    \* Tuesdays in spring, and an event that does not recur
    MCEvent(40, 0, 1, [Every("daily", 1) EXCEPT !.weekdays = On({1}), !.months = {3},
                                                !.count = 3]),
    MCEvent(40, 1, 2, None) }

\* Dates without an end; instants with a date-only UNTIL, an override and
\* a link in the description.
MCFile(start, end, rule, exdates, rid, link) ==
  [start |-> start, end |-> end, title |-> "a", rule |-> rule, exdates |-> exdates,
   rid |-> rid,
   alarms |-> {[related |-> None, dur |-> 0, at |-> None]}, conference |-> None, link |-> link]

MCRule(freq, until) ==
  [Every(freq, 1) EXCEPT !.interval = None, !.wkst = None, !.until = until]

MCForeign ==
  { {MCFile(Stamp(86, TRUE), None, MCRule("weekly", None), {Stamp(100, TRUE)}, None, None)},
    {MCFile(Stamp(86, TRUE), Stamp(90, TRUE), None, {}, None, "l")},
    {MCFile(Stamp(87, FALSE), Stamp(88, FALSE), MCRule("weekly", Stamp(114, TRUE)), {}, None, "l"),
     MCFile(Stamp(103, FALSE), Stamp(104, FALSE), None, {}, Stamp(101, FALSE), "l")} }

\* A series of one client's, one counted, one of another client's.
MCShared ==
  {e \in MCEvents : e.rule # None /\ e.rule.freq # "yearly" /\ e.rule.count \in {3, 4}} \cup
  {Parsed(text).master : text \in MCForeign}

MCFlags ==
  { [NoFlags EXCEPT !.start = 91], [NoFlags EXCEPT !.start = 91, !.allDay = TRUE],
    [NoFlags EXCEPT !.start = 91, !.end = 90], [NoFlags EXCEPT !.end = 84],
    [NoFlags EXCEPT !.duration = 0], [NoFlags EXCEPT !.allDay = TRUE],
    [NoFlags EXCEPT !.timed = TRUE, !.start = 91], [NoFlags EXCEPT !.clearRule = TRUE],
    [NoFlags EXCEPT !.rule = [Every("weekly", 1) EXCEPT !.count = 2]] }

\* Around the last day of February, about March, and a year on.
MCWindows ==
  {<<40, 200>>, <<64, 65>>, <<119, 120>>, <<121, 131>>, <<150, 250>>, <<780, 870>>}
=============================================================================
