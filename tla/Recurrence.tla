------------------------------ MODULE Recurrence ------------------------------
(***************************************************************************)
(* Turning a recurring event into its occurrences inside a window          *)
(* (crates/mgmt-domain/src/expand.rs), and what the rule means.            *)
(*                                                                         *)
(* A date is the number of days since the first of January of FirstYear,   *)
(* a month the number of months since then, an instant the number of half  *)
(* days: a date and a time of day that is the morning's or the evening's.  *)
(***************************************************************************)
EXTENDS Integers, FiniteSets, FiniteSetsExt

CONSTANTS
  FirstYear,    \* a year that began on a Monday
  Months,       \* how many months the calendar reaches
  MaxPeriods,   \* MAX_OCCURRENCES
  None

ASSUME CalendarAssumption ==
  /\ FirstYear \in Nat /\ Months \in Nat \ {0} /\ MaxPeriods \in Nat
  /\ None \notin Int

-----------------------------------------------------------------------------
(* The calendar (chrono). *)

Leap(y) == y % 4 = 0 /\ (y % 100 # 0 \/ y % 400 = 0)

MonthOfYear(k) == (k % 12) + 1

Length(k) ==
  CASE MonthOfYear(k) = 2 -> IF Leap(FirstYear + k \div 12) THEN 29 ELSE 28
    [] MonthOfYear(k) \in {4, 6, 9, 11} -> 30
    [] OTHER -> 31

FirstOf[k \in 0..Months] == IF k = 0 THEN 0 ELSE FirstOf[k - 1] + Length(k - 1)

Dates == 0..(FirstOf[Months] - 1)

MonthOf == [d \in Dates |-> CHOOSE k \in 0..(Months - 1) :
                              FirstOf[k] <= d /\ d < FirstOf[k + 1]]

DayOf(d) == d - FirstOf[MonthOf[d]] + 1
WeekdayOf(d) == d % 7              \* 0 is Monday
YearOf(d) == MonthOf[d] \div 12
FirstOfYear(d) == FirstOf[12 * YearOf(d)]
LastOfYear(d) == FirstOf[Min({12 * (YearOf(d) + 1), Months})] - 1
LastOfMonth(k) == FirstOf[k + 1] - 1

Date(t) == t \div 2
Instant(d, start) == 2 * d + (start % 2)

-----------------------------------------------------------------------------
(* RecurrenceRule. *)

Frequencies == {"daily", "weekly", "monthly", "yearly"}
ByDay == [weekday : 0..6, ordinal : -53..53 \cup {None}]

\* A rule says nothing more than its frequency, until a part is added to it.
Every(freq, n) ==
  [freq |-> freq, interval |-> n, count |-> None, until |-> None, months |-> {},
   monthdays |-> {}, weekdays |-> {}, setpos |-> {}, wkst |-> 0]

Step(r) == IF r.interval = 0 THEN 1 ELSE r.interval

-----------------------------------------------------------------------------
(* The candidates of one period. *)

\* pick: 1-based from the front, or from the back when negative.
Pick(days, pos) ==
  {d \in days : \/ pos > 0 /\ Cardinality({c \in days : c < d}) = pos - 1
                \/ pos < 0 /\ Cardinality({c \in days : c > d}) = -pos - 1}

ByDaySet(first, last, weekdays) ==
  UNION { LET all == {d \in first..last : WeekdayOf(d) = b.weekday}
          IN IF b.ordinal = None THEN all ELSE Pick(all, b.ordinal) : b \in weekdays }

MonthDays(k, days) ==
  { FirstOf[k] + day - 1 : day \in
      {IF n < 0 THEN Length(k) + 1 + n ELSE n : n \in days} \cap (1..Length(k)) }

WeekdayListed(d, weekdays) == \E b \in weekdays : b.weekday = WeekdayOf(d)

MonthOk(k, r) == r.months = {} \/ MonthOfYear(k) \in r.months

MonthSet(k, r, dtstart) ==
  CASE r.monthdays # {} ->
         {d \in MonthDays(k, r.monthdays) :
            r.weekdays = {} \/ WeekdayListed(d, r.weekdays)}
    [] r.monthdays = {} /\ r.weekdays # {} ->
         ByDaySet(FirstOf[k], LastOfMonth(k), r.weekdays)
    [] OTHER -> MonthDays(k, {DayOf(dtstart)})

Candidates(p, r, dtstart) ==
  CASE r.freq = "daily" ->
         {d \in {p} : /\ MonthOk(MonthOf[d], r)
                      /\ r.monthdays = {} \/ d \in MonthDays(MonthOf[d], r.monthdays)
                      /\ r.weekdays = {} \/ WeekdayListed(d, r.weekdays)}
    [] r.freq = "weekly" ->
         {d \in p..(p + 6) : /\ MonthOk(MonthOf[d], r)
                             /\ IF r.weekdays = {} THEN WeekdayOf(d) = WeekdayOf(dtstart)
                                ELSE WeekdayListed(d, r.weekdays)}
    [] r.freq = "monthly" ->
         IF MonthOk(MonthOf[p], r) THEN MonthSet(MonthOf[p], r, dtstart) ELSE {}
    [] r.freq = "yearly" ->
         IF r.monthdays = {} /\ r.weekdays # {} /\ r.months = {}
         THEN ByDaySet(FirstOfYear(p), LastOfYear(p), r.weekdays)
         ELSE LET months == IF r.months = {} THEN {MonthOfYear(MonthOf[dtstart])}
                            ELSE r.months
              IN UNION { MonthSet(MonthOf[p] + m - 1, r, dtstart) : m \in months }

\* BYSETPOS
AtPositions(days, setpos) ==
  IF setpos = {} THEN days ELSE UNION { Pick(days, n) : n \in setpos }

SetForPeriod(p, r, dtstart) == AtPositions(Candidates(p, r, dtstart), r.setpos)

-----------------------------------------------------------------------------
(* The cursor. *)

PeriodStart(d, r) ==
  CASE r.freq = "daily" -> d
    [] r.freq = "weekly" -> d - ((WeekdayOf(d) + 7 - r.wkst) % 7)
    [] r.freq = "monthly" -> FirstOf[MonthOf[d]]
    [] r.freq = "yearly" -> FirstOfYear(d)

\* `n` periods of the rule later.
Advance(p, r, n) ==
  CASE r.freq = "daily" -> p + n * Step(r)
    [] r.freq = "weekly" -> p + n * Step(r) * 7
    [] r.freq = "monthly" -> FirstOf[Min({MonthOf[p] + n * Step(r), Months})]
    [] r.freq = "yearly" -> FirstOf[Min({MonthOf[p] + n * Step(r) * 12, Months})]

\* A mistake: a jump that forgets the interval.
FastForwardAnywhere(p, r, target) == IF target <= p THEN p ELSE target

FastForward(p, r, target) ==
  LET months == MonthOf[target] - MonthOf[p]
      steps == CASE r.freq = "daily" -> (target - p) \div Step(r)
                 [] r.freq = "weekly" -> (target - p) \div (7 * Step(r))
                 [] r.freq = "monthly" -> months \div Step(r)
                 [] r.freq = "yearly" -> months \div (12 * Step(r))
  IN IF target <= p THEN p ELSE Advance(p, r, steps)

\* The starts that one period gives an event, and those of them that UNTIL and
\* COUNT leave.
Due(e, p) ==
  {s \in {Instant(d, e.start) : d \in SetForPeriod(p, e.rule, Date(e.start))} :
     s >= e.start}

Kept(due, r, produced) ==
  {s \in due : /\ r.until = None \/ s <= r.until
               /\ r.count = None \/ produced + Cardinality({c \in due : c <= s}) <= r.count}

\* The starts of the occurrences of [start, dur, rule] that overlap [from, to).
OccurrencesIn(e, from, to) ==
  LET r == e.rule
      overlapping(s) == s < to /\ s + e.dur > from
      Go[p \in Nat, produced \in Nat, guard \in Nat] ==
        LET Yield(due, kept) ==
              {s \in kept : overlapping(s)} \cup
              (IF kept # due THEN {}
               ELSE Go[Advance(p, r, 1), produced + Cardinality(kept), guard + 1])
            PassOver(due) == Yield(due, Kept(due, r, produced))
        IN IF (r.count # None /\ produced >= r.count) \/ guard >= MaxPeriods \/ p > Date(to)
           THEN {} ELSE PassOver(Due(e, p))
      first == PeriodStart(Date(e.start), r)
      begin == IF r.count = None
               THEN FastForward(first, r, PeriodStart(Date(from - e.dur), r)) ELSE first
  IN IF r = None THEN {s \in {e.start} : overlapping(s)} ELSE Go[begin, 0, 0]

-----------------------------------------------------------------------------
(***************************************************************************)
(* What a rule means (RFC 5545), period by period and part by part, with   *)
(* no cursor: every date is asked on its own.                              *)
(***************************************************************************)
Period(d, r) ==
  CASE r.freq = "daily" -> d
    [] r.freq = "weekly" -> (d + 7 - r.wkst) \div 7
    [] r.freq = "monthly" -> MonthOf[d]
    [] r.freq = "yearly" -> YearOf(d)

\* The days that an ordinal of BYDAY counts: a month's, or a year's.
Counted(d, r) ==
  IF r.freq = "yearly" /\ r.months = {} THEN FirstOfYear(d)..LastOfYear(d)
  ELSE FirstOf[MonthOf[d]]..LastOfMonth(MonthOf[d])

Nth(d, days, n) ==
  n = IF n > 0 THEN Cardinality({c \in days : c <= d})
      ELSE - Cardinality({c \in days : c >= d})

SameWeekday(d, days) == {c \in days : WeekdayOf(c) = WeekdayOf(d)}

FitsWeekday(d, r, dtstart) ==
  IF r.weekdays = {} THEN r.freq = "weekly" => WeekdayOf(d) = WeekdayOf(dtstart)
  ELSE \E b \in r.weekdays :
         /\ b.weekday = WeekdayOf(d)
         /\ b.ordinal = None \/ Nth(d, SameWeekday(d, Counted(d, r)), b.ordinal)

FitsDay(d, r, dtstart) ==
  IF r.monthdays # {}
  THEN \E n \in r.monthdays :
         n = IF n > 0 THEN DayOf(d) ELSE DayOf(d) - Length(MonthOf[d]) - 1
  ELSE r.freq \in {"monthly", "yearly"} /\ r.weekdays = {} => DayOf(d) = DayOf(dtstart)

FitsMonth(d, r, dtstart) ==
  IF r.months # {} THEN MonthOfYear(MonthOf[d]) \in r.months
  ELSE r.freq = "yearly" /\ r.weekdays = {} =>
         MonthOfYear(MonthOf[d]) = MonthOfYear(MonthOf[dtstart])

Fits(d, r, dtstart) ==
  /\ FitsMonth(d, r, dtstart) /\ FitsDay(d, r, dtstart) /\ FitsWeekday(d, r, dtstart)
  /\ (Period(d, r) - Period(dtstart, r)) % Step(r) = 0

\* All the starts of an event that recurs.
Meant(e) ==
  LET r == e.rule
      dtstart == Date(e.start)
      all == {d \in Dates : Fits(d, r, dtstart)}
      picked == {d \in all : r.setpos = {} \/
                   \E n \in r.setpos : Nth(d, {c \in all : Period(c, r) = Period(d, r)}, n)}
      starts == {s \in {Instant(d, e.start) : d \in picked} : s >= e.start}
  IN {s \in starts : /\ r.count = None \/ Cardinality({c \in starts : c <= s}) <= r.count
                     /\ r.until = None \/ s <= r.until}
=============================================================================
