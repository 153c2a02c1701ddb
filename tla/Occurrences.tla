----------------------------- MODULE Occurrences -----------------------------
(***************************************************************************)
(* A series: a master, the occurrences taken out of it (EXDATE) and those  *)
(* put in their place (RECURRENCE-ID), as occurrence.rs shows them and as  *)
(* delete_occurrence and update_occurrence of mgmt-service change them.    *)
(* An occurrence is known by its slot, the instant the rule gave it.       *)
(***************************************************************************)
EXTENDS Recurrence

CONSTANTS Uids, Titles

Scopes == {"this", "following", "all"}

NoSeries == [u \in Uids |-> None]

-----------------------------------------------------------------------------
(* Event::occurrences_with_overrides, over [from, to). *)

Overlaps(e, from, to) == e.start < to /\ e.start + e.dur > from

Shown(s, from, to) ==
  LET m == s.master
      generated == OccurrencesIn(m, from, to) \ m.out
      replaced == {o.at : o \in s.over}
  IN { [at |-> t, title |-> m.title, start |-> t, dur |-> m.dur, day |-> m.day] :
         t \in generated \ replaced } \cup
     { o \in s.over : o.at \notin m.out /\ Overlaps(o, from, to) }

-----------------------------------------------------------------------------
(* MgmtContext::delete_occurrence and update_occurrence.  Each returns the *)
(* series, uid by uid, that it leaves.                                     *)

TruncateBefore(m, at) ==
  IF m.rule = None THEN m
  ELSE [m EXCEPT !.rule.count = None, !.rule.until = at - 1]

\* A mistake: the overrides after the cut stay.
DeleteKeepingTail(all, u, at, scope) ==
  LET m == all[u].master
  IN IF scope = "all" \/ m.rule = None THEN [all EXCEPT ![u] = None]
     ELSE IF scope = "this"
     THEN [all EXCEPT ![u].master.out = @ \cup {at},
                      ![u].over = {o \in @ : o.at # at}]
     ELSE [all EXCEPT ![u].master = TruncateBefore(m, at)]

DeleteOccurrence(all, u, at, scope) ==
  LET m == all[u].master
  IN IF scope = "all" \/ m.rule = None THEN [all EXCEPT ![u] = None]
     ELSE IF scope = "this"
     THEN [all EXCEPT ![u].master.out = @ \cup {at},
                      ![u].over = {o \in @ : o.at # at}]
     ELSE [all EXCEPT ![u].master = TruncateBefore(m, at),
                      ![u].over = {o \in @ : o.at < at}]

\* A mistake: the tail keeps the count of the whole series.
CountOfAll(r, m, at) == r

\* subtract_head_count
SubtractHeadCount(r, m, at) ==
  IF r = None \/ r.count = None THEN r
  ELSE LET kept == Cardinality(OccurrencesIn(m, m.start, at) \cap (m.start..(at - 1)))
       IN [r EXCEPT !.count = Max({@ - kept, 1})]

\* What the edited values `e` become as the head of a new series from `at`.
TailOf(m, e, at) ==
  LET inherited == e.rule = None \/ e.rule = m.rule
      rule == IF e.rule = None THEN m.rule ELSE e.rule
  IN [e EXCEPT !.rule = IF inherited THEN SubtractHeadCount(rule, m, at) ELSE rule,
               !.out = {d \in m.out : d >= at}]

\* `e` is what the caller wants and `new` the uid of the tail, should there
\* be one.
UpdateOccurrence(all, u, at, e, scope, new) ==
  LET m == all[u].master
      over == all[u].over
      tail == TailOf(m, e, at)
  IN IF scope = "all" \/ m.rule = None
     THEN [all EXCEPT ![u].master = [e EXCEPT !.out = m.out]]
     ELSE IF scope = "this"
     THEN [all EXCEPT ![u].over =
             {o \in @ : o.at # at} \cup
             {[at |-> at, title |-> e.title, start |-> e.start, dur |-> e.dur,
               day |-> e.day]}]
     ELSE [all EXCEPT
             ![u] = [master |-> TruncateBefore(m, at), over |-> {o \in over : o.at < at}],
             ![new] = [master |-> tail,
                       over |-> {o \in over :
                         o.at >= at /\ o.at \in OccurrencesIn(tail, o.at, o.at + 1)}]]
=============================================================================
