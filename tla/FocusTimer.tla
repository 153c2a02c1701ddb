----------------------------- MODULE FocusTimer -----------------------------
(***************************************************************************)
(* A focus session as it is kept in .state/pomodoro.json (status.rs) and   *)
(* the two techniques that say what follows a phase (time.rs), as          *)
(* operators.  `id` is not in the file: it names a phase, so that one can  *)
(* say whether its end was announced.                                      *)
(***************************************************************************)
EXTENDS Integers

CONSTANTS
  FocusLen, ShortBreak, LongBreak, LongEvery,   \* Pomodoro::standard
  Divisor,                                      \* Flowtime: a break is focus / Divisor
  None

TimerAssumption ==
  /\ FocusLen \in Nat \ {0} /\ ShortBreak \in Nat \ {0} /\ LongBreak \in Nat \ {0}
  /\ LongEvery \in Nat \ {0} /\ Divisor \in Nat \ {0}
  /\ None \notin Nat

Session == [engine : {"pomodoro", "flowtime"}, done : Nat, focus : BOOLEAN,
            target : Nat \cup {None}, before : Nat, since : Nat \cup {None}, id : Nat]

Running(s) == s.since # None

\* A clock that is behind `since` counts for nothing.
Elapsed(s, t) == s.before + (IF Running(s) /\ t > s.since THEN t - s.since ELSE 0)

\* A running phase with a length that has run out.
Over(s, t) == Running(s) /\ s.target # None /\ Elapsed(s, t) >= s.target

Begun(engine, t, id) ==
  [engine |-> engine, done |-> 0, focus |-> TRUE,
   target |-> IF engine = "pomodoro" THEN FocusLen ELSE None,
   before |-> 0, since |-> t, id |-> id]

Toggled(s, t) ==
  IF Running(s) THEN [s EXCEPT !.before = Elapsed(s, t), !.since = None]
  ELSE [s EXCEPT !.since = t]

\* The length of the phase after `s`, when `s` ran for `elapsed`.
NextTarget(s, elapsed) ==
  IF s.engine = "flowtime" THEN IF s.focus THEN elapsed \div Divisor ELSE None
  ELSE IF ~s.focus THEN FocusLen
  ELSE IF (s.done + 1) % LongEvery = 0 THEN LongBreak ELSE ShortBreak

Skipped(s, t, id) ==
  [s EXCEPT !.done = IF s.engine = "pomodoro" /\ s.focus THEN s.done + 1 ELSE s.done,
            !.focus = ~s.focus,
            !.target = NextTarget(s, Elapsed(s, t)),
            !.before = 0,
            !.since = IF Running(s) THEN t ELSE None,
            !.id = id]
=============================================================================
