------------------------------ MODULE Reminders ------------------------------
(***************************************************************************)
(* Who shows reminders: the loop of the Daemon, which also moves the focus *)
(* session on, and beside it the Notifier of a page, which shows the same  *)
(* ones.  They share no state.                                             *)
(***************************************************************************)
EXTENDS Integers

CONSTANTS
  Unset,                                                  \* None of both
  FocusLen, ShortBreak, LongBreak, LongEvery, Divisor,    \* see FocusTimer
  Tappers, Offsets, Alarms, Length, Grace, Poll, Dates,   \* see Daemon
  MaxTime, MaxTaps, MaxSlips,
  Calls, Entries, Ahead, Ttl, Late, Minutes, Turns        \* see Notifier

VARIABLES
  now, taps, slips, due, occurs, cancelled, pc, at, rested, wake, cache, hits, fired,
  firedFile, session, loaded, ids, tapping, delivered, again, lost, announced, twice, revived,
  minute, agenda, kept, asking, ledger, turns, stood, seen

Loop == INSTANCE Daemon WITH
  Clients <- Tappers, None <- Unset, MaxActs <- MaxTaps, MaxFaults <- MaxSlips,
  acts <- taps, faults <- slips, starts <- occurs, since <- rested, file <- session,
  job <- tapping

Page == INSTANCE Notifier WITH
  Items <- Calls, None <- Unset, MaxTime <- Minutes, MaxActs <- Turns,
  now <- minute, cache <- kept, fired <- ledger, acts <- turns, since <- stood

ASSUME RemindersAssumption ==
  Loop!DaemonAssumption /\ Loop!TimerAssumption /\ Page!InTime

loopVars ==
  <<now, taps, slips, due, occurs, cancelled, pc, at, rested, wake, cache, hits, fired,
    firedFile, session, loaded, ids, tapping, delivered, again, lost, announced, twice,
    revived>>
pageVars == <<minute, agenda, kept, asking, ledger, turns, stood, seen>>

\* Of what the daemon and a page show, nothing is shown twice that can be helped, and
\* nothing that is in a page's reach is left out (daemon.rs:3, notify.ts).
RemindersSound == Loop!OnceEach /\ Page!TypeOK /\ Page!NothingMissed
=============================================================================
