-------------------------------- MODULE Series --------------------------------
(***************************************************************************)
(* A recurring event under the edits of its occurrences: what "this",      *)
(* "this and following" and "all" change of what the calendar shows        *)
(* (crates/mgmt-service/src/context.rs, delete_occurrence and              *)
(* update_occurrence), on top of the expansion of the rule.                *)
(*                                                                         *)
(* A slot that is edited is one the calendar shows, as the web client and  *)
(* the chat's listing hand it out (`occurrence_start`).  The command line  *)
(* and the terminal UI edit the master of the same series, and what is     *)
(* stored goes through the file whenever the vault is loaded again.        *)
(***************************************************************************)
EXTENDS Occurrences, EventEdits

CONSTANTS
  Events,      \* the events there may be to begin with
  Foreign,     \* and the files other clients may have written
  Flags,       \* what `mgmt event edit` may be called with
  FormDates,   \* the dates a form or a move may be given
  Shared,      \* the events that the command line and the terminal UI edit
  From, To,    \* the window the calendar shows
  Windows,     \* the windows it may be asked about
  MaxOps       \* bound on edits

ASSUME SeriesAssumption ==
  /\ From \in Nat /\ To \in Nat /\ MaxOps \in Nat
  /\ \A w \in Windows : w[1] \in Nat /\ w[2] \in Nat

VARIABLES
  series,  \* the components stored under every uid
  did,     \* history: the last edit
  ops

vars == <<series, did, ops>>

Rules == {e.rule : e \in Events}

Stored ==
  {[master |-> e, over |-> {}] : e \in Events} \cup {Parsed(text) : text \in Foreign}

Init ==
  /\ \/ series = NoSeries
     \/ \E u \in Uids, s \in Stored : series = [NoSeries EXCEPT ![u] = s]
  /\ did = None
  /\ ops = 0

\* What the calendar shows of one series, and the slots of that.
Calendar(s) == IF s = None THEN {} ELSE Shown(s, From, To)
Slots(s) == {o.at : o \in Calendar(s)}

\* What may be made of an event: another title, and as its start the slot's,
\* the master's - as the chat sends it back - or one half a day later.
Wanted(u, at) ==
  LET m == series[u].master
  IN { [m EXCEPT !.title = t, !.start = s, !.out = {}] :
         t \in Titles, s \in {m.start, at, at + 1} }

Edit(op, scope, u, at, e, new) ==
  /\ ops < MaxOps /\ ops' = ops + 1
  /\ did' = [op |-> op, scope |-> scope, uid |-> u, at |-> at, event |-> e, new |-> new]

\* In these, `at` is one of the slots that are shown.
Delete(u, at, scope) ==
  /\ Edit("delete", scope, u, at, None, None)
  /\ series' = DeleteOccurrence(series, u, at, scope)

UpdateThis(u, at) ==
  /\ series[u].master.rule # None
  /\ \E e \in Wanted(u, at) :
       /\ Edit("update", "this", u, at, e, None)
       /\ series' = UpdateOccurrence(series, u, at, e, "this", None)

UpdateFollowing(u, at, new) ==
  /\ series[u].master.rule # None
  /\ series[new] = None
  /\ \E e \in Wanted(u, at) :
       /\ Edit("update", "following", u, at, e, new)
       /\ series' = UpdateOccurrence(series, u, at, e, "following", new)

\* "all" at a slot; and PUT without a slot, which keeps the EXDATEs that the
\* body leaves out (keep_server_owned) and stores it with put_event.
UpdateAll(u) ==
  /\ series[u] # None
  /\ \E e \in Wanted(u, series[u].master.start) :
       /\ Edit("update", "all", u, e.start, e, None)
       /\ series' = UpdateOccurrence(series, u, e.start, e, "all", None)

-----------------------------------------------------------------------------
(* The command line and the terminal UI. *)

\* The first event of an empty vault.
Add(u, title) ==
  /\ series = NoSeries
  /\ \E e \in {CommandAdd(title, flags) : flags \in {f \in Flags : f.start # None}} \cup
             {Submit(f, Blank(title, 0)) :
                f \in UNION {Filled(NewForm(title, d), {title}, {d}) : d \in FormDates}} :
       /\ e # None
       /\ Edit("add", "master", u, None, e, None)
       /\ series' = [series EXCEPT ![u] = [master |-> e, over |-> {}]]

\* upsert keeps the components beside the master.
PutEvent(u, e, by) ==
  /\ Edit(by, "master", u, None, e, None)
  /\ series' = [series EXCEPT ![u].master = e]

Command(u) ==
  /\ series[u] # None
  /\ series[u].master \in Shared
  /\ \E flags \in Flags :
       LET e == CommandEdit(series[u].master, flags)
       IN e # None /\ PutEvent(u, e, "command")

Form(u) ==
  /\ series[u] # None
  /\ series[u].master \in Shared /\ Slots(series[u]) # {}
  /\ \E f \in Filled(FormOf(series[u].master), Titles, FormDates) :
       PutEvent(u, Submit(f, series[u].master), "form")

Nudge(u, by) ==
  /\ series[u] # None
  /\ series[u].master \in Shared /\ Slots(series[u]) # {}
  /\ \/ PutEvent(u, NudgeStart(series[u].master, by), "nudge")
     \/ PutEvent(u, NudgeEnd(series[u].master, by), "nudge")

Move(u, date) ==
  /\ series[u] # None
  /\ series[u].master \in Shared /\ Slots(series[u]) # {}
  /\ PutEvent(u, MoveToDate(series[u].master, date), "move")

\* Another process, or this one at a change notice, loads the files.
Reload ==
  /\ series' = [u \in Uids |-> IF series[u] = None THEN None
                               ELSE Parsed(Written(series[u]))]
  /\ UNCHANGED <<did, ops>>

Next ==
  \/ Reload
  \/ \E u \in Uids :
        \/ \E title \in Titles : Add(u, title)
        \/ Command(u)
        \/ Form(u)
        \/ \E by \in {-1, 1} : Nudge(u, by)
        \/ \E date \in FormDates : Move(u, date)
  \/ \E u \in Uids : UpdateAll(u)
  \/ \E u \in Uids : ops < MaxOps /\ \E at \in Slots(series[u]) :
        \/ \E scope \in Scopes : Delete(u, at, scope)
        \/ UpdateThis(u, at)
        \/ \E new \in Uids : UpdateFollowing(u, at, new)

Spec == Init /\ [][Next]_vars

-----------------------------------------------------------------------------
\* Whatever window is asked about, the expansion of a rule - which jumps to
\* the window, counts as it goes and stops at the first start that is too
\* late - shows exactly the starts the rule means there (expand.rs).  An edit
\* of one occurrence leaves the rules as they were.
WindowAgrees ==
  (did # None => did.scope \in {"following", "all"}) =>
    \A u \in Uids : series[u] # None /\ series[u].master.rule # None =>
      LET e == series[u].master
          shows(meant) ==
            \A w \in Windows : OccurrencesIn(e, w[1], w[2]) =
                                {s \in meant : s < w[2] /\ s + e.dur > w[1]}
      IN shows(Meant(e))

\* An edit keeps to its scope: "this" leaves every other occurrence of the
\* series as it is shown, "this and following" every earlier one, and a
\* deletion leaves nothing else; no other series is touched
\* (context.rs, delete_occurrence and update_occurrence).
Recurs == did'.scope # "master" /\ series[did'.uid].master.rule # None

KeepsToScope(before, after) ==
  /\ did'.scope = "this" /\ Recurs =>
       {o \in after : o.at # did'.at} = {o \in before : o.at # did'.at}
  /\ did'.op = "delete" /\ did'.scope = "this" /\ Recurs =>
       \A o \in after : o.at # did'.at
  /\ did'.scope = "following" /\ Recurs =>
       after = {o \in before : o.at < did'.at}
  /\ \A v \in Uids \ {did'.uid, did'.new} : series'[v] = series[v]

\* A series that is split goes on where it was cut: the head and the tail
\* have, together, the slots there were, whatever COUNT, UNTIL, the EXDATEs
\* and the overrides said; but for the overrides of slots that a change of
\* the whole series did away with, and a cut at one of those.  An event of no
\* length is left out: the head's first occurrence is not counted, since it
\* does not end after it began (context.rs, the "following" of
\* update_occurrence and subtract_head_count).
Orphans(s) ==
  {t \in {o.at : o \in s.over} : t \notin OccurrencesIn(s.master, t, t + 1)}

KeepsSlots(before, after, orphans) ==
  did'.new # None /\ did'.event.start = did'.at /\ series[did'.uid].master.dur > 0
  /\ did'.at \notin orphans =>
       after \subseteq before /\ before \ after \subseteq orphans

\* Edits keep to what they were asked to change.
ScopesHold ==
  [][ ops' # ops =>
        /\ KeepsToScope(Calendar(series[did'.uid]), Calendar(series'[did'.uid]))
        /\ did'.new # None =>
             KeepsSlots(Slots(series[did'.uid]),
                        UNION {Slots(series'[v]) : v \in {did'.uid, did'.new}},
                        Orphans(series[did'.uid])) ]_vars

\* What is stored is what is read back.  Writing what was read gives the same
\* file, so that an event nobody edits has the same hash at every pass of the
\* native sync (vevent.rs:52-54), and no event is read to end before it begins.
FilesSettle ==
  \A u \in Uids : series[u] # None =>
    LET once == Parsed(Written(series[u]))
    IN /\ Written(once) = Written(series[u])
       /\ \A o \in {once.master} \cup once.over : o.dur >= 0

\* A series that is of dates throughout, or of instants throughout, shows the
\* same calendar to the process that stored it and to one that loads it
\* (vevent.rs; VdirStore::load_all).
Uniform(s) ==
  LET day == s.master.day
      given == {s.master.start, s.master.dur} \cup s.master.out \cup
                 UNION {{o.at, o.start, o.dur} : o \in s.over}
  IN /\ \A o \in s.over : o.day = day
     /\ day => \A t \in given : t % HalfDaysOfDay = 0

FileKeepsCalendar ==
  \A u \in Uids : series[u] # None /\ Uniform(series[u]) =>
    Calendar(Parsed(Written(series[u]))) = Calendar(series[u])

\* A file says what was put into it.
FilesFaithful == FilesSettle /\ FileKeepsCalendar
=============================================================================
