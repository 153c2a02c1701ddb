------------------------------- MODULE Daemon -------------------------------
(***************************************************************************)
(* The loop of `mgmt daemon` (daemon.rs): one round takes the time, checks *)
(* the reminders if it is their turn, moves the focus session on and       *)
(* sleeps.  Beside it the user edits the vault, and `mgmt focus` and the   *)
(* web server change the focus session (focus.rs, routes.rs).  The session *)
(* file has no lock: whoever changes it loads it, changes his copy and     *)
(* saves.  Time passes between any two steps, since each may take long.    *)
(***************************************************************************)
EXTENDS FocusTimer, FiniteSets

CONSTANTS
  Clients,            \* focus commands and requests that may be under way
  Offsets,            \* the offsets of the task's reminders
  Alarms, Length, Grace, \* alarms relative to an event's start, its length, LATE_GRACE_MIN
  Poll,               \* rounds between two looks at the reminders
  Dates,              \* the dates that the user gives the task and the event
  MaxTime, MaxActs, MaxFaults   \* bounds on the clock, on edits and on faults

DaemonAssumption ==
  /\ Offsets \subseteq Nat /\ Alarms \subseteq Int /\ Length \in Nat /\ Grace \in Nat
  /\ Poll \in Nat \ {0} /\ Dates \subseteq Nat
  /\ MaxTime \in Nat /\ MaxActs \in Nat /\ MaxFaults \in Nat

Option(S) == S \cup {None}

VARIABLES
  now, acts, faults,
  due, starts, cancelled,   \* the task's due date; the event's occurrences and status
  pc, at, since, wake,      \* the daemon: where it is, its `now`, since_reload, end of sleep
  cache, hits, fired, firedFile,
  file, loaded, ids,        \* pomodoro.json; what the daemon loaded; phases so far
  job,                      \* the locals of a focus command
  delivered, again, lost,   \* keys shown; shown twice; shown and in no file at a restart
  announced, twice, revived \* phases announced; twice; put back after they were left

vault == <<due, starts, cancelled>>
loop == <<pc, at, since, wake>>
reminders == <<cache, hits, fired, firedFile>>
focus == <<file, loaded, ids>>
firing == <<delivered, again, lost>>
phases == <<announced, twice, revived>>
vars == <<now, acts, faults, vault, loop, reminders, focus, job, firing, phases>>

Vault == [due |-> due, starts |-> starts, cancelled |-> cancelled]

Init ==
  /\ now = 0 /\ acts = 0 /\ faults = 0
  /\ due \in Option(Dates) /\ starts \in SUBSET Dates /\ cancelled = FALSE
  /\ pc = "top" /\ at = 0 /\ since = Poll /\ wake = 0
  /\ cache = Vault /\ hits = {} /\ fired = {} /\ firedFile = {}
  /\ file = None /\ loaded = None /\ ids = 0
  /\ job = [p \in Clients |-> None]
  /\ delivered = {} /\ again = {} /\ lost = {}
  /\ announced = {} /\ twice = {} /\ revived = {}

Fault == faults < MaxFaults /\ faults' = faults + 1
Acts == acts < MaxActs /\ acts' = acts + 1

Tick ==
  /\ now < MaxTime /\ now' = now + 1
  /\ UNCHANGED <<acts, faults, vault, loop, reminders, focus, job, firing, phases>>

-----------------------------------------------------------------------------
(* Reminders: reminders::pending over the daemon's cache. *)

Later(a, b) == IF a > b THEN a ELSE b

TaskHits(v, t) ==
  {[key |-> <<"task", v.due, m>>, target |-> v.due] :
     m \in {x \in Offsets : v.due # None /\ t >= v.due - x /\ t < v.due}}

\* An occurrence is looked at while it overlaps the time from `t` on.
EventHits(v, t) ==
  {[key |-> <<"event", h[1], h[1] + h[2]>>, target |-> Later(h[1], h[1] + h[2] + Grace)] :
     h \in {x \in v.starts \X Alarms :
              /\ ~v.cancelled /\ x[1] + Length > t
              /\ t >= x[1] + x[2] /\ t < Later(x[1], x[1] + x[2] + Grace)}}

\* A mistake: what has fired is looked for once the reminders are counted, not here.
PendingAll(v, t, keys) == TaskHits(v, t) \cup EventHits(v, t)

Pending(v, t, keys) == {h \in TaskHits(v, t) \cup EventHits(v, t) : h.key \notin keys}

\* The user, in another program, dates the task, moves the event or cancels it.
Edit ==
  /\ Acts
  /\ \/ due' \in Option(Dates) \ {due} /\ UNCHANGED <<starts, cancelled>>
     \/ \E d \in Dates : starts' = {d} /\ starts' # starts /\ UNCHANGED <<due, cancelled>>
     \/ cancelled' = ~cancelled /\ UNCHANGED <<due, starts>>
  /\ UNCHANGED <<now, faults, loop, reminders, focus, job, firing, phases>>

RoundBegins ==
  /\ pc = "top"
  /\ at' = now
  /\ pc' = IF since >= Poll THEN "reload" ELSE "pomodoro"
  /\ UNCHANGED <<now, acts, faults, vault, since, wake, reminders, focus, job, firing, phases>>

\* A reload that fails leaves the cache as it was, and the round goes on with it.
Reload ==
  /\ pc = "reload"
  /\ \/ cache' = Vault /\ UNCHANGED faults
     \/ cache' = cache /\ Fault
  /\ hits' = Pending(cache', at, {f.key : f \in fired})
  /\ pc' = "fire"
  /\ UNCHANGED <<now, acts, vault, at, since, wake, fired, firedFile, focus, job, firing, phases>>

\* The mark holds until the window closes.
Fire(h) ==
  /\ pc = "fire" /\ h \in hits
  /\ hits' = hits \ {h}
  /\ fired' = {f \in fired : f.key # h.key} \cup {[key |-> h.key, ts |-> h.target]}
  /\ delivered' = delivered \cup {h.key}
  /\ again' = IF h.key \in delivered THEN again \cup {h.key} ELSE again
  /\ UNCHANGED <<now, acts, faults, vault, loop, cache, firedFile, focus, job, lost, phases>>

\* A mistake: the reminders that fired are forgotten from the file when their
\* window closes, and from memory at once.
SaveFiredAndForget ==
  /\ pc = "fire" /\ hits = {}
  /\ firedFile' = {f \in fired : f.ts >= at} /\ fired' = {}
  /\ since' = 0 /\ pc' = "pomodoro"
  /\ UNCHANGED <<now, acts, faults, vault, at, wake, cache, hits, focus, job, firing, phases>>

SaveFired ==
  /\ pc = "fire" /\ hits = {}
  /\ fired' = {f \in fired : f.ts >= at}
  /\ \/ firedFile' = fired' /\ UNCHANGED faults
     \/ firedFile' = firedFile /\ Fault
  /\ since' = 0 /\ pc' = "pomodoro"
  /\ UNCHANGED <<now, acts, vault, at, wake, cache, hits, focus, job, firing, phases>>

\* The process dies and is started again.  In the middle of a save the file of
\* fired reminders, which is written in place, is left unreadable and loads empty.
Restart ==
  /\ Fault
  /\ \/ firedFile' = firedFile
     \/ pc = "fire" /\ hits = {} /\ firedFile' = {}
  /\ lost' = lost \cup {k \in delivered : \A f \in firedFile' : f.key # k}
  /\ pc' = "top" /\ since' = Poll /\ at' = now
  /\ cache' = Vault /\ hits' = {} /\ fired' = firedFile'
  /\ loaded' = None
  /\ UNCHANGED <<now, acts, vault, wake, file, ids, job, delivered, again, phases>>

-----------------------------------------------------------------------------
(* The focus session. *)

\* Until the next round; at the end of the modelled time a round follows at once.
Sleeps == pc' = "sleep" /\ wake' = IF now < MaxTime THEN now + 1 ELSE now

\* A mistake: only a focus phase is moved on.
LoadPomodoroFocus ==
  /\ pc = "pomodoro"
  /\ \/ /\ file # None /\ file.focus /\ Over(file, at)
        /\ loaded' = file /\ pc' = "advance" /\ UNCHANGED wake
     \/ /\ ~(file # None /\ file.focus /\ Over(file, at))
        /\ Sleeps /\ UNCHANGED loaded
  /\ UNCHANGED <<now, acts, faults, vault, at, since, reminders, file, ids, job, firing, phases>>

LoadPomodoro ==
  /\ pc = "pomodoro"
  /\ \/ /\ file # None /\ Over(file, at)
        /\ loaded' = file /\ pc' = "advance" /\ UNCHANGED wake
     \/ /\ ~(file # None /\ Over(file, at))
        /\ Sleeps /\ UNCHANGED loaded
  /\ UNCHANGED <<now, acts, faults, vault, at, since, reminders, file, ids, job, firing, phases>>

\* A mistake: the phase that is over is announced and the session is not saved.
AnnounceOnly ==
  /\ pc = "advance"
  /\ announced' = announced \cup {loaded.id}
  /\ twice' = IF loaded.id \in announced THEN twice \cup {loaded.id} ELSE twice
  /\ loaded' = None /\ Sleeps
  /\ UNCHANGED <<now, acts, faults, vault, at, since, reminders, file, ids, job, firing, revived>>

\* tick(), save, notify_phase: announced whether or not the session could be saved.
Advance ==
  /\ pc = "advance"
  /\ \/ /\ file' = Skipped(loaded, at, ids + 1) /\ ids' = ids + 1
        /\ UNCHANGED <<faults, revived>>
     \/ /\ Fault /\ UNCHANGED <<file, ids>>
        /\ revived' = revived \cup {loaded.id}
  /\ announced' = announced \cup {loaded.id}
  /\ twice' = IF loaded.id \in announced THEN twice \cup {loaded.id} ELSE twice
  /\ loaded' = None /\ Sleeps
  /\ UNCHANGED <<now, acts, vault, at, since, reminders, job, firing>>

Wake ==
  /\ pc = "sleep" /\ now >= wake
  /\ pc' = "top" /\ since' = IF since < Poll THEN since + 1 ELSE since
  /\ UNCHANGED <<now, acts, faults, vault, at, wake, reminders, focus, job, firing, phases>>

FocusStart(engine) ==
  /\ Acts
  /\ file' = Begun(engine, now, ids + 1) /\ ids' = ids + 1
  /\ UNCHANGED <<now, faults, vault, loop, reminders, loaded, job, firing, phases>>

FocusStop ==
  /\ Acts /\ file # None
  /\ file' = None
  /\ UNCHANGED <<now, faults, vault, loop, reminders, loaded, ids, job, firing, phases>>

FocusLoad(p, kind) ==
  /\ job[p] = None /\ file # None /\ Acts
  /\ job' = [job EXCEPT ![p] = [kind |-> kind, t |-> now, copy |-> file]]
  /\ UNCHANGED <<now, faults, vault, loop, reminders, focus, firing, phases>>

\* A pause or a resume of a copy puts a phase back that has been left meanwhile.
FocusSave(p) ==
  /\ job[p] # None
  /\ \/ /\ job[p].kind = "toggle"
        /\ file' = Toggled(job[p].copy, job[p].t) /\ UNCHANGED ids
        /\ revived' = IF file # None /\ file.id = job[p].copy.id THEN revived
                      ELSE revived \cup {job[p].copy.id}
     \/ /\ job[p].kind = "skip"
        /\ file' = Skipped(job[p].copy, job[p].t, ids + 1) /\ ids' = ids + 1
        /\ UNCHANGED revived
  /\ job' = [job EXCEPT ![p] = None]
  /\ UNCHANGED <<now, acts, faults, vault, loop, reminders, loaded, firing, announced, twice>>

-----------------------------------------------------------------------------
Next ==
  \/ Tick \/ Edit \/ RoundBegins \/ Reload \/ SaveFired \/ Restart
  \/ \E h \in hits : Fire(h)
  \/ LoadPomodoro \/ Advance \/ Wake
  \/ \E engine \in {"pomodoro", "flowtime"} : FocusStart(engine)
  \/ FocusStop
  \/ \E p \in Clients : FocusSave(p) \/ \E kind \in {"toggle", "skip"} : FocusLoad(p, kind)

Spec == Init /\ [][Next]_vars

Daemon == RoundBegins \/ Reload \/ SaveFired \/ LoadPomodoro \/ Advance \/ Wake
          \/ \E h \in hits : Fire(h)

\* The loop goes on and the clock runs; nothing else has to happen.
FairSpec == Spec /\ WF_vars(Daemon) /\ WF_vars(Tick)
-----------------------------------------------------------------------------
Key == ({"task"} \X Nat \X Nat) \cup ({"event"} \X Nat \X Int)
Keys(S) == {f.key : f \in S}
Phases == 1..ids

\* Types; a reminder is marked once, and what is about to fire is not marked yet
\* (FiredState is a map, and pending() leaves out the keys it is given).
TypeOK ==
  /\ now \in 0..MaxTime /\ acts \in 0..MaxActs /\ faults \in 0..MaxFaults
  /\ due \in Option(Dates) /\ starts \subseteq Dates /\ cancelled \in BOOLEAN
  /\ pc \in {"top", "reload", "fire", "pomodoro", "advance", "sleep"}
  /\ at \in 0..now /\ since \in 0..Poll /\ wake \in 0..MaxTime
  /\ cache \in [due : Option(Dates), starts : SUBSET Dates, cancelled : BOOLEAN]
  /\ hits \subseteq [key : Key, target : Int]
  /\ fired \subseteq [key : Key, ts : Int] /\ firedFile \subseteq [key : Key, ts : Int]
  /\ Keys(hits) \cap Keys(fired) = {}
  /\ \A f, g \in fired : f.key = g.key => f = g
  /\ file \in Option(Session) /\ ids \in Nat
  /\ loaded \in Option(Session) /\ (pc = "advance") = (loaded # None)
  /\ job \in [Clients -> Option([kind : {"toggle", "skip"}, t : Nat, copy : Session])]
  /\ delivered \subseteq Key /\ again \subseteq Key /\ lost \subseteq Key
  /\ announced \subseteq Phases /\ twice \subseteq Phases /\ revived \subseteq Phases

\* "A reminder never re-fires within its window" (daemon.rs:3-4): a reminder is
\* shown twice only if the daemon was restarted while no file held its key, because
\* it died between showing it and saving, or in a save, or the save had failed.
\* Moving a date away and back does not fire it again either.
FiresOnce == again \subseteq lost

\* The end of a phase is announced once, whoever else changes the session, unless
\* the phase was put back: by a pause or resume of a copy loaded before the phase
\* was left, or because the daemon could not save the session it moved on.
AnnouncedOnce == twice \subseteq revived

\* What the daemon shows it shows once.
OnceEach == TypeOK /\ FiresOnce /\ AnnouncedOnce

\* The session is not over for ever: the daemon, or the user, moves a running
\* phase that is over on, pauses it or ends it.
PhaseEnds == []<>~(file # None /\ Over(file, now))
=============================================================================
