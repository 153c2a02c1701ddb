---------------------------- MODULE VaultContext ----------------------------
(***************************************************************************)
(* MgmtContext (crates/mgmt-service/src/context.rs): one process's cache   *)
(* of a vault, written through to the files of mgmt-store, with undo,      *)
(* redo and the trash.  Any file operation may fail, the process may be    *)
(* restarted, and other processes write to the same files.                 *)
(*                                                                         *)
(* A task is a file; an event series is one file in the directory of its   *)
(* calendar, holding a master and RECURRENCE-ID overrides.  What a file    *)
(* says besides its project is its `modified` stamp `rev`: every fresh     *)
(* mutation stamps anew.  A write of others falls between two operations   *)
(* of the context, not between the file accesses of one, except for        *)
(* delete_project, which goes through the vault item by item.              *)
(***************************************************************************)
EXTENDS Integers, Sequences

CONSTANTS
  Tasks,       \* uids of tasks
  Series,      \* uids of event series
  Recurring,   \* those with a recurrence rule
  Slots,       \* the occurrences that may be overridden, in order of time
  Calendars,
  ReadOnly,    \* calendars that mirror a subscription
  Projects,
  None,        \* Option::None
  MaxOps,      \* bound on mutations and on writes of others, together
  MaxFaults    \* bound on failing file operations

Master == 0    \* the component without RECURRENCE-ID; sorts before every slot
Parts == {Master} \cup Slots

Option(S) == S \cup {None}

Task == [rev : Nat, project : Option(Projects)]
Component == [rev : Nat, project : Option(Projects)]

\* A cached event also has the `calendar` field that a file leaves to its
\* directory.
Event == [rev : Nat, project : Option(Projects), cal : Calendars]

NoParts == [s \in Parts |-> None]

SeriesFile == [cal : Calendars, parts : [Parts -> Option(Component)] \ {NoParts}]

\* One item's state before a mutation: enum Snapshot.
TaskSnapshot == [kind : {"task"}, uid : Tasks, val : Option(Task)]
EventSnapshot == [kind : {"event"}, uid : Series,
                  val : Option([slot : Parts, event : Event])]
SeriesSnapshot == [kind : {"series"}, uid : Series, val : [Parts -> Option(Event)]]
Snapshot == TaskSnapshot \cup EventSnapshot \cup SeriesSnapshot

\* What the history remembers of a disk.
LiveFiles == [tasks : [Tasks -> Option(Task)], series : [Series -> Option(SeriesFile)]]

ASSUME VaultAssumption ==
  /\ Slots \subseteq Nat \ {0}
  /\ Recurring \subseteq Series
  /\ ReadOnly \subseteq Calendars
  /\ MaxOps \in Nat /\ MaxFaults \in Nat
  /\ None \notin Projects /\ None \notin Task /\ None \notin Event
  /\ None \notin SeriesFile /\ None \notin [slot : Parts, event : Event]
  /\ None \notin LiveFiles

VARIABLES
  disk,      \* the files: tasks, series, projects, trash and trashed projects
  cache,     \* task_cache, event_cache, project_cache
  undo,      \* undo_stack
  redo,      \* redo_stack
  deleting,  \* the project delete_project is at work on
  ops,       \* mutations and writes of others so far: the clock of the stamps
  faults,    \* file operations that failed
  insync,    \* history: since the last load nobody else wrote, nothing failed, and
             \* no lone override lost its place in the cache (TakesPlace)
  past,      \* history: the live files each entry of undo goes back to
  future     \* history: the same for redo

vars == <<disk, cache, undo, redo, deleting, ops, faults, insync, past, future>>
history == <<past, future>>

-----------------------------------------------------------------------------
(* Loading. *)

LoadSeries(f) ==
  [s \in Parts |->
     IF f = None \/ f.parts[s] = None THEN None
     ELSE [rev |-> f.parts[s].rev, project |-> f.parts[s].project, cal |-> f.cal]]

Loaded(d) ==
  [tasks |-> d.tasks,
   series |-> [e \in Series |-> LoadSeries(d.series[e])],
   projects |-> d.projects]

EmptyDisk ==
  [tasks |-> [t \in Tasks |-> None], series |-> [e \in Series |-> None],
   projects |-> {}, trash |-> [t \in Tasks |-> None], trashedProjects |-> {}]

Init ==
  /\ disk = EmptyDisk
  /\ cache = Loaded(EmptyDisk)
  /\ undo = <<>> /\ redo = <<>>
  /\ deleting = None
  /\ ops = 0 /\ faults = 0
  /\ insync = TRUE
  /\ past = <<>> /\ future = <<>>

-----------------------------------------------------------------------------
(* The stores.  An operation is the sequence of disks its file accesses    *)
(* lead through: it succeeds at the last one and may fail at any other.    *)

\* VdirStore::write_series: the file in another calendar goes first.
WriteSeries(d, e, file) ==
  LET written == [d EXCEPT !.series[e] = file]
  IN IF d.series[e] # None /\ d.series[e].cal # file.cal
     THEN <<d, [d EXCEPT !.series[e] = None], written>>
     ELSE <<d, written>>

Clean(v) == [rev |-> v.rev, project |-> v.project]

\* A mistake: a component that takes its siblings with it.
UpsertAlone(d, e, s, v) ==
  WriteSeries(d, e, [cal |-> v.cal, parts |-> [NoParts EXCEPT ![s] = Clean(v)]])

\* VdirStore::upsert: the siblings are read from the disk and stay.
Upsert(d, e, s, v) ==
  LET siblings == IF d.series[e] = None THEN NoParts ELSE d.series[e].parts
  IN WriteSeries(d, e, [cal |-> v.cal, parts |-> [siblings EXCEPT ![s] = Clean(v)]])

\* VdirStore::put_series: the file is what the caller says, in the calendar
\* of the first component.
First(parts) ==
  CHOOSE s \in Parts : parts[s] # None /\ \A r \in Parts : parts[r] # None => s <= r

PutSeries(d, e, parts) ==
  WriteSeries(d, e, [cal |-> parts[First(parts)].cal,
                     parts |-> [s \in Parts |-> IF parts[s] = None THEN None
                                                ELSE Clean(parts[s])]])

\* A mistake: a deletion that takes only the master out of the file.
DeleteMaster(d, e) ==
  IF d.series[e] = None THEN <<d>>
  ELSE <<d, [d EXCEPT !.series[e].parts[Master] = None]>>

DeleteFile(d, e) ==
  IF d.series[e] = None THEN <<d>> ELSE <<d, [d EXCEPT !.series[e] = None]>>

\* Mistakes: the file deleted before it is in the trash, and a trashed copy
\* purged before the file is written.
DeleteThenTrash(d, c, t) ==
  LET deleted == [d EXCEPT !.tasks[t] = None]
  IN <<d, deleted, IF c.tasks[t] = None THEN deleted
                   ELSE [deleted EXCEPT !.trash[t] = c.tasks[t]]>>

PurgeThenWrite(d, t, v) ==
  LET purged == [d EXCEPT !.trash[t] = None]
  IN <<d, purged, [purged EXCEPT !.tasks[t] = v]>>

WriteOnly(d, t, v) == <<d, [d EXCEPT !.tasks[t] = v]>>

\* A task is written before its trashed copy goes, and trashed, as the cache
\* has it, before its file goes.
WriteTask(d, t, v) ==
  LET written == [d EXCEPT !.tasks[t] = v]
  IN IF d.trash[t] = None THEN <<d, written>>
     ELSE <<d, written, [written EXCEPT !.trash[t] = None]>>

DeleteTask(d, c, t) ==
  LET trashed == IF c.tasks[t] = None THEN d
                 ELSE [d EXCEPT !.trash[t] = c.tasks[t]]
  IN <<d, trashed, [trashed EXCEPT !.tasks[t] = None]>>

-----------------------------------------------------------------------------
(* MgmtContext::apply. *)

Steps(d, c, snap) ==
  CASE snap.kind = "task" /\ snap.val # None -> WriteTask(d, snap.uid, snap.val)
    [] snap.kind = "task" /\ snap.val = None -> DeleteTask(d, c, snap.uid)
    [] snap.kind = "event" /\ snap.val # None ->
         Upsert(d, snap.uid, snap.val.slot, snap.val.event)
    [] snap.kind = "event" /\ snap.val = None -> DeleteFile(d, snap.uid)
    [] snap.kind = "series" /\ snap.val # NoParts -> PutSeries(d, snap.uid, snap.val)
    [] snap.kind = "series" /\ snap.val = NoParts -> DeleteFile(d, snap.uid)

\* upsert_into puts an event in the place of the first component cached.
Replaced(parts, put) ==
  LET others == IF parts = NoParts THEN parts
                ELSE [parts EXCEPT ![First(parts)] = None]
  IN [others EXCEPT ![put.slot] = put.event]

\* A lone override - a file may hold one - gives its place in the cache to a
\* master put beside it, though the file keeps both.
TakesPlace(c, snap) ==
  /\ snap.kind = "event" /\ snap.val # None
  /\ c.series[snap.uid] # NoParts
  /\ First(c.series[snap.uid]) # snap.val.slot

Cached(c, snap) ==
  CASE snap.kind = "task" -> [c EXCEPT !.tasks[snap.uid] = snap.val]
    [] snap.kind = "event" /\ snap.val # None ->
         [c EXCEPT !.series[snap.uid] = Replaced(@, snap.val)]
    [] snap.kind = "event" /\ snap.val = None -> [c EXCEPT !.series[snap.uid] = NoParts]
    [] snap.kind = "series" -> [c EXCEPT !.series[snap.uid] = snap.val]

\* The first component cached, or nothing.
Prior(parts) ==
  IF parts = NoParts THEN None
  ELSE [slot |-> First(parts), event |-> parts[First(parts)]]

Inverse(c, snap) ==
  CASE snap.kind = "task" -> [snap EXCEPT !.val = c.tasks[snap.uid]]
    [] snap.kind = "event" -> [snap EXCEPT !.val = Prior(c.series[snap.uid])]
    [] snap.kind = "series" -> [snap EXCEPT !.val = c.series[snap.uid]]

\* stamp_modified
Stamped(snap, now) ==
  CASE snap.kind = "task" /\ snap.val # None -> [snap EXCEPT !.val.rev = now]
    [] snap.kind = "event" /\ snap.val # None -> [snap EXCEPT !.val.event.rev = now]
    [] snap.kind = "series" ->
         [snap EXCEPT !.val = [s \in Parts |-> IF @[s] = None THEN None
                                               ELSE [@[s] EXCEPT !.rev = now]]]
    [] OTHER -> snap

Live(d) == [tasks |-> d.tasks, series |-> d.series]

Unknown(seq) == [i \in DOMAIN seq |-> None]
Front(seq) == SubSeq(seq, 1, Len(seq) - 1)
Last(seq) == seq[Len(seq)]

\* delete_project takes the file of a series to the calendar of an override
\* cached with one of its own; an undo takes it back to that of the first
\* component.
Strayed(e) ==
  /\ disk.series[e] # None /\ cache.series[e] # NoParts
  /\ disk.series[e].cal # cache.series[e][First(cache.series[e])].cal

\* What an entry for snap will lead back to.
Known(snap) ==
  IF insync /\ ~TakesPlace(cache, snap) /\ (snap.kind # "task" => ~Strayed(snap.uid))
  THEN Live(disk) ELSE None

\* Once an undo has not led back to where its entry began, it is open where
\* those below it lead.
Below(seq) == IF Live(disk') = Last(seq) THEN Front(seq) ELSE Unknown(Front(seq))

\* A file operation failed: the error is returned and the cache left as it is.
FailsAt(steps) ==
  /\ faults < MaxFaults
  /\ faults' = faults + 1
  /\ \E i \in 1..(Len(steps) - 1) : disk' = steps[i]
  /\ insync' = FALSE

\* A mistake: the cache is changed before the files, whether these fail or not.
RecordCachesFirst(fresh) ==
  LET snap == Stamped(fresh, ops + 1)
      steps == Steps(disk, cache, snap)
  IN
  /\ ops < MaxOps /\ ops' = ops + 1
  /\ cache' = Cached(cache, snap)
  /\ \/ /\ disk' = Last(steps)
        /\ undo' = Append(undo, Inverse(cache, snap))
        /\ redo' = <<>>
        /\ past' = Append(past, Known(snap))
        /\ future' = <<>>
        /\ insync' = (insync /\ ~TakesPlace(cache, snap))
        /\ UNCHANGED faults
     \/ /\ FailsAt(steps)
        /\ past' = Unknown(past) /\ future' = Unknown(future)
        /\ UNCHANGED <<undo, redo>>
  /\ UNCHANGED deleting

\* MgmtContext::record
Record(fresh) ==
  LET snap == Stamped(fresh, ops + 1)
      steps == Steps(disk, cache, snap)
  IN
  /\ ops < MaxOps /\ ops' = ops + 1
  /\ \/ /\ disk' = Last(steps)
        /\ cache' = Cached(cache, snap)
        /\ undo' = Append(undo, Inverse(cache, snap))
        /\ redo' = <<>>
        /\ past' = Append(past, Known(snap))
        /\ future' = <<>>
        /\ insync' = (insync /\ ~TakesPlace(cache, snap))
        /\ UNCHANGED faults
     \/ /\ FailsAt(steps)
        /\ past' = Unknown(past) /\ future' = Unknown(future)
        /\ UNCHANGED <<cache, undo, redo>>
  /\ UNCHANGED deleting

\* `&mut self`: nothing else happens in this process during delete_project.
Free == deleting = None

Writable(cal) == cal \notin ReadOnly
-----------------------------------------------------------------------------
(* Tasks: put_task and what is built on it; delete_task; restore_task. *)

PutTask(t, p) ==
  /\ Free
  /\ Record([kind |-> "task", uid |-> t, val |-> [rev |-> 0, project |-> p]])

DropTask(t) ==
  /\ Free
  /\ Record([kind |-> "task", uid |-> t, val |-> None])

RestoreTask(t) ==
  /\ Free
  /\ disk.trash[t] # None
  /\ Record([kind |-> "task", uid |-> t, val |-> disk.trash[t]])

PurgeTask(t) ==
  /\ Free
  /\ disk.trash[t] # None
  /\ disk' = [disk EXCEPT !.trash[t] = None]
  /\ UNCHANGED <<cache, undo, redo, deleting, ops, faults, insync, history>>

EmptyTrash ==
  /\ Free
  /\ disk' = [disk EXCEPT !.trash = [t \in Tasks |-> None], !.trashedProjects = {}]
  /\ UNCHANGED <<cache, undo, redo, deleting, ops, faults, insync, history>>

-----------------------------------------------------------------------------
(* Events.  `cal` and `p` are what the caller wants. *)

EventOf(e) == cache.series[e][Master]

Put(e, cal, p) ==
  Record([kind |-> "event", uid |-> e,
          val |-> [slot |-> Master,
                   event |-> [rev |-> 0, project |-> p, cal |-> cal]]])

PutEventUnguarded(e, cal, p) == Free /\ Put(e, cal, p)

\* put_event; reschedule_event and adjust_event_start and _end come down to it.
PutEvent(e, cal, p) ==
  /\ Free
  /\ Writable(cal)
  /\ Put(e, cal, p)

Drop(e) ==
  /\ EventOf(e) # None => Writable(EventOf(e).cal)
  /\ Record([kind |-> "event", uid |-> e, val |-> None])

DeleteEvent(e) == Free /\ Drop(e)

\* put_series with the components in place of the cached ones.
ReplaceSeries(e, parts) ==
  Record([kind |-> "series", uid |-> e, val |-> parts])

\* put_series as `mgmt migrate-tz` uses it: every component moved in time.
ShiftSeries(e) ==
  /\ Free
  /\ cache.series[e] # NoParts
  /\ Writable(cache.series[e][First(cache.series[e])].cal)
  /\ ReplaceSeries(e, cache.series[e])

\* What delete_occurrence and update_occurrence look at first.
Found(e) ==
  /\ cache.series[e] # NoParts
  /\ Writable(cache.series[e][First(cache.series[e])].cal)

IsSeries(e) == e \in Recurring /\ EventOf(e) # None

\* delete_occurrence
DeleteThis(e, at) ==
  /\ Free /\ Found(e) /\ IsSeries(e)
  /\ ReplaceSeries(e, [cache.series[e] EXCEPT ![at] = None])

Before(parts, at) == [s \in Parts |-> IF s < at THEN parts[s] ELSE None]

DeleteFollowing(e, at) ==
  /\ Free /\ Found(e) /\ IsSeries(e)
  /\ ReplaceSeries(e, Before(cache.series[e], at))

DeleteAll(e) == Free /\ Found(e) /\ Drop(e)

\* update_occurrence
UpdateAll(e, cal, p) ==
  /\ Free /\ Found(e)
  /\ Writable(cal)
  /\ Put(e, cal, p)

UpdateThis(e, at, cal, p) ==
  /\ Free /\ Found(e) /\ IsSeries(e)
  /\ ReplaceSeries(e, [cache.series[e] EXCEPT ![at] =
                         [rev |-> 0, project |-> p, cal |-> cal]])

\* Uid::new() is random.
Unused(e) ==
  /\ disk.series[e] = None
  /\ cache.series[e] = NoParts
  /\ \A i \in DOMAIN undo : undo[i].kind # "task" => undo[i].uid # e
  /\ \A i \in DOMAIN redo : redo[i].kind # "task" => redo[i].uid # e

(***************************************************************************)
(* The old series stops before `at`; the edited values go on under a new   *)
(* uid, with those later overrides that the new rule still generates.  Two *)
(* records, and two entries of the undo stack.                             *)
(***************************************************************************)
UpdateFollowing(e, at, new, cal, p, carried) ==
  LET now   == ops + 1
      head  == Stamped([kind |-> "series", uid |-> e,
                        val |-> Before(cache.series[e], at)], now)
      first == Steps(disk, cache, head)
      disk1 == Last(first)
      cache1 == Cached(cache, head)
      tail  == Stamped([kind |-> "series", uid |-> new,
                        val |-> [s \in Parts |->
                          IF s = Master THEN [rev |-> 0, project |-> p, cal |-> cal]
                          ELSE IF s \in carried THEN cache.series[e][s] ELSE None]],
                       now)
      second == Steps(disk1, cache1, tail)
      between == IF insync THEN Live(disk1) ELSE None
  IN
  /\ Free /\ Found(e) /\ IsSeries(e)
  /\ Unused(new) /\ new \in Recurring
  /\ ops < MaxOps /\ ops' = now
  /\ \/ /\ disk' = Last(second)
        /\ cache' = Cached(cache1, tail)
        /\ undo' = undo \o <<Inverse(cache, head), Inverse(cache1, tail)>>
        /\ redo' = <<>>
        /\ past' = past \o <<Known(head), between>>
        /\ future' = <<>>
        /\ UNCHANGED <<faults, insync>>
     \/ /\ FailsAt(first)
        /\ past' = Unknown(past) /\ future' = Unknown(future)
        /\ UNCHANGED <<cache, undo, redo>>
     \/ /\ FailsAt(second)
        /\ cache' = cache1
        /\ undo' = Append(undo, Inverse(cache, head))
        /\ redo' = <<>>
        /\ past' = Append(Unknown(past), None)
        /\ future' = <<>>
  /\ UNCHANGED deleting

-----------------------------------------------------------------------------
(* Undo and redo: apply without a stamp.  The entry is popped first. *)

\* A mistake: undo as a fresh mutation.
UndoStamps ==
  LET snap == Stamped(Last(undo), ops + 1)
      steps == Steps(disk, cache, snap)
  IN
  /\ Free /\ undo # <<>>
  /\ undo' = Front(undo)
  /\ \/ /\ disk' = Last(steps)
        /\ cache' = Cached(cache, snap)
        /\ redo' = Append(redo, Inverse(cache, snap))
        /\ past' = Below(past)
        /\ future' = Append(future, Known(snap))
        /\ insync' = (insync /\ ~TakesPlace(cache, snap))
        /\ UNCHANGED faults
     \/ /\ FailsAt(steps)
        /\ past' = Unknown(Front(past)) /\ future' = Unknown(future)
        /\ UNCHANGED <<cache, redo>>
  /\ UNCHANGED <<deleting, ops>>

Undo ==
  LET snap == Last(undo)
      steps == Steps(disk, cache, snap)
  IN
  /\ Free /\ undo # <<>>
  /\ undo' = Front(undo)
  /\ \/ /\ disk' = Last(steps)
        /\ cache' = Cached(cache, snap)
        /\ redo' = Append(redo, Inverse(cache, snap))
        /\ past' = Below(past)
        /\ future' = Append(future, Known(snap))
        /\ insync' = (insync /\ ~TakesPlace(cache, snap))
        /\ UNCHANGED faults
     \/ /\ FailsAt(steps)
        /\ past' = Unknown(Front(past)) /\ future' = Unknown(future)
        /\ UNCHANGED <<cache, redo>>
  /\ UNCHANGED <<deleting, ops>>

Redo ==
  LET snap == Last(redo)
      steps == Steps(disk, cache, snap)
  IN
  /\ Free /\ redo # <<>>
  /\ redo' = Front(redo)
  /\ \/ /\ disk' = Last(steps)
        /\ cache' = Cached(cache, snap)
        /\ undo' = Append(undo, Inverse(cache, snap))
        /\ past' = Append(past, Known(snap))
        /\ future' = Below(future)
        /\ insync' = (insync /\ ~TakesPlace(cache, snap))
        /\ UNCHANGED faults
     \/ /\ FailsAt(steps)
        /\ past' = Unknown(past) /\ future' = Unknown(Front(future))
        /\ UNCHANGED <<cache, undo>>
  /\ UNCHANGED <<deleting, ops>>

-----------------------------------------------------------------------------
(* Projects. *)

\* put_project; add_project does the same to a name it does not know.
PutProject(p) ==
  /\ Free
  /\ ops < MaxOps /\ ops' = ops + 1
  /\ \/ /\ disk' = [disk EXCEPT !.projects = @ \cup {p}]
        /\ cache' = [cache EXCEPT !.projects = @ \cup {p}]
        /\ UNCHANGED <<faults, insync, history>>
     \/ /\ FailsAt(<<disk, disk>>)
        /\ past' = Unknown(past) /\ future' = Unknown(future)
        /\ UNCHANGED cache
  /\ UNCHANGED <<undo, redo, deleting>>

\* set_task_project: add_project, then put_task.  A failure of the latter
\* leaves the project registered.
SetTaskProject(t, p) ==
  LET added  == [disk EXCEPT !.projects = @ \cup {p}]
      cached == [cache EXCEPT !.projects = @ \cup {p}]
      snap   == [kind |-> "task", uid |-> t, val |-> [rev |-> ops + 1, project |-> p]]
      steps  == Steps(added, cached, snap)
  IN
  /\ Free /\ cache.tasks[t] # None /\ p \notin cache.projects
  /\ ops < MaxOps /\ ops' = ops + 1
  /\ \/ /\ disk' = Last(steps)
        /\ cache' = Cached(cached, snap)
        /\ undo' = Append(undo, Inverse(cached, snap))
        /\ redo' = <<>>
        /\ past' = Append(past, Known(snap))
        /\ future' = <<>>
        /\ UNCHANGED <<faults, insync>>
     \/ /\ FailsAt(steps)
        /\ cache' = cached
        /\ past' = Unknown(past) /\ future' = Unknown(future)
        /\ UNCHANGED <<undo, redo>>
  /\ UNCHANGED deleting

RestoreProject(p) ==
  LET restored == [disk EXCEPT !.projects = @ \cup {p}]
      done == [restored EXCEPT !.trashedProjects = @ \ {p}]
  IN
  /\ Free /\ p \in disk.trashedProjects
  /\ \/ /\ disk' = done
        /\ cache' = [cache EXCEPT !.projects = @ \cup {p}]
        /\ UNCHANGED <<faults, insync, history>>
     \/ /\ FailsAt(<<disk, restored, done>>)
        /\ past' = Unknown(past) /\ future' = Unknown(future)
        /\ UNCHANGED cache
  /\ UNCHANGED <<undo, redo, deleting, ops>>

PurgeProject(p) ==
  /\ Free /\ p \in disk.trashedProjects
  /\ disk' = [disk EXCEPT !.trashedProjects = @ \ {p}]
  /\ UNCHANGED <<cache, undo, redo, deleting, ops, faults, insync, history>>

(***************************************************************************)
(* delete_project goes through the cached tasks, then the cached events;   *)
(* an item's cache entry is changed before its file is, and the first      *)
(* error ends it.                                                          *)
(***************************************************************************)
BeginDeleteProject(p) ==
  /\ Free
  /\ ops < MaxOps /\ ops' = ops + 1
  /\ deleting' = p
  /\ UNCHANGED <<disk, cache, undo, redo, faults, insync, history>>

TasksIn(p) == {t \in Tasks : cache.tasks[t] # None /\ cache.tasks[t].project = p}

EventsIn(p) ==
  {es \in Series \X Parts :
     LET v == cache.series[es[1]][es[2]] IN v # None /\ v.project = p}

Rewrite(steps) ==
  \/ disk' = Last(steps) /\ UNCHANGED <<deleting, faults, insync, history>>
  \/ /\ FailsAt(steps)
     /\ deleting' = None
     /\ past' = Unknown(past) /\ future' = Unknown(future)

UnassignTask(t) ==
  /\ deleting # None /\ t \in TasksIn(deleting)
  /\ LET v == [rev |-> ops, project |-> None]
     IN /\ cache' = [cache EXCEPT !.tasks[t] = v]
        /\ Rewrite(<<disk, [disk EXCEPT !.tasks[t] = v]>>)
  /\ UNCHANGED <<undo, redo, ops>>

UnassignEvent(e, s) ==
  /\ deleting # None /\ TasksIn(deleting) = {} /\ <<e, s>> \in EventsIn(deleting)
  /\ LET v == [cache.series[e][s] EXCEPT !.rev = ops, !.project = None]
     IN /\ cache' = [cache EXCEPT !.series[e][s] = v]
        /\ Rewrite(Upsert(disk, e, s, v))
  /\ UNCHANGED <<undo, redo, ops>>

\* A mistake: events are forgotten.
FinishWithoutEvents ==
  /\ deleting # None /\ TasksIn(deleting) = {}
  /\ disk' = [disk EXCEPT !.projects = @ \ {deleting}]
  /\ cache' = [cache EXCEPT !.projects = @ \ {deleting}]
  /\ deleting' = None
  /\ undo' = <<>> /\ redo' = <<>> /\ past' = <<>> /\ future' = <<>>
  /\ UNCHANGED <<ops, faults, insync>>

FinishDeleteProject ==
  LET trashed == IF deleting \in cache.projects
                 THEN [disk EXCEPT !.trashedProjects = @ \cup {deleting}] ELSE disk
      done == [trashed EXCEPT !.projects = @ \ {deleting}]
  IN
  /\ deleting # None /\ TasksIn(deleting) = {} /\ EventsIn(deleting) = {}
  /\ deleting' = None
  /\ \/ /\ disk' = done
        /\ cache' = [cache EXCEPT !.projects = @ \ {deleting}]
        /\ undo' = <<>> /\ redo' = <<>> /\ past' = <<>> /\ future' = <<>>
        /\ UNCHANGED <<faults, insync>>
     \/ /\ FailsAt(<<disk, trashed, done>>)
        /\ past' = Unknown(past) /\ future' = Unknown(future)
        /\ UNCHANGED <<cache, undo, redo>>
  /\ UNCHANGED ops

-----------------------------------------------------------------------------
(* Reload, restart (a crash included), and the other processes. *)

Reload ==
  /\ Free
  /\ cache' = Loaded(disk)
  /\ insync' = TRUE
  /\ UNCHANGED <<disk, undo, redo, deleting, ops, faults, history>>

Open ==
  /\ cache' = Loaded(disk)
  /\ insync' = TRUE
  /\ undo' = <<>> /\ redo' = <<>> /\ past' = <<>> /\ future' = <<>>
  /\ deleting' = None
  /\ UNCHANGED <<disk, ops, faults>>

OthersAct ==
  /\ ops < MaxOps /\ ops' = ops + 1
  /\ insync' = FALSE
  /\ past' = Unknown(past) /\ future' = Unknown(future)
  /\ UNCHANGED <<cache, undo, redo, deleting, faults>>

\* An editor, a sync or another context; a sync deletes without the trash.
OthersPutTask(t, p) ==
  /\ OthersAct
  /\ disk' = [disk EXCEPT !.tasks[t] = [rev |-> ops + 1, project |-> p]]

OthersDeleteTask(t) ==
  /\ OthersAct
  /\ disk.tasks[t] # None
  /\ disk' = [disk EXCEPT !.tasks[t] = None]

OthersPutSeries(e, cal, S, p) ==
  /\ OthersAct
  /\ disk' = [disk EXCEPT !.series[e] =
       [cal |-> cal, parts |-> [s \in Parts |-> IF s \in S
                                                THEN [rev |-> ops + 1, project |-> p]
                                                ELSE None]]]

OthersDeleteSeries(e) ==
  /\ OthersAct
  /\ disk.series[e] # None
  /\ disk' = [disk EXCEPT !.series[e] = None]

-----------------------------------------------------------------------------
TaskStep ==
  \E t \in Tasks :
    \/ DropTask(t) \/ RestoreTask(t) \/ PurgeTask(t)
    \/ \E p \in Option(Projects) : PutTask(t, p)
    \/ \E p \in Projects : SetTaskProject(t, p)

EventStep ==
  \E e \in Series :
    \/ DeleteEvent(e) \/ DeleteAll(e) \/ ShiftSeries(e)
    \/ \E at \in Slots : DeleteThis(e, at) \/ DeleteFollowing(e, at)
    \/ \E cal \in Calendars, p \in Option(Projects) :
         \/ PutEvent(e, cal, p)
         \/ UpdateAll(e, cal, p)
         \/ \E at \in Slots :
              \/ UpdateThis(e, at, cal, p)
              \/ \E new \in Series, carried \in SUBSET
                      {s \in Slots : s >= at /\ cache.series[e][s] # None} :
                   UpdateFollowing(e, at, new, cal, p, carried)

ProjectStep ==
  \E p \in Projects :
    PutProject(p) \/ RestoreProject(p) \/ PurgeProject(p) \/ BeginDeleteProject(p)

DeletionStep ==
  \/ \E t \in Tasks : UnassignTask(t)
  \/ \E e \in Series, s \in Parts : UnassignEvent(e, s)
  \/ FinishDeleteProject

OthersStep ==
  \/ \E t \in Tasks :
       OthersDeleteTask(t) \/ \E p \in Option(Projects) : OthersPutTask(t, p)
  \/ \E e \in Series :
       \/ OthersDeleteSeries(e)
       \/ \E cal \in Calendars, S \in (SUBSET Parts) \ {{}}, p \in Option(Projects) :
            OthersPutSeries(e, cal, S, p)

Next ==
  \/ TaskStep \/ EmptyTrash \/ EventStep \/ ProjectStep \/ DeletionStep
  \/ Undo \/ Redo \/ Reload \/ Open
  \/ OthersStep

Spec == Init /\ [][Next]_vars

-----------------------------------------------------------------------------
TypeOK ==
  /\ disk \in [tasks : [Tasks -> Option(Task)], series : [Series -> Option(SeriesFile)],
               projects : SUBSET Projects, trash : [Tasks -> Option(Task)],
               trashedProjects : SUBSET Projects]
  /\ cache \in [tasks : [Tasks -> Option(Task)],
                series : [Series -> [Parts -> Option(Event)]],
                projects : SUBSET Projects]
  /\ undo \in Seq(Snapshot) /\ redo \in Seq(Snapshot)
  /\ deleting \in Option(Projects)
  /\ ops \in 0..MaxOps
  /\ faults \in 0..MaxFaults
  /\ insync \in BOOLEAN
  /\ Len(past) = Len(undo) /\ Len(future) = Len(redo)

\* The cache is written through: as long as nobody else writes and no file
\* operation fails, it holds what a load of the files would give.  The calendar
\* of a series is known as long as its cached components agree about it: an
\* override may be cached with a calendar of its own (update_occurrence), or
\* with the one its series has left (put_event), and delete_project moves the
\* file there.
Agree(parts) == \A r, s \in Parts :
                  parts[r] # None /\ parts[s] # None => parts[r].cal = parts[s].cal

Matches(c, l) ==
  /\ Agree(c) => c = l
  /\ \A s \in Parts : /\ c[s] = None <=> l[s] = None
                      /\ c[s] # None => Clean(c[s]) = Clean(l[s])

CacheIsDisk ==
  LET uptodate == Loaded(disk)
  IN
  insync =>
    /\ cache.tasks = uptodate.tasks
    /\ cache.projects = uptodate.projects
    /\ \A e \in Series : Matches(cache.series[e], uptodate.series[e])

\* What the cache does not know as it is: tasks, series, the projects' list.
StaleTasks == {t \in Tasks : cache.tasks[t] # disk.tasks[t]}
StaleSeries == {e \in Series : ~Matches(cache.series[e], LoadSeries(disk.series[e]))}
StaleLists == {l \in {"projects"} : cache.projects # disk.projects}

\* upsert_into lets an event take the place of another component of e.
Displaced(e) ==
  \E s \in Parts :
    /\ cache.series[e] # NoParts /\ s # First(cache.series[e])
    /\ cache'.series[e][s] # None
    /\ cache'.series[e] = Replaced(cache.series[e],
                                   [slot |-> s, event |-> cache'.series[e][s]])

AtMostOne(S) == \A x, y \in S : x = y

(***************************************************************************)
(* Whatever else has gone stale before: a step of this context that        *)
(* succeeds makes nothing stale, but for a lone override that loses its    *)
(* place in the cache.  One that fails makes at most the item stale it was *)
(* at, a task, a series or the list of projects, and none whose file it    *)
(* had not changed yet, but in the middle of delete_project (context.rs:   *)
(* 432-445), which changes the cache first.                                *)
(***************************************************************************)
FailuresStay ==
  [][LET tasks  == StaleTasks' \ StaleTasks
         series == StaleSeries' \ StaleSeries
         lists  == StaleLists' \ StaleLists
     IN ~OthersStep =>
       /\ faults' = faults =>
            tasks = {} /\ lists = {} /\ \A e \in series : Displaced(e)
       /\ faults' # faults =>
            /\ AtMostOne(tasks) /\ AtMostOne(series)
            /\ tasks = {} \/ series = {}
            /\ lists = {} \/ (tasks = {} /\ series = {})
            /\ deleting = None =>
                 /\ \A t \in tasks : disk'.tasks[t] # disk.tasks[t]
                 /\ \A e \in series : disk'.series[e] # disk.series[e]]_vars

\* Cache and files tell the same; a failing file operation sets apart the one
\* item it was at, and nothing else.
Consistent == [](TypeOK /\ CacheIsDisk) /\ FailuresStay

\* Undo and redo lead back to the files as they were before what they take
\* back, stamps included, over any sequence of mutations, splits and re-homings
\* - but that a deleted series comes back with its first component only.
SameButLostParts(d, was) ==
  /\ d.tasks = was.tasks
  /\ \A e \in Series :
       \/ d.series[e] = was.series[e]
       \/ /\ d.series[e] # None /\ was.series[e] # None /\ disk.series[e] = None
          /\ d.series[e].cal = was.series[e].cal
          /\ \E s \in Parts : s = First(was.series[e].parts) /\
               d.series[e].parts = [NoParts EXCEPT ![s] = was.series[e].parts[s]]

Undone(same(_, _)) ==
  /\ Undo /\ insync /\ insync' /\ Last(past) # None => same(Live(disk'), Last(past))
  /\ Redo /\ insync /\ insync' /\ Last(future) # None => same(Live(disk'), Last(future))

UndoRestores == [][Undone(SameButLostParts)]_vars

\* As apply's comment has it, "return the inverse snapshot (the prior state)"
\* (context.rs:778): nothing is lost by deleting and undoing.
Same(d, was) == d = was

UndoRestoresAll == [][Undone(Same)]_vars

\* A task that the cache knows as it is leaves the vault only for the trash, as
\* it last was, whichever file operation fails on the way; but for the deletion
\* by another program.
DeletedIsTrashed ==
  [][\A t \in Tasks :
       cache.tasks[t] = disk.tasks[t] /\ disk.tasks[t] # None
         /\ disk'.tasks[t] = None /\ ~OthersDeleteTask(t) =>
       disk'.trash[t] = disk.tasks[t]]_vars

\* A trashed copy goes by a purge or because the task is live again, whatever
\* fails and whatever others do.
TrashKept ==
  [][\A t \in Tasks :
       disk.trash[t] # None /\ disk'.trash[t] = None =>
         disk'.tasks[t] # None \/ PurgeTask(t) \/ EmptyTrash]_vars

\* A deleted project is referred to by no task and no event
\* (context.rs:425-427), if the cache was up to date.
Unreferenced(p) ==
  /\ \A t \in Tasks : disk.tasks[t] # None => disk.tasks[t].project # p
  /\ \A e \in Series : disk.series[e] # None =>
       \A s \in Parts : disk.series[e].parts[s] # None =>
         disk.series[e].parts[s].project # p

Deleted(p) == deleting = p /\ deleting' = None /\ p \notin cache'.projects /\ undo' = <<>>

ProjectUnassigned ==
  [][\A p \in Projects :
       insync /\ FinishDeleteProject /\ Deleted(p) => Unreferenced(p)']_vars

\* The same whatever failed before: a deletion that reports success has
\* unassigned everything.
ProjectUnassignedOnRetry ==
  [][\A p \in Projects : FinishDeleteProject /\ Deleted(p) => Unreferenced(p)']_vars

\* An edit of the series keeps the overrides that are on the disk, also those
\* the cache has not seen: "a plain series edit must not silently drop its
\* overrides" (vdir.rs:120-121).
EditKeepsOverrides ==
  [][\A e \in Series, cal \in Calendars, p \in Option(Projects) :
       PutEvent(e, cal, p) /\ disk.series[e] # None /\ disk'.series[e] # None =>
         \A s \in Slots : disk'.series[e].parts[s] = disk.series[e].parts[s]]_vars

\* Nothing of a user's is dropped for good: no task on its way to the trash or
\* back, no override of a series that is edited.
NothingDropped == DeletedIsTrashed /\ TrashKept /\ EditKeepsOverrides

\* A fresh mutation puts no new series into a subscribed calendar: "mutations
\* on them are refused because the next refresh would wipe them"
\* (context.rs:56-57).
NothingNewInMirrors ==
  [][ops' # ops /\ insync /\ insync' =>
       \A e \in Series :
         disk.series[e] = None /\ disk'.series[e] # None => Writable(disk'.series[e].cal)]_vars
=============================================================================
