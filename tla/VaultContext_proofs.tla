------------------------ MODULE VaultContext_proofs ------------------------
(***************************************************************************)
(* Theorems about VaultContext, for any number of tasks, series, slots,    *)
(* calendars, projects, mutations and failures.                            *)
(*                                                                         *)
(* Everything the context does to the files goes through the steps of one  *)
(* snapshot.  So the proofs rest on what these spare and that their last   *)
(* disk is what the cache then says (SnapshotApplied), and on the one task *)
(* or series that each of them touches, whatever has gone stale before     *)
(* (TaskTouches, SeriesTouches).                                           *)
(*                                                                         *)
(* The last two parts are about the terminal UI, which keeps a context of  *)
(* its own: its reloads (Tui) and the calendar tab (Planner).              *)
(***************************************************************************)
EXTENDS VaultContext, Screens, NaturalsInduction, WellFoundedInduction, TLAPS

Disk == [tasks : [Tasks -> Option(Task)], series : [Series -> Option(SeriesFile)],
         projects : SUBSET Projects, trash : [Tasks -> Option(Task)],
         trashedProjects : SUBSET Projects]

CachedParts == [Parts -> Option(Event)]

Cache == [tasks : [Tasks -> Option(Task)], series : [Series -> CachedParts],
          projects : SUBSET Projects]

\* What CacheIsDisk says of a series and its file, and of a cache and a disk.
Mirrors(c, f) == Matches(c, LoadSeries(f))

InStep(d, c) ==
  /\ c.tasks = d.tasks
  /\ c.projects = d.projects
  /\ \A e \in Series : Mirrors(c.series[e], d.series[e])

\* The stacks of the history are sequences, as long as those of the context.
HistoryOK == past \in Seq(Option(LiveFiles)) /\ future \in Seq(Option(LiveFiles))

IInv == TypeOK /\ HistoryOK /\ CacheIsDisk

-----------------------------------------------------------------------------
(* Components and files. *)

LEMMA Distinct ==
  /\ \A v \in Component : v # None
  /\ \A v \in Event : v # None
  /\ \A f \in SeriesFile : f # None
  /\ \A v \in [slot : Parts, event : Event] : v # None
  BY VaultAssumption DEF Component, Task

LEMMA CleanFits ==
  ASSUME NEW v \in Event
  PROVE  Clean(v) \in Component /\ Clean(v) # None
<1>1. Clean(v) \in Component
  BY DEF Clean, Event, Component
<1> QED
  BY <1>1, Distinct

\* There is a first component where there is any.
LEMMA FirstIsFirst ==
  ASSUME NEW parts \in CachedParts, parts # NoParts
  PROVE  /\ First(parts) \in Parts /\ parts[First(parts)] # None
         /\ \A r \in Parts : parts[r] # None => First(parts) <= r
<1> DEFINE R == {s \in Parts : parts[s] # None}
<1>1. R \subseteq Nat
  BY VaultAssumption DEF Parts, Master
<1>2. \E s \in Parts : parts[s] # None
  <2>1. CASE \A s \in Parts : parts[s] = None
    BY <2>1 DEF NoParts, CachedParts
  <2> QED
    BY <2>1
<1>3. PICK s \in R : \A r \in R : <<r, s>> \notin OpToRel(<, Nat)
  BY <1>1, <1>2, NatLessThanWellFounded, WFMin
<1>4. \A r \in R : s <= r
  <2>1. \A r \in R : ~(r < s)
    BY <1>1, <1>3 DEF OpToRel
  <2> QED
    BY <1>1, <2>1
<1>5. \E x \in Parts : parts[x] # None /\ \A r \in Parts : parts[r] # None => x <= r
  BY <1>4
<1> QED
  BY <1>5 DEF First

LEMMA FirstExists ==
  ASSUME NEW parts \in CachedParts, parts # NoParts
  PROVE  First(parts) \in Parts /\ parts[First(parts)] # None
  BY FirstIsFirst

\* A file mirrored by a cached series, spelt out.
LEMMA MirrorsFile ==
  ASSUME NEW c \in CachedParts, NEW f \in SeriesFile
  PROVE  Mirrors(c, f) <=>
           /\ \A s \in Parts : c[s] = None <=> f.parts[s] = None
           /\ \A s \in Parts : c[s] # None => Clean(c[s]) = f.parts[s]
           /\ Agree(c) => \A s \in Parts : c[s] # None => c[s].cal = f.cal
<1> DEFINE l == LoadSeries(f)
<1>1. f # None /\ f.cal \in Calendars /\ f.parts \in [Parts -> Option(Component)]
  BY Distinct DEF SeriesFile
<1>2. \A s \in Parts : f.parts[s] = None => l[s] = None
  BY <1>1 DEF LoadSeries
<1>3. ASSUME NEW s \in Parts, f.parts[s] # None
      PROVE  /\ l[s] = [rev |-> f.parts[s].rev, project |-> f.parts[s].project,
                        cal |-> f.cal]
             /\ l[s] \in Event /\ l[s] # None
             /\ Clean(l[s]) = f.parts[s]
  <2>1. l[s] = [rev |-> f.parts[s].rev, project |-> f.parts[s].project, cal |-> f.cal]
    BY <1>1, <1>3 DEF LoadSeries
  <2>2. f.parts[s] \in Component
    BY <1>1, <1>3 DEF Option
  <2>3. l[s] \in Event
    BY <1>1, <2>1, <2>2 DEF Component, Event
  <2>4. Clean(l[s]) = f.parts[s]
    BY <2>1, <2>2 DEF Component, Clean
  <2> QED
    BY <2>1, <2>3, <2>4, Distinct
<1>4. ASSUME NEW s \in Parts, f.parts[s] # None, c[s] # None, Clean(c[s]) = f.parts[s]
      PROVE  c[s] = l[s] <=> c[s].cal = f.cal
  <2>1. c[s] \in Event
    BY <1>4 DEF CachedParts, Option
  <2>2. c[s].rev = f.parts[s].rev /\ c[s].project = f.parts[s].project
    BY <1>4, <2>1 DEF Clean
  <2>3. c[s] = [rev |-> c[s].rev, project |-> c[s].project, cal |-> c[s].cal]
    BY <2>1 DEF Event
  <2>4. l[s] = [rev |-> f.parts[s].rev, project |-> f.parts[s].project, cal |-> f.cal]
    BY <1>3, <1>4
  <2> HIDE DEF l
  <2> QED
    BY <2>2, <2>3, <2>4
<1>5. l \in [Parts -> Option(Event)]
  BY <1>2, <1>3 DEF Option, LoadSeries
<1>6. c = l <=> \A s \in Parts : c[s] = l[s]
  BY <1>5 DEF CachedParts
<1> HIDE DEF l
<1>7. Mirrors(c, f) <=>
        /\ Agree(c) => c = l
        /\ \A s \in Parts : c[s] = None <=> l[s] = None
        /\ \A s \in Parts : c[s] # None => Clean(c[s]) = Clean(l[s])
  BY DEF Mirrors, Matches, l
<1> QED
  BY <1>2, <1>3, <1>4, <1>6, <1>7

LEMMA MirrorsNone ==
  /\ Mirrors(NoParts, None)
  /\ \A c \in CachedParts : Mirrors(c, None) => c = NoParts
<1>1. LoadSeries(None) = NoParts
  BY DEF LoadSeries, NoParts
<1>2. Mirrors(NoParts, None)
  BY <1>1 DEF Mirrors, Matches, NoParts
<1>3. ASSUME NEW c \in CachedParts, Mirrors(c, None)
      PROVE  c = NoParts
  BY <1>1, <1>3 DEF Mirrors, Matches, NoParts, CachedParts
<1> QED
  BY <1>2, <1>3

-----------------------------------------------------------------------------
(* The steps of the stores. *)

\* What no file access of a snapshot touches or loses.
Spares(d, x) ==
  /\ x.projects = d.projects
  /\ x.trashedProjects = d.trashedProjects
  /\ \A t \in Tasks : d.trash[t] # None /\ x.trash[t] = None => x.tasks[t] # None

Run(d, w) ==
  \E x, y \in Disk : /\ Spares(d, x) /\ Spares(d, y)
                     /\ w = <<d>> \/ w = <<d, x>> \/ w = <<d, x, y>>

LEMMA RunFits ==
  ASSUME NEW d \in Disk, NEW w, Run(d, w)
  PROVE  /\ w \in Seq(Disk) /\ w # <<>>
         /\ Last(w) \in Disk /\ Spares(d, Last(w))
         /\ \A i \in 1..Len(w) : w[i] \in Disk /\ Spares(d, w[i])
<1>1. PICK x, y \in Disk : /\ Spares(d, x) /\ Spares(d, y)
                           /\ w = <<d>> \/ w = <<d, x>> \/ w = <<d, x, y>>
  BY DEF Run
<1>2. Spares(d, d)
  BY DEF Spares
<1>3. w \in Seq(Disk) /\ w # <<>> /\ Len(w) \in Nat \ {0}
  <2>1. CASE w = <<d>>
    BY <2>1
  <2>2. CASE w = <<d, x>>
    BY <2>2
  <2>3. CASE w = <<d, x, y>>
    BY <2>3
  <2> QED
    BY <1>1, <2>1, <2>2, <2>3
<1>4. \A i \in 1..Len(w) : w[i] = d \/ w[i] = x \/ w[i] = y
  BY <1>1
<1>5. Last(w) = w[Len(w)] /\ Len(w) \in 1..Len(w)
  BY <1>3 DEF Last
<1> QED
  BY <1>1, <1>2, <1>3, <1>4, <1>5

LEMMA WriteSeriesRuns ==
  ASSUME NEW d \in Disk, NEW e \in Series, NEW f \in SeriesFile
  PROVE  /\ Run(d, WriteSeries(d, e, f))
         /\ Last(WriteSeries(d, e, f)) = [d EXCEPT !.series[e] = f]
<1> DEFINE gone    == [d EXCEPT !.series[e] = None]
           written == [d EXCEPT !.series[e] = f]
<1>1. gone \in Disk /\ written \in Disk
  BY DEF Disk, Option
<1>2. Spares(d, gone) /\ Spares(d, written)
  BY DEF Spares, Disk
<1>3. \/ WriteSeries(d, e, f) = <<d, gone, written>>
      \/ WriteSeries(d, e, f) = <<d, written>>
  BY DEF WriteSeries
<1>4. Run(d, WriteSeries(d, e, f))
  <2> HIDE DEF gone, written
  <2> QED
    BY <1>1, <1>2, <1>3 DEF Run
<1> HIDE DEF gone
<1>5. Last(WriteSeries(d, e, f)) = written
  <2> HIDE DEF written
  <2> QED
    BY <1>3 DEF Last
<1> QED
  BY <1>4, <1>5

LEMMA DeleteFileRuns ==
  ASSUME NEW d \in Disk, NEW e \in Series
  PROVE  /\ Run(d, DeleteFile(d, e))
         /\ Last(DeleteFile(d, e)) = [d EXCEPT !.series[e] = None]
<1> DEFINE gone == [d EXCEPT !.series[e] = None]
<1>1. gone \in Disk
  BY DEF Disk, Option
<1>2. Spares(d, gone)
  BY DEF Spares, Disk
<1>3. CASE d.series[e] = None
  <2>1. gone = d
    BY <1>3 DEF Disk
  <2>2. DeleteFile(d, e) = <<d>>
    BY <1>3 DEF DeleteFile
  <2> QED
    BY <1>1, <1>2, <2>1, <2>2 DEF Run, Last
<1>4. CASE d.series[e] # None
  <2>1. DeleteFile(d, e) = <<d, gone>>
    BY <1>4 DEF DeleteFile
  <2>2. Run(d, DeleteFile(d, e))
    BY <1>1, <1>2, <2>1 DEF Run
  <2> HIDE DEF gone
  <2>3. Last(DeleteFile(d, e)) = gone
    BY <2>1 DEF Last
  <2> QED
    BY <2>2, <2>3 DEF gone
<1> QED
  BY <1>3, <1>4

LEMMA WriteTaskRuns ==
  ASSUME NEW d \in Disk, NEW t \in Tasks, NEW v \in Task
  PROVE  /\ Run(d, WriteTask(d, t, v))
         /\ Last(WriteTask(d, t, v)).tasks = [d.tasks EXCEPT ![t] = v]
         /\ Last(WriteTask(d, t, v)).series = d.series
<1> DEFINE written == [d EXCEPT !.tasks[t] = v]
           purged  == [written EXCEPT !.trash[t] = None]
<1>0. v # None
  BY VaultAssumption
<1>1. written \in Disk
  BY DEF Disk, Option
<1>2. purged \in Disk
  BY <1>1 DEF Disk, Option
<1>3. /\ written.tasks = [d.tasks EXCEPT ![t] = v] /\ written.series = d.series
      /\ purged.tasks = [d.tasks EXCEPT ![t] = v] /\ purged.series = d.series
  BY DEF Disk
<1>4. Spares(d, written)
  BY DEF Spares, Disk
<1>5. Spares(d, purged)
  BY <1>0 DEF Spares, Disk
<1>6. WriteTask(d, t, v) = <<d, written>> \/ WriteTask(d, t, v) = <<d, written, purged>>
  BY DEF WriteTask
<1> HIDE DEF written, purged
<1>7. Run(d, WriteTask(d, t, v))
  BY <1>1, <1>2, <1>4, <1>5, <1>6 DEF Run
<1>8. Last(WriteTask(d, t, v)) = written \/ Last(WriteTask(d, t, v)) = purged
  BY <1>6 DEF Last
<1> QED
  BY <1>3, <1>7, <1>8

LEMMA DeleteTaskRuns ==
  ASSUME NEW d \in Disk, NEW c \in Cache, NEW t \in Tasks
  PROVE  LET last == Last(DeleteTask(d, c, t))
         IN /\ Run(d, DeleteTask(d, c, t))
            /\ last.tasks = [d.tasks EXCEPT ![t] = None]
            /\ last.series = d.series
            /\ c.tasks[t] # None => last.trash[t] = c.tasks[t]
<1> DEFINE trashed == IF c.tasks[t] = None THEN d
                      ELSE [d EXCEPT !.trash[t] = c.tasks[t]]
           done    == [trashed EXCEPT !.tasks[t] = None]
<1>0. c.tasks[t] \in Option(Task)
  BY DEF Cache
<1>1. trashed \in Disk
  BY <1>0 DEF Disk
<1>2. done \in Disk
  BY <1>1 DEF Disk, Option
<1>3. trashed.tasks = d.tasks /\ trashed.series = d.series
  BY DEF Disk
<1>4. done.tasks = [d.tasks EXCEPT ![t] = None] /\ done.series = d.series
  BY <1>1, <1>3 DEF Disk
<1>5. c.tasks[t] # None => done.trash[t] = c.tasks[t]
  BY <1>1 DEF Disk
<1>6. Spares(d, trashed)
  BY DEF Spares, Disk
<1>7. done.trash = trashed.trash /\ done.projects = trashed.projects
      /\ done.trashedProjects = trashed.trashedProjects
  BY <1>1 DEF Disk
<1>8. \A u \in Tasks : d.trash[u] # None => trashed.trash[u] # None
  BY <1>0 DEF Disk
<1>9. DeleteTask(d, c, t) = <<d, trashed, done>>
  BY DEF DeleteTask
<1> HIDE DEF trashed, done
<1>10. Spares(d, done)
  BY <1>6, <1>7, <1>8 DEF Spares
<1>11. Last(DeleteTask(d, c, t)) = done
  BY <1>9 DEF Last
<1> QED
  BY <1>1, <1>2, <1>4, <1>5, <1>6, <1>9, <1>10, <1>11 DEF Run

-----------------------------------------------------------------------------
(* One series: a component put, and all of them. *)

Siblings(f) == IF f = None THEN NoParts ELSE f.parts

FileWith(f, s, v) == [cal |-> v.cal, parts |-> [Siblings(f) EXCEPT ![s] = Clean(v)]]

LEMMA PutMirrors ==
  ASSUME NEW c \in CachedParts, NEW f \in Option(SeriesFile), NEW s \in Parts,
         NEW v \in Event
  PROVE  /\ FileWith(f, s, v) \in SeriesFile
         /\ Mirrors(c, f) => Mirrors([c EXCEPT ![s] = v], FileWith(f, s, v))
<1> DEFINE new  == [c EXCEPT ![s] = v]
           file == FileWith(f, s, v)
           sib  == Siblings(f)
<1>1. sib \in [Parts -> Option(Component)]
  BY DEF Siblings, Option, SeriesFile, NoParts
<1>2. Clean(v) \in Component /\ Clean(v) # None /\ v # None /\ v.cal \in Calendars
  BY CleanFits, Distinct DEF Event
<1>3. file.cal = v.cal /\ file.parts = [sib EXCEPT ![s] = Clean(v)]
  BY DEF FileWith
<1>4. file.parts \in [Parts -> Option(Component)] /\ file.parts[s] # None
  BY <1>1, <1>2, <1>3 DEF Option
<1>5. file \in SeriesFile
  <2>1. file.parts # NoParts
    BY <1>4 DEF NoParts
  <2> QED
    BY <1>2, <1>3, <1>4, <2>1 DEF SeriesFile, FileWith
<1>6. new \in CachedParts
  BY DEF CachedParts, Option
<1>7. ASSUME Mirrors(c, f)
      PROVE  Mirrors(new, file)
  <2>1. \A r \in Parts : /\ c[r] = None <=> sib[r] = None
                         /\ c[r] # None => Clean(c[r]) = sib[r]
    <3>1. CASE f = None
      BY <1>7, <3>1, MirrorsNone DEF Siblings, NoParts
    <3>2. CASE f # None
      <4>1. f \in SeriesFile
        BY <3>2 DEF Option
      <4> QED
        BY <1>7, <3>2, <4>1, MirrorsFile DEF Siblings
    <3> QED
      BY <3>1, <3>2
  <2>2. \A r \in Parts : r # s => new[r] = c[r] /\ file.parts[r] = sib[r]
    BY <1>1, <1>3 DEF CachedParts
  <2>3. new[s] = v /\ file.parts[s] = Clean(v)
    BY <1>1, <1>3 DEF CachedParts
  <2> HIDE DEF new, file, sib
  <2>4. \A r \in Parts : new[r] = None <=> file.parts[r] = None
    BY <1>2, <2>1, <2>2, <2>3
  <2>5. \A r \in Parts : new[r] # None => Clean(new[r]) = file.parts[r]
    BY <1>2, <2>1, <2>2, <2>3
  <2>6. Agree(new) => \A r \in Parts : new[r] # None => new[r].cal = file.cal
    BY <1>2, <1>3, <2>3 DEF Agree
  <2> QED
    BY <1>5, <1>6, <2>4, <2>5, <2>6, MirrorsFile
<1> QED
  BY <1>5, <1>7

FileOf(parts) ==
  [cal |-> parts[First(parts)].cal,
   parts |-> [s \in Parts |-> IF parts[s] = None THEN None ELSE Clean(parts[s])]]

LEMMA SeriesMirrors ==
  ASSUME NEW parts \in CachedParts, parts # NoParts
  PROVE  FileOf(parts) \in SeriesFile /\ Mirrors(parts, FileOf(parts))
<1> DEFINE file == FileOf(parts)
           one  == First(parts)
<1>1. one \in Parts /\ parts[one] # None
  BY FirstExists
<1>2. \A s \in Parts : parts[s] # None => parts[s] \in Event
  BY DEF CachedParts, Option
<1>3. file.cal = parts[one].cal /\ parts[one].cal \in Calendars
  BY <1>1, <1>2 DEF FileOf, Event
<1>4. \A s \in Parts : /\ parts[s] = None => file.parts[s] = None
                       /\ parts[s] # None => /\ file.parts[s] = Clean(parts[s])
                                             /\ file.parts[s] \in Component
                                             /\ file.parts[s] # None
  BY <1>2, CleanFits DEF FileOf
<1>5. file.parts \in [Parts -> Option(Component)]
  BY <1>4 DEF FileOf, Option
<1>6. file.parts # NoParts
  BY <1>1, <1>4 DEF NoParts
<1>7. file \in SeriesFile
  BY <1>3, <1>5, <1>6 DEF SeriesFile, FileOf
<1>8. Agree(parts) => \A s \in Parts : parts[s] # None => parts[s].cal = file.cal
  <2> HIDE DEF one
  <2> QED
    BY <1>1, <1>3 DEF Agree
<1> HIDE DEF file
<1> QED
  BY <1>4, <1>7, <1>8, MirrorsFile DEF file

-----------------------------------------------------------------------------
(* What applying a snapshot does to the files and to the cache. *)

\* A series that mirrored its file does so again, whatever the others do.
Settles(d, c, snap) ==
  /\ snap.kind # "task" /\ ~TakesPlace(c, snap)
  /\ Mirrors(c.series[snap.uid], d.series[snap.uid])
  => Mirrors(Cached(c, snap).series[snap.uid], Last(Steps(d, c, snap)).series[snap.uid])

Applied(d, c, snap) ==
  LET steps == Steps(d, c, snap)
  IN /\ Run(d, steps)
     /\ Cached(c, snap) \in Cache
     /\ InStep(d, c) /\ ~TakesPlace(c, snap) => InStep(Last(steps), Cached(c, snap))
     /\ Settles(d, c, snap)

LEMMA TaskApplied ==
  ASSUME NEW d \in Disk, NEW c \in Cache, NEW snap \in TaskSnapshot
  PROVE  Applied(d, c, snap)
<1> DEFINE t == snap.uid
           last == Last(Steps(d, c, snap))
<1>1. snap.kind = "task" /\ t \in Tasks /\ snap.val \in Option(Task)
  BY DEF TaskSnapshot
<1>2. Cached(c, snap) = [c EXCEPT !.tasks[t] = snap.val]
  BY <1>1 DEF Cached
<1>3. Cached(c, snap) \in Cache
  BY <1>1, <1>2 DEF Cache
<1>4. /\ Run(d, Steps(d, c, snap))
      /\ last.tasks = [d.tasks EXCEPT ![t] = snap.val]
      /\ last.series = d.series
      /\ snap.val = None /\ c.tasks[t] # None => last.trash[t] = c.tasks[t]
  <2>1. CASE snap.val # None
    <3>1. Steps(d, c, snap) = WriteTask(d, t, snap.val)
      BY <1>1, <2>1 DEF Steps
    <3>2. snap.val \in Task
      BY <1>1, <2>1 DEF Option
    <3> QED
      BY <1>1, <2>1, <3>1, <3>2, WriteTaskRuns
  <2>2. CASE snap.val = None
    <3>1. Steps(d, c, snap) = DeleteTask(d, c, t)
      BY <1>1, <2>2 DEF Steps
    <3> QED
      BY <1>1, <2>2, <3>1, DeleteTaskRuns
  <2> QED
    BY <2>1, <2>2
<1>5. last.projects = d.projects
  BY <1>4, RunFits DEF Spares
<1> HIDE DEF last, t
<1>6. InStep(d, c) => InStep(last, Cached(c, snap))
  <2>1. /\ Cached(c, snap).tasks = [c.tasks EXCEPT ![t] = snap.val]
        /\ Cached(c, snap).series = c.series /\ Cached(c, snap).projects = c.projects
    BY <1>2 DEF Cache
  <2> QED
    BY <1>4, <1>5, <2>1 DEF InStep
<1>7. Settles(d, c, snap)
  BY <1>1 DEF Settles
<1> QED
  BY <1>3, <1>4, <1>6, <1>7 DEF Applied, last

\* A snapshot of an event or a series changes one series and its file.
LEMMA SeriesChanged ==
  ASSUME NEW d \in Disk, NEW c \in Cache, NEW snap, NEW e \in Series, snap.uid = e,
         NEW f \in Option(SeriesFile), NEW new \in CachedParts,
         Run(d, Steps(d, c, snap)),
         Last(Steps(d, c, snap)) = [d EXCEPT !.series[e] = f],
         Cached(c, snap) = [c EXCEPT !.series[e] = new],
         Mirrors(c.series[e], d.series[e]) /\ ~TakesPlace(c, snap) => Mirrors(new, f)
  PROVE  Applied(d, c, snap)
<1> DEFINE last == Last(Steps(d, c, snap))
           next == Cached(c, snap)
<1>1. /\ last.tasks = d.tasks /\ last.projects = d.projects
      /\ last.series = [d.series EXCEPT ![e] = f]
  BY DEF Disk
<1>2. /\ next.tasks = c.tasks /\ next.projects = c.projects
      /\ next.series = [c.series EXCEPT ![e] = new]
  BY DEF Cache
<1>3. next \in Cache
  BY DEF Cache
<1> HIDE DEF last, next
<1>4. InStep(d, c) /\ ~TakesPlace(c, snap) => InStep(last, next)
  <2>1. ASSUME InStep(d, c), ~TakesPlace(c, snap), NEW x \in Series
        PROVE  Mirrors(next.series[x], last.series[x])
    <3>1. c.series \in [Series -> CachedParts] /\ d.series \in [Series -> Option(SeriesFile)]
      BY DEF Cache, Disk
    <3>2. CASE x = e
      BY <1>1, <1>2, <2>1, <3>1, <3>2 DEF InStep
    <3>3. CASE x # e
      BY <1>1, <1>2, <2>1, <3>1, <3>3 DEF InStep
    <3> QED
      BY <3>2, <3>3
  <2> QED
    BY <1>1, <1>2, <2>1 DEF InStep
<1>5. Settles(d, c, snap)
  <2>1. last.series[e] = f /\ next.series[e] = new
    BY <1>1, <1>2 DEF Disk, Cache
  <2> QED
    BY <2>1 DEF Settles, last, next
<1> QED
  BY <1>3, <1>4, <1>5 DEF Applied, last, next

LEMMA SeriesGone ==
  ASSUME NEW d \in Disk, NEW c \in Cache, NEW snap, NEW e \in Series, snap.uid = e,
         Steps(d, c, snap) = DeleteFile(d, e),
         Cached(c, snap) = [c EXCEPT !.series[e] = NoParts]
  PROVE  Applied(d, c, snap)
<1>1. NoParts \in CachedParts /\ None \in Option(SeriesFile)
  BY DEF NoParts, CachedParts, Option
<1> QED
  BY <1>1, DeleteFileRuns, SeriesChanged, MirrorsNone

LEMMA EventPutApplied ==
  ASSUME NEW d \in Disk, NEW c \in Cache, NEW snap \in EventSnapshot, snap.val # None
  PROVE  Applied(d, c, snap)
<1> DEFINE e   == snap.uid
           s   == snap.val.slot
           v   == snap.val.event
           old == c.series[e]
           new == Replaced(old, snap.val)
           f   == FileWith(d.series[e], s, v)
<1>1. /\ snap.kind = "event" /\ e \in Series
      /\ snap.val \in [slot : Parts, event : Event]
  BY DEF EventSnapshot, Option
<1>2. s \in Parts /\ v \in Event /\ old \in CachedParts
      /\ d.series[e] \in Option(SeriesFile)
  BY <1>1 DEF Cache, Disk
<1>3. Cached(c, snap) = [c EXCEPT !.series[e] = new]
  BY <1>1 DEF Cached
<1>4. Steps(d, c, snap) = WriteSeries(d, e, f)
  <2>1. Steps(d, c, snap) = Upsert(d, e, s, v)
    BY <1>1 DEF Steps
  <2> QED
    BY <2>1 DEF Upsert, FileWith, Siblings
<1>5. f \in SeriesFile
  BY <1>2, PutMirrors
<1>6. new \in CachedParts
  BY <1>2 DEF Replaced, CachedParts, Option
<1>7. ~TakesPlace(c, snap) => new = [old EXCEPT ![s] = v]
  <2>1. CASE old = NoParts
    BY <2>1 DEF Replaced
  <2>2. CASE old # NoParts /\ First(old) = s
    BY <1>2, <2>2 DEF Replaced, CachedParts
  <2> QED
    BY <1>1, <2>1, <2>2 DEF TakesPlace
<1>8. Mirrors(old, d.series[e]) /\ ~TakesPlace(c, snap) => Mirrors(new, f)
  <2> HIDE DEF f, new, old
  <2>1. Mirrors(old, d.series[e]) => Mirrors([old EXCEPT ![s] = v], f)
    BY <1>2, PutMirrors DEF f
  <2> QED
    BY <1>7, <2>1
<1>9. /\ Run(d, Steps(d, c, snap))
      /\ Last(Steps(d, c, snap)) = [d EXCEPT !.series[e] = f]
  <2> HIDE DEF f
  <2> QED
    BY <1>1, <1>4, <1>5, WriteSeriesRuns
<1>10. f \in Option(SeriesFile) /\ snap.uid = e
  BY <1>5 DEF Option
<1> HIDE DEF f, new, e
<1> QED
  BY <1>1, <1>3, <1>6, <1>8, <1>9, <1>10, SeriesChanged

LEMMA SeriesPutApplied ==
  ASSUME NEW d \in Disk, NEW c \in Cache, NEW snap \in SeriesSnapshot, snap.val # NoParts
  PROVE  Applied(d, c, snap)
<1> DEFINE e == snap.uid
           f == FileOf(snap.val)
<1>1. snap.kind = "series" /\ e \in Series /\ snap.val \in CachedParts
  BY DEF SeriesSnapshot, CachedParts
<1>2. Cached(c, snap) = [c EXCEPT !.series[e] = snap.val]
  BY <1>1 DEF Cached
<1>3. Steps(d, c, snap) = WriteSeries(d, e, f)
  <2>1. Steps(d, c, snap) = PutSeries(d, e, snap.val)
    BY <1>1 DEF Steps
  <2> QED
    BY <2>1 DEF PutSeries, FileOf
<1>4. f \in SeriesFile /\ Mirrors(snap.val, f)
  BY <1>1, SeriesMirrors
<1>5. f \in Option(SeriesFile) /\ snap.uid = e
  BY <1>4 DEF Option
<1> HIDE DEF f, e
<1>6. /\ Run(d, Steps(d, c, snap))
      /\ Last(Steps(d, c, snap)) = [d EXCEPT !.series[e] = f]
  BY <1>1, <1>3, <1>4, WriteSeriesRuns
<1> QED
  BY <1>1, <1>2, <1>4, <1>5, <1>6, SeriesChanged

LEMMA SnapshotApplied ==
  ASSUME NEW d \in Disk, NEW c \in Cache, NEW snap \in Snapshot
  PROVE  Applied(d, c, snap)
<1>1. CASE snap \in TaskSnapshot
  BY <1>1, TaskApplied
<1>2. CASE snap \in EventSnapshot /\ snap.val # None
  BY <1>2, EventPutApplied
<1>3. CASE snap \in EventSnapshot /\ snap.val = None
  <2>1. snap.kind = "event" /\ snap.uid \in Series
    BY <1>3 DEF EventSnapshot
  <2>2. /\ Steps(d, c, snap) = DeleteFile(d, snap.uid)
        /\ Cached(c, snap) = [c EXCEPT !.series[snap.uid] = NoParts]
    BY <1>3, <2>1 DEF Steps, Cached
  <2> QED
    BY <2>1, <2>2, SeriesGone
<1>4. CASE snap \in SeriesSnapshot /\ snap.val # NoParts
  BY <1>4, SeriesPutApplied
<1>5. CASE snap \in SeriesSnapshot /\ snap.val = NoParts
  <2>1. snap.kind = "series" /\ snap.uid \in Series
    BY <1>5 DEF SeriesSnapshot
  <2>2. /\ Steps(d, c, snap) = DeleteFile(d, snap.uid)
        /\ Cached(c, snap) = [c EXCEPT !.series[snap.uid] = NoParts]
    BY <1>5, <2>1 DEF Steps, Cached
  <2> QED
    BY <2>1, <2>2, SeriesGone
<1> QED
  BY <1>1, <1>2, <1>3, <1>4, <1>5 DEF Snapshot

-----------------------------------------------------------------------------
(* The entries of the stacks. *)

LEMMA FirstFits ==
  ASSUME NEW parts \in CachedParts
  PROVE  Prior(parts) \in Option([slot : Parts, event : Event])
<1>1. CASE parts = NoParts
  BY <1>1 DEF Prior, Option
<1>2. CASE parts # NoParts
  <2>1. First(parts) \in Parts /\ parts[First(parts)] \in Event
    BY <1>2, FirstExists DEF CachedParts, Option
  <2> QED
    BY <1>2, <2>1 DEF Prior, Option
<1> QED
  BY <1>1, <1>2

LEMMA InverseFits ==
  ASSUME NEW c \in Cache, NEW snap \in Snapshot
  PROVE  Inverse(c, snap) \in Snapshot
<1>1. CASE snap \in TaskSnapshot
  <2>1. Inverse(c, snap) = [snap EXCEPT !.val = c.tasks[snap.uid]]
    BY <1>1 DEF TaskSnapshot, Inverse
  <2>2. c.tasks[snap.uid] \in Option(Task)
    BY <1>1 DEF TaskSnapshot, Cache
  <2> QED
    BY <1>1, <2>1, <2>2 DEF TaskSnapshot, Snapshot
<1>2. CASE snap \in EventSnapshot
  <2>1. Inverse(c, snap) = [snap EXCEPT !.val = Prior(c.series[snap.uid])]
    BY <1>2 DEF EventSnapshot, Inverse
  <2>2. c.series[snap.uid] \in CachedParts
    BY <1>2 DEF EventSnapshot, Cache
  <2> QED
    BY <1>2, <2>1, <2>2, FirstFits DEF EventSnapshot, Snapshot
<1>3. CASE snap \in SeriesSnapshot
  <2>1. Inverse(c, snap) = [snap EXCEPT !.val = c.series[snap.uid]]
    BY <1>3 DEF SeriesSnapshot, Inverse
  <2>2. c.series[snap.uid] \in CachedParts
    BY <1>3 DEF SeriesSnapshot, Cache
  <2> QED
    BY <1>3, <2>1, <2>2 DEF SeriesSnapshot, Snapshot, CachedParts
<1> QED
  BY <1>1, <1>2, <1>3 DEF Snapshot

LEMMA StampedSeries ==
  ASSUME NEW snap \in SeriesSnapshot, NEW now \in Nat
  PROVE  Stamped(snap, now) \in SeriesSnapshot
<1> DEFINE new == [s \in Parts |-> IF snap.val[s] = None THEN None
                                   ELSE [snap.val[s] EXCEPT !.rev = now]]
<1>1. Stamped(snap, now) = [snap EXCEPT !.val = new]
  BY DEF SeriesSnapshot, Stamped
<1>2. \A s \in Parts : snap.val[s] # None => [snap.val[s] EXCEPT !.rev = now] \in Event
  BY DEF SeriesSnapshot, Option, Event
<1>3. new \in [Parts -> Option(Event)]
  BY <1>2 DEF Option
<1> QED
  BY <1>1, <1>3 DEF SeriesSnapshot

LEMMA StampedFits ==
  ASSUME NEW snap \in Snapshot, NEW now \in Nat
  PROVE  Stamped(snap, now) \in Snapshot
<1>1. CASE snap \in TaskSnapshot
  <2>1. CASE snap.val # None
    <3>1. Stamped(snap, now) = [snap EXCEPT !.val.rev = now]
      BY <1>1, <2>1 DEF TaskSnapshot, Stamped
    <3>2. snap.val \in Task
      BY <1>1, <2>1 DEF TaskSnapshot, Option
    <3>3. [snap.val EXCEPT !.rev = now] \in Task
      BY <3>2 DEF Task
    <3> QED
      BY <1>1, <3>1, <3>3 DEF TaskSnapshot, Snapshot, Option
  <2>2. CASE snap.val = None
    <3>1. Stamped(snap, now) = snap
      BY <1>1, <2>2 DEF TaskSnapshot, Stamped
    <3> QED
      BY <3>1
  <2> QED
    BY <2>1, <2>2
<1>2. CASE snap \in EventSnapshot
  <2>1. CASE snap.val # None
    <3>1. Stamped(snap, now) = [snap EXCEPT !.val.event.rev = now]
      BY <1>2, <2>1 DEF EventSnapshot, Stamped
    <3>2. snap.val \in [slot : Parts, event : Event]
      BY <1>2, <2>1 DEF EventSnapshot, Option
    <3>3. [snap.val EXCEPT !.event.rev = now] \in [slot : Parts, event : Event]
      BY <3>2 DEF Event
    <3> QED
      BY <1>2, <3>1, <3>3 DEF EventSnapshot, Snapshot, Option
  <2>2. CASE snap.val = None
    <3>1. Stamped(snap, now) = snap
      BY <1>2, <2>2 DEF EventSnapshot, Stamped
    <3> QED
      BY <3>1
  <2> QED
    BY <2>1, <2>2
<1>3. CASE snap \in SeriesSnapshot
  BY <1>3, StampedSeries DEF Snapshot
<1> QED
  BY <1>1, <1>2, <1>3 DEF Snapshot

-----------------------------------------------------------------------------
(* The history. *)

Known0 == Option(LiveFiles)

LEMMA HistoryFits ==
  /\ \A d \in Disk : Live(d) \in Known0
  /\ None \in Known0
  /\ \A seq \in Seq(Known0) : Unknown(seq) \in Seq(Known0) /\ Len(Unknown(seq)) = Len(seq)
<1>1. \A d \in Disk : Live(d) \in Known0
  BY DEF Disk, Live, LiveFiles, Known0, Option
<1>2. None \in Known0
  BY DEF Known0, Option
<1>3. ASSUME NEW seq \in Seq(Known0)
      PROVE  Unknown(seq) \in Seq(Known0) /\ Len(Unknown(seq)) = Len(seq)
  <2>1. Unknown(seq) = [i \in 1..Len(seq) |-> None] /\ Len(seq) \in Nat
    BY DEF Unknown
  <2> QED
    BY <1>2, <2>1
<1> QED
  BY <1>1, <1>2, <1>3

LEMMA FrontFits ==
  ASSUME NEW S, NEW seq \in Seq(S), seq # <<>>
  PROVE  /\ Front(seq) \in Seq(S) /\ Len(Front(seq)) = Len(seq) - 1
         /\ Last(seq) \in S
<1>1. Len(seq) \in Nat \ {0}
  OBVIOUS
<1>2. Last(seq) \in S
  BY <1>1 DEF Last
<1>3. /\ SubSeq(seq, 1, Len(seq) - 1) \in Seq(S)
      /\ Len(SubSeq(seq, 1, Len(seq) - 1)) = Len(seq) - 1
  BY <1>1
<1> QED
  BY <1>2, <1>3 DEF Front

-----------------------------------------------------------------------------
(* What every action has to keep. *)

StacksOK ==
  /\ undo \in Seq(Snapshot) /\ redo \in Seq(Snapshot)
  /\ past \in Seq(Known0) /\ future \in Seq(Known0)
  /\ Len(past) = Len(undo) /\ Len(future) = Len(redo)

CountsOK ==
  /\ deleting \in Option(Projects)
  /\ ops \in 0..MaxOps
  /\ faults \in 0..MaxFaults
  /\ insync \in BOOLEAN

Good ==
  /\ disk \in Disk /\ cache \in Cache
  /\ StacksOK /\ CountsOK
  /\ insync => InStep(disk, cache)

LEMMA GoodIs == IInv <=> Good
<1>1. CacheIsDisk <=> (insync => InStep(disk, cache))
  <2>1. /\ Loaded(disk).tasks = disk.tasks /\ Loaded(disk).projects = disk.projects
        /\ \A e \in Series : Loaded(disk).series[e] = LoadSeries(disk.series[e])
    BY DEF Loaded
  <2>2. \A e \in Series : Mirrors(cache.series[e], disk.series[e])
                            <=> Matches(cache.series[e], Loaded(disk).series[e])
    BY <2>1 DEF Mirrors
  <2> QED
    BY <2>1, <2>2 DEF CacheIsDisk, InStep
<1> QED
  BY <1>1 DEF IInv, Good, TypeOK, HistoryOK, StacksOK, CountsOK, Disk, Cache,
              CachedParts, Known0

\* What a step may not lose: a trashed copy without the task being live again.
TrashSafe ==
  \A t \in Tasks : disk.trash[t] # None /\ disk'.trash[t] = None => disk'.tasks[t] # None

Safe == Good' /\ TrashSafe

LEMMA FailsFit ==
  ASSUME NEW d \in Disk, NEW steps, Run(d, steps), FailsAt(steps), CountsOK
  PROVE  /\ disk' \in Disk /\ Spares(d, disk')
         /\ faults' \in 0..MaxFaults /\ insync' = FALSE
<1>1. PICK i \in 1..(Len(steps) - 1) : disk' = steps[i]
  BY DEF FailsAt
<1>2. steps \in Seq(Disk) /\ \A j \in 1..Len(steps) : steps[j] \in Disk /\ Spares(d, steps[j])
  BY RunFits
<1>3. i \in 1..Len(steps)
  BY <1>2
<1>4. faults' \in 0..MaxFaults /\ insync' = FALSE
  BY VaultAssumption DEF FailsAt, CountsOK
<1> QED
  BY <1>1, <1>2, <1>3, <1>4

\* A failure that leaves the stacks, whatever was cached before it.
LEMMA FailureSafe ==
  ASSUME Good, NEW d \in Disk, NEW steps, Run(d, steps), FailsAt(steps),
         d.tasks = disk.tasks, d.trash = disk.trash,
         cache' \in Cache, StacksOK', deleting' \in Option(Projects), ops' \in 0..MaxOps
  PROVE  Safe
<1>1. /\ disk' \in Disk /\ Spares(d, disk')
      /\ faults' \in 0..MaxFaults /\ insync' = FALSE
  BY FailsFit DEF Good
<1>2. TrashSafe
  BY <1>1 DEF Spares, TrashSafe
<1> QED
  BY <1>1, <1>2 DEF Safe, Good, CountsOK

\* A success: the last disk of a snapshot's steps, and what is then cached;
\* the snapshot is applied to d and c, which something quiet may have led to.
LEMMA SuccessSafe ==
  ASSUME Good, NEW snap \in Snapshot, NEW d \in Disk, NEW c \in Cache,
         d.tasks = disk.tasks, d.trash = disk.trash,
         insync => InStep(d, c),
         disk' = Last(Steps(d, c, snap)),
         cache' = Cached(c, snap),
         insync' \in BOOLEAN, insync' => insync /\ ~TakesPlace(c, snap),
         StacksOK', deleting' \in Option(Projects), ops' \in 0..MaxOps,
         faults' \in 0..MaxFaults
  PROVE  Safe
<1>1. Applied(d, c, snap)
  BY SnapshotApplied
<1>2. /\ Run(d, Steps(d, c, snap))
      /\ cache' \in Cache
      /\ InStep(d, c) /\ ~TakesPlace(c, snap) => InStep(disk', cache')
  BY <1>1 DEF Applied
<1>3. disk' \in Disk /\ Spares(d, disk')
  BY <1>2, RunFits
<1>4. TrashSafe
  BY <1>3 DEF TrashSafe, Spares
<1>5. (insync => InStep(disk, cache))'
  BY <1>2
<1> QED
  BY <1>2, <1>3, <1>4, <1>5 DEF Safe, Good, CountsOK

LEMMA KnownFits ==
  ASSUME Good, NEW snap
  PROVE  Known(snap) \in Known0
  BY HistoryFits DEF Known, Good

LEMMA UnknownStacks ==
  ASSUME Good, past' = Unknown(past), future' = Unknown(future), UNCHANGED <<undo, redo>>
  PROVE  StacksOK'
  BY HistoryFits DEF Good, StacksOK

LEMMA RecordSafe ==
  ASSUME Good, NEW fresh \in Snapshot, Record(fresh)
  PROVE  Safe
<1> DEFINE snap  == Stamped(fresh, ops + 1)
           steps == Steps(disk, cache, snap)
<1>1. ops' \in 0..MaxOps /\ ops + 1 \in Nat /\ deleting' \in Option(Projects)
  BY VaultAssumption DEF Record, Good, CountsOK
<1>2. snap \in Snapshot
  BY <1>1, StampedFits
<1>3. disk \in Disk /\ cache \in Cache
  BY DEF Good
<1> HIDE DEF snap
<1>4. CASE /\ disk' = Last(steps)
           /\ cache' = Cached(cache, snap)
           /\ undo' = Append(undo, Inverse(cache, snap))
           /\ redo' = <<>>
           /\ past' = Append(past, Known(snap))
           /\ future' = <<>>
           /\ insync' = (insync /\ ~TakesPlace(cache, snap))
           /\ UNCHANGED faults
  <2>1. Inverse(cache, snap) \in Snapshot /\ Known(snap) \in Known0
    BY <1>2, <1>3, InverseFits, KnownFits
  <2>2. StacksOK'
    BY <1>4, <2>1 DEF Good, StacksOK
  <2>3. faults' \in 0..MaxFaults /\ insync' \in BOOLEAN
    BY <1>4 DEF Good, CountsOK
  <2>4. insync' => insync /\ ~TakesPlace(cache, snap)
    BY <1>4
  <2> QED
    BY <1>1, <1>2, <1>3, <1>4, <2>2, <2>3, <2>4, SuccessSafe DEF Good
<1>5. CASE /\ FailsAt(steps)
           /\ past' = Unknown(past) /\ future' = Unknown(future)
           /\ UNCHANGED <<cache, undo, redo>>
  <2>1. StacksOK'
    BY <1>5, UnknownStacks
  <2>2. Run(disk, steps)
    BY <1>2, <1>3, SnapshotApplied DEF Applied
  <2>3. cache' \in Cache
    BY <1>3, <1>5
  <2> HIDE DEF steps
  <2> QED
    BY <1>1, <1>3, <1>5, <2>1, <2>2, <2>3, FailureSafe
<1> QED
  BY <1>4, <1>5 DEF Record, snap

-----------------------------------------------------------------------------
(* The actions that record one snapshot. *)

RecordsOne == Free /\ \E fresh \in Snapshot : Record(fresh)

LEMMA TaskRecords ==
  ASSUME Good, NEW t \in Tasks,
         \/ DropTask(t) \/ RestoreTask(t) \/ \E p \in Option(Projects) : PutTask(t, p)
  PROVE  RecordsOne
<1> DEFINE snapOf(v) == [kind |-> "task", uid |-> t, val |-> v]
<1>1. \A v \in Option(Task) : snapOf(v) \in Snapshot
  BY DEF Snapshot, TaskSnapshot
<1>2. CASE DropTask(t)
  <2>1. None \in Option(Task)
    BY DEF Option
  <2> QED
    BY <1>1, <1>2, <2>1 DEF RecordsOne, Free, DropTask
<1>3. CASE RestoreTask(t)
  <2>1. disk.trash[t] \in Option(Task)
    BY DEF Good, Disk
  <2> QED
    BY <1>1, <1>3, <2>1 DEF RecordsOne, Free, RestoreTask
<1>4. ASSUME NEW p \in Option(Projects), PutTask(t, p)
      PROVE  RecordsOne
  <2>1. [rev |-> 0, project |-> p] \in Option(Task)
    BY DEF Option, Task
  <2> QED
    BY <1>1, <1>4, <2>1 DEF RecordsOne, Free, PutTask
<1> QED
  BY <1>2, <1>3, <1>4

LEMMA PutRecords ==
  ASSUME Good, NEW e \in Series, NEW cal \in Calendars, NEW p \in Option(Projects),
         Put(e, cal, p)
  PROVE  \E fresh \in Snapshot : Record(fresh)
<1> DEFINE put == [slot |-> Master, event |-> [rev |-> 0, project |-> p, cal |-> cal]]
<1>1. put \in Option([slot : Parts, event : Event])
  BY DEF Option, Event, Parts
<1>2. [kind |-> "event", uid |-> e, val |-> put] \in Snapshot
  BY <1>1 DEF Snapshot, EventSnapshot
<1> QED
  BY <1>2 DEF Put

LEMMA DropRecords ==
  ASSUME Good, NEW e \in Series, Drop(e)
  PROVE  \E fresh \in Snapshot : Record(fresh)
<1>1. [kind |-> "event", uid |-> e, val |-> None] \in Snapshot
  BY DEF Snapshot, EventSnapshot, Option
<1> QED
  BY <1>1 DEF Drop

LEMMA ReplaceRecords ==
  ASSUME Good, NEW e \in Series, NEW parts \in CachedParts, ReplaceSeries(e, parts)
  PROVE  \E fresh \in Snapshot : Record(fresh)
<1>1. [kind |-> "series", uid |-> e, val |-> parts] \in Snapshot
  BY DEF Snapshot, SeriesSnapshot, CachedParts
<1> QED
  BY <1>1 DEF ReplaceSeries

LEMMA BeforeFits ==
  ASSUME NEW parts \in CachedParts, NEW at \in Slots
  PROVE  Before(parts, at) \in CachedParts
  BY DEF Before, CachedParts, Option

LEMMA EventRecords ==
  ASSUME Good, NEW e \in Series,
         \/ DeleteEvent(e) \/ DeleteAll(e) \/ ShiftSeries(e)
         \/ \E at \in Slots : DeleteThis(e, at) \/ DeleteFollowing(e, at)
         \/ \E cal \in Calendars, p \in Option(Projects) :
              \/ PutEvent(e, cal, p)
              \/ UpdateAll(e, cal, p)
              \/ \E at \in Slots : UpdateThis(e, at, cal, p)
  PROVE  RecordsOne
<1>1. cache.series[e] \in CachedParts
  BY DEF Good, Cache
<1>2. CASE DeleteEvent(e) \/ DeleteAll(e)
  BY <1>2, DropRecords DEF RecordsOne, DeleteEvent, DeleteAll
<1>3. CASE ShiftSeries(e)
  BY <1>1, <1>3, ReplaceRecords DEF RecordsOne, ShiftSeries
<1>4. ASSUME NEW at \in Slots, DeleteThis(e, at)
      PROVE  RecordsOne
  <2>1. [cache.series[e] EXCEPT ![at] = None] \in CachedParts
    BY <1>1 DEF CachedParts, Option
  <2> QED
    BY <1>4, <2>1, ReplaceRecords DEF RecordsOne, DeleteThis
<1>5. ASSUME NEW at \in Slots, DeleteFollowing(e, at)
      PROVE  RecordsOne
  BY <1>1, <1>5, BeforeFits, ReplaceRecords DEF RecordsOne, DeleteFollowing
<1>6. ASSUME NEW cal \in Calendars, NEW p \in Option(Projects),
             PutEvent(e, cal, p) \/ UpdateAll(e, cal, p)
      PROVE  RecordsOne
  BY <1>6, PutRecords DEF RecordsOne, PutEvent, UpdateAll
<1>7. ASSUME NEW cal \in Calendars, NEW p \in Option(Projects), NEW at \in Slots,
             UpdateThis(e, at, cal, p)
      PROVE  RecordsOne
  <2>1. [rev |-> 0, project |-> p, cal |-> cal] \in Event
    BY DEF Event
  <2>2. [cache.series[e] EXCEPT ![at] = [rev |-> 0, project |-> p, cal |-> cal]]
          \in CachedParts
    BY <1>1, <2>1 DEF CachedParts, Option
  <2> QED
    BY <1>7, <2>2, ReplaceRecords DEF RecordsOne, UpdateThis
<1> QED
  BY <1>2, <1>3, <1>4, <1>5, <1>6, <1>7

LEMMA RecordsOneSafe ==
  ASSUME Good, RecordsOne
  PROVE  Safe
  BY RecordSafe DEF RecordsOne

-----------------------------------------------------------------------------
(* Undo and redo. *)

LEMMA BelowFits ==
  ASSUME NEW seq \in Seq(Known0), seq # <<>>
  PROVE  Below(seq) \in Seq(Known0) /\ Len(Below(seq)) = Len(seq) - 1
<1>1. Front(seq) \in Seq(Known0) /\ Len(Front(seq)) = Len(seq) - 1
  BY FrontFits
<1>2. /\ Unknown(Front(seq)) \in Seq(Known0)
      /\ Len(Unknown(Front(seq))) = Len(Front(seq))
  BY <1>1, HistoryFits
<1> QED
  BY <1>1, <1>2 DEF Below

LEMMA UndoSafe ==
  ASSUME Good, Undo
  PROVE  Safe
<1> DEFINE snap  == Last(undo)
           steps == Steps(disk, cache, snap)
<1>1. /\ undo \in Seq(Snapshot) /\ undo # <<>> /\ past \in Seq(Known0)
      /\ Len(past) = Len(undo)
      /\ disk \in Disk /\ cache \in Cache
  BY DEF Good, StacksOK, Undo
<1>2. past # <<>>
  BY <1>1
<1>3. /\ snap \in Snapshot /\ undo' = Front(undo) /\ undo' \in Seq(Snapshot)
      /\ Len(undo') = Len(undo) - 1
  BY <1>1, FrontFits DEF Undo
<1>4. ops' \in 0..MaxOps /\ deleting' \in Option(Projects)
  BY DEF Undo, Good, CountsOK
<1> HIDE DEF snap
<1>5. CASE /\ disk' = Last(steps)
           /\ cache' = Cached(cache, snap)
           /\ redo' = Append(redo, Inverse(cache, snap))
           /\ past' = Below(past)
           /\ future' = Append(future, Known(snap))
           /\ insync' = (insync /\ ~TakesPlace(cache, snap))
           /\ UNCHANGED faults
  <2>1. Inverse(cache, snap) \in Snapshot /\ Known(snap) \in Known0
    BY <1>1, <1>3, InverseFits, KnownFits
  <2>2. past' \in Seq(Known0) /\ Len(past') = Len(past) - 1
    BY <1>1, <1>2, <1>5, BelowFits
  <2>3. StacksOK'
    BY <1>1, <1>3, <1>5, <2>1, <2>2 DEF Good, StacksOK
  <2>4. faults' \in 0..MaxFaults /\ insync' \in BOOLEAN
    BY <1>5 DEF Good, CountsOK
  <2>5. insync' => insync /\ ~TakesPlace(cache, snap)
    BY <1>5
  <2> QED
    BY <1>1, <1>3, <1>4, <1>5, <2>3, <2>4, <2>5, SuccessSafe DEF Good
<1>6. CASE /\ FailsAt(steps)
           /\ past' = Unknown(Front(past)) /\ future' = Unknown(future)
           /\ UNCHANGED <<cache, redo>>
  <2>1. /\ past' \in Seq(Known0) /\ Len(past') = Len(past) - 1
        /\ future' \in Seq(Known0) /\ Len(future') = Len(future)
    BY <1>1, <1>2, <1>6, FrontFits, HistoryFits DEF Good, StacksOK
  <2>2. StacksOK'
    BY <1>1, <1>3, <1>6, <2>1 DEF Good, StacksOK
  <2>3. Run(disk, steps)
    BY <1>1, <1>3, SnapshotApplied DEF Applied
  <2>4. cache' \in Cache
    BY <1>1, <1>6
  <2> HIDE DEF steps
  <2> QED
    BY <1>1, <1>4, <1>6, <2>2, <2>3, <2>4, FailureSafe
<1> QED
  BY <1>5, <1>6 DEF Undo, snap

LEMMA RedoSafe ==
  ASSUME Good, Redo
  PROVE  Safe
<1> DEFINE snap  == Last(redo)
           steps == Steps(disk, cache, snap)
<1>1. /\ redo \in Seq(Snapshot) /\ redo # <<>> /\ future \in Seq(Known0)
      /\ Len(future) = Len(redo)
      /\ disk \in Disk /\ cache \in Cache
  BY DEF Good, StacksOK, Redo
<1>2. future # <<>>
  BY <1>1
<1>3. /\ snap \in Snapshot /\ redo' = Front(redo) /\ redo' \in Seq(Snapshot)
      /\ Len(redo') = Len(redo) - 1
  BY <1>1, FrontFits DEF Redo
<1>4. ops' \in 0..MaxOps /\ deleting' \in Option(Projects)
  BY DEF Redo, Good, CountsOK
<1> HIDE DEF snap
<1>5. CASE /\ disk' = Last(steps)
           /\ cache' = Cached(cache, snap)
           /\ undo' = Append(undo, Inverse(cache, snap))
           /\ past' = Append(past, Known(snap))
           /\ future' = Below(future)
           /\ insync' = (insync /\ ~TakesPlace(cache, snap))
           /\ UNCHANGED faults
  <2>1. Inverse(cache, snap) \in Snapshot /\ Known(snap) \in Known0
    BY <1>1, <1>3, InverseFits, KnownFits
  <2>2. future' \in Seq(Known0) /\ Len(future') = Len(future) - 1
    BY <1>1, <1>2, <1>5, BelowFits
  <2>3. StacksOK'
    BY <1>1, <1>3, <1>5, <2>1, <2>2 DEF Good, StacksOK
  <2>4. faults' \in 0..MaxFaults /\ insync' \in BOOLEAN
    BY <1>5 DEF Good, CountsOK
  <2>5. insync' => insync /\ ~TakesPlace(cache, snap)
    BY <1>5
  <2> QED
    BY <1>1, <1>3, <1>4, <1>5, <2>3, <2>4, <2>5, SuccessSafe DEF Good
<1>6. CASE /\ FailsAt(steps)
           /\ past' = Unknown(past) /\ future' = Unknown(Front(future))
           /\ UNCHANGED <<cache, undo>>
  <2>1. /\ future' \in Seq(Known0) /\ Len(future') = Len(future) - 1
        /\ past' \in Seq(Known0) /\ Len(past') = Len(past)
    BY <1>1, <1>2, <1>6, FrontFits, HistoryFits DEF Good, StacksOK
  <2>2. StacksOK'
    BY <1>1, <1>3, <1>6, <2>1 DEF Good, StacksOK
  <2>3. Run(disk, steps)
    BY <1>1, <1>3, SnapshotApplied DEF Applied
  <2>4. cache' \in Cache
    BY <1>1, <1>6
  <2> HIDE DEF steps
  <2> QED
    BY <1>1, <1>4, <1>6, <2>2, <2>3, <2>4, FailureSafe
<1> QED
  BY <1>5, <1>6 DEF Redo, snap

-----------------------------------------------------------------------------
(* A task given a new project, and a series cut in two. *)

LEMMA SetTaskProjectSafe ==
  ASSUME Good, NEW t \in Tasks, NEW p \in Projects, SetTaskProject(t, p)
  PROVE  Safe
<1> DEFINE added  == [disk EXCEPT !.projects = @ \cup {p}]
           cached == [cache EXCEPT !.projects = @ \cup {p}]
           snap   == [kind |-> "task", uid |-> t, val |-> [rev |-> ops + 1, project |-> p]]
           steps  == Steps(added, cached, snap)
<1>1. /\ added \in Disk /\ added.tasks = disk.tasks /\ added.trash = disk.trash
      /\ added.series = disk.series /\ added.projects = disk.projects \cup {p}
  BY DEF Good, Disk
<1>2. /\ cached \in Cache /\ cached.tasks = cache.tasks
      /\ cached.series = cache.series /\ cached.projects = cache.projects \cup {p}
  BY DEF Good, Cache
<1>3. insync => InStep(added, cached)
  <2> HIDE DEF added, cached
  <2> QED
    BY <1>1, <1>2 DEF Good, InStep
<1>4. ops' \in 0..MaxOps /\ ops + 1 \in Nat /\ deleting' \in Option(Projects)
  BY VaultAssumption DEF SetTaskProject, Good, CountsOK
<1>5. snap \in Snapshot
  <2>1. [rev |-> ops + 1, project |-> p] \in Option(Task)
    BY <1>4 DEF Option, Task
  <2> QED
    BY <2>1 DEF Snapshot, TaskSnapshot
<1>6. snap.kind = "task"
  OBVIOUS
<1>7. \/ /\ disk' = Last(steps)
         /\ cache' = Cached(cached, snap)
         /\ undo' = Append(undo, Inverse(cached, snap))
         /\ redo' = <<>>
         /\ past' = Append(past, Known(snap))
         /\ future' = <<>>
         /\ UNCHANGED <<faults, insync>>
      \/ /\ FailsAt(steps)
         /\ cache' = cached
         /\ past' = Unknown(past) /\ future' = Unknown(future)
         /\ UNCHANGED <<undo, redo>>
  BY DEF SetTaskProject
<1> HIDE DEF added, cached, snap
<1>8. CASE /\ disk' = Last(steps)
           /\ cache' = Cached(cached, snap)
           /\ undo' = Append(undo, Inverse(cached, snap))
           /\ redo' = <<>>
           /\ past' = Append(past, Known(snap))
           /\ future' = <<>>
           /\ UNCHANGED <<faults, insync>>
  <2>1. Inverse(cached, snap) \in Snapshot /\ Known(snap) \in Known0
    BY <1>2, <1>5, InverseFits, KnownFits
  <2>2. StacksOK'
    BY <1>8, <2>1 DEF Good, StacksOK
  <2>3. faults' \in 0..MaxFaults /\ insync' \in BOOLEAN
    BY <1>8 DEF Good, CountsOK
  <2>4. insync' => insync /\ ~TakesPlace(cached, snap)
    BY <1>6, <1>8 DEF TakesPlace
  <2> QED
    BY <1>1, <1>2, <1>3, <1>4, <1>5, <1>8, <2>2, <2>3, <2>4, SuccessSafe
<1>9. CASE /\ FailsAt(steps)
           /\ cache' = cached
           /\ past' = Unknown(past) /\ future' = Unknown(future)
           /\ UNCHANGED <<undo, redo>>
  <2>1. StacksOK'
    BY <1>9, UnknownStacks
  <2>2. Run(added, steps)
    BY <1>1, <1>2, <1>5, SnapshotApplied DEF Applied
  <2> HIDE DEF steps
  <2> QED
    BY <1>1, <1>2, <1>4, <1>9, <2>1, <2>2, FailureSafe
<1> QED
  BY <1>7, <1>8, <1>9

\* A series put or gone leaves the tasks alone.
LEMMA SeriesQuiet ==
  ASSUME NEW d \in Disk, NEW c \in Cache, NEW snap \in SeriesSnapshot
  PROVE  /\ Last(Steps(d, c, snap)).tasks = d.tasks
         /\ Last(Steps(d, c, snap)).trash = d.trash
         /\ ~TakesPlace(c, snap)
<1>1. snap.kind = "series" /\ snap.uid \in Series /\ snap.val \in CachedParts
  BY DEF SeriesSnapshot, CachedParts
<1>2. \E f : Last(Steps(d, c, snap)) = [d EXCEPT !.series[snap.uid] = f]
  <2>1. CASE snap.val = NoParts
    <3>1. Steps(d, c, snap) = DeleteFile(d, snap.uid)
      BY <1>1, <2>1 DEF Steps
    <3> QED
      BY <1>1, <3>1, DeleteFileRuns
  <2>2. CASE snap.val # NoParts
    <3>1. Steps(d, c, snap) = PutSeries(d, snap.uid, snap.val)
      BY <1>1, <2>2 DEF Steps
    <3>2. Steps(d, c, snap) = WriteSeries(d, snap.uid, FileOf(snap.val))
      BY <3>1 DEF PutSeries, FileOf
    <3>3. FileOf(snap.val) \in SeriesFile
      BY <1>1, <2>2, SeriesMirrors
    <3>4. Last(Steps(d, c, snap)) = [d EXCEPT !.series[snap.uid] = FileOf(snap.val)]
      BY <1>1, <3>2, <3>3, WriteSeriesRuns
    <3> QED
      BY <3>4
  <2> QED
    BY <2>1, <2>2
<1>3. ~TakesPlace(c, snap)
  BY <1>1 DEF TakesPlace
<1> QED
  BY <1>2, <1>3 DEF Disk

LEMMA UpdateFollowingSafe ==
  ASSUME Good, NEW e \in Series, NEW at \in Slots, NEW new \in Series,
         NEW cal \in Calendars, NEW p \in Option(Projects), NEW carried \in SUBSET Slots,
         UpdateFollowing(e, at, new, cal, p, carried)
  PROVE  Safe
<1> DEFINE now    == ops + 1
           headParts == Before(cache.series[e], at)
           tailParts == [s \in Parts |->
                           IF s = Master THEN [rev |-> 0, project |-> p, cal |-> cal]
                           ELSE IF s \in carried THEN cache.series[e][s] ELSE None]
           head   == Stamped([kind |-> "series", uid |-> e, val |-> headParts], now)
           tail   == Stamped([kind |-> "series", uid |-> new, val |-> tailParts], now)
           first  == Steps(disk, cache, head)
           disk1  == Last(first)
           cache1 == Cached(cache, head)
           second == Steps(disk1, cache1, tail)
           between == IF insync THEN Live(disk1) ELSE None
<1>1. ops' \in 0..MaxOps /\ now \in Nat /\ deleting' \in Option(Projects)
  BY VaultAssumption DEF UpdateFollowing, Good, CountsOK
<1>2. disk \in Disk /\ cache \in Cache /\ cache.series[e] \in CachedParts
  BY DEF Good, Cache
<1>3. headParts \in CachedParts
  BY <1>2, BeforeFits
<1>4. tailParts \in CachedParts
  <2>1. [rev |-> 0, project |-> p, cal |-> cal] \in Event
    BY DEF Event
  <2> QED
    BY <1>2, <2>1 DEF CachedParts, Option
<1> HIDE DEF headParts, tailParts
<1>5. head \in SeriesSnapshot /\ tail \in SeriesSnapshot
  <2>1. /\ [kind |-> "series", uid |-> e, val |-> headParts] \in SeriesSnapshot
        /\ [kind |-> "series", uid |-> new, val |-> tailParts] \in SeriesSnapshot
    BY <1>3, <1>4 DEF SeriesSnapshot, CachedParts
  <2> QED
    BY <1>1, <2>1, StampedSeries
<1>6. \/ /\ disk' = Last(second)
         /\ cache' = Cached(cache1, tail)
         /\ undo' = undo \o <<Inverse(cache, head), Inverse(cache1, tail)>>
         /\ redo' = <<>>
         /\ past' = past \o <<Known(head), between>>
         /\ future' = <<>>
         /\ UNCHANGED <<faults, insync>>
      \/ /\ FailsAt(first)
         /\ past' = Unknown(past) /\ future' = Unknown(future)
         /\ UNCHANGED <<cache, undo, redo>>
      \/ /\ FailsAt(second)
         /\ cache' = cache1
         /\ undo' = Append(undo, Inverse(cache, head))
         /\ redo' = <<>>
         /\ past' = Append(Unknown(past), None)
         /\ future' = <<>>
  BY DEF UpdateFollowing, headParts, tailParts
<1> HIDE DEF head, tail
<1>7. head \in Snapshot /\ tail \in Snapshot
  BY <1>5 DEF Snapshot
<1>8. /\ Run(disk, first) /\ cache1 \in Cache
      /\ InStep(disk, cache) /\ ~TakesPlace(cache, head) => InStep(disk1, cache1)
  BY <1>2, <1>7, SnapshotApplied DEF Applied
<1>9. disk1 \in Disk
  BY <1>2, <1>8, RunFits
<1>10. /\ disk1.tasks = disk.tasks /\ disk1.trash = disk.trash
       /\ ~TakesPlace(cache, head)
  BY <1>2, <1>5, SeriesQuiet
<1> HIDE DEF first, disk1, cache1
<1>11. insync => InStep(disk1, cache1)
  BY <1>8, <1>10 DEF Good
<1>12. /\ Inverse(cache, head) \in Snapshot /\ Inverse(cache1, tail) \in Snapshot
       /\ Known(head) \in Known0 /\ between \in Known0
  BY <1>2, <1>7, <1>8, <1>9, InverseFits, KnownFits, HistoryFits
<1>13. CASE /\ disk' = Last(second)
            /\ cache' = Cached(cache1, tail)
            /\ undo' = undo \o <<Inverse(cache, head), Inverse(cache1, tail)>>
            /\ redo' = <<>>
            /\ past' = past \o <<Known(head), between>>
            /\ future' = <<>>
            /\ UNCHANGED <<faults, insync>>
  <2> HIDE DEF between
  <2>1. StacksOK'
    BY <1>12, <1>13 DEF Good, StacksOK
  <2>2. faults' \in 0..MaxFaults /\ insync' \in BOOLEAN
    BY <1>13 DEF Good, CountsOK
  <2>3. ~TakesPlace(cache1, tail)
    BY <1>5, <1>8, <1>9, SeriesQuiet
  <2>4. insync' => insync /\ ~TakesPlace(cache1, tail)
    BY <1>13, <2>3
  <2> QED
    BY <1>1, <1>7, <1>8, <1>9, <1>10, <1>11, <1>13, <2>1, <2>2, <2>4, SuccessSafe
<1>14. CASE /\ FailsAt(first)
            /\ past' = Unknown(past) /\ future' = Unknown(future)
            /\ UNCHANGED <<cache, undo, redo>>
  <2>1. StacksOK'
    BY <1>14, UnknownStacks
  <2>2. cache' \in Cache
    BY <1>2, <1>14
  <2> QED
    BY <1>1, <1>2, <1>8, <1>14, <2>1, <2>2, FailureSafe
<1>15. CASE /\ FailsAt(second)
            /\ cache' = cache1
            /\ undo' = Append(undo, Inverse(cache, head))
            /\ redo' = <<>>
            /\ past' = Append(Unknown(past), None)
            /\ future' = <<>>
  <2>1. Unknown(past) \in Seq(Known0) /\ Len(Unknown(past)) = Len(past) /\ None \in Known0
    BY HistoryFits DEF Good, StacksOK
  <2>2. StacksOK'
    BY <1>12, <1>15, <2>1 DEF Good, StacksOK
  <2>3. Run(disk1, second)
    BY <1>7, <1>8, <1>9, SnapshotApplied DEF Applied
  <2> HIDE DEF second
  <2> QED
    BY <1>1, <1>8, <1>9, <1>10, <1>15, <2>2, <2>3, FailureSafe
<1> HIDE DEF second, between
<1> QED
  BY <1>6, <1>13, <1>14, <1>15

-----------------------------------------------------------------------------
(* Actions about projects only, and the purges. *)

LEMMA FailedSteps ==
  ASSUME NEW steps, FailsAt(steps)
  PROVE  /\ \A a, b : steps = <<a, b>> => disk' = a
         /\ \A a, b, c : steps = <<a, b, c>> => disk' = a \/ disk' = b
         /\ insync' = FALSE
         /\ CountsOK => faults' \in 0..MaxFaults
<1>1. PICK i \in 1..(Len(steps) - 1) : disk' = steps[i]
  BY DEF FailsAt
<1>2. ASSUME NEW a, NEW b, steps = <<a, b>>
      PROVE  disk' = a
  BY <1>1, <1>2
<1>3. ASSUME NEW a, NEW b, NEW c, steps = <<a, b, c>>
      PROVE  disk' = a \/ disk' = b
  BY <1>1, <1>3
<1>4. insync' = FALSE /\ (CountsOK => faults' \in 0..MaxFaults)
  BY VaultAssumption DEF FailsAt, CountsOK
<1> QED
  BY <1>2, <1>3, <1>4

\* Neither the tasks nor the series move.
LEMMA QuietSafe ==
  ASSUME Good, disk' \in Disk, cache' \in Cache, StacksOK', CountsOK',
         disk'.tasks = disk.tasks, disk'.series = disk.series,
         insync' => /\ insync /\ cache'.tasks = cache.tasks /\ cache'.series = cache.series
                    /\ cache'.projects = disk'.projects
  PROVE  Good' /\ (disk'.trash = disk.trash => TrashSafe)
<1>1. (insync => InStep(disk, cache))'
  BY DEF Good, InStep
<1>2. disk'.trash = disk.trash => TrashSafe
  BY DEF TrashSafe
<1> QED
  BY <1>1, <1>2 DEF Good

LEMMA ProjectsOf ==
  ASSUME Good
  PROVE  /\ \A S \in SUBSET Projects :
              LET d == [disk EXCEPT !.projects = S]
              IN /\ d \in Disk /\ d.projects = S /\ d.trash = disk.trash
                 /\ d.tasks = disk.tasks /\ d.series = disk.series
                 /\ d.trashedProjects = disk.trashedProjects
         /\ \A S \in SUBSET Projects :
              LET c == [cache EXCEPT !.projects = S]
              IN /\ c \in Cache /\ c.projects = S
                 /\ c.tasks = cache.tasks /\ c.series = cache.series
         /\ disk.projects \subseteq Projects /\ cache.projects \subseteq Projects
         /\ disk.trashedProjects \subseteq Projects
         /\ insync => cache.projects = disk.projects
  BY DEF Good, Disk, Cache, InStep

LEMMA TrashedOf ==
  ASSUME NEW d \in Disk, NEW S \in SUBSET Projects
  PROVE  LET x == [d EXCEPT !.trashedProjects = S]
         IN /\ x \in Disk /\ x.projects = d.projects /\ x.trash = d.trash
            /\ x.tasks = d.tasks /\ x.series = d.series
  BY DEF Disk

\* The stacks when only the history is given up.
LEMMA SameStacks ==
  ASSUME Good, UNCHANGED <<undo, redo>>,
         \/ UNCHANGED history
         \/ past' = Unknown(past) /\ future' = Unknown(future)
  PROVE  StacksOK'
<1>1. CASE UNCHANGED history
  BY <1>1 DEF Good, StacksOK, history
<1>2. CASE past' = Unknown(past) /\ future' = Unknown(future)
  BY <1>2, UnknownStacks
<1> QED
  BY <1>1, <1>2

LEMMA PutProjectSafe ==
  ASSUME Good, NEW p \in Projects, PutProject(p)
  PROVE  Safe
<1>1. StacksOK'
  BY SameStacks DEF PutProject
<1>2. ops' \in 0..MaxOps /\ deleting' \in Option(Projects)
  BY VaultAssumption DEF PutProject, Good, CountsOK
<1>3. CASE /\ disk' = [disk EXCEPT !.projects = @ \cup {p}]
           /\ cache' = [cache EXCEPT !.projects = @ \cup {p}]
           /\ UNCHANGED <<faults, insync, history>>
  <2>1. CountsOK'
    BY <1>2, <1>3 DEF Good, CountsOK
  <2>2. /\ disk.projects \cup {p} \in SUBSET Projects
        /\ cache.projects \cup {p} \in SUBSET Projects
    BY ProjectsOf
  <2>3. /\ disk' \in Disk /\ disk'.projects = disk.projects \cup {p}
        /\ disk'.trash = disk.trash /\ disk'.tasks = disk.tasks /\ disk'.series = disk.series
        /\ cache' \in Cache /\ cache'.projects = cache.projects \cup {p}
        /\ cache'.tasks = cache.tasks /\ cache'.series = cache.series
    BY <1>3, <2>2, ProjectsOf
  <2>4. insync' => insync /\ cache'.projects = disk'.projects
    BY <1>3, <2>3, ProjectsOf
  <2> QED
    BY <1>1, <2>1, <2>3, <2>4, QuietSafe DEF Safe
<1>4. CASE FailsAt(<<disk, disk>>) /\ UNCHANGED cache
  <2>1. disk' = disk /\ insync' = FALSE /\ faults' \in 0..MaxFaults
    BY <1>4, FailedSteps DEF Good
  <2>2. CountsOK'
    BY <1>2, <2>1 DEF CountsOK
  <2> QED
    BY <1>1, <1>4, <2>1, <2>2, QuietSafe DEF Safe, Good
<1> QED
  BY <1>3, <1>4 DEF PutProject

LEMMA RestoreProjectSafe ==
  ASSUME Good, NEW p \in Projects, RestoreProject(p)
  PROVE  Safe
<1> DEFINE restored == [disk EXCEPT !.projects = @ \cup {p}]
           done == [restored EXCEPT !.trashedProjects = @ \ {p}]
<1>1. StacksOK'
  BY SameStacks DEF RestoreProject
<1>2. ops' \in 0..MaxOps /\ deleting' \in Option(Projects)
  BY DEF RestoreProject, Good, CountsOK
<1>3. disk.projects \cup {p} \in SUBSET Projects /\ cache.projects \cup {p} \in SUBSET Projects
  BY ProjectsOf
<1>4. /\ restored \in Disk /\ restored.projects = disk.projects \cup {p}
      /\ restored.trash = disk.trash /\ restored.tasks = disk.tasks
      /\ restored.series = disk.series /\ restored.trashedProjects = disk.trashedProjects
  BY <1>3, ProjectsOf
<1>5. /\ done \in Disk /\ done.projects = restored.projects /\ done.trash = restored.trash
      /\ done.tasks = restored.tasks /\ done.series = restored.series
  <2>1. restored.trashedProjects \ {p} \in SUBSET Projects
    BY <1>4, ProjectsOf
  <2> HIDE DEF restored
  <2> QED
    BY <1>4, <2>1, TrashedOf
<1>6. \/ /\ disk' = done
         /\ cache' = [cache EXCEPT !.projects = @ \cup {p}]
         /\ UNCHANGED <<faults, insync, history>>
      \/ FailsAt(<<disk, restored, done>>) /\ UNCHANGED cache
  BY DEF RestoreProject
<1> HIDE DEF restored, done
<1>7. CASE /\ disk' = done
           /\ cache' = [cache EXCEPT !.projects = @ \cup {p}]
           /\ UNCHANGED <<faults, insync, history>>
  <2>1. CountsOK'
    BY <1>2, <1>7 DEF Good, CountsOK
  <2>2. /\ cache' \in Cache /\ cache'.projects = cache.projects \cup {p}
        /\ cache'.tasks = cache.tasks /\ cache'.series = cache.series
    BY <1>3, <1>7, ProjectsOf
  <2>3. insync' => insync /\ cache'.projects = disk'.projects
    BY <1>4, <1>5, <1>7, <2>2, ProjectsOf
  <2> QED
    BY <1>1, <1>4, <1>5, <1>7, <2>1, <2>2, <2>3, QuietSafe DEF Safe
<1>8. CASE FailsAt(<<disk, restored, done>>) /\ UNCHANGED cache
  <2>1. (disk' = disk \/ disk' = restored) /\ insync' = FALSE /\ faults' \in 0..MaxFaults
    BY <1>8, FailedSteps DEF Good
  <2>2. CountsOK'
    BY <1>2, <2>1 DEF CountsOK
  <2> QED
    BY <1>1, <1>4, <1>8, <2>1, <2>2, QuietSafe DEF Safe, Good
<1> QED
  BY <1>6, <1>7, <1>8

LEMMA PurgesSafe ==
  ASSUME Good, EmptyTrash \/ (\E t \in Tasks : PurgeTask(t))
                          \/ (\E p \in Projects : PurgeProject(p))
  PROVE  /\ Good'
         /\ \A t \in Tasks : disk.trash[t] # None /\ disk'.trash[t] = None =>
              PurgeTask(t) \/ EmptyTrash
<1>1. /\ UNCHANGED <<cache, undo, redo, deleting, ops, faults, insync, history>>
  BY DEF EmptyTrash, PurgeTask, PurgeProject
<1>2. StacksOK' /\ CountsOK' /\ cache' \in Cache
  BY <1>1, SameStacks DEF Good, CountsOK
<1> DEFINE OnlyTrash == /\ disk' \in Disk /\ disk'.tasks = disk.tasks
                    /\ disk'.series = disk.series /\ disk'.projects = disk.projects
<1>3. OnlyTrash
  <2>1. CASE EmptyTrash
    BY <2>1 DEF EmptyTrash, Good, Disk, Option
  <2>2. ASSUME NEW t \in Tasks, PurgeTask(t)
        PROVE  OnlyTrash
    BY <2>2 DEF PurgeTask, Good, Disk, Option
  <2>3. ASSUME NEW p \in Projects, PurgeProject(p)
        PROVE  OnlyTrash
    BY <2>3 DEF PurgeProject, Good, Disk
  <2> QED
    BY <2>1, <2>2, <2>3
<1>4. Good'
  BY <1>1, <1>2, <1>3, ProjectsOf, QuietSafe
<1>5. ASSUME NEW t \in Tasks, disk.trash[t] # None, disk'.trash[t] = None
      PROVE  PurgeTask(t) \/ EmptyTrash
  <2>1. ASSUME NEW u \in Tasks, PurgeTask(u)
        PROVE  PurgeTask(t)
    <3>1. u = t
      BY <1>5, <2>1 DEF PurgeTask, Good, Disk
    <3> QED
      BY <2>1, <3>1
  <2>2. ASSUME NEW p \in Projects, PurgeProject(p)
        PROVE  FALSE
    BY <1>5, <2>2 DEF PurgeProject, Good, Disk
  <2> QED
    BY <2>1, <2>2
<1> QED
  BY <1>4, <1>5

-----------------------------------------------------------------------------
(* The deletion of a project. *)

LEMMA BeginSafe ==
  ASSUME Good, NEW p \in Projects, BeginDeleteProject(p)
  PROVE  Safe
<1>1. UNCHANGED <<disk, cache, undo, redo, faults, insync, history>>
  BY DEF BeginDeleteProject
<1>2. StacksOK'
  BY <1>1, SameStacks
<1>3. CountsOK'
  BY VaultAssumption DEF BeginDeleteProject, Good, CountsOK, Option
<1>4. disk' \in Disk /\ cache' \in Cache
  BY <1>1 DEF Good
<1> QED
  BY <1>1, <1>2, <1>3, <1>4, ProjectsOf, QuietSafe DEF Safe

\* An item rewritten in the files and in the cache at once.
LEMMA RewriteSafe ==
  ASSUME Good, NEW steps, Run(disk, steps), Rewrite(steps),
         UNCHANGED <<undo, redo, ops>>, cache' \in Cache,
         InStep(disk, cache) => InStep(Last(steps), cache')
  PROVE  Safe
<1>1. disk \in Disk
  BY DEF Good
<1>2. ops' \in 0..MaxOps
  BY DEF Good, CountsOK
<1>3. CASE disk' = Last(steps) /\ UNCHANGED <<deleting, faults, insync, history>>
  <2>1. disk' \in Disk /\ Spares(disk, disk')
    BY <1>1, <1>3, RunFits
  <2>2. StacksOK' /\ CountsOK'
    BY <1>2, <1>3, SameStacks DEF Good, CountsOK
  <2>3. TrashSafe
    BY <1>3, <2>1 DEF TrashSafe, Spares
  <2>4. (insync => InStep(disk, cache))'
    BY <1>3 DEF Good
  <2> QED
    BY <2>1, <2>2, <2>3, <2>4 DEF Safe, Good
<1>4. CASE /\ FailsAt(steps)
           /\ deleting' = None
           /\ past' = Unknown(past) /\ future' = Unknown(future)
  <2>1. StacksOK'
    BY <1>4, SameStacks
  <2>2. deleting' \in Option(Projects)
    BY <1>4 DEF Option
  <2> QED
    BY <1>1, <1>2, <1>4, <2>1, <2>2, FailureSafe
<1> QED
  BY <1>3, <1>4 DEF Rewrite

LEMMA UnassignTaskSafe ==
  ASSUME Good, NEW t \in Tasks, UnassignTask(t)
  PROVE  Safe
<1> DEFINE v == [rev |-> ops, project |-> None]
           written == [disk EXCEPT !.tasks[t] = v]
           steps == <<disk, written>>
<1>1. v \in Task /\ v # None
  <2>1. v \in Task
    BY VaultAssumption DEF Good, CountsOK, Task, Option
  <2> QED
    BY <2>1, VaultAssumption
<1>2. /\ cache' = [cache EXCEPT !.tasks[t] = v]
      /\ Rewrite(steps) /\ UNCHANGED <<undo, redo, ops>>
  BY DEF UnassignTask
<1> HIDE DEF v
<1>3. /\ written \in Disk /\ written.tasks = [disk.tasks EXCEPT ![t] = v]
      /\ written.series = disk.series /\ written.projects = disk.projects
      /\ written.trash = disk.trash /\ written.trashedProjects = disk.trashedProjects
  BY <1>1 DEF Good, Disk, Option
<1>4. /\ cache' \in Cache /\ cache'.tasks = [cache.tasks EXCEPT ![t] = v]
      /\ cache'.series = cache.series /\ cache'.projects = cache.projects
  BY <1>1, <1>2 DEF Good, Cache, Option
<1> HIDE DEF written
<1>5. Run(disk, steps)
  <2>1. Spares(disk, written)
    BY <1>3 DEF Spares
  <2> QED
    BY <1>3, <2>1 DEF Run
<1>6. Last(steps) = written
  BY DEF Last
<1>7. InStep(disk, cache) => InStep(written, cache')
  BY <1>3, <1>4 DEF InStep
<1> HIDE DEF steps
<1> QED
  BY <1>2, <1>4, <1>5, <1>6, <1>7, RewriteSafe

LEMMA UnassignEventSafe ==
  ASSUME Good, NEW e \in Series, NEW s \in Parts, UnassignEvent(e, s)
  PROVE  Safe
<1> DEFINE old   == cache.series[e]
           v     == [old[s] EXCEPT !.rev = ops, !.project = None]
           f     == FileWith(disk.series[e], s, v)
           new   == [old EXCEPT ![s] = v]
           steps == Upsert(disk, e, s, v)
<1>1. disk \in Disk /\ cache \in Cache /\ old \in CachedParts
      /\ disk.series[e] \in Option(SeriesFile)
  BY DEF Good, Cache, Disk
<1>2. v \in Event
  <2>1. old[s] # None
    BY DEF UnassignEvent, EventsIn
  <2>2. old[s] \in Event
    BY <1>1, <2>1 DEF CachedParts, Option
  <2>3. ops \in Nat /\ None \in Option(Projects)
    BY VaultAssumption DEF Good, CountsOK, Option
  <2> QED
    BY <2>2, <2>3 DEF Event
<1>3. /\ cache' = [cache EXCEPT !.series[e][s] = v]
      /\ Rewrite(steps) /\ UNCHANGED <<undo, redo, ops>>
  BY DEF UnassignEvent
<1> HIDE DEF v
<1>4. steps = WriteSeries(disk, e, f)
  BY DEF Upsert, FileWith, Siblings
<1>5. f \in SeriesFile
  BY <1>1, <1>2, PutMirrors
<1>6. Mirrors(old, disk.series[e]) => Mirrors(new, f)
  BY <1>1, <1>2, PutMirrors
<1>7. new \in CachedParts
  BY <1>1, <1>2 DEF CachedParts, Option
<1>8. cache' = [cache EXCEPT !.series[e] = new]
  BY <1>1, <1>3 DEF Cache
<1> HIDE DEF f, new, old
<1>9. Run(disk, steps) /\ Last(steps) = [disk EXCEPT !.series[e] = f]
  BY <1>1, <1>4, <1>5, WriteSeriesRuns
<1> HIDE DEF steps
<1>10. /\ Last(steps).tasks = disk.tasks /\ Last(steps).projects = disk.projects
       /\ Last(steps).series = [disk.series EXCEPT ![e] = f]
  BY <1>1, <1>9 DEF Disk
<1>11. /\ cache' \in Cache /\ cache'.tasks = cache.tasks /\ cache'.projects = cache.projects
       /\ cache'.series = [cache.series EXCEPT ![e] = new]
  BY <1>1, <1>7, <1>8 DEF Cache
<1>12. InStep(disk, cache) => InStep(Last(steps), cache')
  <2>1. ASSUME InStep(disk, cache), NEW x \in Series
        PROVE  Mirrors(cache'.series[x], Last(steps).series[x])
    <3>1. /\ cache.series \in [Series -> CachedParts]
          /\ disk.series \in [Series -> Option(SeriesFile)]
      BY <1>1 DEF Cache, Disk
    <3>2. CASE x = e
      BY <1>6, <1>10, <1>11, <2>1, <3>1, <3>2 DEF InStep, old
    <3>3. CASE x # e
      BY <1>10, <1>11, <2>1, <3>1, <3>3 DEF InStep
    <3> QED
      BY <3>2, <3>3
  <2> QED
    BY <1>10, <1>11, <2>1 DEF InStep
<1> QED
  BY <1>3, <1>9, <1>11, <1>12, RewriteSafe

LEMMA EmptyStacks ==
  ASSUME undo' = <<>>, redo' = <<>>, past' = <<>>, future' = <<>>
  PROVE  StacksOK'
  BY DEF StacksOK

LEMMA FinishSafe ==
  ASSUME Good, FinishDeleteProject
  PROVE  Safe /\ disk'.tasks = disk.tasks /\ disk'.series = disk.series
<1> DEFINE trashed == IF deleting \in cache.projects
                      THEN [disk EXCEPT !.trashedProjects = @ \cup {deleting}] ELSE disk
           done == [trashed EXCEPT !.projects = @ \ {deleting}]
<1>1. deleting \in Projects /\ disk \in Disk
  BY DEF FinishDeleteProject, Good, CountsOK, Option
<1>2. /\ trashed \in Disk /\ trashed.projects = disk.projects
      /\ trashed.trash = disk.trash /\ trashed.tasks = disk.tasks
      /\ trashed.series = disk.series
  <2>1. disk.trashedProjects \cup {deleting} \in SUBSET Projects
    BY <1>1, ProjectsOf
  <2> QED
    BY <1>1, <2>1, TrashedOf
<1>3. \/ /\ disk' = done
         /\ cache' = [cache EXCEPT !.projects = @ \ {deleting}]
         /\ undo' = <<>> /\ redo' = <<>> /\ past' = <<>> /\ future' = <<>>
         /\ UNCHANGED <<faults, insync>>
      \/ /\ FailsAt(<<disk, trashed, done>>)
         /\ past' = Unknown(past) /\ future' = Unknown(future)
         /\ UNCHANGED <<cache, undo, redo>>
  BY DEF FinishDeleteProject
<1> HIDE DEF trashed
<1>4. /\ done \in Disk /\ done.projects = disk.projects \ {deleting}
      /\ done.trash = disk.trash /\ done.tasks = disk.tasks /\ done.series = disk.series
  BY <1>2 DEF Disk
<1> HIDE DEF done
<1>5. ops' \in 0..MaxOps /\ deleting' \in Option(Projects)
  BY DEF FinishDeleteProject, Good, CountsOK, Option
<1>6. CASE /\ disk' = done
           /\ cache' = [cache EXCEPT !.projects = @ \ {deleting}]
           /\ undo' = <<>> /\ redo' = <<>> /\ past' = <<>> /\ future' = <<>>
           /\ UNCHANGED <<faults, insync>>
  <2>1. CountsOK'
    BY <1>5, <1>6 DEF Good, CountsOK
  <2>2. cache.projects \ {deleting} \in SUBSET Projects
    BY ProjectsOf
  <2>3. /\ cache' \in Cache /\ cache'.projects = cache.projects \ {deleting}
        /\ cache'.tasks = cache.tasks /\ cache'.series = cache.series
    BY <1>6, <2>2, ProjectsOf
  <2>4. insync' => insync /\ cache'.projects = disk'.projects
    BY <1>4, <1>6, <2>3, ProjectsOf
  <2> QED
    BY <1>4, <1>6, <2>1, <2>3, <2>4, EmptyStacks, QuietSafe DEF Safe
<1>7. CASE /\ FailsAt(<<disk, trashed, done>>)
           /\ past' = Unknown(past) /\ future' = Unknown(future)
           /\ UNCHANGED <<cache, undo, redo>>
  <2>1. (disk' = disk \/ disk' = trashed) /\ insync' = FALSE /\ faults' \in 0..MaxFaults
    BY <1>7, FailedSteps DEF Good
  <2>2. CountsOK' /\ StacksOK'
    BY <1>5, <1>7, <2>1, SameStacks DEF CountsOK
  <2>3. /\ disk' \in Disk /\ disk'.tasks = disk.tasks /\ disk'.series = disk.series
        /\ disk'.trash = disk.trash
    BY <1>1, <1>2, <2>1
  <2>4. cache' \in Cache
    BY <1>7 DEF Good
  <2> QED
    BY <2>1, <2>2, <2>3, <2>4, QuietSafe DEF Safe
<1> QED
  BY <1>3, <1>6, <1>7

-----------------------------------------------------------------------------
(* Reload, restart and the others. *)

LEMMA LoadedFits ==
  ASSUME NEW d \in Disk
  PROVE  Loaded(d) \in Cache /\ InStep(d, Loaded(d))
<1>1. ASSUME NEW e \in Series
      PROVE  LoadSeries(d.series[e]) \in CachedParts
  <2>1. CASE d.series[e] = None
    BY <2>1 DEF LoadSeries, CachedParts, Option
  <2>2. CASE d.series[e] # None
    <3> DEFINE f == d.series[e]
    <3>1. f.cal \in Calendars /\ f.parts \in [Parts -> Option(Component)]
      BY <2>2 DEF Disk, Option, SeriesFile
    <3>2. \A s \in Parts : f.parts[s] # None =>
            [rev |-> f.parts[s].rev, project |-> f.parts[s].project, cal |-> f.cal] \in Event
      BY <3>1 DEF Option, Component, Event
    <3> QED
      BY <3>2 DEF LoadSeries, CachedParts, Option
  <2> QED
    BY <2>1, <2>2
<1>2. Loaded(d) \in Cache
  BY <1>1 DEF Loaded, Cache, Disk
<1>3. \A e \in Series : Mirrors(Loaded(d).series[e], d.series[e])
  BY DEF Loaded, Mirrors, Matches
<1> QED
  BY <1>2, <1>3 DEF InStep, Loaded

LEMMA LoadSafe ==
  ASSUME Good, cache' = Loaded(disk), disk' = disk, StacksOK', CountsOK'
  PROVE  Safe
<1>1. disk' \in Disk /\ cache' \in Cache /\ InStep(disk', cache')
  BY LoadedFits DEF Good
<1>2. TrashSafe
  BY DEF TrashSafe
<1> QED
  BY <1>1, <1>2 DEF Safe, Good

LEMMA ReloadSafe ==
  ASSUME Good, Reload
  PROVE  Safe
<1>1. StacksOK' /\ CountsOK'
  BY SameStacks DEF Reload, Good, CountsOK
<1> QED
  BY <1>1, LoadSafe DEF Reload

LEMMA OpenSafe ==
  ASSUME Good, Open
  PROVE  Safe
<1>1. StacksOK' /\ CountsOK'
  BY EmptyStacks DEF Open, Good, CountsOK, Option
<1> QED
  BY <1>1, LoadSafe DEF Open

LEMMA OthersSafe ==
  ASSUME Good, OthersStep
  PROVE  Safe
<1>1. OthersAct
  BY DEF OthersStep, OthersDeleteTask, OthersPutTask, OthersDeleteSeries, OthersPutSeries
<1>2. StacksOK' /\ CountsOK' /\ cache' \in Cache /\ insync' = FALSE /\ ops + 1 \in Nat
  <2>1. StacksOK'
    BY <1>1, SameStacks DEF OthersAct
  <2>2. ops' \in 0..MaxOps /\ ops + 1 \in Nat
    BY <1>1, VaultAssumption DEF OthersAct, Good, CountsOK
  <2> QED
    BY <1>1, <2>1, <2>2 DEF OthersAct, Good, CountsOK
<1>3. disk \in Disk
  BY DEF Good
<1> DEFINE Written == disk' \in Disk /\ disk'.trash = disk.trash
<1>4. ASSUME NEW t \in Tasks, OthersDeleteTask(t)
      PROVE  Written
  BY <1>3, <1>4 DEF OthersDeleteTask, Disk, Option
<1>5. ASSUME NEW t \in Tasks, NEW p \in Option(Projects), OthersPutTask(t, p)
      PROVE  Written
  <2>1. [rev |-> ops + 1, project |-> p] \in Option(Task)
    BY <1>2 DEF Task, Option
  <2> QED
    BY <1>3, <1>5, <2>1 DEF OthersPutTask, Disk
<1>6. ASSUME NEW e \in Series, OthersDeleteSeries(e)
      PROVE  Written
  BY <1>3, <1>6 DEF OthersDeleteSeries, Disk, Option
<1>7. ASSUME NEW e \in Series, NEW cal \in Calendars, NEW S \in (SUBSET Parts) \ {{}},
             NEW p \in Option(Projects), OthersPutSeries(e, cal, S, p)
      PROVE  Written
  <2> DEFINE v == [rev |-> ops + 1, project |-> p]
             parts == [s \in Parts |-> IF s \in S THEN v ELSE None]
             f == [cal |-> cal, parts |-> parts]
  <2>1. v \in Component /\ v # None
    <3>1. v \in Component
      BY <1>2 DEF Component
    <3> QED
      BY <3>1, Distinct
  <2> HIDE DEF v
  <2>2. parts \in [Parts -> Option(Component)]
    BY <2>1 DEF Option
  <2>3. parts # NoParts
    <3>1. PICK s \in S : s \in Parts
      OBVIOUS
    <3> QED
      BY <2>1, <3>1 DEF NoParts
  <2>4. f \in Option(SeriesFile)
    BY <2>2, <2>3 DEF SeriesFile, Option
  <2>5. disk' = [disk EXCEPT !.series[e] = f]
    BY <1>7 DEF OthersPutSeries, v
  <2> HIDE DEF f
  <2> QED
    BY <1>3, <2>4, <2>5 DEF Disk
<1>8. Written
  BY <1>4, <1>5, <1>6, <1>7 DEF OthersStep
<1>9. TrashSafe
  BY <1>8 DEF TrashSafe
<1> QED
  BY <1>2, <1>8, <1>9 DEF Safe, Good

-----------------------------------------------------------------------------
(* All steps, and the theorems. *)

LEMMA InitGood == Init => Good
<1> SUFFICES ASSUME Init PROVE Good
  OBVIOUS
<1>1. disk \in Disk
  BY DEF Init, EmptyDisk, Disk, Option
<1>2. cache \in Cache /\ InStep(disk, cache)
  BY <1>1, LoadedFits DEF Init
<1>3. StacksOK /\ CountsOK
  BY VaultAssumption DEF Init, StacksOK, CountsOK, Option
<1> QED
  BY <1>1, <1>2, <1>3 DEF Good

LEMMA StepSafe ==
  ASSUME Good, [Next]_vars
  PROVE  /\ Good'
         /\ \A t \in Tasks : disk.trash[t] # None /\ disk'.trash[t] = None =>
              disk'.tasks[t] # None \/ PurgeTask(t) \/ EmptyTrash
<1>1. ASSUME Safe
      PROVE  /\ Good'
             /\ \A t \in Tasks : disk.trash[t] # None /\ disk'.trash[t] = None =>
                  disk'.tasks[t] # None \/ PurgeTask(t) \/ EmptyTrash
  BY <1>1 DEF Safe, TrashSafe
<1>2. CASE TaskStep
  <2>1. PICK t \in Tasks :
          \/ DropTask(t) \/ RestoreTask(t) \/ \E p \in Option(Projects) : PutTask(t, p)
          \/ PurgeTask(t)
          \/ \E p \in Projects : SetTaskProject(t, p)
    BY <1>2 DEF TaskStep
  <2>2. CASE PurgeTask(t)
    BY <2>2, PurgesSafe
  <2> QED
    BY <1>1, <2>1, <2>2, TaskRecords, RecordsOneSafe, SetTaskProjectSafe
<1>3. CASE EventStep
  <2>1. PICK e \in Series :
          \/ DeleteEvent(e) \/ DeleteAll(e) \/ ShiftSeries(e)
          \/ \E at \in Slots : DeleteThis(e, at) \/ DeleteFollowing(e, at)
          \/ \E cal \in Calendars, p \in Option(Projects) :
               \/ PutEvent(e, cal, p)
               \/ UpdateAll(e, cal, p)
               \/ \E at \in Slots : UpdateThis(e, at, cal, p)
          \/ \E cal \in Calendars, p \in Option(Projects), at \in Slots, new \in Series :
               \E carried \in SUBSET {s \in Slots : s >= at /\ cache.series[e][s] # None} :
                 UpdateFollowing(e, at, new, cal, p, carried)
    BY <1>3 DEF EventStep
  <2>2. ASSUME NEW cal \in Calendars, NEW p \in Option(Projects), NEW at \in Slots,
               NEW new \in Series,
               NEW carried \in SUBSET {s \in Slots : s >= at /\ cache.series[e][s] # None},
               UpdateFollowing(e, at, new, cal, p, carried)
        PROVE  Safe
    <3>1. carried \in SUBSET Slots
      OBVIOUS
    <3> QED
      BY <2>2, <3>1, UpdateFollowingSafe
  <2> QED
    BY <1>1, <2>1, <2>2, EventRecords, RecordsOneSafe
<1>4. CASE ProjectStep
  <2>1. PICK p \in Projects :
          PutProject(p) \/ RestoreProject(p) \/ PurgeProject(p) \/ BeginDeleteProject(p)
    BY <1>4 DEF ProjectStep
  <2>2. CASE PurgeProject(p)
    BY <2>2, PurgesSafe
  <2> QED
    BY <1>1, <2>1, <2>2, PutProjectSafe, RestoreProjectSafe, BeginSafe
<1>5. CASE DeletionStep
  BY <1>1, <1>5, UnassignTaskSafe, UnassignEventSafe, FinishSafe DEF DeletionStep
<1>6. CASE EmptyTrash
  BY <1>6, PurgesSafe
<1>7. CASE Undo \/ Redo \/ Reload \/ Open \/ OthersStep
  BY <1>1, <1>7, UndoSafe, RedoSafe, ReloadSafe, OpenSafe, OthersSafe
<1>8. CASE UNCHANGED vars
  <2>1. UNCHANGED <<disk, cache, undo, redo, deleting, ops, faults, insync, past, future>>
    BY <1>8 DEF vars
  <2>2. StacksOK' /\ CountsOK' /\ disk' \in Disk /\ cache' \in Cache
    BY <2>1 DEF Good, StacksOK, CountsOK
  <2> QED
    BY <2>1, <2>2, ProjectsOf, QuietSafe, <1>1 DEF Safe
<1> QED
  BY <1>2, <1>3, <1>4, <1>5, <1>6, <1>7, <1>8 DEF Next

LEMMA AlwaysGood == Spec => []Good
<1>1. Good /\ [Next]_vars => Good'
  BY StepSafe
<1> QED
  BY InitGood, <1>1, PTL DEF Spec

-----------------------------------------------------------------------------
(* Whatever was stale before: what one step leaves stale, and that a task   *)
(* goes by way of the trash.                                                *)

NewTasks  == StaleTasks' \ StaleTasks
NewSeries == StaleSeries' \ StaleSeries
NewLists  == StaleLists' \ StaleLists

\* What FailuresStay and DeletedIsTrashed say of a step of this context.
Local ==
  /\ faults' = faults =>
       NewTasks = {} /\ NewLists = {} /\ \A e \in NewSeries : Displaced(e)
  /\ faults' # faults =>
       /\ AtMostOne(NewTasks) /\ AtMostOne(NewSeries)
       /\ NewTasks = {} \/ NewSeries = {}
       /\ NewLists = {} \/ (NewTasks = {} /\ NewSeries = {})
       /\ deleting = None =>
            /\ \A t \in NewTasks : disk'.tasks[t] # disk.tasks[t]
            /\ \A e \in NewSeries : disk'.series[e] # disk.series[e]

Trashes(d, c, x) ==
  \A t \in Tasks : c.tasks[t] = d.tasks[t] /\ d.tasks[t] # None /\ x.tasks[t] = None =>
                     x.trash[t] = d.tasks[t]

Gentle == Trashes(disk, cache, disk') /\ Local

LEMMA NewlyStale ==
  /\ \A t : t \in NewTasks <=> /\ t \in Tasks /\ cache.tasks[t] = disk.tasks[t]
                               /\ cache'.tasks[t] # disk'.tasks[t]
  /\ \A e : e \in NewSeries <=> /\ e \in Series /\ Mirrors(cache.series[e], disk.series[e])
                                /\ ~Mirrors(cache'.series[e], disk'.series[e])
  /\ (cache.projects = disk.projects => cache'.projects = disk'.projects) => NewLists = {}
  BY DEF NewTasks, NewSeries, NewLists, StaleTasks, StaleSeries, StaleLists, Mirrors

\* A step that is about one task,
LEMMA TaskLocal ==
  ASSUME NEW t \in Tasks,
         \A u \in Tasks : u # t => /\ disk'.tasks[u] = disk.tasks[u]
                                   /\ cache'.tasks[u] = cache.tasks[u],
         disk'.series = disk.series, cache'.series = cache.series,
         cache.projects = disk.projects => cache'.projects = disk'.projects,
         faults' = faults => cache'.tasks[t] = disk'.tasks[t],
         faults' # faults /\ deleting = None => cache'.tasks[t] = cache.tasks[t]
  PROVE  Local
<1>1. NewTasks \subseteq {t} /\ (faults' = faults => NewTasks = {})
  BY NewlyStale
<1>2. NewSeries = {} /\ NewLists = {}
  BY NewlyStale
<1>3. faults' # faults /\ deleting = None =>
        \A u \in NewTasks : disk'.tasks[u] # disk.tasks[u]
  BY <1>1, NewlyStale
<1> QED
  BY <1>1, <1>2, <1>3 DEF Local, AtMostOne

\* one that is about one series,
LEMMA SeriesLocal ==
  ASSUME NEW e \in Series,
         disk'.tasks = disk.tasks, cache'.tasks = cache.tasks,
         cache.projects = disk.projects => cache'.projects = disk'.projects,
         \A x \in Series : x # e /\ Mirrors(cache.series[x], disk.series[x]) =>
                             Mirrors(cache'.series[x], disk'.series[x]),
         faults' = faults /\ Mirrors(cache.series[e], disk.series[e]) =>
           Mirrors(cache'.series[e], disk'.series[e]) \/ Displaced(e),
         faults' # faults /\ deleting = None => cache'.series[e] = cache.series[e]
  PROVE  Local
<1>1. NewSeries \subseteq {e} /\ (faults' = faults => \A x \in NewSeries : Displaced(x))
  BY NewlyStale
<1>2. NewTasks = {} /\ NewLists = {}
  BY NewlyStale
<1>3. faults' # faults /\ deleting = None =>
        \A x \in NewSeries : disk'.series[x] # disk.series[x]
  BY <1>1, NewlyStale
<1> QED
  BY <1>1, <1>2, <1>3 DEF Local, AtMostOne

\* and one that is about the projects.
LEMMA ListLocal ==
  ASSUME disk'.tasks = disk.tasks, cache'.tasks = cache.tasks,
         disk'.series = disk.series, cache'.series = cache.series,
         faults' = faults /\ cache.projects = disk.projects =>
           cache'.projects = disk'.projects
  PROVE  Gentle
<1>1. NewTasks = {} /\ NewSeries = {} /\ (faults' = faults => NewLists = {})
  BY NewlyStale
<1> QED
  BY <1>1 DEF Gentle, Local, AtMostOne, Trashes

\* The disks that steps lead through.
Reach(steps) == {steps[i] : i \in 1..Len(steps)}

LEMMA ReachOf ==
  ASSUME NEW w, NEW a, NEW b, NEW c, w = <<a>> \/ w = <<a, b>> \/ w = <<a, b, c>>
  PROVE  \A x \in Reach(w) : x = a \/ x = b \/ x = c
<1> SUFFICES ASSUME NEW i \in 1..Len(w)
             PROVE  w[i] = a \/ w[i] = b \/ w[i] = c
  BY DEF Reach
<1>1. CASE w = <<a>>
  BY <1>1
<1>2. CASE w = <<a, b>>
  BY <1>2
<1>3. CASE w = <<a, b, c>>
  BY <1>3
<1> QED
  BY <1>1, <1>2, <1>3

LEMMA Reached ==
  ASSUME NEW d \in Disk, NEW w, Run(d, w)
  PROVE  /\ Last(w) \in Reach(w)
         /\ FailsAt(w) => disk' \in Reach(w)
         /\ \A x \in Reach(w) : x.projects = d.projects
<1>1. w \in Seq(Disk) /\ w # <<>> /\ \A i \in 1..Len(w) : Spares(d, w[i])
  BY RunFits
<1>2. Len(w) \in 1..Len(w)
  BY <1>1
<1>3. Last(w) \in Reach(w)
  BY <1>2 DEF Last, Reach
<1>4. FailsAt(w) => disk' \in Reach(w)
  BY <1>1 DEF FailsAt, Reach
<1>5. \A x \in Reach(w) : x.projects = d.projects
  BY <1>1 DEF Reach, Spares
<1> QED
  BY <1>3, <1>4, <1>5 DEF FailsAt

\* The steps of a snapshot are about one task,
LEMMA TaskTouches ==
  ASSUME NEW d \in Disk, NEW c \in Cache, NEW snap \in TaskSnapshot
  PROVE  LET steps == Steps(d, c, snap)
         IN /\ \A x \in Reach(steps) :
                 /\ x.series = d.series
                 /\ \A u \in Tasks : u # snap.uid => x.tasks[u] = d.tasks[u]
                 /\ Trashes(d, c, x)
            /\ Last(steps).tasks[snap.uid] = snap.val
<1> DEFINE t == snap.uid
           steps == Steps(d, c, snap)
           Near(x) == /\ x.series = d.series
                      /\ \A u \in Tasks : u # t => x.tasks[u] = d.tasks[u]
                      /\ Trashes(d, c, x)
<1>1. snap.kind = "task" /\ t \in Tasks /\ snap.val \in Option(Task)
  BY DEF TaskSnapshot
<1>2. Near(d)
  BY DEF Trashes
<1>3. CASE snap.val # None
  <2> DEFINE written == [d EXCEPT !.tasks[t] = snap.val]
             purged  == [written EXCEPT !.trash[t] = None]
  <2>1. /\ written \in Disk /\ written.series = d.series
        /\ written.tasks = [d.tasks EXCEPT ![t] = snap.val]
    BY <1>1, <1>3 DEF Disk
  <2>2. purged.series = d.series /\ purged.tasks = [d.tasks EXCEPT ![t] = snap.val]
    <3> HIDE DEF written
    <3> QED
      BY <2>1 DEF Disk
  <2>3. ASSUME NEW x, x.series = d.series, x.tasks = [d.tasks EXCEPT ![t] = snap.val]
        PROVE  Near(x)
    BY <1>1, <1>3, <2>3 DEF Trashes, Disk
  <2>4. steps = <<d, written>> \/ steps = <<d, written, purged>>
    BY <1>1, <1>3 DEF Steps, WriteTask
  <2> HIDE DEF written, purged, steps
  <2>5. Near(written) /\ Near(purged)
    BY <2>1, <2>2, <2>3
  <2>6. \A x \in Reach(steps) : x = d \/ x = written \/ x = purged
    BY <2>4, ReachOf
  <2>7. Last(steps).tasks[t] = snap.val
    <3>1. Last(steps) = written \/ Last(steps) = purged
      BY <2>4 DEF Last
    <3>2. Last(steps).tasks = [d.tasks EXCEPT ![t] = snap.val]
      BY <2>1, <2>2, <3>1
    <3> QED
      BY <1>1, <3>2 DEF Disk
  <2> HIDE DEF Near
  <2>8. \A x \in Reach(steps) : Near(x)
    BY <1>2, <2>5, <2>6
  <2> QED
    BY <2>7, <2>8 DEF Near, steps
<1>4. CASE snap.val = None
  <2> DEFINE trashed == IF c.tasks[t] = None THEN d
                        ELSE [d EXCEPT !.trash[t] = c.tasks[t]]
             done    == [trashed EXCEPT !.tasks[t] = None]
  <2>1. /\ trashed.series = d.series /\ trashed.tasks = d.tasks
        /\ c.tasks[t] # None => trashed.trash[t] = c.tasks[t]
    BY <1>1 DEF Disk
  <2>2. /\ done.series = d.series /\ done.tasks = [d.tasks EXCEPT ![t] = None]
        /\ done.trash = trashed.trash
    <3>1. done.tasks = [trashed.tasks EXCEPT ![t] = None] /\ done.series = trashed.series
          /\ done.trash = trashed.trash
      BY DEF Disk
    <3> HIDE DEF done, trashed
    <3> QED
      BY <2>1, <3>1
  <2> HIDE DEF trashed, done
  <2>3. Near(trashed) /\ Near(done)
    BY <1>1, <2>1, <2>2 DEF Trashes, Disk
  <2>4. steps = <<d, trashed, done>>
    BY <1>1, <1>4 DEF Steps, DeleteTask, trashed, done
  <2> HIDE DEF steps
  <2>5. \A x \in Reach(steps) : x = d \/ x = trashed \/ x = done
    BY <2>4, ReachOf
  <2>6. Last(steps).tasks[t] = None
    <3>1. Last(steps) = done
      BY <2>4 DEF Last
    <3> QED
      BY <1>1, <2>2, <3>1 DEF Disk
  <2> HIDE DEF Near
  <2>7. \A x \in Reach(steps) : Near(x)
    BY <1>2, <2>3, <2>5
  <2> QED
    BY <1>4, <2>6, <2>7 DEF Near, steps
<1> QED
  BY <1>1, <1>3, <1>4 DEF Option

LEMMA WriteTouches ==
  ASSUME NEW d \in Disk, NEW e \in Series, NEW f,
         NEW x \in Reach(WriteSeries(d, e, f)) \cup Reach(DeleteFile(d, e))
  PROVE  /\ x.tasks = d.tasks /\ x.trash = d.trash
         /\ \A y \in Series : y # e => x.series[y] = d.series[y]
<1> DEFINE gone    == [d EXCEPT !.series[e] = None]
           written == [d EXCEPT !.series[e] = f]
<1>1. /\ gone.tasks = d.tasks /\ gone.trash = d.trash
      /\ written.tasks = d.tasks /\ written.trash = d.trash
      /\ \A y \in Series : y # e => /\ gone.series[y] = d.series[y]
                                    /\ written.series[y] = d.series[y]
  BY DEF Disk
<1>2. \/ WriteSeries(d, e, f) = <<d, gone, written>>
      \/ WriteSeries(d, e, f) = <<d, written>>
  BY DEF WriteSeries
<1>3. DeleteFile(d, e) = <<d>> \/ DeleteFile(d, e) = <<d, gone>>
  BY DEF DeleteFile
<1> HIDE DEF gone, written
<1>4. CASE x \in Reach(WriteSeries(d, e, f))
  <2>1. x = d \/ x = gone \/ x = written
    <3>1. CASE WriteSeries(d, e, f) = <<d, gone, written>>
      BY <1>4, <3>1, ReachOf
    <3>2. CASE WriteSeries(d, e, f) = <<d, written>>
      BY <1>4, <3>2, ReachOf
    <3> QED
      BY <1>2, <3>1, <3>2
  <2> QED
    BY <1>1, <2>1
<1>5. CASE x \in Reach(DeleteFile(d, e))
  <2>1. x = d \/ x = gone
    <3>1. CASE DeleteFile(d, e) = <<d>>
      <4>1. x \in Reach(<<d>>)
        BY <1>5, <3>1
      <4>2. PICK i \in 1..Len(<<d>>) : x = <<d>>[i]
        BY <4>1 DEF Reach
      <4> QED
        BY <4>2
    <3>2. CASE DeleteFile(d, e) = <<d, gone>>
      <4>1. x \in Reach(<<d, gone>>)
        BY <1>5, <3>2
      <4>2. PICK i \in 1..Len(<<d, gone>>) : x = <<d, gone>>[i]
        BY <4>1 DEF Reach
      <4> QED
        BY <4>2
    <3> QED
      BY <1>3, <3>1, <3>2
  <2> QED
    BY <1>1, <2>1
<1> QED
  BY <1>4, <1>5

\* or about one series.
LEMMA SeriesTouches ==
  ASSUME NEW d \in Disk, NEW c \in Cache, NEW snap \in EventSnapshot \cup SeriesSnapshot,
         NEW x \in Reach(Steps(d, c, snap))
  PROVE  /\ snap.uid \in Series
         /\ x.tasks = d.tasks /\ x.trash = d.trash
         /\ \A y \in Series : y # snap.uid => x.series[y] = d.series[y]
<1>1. snap.uid \in Series
  BY DEF EventSnapshot, SeriesSnapshot
<1>2. \E f : \/ Steps(d, c, snap) = WriteSeries(d, snap.uid, f)
             \/ Steps(d, c, snap) = DeleteFile(d, snap.uid)
  <2>1. CASE snap \in EventSnapshot
    BY <2>1 DEF Steps, EventSnapshot, Upsert
  <2>2. CASE snap \in SeriesSnapshot
    BY <2>2 DEF Steps, SeriesSnapshot, PutSeries
  <2> QED
    BY <2>1, <2>2
<1> QED
  BY <1>1, <1>2, WriteTouches

-----------------------------------------------------------------------------
(* The steps and the cache of one snapshot, applied to d and c, which a      *)
(* change of the projects may have led to.                                   *)

Near(d, c) ==
  /\ d \in Disk /\ c \in Cache
  /\ d.tasks = disk.tasks /\ d.series = disk.series
  /\ c.tasks = cache.tasks /\ c.series = cache.series
  /\ cache.projects = disk.projects => c.projects = d.projects

LEMMA CachedTouches ==
  ASSUME NEW c \in Cache, NEW snap \in Snapshot
  PROVE  LET next == Cached(c, snap)
         IN /\ next.projects = c.projects
            /\ snap \in TaskSnapshot =>
                 /\ next.series = c.series /\ next.tasks[snap.uid] = snap.val
                 /\ \A u \in Tasks : u # snap.uid => next.tasks[u] = c.tasks[u]
            /\ snap \in EventSnapshot \cup SeriesSnapshot =>
                 /\ next.tasks = c.tasks
                 /\ \A y \in Series : y # snap.uid => next.series[y] = c.series[y]
<1>1. CASE snap \in TaskSnapshot
  <2>1. /\ Cached(c, snap) = [c EXCEPT !.tasks[snap.uid] = snap.val]
        /\ snap.kind = "task" /\ snap.uid \in Tasks
    BY <1>1 DEF TaskSnapshot, Cached
  <2>2. snap \notin EventSnapshot \cup SeriesSnapshot
    BY <2>1 DEF EventSnapshot, SeriesSnapshot
  <2> QED
    BY <2>1, <2>2 DEF Cache
<1>2. CASE snap \in EventSnapshot \cup SeriesSnapshot
  <2>1. \E new : Cached(c, snap) = [c EXCEPT !.series[snap.uid] = new]
    BY <1>2 DEF EventSnapshot, SeriesSnapshot, Cached
  <2>2. snap \notin TaskSnapshot
    BY <1>2 DEF TaskSnapshot, EventSnapshot, SeriesSnapshot
  <2> QED
    BY <2>1, <2>2 DEF Cache
<1> QED
  BY <1>1, <1>2 DEF Snapshot

\* A component put in the place of another.
LEMMA PlaceTaken ==
  ASSUME NEW snap \in EventSnapshot, TakesPlace(cache, snap), cache \in Cache,
         cache'.series[snap.uid] = Cached(cache, snap).series[snap.uid]
  PROVE  Displaced(snap.uid)
<1> DEFINE e   == snap.uid
           old == cache.series[e]
           s   == snap.val.slot
           v   == snap.val.event
<1>1. /\ snap.kind = "event" /\ e \in Series /\ snap.val # None
      /\ snap.val \in [slot : Parts, event : Event]
      /\ old # NoParts /\ First(old) # s /\ old \in CachedParts
  BY DEF EventSnapshot, TakesPlace, Option, Cache
<1>2. s \in Parts /\ v \in Event /\ v # None /\ snap.val = [slot |-> s, event |-> v]
  BY <1>1, Distinct
<1>3. cache'.series[e] = Replaced(old, snap.val)
  BY <1>1 DEF Cached, Cache
<1> HIDE DEF s, v, e
<1>4. Replaced(old, snap.val) = [[old EXCEPT ![First(old)] = None] EXCEPT ![s] = v]
  BY <1>1, <1>2 DEF Replaced
<1>5. cache'.series[e][s] = v
  BY <1>1, <1>2, <1>3, <1>4 DEF CachedParts
<1> QED
  BY <1>1, <1>2, <1>3, <1>5 DEF Displaced, e

LEMMA SuccessGentle ==
  ASSUME Good, NEW snap \in Snapshot, NEW d, NEW c, Near(d, c),
         disk' = Last(Steps(d, c, snap)), cache' = Cached(c, snap), faults' = faults
  PROVE  Gentle
<1>1. d \in Disk /\ c \in Cache /\ cache \in Cache
  BY DEF Near, Good
<1>2. Applied(d, c, snap)
  BY <1>1, SnapshotApplied
<1>3. Run(d, Steps(d, c, snap)) /\ Settles(d, c, snap)
  BY <1>2 DEF Applied
<1>4. disk' \in Reach(Steps(d, c, snap)) /\ disk'.projects = d.projects
  BY <1>1, <1>3, Reached
<1>5. cache.projects = disk.projects => cache'.projects = disk'.projects
  BY <1>1, <1>4, CachedTouches DEF Near
<1>6. CASE snap \in TaskSnapshot
  <2>1. snap.uid \in Tasks
    BY <1>6 DEF TaskSnapshot
  <2>2. /\ disk'.series = d.series /\ Trashes(d, c, disk')
        /\ \A u \in Tasks : u # snap.uid => disk'.tasks[u] = d.tasks[u]
        /\ disk'.tasks[snap.uid] = snap.val
    BY <1>1, <1>4, <1>6, TaskTouches
  <2>3. /\ cache'.series = c.series /\ cache'.tasks[snap.uid] = snap.val
        /\ \A u \in Tasks : u # snap.uid => cache'.tasks[u] = c.tasks[u]
    BY <1>1, <1>6, CachedTouches
  <2>4. Local
    BY <1>5, <2>1, <2>2, <2>3, TaskLocal DEF Near
  <2> QED
    BY <2>2, <2>4 DEF Gentle, Trashes, Near
<1>7. CASE snap \in EventSnapshot \cup SeriesSnapshot
  <2>1. /\ snap.uid \in Series /\ disk'.tasks = d.tasks
        /\ \A y \in Series : y # snap.uid => disk'.series[y] = d.series[y]
    BY <1>1, <1>4, <1>7, SeriesTouches
  <2>2. /\ cache'.tasks = c.tasks
        /\ \A y \in Series : y # snap.uid => cache'.series[y] = c.series[y]
    BY <1>1, <1>7, CachedTouches
  <2>3. snap.kind # "task"
    BY <1>7 DEF EventSnapshot, SeriesSnapshot
  <2>4. ASSUME TakesPlace(c, snap)
        PROVE  Displaced(snap.uid)
    <3>1. snap \in EventSnapshot
      BY <1>7, <2>4 DEF TakesPlace, SeriesSnapshot
    <3>2. TakesPlace(cache, snap)
      BY <2>4 DEF TakesPlace, Near
    <3>3. cache'.series[snap.uid] = Cached(cache, snap).series[snap.uid]
      <4>1. snap.kind = "event" /\ snap.val # None /\ snap.uid \in Series
        BY <2>1, <2>4 DEF TakesPlace
      <4>2. /\ Cached(c, snap) = [c EXCEPT !.series[snap.uid] = Replaced(@, snap.val)]
            /\ Cached(cache, snap) =
                 [cache EXCEPT !.series[snap.uid] = Replaced(@, snap.val)]
        BY <4>1 DEF Cached
      <4> QED
        BY <1>1, <4>1, <4>2 DEF Cache, Near
    <3> QED
      BY <1>1, <3>1, <3>2, <3>3, PlaceTaken
  <2>5. Mirrors(cache.series[snap.uid], disk.series[snap.uid]) =>
          Mirrors(cache'.series[snap.uid], disk'.series[snap.uid]) \/ Displaced(snap.uid)
    BY <1>3, <2>3, <2>4 DEF Settles, Near
  <2>6. Local
    BY <1>5, <2>1, <2>2, <2>5, SeriesLocal DEF Near
  <2> QED
    BY <2>1, <2>6 DEF Gentle, Trashes, Near
<1> QED
  BY <1>6, <1>7 DEF Snapshot

\* A failure leaves the cache at c.
LEMMA FailureGentle ==
  ASSUME Good, NEW snap \in Snapshot, NEW d, NEW c, Near(d, c),
         FailsAt(Steps(d, c, snap)), cache' = c
  PROVE  Gentle
<1>1. d \in Disk /\ c \in Cache
  BY DEF Near
<1>2. Run(d, Steps(d, c, snap))
  BY <1>1, SnapshotApplied DEF Applied
<1>3. disk' \in Reach(Steps(d, c, snap)) /\ disk'.projects = d.projects
  BY <1>1, <1>2, Reached
<1>4. cache.projects = disk.projects => cache'.projects = disk'.projects
  BY <1>3 DEF Near
<1>5. faults' # faults
  BY DEF FailsAt, Good, CountsOK
<1>6. CASE snap \in TaskSnapshot
  <2>1. snap.uid \in Tasks
    BY <1>6 DEF TaskSnapshot
  <2>2. /\ disk'.series = d.series /\ Trashes(d, c, disk')
        /\ \A u \in Tasks : u # snap.uid => disk'.tasks[u] = d.tasks[u]
    BY <1>1, <1>3, <1>6, TaskTouches
  <2>3. Local
    BY <1>4, <1>5, <2>1, <2>2, TaskLocal DEF Near
  <2> QED
    BY <2>2, <2>3 DEF Gentle, Trashes, Near
<1>7. CASE snap \in EventSnapshot \cup SeriesSnapshot
  <2>1. /\ snap.uid \in Series /\ disk'.tasks = d.tasks
        /\ \A y \in Series : y # snap.uid => disk'.series[y] = d.series[y]
    BY <1>1, <1>3, <1>7, SeriesTouches
  <2>2. Local
    BY <1>4, <1>5, <2>1, SeriesLocal DEF Near
  <2> QED
    BY <2>1, <2>2 DEF Gentle, Trashes, Near
<1> QED
  BY <1>6, <1>7 DEF Snapshot

LEMMA RecordGentle ==
  ASSUME Good, NEW fresh \in Snapshot, Record(fresh)
  PROVE  Gentle
<1> DEFINE snap == Stamped(fresh, ops + 1)
<1>1. snap \in Snapshot
  <2>1. ops + 1 \in Nat
    BY DEF Good, CountsOK
  <2> QED
    BY <2>1, StampedFits
<1>2. Near(disk, cache)
  BY DEF Near, Good
<1>3. \/ /\ disk' = Last(Steps(disk, cache, snap)) /\ cache' = Cached(cache, snap)
         /\ faults' = faults
      \/ FailsAt(Steps(disk, cache, snap)) /\ cache' = cache
  BY DEF Record
<1> HIDE DEF snap
<1> QED
  BY <1>1, <1>2, <1>3, SuccessGentle, FailureGentle

LEMMA UndoGentle ==
  ASSUME Good, Undo \/ Redo
  PROVE  Gentle
<1>1. Near(disk, cache)
  BY DEF Near, Good
<1>2. \E snap \in Snapshot :
        \/ /\ disk' = Last(Steps(disk, cache, snap)) /\ cache' = Cached(cache, snap)
           /\ faults' = faults
        \/ FailsAt(Steps(disk, cache, snap)) /\ cache' = cache
  <2>1. CASE Undo
    <3>1. Last(undo) \in Snapshot
      BY <2>1, FrontFits DEF Undo, Good, StacksOK
    <3> QED
      BY <2>1, <3>1 DEF Undo
  <2>2. CASE Redo
    <3>1. Last(redo) \in Snapshot
      BY <2>2, FrontFits DEF Redo, Good, StacksOK
    <3> QED
      BY <2>2, <3>1 DEF Redo
  <2> QED
    BY <2>1, <2>2
<1> QED
  BY <1>1, <1>2, SuccessGentle, FailureGentle

LEMMA SetTaskProjectGentle ==
  ASSUME Good, NEW t \in Tasks, NEW p \in Projects, SetTaskProject(t, p)
  PROVE  Gentle
<1> DEFINE added  == [disk EXCEPT !.projects = @ \cup {p}]
           cached == [cache EXCEPT !.projects = @ \cup {p}]
           snap   == [kind |-> "task", uid |-> t, val |-> [rev |-> ops + 1, project |-> p]]
<1>1. Near(added, cached)
  <2>1. /\ added \in Disk /\ added.tasks = disk.tasks /\ added.series = disk.series
        /\ added.projects = disk.projects \cup {p}
    BY DEF Good, Disk
  <2>2. /\ cached \in Cache /\ cached.tasks = cache.tasks
        /\ cached.series = cache.series /\ cached.projects = cache.projects \cup {p}
    BY DEF Good, Cache
  <2> HIDE DEF added, cached
  <2> QED
    BY <2>1, <2>2 DEF Near
<1>2. snap \in Snapshot
  <2>1. ops + 1 \in Nat
    BY DEF Good, CountsOK
  <2>2. [rev |-> ops + 1, project |-> p] \in Option(Task)
    BY <2>1 DEF Option, Task
  <2> QED
    BY <2>2 DEF Snapshot, TaskSnapshot
<1>3. \/ /\ disk' = Last(Steps(added, cached, snap)) /\ cache' = Cached(cached, snap)
         /\ faults' = faults
      \/ FailsAt(Steps(added, cached, snap)) /\ cache' = cached
  BY DEF SetTaskProject
<1> HIDE DEF added, cached, snap
<1> QED
  BY <1>1, <1>2, <1>3, SuccessGentle, FailureGentle

\* The head of a series that is cut in two mirrors its file before the tail,
\* under a uid of its own, is begun.
LEMMA UpdateFollowingGentle ==
  ASSUME Good, NEW e \in Series, NEW at \in Slots, NEW new \in Series,
         NEW cal \in Calendars, NEW p \in Option(Projects), NEW carried \in SUBSET Slots,
         UpdateFollowing(e, at, new, cal, p, carried)
  PROVE  Gentle
<1> DEFINE headParts == Before(cache.series[e], at)
           tailParts == [s \in Parts |->
                           IF s = Master THEN [rev |-> 0, project |-> p, cal |-> cal]
                           ELSE IF s \in carried THEN cache.series[e][s] ELSE None]
           head   == Stamped([kind |-> "series", uid |-> e, val |-> headParts], ops + 1)
           tail   == Stamped([kind |-> "series", uid |-> new, val |-> tailParts], ops + 1)
           disk1  == Last(Steps(disk, cache, head))
           cache1 == Cached(cache, head)
           second == Steps(disk1, cache1, tail)
<1>1. ops + 1 \in Nat /\ disk \in Disk /\ cache \in Cache /\ cache.series[e] \in CachedParts
  BY DEF Good, CountsOK, Cache
<1>2. e # new
  BY DEF UpdateFollowing, Found, Unused
<1>3. headParts \in CachedParts
  BY <1>1, BeforeFits
<1>4. tailParts \in CachedParts
  <2>1. [rev |-> 0, project |-> p, cal |-> cal] \in Event
    BY DEF Event
  <2> QED
    BY <1>1, <2>1 DEF CachedParts, Option
<1> HIDE DEF headParts, tailParts
<1>5. head \in SeriesSnapshot /\ tail \in SeriesSnapshot /\ head.uid = e /\ tail.uid = new
  <2>1. /\ [kind |-> "series", uid |-> e, val |-> headParts] \in SeriesSnapshot
        /\ [kind |-> "series", uid |-> new, val |-> tailParts] \in SeriesSnapshot
    BY <1>3, <1>4 DEF SeriesSnapshot, CachedParts
  <2>2. head.uid = e /\ tail.uid = new
    BY DEF Stamped
  <2> QED
    BY <1>1, <2>1, <2>2, StampedSeries
<1>6. \/ disk' = Last(second) /\ cache' = Cached(cache1, tail) /\ faults' = faults
      \/ FailsAt(Steps(disk, cache, head)) /\ cache' = cache
      \/ FailsAt(second) /\ cache' = cache1
  BY DEF UpdateFollowing, headParts, tailParts
<1> HIDE DEF head, tail
<1>7. head \in Snapshot /\ tail \in Snapshot /\ head.kind = "series" /\ tail.kind = "series"
  BY <1>5 DEF Snapshot, SeriesSnapshot
<1>8. Run(disk, Steps(disk, cache, head)) /\ cache1 \in Cache /\ Settles(disk, cache, head)
  BY <1>1, <1>7, SnapshotApplied DEF Applied
<1>9. disk1 \in Disk /\ disk1 \in Reach(Steps(disk, cache, head))
      /\ disk1.projects = disk.projects
  BY <1>1, <1>8, RunFits, Reached
<1>10. /\ disk1.tasks = disk.tasks
       /\ \A y \in Series : y # e => disk1.series[y] = disk.series[y]
  BY <1>1, <1>5, <1>9, SeriesTouches
<1>11. /\ cache1.tasks = cache.tasks /\ cache1.projects = cache.projects
       /\ \A y \in Series : y # e => cache1.series[y] = cache.series[y]
  BY <1>1, <1>5, <1>7, CachedTouches
<1>12. Mirrors(cache.series[e], disk.series[e]) => Mirrors(cache1.series[e], disk1.series[e])
  <2>1. ~TakesPlace(cache, head)
    BY <1>7 DEF TakesPlace
  <2> QED
    BY <1>5, <1>7, <1>8, <2>1 DEF Settles
<1>13. CASE FailsAt(Steps(disk, cache, head)) /\ cache' = cache
  <2>1. Near(disk, cache)
    BY DEF Near, Good
  <2> QED
    BY <1>7, <1>13, <2>1, FailureGentle
<1> HIDE DEF disk1, cache1
<1>14. Run(disk1, second) /\ Settles(disk1, cache1, tail)
  BY <1>7, <1>8, <1>9, SnapshotApplied DEF Applied
<1>15. ASSUME disk' \in Reach(second), cache'.tasks = cache1.tasks,
              cache'.projects = cache1.projects,
              \A y \in Series : y # new => cache'.series[y] = cache1.series[y],
              faults' = faults /\ Mirrors(cache1.series[new], disk1.series[new]) =>
                Mirrors(cache'.series[new], disk'.series[new]),
              faults' # faults => cache' = cache1
       PROVE  Gentle
  <2>1. /\ disk'.tasks = disk1.tasks /\ disk'.projects = disk1.projects
        /\ \A y \in Series : y # new => disk'.series[y] = disk1.series[y]
    BY <1>5, <1>8, <1>9, <1>14, <1>15, SeriesTouches, Reached
  <2>2. \A y \in Series : y # new /\ Mirrors(cache.series[y], disk.series[y]) =>
                            Mirrors(cache'.series[y], disk'.series[y])
    BY <1>10, <1>11, <1>12, <1>15, <2>1
  <2>3. cache1.series[new] = cache.series[new] /\ disk1.series[new] = disk.series[new]
    BY <1>2, <1>10, <1>11
  <2>4. Local
    BY <1>9, <1>10, <1>11, <1>15, <2>1, <2>2, <2>3, SeriesLocal
  <2> QED
    BY <1>10, <2>1, <2>4 DEF Gentle, Trashes
<1>16. CASE disk' = Last(second) /\ cache' = Cached(cache1, tail) /\ faults' = faults
  <2>1. disk' \in Reach(second)
    BY <1>9, <1>14, <1>16, Reached
  <2>2. /\ cache'.tasks = cache1.tasks /\ cache'.projects = cache1.projects
        /\ \A y \in Series : y # new => cache'.series[y] = cache1.series[y]
    BY <1>5, <1>7, <1>8, <1>16, CachedTouches
  <2>3. Mirrors(cache1.series[new], disk1.series[new]) =>
          Mirrors(cache'.series[new], disk'.series[new])
    <3>1. ~TakesPlace(cache1, tail)
      BY <1>7 DEF TakesPlace
    <3> QED
      BY <1>5, <1>7, <1>14, <1>16, <3>1 DEF Settles
  <2> HIDE DEF second
  <2> QED
    BY <1>15, <1>16, <2>1, <2>2, <2>3
<1>17. CASE FailsAt(second) /\ cache' = cache1
  <2>1. disk' \in Reach(second)
    BY <1>9, <1>14, <1>17, Reached
  <2>2. faults' # faults
    BY <1>17 DEF FailsAt, Good, CountsOK
  <2> HIDE DEF second
  <2> QED
    BY <1>15, <1>17, <2>1, <2>2
<1> HIDE DEF second
<1> QED
  BY <1>6, <1>13, <1>16, <1>17

\* An item of a project that is deleted: the cache is changed first.
LEMMA UnassignTaskGentle ==
  ASSUME Good, NEW t \in Tasks, UnassignTask(t)
  PROVE  Gentle
<1> DEFINE v == [rev |-> ops, project |-> None]
           written == [disk EXCEPT !.tasks[t] = v]
<1>1. v # None
  <2>1. v \in Task
    BY DEF Good, CountsOK, Task, Option
  <2> QED
    BY <2>1, VaultAssumption
<1>2. deleting # None /\ cache' = [cache EXCEPT !.tasks[t] = v]
  BY DEF UnassignTask
<1>3. \/ disk' = written /\ faults' = faults
      \/ disk' = disk /\ faults' # faults
  <2>1. Rewrite(<<disk, written>>)
    BY DEF UnassignTask
  <2>2. CASE disk' = Last(<<disk, written>>) /\ faults' = faults
    <3>1. \A w : w = <<disk, written>> => Last(w) = written
      <4> HIDE DEF written
      <4> QED
        BY DEF Last
    <3> QED
      BY <2>2, <3>1
  <2>3. CASE FailsAt(<<disk, written>>)
    <3>1. disk' = disk
      <4> HIDE DEF written
      <4> QED
        BY <2>3, FailedSteps
    <3>2. faults' # faults
      BY <2>3 DEF FailsAt, Good, CountsOK
    <3> QED
      BY <3>1, <3>2
  <2> HIDE DEF written
  <2> QED
    BY <2>1, <2>2, <2>3 DEF Rewrite
<1> HIDE DEF v
<1>4. /\ written.tasks = [disk.tasks EXCEPT ![t] = v]
      /\ written.series = disk.series /\ written.projects = disk.projects
  BY DEF Good, Disk
<1> HIDE DEF written
<1>5. /\ cache'.tasks = [cache.tasks EXCEPT ![t] = v]
      /\ cache'.series = cache.series /\ cache'.projects = cache.projects
  BY <1>2 DEF Good, Cache
<1>6. disk.tasks \in [Tasks -> Option(Task)] /\ cache.tasks \in [Tasks -> Option(Task)]
  BY DEF Good, Disk, Cache
<1>7. /\ disk'.series = disk.series /\ disk'.projects = disk.projects
      /\ \A u \in Tasks : u # t => /\ disk'.tasks[u] = disk.tasks[u]
                                   /\ cache'.tasks[u] = cache.tasks[u]
      /\ disk'.tasks[t] = disk.tasks[t] \/ disk'.tasks[t] = v
      /\ faults' = faults => cache'.tasks[t] = disk'.tasks[t]
  BY <1>3, <1>4, <1>5, <1>6
<1>8. Local
  BY <1>2, <1>5, <1>7, TaskLocal
<1>9. Trashes(disk, cache, disk')
  BY <1>1, <1>7 DEF Trashes
<1> QED
  BY <1>8, <1>9 DEF Gentle

LEMMA UnassignEventGentle ==
  ASSUME Good, NEW e \in Series, NEW s \in Parts, UnassignEvent(e, s)
  PROVE  Gentle
<1> DEFINE old == cache.series[e]
           v   == [old[s] EXCEPT !.rev = ops, !.project = None]
           f   == FileWith(disk.series[e], s, v)
           new == [old EXCEPT ![s] = v]
           steps == WriteSeries(disk, e, f)
<1>1. disk \in Disk /\ cache \in Cache /\ old \in CachedParts
      /\ disk.series[e] \in Option(SeriesFile)
  BY DEF Good, Cache, Disk
<1>2. v \in Event
  <2>1. old[s] # None
    BY DEF UnassignEvent, EventsIn
  <2>2. old[s] \in Event
    BY <1>1, <2>1 DEF CachedParts, Option
  <2>3. ops \in Nat /\ None \in Option(Projects)
    BY VaultAssumption DEF Good, CountsOK, Option
  <2> QED
    BY <2>2, <2>3 DEF Event
<1>3. deleting # None /\ cache' = [cache EXCEPT !.series[e][s] = v]
  BY DEF UnassignEvent
<1>4. Rewrite(steps)
  BY DEF UnassignEvent, Upsert, FileWith, Siblings
<1> HIDE DEF v
<1>5. f \in SeriesFile /\ (Mirrors(old, disk.series[e]) => Mirrors(new, f))
  BY <1>1, <1>2, PutMirrors
<1>6. cache' = [cache EXCEPT !.series[e] = new]
  BY <1>1, <1>3 DEF Cache
<1>7. new \in CachedParts
  BY <1>1, <1>2 DEF CachedParts, Option
<1> HIDE DEF f, new, old
<1>8. /\ cache'.tasks = cache.tasks /\ cache'.projects = cache.projects
      /\ cache'.series = [cache.series EXCEPT ![e] = new]
  BY <1>1, <1>6 DEF Cache
<1>9. Run(disk, steps) /\ Last(steps) = [disk EXCEPT !.series[e] = f]
  BY <1>1, <1>5, WriteSeriesRuns
<1>10. /\ disk' \in Reach(steps)
       /\ \/ disk' = Last(steps) /\ faults' = faults
          \/ faults' # faults
  <2>1. FailsAt(steps) => faults' # faults
    BY DEF FailsAt, Good, CountsOK
  <2> HIDE DEF steps
  <2> QED
    BY <1>1, <1>4, <1>9, <2>1, Reached DEF Rewrite
<1>11. /\ disk'.tasks = disk.tasks
       /\ \A y \in Series : y # e => disk'.series[y] = disk.series[y]
  BY <1>1, <1>10, WriteTouches
<1>12. disk'.projects = disk.projects
  BY <1>1, <1>9, <1>10, Reached
<1>13. \A y \in Series : y # e => cache'.series[y] = cache.series[y]
  BY <1>1, <1>8 DEF Cache
<1>14. faults' = faults /\ Mirrors(old, disk.series[e]) =>
         Mirrors(cache'.series[e], disk'.series[e])
  <2>1. cache'.series[e] = new
    BY <1>1, <1>8 DEF Cache
  <2>2. faults' = faults => disk'.series[e] = f
    BY <1>1, <1>9, <1>10 DEF Disk
  <2> QED
    BY <1>5, <2>1, <2>2
<1>15. Local
  BY <1>3, <1>8, <1>11, <1>12, <1>13, <1>14, SeriesLocal DEF old
<1> QED
  BY <1>11, <1>15 DEF Gentle, Trashes

\* Tasks and series stay as they are: projects, the trash.
LEMMA ProjectsGentle ==
  ASSUME Good,
         \/ EmptyTrash \/ FinishDeleteProject
         \/ \E t \in Tasks : PurgeTask(t)
         \/ \E p \in Projects : \/ PutProject(p) \/ RestoreProject(p) \/ PurgeProject(p)
                                \/ BeginDeleteProject(p)
  PROVE  Gentle
<1> DEFINE Quiet == /\ disk'.tasks = disk.tasks /\ disk'.series = disk.series
                    /\ cache'.tasks = cache.tasks /\ cache'.series = cache.series
           Lists == faults' = faults /\ cache.projects = disk.projects =>
                      cache'.projects = disk'.projects
<1>0. faults \in Nat
  BY DEF Good, CountsOK
<1>1. ASSUME EmptyTrash \/ (\E t \in Tasks : PurgeTask(t))
                        \/ (\E p \in Projects : PurgeProject(p) \/ BeginDeleteProject(p))
      PROVE  Quiet /\ Lists
  BY <1>1 DEF EmptyTrash, PurgeTask, PurgeProject, BeginDeleteProject, Good, Disk
<1>2. ASSUME NEW p \in Projects, PutProject(p)
      PROVE  Quiet /\ Lists
  <2>1. CASE FailsAt(<<disk, disk>>) /\ UNCHANGED cache
    <3>1. disk' = disk /\ faults' # faults
      BY <1>0, <2>1, FailedSteps DEF FailsAt
    <3> QED
      BY <2>1, <3>1
  <2>2. CASE /\ disk' = [disk EXCEPT !.projects = @ \cup {p}]
             /\ cache' = [cache EXCEPT !.projects = @ \cup {p}]
    BY <2>2 DEF Good, Disk, Cache
  <2> QED
    BY <1>2, <2>1, <2>2 DEF PutProject
<1>3. ASSUME NEW p \in Projects, RestoreProject(p)
      PROVE  Quiet /\ Lists
  <2> DEFINE restored == [disk EXCEPT !.projects = @ \cup {p}]
             done == [restored EXCEPT !.trashedProjects = @ \ {p}]
  <2>1. /\ restored.tasks = disk.tasks /\ restored.series = disk.series
        /\ restored.projects = disk.projects \cup {p} /\ restored \in Disk
    BY DEF Good, Disk
  <2>2. \/ disk' = done /\ cache' = [cache EXCEPT !.projects = @ \cup {p}]
        \/ FailsAt(<<disk, restored, done>>) /\ UNCHANGED cache
    BY <1>3 DEF RestoreProject
  <2> HIDE DEF restored
  <2>3. /\ done.tasks = disk.tasks /\ done.series = disk.series
        /\ done.projects = disk.projects \cup {p}
    BY <2>1 DEF Disk
  <2> HIDE DEF done
  <2>4. CASE disk' = done /\ cache' = [cache EXCEPT !.projects = @ \cup {p}]
    BY <2>3, <2>4 DEF Good, Cache
  <2>5. CASE FailsAt(<<disk, restored, done>>) /\ UNCHANGED cache
    <3>1. (disk' = disk \/ disk' = restored) /\ faults' # faults
      BY <1>0, <2>5, FailedSteps DEF FailsAt
    <3> QED
      BY <2>1, <2>5, <3>1
  <2> QED
    BY <2>2, <2>4, <2>5
<1>4. ASSUME FinishDeleteProject
      PROVE  Quiet /\ Lists
  <2>1. disk'.tasks = disk.tasks /\ disk'.series = disk.series
    BY <1>4, FinishSafe
  <2>2. cache'.tasks = cache.tasks /\ cache'.series = cache.series
    BY <1>4 DEF FinishDeleteProject, Good, Cache
  <2> DEFINE trashed == IF deleting \in cache.projects
                        THEN [disk EXCEPT !.trashedProjects = @ \cup {deleting}] ELSE disk
             done == [trashed EXCEPT !.projects = @ \ {deleting}]
  <2>3. \/ disk' = done /\ cache' = [cache EXCEPT !.projects = @ \ {deleting}]
        \/ FailsAt(<<disk, trashed, done>>)
    BY <1>4 DEF FinishDeleteProject
  <2>4. /\ trashed.projects = disk.projects
        /\ trashed \in [projects : {disk.projects}, tasks : {disk.tasks},
                        series : {disk.series}, trash : {disk.trash},
                        trashedProjects : SUBSET (Projects \cup {deleting})]
    BY DEF Good, Disk
  <2> HIDE DEF trashed
  <2>5. done.projects = disk.projects \ {deleting}
    BY <2>4
  <2> HIDE DEF done
  <2>6. FailsAt(<<disk, trashed, done>>) => faults' # faults
    BY <1>0 DEF FailsAt
  <2> QED
    BY <2>1, <2>2, <2>3, <2>5, <2>6 DEF Good, Cache
<1> QED
  BY <1>1, <1>2, <1>3, <1>4, ListLocal

LEMMA LoadGentle ==
  ASSUME Good, cache' = Loaded(disk), UNCHANGED <<disk, faults>>
  PROVE  Gentle
<1>1. InStep(disk', cache')
  BY LoadedFits DEF Good
<1>2. NewTasks = {} /\ NewSeries = {} /\ NewLists = {}
  BY <1>1, NewlyStale DEF InStep
<1> QED
  BY <1>2 DEF Gentle, Local, Trashes

LEMMA StepGentle ==
  ASSUME Good, Next
  PROVE  Gentle \/ OthersStep
<1>1. CASE TaskStep
  <2>1. PICK t \in Tasks :
          \/ DropTask(t) \/ RestoreTask(t) \/ \E p \in Option(Projects) : PutTask(t, p)
          \/ PurgeTask(t)
          \/ \E p \in Projects : SetTaskProject(t, p)
    BY <1>1 DEF TaskStep
  <2>2. RecordsOne => Gentle
    BY RecordGentle DEF RecordsOne
  <2> QED
    BY <2>1, <2>2, TaskRecords, SetTaskProjectGentle, ProjectsGentle
<1>2. CASE EventStep
  <2>1. PICK e \in Series :
          \/ DeleteEvent(e) \/ DeleteAll(e) \/ ShiftSeries(e)
          \/ \E at \in Slots : DeleteThis(e, at) \/ DeleteFollowing(e, at)
          \/ \E cal \in Calendars, p \in Option(Projects) :
               \/ PutEvent(e, cal, p)
               \/ UpdateAll(e, cal, p)
               \/ \E at \in Slots : UpdateThis(e, at, cal, p)
          \/ \E cal \in Calendars, p \in Option(Projects), at \in Slots, new \in Series :
               \E carried \in SUBSET {s \in Slots : s >= at /\ cache.series[e][s] # None} :
                 UpdateFollowing(e, at, new, cal, p, carried)
    BY <1>2 DEF EventStep
  <2>2. ASSUME NEW cal \in Calendars, NEW p \in Option(Projects), NEW at \in Slots,
               NEW new \in Series,
               NEW carried \in SUBSET {s \in Slots : s >= at /\ cache.series[e][s] # None},
               UpdateFollowing(e, at, new, cal, p, carried)
        PROVE  Gentle
    <3>1. carried \in SUBSET Slots
      OBVIOUS
    <3> QED
      BY <2>2, <3>1, UpdateFollowingGentle
  <2>3. RecordsOne => Gentle
    BY RecordGentle DEF RecordsOne
  <2> QED
    BY <2>1, <2>2, <2>3, EventRecords
<1>3. CASE ProjectStep \/ EmptyTrash
  BY <1>3, ProjectsGentle DEF ProjectStep
<1>4. CASE DeletionStep
  BY <1>4, UnassignTaskGentle, UnassignEventGentle, ProjectsGentle DEF DeletionStep
<1>5. CASE Undo \/ Redo
  BY <1>5, UndoGentle
<1>6. CASE Reload \/ Open
  BY <1>6, LoadGentle DEF Reload, Open
<1> QED
  BY <1>1, <1>2, <1>3, <1>4, <1>5, <1>6 DEF Next

\* The others drop a task only by deleting its file.
LEMMA OthersKeep ==
  ASSUME Good, OthersStep, NEW t \in Tasks, disk.tasks[t] # None, disk'.tasks[t] = None
  PROVE  OthersDeleteTask(t)
<1>0. disk \in Disk
  BY DEF Good
<1>1. ASSUME NEW u \in Tasks, OthersDeleteTask(u)
      PROVE  OthersDeleteTask(t)
  <2>1. u = t
    BY <1>0, <1>1 DEF OthersDeleteTask, Disk
  <2> QED
    BY <1>1, <2>1
<1>2. ASSUME NEW u \in Tasks, NEW p \in Option(Projects), OthersPutTask(u, p)
      PROVE  FALSE
  <2>1. [rev |-> ops + 1, project |-> p] # None
    <3>1. [rev |-> ops + 1, project |-> p] \in Task
      BY DEF Good, CountsOK, Task
    <3> QED
      BY <3>1, VaultAssumption
  <2> QED
    BY <1>0, <1>2, <2>1 DEF OthersPutTask, Disk
<1>3. ASSUME NEW e \in Series,
             \/ OthersDeleteSeries(e)
             \/ \E cal \in Calendars, S \in (SUBSET Parts) \ {{}}, p \in Option(Projects) :
                  OthersPutSeries(e, cal, S, p)
      PROVE  FALSE
  BY <1>0, <1>3 DEF OthersDeleteSeries, OthersPutSeries, Disk
<1> QED
  BY <1>1, <1>2, <1>3 DEF OthersStep

\* Reload, restart, undo, redo, a deletion half done: as long as nobody else
\* writes and nothing fails, the cache is what a load of the files would give;
\* and a file operation that fails, at whichever of its accesses and whatever had
\* gone stale before, sets apart the one item it was at (context.rs: apply,
\* record, update_occurrence, delete_project, reload).
THEOREM CacheStands == Spec => Consistent
<1>1. Good => TypeOK /\ CacheIsDisk
  BY GoodIs DEF IInv
<1>2. Good /\ [Next]_vars =>
        [LET tasks  == StaleTasks' \ StaleTasks
             series == StaleSeries' \ StaleSeries
             lists  == StaleLists' \ StaleLists
         IN ~OthersStep =>
           /\ faults' = faults =>
                tasks = {} /\ lists = {} /\ \A e \in series : Displaced(e)
           /\ faults' # faults =>
                /\ AtMostOne(tasks) /\ AtMostOne(series)
                /\ tasks = {} \/ series = {}
                /\ lists = {} \/ (tasks = {} /\ series = {})
                /\ deleting = None =>
                     /\ \A t \in tasks : disk'.tasks[t] # disk.tasks[t]
                     /\ \A e \in series : disk'.series[e] # disk.series[e]]_vars
  BY StepGentle DEF Gentle, Local, NewTasks, NewSeries, NewLists
<1> QED
  BY AlwaysGood, <1>1, <1>2, PTL DEF Spec, Consistent, FailuresStay

\* An edit of the series leaves the overrides in the file as they are, also when
\* a file operation fails on the way.
LEMMA EditKeeps ==
  ASSUME Good, NEW e \in Series, NEW cal \in Calendars, NEW p \in Option(Projects),
         PutEvent(e, cal, p), disk.series[e] # None, disk'.series[e] # None
  PROVE  \A s \in Slots : disk'.series[e].parts[s] = disk.series[e].parts[s]
<1> DEFINE v     == [rev |-> 0, project |-> p, cal |-> cal]
           fresh == [kind |-> "event", uid |-> e, val |-> [slot |-> Master, event |-> v]]
           snap  == Stamped(fresh, ops + 1)
           w     == snap.val.event
           f     == FileWith(disk.series[e], Master, w)
           steps == Steps(disk, cache, snap)
<1>0. fresh.val # None
  <2>1. [slot |-> Master, event |-> v] \in [slot : Parts, event : Event]
    BY DEF Parts, Event
  <2> QED
    BY <2>1, Distinct
<1>1. snap = [fresh EXCEPT !.val.event.rev = ops + 1]
  BY <1>0 DEF Stamped
<1>2. /\ snap.kind = "event" /\ snap.uid = e /\ snap.val.slot = Master
      /\ snap.val = [slot |-> Master, event |-> w]
      /\ w = [rev |-> ops + 1, project |-> p, cal |-> cal]
  BY <1>1
<1>3. w \in Event /\ snap.val # None
  <2>1. ops + 1 \in Nat
    BY DEF Good, CountsOK
  <2>2. w \in Event
    BY <1>2, <2>1 DEF Event
  <2>3. snap.val \in [slot : Parts, event : Event]
    BY <1>2, <2>2 DEF Parts
  <2> QED
    BY <2>2, <2>3, Distinct
<1> HIDE DEF w, snap
<1>4. steps = WriteSeries(disk, e, f)
  <2>1. steps = Upsert(disk, e, Master, w)
    BY <1>2, <1>3 DEF Steps
  <2> QED
    BY <2>1 DEF Upsert, FileWith, Siblings
<1>5. Master \in Parts /\ \A s \in Slots : s \in Parts /\ s # Master
  BY VaultAssumption DEF Parts, Master
<1>6. disk \in Disk /\ disk.series[e] \in SeriesFile
  BY DEF Good, Disk, Option
<1>7. \A s \in Slots : f.parts[s] = disk.series[e].parts[s]
  <2>1. disk.series[e].parts \in [Parts -> Option(Component)]
    BY <1>6 DEF SeriesFile
  <2> QED
    BY <1>5, <2>1 DEF FileWith, Siblings
<1> HIDE DEF f
<1>8. \/ disk' = Last(steps)
      \/ FailsAt(steps)
  BY DEF PutEvent, Put, Record, snap
<1>9. CASE disk' = Last(steps)
  <2>1. f \in SeriesFile
    <3>1. disk.series[e] \in Option(SeriesFile) /\ cache.series[e] \in CachedParts
      BY <1>6 DEF Option, Good, Cache
    <3> QED
      BY <1>3, <1>5, <3>1, PutMirrors DEF f
  <2>2. disk' = [disk EXCEPT !.series[e] = f]
    BY <1>4, <1>6, <1>9, <2>1, WriteSeriesRuns
  <2>3. disk'.series[e] = f
    BY <1>6, <2>2 DEF Disk
  <2> QED
    BY <1>7, <2>3
<1>10. CASE FailsAt(steps)
  <2> DEFINE gone    == [disk EXCEPT !.series[e] = None]
             written == [disk EXCEPT !.series[e] = f]
  <2>1. steps = <<disk, gone, written>> \/ steps = <<disk, written>>
    BY <1>4 DEF WriteSeries
  <2>2. gone.series[e] = None
    BY <1>6 DEF Disk
  <2> HIDE DEF gone, written, steps
  <2>3. disk' = disk \/ disk' = gone
    BY <1>10, <2>1, FailedSteps
  <2>4. disk' = disk
    BY <2>2, <2>3
  <2> QED
    BY <2>4
<1> QED
  BY <1>8, <1>9, <1>10

\* Nothing of a user's is dropped for good: a task goes by way of the trash, a
\* trashed copy by a purge or because the task is live again, whatever fails,
\* and an edit keeps the overrides it has not seen.
THEOREM NothingIsLost == Spec => NothingDropped
<1>0. ASSUME Good, Next, NEW t \in Tasks,
             cache.tasks[t] = disk.tasks[t], disk.tasks[t] # None, disk'.tasks[t] = None,
             ~OthersDeleteTask(t)
      PROVE  disk'.trash[t] = disk.tasks[t]
  <2>1. Gentle
    BY <1>0, StepGentle, OthersKeep
  <2> QED
    BY <1>0, <2>1 DEF Gentle, Trashes
<1>1. Good /\ [Next]_vars =>
        [\A t \in Tasks :
           cache.tasks[t] = disk.tasks[t] /\ disk.tasks[t] # None
             /\ disk'.tasks[t] = None /\ ~OthersDeleteTask(t) =>
           disk'.trash[t] = disk.tasks[t]]_vars
  BY <1>0
<1>2. Good /\ [Next]_vars =>
        [\A t \in Tasks :
           disk.trash[t] # None /\ disk'.trash[t] = None =>
             disk'.tasks[t] # None \/ PurgeTask(t) \/ EmptyTrash]_vars
  BY StepSafe
<1>3. Good /\ [Next]_vars =>
        [\A e \in Series, cal \in Calendars, p \in Option(Projects) :
           PutEvent(e, cal, p) /\ disk.series[e] # None /\ disk'.series[e] # None =>
             \A s \in Slots : disk'.series[e].parts[s] = disk.series[e].parts[s]]_vars
  BY EditKeeps
<1> QED
  BY AlwaysGood, <1>1, <1>2, <1>3, PTL
     DEF Spec, NothingDropped, DeletedIsTrashed, TrashKept, EditKeepsOverrides

\* A project whose deletion succeeded is referred to by no file, provided the
\* cache was up to date: what delete_project went through was all there is
\* (context.rs:425-427).
THEOREM DeletedUnassigned == Spec => ProjectUnassigned
<1>1. ASSUME Good, insync, FinishDeleteProject, NEW p \in Projects, Deleted(p)
      PROVE  Unreferenced(p)'
  <2>1. /\ disk'.tasks = disk.tasks /\ disk'.series = disk.series
        /\ InStep(disk, cache) /\ disk \in Disk /\ cache \in Cache
    BY <1>1, FinishSafe DEF Good
  <2>2. TasksIn(p) = {} /\ EventsIn(p) = {}
    BY <1>1 DEF FinishDeleteProject, Deleted
  <2>3. \A t \in Tasks : disk.tasks[t] # None => disk.tasks[t].project # p
    BY <2>1, <2>2 DEF TasksIn, InStep
  <2>4. ASSUME NEW e \in Series, disk.series[e] # None, NEW s \in Parts,
               disk.series[e].parts[s] # None
        PROVE  disk.series[e].parts[s].project # p
    <3>1. /\ disk.series[e] \in SeriesFile /\ cache.series[e] \in CachedParts
          /\ Mirrors(cache.series[e], disk.series[e])
      BY <2>1, <2>4 DEF Disk, Cache, Option, InStep
    <3>2. /\ cache.series[e][s] # None
          /\ Clean(cache.series[e][s]) = disk.series[e].parts[s]
      <4> DEFINE c == cache.series[e]
                 f == disk.series[e]
      <4>1. f.parts[s] # None /\ f \in SeriesFile /\ c \in CachedParts /\ Mirrors(c, f)
        BY <2>4, <3>1
      <4> HIDE DEF c, f
      <4>2. c[s] # None /\ Clean(c[s]) = f.parts[s]
        BY <4>1, MirrorsFile
      <4> QED
        BY <4>2 DEF c, f
    <3>3. cache.series[e][s].project # p
      <4>1. <<e, s>> \notin EventsIn(p)
        BY <2>2
      <4>2. <<e, s>> \in Series \X Parts /\ <<e, s>>[1] = e /\ <<e, s>>[2] = s
        OBVIOUS
      <4> QED
        BY <3>2, <4>1, <4>2 DEF EventsIn
    <3>4. Clean(cache.series[e][s]).project = cache.series[e][s].project
      BY DEF Clean
    <3> QED
      BY <3>2, <3>3, <3>4
  <2> QED
    BY <2>1, <2>3, <2>4 DEF Unreferenced
<1>2. Good /\ [Next]_vars =>
        [\A p \in Projects :
           insync /\ FinishDeleteProject /\ Deleted(p) => Unreferenced(p)']_vars
  BY <1>1
<1> QED
  BY AlwaysGood, <1>2, PTL DEF Spec, ProjectUnassigned

-----------------------------------------------------------------------------
(***************************************************************************)
(* Undo and redo.  Each entry of a stack that the history vouches for      *)
(* leads back from the files the entry above it leads to - from those of   *)
(* now, if it is the last - whatever the rest of the disk and the cache    *)
(* are by then (Chained).                                                  *)
(***************************************************************************)

\* SameButLostParts, from any disk d.
LostOrSame(d, x, was) ==
  /\ x.tasks = was.tasks
  /\ \A e \in Series :
       \/ x.series[e] = was.series[e]
       \/ /\ x.series[e] # None /\ was.series[e] # None /\ d.series[e] = None
          /\ x.series[e].cal = was.series[e].cal
          /\ \E s \in Parts : s = First(was.series[e].parts) /\
               x.series[e].parts = [NoParts EXCEPT ![s] = was.series[e].parts[s]]

Leads(now, snap, was) ==
  \A d \in Disk, c \in Cache :
    Live(d) = now => LostOrSame(d, Live(Last(Steps(d, c, snap))), was)

ChainTo(stack, hist, now) ==
  \A i \in 1..Len(stack) :
    LET above == IF i = Len(stack) THEN now ELSE hist[i + 1]
    IN hist[i] # None /\ above # None => Leads(above, stack[i], hist[i])

Chained ==
  deleting = None => ChainTo(undo, past, Live(disk)) /\ ChainTo(redo, future, Live(disk))

LEMMA ChainPush ==
  ASSUME NEW stack \in Seq(Snapshot), NEW hist \in Seq(Known0), Len(hist) = Len(stack),
         NEW now, NEW then, ChainTo(stack, hist, now),
         NEW inv \in Snapshot, NEW k \in Known0,
         k # None => k = now /\ Leads(then, inv, now)
  PROVE  ChainTo(Append(stack, inv), Append(hist, k), then)
<1> DEFINE longer == Append(stack, inv)
           known  == Append(hist, k)
           n      == Len(stack)
<1>1. /\ n \in Nat /\ Len(longer) = n + 1
      /\ \A i \in 1..n : longer[i] = stack[i] /\ known[i] = hist[i]
      /\ longer[n + 1] = inv /\ known[n + 1] = k
  OBVIOUS
<1> HIDE DEF longer, known
<1>2. ASSUME NEW i \in 1..(n + 1), known[i] # None,
             (IF i = n + 1 THEN then ELSE known[i + 1]) # None
      PROVE  Leads(IF i = n + 1 THEN then ELSE known[i + 1], longer[i], known[i])
  <2>1. CASE i = n + 1
    BY <1>1, <1>2, <2>1
  <2>2. CASE i = n
    <3>1. i \in 1..n /\ i # n + 1 /\ i + 1 = n + 1
      BY <1>1, <1>2, <2>2
    <3>2. k # None
      BY <1>1, <1>2, <3>1
    <3>3. hist[i] # None /\ k = now
      BY <1>1, <1>2, <3>1, <3>2
    <3>4. Leads(now, stack[i], hist[i])
      BY <2>2, <3>1, <3>2, <3>3 DEF ChainTo
    <3> QED
      BY <1>1, <3>1, <3>3, <3>4
  <2>3. CASE i \in 1..(n - 1)
    <3>1. i \in 1..n /\ i # n /\ i # n + 1 /\ i + 1 \in 1..n
      BY <1>1, <2>3
    <3>2. hist[i] # None /\ hist[i + 1] # None
      BY <1>1, <1>2, <3>1
    <3>3. Leads(hist[i + 1], stack[i], hist[i])
      BY <3>1, <3>2 DEF ChainTo
    <3> QED
      BY <1>1, <3>1, <3>3
  <2>4. i = n + 1 \/ i = n \/ i \in 1..(n - 1)
    BY <1>1
  <2> QED
    BY <2>1, <2>2, <2>3, <2>4
<1> QED
  BY <1>1, <1>2 DEF ChainTo, longer, known

LEMMA ChainForget ==
  ASSUME NEW stack \in Seq(Snapshot), NEW hist \in Seq(Known0), Len(hist) = Len(stack),
         NEW now
  PROVE  ChainTo(stack, Unknown(hist), now)
<1>1. \A i \in 1..Len(stack) : Unknown(hist)[i] = None
  BY DEF Unknown
<1> QED
  BY <1>1 DEF ChainTo

LEMMA ChainPop ==
  ASSUME NEW stack \in Seq(Snapshot), NEW hist \in Seq(Known0), Len(hist) = Len(stack),
         stack # <<>>, NEW now, ChainTo(stack, hist, now)
  PROVE  ChainTo(Front(stack), Front(hist), Last(hist))
<1> DEFINE n == Len(stack)
<1>1. /\ n \in Nat \ {0} /\ Len(Front(stack)) = n - 1
      /\ Last(hist) = hist[n]
  BY FrontFits DEF Last
<1>2. \A i \in 1..(n - 1) : Front(stack)[i] = stack[i] /\ Front(hist)[i] = hist[i]
  BY <1>1 DEF Front
<1> HIDE DEF n
<1>3. ASSUME NEW i \in 1..(n - 1), Front(hist)[i] # None,
             (IF i = n - 1 THEN Last(hist) ELSE Front(hist)[i + 1]) # None
      PROVE  Leads(IF i = n - 1 THEN Last(hist) ELSE Front(hist)[i + 1],
                   Front(stack)[i], Front(hist)[i])
  <2>1. i \in 1..n /\ i # n /\ (i # n - 1 => i + 1 \in 1..(n - 1))
    BY <1>1
  <2>2. (IF i = n - 1 THEN Last(hist) ELSE Front(hist)[i + 1]) = hist[i + 1]
    BY <1>1, <1>2, <2>1
  <2>3. hist[i] # None /\ hist[i + 1] # None
    BY <1>2, <1>3, <2>2
  <2>4. Leads(hist[i + 1], stack[i], hist[i])
    BY <2>1, <2>3 DEF ChainTo, n
  <2> QED
    BY <1>2, <2>2, <2>4
<1> QED
  BY <1>1, <1>3 DEF ChainTo

\* What a snapshot makes of its file.
Result(f, snap) ==
  IF snap.kind = "event"
  THEN IF snap.val = None THEN None ELSE FileWith(f, snap.val.slot, snap.val.event)
  ELSE IF snap.val = NoParts THEN None ELSE FileOf(snap.val)

LEMMA TaskResult ==
  ASSUME NEW d \in Disk, NEW c \in Cache, NEW snap \in TaskSnapshot
  PROVE  /\ Last(Steps(d, c, snap)).tasks = [d.tasks EXCEPT ![snap.uid] = snap.val]
         /\ Last(Steps(d, c, snap)).series = d.series
<1>1. snap.kind = "task" /\ snap.uid \in Tasks /\ snap.val \in Option(Task)
  BY DEF TaskSnapshot
<1>2. CASE snap.val # None
  <2>1. Steps(d, c, snap) = WriteTask(d, snap.uid, snap.val)
    BY <1>1, <1>2 DEF Steps
  <2>2. snap.val \in Task
    BY <1>1, <1>2 DEF Option
  <2> QED
    BY <1>1, <2>1, <2>2, WriteTaskRuns
<1>3. CASE snap.val = None
  <2>1. Steps(d, c, snap) = DeleteTask(d, c, snap.uid)
    BY <1>1, <1>3 DEF Steps
  <2> QED
    BY <1>1, <1>3, <2>1, DeleteTaskRuns
<1> QED
  BY <1>2, <1>3

LEMMA SeriesResult ==
  ASSUME NEW d \in Disk, NEW c \in Cache, NEW snap \in EventSnapshot \cup SeriesSnapshot
  PROVE  /\ Last(Steps(d, c, snap)).tasks = d.tasks
         /\ Last(Steps(d, c, snap)).series =
              [d.series EXCEPT ![snap.uid] = Result(d.series[snap.uid], snap)]
         /\ Result(d.series[snap.uid], snap) \in Option(SeriesFile)
<1> DEFINE e == snap.uid
           r == Result(d.series[e], snap)
<1>1. e \in Series /\ d.series[e] \in Option(SeriesFile) /\ c.series[e] \in CachedParts
  BY DEF EventSnapshot, SeriesSnapshot, Disk, Cache
<1>2. r \in Option(SeriesFile) /\ Last(Steps(d, c, snap)) = [d EXCEPT !.series[e] = r]
  <2>1. CASE snap \in EventSnapshot /\ snap.val # None
    <3>1. /\ snap.kind = "event" /\ snap.val.slot \in Parts /\ snap.val.event \in Event
      BY <2>1 DEF EventSnapshot, Option
    <3>2. r = FileWith(d.series[e], snap.val.slot, snap.val.event)
      BY <2>1, <3>1 DEF Result
    <3>3. Steps(d, c, snap) = Upsert(d, e, snap.val.slot, snap.val.event)
      BY <2>1, <3>1 DEF Steps
    <3>4. Steps(d, c, snap) = WriteSeries(d, e, r)
      BY <3>2, <3>3 DEF Upsert, FileWith, Siblings
    <3>5. r \in SeriesFile
      BY <1>1, <3>1, <3>2, PutMirrors
    <3> QED
      BY <1>1, <3>4, <3>5, WriteSeriesRuns DEF Option
  <2>2. CASE snap \in SeriesSnapshot /\ snap.val # NoParts
    <3>1. snap.kind = "series" /\ snap.val \in CachedParts
      BY <2>2 DEF SeriesSnapshot, CachedParts
    <3>2. r = FileOf(snap.val)
      BY <2>2, <3>1 DEF Result
    <3>3. Steps(d, c, snap) = PutSeries(d, e, snap.val)
      BY <2>2, <3>1 DEF Steps
    <3>4. Steps(d, c, snap) = WriteSeries(d, e, r)
      BY <3>2, <3>3 DEF PutSeries, FileOf
    <3>5. r \in SeriesFile
      BY <2>2, <3>1, <3>2, SeriesMirrors
    <3> QED
      BY <1>1, <3>4, <3>5, WriteSeriesRuns DEF Option
  <2>3. CASE \/ snap \in EventSnapshot /\ snap.val = None
             \/ snap \in SeriesSnapshot /\ snap.val = NoParts
    <3>1. \/ snap.kind = "event" /\ snap.val = None
          \/ snap.kind = "series" /\ snap.val = NoParts
      BY <2>3 DEF EventSnapshot, SeriesSnapshot
    <3>2. Steps(d, c, snap) = DeleteFile(d, e) /\ r = None
      BY <3>1 DEF Steps, Result
    <3> QED
      BY <1>1, <3>2, DeleteFileRuns DEF Option
  <2> QED
    BY <2>1, <2>2, <2>3
<1> HIDE DEF r, e
<1> QED
  BY <1>2 DEF Disk, e, r

\* The first component is the same in the cache and in the file.
LEMMA SameFirst ==
  ASSUME NEW c \in CachedParts, c # NoParts, NEW f \in SeriesFile, Mirrors(c, f)
  PROVE  First(f.parts) = First(c)
<1> DEFINE FirstIn(x) == /\ x \in Parts /\ c[x] # None
                         /\ \A r \in Parts : c[r] # None => x <= r
<1>1. \A r \in Parts : c[r] # None <=> f.parts[r] # None
  <2>1. \A r \in Parts : c[r] = None <=> f.parts[r] = None
    BY MirrorsFile
  <2> QED
    BY <2>1
<1>2. \A x \in Parts : /\ f.parts[x] # None /\ \A r \in Parts : f.parts[r] # None => x <= r
                      <=> c[x] # None /\ \A r \in Parts : c[r] # None => x <= r
  BY <1>1
<1>3. FirstIn(First(c))
  BY FirstIsFirst
<1>4. \A x, y : FirstIn(x) /\ FirstIn(y) => x = y
  BY VaultAssumption DEF Parts, Master
<1>5. FirstIn(First(f.parts))
  <2>1. \E x \in Parts : /\ f.parts[x] # None
                         /\ \A r \in Parts : f.parts[r] # None => x <= r
    BY <1>2, <1>3
  <2>2. /\ First(f.parts) \in Parts /\ f.parts[First(f.parts)] # None
        /\ \A r \in Parts : f.parts[r] # None => First(f.parts) <= r
    BY <2>1 DEF First
  <2> QED
    BY <1>2, <2>2
<1> HIDE DEF FirstIn
<1> QED
  BY <1>3, <1>4, <1>5

\* The inverse of a snapshot brings a mirrored file back, unless the snapshot
\* deleted it: then only the first component comes back.
LEMMA FileComesBack ==
  ASSUME NEW c \in Cache, NEW snap \in EventSnapshot \cup SeriesSnapshot,
         NEW f \in Option(SeriesFile), Mirrors(c.series[snap.uid], f),
         ~TakesPlace(c, snap),
         f # None /\ c.series[snap.uid] # NoParts =>
           f.cal = c.series[snap.uid][First(c.series[snap.uid])].cal
  PROVE  LET back == Result(Result(f, snap), Inverse(c, snap))
         IN \/ back = f
            \/ /\ back # None /\ f # None /\ Result(f, snap) = None
               /\ back.cal = f.cal
               /\ \E s \in Parts : s = First(f.parts) /\
                    back.parts = [NoParts EXCEPT ![s] = f.parts[s]]
<1> DEFINE old  == c.series[snap.uid]
           one  == First(old)
           inv  == Inverse(c, snap)
           made == Result(f, snap)
           back == Result(made, inv)
<1>1. old \in CachedParts
  BY DEF EventSnapshot, SeriesSnapshot, Cache
<1>2. CASE old = NoParts
  <2>1. f = None
    <3>1. ASSUME f \in SeriesFile PROVE FALSE
      <4>1. \A s \in Parts : f.parts[s] = None
        BY <1>1, <1>2, <3>1, MirrorsFile DEF NoParts
      <4>2. f.parts \in [Parts -> Option(Component)] /\ f.parts # NoParts
        BY <3>1 DEF SeriesFile
      <4> QED
        BY <4>1, <4>2 DEF NoParts
    <3> QED
      BY <3>1 DEF Option
  <2>2. CASE snap \in EventSnapshot
    <3>1. snap.kind = "event" /\ inv = [snap EXCEPT !.val = None]
      BY <1>2, <2>2 DEF EventSnapshot, Inverse, Prior
    <3>2. inv.kind = "event" /\ inv.val = None
      BY <2>2, <3>1 DEF EventSnapshot
    <3> QED
      BY <2>1, <3>2 DEF Result
  <2>3. CASE snap \in SeriesSnapshot
    <3>1. snap.kind = "series" /\ inv = [snap EXCEPT !.val = NoParts]
      BY <1>2, <2>3 DEF SeriesSnapshot, Inverse
    <3>2. inv.kind = "series" /\ inv.val = NoParts
      BY <2>3, <3>1 DEF SeriesSnapshot
    <3> QED
      BY <2>1, <3>2 DEF Result
  <2> QED
    BY <2>2, <2>3
<1>3. CASE old # NoParts
  <2>1. one \in Parts /\ old[one] # None /\ old[one] \in Event
    BY <1>1, <1>3, FirstExists DEF CachedParts, Option
  <2>2. f \in SeriesFile
    BY <1>1, <1>3, MirrorsNone DEF Option
  <2>3. /\ f.parts \in [Parts -> Option(Component)] /\ f # None
        /\ f = [cal |-> f.cal, parts |-> f.parts]
    BY <2>2, Distinct DEF SeriesFile
  <2>4. f.cal = old[one].cal
    BY <1>3, <2>3
  <2>5. \A s \in Parts : /\ old[s] = None => f.parts[s] = None
                         /\ old[s] # None => f.parts[s] = Clean(old[s])
    <3>1. /\ \A s \in Parts : old[s] = None <=> f.parts[s] = None
          /\ \A s \in Parts : old[s] # None => Clean(old[s]) = f.parts[s]
      BY <1>1, <2>2, MirrorsFile
    <3> QED
      BY <3>1
  <2>6. First(f.parts) = one
    BY <1>1, <1>3, <2>2, SameFirst
  <2>7. CASE snap \in EventSnapshot
    <3>1. snap.kind = "event" /\ snap.uid \in Series
      BY <2>7 DEF EventSnapshot
    <3>2. inv = [snap EXCEPT !.val = [slot |-> one, event |-> old[one]]]
      BY <1>3, <3>1 DEF Inverse, Prior
    <3>3. inv.kind = "event" /\ inv.val = [slot |-> one, event |-> old[one]]
      BY <2>7, <3>2 DEF EventSnapshot
    <3>4. inv.val # None
      <4>1. inv.val \in [slot : Parts, event : Event]
        BY <2>1, <3>3
      <4> QED
        BY <4>1, Distinct
    <3>5. back = FileWith(made, one, old[one])
      BY <3>3, <3>4 DEF Result
    <3> HIDE DEF inv
    <3>6. CASE snap.val = None
      <4>1. made = None
        BY <3>1, <3>6 DEF Result
      <4>2. back = [cal |-> f.cal, parts |-> [NoParts EXCEPT ![one] = f.parts[one]]]
        BY <2>1, <2>4, <2>5, <3>5, <4>1 DEF FileWith, Siblings
      <4>3. back \in SeriesFile
        BY <2>1, <3>5, <4>1, <1>1, PutMirrors DEF Option
      <4>4. back # None
        BY <4>3, Distinct
      <4> HIDE DEF back, made, one, old
      <4>5. back.cal = f.cal /\ back.parts = [NoParts EXCEPT ![one] = f.parts[one]]
        BY <4>2
      <4> QED
        BY <2>1, <2>3, <2>6, <4>1, <4>4, <4>5 DEF back, made, inv
    <3>7. CASE snap.val # None
      <4>1. /\ snap.val.slot \in Parts /\ snap.val.event \in Event
        BY <2>7, <3>7 DEF EventSnapshot, Option
      <4>2. snap.val.slot = one
        BY <1>3, <3>1, <3>7 DEF TakesPlace
      <4>3. made = FileWith(f, one, snap.val.event)
        BY <3>1, <3>7, <4>2 DEF Result
      <4>4. made \in SeriesFile /\ made.parts = [f.parts EXCEPT ![one] = Clean(snap.val.event)]
        <5>1. made.parts = [f.parts EXCEPT ![one] = Clean(snap.val.event)]
          BY <2>3, <4>3 DEF FileWith, Siblings
        <5> HIDE DEF made
        <5>2. made \in SeriesFile
          BY <1>1, <2>1, <4>1, <4>3, PutMirrors
        <5> QED
          BY <5>1, <5>2
      <4>5. made # None
        BY <4>4, Distinct
      <4>6. back.cal = f.cal /\ back.parts = [made.parts EXCEPT ![one] = f.parts[one]]
            /\ back = [cal |-> back.cal, parts |-> back.parts]
        BY <2>1, <2>4, <2>5, <3>5, <4>5 DEF FileWith, Siblings
      <4>7. [made.parts EXCEPT ![one] = f.parts[one]] = f.parts
        BY <2>1, <2>3, <4>4
      <4>8. back = f
        BY <2>3, <4>6, <4>7
      <4> QED
        BY <4>8 DEF inv
    <3> QED
      BY <3>6, <3>7
  <2>8. CASE snap \in SeriesSnapshot
    <3>1. snap.kind = "series" /\ inv = [snap EXCEPT !.val = old]
      BY <2>8 DEF SeriesSnapshot, Inverse
    <3>2. inv.kind = "series" /\ inv.val = old
      BY <2>8, <3>1 DEF SeriesSnapshot
    <3>3. back = FileOf(old)
      BY <1>3, <3>2 DEF Result
    <3>4. [s \in Parts |-> IF old[s] = None THEN None ELSE Clean(old[s])] = f.parts
      BY <2>3, <2>5
    <3>5. back = f
      BY <2>3, <2>4, <3>3, <3>4 DEF FileOf
    <3> QED
      BY <3>5
  <2> QED
    BY <2>7, <2>8
<1> QED
  BY <1>2, <1>3

\* The inverse of a snapshot, applied next, leads back, if the cache showed the
\* files when the snapshot was applied.
LEMMA InverseLeads ==
  ASSUME NEW d \in Disk, NEW c \in Cache, NEW snap \in Snapshot,
         InStep(d, c), ~TakesPlace(c, snap),
         snap.kind # "task" /\ d.series[snap.uid] # None /\ c.series[snap.uid] # NoParts =>
           d.series[snap.uid].cal = c.series[snap.uid][First(c.series[snap.uid])].cal
  PROVE  Leads(Live(Last(Steps(d, c, snap))), Inverse(c, snap), Live(d))
<1> DEFINE x   == Last(Steps(d, c, snap))
           inv == Inverse(c, snap)
<1>1. ASSUME snap \in TaskSnapshot, NEW d2 \in Disk, NEW c2 \in Cache, Live(d2) = Live(x)
      PROVE  LostOrSame(d2, Live(Last(Steps(d2, c2, inv))), Live(d))
  <2> DEFINE y == Last(Steps(d2, c2, inv))
             t == snap.uid
  <2>1. snap.kind = "task" /\ t \in Tasks
    BY <1>1 DEF TaskSnapshot
  <2>2. inv = [snap EXCEPT !.val = c.tasks[t]]
    BY <2>1 DEF Inverse
  <2>3. c.tasks[t] = d.tasks[t] /\ d.tasks \in [Tasks -> Option(Task)]
    BY DEF InStep, Disk
  <2>4. inv \in TaskSnapshot /\ inv.uid = t /\ inv.val = d.tasks[t]
    BY <1>1, <2>1, <2>2, <2>3 DEF TaskSnapshot
  <2>5. x.tasks = [d.tasks EXCEPT ![t] = snap.val] /\ x.series = d.series
    BY <1>1, TaskResult
  <2>6. y.tasks = [d2.tasks EXCEPT ![t] = d.tasks[t]] /\ y.series = d2.series
    BY <2>4, TaskResult
  <2> HIDE DEF x, y, inv
  <2>7. d2.tasks = x.tasks /\ d2.series = x.series
    BY <1>1 DEF Live
  <2>8. y.tasks = d.tasks /\ y.series = d.series
    BY <2>1, <2>3, <2>5, <2>6, <2>7
  <2> QED
    BY <2>8 DEF LostOrSame, Live, y
<1>2. ASSUME snap \in EventSnapshot \cup SeriesSnapshot,
             NEW d2 \in Disk, NEW c2 \in Cache, Live(d2) = Live(x)
      PROVE  LostOrSame(d2, Live(Last(Steps(d2, c2, inv))), Live(d))
  <2> DEFINE y    == Last(Steps(d2, c2, inv))
             e    == snap.uid
             f    == d.series[e]
             made == Result(f, snap)
             back == Result(made, inv)
  <2>1. snap.kind # "task" /\ e \in Series
    BY <1>2 DEF EventSnapshot, SeriesSnapshot
  <2>2. inv \in EventSnapshot \cup SeriesSnapshot /\ inv.uid = e
    <3>1. inv \in Snapshot
      BY InverseFits
    <3>2. inv.kind = snap.kind /\ inv.uid = e
      BY <1>2 DEF EventSnapshot, SeriesSnapshot, Inverse
    <3> QED
      BY <1>2, <3>1, <3>2 DEF Snapshot, TaskSnapshot, EventSnapshot, SeriesSnapshot
  <2>3. f \in Option(SeriesFile) /\ Mirrors(c.series[e], f)
    BY <2>1 DEF Disk, InStep
  <2>4. \/ back = f
        \/ /\ back # None /\ f # None /\ made = None
           /\ back.cal = f.cal
           /\ \E s \in Parts : s = First(f.parts) /\
                back.parts = [NoParts EXCEPT ![s] = f.parts[s]]
    BY <1>2, <2>1, <2>3, FileComesBack
  <2>5. x.tasks = d.tasks /\ x.series = [d.series EXCEPT ![e] = made]
    BY <1>2, SeriesResult
  <2>6. y.tasks = d2.tasks /\ y.series = [d2.series EXCEPT ![e] = Result(d2.series[e], inv)]
    BY <2>2, SeriesResult
  <2>7. d2.tasks = x.tasks /\ d2.series = x.series
    BY <1>2 DEF Live
  <2> HIDE DEF x, inv, made
  <2>8. d.series \in [Series -> Option(SeriesFile)]
    BY DEF Disk
  <2>9. d2.series[e] = made /\ y.series = [d.series EXCEPT ![e] = back]
    BY <2>1, <2>5, <2>6, <2>7, <2>8
  <2>10. y.tasks = d.tasks
    BY <2>5, <2>6, <2>7
  <2> HIDE DEF y, back
  <2>11. ASSUME NEW z \in Series, z # e
         PROVE  y.series[z] = d.series[z]
    BY <2>8, <2>9, <2>11
  <2>12. y.series[e] = back
    BY <2>1, <2>8, <2>9
  <2>13. Live(y).tasks = y.tasks /\ Live(y).series = y.series
         /\ Live(d).tasks = d.tasks /\ Live(d).series = d.series
    BY DEF Live
  <2>14. \A z \in Series :
           \/ y.series[z] = d.series[z]
           \/ /\ y.series[z] # None /\ d.series[z] # None /\ d2.series[z] = None
              /\ y.series[z].cal = d.series[z].cal
              /\ \E s \in Parts : s = First(d.series[z].parts) /\
                   y.series[z].parts = [NoParts EXCEPT ![s] = d.series[z].parts[s]]
    BY <2>4, <2>9, <2>11, <2>12
  <2> QED
    BY <2>10, <2>13, <2>14 DEF LostOrSame, y
<1> HIDE DEF x, inv
<1>3. ASSUME NEW d2 \in Disk, NEW c2 \in Cache, Live(d2) = Live(x)
      PROVE  LostOrSame(d2, Live(Last(Steps(d2, c2, inv))), Live(d))
  BY <1>1, <1>2, <1>3 DEF Snapshot
<1> QED
  BY <1>3 DEF Leads, x, inv

\* So does what record and undo push, if the history vouches for it.
LEMMA KnownLeads ==
  ASSUME Good, NEW snap \in Snapshot, Known(snap) # None
  PROVE  /\ Known(snap) = Live(disk)
         /\ Leads(Live(Last(Steps(disk, cache, snap))), Inverse(cache, snap), Live(disk))
<1>1. /\ Known(snap) = Live(disk) /\ insync /\ ~TakesPlace(cache, snap)
      /\ snap.kind # "task" => ~Strayed(snap.uid)
  BY DEF Known
<1>2. disk \in Disk /\ cache \in Cache /\ InStep(disk, cache)
  BY <1>1 DEF Good
<1> QED
  BY <1>1, <1>2, InverseLeads DEF Strayed

-----------------------------------------------------------------------------
(* The chain through every step. *)

LEMMA ForgetChained ==
  ASSUME Good, past' = Unknown(past), future' = Unknown(future), UNCHANGED <<undo, redo>>
  PROVE  Chained'
  BY ChainForget DEF Good, StacksOK, Chained

LEMMA EmptyChained ==
  ASSUME undo' = <<>>, redo' = <<>>
  PROVE  Chained'
  BY DEF ChainTo, Chained

LEMMA QuietChained ==
  ASSUME Chained, UNCHANGED <<undo, redo, history>>, Live(disk') = Live(disk),
         deleting' = None => deleting = None
  PROVE  Chained'
  BY DEF Chained, history

LEMMA RecordChained ==
  ASSUME Good, Chained, deleting = None, NEW fresh \in Snapshot, Record(fresh)
  PROVE  Chained'
<1> DEFINE snap  == Stamped(fresh, ops + 1)
           steps == Steps(disk, cache, snap)
<1>1. snap \in Snapshot
  BY StampedFits DEF Good, CountsOK
<1> HIDE DEF snap
<1>2. CASE /\ disk' = Last(steps)
           /\ undo' = Append(undo, Inverse(cache, snap))
           /\ redo' = <<>>
           /\ past' = Append(past, Known(snap))
  <2>1. Inverse(cache, snap) \in Snapshot /\ Known(snap) \in Known0
    BY <1>1, InverseFits, KnownFits DEF Good
  <2>2. ChainTo(undo, past, Live(disk))
    BY DEF Chained
  <2>3. Known(snap) # None =>
          Known(snap) = Live(disk) /\ Leads(Live(disk'), Inverse(cache, snap), Live(disk))
    BY <1>1, <1>2, KnownLeads
  <2>4. /\ undo \in Seq(Snapshot) /\ past \in Seq(Known0) /\ Len(past) = Len(undo)
    BY DEF Good, StacksOK
  <2>5. ChainTo(undo', past', Live(disk'))
    BY <1>2, <2>1, <2>2, <2>3, <2>4, ChainPush
  <2>6. ChainTo(redo', future', Live(disk'))
    BY <1>2 DEF ChainTo
  <2> QED
    BY <2>5, <2>6 DEF Chained
<1>3. CASE /\ past' = Unknown(past) /\ future' = Unknown(future)
           /\ UNCHANGED <<undo, redo>>
  BY <1>3, ForgetChained
<1> QED
  BY <1>2, <1>3 DEF Record, snap

LEMMA BelowChains ==
  ASSUME NEW stack \in Seq(Snapshot), NEW hist \in Seq(Known0), Len(hist) = Len(stack),
         stack # <<>>, ChainTo(stack, hist, Live(disk)), disk' \in Disk
  PROVE  ChainTo(Front(stack), Below(hist), Live(disk'))
<1>1. /\ Front(stack) \in Seq(Snapshot) /\ Front(hist) \in Seq(Known0)
      /\ Len(Front(hist)) = Len(Front(stack))
  BY FrontFits
<1>2. Live(disk') # None
  <2>1. Live(disk') \in LiveFiles
    BY DEF Live, LiveFiles, Disk
  <2> QED
    BY <2>1, VaultAssumption
<1>3. CASE Live(disk') = Last(hist)
  <2>1. Below(hist) = Front(hist)
    BY <1>3 DEF Below
  <2> QED
    BY <1>2, <1>3, <2>1, ChainPop
<1>4. CASE Live(disk') # Last(hist)
  <2>1. Below(hist) = Unknown(Front(hist))
    BY <1>4 DEF Below
  <2> QED
    BY <1>1, <2>1, ChainForget
<1> QED
  BY <1>3, <1>4

LEMMA UndoChained ==
  ASSUME Good, Chained, Undo
  PROVE  Chained'
<1> DEFINE snap == Last(undo)
<1>1. /\ undo \in Seq(Snapshot) /\ undo # <<>> /\ past \in Seq(Known0)
      /\ redo \in Seq(Snapshot) /\ future \in Seq(Known0)
      /\ Len(past) = Len(undo) /\ Len(future) = Len(redo) /\ undo' = Front(undo)
      /\ ChainTo(undo, past, Live(disk)) /\ ChainTo(redo, future, Live(disk))
  BY DEF Good, StacksOK, Undo, Chained, Free
<1>2. snap \in Snapshot
  BY <1>1, FrontFits
<1>3. past # <<>>
  BY <1>1
<1>4. disk' \in Disk
  BY UndoSafe DEF Safe, Good
<1> HIDE DEF snap
<1>5. CASE /\ disk' = Last(Steps(disk, cache, snap))
           /\ redo' = Append(redo, Inverse(cache, snap))
           /\ past' = Below(past)
           /\ future' = Append(future, Known(snap))
  <2>1. Inverse(cache, snap) \in Snapshot /\ Known(snap) \in Known0
    BY <1>2, InverseFits, KnownFits DEF Good
  <2>2. Known(snap) # None =>
          Known(snap) = Live(disk) /\ Leads(Live(disk'), Inverse(cache, snap), Live(disk))
    BY <1>2, <1>5, KnownLeads
  <2>3. ChainTo(redo', future', Live(disk'))
    BY <1>1, <1>5, <2>1, <2>2, ChainPush
  <2>4. ChainTo(undo', past', Live(disk'))
    BY <1>1, <1>4, <1>5, BelowChains
  <2> QED
    BY <2>3, <2>4 DEF Chained
<1>6. CASE /\ past' = Unknown(Front(past)) /\ future' = Unknown(future)
           /\ UNCHANGED redo
  <2>1. /\ Front(undo) \in Seq(Snapshot) /\ Front(past) \in Seq(Known0)
        /\ Len(Front(past)) = Len(Front(undo))
    BY <1>1, <1>3, FrontFits
  <2>2. ChainTo(undo', past', Live(disk')) /\ ChainTo(redo', future', Live(disk'))
    BY <1>1, <1>6, <2>1, ChainForget
  <2> QED
    BY <2>2 DEF Chained
<1> QED
  BY <1>5, <1>6 DEF Undo, snap

LEMMA RedoChained ==
  ASSUME Good, Chained, Redo
  PROVE  Chained'
<1> DEFINE snap == Last(redo)
<1>1. /\ redo \in Seq(Snapshot) /\ redo # <<>> /\ past \in Seq(Known0)
      /\ undo \in Seq(Snapshot) /\ future \in Seq(Known0)
      /\ Len(past) = Len(undo) /\ Len(future) = Len(redo) /\ redo' = Front(redo)
      /\ ChainTo(undo, past, Live(disk)) /\ ChainTo(redo, future, Live(disk))
  BY DEF Good, StacksOK, Redo, Chained, Free
<1>2. snap \in Snapshot
  BY <1>1, FrontFits
<1>3. future # <<>>
  BY <1>1
<1>4. disk' \in Disk
  BY RedoSafe DEF Safe, Good
<1> HIDE DEF snap
<1>5. CASE /\ disk' = Last(Steps(disk, cache, snap))
           /\ undo' = Append(undo, Inverse(cache, snap))
           /\ past' = Append(past, Known(snap))
           /\ future' = Below(future)
  <2>1. Inverse(cache, snap) \in Snapshot /\ Known(snap) \in Known0
    BY <1>2, InverseFits, KnownFits DEF Good
  <2>2. Known(snap) # None =>
          Known(snap) = Live(disk) /\ Leads(Live(disk'), Inverse(cache, snap), Live(disk))
    BY <1>2, <1>5, KnownLeads
  <2>3. ChainTo(undo', past', Live(disk'))
    BY <1>1, <1>5, <2>1, <2>2, ChainPush
  <2>4. ChainTo(redo', future', Live(disk'))
    BY <1>1, <1>4, <1>5, BelowChains
  <2> QED
    BY <2>3, <2>4 DEF Chained
<1>6. CASE /\ past' = Unknown(past) /\ future' = Unknown(Front(future))
           /\ UNCHANGED undo
  <2>1. /\ Front(redo) \in Seq(Snapshot) /\ Front(future) \in Seq(Known0)
        /\ Len(Front(future)) = Len(Front(redo))
    BY <1>1, <1>3, FrontFits
  <2>2. ChainTo(undo', past', Live(disk')) /\ ChainTo(redo', future', Live(disk'))
    BY <1>1, <1>6, <2>1, ChainForget
  <2> QED
    BY <2>2 DEF Chained
<1> QED
  BY <1>5, <1>6 DEF Redo, snap

LEMMA SetTaskProjectChained ==
  ASSUME Good, Chained, NEW t \in Tasks, NEW p \in Projects, SetTaskProject(t, p)
  PROVE  Chained'
<1> DEFINE added  == [disk EXCEPT !.projects = @ \cup {p}]
           cached == [cache EXCEPT !.projects = @ \cup {p}]
           snap   == [kind |-> "task", uid |-> t, val |-> [rev |-> ops + 1, project |-> p]]
<1>1. added \in Disk /\ Live(added) = Live(disk)
  BY DEF Good, Disk, Live
<1>2. /\ cached \in Cache /\ cached.tasks = cache.tasks
      /\ cached.series = cache.series /\ cached.projects = cache.projects \cup {p}
  BY DEF Good, Cache
<1>3. insync => InStep(added, cached)
  <2>1. /\ added.tasks = disk.tasks /\ added.series = disk.series
        /\ added.projects = disk.projects \cup {p}
    BY DEF Good, Disk
  <2> HIDE DEF added, cached
  <2> QED
    BY <1>2, <2>1 DEF Good, InStep
<1>4. snap \in Snapshot
  <2>1. [rev |-> ops + 1, project |-> p] \in Option(Task)
    BY DEF Option, Task, Good, CountsOK
  <2> QED
    BY <2>1 DEF Snapshot, TaskSnapshot
<1>5. snap.kind = "task" /\ ~TakesPlace(cached, snap)
  BY DEF TakesPlace
<1>6. \/ /\ disk' = Last(Steps(added, cached, snap))
         /\ undo' = Append(undo, Inverse(cached, snap))
         /\ redo' = <<>>
         /\ past' = Append(past, Known(snap))
      \/ /\ past' = Unknown(past) /\ future' = Unknown(future)
         /\ UNCHANGED <<undo, redo>>
  BY DEF SetTaskProject
<1>7. ChainTo(undo, past, Live(disk))
  BY DEF Chained, SetTaskProject, Free
<1> HIDE DEF added, cached, snap
<1>8. CASE /\ disk' = Last(Steps(added, cached, snap))
           /\ undo' = Append(undo, Inverse(cached, snap))
           /\ redo' = <<>>
           /\ past' = Append(past, Known(snap))
  <2>1. Inverse(cached, snap) \in Snapshot /\ Known(snap) \in Known0
    BY <1>2, <1>4, InverseFits, KnownFits
  <2>2. Known(snap) # None =>
          Known(snap) = Live(disk) /\ Leads(Live(disk'), Inverse(cached, snap), Live(disk))
    <3>1. ASSUME Known(snap) # None
          PROVE  Known(snap) = Live(disk) /\ insync
      BY <3>1 DEF Known
    <3>2. insync => Leads(Live(Last(Steps(added, cached, snap))), Inverse(cached, snap),
                          Live(added))
      BY <1>1, <1>2, <1>3, <1>4, <1>5, InverseLeads
    <3> QED
      BY <1>1, <1>8, <3>1, <3>2
  <2>3. /\ undo \in Seq(Snapshot) /\ past \in Seq(Known0) /\ Len(past) = Len(undo)
    BY DEF Good, StacksOK
  <2>4. ChainTo(undo', past', Live(disk'))
    BY <1>7, <1>8, <2>1, <2>2, <2>3, ChainPush
  <2>5. ChainTo(redo', future', Live(disk'))
    BY <1>8 DEF ChainTo
  <2> QED
    BY <2>4, <2>5 DEF Chained
<1> QED
  BY <1>6, <1>8, ForgetChained

LEMMA UpdateFollowingChained ==
  ASSUME Good, Chained, NEW e \in Series, NEW at \in Slots, NEW new \in Series,
         NEW cal \in Calendars, NEW p \in Option(Projects), NEW carried \in SUBSET Slots,
         UpdateFollowing(e, at, new, cal, p, carried)
  PROVE  Chained'
<1> DEFINE now    == ops + 1
           headParts == Before(cache.series[e], at)
           tailParts == [s \in Parts |->
                           IF s = Master THEN [rev |-> 0, project |-> p, cal |-> cal]
                           ELSE IF s \in carried THEN cache.series[e][s] ELSE None]
           head   == Stamped([kind |-> "series", uid |-> e, val |-> headParts], now)
           tail   == Stamped([kind |-> "series", uid |-> new, val |-> tailParts], now)
           disk1  == Last(Steps(disk, cache, head))
           cache1 == Cached(cache, head)
           between == IF insync THEN Live(disk1) ELSE None
<1>1. disk \in Disk /\ cache \in Cache /\ cache.series[e] \in CachedParts /\ now \in Nat
  BY DEF Good, Cache, CountsOK
<1>2. headParts \in CachedParts
  BY <1>1, BeforeFits
<1>3. tailParts \in CachedParts
  <2>1. [rev |-> 0, project |-> p, cal |-> cal] \in Event
    BY DEF Event
  <2> QED
    BY <1>1, <2>1 DEF CachedParts, Option
<1>4. \/ /\ disk' = Last(Steps(disk1, cache1, tail))
         /\ undo' = undo \o <<Inverse(cache, head), Inverse(cache1, tail)>>
         /\ redo' = <<>>
         /\ past' = past \o <<Known(head), between>>
      \/ /\ past' = Unknown(past) /\ future' = Unknown(future)
         /\ UNCHANGED <<undo, redo>>
      \/ /\ undo' = Append(undo, Inverse(cache, head))
         /\ redo' = <<>>
         /\ past' = Append(Unknown(past), None)
  BY DEF UpdateFollowing
<1> HIDE DEF headParts, tailParts
<1>5. head \in SeriesSnapshot /\ tail \in SeriesSnapshot
  <2>1. /\ [kind |-> "series", uid |-> e, val |-> headParts] \in SeriesSnapshot
        /\ [kind |-> "series", uid |-> new, val |-> tailParts] \in SeriesSnapshot
    BY <1>2, <1>3 DEF SeriesSnapshot, CachedParts
  <2> QED
    BY <1>1, <2>1, StampedSeries
<1>6. head.kind = "series" /\ head.uid = e /\ tail.kind = "series" /\ tail.uid = new
  BY DEF Stamped
<1> HIDE DEF head, tail
<1>7. head \in Snapshot /\ tail \in Snapshot
  BY <1>5 DEF Snapshot
<1>8. /\ Run(disk, Steps(disk, cache, head)) /\ cache1 \in Cache
      /\ InStep(disk, cache) /\ ~TakesPlace(cache, head) => InStep(disk1, cache1)
  BY <1>1, <1>7, SnapshotApplied DEF Applied
<1>9. disk1 \in Disk /\ ~TakesPlace(cache, head) /\ ~TakesPlace(cache1, tail)
  <2>1. disk1 \in Disk
    BY <1>1, <1>8, RunFits
  <2> QED
    BY <1>1, <1>5, <1>8, <2>1, SeriesQuiet
<1>10. cache1.series[new] = NoParts
  <2>1. cache.series[new] = NoParts /\ new # e
    BY DEF UpdateFollowing, Unused, Found
  <2>2. cache1 = [cache EXCEPT !.series[e] = head.val]
    BY <1>6 DEF Cached
  <2> QED
    BY <1>1, <2>1, <2>2 DEF Cache
<1>11. Known(head) # None =>
         Known(head) = Live(disk) /\ Leads(Live(disk1), Inverse(cache, head), Live(disk))
  BY <1>7, KnownLeads
<1> HIDE DEF disk1, cache1
<1>12. between # None =>
         /\ between = Live(disk1)
         /\ Leads(Live(Last(Steps(disk1, cache1, tail))), Inverse(cache1, tail), Live(disk1))
  <2>1. ASSUME insync
        PROVE  Leads(Live(Last(Steps(disk1, cache1, tail))), Inverse(cache1, tail),
                     Live(disk1))
    <3>1. InStep(disk1, cache1)
      BY <1>8, <1>9, <2>1 DEF Good
    <3> QED
      BY <1>6, <1>7, <1>8, <1>9, <1>10, <3>1, InverseLeads
  <2> QED
    BY <2>1
<1>13. /\ Inverse(cache, head) \in Snapshot /\ Inverse(cache1, tail) \in Snapshot
       /\ Known(head) \in Known0 /\ between \in Known0 /\ None \in Known0
  BY <1>1, <1>7, <1>8, <1>9, InverseFits, KnownFits, HistoryFits
<1>14. /\ undo \in Seq(Snapshot) /\ past \in Seq(Known0) /\ Len(past) = Len(undo)
       /\ ChainTo(undo, past, Live(disk))
  BY DEF Good, StacksOK, Chained, UpdateFollowing, Free
<1> HIDE DEF between
<1>15. CASE /\ disk' = Last(Steps(disk1, cache1, tail))
            /\ undo' = undo \o <<Inverse(cache, head), Inverse(cache1, tail)>>
            /\ redo' = <<>>
            /\ past' = past \o <<Known(head), between>>
  <2> DEFINE undo1 == Append(undo, Inverse(cache, head))
             past1 == Append(past, Known(head))
  <2>1. undo1 \in Seq(Snapshot) /\ past1 \in Seq(Known0) /\ Len(past1) = Len(undo1)
    BY <1>13, <1>14
  <2>2. ChainTo(undo1, past1, Live(disk1))
    BY <1>11, <1>13, <1>14, ChainPush
  <2>3. undo' = Append(undo1, Inverse(cache1, tail)) /\ past' = Append(past1, between)
    BY <1>13, <1>14, <1>15
  <2> HIDE DEF undo1, past1
  <2>4. ChainTo(undo', past', Live(disk'))
    BY <1>12, <1>13, <1>15, <2>1, <2>2, <2>3, ChainPush
  <2>5. ChainTo(redo', future', Live(disk'))
    BY <1>15 DEF ChainTo
  <2> QED
    BY <2>4, <2>5 DEF Chained
<1>16. CASE /\ undo' = Append(undo, Inverse(cache, head))
            /\ redo' = <<>>
            /\ past' = Append(Unknown(past), None)
  <2>1. Unknown(past) \in Seq(Known0) /\ Len(Unknown(past)) = Len(undo)
    BY <1>14, HistoryFits
  <2>2. ChainTo(undo, Unknown(past), Live(disk))
    BY <1>14, ChainForget
  <2>3. ChainTo(undo', past', Live(disk'))
    BY <1>13, <1>14, <1>16, <2>1, <2>2, ChainPush
  <2>4. ChainTo(redo', future', Live(disk'))
    BY <1>16 DEF ChainTo
  <2> QED
    BY <2>3, <2>4 DEF Chained
<1> QED
  BY <1>4, <1>15, <1>16, ForgetChained

LEMMA QuietSteps ==
  ASSUME Good, Chained,
         \/ EmptyTrash \/ Reload \/ UNCHANGED vars
         \/ \E t \in Tasks : PurgeTask(t)
         \/ \E p \in Projects :
              PutProject(p) \/ RestoreProject(p) \/ PurgeProject(p) \/ BeginDeleteProject(p)
  PROVE  Chained'
<1>1. disk \in Disk
  BY DEF Good
<1>2. CASE EmptyTrash
  BY <1>1, <1>2, QuietChained DEF EmptyTrash, Live, Disk
<1>3. CASE Reload
  BY <1>3, QuietChained DEF Reload
<1>4. CASE UNCHANGED vars
  BY <1>4, QuietChained DEF vars, history
<1>5. ASSUME NEW t \in Tasks, PurgeTask(t)
      PROVE  Chained'
  BY <1>1, <1>5, QuietChained DEF PurgeTask, Live, Disk
<1>6. ASSUME NEW p \in Projects, PutProject(p)
      PROVE  Chained'
  <2>1. CASE disk' = [disk EXCEPT !.projects = @ \cup {p}] /\ UNCHANGED history
    <3>1. Live(disk') = Live(disk)
      BY <1>1, <2>1 DEF Live, Disk
    <3> QED
      BY <1>6, <2>1, <3>1, QuietChained DEF PutProject
  <2>2. CASE past' = Unknown(past) /\ future' = Unknown(future)
    BY <1>6, <2>2, ForgetChained DEF PutProject
  <2> QED
    BY <1>6, <2>1, <2>2 DEF PutProject
<1>7. ASSUME NEW p \in Projects, RestoreProject(p)
      PROVE  Chained'
  <2> DEFINE restored == [disk EXCEPT !.projects = @ \cup {p}]
             done == [restored EXCEPT !.trashedProjects = @ \ {p}]
  <2>1. CASE disk' = done /\ UNCHANGED history
    <3>1. Live(disk') = Live(disk)
      BY <1>1, <2>1 DEF Live, Disk
    <3> QED
      BY <1>7, <2>1, <3>1, QuietChained DEF RestoreProject
  <2>2. CASE past' = Unknown(past) /\ future' = Unknown(future)
    BY <1>7, <2>2, ForgetChained DEF RestoreProject
  <2> QED
    BY <1>7, <2>1, <2>2 DEF RestoreProject
<1>8. ASSUME NEW p \in Projects, PurgeProject(p)
      PROVE  Chained'
  BY <1>1, <1>8, QuietChained DEF PurgeProject, Live, Disk
<1>9. ASSUME NEW p \in Projects, BeginDeleteProject(p)
      PROVE  Chained'
  <2>1. deleting' # None
    BY <1>9, VaultAssumption DEF BeginDeleteProject
  <2> QED
    BY <2>1 DEF Chained
<1> QED
  BY <1>2, <1>3, <1>4, <1>5, <1>6, <1>7, <1>8, <1>9

LEMMA DeletionSteps ==
  ASSUME Good, Chained, DeletionStep \/ Open \/ OthersStep
  PROVE  Chained'
<1>1. ASSUME NEW steps, Rewrite(steps), deleting # None, UNCHANGED <<undo, redo>>
      PROVE  Chained'
  <2>1. CASE UNCHANGED deleting
    BY <1>1, <2>1 DEF Chained
  <2>2. CASE past' = Unknown(past) /\ future' = Unknown(future)
    BY <1>1, <2>2, ForgetChained
  <2> QED
    BY <1>1, <2>1, <2>2 DEF Rewrite
<1>2. ASSUME NEW t \in Tasks, UnassignTask(t)
      PROVE  Chained'
  BY <1>1, <1>2 DEF UnassignTask
<1>3. ASSUME NEW e \in Series, NEW s \in Parts, UnassignEvent(e, s)
      PROVE  Chained'
  BY <1>1, <1>3 DEF UnassignEvent
<1>4. CASE FinishDeleteProject
  BY <1>4, EmptyChained, ForgetChained DEF FinishDeleteProject
<1>5. CASE Open
  BY <1>5, EmptyChained DEF Open
<1>6. CASE OthersStep
  <2>1. OthersAct
    BY <1>6 DEF OthersStep, OthersDeleteTask, OthersPutTask, OthersDeleteSeries,
                OthersPutSeries
  <2> QED
    BY <2>1, ForgetChained DEF OthersAct
<1> QED
  BY <1>2, <1>3, <1>4, <1>5, <1>6 DEF DeletionStep

LEMMA StepChained ==
  ASSUME Good, Chained, [Next]_vars
  PROVE  Chained'
<1>1. ASSUME RecordsOne PROVE Chained'
  BY <1>1, RecordChained DEF RecordsOne, Free
<1>2. CASE TaskStep
  <2>1. PICK t \in Tasks :
          \/ DropTask(t) \/ RestoreTask(t) \/ \E p \in Option(Projects) : PutTask(t, p)
          \/ PurgeTask(t)
          \/ \E p \in Projects : SetTaskProject(t, p)
    BY <1>2 DEF TaskStep
  <2> QED
    BY <1>1, <2>1, TaskRecords, QuietSteps, SetTaskProjectChained
<1>3. CASE EventStep
  <2>1. PICK e \in Series :
          \/ DeleteEvent(e) \/ DeleteAll(e) \/ ShiftSeries(e)
          \/ \E at \in Slots : DeleteThis(e, at) \/ DeleteFollowing(e, at)
          \/ \E cal \in Calendars, p \in Option(Projects) :
               \/ PutEvent(e, cal, p)
               \/ UpdateAll(e, cal, p)
               \/ \E at \in Slots : UpdateThis(e, at, cal, p)
          \/ \E cal \in Calendars, p \in Option(Projects), at \in Slots, new \in Series :
               \E carried \in SUBSET {s \in Slots : s >= at /\ cache.series[e][s] # None} :
                 UpdateFollowing(e, at, new, cal, p, carried)
    BY <1>3 DEF EventStep
  <2>2. ASSUME NEW cal \in Calendars, NEW p \in Option(Projects), NEW at \in Slots,
               NEW new \in Series,
               NEW carried \in SUBSET {s \in Slots : s >= at /\ cache.series[e][s] # None},
               UpdateFollowing(e, at, new, cal, p, carried)
        PROVE  Chained'
    <3>1. carried \in SUBSET Slots
      OBVIOUS
    <3> QED
      BY <2>2, <3>1, UpdateFollowingChained
  <2> QED
    BY <1>1, <2>1, <2>2, EventRecords
<1>4. CASE ProjectStep
  BY <1>4, QuietSteps DEF ProjectStep
<1>5. CASE EmptyTrash \/ Reload \/ UNCHANGED vars
  BY <1>5, QuietSteps
<1>6. CASE Undo \/ Redo
  BY <1>6, UndoChained, RedoChained
<1>7. CASE DeletionStep \/ Open \/ OthersStep
  BY <1>7, DeletionSteps
<1> QED
  BY <1>2, <1>3, <1>4, <1>5, <1>6, <1>7 DEF Next

LEMMA AlwaysChained == Spec => []Chained
<1>1. Init => Chained
  BY DEF Init, Chained, ChainTo
<1>2. Good /\ Chained /\ [Next]_vars => Chained'
  BY StepChained
<1> QED
  BY AlwaysGood, <1>1, <1>2, PTL DEF Spec

\* A stack that is chained to the files of now leads back by its last entry.
LEMMA LastLeads ==
  ASSUME Good, NEW stack \in Seq(Snapshot), NEW hist \in Seq(Known0),
         Len(hist) = Len(stack), stack # <<>>, ChainTo(stack, hist, Live(disk)),
         Last(hist) # None
  PROVE  SameButLostParts(Live(Last(Steps(disk, cache, Last(stack)))), Last(hist))
<1>1. Live(disk) # None
  <2>1. Live(disk) \in LiveFiles
    BY DEF Good, Live, LiveFiles, Disk
  <2> QED
    BY <2>1, VaultAssumption
<1>2. Len(stack) \in 1..Len(stack) /\ Last(hist) = hist[Len(stack)]
      /\ Last(stack) = stack[Len(stack)]
  BY DEF Last
<1>3. Leads(Live(disk), Last(stack), Last(hist))
  BY <1>1, <1>2 DEF ChainTo
<1>4. LostOrSame(disk, Live(Last(Steps(disk, cache, Last(stack)))), Last(hist))
  BY <1>3 DEF Leads, Good
<1> QED
  BY <1>4 DEF LostOrSame, SameButLostParts

\* Undo and redo lead back to the files as they were before what they take
\* back, but that a deleted series comes back with its first component only
\* (context.rs: undo, redo, apply), over any sequence of mutations, splits,
\* deletions of projects and restarts.
THEOREM UndoLeadsBack == Spec => UndoRestores
<1>1. ASSUME Good, Chained, Undo, insync, insync', Last(past) # None
      PROVE  SameButLostParts(Live(disk'), Last(past))
  <2>1. disk' = Last(Steps(disk, cache, Last(undo)))
    BY <1>1 DEF Undo, FailsAt
  <2>2. /\ undo \in Seq(Snapshot) /\ past \in Seq(Known0) /\ Len(past) = Len(undo)
        /\ undo # <<>> /\ ChainTo(undo, past, Live(disk))
    BY <1>1 DEF Good, StacksOK, Undo, Free, Chained
  <2> QED
    BY <1>1, <2>1, <2>2, LastLeads
<1>2. ASSUME Good, Chained, Redo, insync, insync', Last(future) # None
      PROVE  SameButLostParts(Live(disk'), Last(future))
  <2>1. disk' = Last(Steps(disk, cache, Last(redo)))
    BY <1>2 DEF Redo, FailsAt
  <2>2. /\ redo \in Seq(Snapshot) /\ future \in Seq(Known0) /\ Len(future) = Len(redo)
        /\ redo # <<>> /\ ChainTo(redo, future, Live(disk))
    BY <1>2 DEF Good, StacksOK, Redo, Free, Chained
  <2> QED
    BY <1>2, <2>1, <2>2, LastLeads
<1>3. Good /\ Chained /\ [Next]_vars => [Undone(SameButLostParts)]_vars
  BY <1>1, <1>2 DEF Undone
<1> QED
  BY AlwaysGood, AlwaysChained, <1>3, PTL DEF Spec, UndoRestores

-----------------------------------------------------------------------------
(* The terminal UI, the context's host (its run is MCTui's).               *)

\* What a reload has read, and still has to read, is what the files say.
ReadsTrue(got, left) ==
  \A t \in Screen!Tasks :
    IF t \in left THEN onDisk[t] # Absent /\ \A i \in DOMAIN got : got[i].uid # t
    ELSE Screen!Cached(got, t) = onDisk[t]

\* Unless a change is unreported or flagged: what is cached, or being read.
Fresh ==
  ~news /\ ~flagged =>
    /\ pc = "reading" => ReadsTrue(listing.got, listing.left)
    /\ pc \notin {"reading", "edited"} => Screen!Agrees

Listed ==
  pc = "reading" =>
    listing.left \subseteq Screen!Tasks /\ \E S : listing.got \in Seq(S)

ScreenInv == Listed /\ Fresh

-----------------------------------------------------------------------------
(* The first place of a task in a cache. *)

LEMMA MinExists ==
  ASSUME NEW S \in SUBSET Nat, S # {}
  PROVE  Screen!Min(S) \in S
<1>1. PICK m \in S : \A y \in S : <<y, m>> \notin OpToRel(<, Nat)
  BY NatLessThanWellFounded, WFMin
<1>2. \A y \in S : ~(y < m)
  BY <1>1 DEF OpToRel
<1>3. \A y \in S : m =< y
  BY <1>2
<1>4. QED BY <1>3 DEF Screen!Min

LEMMA AtFacts ==
  ASSUME NEW S, NEW c \in Seq(S), NEW t
  PROVE  LET a == Screen!At(c, t) IN
         /\ (\E i \in 1..Len(c) : c[i].uid = t) => a \in 1..Len(c) /\ c[a].uid = t
         /\ ~(\E i \in 1..Len(c) : c[i].uid = t) => a = 0
<1> DEFINE I == {i \in 1..Len(c) : c[i].uid = t}
<1>1. Screen!At(c, t) = IF I # {} THEN Screen!Min(I) ELSE 0
  BY DEF Screen!At, Screen!SelectInSeq
<1>2. I # {} => Screen!Min(I) \in I
<2>1. I \in SUBSET Nat
  OBVIOUS
<2> HIDE DEF I
<2>2. QED BY <2>1, MinExists
<1>3. CASE I = {}
  BY <1>1, <1>3
<1>4. CASE I # {}
  BY <1>1, <1>2, <1>4
<1>5. QED BY <1>3, <1>4

-----------------------------------------------------------------------------
(* Steps that do not reload. *)

\* A step between reloads changes what is cached or on disk, and reports it,
\* or neither.
Between ==
  /\ pc' \in {"ready", "busy", "edited"}
  /\ pc' = "edited" => news'
  /\ flagged' = flagged
  /\ news' \/ UNCHANGED <<onDisk, taskCache, news>>

LEMMA BetweenKeeps ==
  ASSUME ScreenInv, pc \in {"ready", "busy"}, Between
  PROVE  ScreenInv'
<1>1. Listed'
  BY DEF Between, Listed
<1>2. CASE news'
  BY <1>1, <1>2, Zenon DEF Between, ScreenInv, Fresh
<1>3. CASE UNCHANGED <<onDisk, taskCache, news>>
  <2>1. Screen!Agrees' = Screen!Agrees
    BY <1>3 DEF Screen!Agrees
  <2> QED
    BY <1>1, <1>3, <2>1 DEF Between, ScreenInv, Fresh
<1> QED
  BY <1>2, <1>3 DEF Between

LEMMA BulkSteps ==
  ASSUME Screen!Bulk
  PROVE  pc = "busy" /\ Between
<1>1. CASE Screen!Write
  BY <1>1 DEF Screen!Write, Screen!Busy, Screen!Record, Screen!Apply, Between
<1>2. CASE Screen!WriteFails
  BY <1>2 DEF Screen!WriteFails, Screen!Busy, Screen!EndJob, Screen!context, Between
<1>3. CASE Screen!EndRound
  BY <1>3 DEF Screen!EndRound, Screen!Busy, Screen!EndJob, Screen!Untouched, Screen!vault,
              Screen!context, Between
<1>4. CASE Screen!NextRound
  BY <1>4 DEF Screen!NextRound, Screen!Busy, Screen!Untouched, Screen!vault, Screen!context,
              Between
<1> QED
  BY <1>1, <1>2, <1>3, <1>4 DEF Screen!Bulk

LEMMA KeySteps ==
  ASSUME Screen!Keys
  PROVE  pc = "ready" /\ Between
<1> USE DEF Screen!Key, Screen!Waiting, Screen!Ready, Screen!Untouched, Screen!vault,
            Screen!context, Between
<1>1. CASE \E k \in {"up", "down", "left", "right"} : Screen!Motion(k)
  BY <1>1 DEF Screen!Motion, Screen!Looks
<1>2. CASE Screen!PressVisual \/ Screen!CycleTab
  BY <1>2 DEF Screen!PressVisual, Screen!CycleTab, Screen!Looks
<1>3. CASE \E p \in Screen!Option(ProjectNames) : Screen!CycleScope(p)
  BY <1>3 DEF Screen!CycleScope, Screen!Looks
<1>4. CASE \/ \E op \in Screen!Ops : Screen!PressAct(op)
           \/ \E dir \in {-1, 1}, n \in 1..MaxCount : Screen!PressMove(dir, n)
  BY <1>4 DEF Screen!PressAct, Screen!PressMove, Screen!Act
<1>5. CASE \E v \in Screen!Task : Screen!Edit(v)
  BY <1>5 DEF Screen!Edit
<1>6. CASE Screen!PressUndo
  BY <1>6 DEF Screen!PressUndo, Screen!Undo, Screen!Apply
<1>7. CASE Screen!PressRedo
  BY <1>7 DEF Screen!PressRedo, Screen!Redo, Screen!Apply
<1>8. CASE \/ Screen!OpenPalette \/ Screen!OpenPicker \/ Screen!OpenTrash
           \/ Screen!OpenForm \/ Screen!Escape
  BY <1>8 DEF Screen!OpenPalette, Screen!OpenPicker, Screen!OpenTrash, Screen!OpenForm,
              Screen!Open, Screen!Escape
<1>9. CASE \E op \in Screen!Ops : Screen!PaletteActs(op)
  BY <1>9 DEF Screen!PaletteActs, Screen!In, Screen!Act
<1>10. CASE \/ \E tab \in {"board", "tasks"} : Screen!PaletteGoes(tab)
            \/ \E p \in Screen!Option(ProjectNames) : Screen!Pick(p)
  BY <1>10 DEF Screen!PaletteGoes, Screen!Pick, Screen!In
<1>11. ASSUME NEW t, Screen!Restore(t)
       PROVE  pc = "ready" /\ Between
  BY <1>11 DEF Screen!Restore, Screen!InTrash, Screen!In, Screen!Record, Screen!Apply
<1>12. ASSUME NEW S, Screen!Purge(S)
       PROVE  pc = "ready" /\ Between
  BY <1>12 DEF Screen!Purge, Screen!InTrash, Screen!In
<1>13. ASSUME NEW t, NEW p, NEW more, Screen!Submit(t, p, more)
       PROVE  pc = "ready" /\ Between
  BY <1>13 DEF Screen!Submit, Screen!In, Screen!Apply
<1> USE DEF Screen!Keys
<1> QED
  BY <1>1, <1>2, <1>3, <1>4, <1>5, <1>6, <1>7, <1>8, <1>9, <1>10, <1>11, <1>12, <1>13

-----------------------------------------------------------------------------
(* A reload: what it reads, file by file. *)

LEMMA EmptyKnows ==
  ASSUME NEW t
  PROVE  Screen!Cached(<<>>, t) = Absent
<1>1. <<>> \in Seq({}) /\ ~\E i \in 1..Len(<<>>) : <<>>[i].uid = t
  OBVIOUS
<1>2. Screen!At(<<>>, t) = 0
  BY <1>1, AtFacts
<1> QED
  BY <1>2 DEF Screen!Cached

LEMMA AppendKnows ==
  ASSUME NEW S, NEW c \in Seq(S), NEW t, NEW v, \A i \in 1..Len(c) : c[i].uid # t
  PROVE  LET more == Append(c, [uid |-> t, val |-> v]) IN
         /\ Screen!Cached(more, t) = v
         /\ \A x : x # t => Screen!Cached(more, x) = Screen!Cached(c, x)
<1> DEFINE e == [uid |-> t, val |-> v]
           T == S \cup {e}
           more == Append(c, e)
<1>1. /\ c \in Seq(T) /\ more \in Seq(T) /\ Len(more) = Len(c) + 1 /\ Len(c) \in Nat
      /\ more[Len(c) + 1] = e /\ \A i \in 1..Len(c) : more[i] = c[i]
  OBVIOUS
<1>2. e.uid = t /\ e.val = v
  OBVIOUS
<1> HIDE DEF T, more, e
<1>3. Screen!Cached(more, t) = v
  <2>1. \E i \in 1..Len(more) : more[i].uid = t
    BY <1>1, <1>2
  <2>2. Screen!At(more, t) \in 1..Len(more) /\ more[Screen!At(more, t)].uid = t
    BY <1>1, <2>1, AtFacts
  <2>3. Screen!At(more, t) = Len(c) + 1
    BY <1>1, <2>2
  <2> QED
    BY <1>1, <1>2, <2>3 DEF Screen!Cached
<1>4. ASSUME NEW x, x # t
      PROVE  Screen!Cached(more, x) = Screen!Cached(c, x)
  <2>1. CASE \E i \in 1..Len(c) : c[i].uid = x
    <3>1. {i \in 1..Len(more) : more[i].uid = x} = {i \in 1..Len(c) : c[i].uid = x}
      BY <1>1, <1>2, <1>4
    <3>2. Screen!At(more, x) = Screen!At(c, x)
      BY <3>1, Zenon DEF Screen!At, Screen!SelectInSeq
    <3>3. Screen!At(c, x) \in 1..Len(c)
      BY <2>1, AtFacts
    <3> QED
      BY <1>1, <3>2, <3>3 DEF Screen!Cached
  <2>2. CASE ~\E i \in 1..Len(c) : c[i].uid = x
    <3>1. ~\E i \in 1..Len(more) : more[i].uid = x
      BY <1>1, <1>2, <1>4, <2>2
    <3>2. Screen!At(c, x) = 0 /\ Screen!At(more, x) = 0
      BY <1>1, <2>2, <3>1, AtFacts
    <3> QED
      BY <3>2 DEF Screen!Cached
  <2> QED
    BY <2>1, <2>2
<1> QED
  BY <1>3, <1>4 DEF more, e

\* A reload begins with every file there is still to read.
LEMMA StartSteps ==
  ASSUME Screen!StartReload \/ Screen!Edited
  PROVE  ScreenInv'
<1>1. pc' = "reading" /\ Screen!StartReading /\ onDisk' = onDisk
  BY DEF Screen!StartReload, Screen!Edited, Screen!vault, Screen!StartReading
<1>2. /\ listing'.left = {t \in Screen!Tasks : onDisk[t] # Absent}
      /\ listing'.got = <<>>
  BY <1>1 DEF Screen!StartReading
<1>3. Listed'
  <2>1. <<>> \in Seq({})
    OBVIOUS
  <2> QED
    BY <1>2, <2>1 DEF Listed
<1>4. ReadsTrue(listing.got, listing.left)'
  BY <1>1, <1>2, EmptyKnows DEF ReadsTrue
<1> QED
  BY <1>1, <1>3, <1>4 DEF ScreenInv, Fresh

LEMMA ReadSteps ==
  ASSUME ScreenInv, Screen!ReadFile
  PROVE  ScreenInv'
<1>1. /\ pc = "reading" /\ onDisk' = onDisk /\ taskCache' = taskCache
      /\ news' = news /\ flagged' = flagged
  BY DEF Screen!ReadFile, Screen!vault, Screen!context
<1>2. PICK t \in listing.left :
        IF onDisk[t] # Absent
        THEN /\ listing' = [left |-> listing.left \ {t},
                            got |-> Append(listing.got, [uid |-> t, val |-> onDisk[t]])]
             /\ pc' = pc
        ELSE pc' = "ready"
  BY DEF Screen!ReadFile
<1>3. PICK S : listing.left \subseteq Screen!Tasks /\ listing.got \in Seq(S)
  BY <1>1 DEF ScreenInv, Listed
<1>4. CASE onDisk[t] # Absent
  <2> DEFINE e == [uid |-> t, val |-> onDisk[t]]
  <2>1. /\ pc' = "reading" /\ listing'.left = listing.left \ {t}
        /\ listing'.got = Append(listing.got, e)
    BY <1>1, <1>2, <1>4
  <2>2. Append(listing.got, e) \in Seq(S \cup {e})
    BY <1>3
  <2>3. Listed'
    BY <1>3, <2>1, <2>2 DEF Listed
  <2>4. CASE ~news /\ ~flagged
    <3>1. ReadsTrue(listing.got, listing.left)
      BY <1>1, <2>4 DEF ScreenInv, Fresh
    <3>2. \A i \in 1..Len(listing.got) : listing.got[i].uid # t
      BY <1>2, <1>3, <3>1 DEF ReadsTrue
    <3>3. /\ Screen!Cached(listing'.got, t) = onDisk[t]
          /\ \A x : x # t => Screen!Cached(listing'.got, x) = Screen!Cached(listing.got, x)
      BY <1>3, <2>1, <3>2, AppendKnows
    <3>4. ASSUME NEW x \in listing'.left, NEW i \in DOMAIN listing'.got
          PROVE  onDisk[x] # Absent /\ listing'.got[i].uid # x
      <4>1. x \in listing.left /\ x # t /\ x \in Screen!Tasks
        BY <1>3, <2>1
      <4>2. onDisk[x] # Absent /\ \A j \in DOMAIN listing.got : listing.got[j].uid # x
        BY <3>1, <4>1 DEF ReadsTrue
      <4>3. /\ e.uid = t
            /\ \/ i \in DOMAIN listing.got /\ listing'.got[i] = listing.got[i]
               \/ listing'.got[i] = e
        BY <1>3, <2>1
      <4> QED
        BY <4>1, <4>2, <4>3
    <3>5. ReadsTrue(listing'.got, listing'.left)
      <4>1. ASSUME NEW x \in Screen!Tasks, x \in listing'.left
            PROVE  onDisk[x] # Absent
        BY <1>3, <2>1, <3>1, <4>1 DEF ReadsTrue
      <4>2. ASSUME NEW x \in Screen!Tasks, x \notin listing'.left
            PROVE  Screen!Cached(listing'.got, x) = onDisk[x]
        <5>1. CASE x = t
          BY <3>3, <5>1
        <5>2. CASE x # t
          <6>1. x \notin listing.left
            BY <2>1, <4>2, <5>2
          <6>2. Screen!Cached(listing.got, x) = onDisk[x]
            BY <3>1, <6>1 DEF ReadsTrue
          <6> QED
            BY <3>3, <5>2, <6>2
        <5> QED
          BY <5>1, <5>2
      <4> QED
        BY <3>4, <4>1, <4>2 DEF ReadsTrue
    <3>6. ReadsTrue(listing.got, listing.left)'
      BY <1>1, <3>5 DEF ReadsTrue
    <3> QED
      BY <2>1, <2>3, <3>6 DEF ScreenInv, Fresh
  <2>5. CASE news \/ flagged
    BY <1>1, <2>3, <2>5 DEF ScreenInv, Fresh
  <2> QED
    BY <2>4, <2>5 DEF ScreenInv, Fresh
<1>5. CASE onDisk[t] = Absent
  <2>1. pc' = "ready" /\ Listed'
    BY <1>2, <1>5 DEF Listed
  <2>2. ASSUME ~news, ~flagged
        PROVE  FALSE
    <3>1. ReadsTrue(listing.got, listing.left)
      BY <1>1, <2>2 DEF ScreenInv, Fresh
    <3> QED
      BY <1>2, <1>3, <1>5, <3>1 DEF ReadsTrue
  <2> QED
    BY <1>1, <2>1, <2>2 DEF ScreenInv, Fresh
<1> QED
  BY <1>4, <1>5

LEMMA FinishSteps ==
  ASSUME ScreenInv, Screen!FinishReload
  PROVE  ScreenInv'
<1>1. /\ pc = "reading" /\ pc' = "ready" /\ listing.left = {} /\ taskCache' = listing.got
      /\ onDisk' = onDisk /\ news' = news /\ flagged' = flagged
  BY DEF Screen!FinishReload, Screen!vault
<1>2. Listed'
  BY <1>1 DEF Listed
<1>3. ASSUME ~news, ~flagged
      PROVE  Screen!Agrees'
  <2>1. ReadsTrue(listing.got, listing.left)
    BY <1>1, <1>3 DEF ScreenInv, Fresh
  <2>2. \A t \in Screen!Tasks : Screen!Cached(listing.got, t) = onDisk[t]
    BY <1>1, <2>1 DEF ReadsTrue
  <2> QED
    BY <1>1, <2>2 DEF Screen!Agrees
<1> QED
  BY <1>1, <1>2, <1>3 DEF ScreenInv, Fresh

-----------------------------------------------------------------------------

LEMMA PlaceFacts ==
  ASSUME Screen!TuiAssumption
  PROVE  /\ \A t \in Screen!Tasks :
              Screen!Place(t) \in 1..Len(TaskOrder) /\ TaskOrder[Screen!Place(t)] = t
         /\ \A i \in 1..Len(TaskOrder) :
              TaskOrder[i] \in Screen!Tasks /\ Screen!Place(TaskOrder[i]) = i
<1>1. \A t \in Screen!Tasks : \E i \in DOMAIN TaskOrder : TaskOrder[i] = t
  BY DEF Screen!Tasks, Screen!ToSet
<1>2. \A t \in Screen!Tasks :
        Screen!Place(t) \in DOMAIN TaskOrder /\ TaskOrder[Screen!Place(t)] = t
  BY <1>1 DEF Screen!Place
<1>3. \A i, j \in DOMAIN TaskOrder : TaskOrder[i] = TaskOrder[j] => i = j
  BY DEF Screen!TuiAssumption, Screen!IsInjective
<1>4. DOMAIN TaskOrder = 1..Len(TaskOrder)
  BY DEF Screen!TuiAssumption
<1>5. \A i \in DOMAIN TaskOrder : TaskOrder[i] \in Screen!Tasks
  BY DEF Screen!Tasks, Screen!ToSet
<1>6. ASSUME NEW i \in DOMAIN TaskOrder
      PROVE  Screen!Place(TaskOrder[i]) = i
  <2>1. /\ Screen!Place(TaskOrder[i]) \in DOMAIN TaskOrder
        /\ TaskOrder[Screen!Place(TaskOrder[i])] = TaskOrder[i]
    BY <1>2, <1>5
  <2> QED
    BY <1>3, <2>1
<1> QED
  BY <1>2, <1>4, <1>5, <1>6

LEMMA ScreenStarts ==
  ASSUME Screen!TuiAssumption, Screen!Init
  PROVE  ScreenInv
<1>1. pc = "ready" /\ Len(Initial) <= Len(TaskOrder) /\ Initial \in Seq(Screen!Task)
  BY DEF Screen!Init, Screen!TuiAssumption
<1>2. Len(TaskOrder) \in Nat /\ Len(Initial) \in Nat /\ DOMAIN Initial = 1..Len(Initial)
  BY <1>1 DEF Screen!TuiAssumption
<1> DEFINE c == [i \in DOMAIN Initial |-> [uid |-> TaskOrder[i], val |-> Initial[i]]]
<1>3. /\ taskCache = c
      /\ onDisk = [t \in Screen!Tasks |-> IF Screen!Place(t) <= Len(Initial)
                                          THEN Initial[Screen!Place(t)] ELSE Absent]
  BY DEF Screen!Init
<1>4. \A i \in 1..Len(Initial) : c[i].uid = TaskOrder[i] /\ c[i].val = Initial[i]
  BY <1>2
<1>5. PICK S : c \in Seq(S) /\ Len(c) = Len(Initial)
  <2> DEFINE S == {[uid |-> TaskOrder[i], val |-> Initial[i]] : i \in 1..Len(Initial)}
  <2>1. c \in [1..Len(Initial) -> S]
    BY <1>2
  <2>2. c \in Seq(S) /\ Len(c) = Len(Initial)
    <3> HIDE DEF c, S
    <3> QED
      BY <1>2, <2>1
  <2> HIDE DEF c, S
  <2> QED
    BY <2>2
<1> HIDE DEF c
<1>6. ASSUME NEW t \in Screen!Tasks
      PROVE  Screen!Cached(c, t) = onDisk[t]
  <2>1. /\ Screen!Place(t) \in 1..Len(TaskOrder) /\ TaskOrder[Screen!Place(t)] = t
        /\ \A i \in 1..Len(TaskOrder) : TaskOrder[i] = t => i = Screen!Place(t)
    BY PlaceFacts
  <2>2. CASE Screen!Place(t) <= Len(Initial)
    <3>1. Screen!Place(t) \in 1..Len(c) /\ c[Screen!Place(t)].uid = t
      BY <1>1, <1>2, <1>4, <1>5, <2>1, <2>2
    <3>2. Screen!At(c, t) \in 1..Len(c) /\ c[Screen!At(c, t)].uid = t
      BY <1>5, <3>1, AtFacts
    <3>3. Screen!At(c, t) = Screen!Place(t)
      BY <1>1, <1>2, <1>4, <1>5, <2>1, <3>2
    <3> QED
      BY <1>2, <1>3, <1>4, <1>5, <2>1, <2>2, <3>2, <3>3 DEF Screen!Cached
  <2>3. CASE ~(Screen!Place(t) <= Len(Initial))
    <3>1. ~\E i \in 1..Len(c) : c[i].uid = t
      BY <1>1, <1>2, <1>4, <1>5, <2>1, <2>3
    <3>2. Screen!At(c, t) = 0
      BY <1>5, <3>1, AtFacts
    <3> QED
      BY <1>3, <2>3, <3>2 DEF Screen!Cached
  <2> QED
    BY <2>2, <2>3
<1> QED
  BY <1>1, <1>3, <1>6 DEF ScreenInv, Listed, Fresh, Screen!Agrees

LEMMA ScreenStays ==
  ASSUME ScreenInv, [Screen!Next]_(Screen!vars)
  PROVE  ScreenInv'
<1>1. CASE Screen!Loop
  BY <1>1, StartSteps, ReadSteps, FinishSteps DEF Screen!Loop
<1>2. CASE Screen!Watch
  BY <1>2 DEF Screen!Watch, ScreenInv, Listed, Fresh
<1>3. CASE Screen!Bulk
  BY <1>3, BulkSteps, BetweenKeeps
<1>4. CASE Screen!Keys
  BY <1>4, KeySteps, BetweenKeeps
<1>5. CASE Screen!OthersAct
  <2>1. news' = TRUE /\ UNCHANGED <<pc, listing>>
    BY <1>5 DEF Screen!OthersAct, Screen!OthersPut, Screen!OthersDelete, Screen!Others
  <2> QED
    BY <2>1 DEF ScreenInv, Listed, Fresh
<1>6. CASE UNCHANGED Screen!vars
  <2>1. UNCHANGED <<onDisk, taskCache, news, flagged, pc, listing>>
    BY <1>6 DEF Screen!vars
  <2>2. Screen!Agrees' = Screen!Agrees
    BY <2>1 DEF Screen!Agrees
  <2>3. ReadsTrue(listing.got, listing.left)' = ReadsTrue(listing.got, listing.left)
    BY <2>1 DEF ReadsTrue
  <2> QED
    BY <2>1, <2>2, <2>3 DEF ScreenInv, Listed, Fresh
<1> QED
  BY <1>1, <1>2, <1>3, <1>4, <1>5, <1>6 DEF Screen!Next

\* The terminal UI never rests on an outdated copy of the tasks (main.rs
\* run_loop): unless a change is unreported, flagged or being read, what it has
\* cached is what the files say, whatever keys it has worked, which writes of
\* its own have failed and what others have written while it was reading.
THEOREM ScreenKeepsUp == Screen!Spec => []NoticesEdits
<1>1. Screen!Init => ScreenInv
  BY ScreenStarts, ScreensAssumption
<1>2. ScreenInv /\ [Screen!Next]_(Screen!vars) => ScreenInv'
  BY ScreenStays
<1>3. ScreenInv => NoticesEdits
  BY DEF ScreenInv, Fresh, NoticesEdits, Screen!NoticesEdits
<1> QED
  BY <1>1, <1>2, <1>3, PTL DEF Screen!Spec

-----------------------------------------------------------------------------
(* The calendar tab of the terminal UI.                                   *)

\* What the frame has at the selection is what is selected, marked if the agenda has the
\* focus, and a calModal about an event was opened on the one that was there then.
Marks ==
  /\ DOMAIN events = Plan!Events
  /\ calPc = "drawn" =>
       shown = [event |-> Plan!Selected(calUi),
                marked |-> IF calUi.pane = "agenda" THEN Plan!Selected(calUi) ELSE Absent]

About(m, e) ==
  m # Absent =>
    /\ "kind" \in DOMAIN m
    /\ m.kind \in {"event", "picker"} => "uid" \in DOMAIN m
    /\ m.kind = "event" => m.uid \in {Absent, e}
    /\ m.kind = "picker" => m.uid = e

PlanInv == Marks /\ About(calModal, aim)

\* What a step changes of the events is what the property allows.
Aimed ==
  calPc = "drawn" /\ ~(calModal # Absent /\ calModal.kind = "confirm") =>
    \A e \in Plan!Events : events[e] # Absent /\ events'[e] # events[e] =>
      IF calModal # Absent /\ calModal.kind \in {"event", "picker"} THEN e = aim
      ELSE e = shown.event /\ (calUi.pane = "agenda" => e = shown.marked)

-----------------------------------------------------------------------------
(* Modals. *)

LEMMA OpeningIsAbout ==
  ASSUME NEW e
  PROVE  /\ About(Absent, e)
         /\ About(Plan!Palette, e) /\ About(Plan!NewForm(calUi), e)
         /\ About(Plan!FormOf(e), e) /\ About(Plan!Picker(e), e)
         /\ \A x : About(Plan!Input(x), e) /\ About(Plan!Confirm(x), e)
  BY DEF About, Plan!Palette, Plan!NewForm, Plan!FormOf, Plan!Picker, Plan!Input, Plan!Confirm

\* A key within a calModal changes neither what it is nor what it is about.
Alike(m, n) ==
  /\ DOMAIN n = DOMAIN m
  /\ \A x \in DOMAIN m \cap {"kind", "uid"} : n[x] = m[x]

LEMMA AlikeAreAbout ==
  ASSUME NEW m, NEW n, NEW e, About(m, e), m # Absent, Alike(m, n)
  PROVE  About(n, e)
<1>1. "kind" \in DOMAIN m => n.kind = m.kind
  BY DEF Alike
<1>2. "uid" \in DOMAIN m => n.uid = m.uid
  BY DEF Alike
<1> QED
  BY <1>1, <1>2 DEF About, Alike

LEMMA StaysIsAbout ==
  ASSUME About(calModal, aim), Plan!FormKey \/ Plan!ListKey
  PROVE  About(calModal', aim')
<1>1. calModal # Absent /\ aim' = aim
  BY DEF Plan!FormKey, Plan!ListKey, Plan!In, Plan!Stays
<1>2. CASE Plan!FormKey
  <2>1. PICK f : Plan!Stays(f) /\
           f \in {[calModal EXCEPT !.field = Plan!PrevField(calModal)]} \cup Plan!Turned(calModal)
                \cup (IF calModal.field + 1 < Plan!Fields
                      THEN {[calModal EXCEPT !.field = Plan!NextField(calModal)]} ELSE {})
    BY <1>2 DEF Plan!FormKey
  <2>2. calModal' = f
    BY <2>1 DEF Plan!Stays
  <2>3. CASE f \in Plan!Turned(calModal)
    <3>1. \E v : f = [calModal EXCEPT !.allDay = v] \/ f = [calModal EXCEPT !.recur = v]
      BY <2>3 DEF Plan!Turned
    <3>2. Alike(calModal, f)
      BY <3>1 DEF Alike
    <3> QED
      BY <1>1, <2>2, <3>2, AlikeAreAbout
  <2>4. CASE f \notin Plan!Turned(calModal)
    <3>1. \E v : f = [calModal EXCEPT !.field = v]
      BY <2>1, <2>4
    <3>2. Alike(calModal, f)
      BY <3>1 DEF Alike
    <3> QED
      BY <1>1, <2>2, <3>2, AlikeAreAbout
  <2> QED
    BY <2>3, <2>4
<1>3. CASE Plan!ListKey
  <2>1. PICK m, list :
          m \in Plan!Retyped(calModal) \cup Plan!Arrows(calModal, list) /\ calModal' = m
    BY <1>3 DEF Plan!ListKey, Plan!Stays
  <2>2. Alike(calModal, m)
    <3>1. CASE m \in Plan!Arrows(calModal, list)
      <4>1. \E v : m = [calModal EXCEPT !.sel = v]
        BY <3>1 DEF Plan!Arrows
      <4> QED
        BY <4>1 DEF Alike
    <3>2. CASE m \in Plan!Retyped(calModal)
      <4>1. \/ \E v : m = [calModal EXCEPT !.typed = v, !.sel = 1]
            \/ \E v : m = [calModal EXCEPT !.query = v, !.sel = 1]
        BY <3>2 DEF Plan!Retyped
      <4> QED
        BY <4>1 DEF Alike
    <3> QED
      BY <2>1, <3>1, <3>2
  <2> QED
    BY <1>1, <2>1, <2>2, AlikeAreAbout
<1> QED
  BY <1>2, <1>3

-----------------------------------------------------------------------------
(* Steps.  A key is pressed on a frame, which is gone afterwards. *)

\* A step that is not one of the keys that change events.
Still == events' = events /\ calModal' = calModal /\ aim' = aim

LEMMA StillKeeps ==
  ASSUME PlanInv, Still, calPc' # "drawn"
  PROVE  PlanInv' /\ Aimed
<1>1. Aimed
  BY DEF Still, Aimed
<1>2. DOMAIN events' = Plan!Events
  BY DEF PlanInv, Marks, Still
<1>3. About(calModal', aim')
  BY DEF PlanInv, Still
<1> QED
  BY <1>1, <1>2, <1>3 DEF PlanInv, Marks

\* What is put in the place of one event, if any.
Puts(e) == events' = events \/ \E v : events' = [events EXCEPT ![e] = v]

LEMMA PutsAt ==
  ASSUME NEW e, Puts(e)
  PROVE  /\ DOMAIN events' = DOMAIN events
         /\ \A x \in DOMAIN events : x # e => events'[x] = events[x]
  BY DEF Puts

\* A key that changes at most what the frame marked, under no form or picker.
LEMMA ChangesMarked ==
  ASSUME PlanInv, calPc = "drawn", calPc' = "top", Puts(Plan!Selected(calUi)),
         calModal # Absent => calModal.kind \notin {"event", "picker"},
         About(calModal', aim')
  PROVE  PlanInv' /\ Aimed
<1>1. /\ shown.event = Plan!Selected(calUi)
      /\ calUi.pane = "agenda" => shown.marked = shown.event
      /\ DOMAIN events = Plan!Events
  BY DEF PlanInv, Marks
<1>2. /\ DOMAIN events' = Plan!Events
      /\ \A x \in Plan!Events : x # shown.event => events'[x] = events[x]
  BY <1>1, PutsAt
<1>3. Aimed
  BY <1>1, <1>2 DEF Aimed
<1> QED
  BY <1>2, <1>3 DEF PlanInv, Marks

\* Choosing in a form or a picker.
LEMMA ChangesAim ==
  ASSUME PlanInv, calPc' = "top", calModal # Absent, calModal.kind \in {"event", "picker"},
         NEW e, Puts(e), e = aim \/ events[e] = Absent, About(calModal', aim')
  PROVE  PlanInv' /\ Aimed
<1>1. /\ DOMAIN events' = Plan!Events
      /\ \A x \in Plan!Events : x # e => events'[x] = events[x]
  BY PutsAt DEF PlanInv, Marks
<1>2. Aimed
  BY <1>1 DEF Aimed
<1> QED
  BY <1>1, <1>2 DEF PlanInv, Marks

LEMMA StillSteps ==
  ASSUME \/ Plan!PhaseEnds \/ Plan!NoKey \/ Plan!Motion \/ Plan!Look \/ Plan!ToggleDone
         \/ Plan!Leave \/ Plan!Sidebar \/ Plan!FocusKey \/ \E e \in Plan!Events : Plan!Navigate(e)
  PROVE  Still /\ calPc' # "drawn"
  BY DEF Still, Plan!PhaseEnds, Plan!NoKey, Plan!Motion, Plan!Look, Plan!ToggleDone,
         Plan!Leave, Plan!Sidebar, Plan!FocusKey, Plan!Navigate, Plan!OnCalendar, Plan!Pressed,
         Plan!store

LEMMA DrawSteps ==
  ASSUME PlanInv, Plan!Draw \/ UNCHANGED Plan!vars
  PROVE  PlanInv' /\ Aimed
<1>1. /\ Still /\ calUi' = calUi
      /\ calPc' = "drawn" =>
           shown' = [event |-> Plan!Selected(calUi),
                     marked |-> IF calUi.pane = "agenda" THEN Plan!Selected(calUi) ELSE Absent]
  BY DEF Plan!Draw, Plan!vars, Plan!store, Still, PlanInv, Marks
<1>2. Plan!Selected(calUi)' = Plan!Selected(calUi)
  BY <1>1 DEF Still, Plan!Selected
<1>3. Aimed
  BY <1>1 DEF Still, Aimed
<1>4. DOMAIN events' = Plan!Events /\ About(calModal', aim')
  BY <1>1 DEF PlanInv, Marks, Still
<1> QED
  BY <1>1, <1>2, <1>3, <1>4 DEF PlanInv, Marks

LEMMA ReloadSteps ==
  ASSUME PlanInv, Plan!Reload
  PROVE  PlanInv' /\ Aimed
<1>1. calPc = "top" /\ calPc' = "top" /\ calModal' = calModal /\ aim' = aim
  BY DEF Plan!Reload
<1>2. \E e : Puts(e)
  BY DEF Plan!Reload, Puts
<1>3. DOMAIN events' = Plan!Events
  BY <1>2, PutsAt DEF PlanInv, Marks
<1>4. Aimed
  BY <1>1 DEF Aimed
<1>5. About(calModal', aim')
  BY <1>1 DEF PlanInv
<1> QED
  BY <1>1, <1>3, <1>4, <1>5 DEF PlanInv, Marks

LEMMA ChangeSteps ==
  ASSUME PlanInv, Plan!Nudge \/ Plan!Delete
  PROVE  PlanInv' /\ Aimed
<1>1. PICK val : Plan!Change(val)
  BY DEF Plan!Nudge, Plan!Delete
<1>2. /\ calPc = "drawn" /\ calPc' = "top" /\ calModal = Absent
      /\ calModal' = calModal /\ aim' = aim
      /\ events' = Plan!Changed(val)
  BY <1>1 DEF Plan!Change, Plan!OnCalendar, Plan!Pressed
<1>3. Puts(Plan!Selected(calUi))
  BY <1>2 DEF Plan!Changed, Puts
<1>4. About(calModal', aim')
  BY <1>2 DEF PlanInv
<1> QED
  BY <1>2, <1>3, <1>4, ChangesMarked

LEMMA OpenSteps ==
  ASSUME PlanInv, Plan!Open
  PROVE  PlanInv' /\ Aimed
<1>1. /\ calPc = "drawn" /\ calPc' = "top" /\ calModal = Absent /\ aim' = shown.event
      /\ events' = events
  BY DEF Plan!Open, Plan!Opens, Plan!Pressed, Plan!store
<1>2. shown.event = Plan!Selected(calUi)
  BY <1>1 DEF PlanInv, Marks
<1>3. About(calModal', aim')
  BY <1>1, <1>2, OpeningIsAbout DEF Plan!Open, Plan!Opens
<1>4. Puts(Plan!Selected(calUi))
  BY <1>1 DEF Puts
<1> QED
  BY <1>1, <1>3, <1>4, ChangesMarked

LEMMA ModalSteps ==
  ASSUME PlanInv, Plan!Escape \/ Plan!FormKey \/ Plan!ListKey \/ Plan!Enter
  PROVE  PlanInv' /\ Aimed
<1>1. events' = events /\ calPc' = "top"
  BY DEF Plan!Escape, Plan!FormKey, Plan!ListKey, Plan!Enter, Plan!In, Plan!Stays, Plan!Pressed,
         Plan!store
<1>2. About(calModal', aim')
  <2>1. CASE Plan!FormKey \/ Plan!ListKey
    BY <2>1, StaysIsAbout DEF PlanInv
  <2>2. CASE Plan!Escape \/ Plan!Enter
    BY <2>2 DEF Plan!Escape, Plan!Enter, Plan!Closes, About
  <2> QED
    BY <2>1, <2>2
<1>3. Aimed
  BY <1>1 DEF Aimed
<1>4. DOMAIN events' = Plan!Events
  BY <1>1 DEF PlanInv, Marks
<1> QED
  BY <1>1, <1>2, <1>3, <1>4 DEF PlanInv, Marks

LEMMA SubmitSteps ==
  ASSUME PlanInv, Plan!Submit
  PROVE  PlanInv' /\ Aimed
<1>1. calPc' = "top" /\ calModal # Absent /\ calModal.kind = "event" /\ About(calModal', aim')
  BY DEF Plan!Submit, Plan!In, Plan!Pressed, Plan!Closes, About
<1>2. PICK e \in IF calModal.uid = Absent THEN {x \in Plan!Events : events[x] = Absent}
                 ELSE {Plan!Edited} \ {Absent} :
        \E v : events' = [events EXCEPT ![e] = v]
  BY Zenon DEF Plan!Submit
<1>3. e = aim \/ events[e] = Absent
  BY <1>1, <1>2 DEF PlanInv, About, Plan!Edited
<1>4. Puts(e)
  BY <1>2 DEF Puts
<1> QED
  BY <1>1, <1>3, <1>4, ChangesAim

LEMMA PickSteps ==
  ASSUME PlanInv, Plan!Pick
  PROVE  PlanInv' /\ Aimed
<1>1. calPc' = "top" /\ calModal # Absent /\ calModal.kind = "picker" /\ About(calModal', aim')
  BY DEF Plan!Pick, Plan!In, Plan!Pressed, Plan!Closes, About
<1>2. Puts(calModal.uid)
  BY DEF Plan!Pick, Puts
<1>3. calModal.uid = aim
  BY <1>1 DEF PlanInv, About
<1> QED
  BY <1>1, <1>2, <1>3, ChangesAim

LEMMA RunSteps ==
  ASSUME PlanInv, Plan!Run
  PROVE  PlanInv' /\ Aimed
<1>1. calPc = "drawn" /\ calPc' = "top" /\ calModal # Absent /\ calModal.kind = "palette"
  BY DEF Plan!Run, Plan!In, Plan!Pressed
<1>2. Puts(Plan!Selected(calUi))
  BY DEF Plan!Run, Plan!Execute, Plan!Changed, Puts
<1>3. About(calModal', aim')
  <2>1. (calModal' = Absent /\ aim' = Absent) \/ (calModal' = Plan!NewForm(calUi) /\ aim' = aim)
    BY DEF Plan!Run, Plan!Execute, Plan!Closes
  <2> QED
    BY <2>1, OpeningIsAbout
<1> QED
  BY <1>1, <1>2, <1>3, ChangesMarked

LEMMA ConfirmSteps ==
  ASSUME PlanInv, Plan!DeleteProject
  PROVE  PlanInv' /\ Aimed
<1>1. /\ calPc' = "top" /\ calModal # Absent /\ calModal.kind = "confirm" /\ calModal' = Absent
      /\ DOMAIN events' = Plan!Events
  BY DEF Plan!DeleteProject, Plan!In, Plan!Pressed, Plan!Closes
<1>2. Aimed
  BY <1>1 DEF Aimed
<1> QED
  BY <1>1, <1>2 DEF PlanInv, Marks, About

LEMMA PlanSteps ==
  ASSUME PlanInv, [Plan!Next]_(Plan!vars)
  PROVE  PlanInv' /\ Aimed
  BY StillSteps, StillKeeps, DrawSteps, ReloadSteps, ChangeSteps, OpenSteps, ModalSteps,
     SubmitSteps, PickSteps, RunSteps, ConfirmSteps, Zenon DEF Plan!Next

LEMMA PlanStarts ==
  ASSUME Plan!Scheduled, Plan!Init
  PROVE  PlanInv
<1>1. events = Given /\ calModal = Absent /\ calPc = "top"
  BY DEF Plan!Init
<1>2. DOMAIN Given = Plan!Events
  BY DEF Plan!Scheduled
<1> QED
  BY <1>1, <1>2 DEF PlanInv, Marks, About

\* A key on the calendar changes no event but the one that the screen had at the
\* selection, and marked while the agenda has the focus, or the one the form or
\* picker was opened on, whatever reminders navigate, whatever others change and
\* however the keys follow one another (app.rs:817, 1656, 2416).
THEOREM PlannerChangesShown == Plan!Spec => ChangesShown
<1>1. Plan!Init => PlanInv
  BY PlanStarts, ScreensAssumption
<1>2. PlanInv /\ [Plan!Next]_(Plan!vars) => PlanInv' /\ Aimed
  BY PlanSteps
<1> QED
  BY <1>1, <1>2, PTL DEF Plan!Spec, ChangesShown, Plan!ChangesShown, Aimed
=============================================================================
