------------------------------- MODULE Backup -------------------------------
(***************************************************************************)
(* `mgmt backup run`, `mgmt backup prune` and `mgmt restore` (backup.rs,   *)
(* mgmt-backup) on one data root and one remote, beside the programs that  *)
(* edit the vault.  A run takes backup.lock, reads the tree file by file,  *)
(* uploads the archive and then its sidecar, and prunes the remote.  A     *)
(* restore moves the data root aside and another tree into its place, in   *)
(* two renames.                                                            *)
(***************************************************************************)
EXTENDS Integers, FiniteSets, FiniteSetsExt

CONSTANTS
  None, Files, Contents,
  Procs,               \* backup commands that run at the same time
  KeepLast, KeepDays,  \* RetentionPolicy; a day passes with every command
  MaxRuns, MaxEdits,   \* bounds on the runs, on the edits,
  MaxActs,             \* on both together,
  MaxFaults, MaxRestores

ASSUME BackupAssumption ==
  /\ KeepLast \in Nat /\ KeepDays \in Nat
  /\ MaxRuns \in Nat /\ MaxEdits \in Nat /\ MaxActs \in Nat
  /\ MaxFaults \in Nat /\ MaxRestores \in Nat
  /\ None \notin Contents /\ None \notin Nat

Held == Contents \cup {None}
Tree == [Files -> Held]
ASSUME NoneIsNoTree == None \notin Tree
Bare == [f \in Files |-> None]
Option(S) == S \cup {None}

VARIABLES
  root,      \* the data root, or None while there is none
  era,       \* which tree the data root is: changes when another takes its place
  moved,     \* the tree that a restore moved aside last
  split,     \* the data root was made anew by a program while it was aside,
  base,      \* over what could then be found in the trees moved aside
  lock,      \* backup.lock: who made it, and the pid in it once it is written
  movedLock, \* the one in the tree moved aside
  run,       \* the backup commands
  restore,   \* the restore command
  remote,    \* archives on the remote: number of their run, and tree
  runs, edits, faults, restores,
  \* history: what every file has held; runs that stored archive and sidecar; a lock
  \* taken from its holder; archives that a prune counted on; one of these taken away
  past, done, stolen, counted, pulled

tree == <<root, era, moved, split, base>>
locks == <<lock, movedLock, stolen>>
store == <<remote, done, counted, pulled>>
bounds == <<runs, edits, faults, restores>>
vars == <<tree, locks, run, restore, store, bounds, past>>

NoRun == [pc |-> "idle", pid |-> 0]
NoRestore == [pc |-> "idle"]

Init ==
  /\ root \in Tree /\ era = 0 /\ moved = Bare /\ split = FALSE /\ base = Bare
  /\ lock = None /\ movedLock = None
  /\ run = [p \in Procs |-> NoRun] /\ restore = NoRestore
  /\ remote = {}
  /\ runs = 0 /\ edits = 0 /\ faults = 0 /\ restores = 0
  /\ past = [f \in Files |-> {root[f], None}]
  /\ done = {} /\ stolen = FALSE /\ counted = {} /\ pulled = FALSE

Fault == faults < MaxFaults /\ faults' = faults + 1

-----------------------------------------------------------------------------
(* The tree. *)

Over(top, under) == [f \in Files |-> IF top[f] # None THEN top[f] ELSE under[f]]
Top == IF root # None THEN root ELSE moved
\* What can be put together from the data root and the trees set aside.
Whole == IF split THEN Over(Top, base) ELSE Top

\* Whoever writes below the data root makes it if it is not there.
MakesRoot(t) ==
  IF root # None THEN root' = t /\ UNCHANGED <<era, split, base>>
  ELSE root' = t /\ era' = era + 1 /\ split' = TRUE /\ base' = Whole

\* create_dir_all of a directory below it.
RootIsThere == IF root = None THEN MakesRoot(Bare) ELSE UNCHANGED <<root, era, split, base>>

\* A program writes or deletes a file of the vault.
Edit(f, c) ==
  /\ edits < MaxEdits /\ runs + edits < MaxActs /\ edits' = edits + 1
  /\ (IF root = None THEN None ELSE root[f]) # c
  /\ MakesRoot([(IF root = None THEN Bare ELSE root) EXCEPT ![f] = c])
  /\ UNCHANGED moved
  /\ past' = [past EXCEPT ![f] = @ \cup {Whole'[f]}]
  /\ UNCHANGED <<locks, run, restore, store, runs, faults, restores>>

-----------------------------------------------------------------------------
(* mgmt backup run *)

At(p, pc) == run[p].pc = pc
Goes(p, pc) == run' = [run EXCEPT ![p].pc = pc]
Ends(p) == run' = [run EXCEPT ![p] = NoRun]
Unlocked == lock' = None /\ UNCHANGED <<movedLock, stolen>>

Begin(p) ==
  /\ At(p, "idle")
  /\ runs < MaxRuns /\ runs + edits < MaxActs /\ runs' = runs + 1
  /\ \E pc \in {"lock", "list"} :
       run' = [run EXCEPT ![p] = [pc |-> pc, pid |-> runs + 1, locks |-> (pc = "lock"),
                                  sure |-> FALSE, saw |-> 0, era |-> era, left |-> {},
                                  copy |-> Bare, doomed |-> {}]]
  /\ UNCHANGED <<tree, locks, restore, store, edits, faults, restores, past>>

\* create_new: makes the file, or finds it there.  The directory is made first.
TryLock(p) ==
  /\ At(p, "lock")
  /\ RootIsThere
  /\ IF lock = None
     THEN lock' = [by |-> run[p].pid, pid |-> None] /\ Goes(p, "write")
     ELSE UNCHANGED lock /\ Goes(p, "stale")
  /\ UNCHANGED <<moved, movedLock, stolen, restore, store, bounds, past>>

\* The pid goes into the file that this run made, wherever that is by now.
WritePid(p) ==
  LET written(l) == IF l # None /\ l.by = run[p].pid THEN [l EXCEPT !.pid = l.by] ELSE l IN
  /\ At(p, "write")
  /\ lock' = written(lock) /\ movedLock' = written(movedLock)
  /\ Goes(p, "collect")
  /\ UNCHANGED <<tree, stolen, restore, store, bounds, past>>

Alive(pid) == \E q \in Procs : run[q].pid = pid

\* A mistake: whoever made the lock is taken for dead.
AnyIsStale(l) == TRUE

\* No file, no pid in it, or the pid of no process.
LockIsStale(l) == IF l = None THEN TRUE ELSE IF l.pid = None THEN TRUE ELSE ~Alive(l.pid)

CheckStale(p) ==
  /\ At(p, "stale")
  /\ IF LockIsStale(lock)
     THEN run' = [run EXCEPT ![p].pc = "reclaim",
                             ![p].saw = IF lock = None THEN 0 ELSE lock.by,
                             ![p].sure = lock # None /\ lock.pid # None]
     ELSE Ends(p)
  /\ UNCHANGED <<tree, locks, restore, store, bounds, past>>

\* remove_file, of whatever lock is there by now; a missing one is an error.  The
\* lock of a run that is alive may be taken in two ways: it was seen before its pid
\* was in it, or it is not the one that was seen.
Reclaim(p) ==
  /\ At(p, "reclaim")
  /\ lock' = None
  /\ stolen' = (stolen \/ (/\ lock # None /\ Alive(lock.by)
                           /\ ~run[p].sure \/ run[p].saw # lock.by))
  /\ IF lock = None THEN Ends(p) ELSE Goes(p, "lock")
  /\ UNCHANGED <<tree, movedLock, restore, store, bounds, past>>

\* The directory of the archive is made, in a new data root if need be; then
\* create_snapshot collects the paths, and reads the files one by one.
Collect(p) ==
  /\ At(p, "collect") /\ RootIsThere
  /\ run' = [run EXCEPT ![p].pc = "read", ![p].left = {f \in Files : root'[f] # None},
                        ![p].era = era']
  /\ UNCHANGED <<moved, locks, restore, store, bounds, past>>

\* A mistake: a file that was read is still to be read.
ReadAgain(p, f) ==
  /\ At(p, "read") /\ f \in run[p].left /\ root # None /\ root[f] # None
  /\ run' = [run EXCEPT ![p].copy[f] = root[f]]
  /\ UNCHANGED <<tree, locks, restore, store, bounds, past>>

Read(p, f) ==
  /\ At(p, "read") /\ f \in run[p].left /\ root # None /\ root[f] # None
  /\ run' = [run EXCEPT ![p].left = @ \ {f}, ![p].copy[f] = root[f]]
  /\ UNCHANGED <<tree, locks, restore, store, bounds, past>>

\* The archive is in the data root, below .state, and goes with it.
Staged(p) == root # None /\ era = run[p].era

Upload(p) ==
  /\ At(p, "read") /\ run[p].left = {} /\ Staged(p)
  /\ remote' = remote \cup {[id |-> run[p].pid, tree |-> run[p].copy]}
  /\ Goes(p, "sidecar")
  /\ UNCHANGED <<tree, locks, restore, done, counted, pulled, bounds, past>>

\* A file or the archive is gone, or something else does not work.
Fails(p) ==
  /\ At(p, "collect") \/ At(p, "read")
  /\ \/ Fault
     \/ /\ UNCHANGED faults
        /\ At(p, "read")
        /\ ~Staged(p) \/ \E f \in run[p].left : root # None /\ root[f] = None
  /\ Ends(p) /\ Unlocked
  /\ UNCHANGED <<tree, restore, store, runs, edits, restores, past>>

Sidecar(p) ==
  /\ At(p, "sidecar")
  /\ \/ /\ Staged(p) /\ done' = done \cup {run[p].pid} /\ Goes(p, "list")
        /\ UNCHANGED faults
     \/ /\ Fault \/ (~Staged(p) /\ UNCHANGED faults)
        /\ Goes(p, "orphan") /\ UNCHANGED done
  /\ UNCHANGED <<tree, locks, restore, remote, counted, pulled, runs, edits, restores, past>>

\* An archive without a sidecar is taken back; that this fails is ignored.
Orphan(p) ==
  LET id == run[p].pid IN
  /\ At(p, "orphan")
  /\ \/ /\ remote' = {a \in remote : a.id # id}
        /\ pulled' = (pulled \/ id \in counted) /\ UNCHANGED faults
     \/ Fault /\ UNCHANGED <<remote, pulled>>
  /\ Ends(p) /\ Unlocked
  /\ UNCHANGED <<tree, restore, done, counted, runs, edits, restores, past>>

-----------------------------------------------------------------------------
(* Retention. *)

Newer(ids, i) == Cardinality({j \in ids : j > i})

\* A mistake: both bounds hold for the newest archive, too.
PlanPruneByPolicy(ids, today) ==
  {i \in ids : Newer(ids, i) >= Max({KeepLast, 1}) \/ i + KeepDays < today}

\* The newest stays; another one stays if it is recent enough in both ways.
PlanPrune(ids, today) ==
  {i \in ids : /\ Newer(ids, i) > 0
               /\ Newer(ids, i) >= Max({KeepLast, 1}) \/ i + KeepDays < today}

Ids == {a.id : a \in remote}

List(p) ==
  /\ At(p, "list")
  /\ \/ /\ run' = [run EXCEPT ![p].pc = "prune", ![p].doomed = PlanPrune(Ids, runs)]
        /\ counted' = counted \cup (Ids \ PlanPrune(Ids, runs))
        /\ UNCHANGED <<faults, locks>>
     \/ /\ Fault /\ Ends(p) /\ UNCHANGED counted
        /\ IF run[p].locks THEN Unlocked ELSE UNCHANGED locks
  /\ UNCHANGED <<tree, restore, remote, done, pulled, runs, edits, restores, past>>

\* Newest first; an archive that is not there any more ends the command.
Delete(p) ==
  LET id == Max(run[p].doomed) IN
  /\ At(p, "prune") /\ run[p].doomed # {} /\ id \in Ids
  /\ remote' = {a \in remote : a.id # id}
  /\ run' = [run EXCEPT ![p].doomed = @ \ {id}]
  /\ UNCHANGED <<tree, locks, restore, done, counted, pulled, bounds, past>>

PruneEnds(p) ==
  /\ At(p, "prune")
  /\ \/ Fault
     \/ run[p].doomed = {} /\ UNCHANGED faults
     \/ run[p].doomed # {} /\ Max(run[p].doomed) \notin Ids /\ UNCHANGED faults
  /\ Ends(p) /\ IF run[p].locks THEN Unlocked ELSE UNCHANGED locks
  /\ UNCHANGED <<tree, restore, store, runs, edits, restores, past>>

\* The process dies; a lock it had stays where it is.
Crash(p) ==
  /\ ~At(p, "idle") /\ Fault
  /\ Ends(p)
  /\ UNCHANGED <<tree, locks, restore, store, runs, edits, restores, past>>

-----------------------------------------------------------------------------
(* mgmt restore *)

\* The archive is downloaded and verified.
Fetch ==
  /\ restore = NoRestore /\ restores < MaxRestores /\ restores' = restores + 1
  /\ \E a \in remote : restore' = [pc |-> "gate", tree |-> a.tree, aside |-> FALSE]
  /\ UNCHANGED <<tree, locks, run, store, runs, edits, faults, past>>

Gate ==
  /\ restore.pc = "gate"
  /\ restore' = IF lock # None THEN NoRestore ELSE [restore EXCEPT !.pc = "swap"]
  /\ UNCHANGED <<tree, locks, run, store, bounds, past>>

\* The first rename.  The lock of a run that began meanwhile goes with the tree.
MoveAside ==
  /\ restore.pc = "swap"
  /\ IF root # None
     THEN /\ moved' = root /\ root' = None
          /\ movedLock' = lock /\ lock' = None
          /\ stolen' = (stolen \/ lock # None)
     ELSE UNCHANGED <<moved, root, locks>>
  /\ restore' = [restore EXCEPT !.pc = "in", !.aside = (root # None)]
  /\ UNCHANGED <<era, split, base, run, store, bounds, past>>

\* A mistake: the archive is laid over the tree that was there.
MoveInOver ==
  /\ restore.pc = "in" /\ root = None
  /\ root' = Over(restore.tree, moved) /\ era' = era + 1 /\ split' = FALSE
  /\ restore' = NoRestore
  /\ UNCHANGED <<moved, base, locks, run, store, bounds, past>>

\* The second rename.
MoveIn ==
  /\ restore.pc = "in" /\ root = None
  /\ root' = restore.tree /\ era' = era + 1 /\ split' = FALSE
  /\ restore' = NoRestore
  /\ UNCHANGED <<moved, base, locks, run, store, bounds, past>>

\* It fails, since somebody has made the data root anew or for another reason: the
\* original goes back, if there is one and nothing is in its place.
MoveBack ==
  /\ restore.pc = "in"
  /\ Fault \/ (root # None /\ UNCHANGED faults)
  /\ IF restore.aside /\ root = None
     THEN root' = moved /\ lock' = movedLock /\ movedLock' = None
     ELSE UNCHANGED <<root, lock, movedLock>>
  /\ restore' = NoRestore
  /\ UNCHANGED <<era, moved, split, base, stolen, run, store, runs, edits, restores, past>>

\* The process dies, or fails before the first rename.
RestoreStops ==
  /\ restore # NoRestore /\ Fault
  /\ restore' = NoRestore
  /\ UNCHANGED <<tree, locks, run, store, runs, edits, restores, past>>

-----------------------------------------------------------------------------
BackupStep(p) ==
  \/ Begin(p) \/ TryLock(p) \/ WritePid(p) \/ CheckStale(p) \/ Reclaim(p) \/ Collect(p)
  \/ Upload(p) \/ Fails(p) \/ Sidecar(p) \/ Orphan(p) \/ List(p) \/ Delete(p) \/ PruneEnds(p)
  \/ Crash(p)
  \/ \E f \in Files : Read(p, f)

RestoreStep == Fetch \/ Gate \/ MoveAside \/ MoveIn \/ MoveBack \/ RestoreStops

Next ==
  \/ \E f \in Files, c \in Held : Edit(f, c)
  \/ \E p \in Procs : BackupStep(p)
  \/ RestoreStep

Spec == Init /\ [][Next]_vars

-----------------------------------------------------------------------------
Ran == 1..MaxRuns
Lock == [by : Ran, pid : Option(Ran)]
ASSUME NoneIsNoLock == None \notin Lock
Run ==
  {NoRun} \cup
  [pc : {"lock", "write", "stale", "reclaim", "collect", "read", "sidecar", "orphan",
         "list", "prune"},
   pid : Ran, locks : BOOLEAN, sure : BOOLEAN, saw : 0..MaxRuns, era : Nat,
   left : SUBSET Files, copy : Tree, doomed : SUBSET Ran]

Before == {"lock", "write", "stale", "reclaim", "collect"}

\* Types; a file is read once, and only a command that takes the lock reads.
TypeOK ==
  /\ root \in Option(Tree) /\ era \in Nat /\ moved \in Tree /\ base \in Tree
  /\ split \in BOOLEAN /\ lock \in Option(Lock) /\ movedLock \in Option(Lock)
  /\ run \in [Procs -> Run]
  /\ \A p \in Procs : ~At(p, "idle") =>
       /\ \A f \in run[p].left : run[p].copy[f] = None
       /\ run[p].pc \in Before => run[p].copy = Bare
       /\ run[p].locks \/ run[p].pc \in {"list", "prune"}
  /\ restore \in {NoRestore} \cup [pc : {"gate", "swap", "in"}, tree : Tree, aside : BOOLEAN]
  /\ remote \subseteq [id : Ran, tree : Tree]
  /\ runs \in 0..MaxRuns /\ edits \in 0..MaxEdits /\ faults \in 0..MaxFaults
  /\ restores \in 0..MaxRestores
  /\ past \in [Files -> SUBSET Held]
  /\ done \subseteq Ran /\ stolen \in BOOLEAN /\ counted \subseteq Ran /\ pulled \in BOOLEAN

Holding == {p \in Procs : \/ run[p].pc \in {"write", "collect", "read", "sidecar", "orphan"}
                          \/ (run[p].pc \in {"list", "prune"} /\ run[p].locks)}

\* "Exclusive backup lock" (cli/backup.rs:345): two runs are under way at once only if a
\* lock was taken from its holder: seen before the holder had written its pid, put
\* there after another lock was found stale, or moved aside by a restore that had
\* passed the gate.
OneBackup == Cardinality(Holding) > 1 => stolen

\* "The newest snapshot is always kept" (retention.rs:9): once a backup is stored the
\* remote never becomes empty, whatever runs and prunes at the same time, unless a
\* run takes its archive back that a prune had counted as one to keep.
NeverEmptied == done # {} /\ remote = {} => pulled

\* A restore happens in one step, or not at all: it brings an archive's tree back, no
\* mixture of it and what was there, or changes nothing; and files change by the
\* edits of programs only.  Between the renames, after a crash there, after a
\* failure, and when another program makes the data root anew in between, all can
\* still be put together from the data root and the trees moved aside.
Kept == {a.tree : a \in remote} \cup (IF restore = NoRestore THEN {} ELSE {restore.tree})
Promise == INSTANCE Vault WITH vault <- Whole, edits <- edits, past <- past, kept <- Kept
NothingLost == Promise!Spec
=============================================================================
