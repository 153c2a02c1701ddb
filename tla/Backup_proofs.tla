---------------------------- MODULE Backup_proofs ----------------------------
(***************************************************************************)
(* Backup implements Vault: whatever a restore, a crash in the middle of   *)
(* it and the other programs do, nothing of the vault is lost.  The        *)
(* inductive invariant says that every tree at hand holds, file by file,   *)
(* only what the vault has held.                                           *)
(***************************************************************************)
EXTENDS Backup, FiniteSetTheorems, WellFoundedInduction, TLAPS

Steps == {"lock", "write", "stale", "reclaim", "collect", "read", "sidecar", "orphan",
          "list", "prune"}

\* The parts of TypeOK, by what a step changes together.
TreeTypes ==
  root \in Option(Tree) /\ era \in Nat /\ moved \in Tree /\ base \in Tree /\ split \in BOOLEAN
LockTypes == lock \in Option(Lock) /\ movedLock \in Option(Lock) /\ stolen \in BOOLEAN
RunFits(p) ==
  ~At(p, "idle") => /\ \A f \in run[p].left : run[p].copy[f] = None
                    /\ run[p].pc \in Before => run[p].copy = Bare
                    /\ run[p].locks \/ run[p].pc \in {"list", "prune"}
RunTypes == run \in [Procs -> Run] /\ \A p \in Procs : RunFits(p)
RestoreTypes ==
  restore \in {NoRestore} \cup [pc : {"gate", "swap", "in"}, tree : Tree, aside : BOOLEAN]
StoreTypes ==
  /\ remote \subseteq [id : Ran, tree : Tree]
  /\ done \subseteq Ran /\ counted \subseteq Ran /\ pulled \in BOOLEAN
BoundTypes ==
  /\ runs \in 0..MaxRuns /\ edits \in 0..MaxEdits /\ faults \in 0..MaxFaults
  /\ restores \in 0..MaxRestores
PastTypes == past \in [Files -> SUBSET Held]

LEMMA Parts ==
  TypeOK <=> /\ TreeTypes /\ LockTypes /\ RunTypes /\ RestoreTypes /\ StoreTypes
             /\ BoundTypes /\ PastTypes
  BY DEF TypeOK, TreeTypes, LockTypes, RunTypes, RunFits, RestoreTypes, StoreTypes, BoundTypes,
         PastTypes

LEMMA PartsNext ==
  TypeOK' <=> /\ TreeTypes' /\ LockTypes' /\ RunTypes' /\ RestoreTypes' /\ StoreTypes'
              /\ BoundTypes' /\ PastTypes'
  BY DEF TypeOK, TreeTypes, LockTypes, RunTypes, RunFits, RestoreTypes, StoreTypes, BoundTypes,
         PastTypes, At

\* A tree that was read from the vault, or could have been.
FromPast(t) == \A f \in Files : t[f] \in past[f]

Inv ==
  /\ TypeOK
  /\ \A f \in Files : None \in past[f]
  /\ root # None => FromPast(root)
  /\ FromPast(moved)
  /\ \A p \in Procs : ~At(p, "idle") => FromPast(run[p].copy)
  /\ \A t \in Kept : FromPast(t)

-----------------------------------------------------------------------------
(* Trees. *)

\* The tree without a file, one over another, and a tree with a file changed are trees.
LEMMA TreeFacts ==
  ASSUME BackupAssumption
  PROVE  /\ Bare \in Tree
         /\ \A s, t \in Tree : Over(s, t) \in Tree
         /\ \A t \in Tree, f \in Files, c \in Held : [t EXCEPT ![f] = c] \in Tree
  BY DEF Bare, Tree, Held, Over

\* Everything that can be put together is a tree.
LEMMA WholeIsTree ==
  ASSUME BackupAssumption, TreeTypes
  PROVE  Whole \in Tree /\ Top \in Tree
  <1>1. Top \in Tree
    BY DEF Top, TreeTypes, Option
  <1>2. base \in Tree
    BY DEF TreeTypes
  <1>3. QED
    BY <1>1, <1>2, TreeFacts DEF Whole

\* Making the data root keeps it a tree.
LEMMA MakesRootTypes ==
  ASSUME BackupAssumption, TreeTypes, UNCHANGED moved, NEW t \in Tree, MakesRoot(t)
  PROVE  TreeTypes' /\ root' = t
  <1>1. CASE root # None
    BY <1>1 DEF MakesRoot, TreeTypes, Option
  <1>2. CASE root = None
    <2>1. /\ root' = t /\ era' = era + 1 /\ split' = TRUE /\ base' = Whole
      BY <1>2 DEF MakesRoot
    <2>2. Whole \in Tree
      BY WholeIsTree
    <2>3. QED
      BY <2>1, <2>2 DEF TreeTypes, Option
  <1>3. QED
    BY <1>1, <1>2

LEMMA RootIsThereTypes ==
  ASSUME BackupAssumption, TypeOK, UNCHANGED moved, RootIsThere
  PROVE  TreeTypes' /\ root' # None
  <1>1. TreeTypes /\ Bare \in Tree /\ Bare # None
    BY Parts, TreeFacts, NoneIsNoTree
  <1>2. CASE root = None
    BY <1>1, <1>2, MakesRootTypes DEF RootIsThere
  <1>3. CASE root # None
    <2>1. UNCHANGED tree /\ root' = root
      BY <1>3 DEF RootIsThere, tree
    <2>2. QED
      BY <1>1, <1>3, <2>1 DEF tree, TreeTypes
  <1>4. QED
    BY <1>2, <1>3

\* A command that is under way stays typed when its step changes, and one that reads
\* has the lock.
LEMMA GoesTypes ==
  ASSUME RunTypes, NEW p \in Procs, ~At(p, "idle"), NEW pc \in Steps, Goes(p, pc),
         run[p].locks \/ pc \in {"list", "prune"}, pc \in Before => run[p].pc \in Before
  PROVE  /\ RunTypes'
         /\ run'[p] = [run[p] EXCEPT !.pc = pc]
         /\ \A q \in Procs \ {p} : run'[q] = run[q]
  <1>1. run[p] \in Run \ {NoRun}
    BY DEF RunTypes, At, NoRun
  <1>2. [run[p] EXCEPT !.pc = pc] \in Run
    BY <1>1 DEF Run, Steps
  <1>3. /\ run'[p] = [run[p] EXCEPT !.pc = pc]
        /\ \A q \in Procs \ {p} : run'[q] = run[q]
        /\ run' \in [Procs -> Run]
    BY <1>2 DEF Goes, RunTypes
  <1>4. [run[p] EXCEPT !.pc = pc].left = run[p].left
    BY <1>1 DEF Run
  <1>5. [run[p] EXCEPT !.pc = pc].copy = run[p].copy
    BY <1>1 DEF Run
  <1>6. [run[p] EXCEPT !.pc = pc].locks = run[p].locks
    BY <1>1 DEF Run
  <1>7. [run[p] EXCEPT !.pc = pc].pc = pc
    BY <1>1 DEF Run
  <1>8. RunFits(p)'
    <2>1. RunFits(p)
      BY DEF RunTypes
    <2>2. pc \in Before => run[p].copy = Bare
      BY <2>1 DEF RunFits
    <2>3. QED
      BY <1>3, <1>4, <1>5, <1>6, <1>7, <2>1, <2>2 DEF RunFits
  <1>9. \A q \in Procs \ {p} : RunFits(q)'
    BY <1>3 DEF RunFits, RunTypes, At
  <1>10. QED
    BY <1>3, <1>8, <1>9 DEF RunTypes

\* A command that ends is idle.
LEMMA EndsTypes ==
  ASSUME RunTypes, NEW p \in Procs, Ends(p)
  PROVE  /\ RunTypes' /\ run'[p] = NoRun
         /\ \A q \in Procs \ {p} : run'[q] = run[q]
  BY DEF RunTypes, RunFits, Ends, Run, NoRun, At

\* The pid of a command that is under way, and its copy.
LEMMA RunFacts ==
  ASSUME RunTypes, NEW p \in Procs, ~At(p, "idle")
  PROVE  /\ run[p] \in Run \ {NoRun} /\ run[p].pid \in Ran /\ run[p].copy \in Tree
         /\ run[p].doomed \subseteq Ran /\ run[p].left \subseteq Files
         /\ run[p].locks \in BOOLEAN /\ run[p].era \in Nat
         /\ \A f \in run[p].left : run[p].copy[f] = None
         /\ run[p].pc \in Before => run[p].copy = Bare
         /\ run[p].locks \/ run[p].pc \in {"list", "prune"}
  BY DEF RunTypes, RunFits, At, NoRun, Run

-----------------------------------------------------------------------------
(* Every step keeps the types. *)

LEMMA InitTypes ==
  ASSUME BackupAssumption, Init
  PROVE  TypeOK
  <1>1. TreeTypes
    BY TreeFacts DEF Init, TreeTypes, Option
  <1>2. LockTypes /\ RestoreTypes
    BY DEF Init, LockTypes, RestoreTypes, Option
  <1>3. StoreTypes
    BY DEF Init, StoreTypes
  <1>4. BoundTypes
    BY DEF Init, BoundTypes, BackupAssumption
  <1>5. RunTypes
    BY DEF Init, RunTypes, RunFits, Run, NoRun, At
  <1>6. PastTypes
    BY DEF Init, PastTypes, Tree, Held
  <1>7. QED
    BY <1>1, <1>2, <1>3, <1>4, <1>5, <1>6, Parts

LEMMA EditTypes ==
  ASSUME BackupAssumption, TypeOK, NEW f \in Files, NEW c \in Held, Edit(f, c)
  PROVE  TypeOK'
  <1> USE Parts
  <1>1. TreeTypes'
    <2>1. (IF root = None THEN Bare ELSE root) \in Tree
      BY TreeFacts DEF TreeTypes, Option
    <2>2. [(IF root = None THEN Bare ELSE root) EXCEPT ![f] = c] \in Tree
      BY <2>1, TreeFacts
    <2>3. QED
      BY <2>2, MakesRootTypes DEF Edit
  <1>2. PastTypes'
    <2>1. Whole' \in Tree
      <3>1. Top' \in Tree
        BY <1>1 DEF Top, TreeTypes, Option
      <3>2. base' \in Tree
        BY <1>1 DEF TreeTypes
      <3>3. QED
        BY <3>1, <3>2, TreeFacts DEF Whole
    <2>2. Whole'[f] \in Held
      BY <2>1 DEF Tree
    <2>3. QED
      BY <2>2 DEF Edit, PastTypes
  <1>3. LockTypes' /\ RunTypes' /\ RestoreTypes' /\ StoreTypes'
    BY DEF Edit, locks, store, LockTypes, RunTypes, RunFits, RestoreTypes, StoreTypes, At
  <1>4. BoundTypes'
    BY DEF Edit, BoundTypes, BackupAssumption
  <1>5. QED
    BY <1>1, <1>2, <1>3, <1>4, PartsNext

\* What is left alone stays typed.
LEMMA Unmoved ==
  ASSUME TypeOK
  PROVE  /\ UNCHANGED tree => TreeTypes'
         /\ UNCHANGED locks => LockTypes'
         /\ UNCHANGED run => RunTypes'
         /\ UNCHANGED restore => RestoreTypes'
         /\ UNCHANGED store => StoreTypes'
         /\ UNCHANGED bounds => BoundTypes'
         /\ UNCHANGED past => PastTypes'
  <1>1. UNCHANGED tree => TreeTypes'
    BY Parts DEF tree, TreeTypes
  <1>2. UNCHANGED locks => LockTypes'
    BY Parts DEF locks, LockTypes
  <1>3. UNCHANGED run => RunTypes'
    BY Parts DEF RunTypes, RunFits, At
  <1>4. UNCHANGED restore => RestoreTypes'
    BY Parts DEF RestoreTypes
  <1>5. UNCHANGED store => StoreTypes'
    BY Parts DEF store, StoreTypes
  <1>6. UNCHANGED bounds => BoundTypes'
    BY Parts DEF bounds, BoundTypes
  <1>7. UNCHANGED past => PastTypes'
    BY Parts DEF PastTypes
  <1>8. QED
    BY <1>1, <1>2, <1>3, <1>4, <1>5, <1>6, <1>7

\* A fault is counted, up to its bound.
LEMMA FaultBounds ==
  ASSUME BackupAssumption, TypeOK, UNCHANGED <<runs, edits, restores>>, Fault \/ UNCHANGED faults
  PROVE  BoundTypes'
  BY Parts DEF BoundTypes, Fault, BackupAssumption

\* A lock that is given up, or not, stays typed.
LEMMA UnlockedTypes ==
  ASSUME TypeOK, Unlocked \/ UNCHANGED locks
  PROVE  LockTypes'
  BY Parts DEF Unlocked, locks, LockTypes, Option

\* A command that is given another record.
LEMMA RunUpdate ==
  ASSUME RunTypes, NEW p \in Procs, NEW r \in Run, run' = [run EXCEPT ![p] = r],
         r.pc # "idle" => /\ \A f \in r.left : r.copy[f] = None
                          /\ r.pc \in Before => r.copy = Bare
                          /\ r.locks \/ r.pc \in {"list", "prune"}
  PROVE  RunTypes' /\ run'[p] = r /\ \A q \in Procs \ {p} : run'[q] = run[q]
  <1>1. run' \in [Procs -> Run] /\ run'[p] = r /\ \A q \in Procs \ {p} : run'[q] = run[q]
    BY DEF RunTypes
  <1>2. RunFits(p)'
    BY <1>1 DEF RunFits, At
  <1>3. \A q \in Procs \ {p} : RunFits(q)'
    BY <1>1 DEF RunFits, RunTypes, At
  <1>4. QED
    BY <1>1, <1>2, <1>3 DEF RunTypes

LEMMA BeginTypes ==
  ASSUME BackupAssumption, TypeOK, NEW p \in Procs, Begin(p)
  PROVE  /\ TypeOK'
         /\ run'[p].copy = Bare
         /\ \A q \in Procs \ {p} : run'[q] = run[q]
  <1>1. PICK pc \in {"lock", "list"} :
          run' = [run EXCEPT ![p] = [pc |-> pc, pid |-> runs + 1, locks |-> (pc = "lock"),
                                     sure |-> FALSE, saw |-> 0, era |-> era, left |-> {},
                                     copy |-> Bare, doomed |-> {}]]
    BY DEF Begin
  <1> DEFINE r == [pc |-> pc, pid |-> runs + 1, locks |-> (pc = "lock"),
                   sure |-> FALSE, saw |-> 0, era |-> era, left |-> {},
                   copy |-> Bare, doomed |-> {}]
  <1>2. runs + 1 \in Ran /\ 0 \in 0..MaxRuns /\ era \in Nat
    BY Parts DEF BoundTypes, TreeTypes, BackupAssumption, Begin, Ran
  <1>3. Bare \in Tree
    BY TreeFacts
  <1>4. r \in Run
    BY <1>2, <1>3 DEF Run
  <1>5. RunTypes' /\ run'[p] = r /\ \A q \in Procs \ {p} : run'[q] = run[q]
    <2>1. RunTypes
      BY Parts
    <2>2. r.pc # "idle" => /\ \A f \in r.left : r.copy[f] = None
                           /\ r.pc \in Before => r.copy = Bare
                           /\ r.locks \/ r.pc \in {"list", "prune"}
      OBVIOUS
    <2>3. QED
      BY <2>1, <2>2, <1>1, <1>4, RunUpdate
  <1>6. BoundTypes'
    BY Parts DEF BoundTypes, BackupAssumption, Begin
  <1>7. TreeTypes' /\ LockTypes' /\ RestoreTypes' /\ StoreTypes' /\ PastTypes'
    BY Unmoved DEF Begin
  <1>8. QED
    BY <1>5, <1>6, <1>7, PartsNext

LEMMA TryLockTypes ==
  ASSUME BackupAssumption, TypeOK, NEW p \in Procs, TryLock(p)
  PROVE  /\ TypeOK'
         /\ run'[p].copy = run[p].copy
         /\ \A q \in Procs \ {p} : run'[q] = run[q]
  <1>1. TreeTypes'
    BY RootIsThereTypes DEF TryLock
  <1>2. run[p] \in Run \ {NoRun} /\ run[p].pid \in Ran /\ (run[p].locks)
    BY RunFacts, Parts DEF TryLock, At
  <1>3. PICK pc \in {"write", "stale"} : Goes(p, pc)
    BY DEF TryLock
  <1>4. RunTypes' /\ run'[p] = [run[p] EXCEPT !.pc = pc]
        /\ \A q \in Procs \ {p} : run'[q] = run[q]
    <2>1. pc \in Steps /\ ~At(p, "idle") /\ RunTypes
      BY <1>3, Parts DEF Steps, TryLock, At
    <2>2. run[p].pc \in Before
      BY DEF TryLock, At, Before
    <2>3. QED
      BY <2>1, <2>2, <1>2, <1>3, GoesTypes
  <1>5. run'[p].copy = run[p].copy
    BY <1>2, <1>4 DEF Run
  <1>6. LockTypes'
    <2>1. [by |-> run[p].pid, pid |-> None] \in Lock
      BY <1>2 DEF Lock, Option
    <2>2. QED
      BY <2>1, Parts DEF TryLock, LockTypes, Option
  <1>7. RestoreTypes' /\ StoreTypes' /\ BoundTypes' /\ PastTypes'
    BY Unmoved DEF TryLock
  <1>8. QED
    BY <1>1, <1>4, <1>5, <1>6, <1>7, PartsNext

\* A pid written into a lock is a pid.
LEMMA WritePidTypes ==
  ASSUME BackupAssumption, TypeOK, NEW p \in Procs, WritePid(p)
  PROVE  /\ TypeOK'
         /\ run'[p].copy = run[p].copy
         /\ \A q \in Procs \ {p} : run'[q] = run[q]
  <1> DEFINE written(l) == IF l # None /\ l.by = run[p].pid THEN [l EXCEPT !.pid = l.by] ELSE l
  <1>1. \A l \in Option(Lock) : written(l) \in Option(Lock)
    BY DEF Lock, Option
  <1>2. LockTypes'
    <2>1. lock' = written(lock) /\ movedLock' = written(movedLock) /\ UNCHANGED stolen
      BY DEF WritePid
    <2>2. QED
      BY <2>1, <1>1, Parts DEF LockTypes
  <1>3. run[p] \in Run \ {NoRun} /\ (run[p].locks)
    BY RunFacts, Parts DEF WritePid, At
  <1>4. RunTypes' /\ run'[p] = [run[p] EXCEPT !.pc = "collect"]
        /\ \A q \in Procs \ {p} : run'[q] = run[q]
    <2>1. "collect" \in Steps /\ ~At(p, "idle") /\ RunTypes /\ Goes(p, "collect")
      BY Parts DEF Steps, WritePid, At
    <2>2. run[p].pc \in Before
      BY DEF WritePid, At, Before
    <2>3. QED
      BY <2>1, <2>2, <1>3, GoesTypes
  <1>5. run'[p].copy = run[p].copy
    BY <1>3, <1>4 DEF Run
  <1>6. TreeTypes' /\ RestoreTypes' /\ StoreTypes' /\ BoundTypes' /\ PastTypes'
    BY Unmoved DEF WritePid
  <1>7. QED
    BY <1>2, <1>4, <1>5, <1>6, PartsNext

\* No command that is under way gets another copy.
SameCopies ==
  \A q \in Procs : ~At(q, "idle")' => ~At(q, "idle") /\ run'[q].copy = run[q].copy

\* A command that goes on with another step, or that ends.
LEMMA OnOrOut ==
  ASSUME TypeOK, NEW p \in Procs, ~At(p, "idle"), NEW pc \in Steps,
         run[p].locks \/ pc \in {"list", "prune"}, pc \in Before => run[p].pc \in Before,
         Goes(p, pc) \/ Ends(p)
  PROVE  RunTypes' /\ SameCopies
  <1>1. RunTypes /\ run[p] \in Run \ {NoRun}
    BY Parts, RunFacts
  <1>2. CASE Goes(p, pc)
    <2>1. /\ RunTypes' /\ run'[p] = [run[p] EXCEPT !.pc = pc]
          /\ \A q \in Procs \ {p} : run'[q] = run[q]
      BY <1>1, <1>2, GoesTypes
    <2>2. run'[p].copy = run[p].copy
      BY <1>1, <2>1 DEF Run
    <2>3. QED
      BY <2>1, <2>2 DEF SameCopies, At
  <1>3. CASE Ends(p)
    <2>1. RunTypes' /\ run'[p] = NoRun /\ \A q \in Procs \ {p} : run'[q] = run[q]
      BY <1>1, <1>3, EndsTypes
    <2>2. QED
      BY <2>1 DEF SameCopies, At, NoRun
  <1>4. QED
    BY <1>2, <1>3

LEMMA CheckStaleTypes ==
  ASSUME BackupAssumption, TypeOK, NEW p \in Procs, CheckStale(p)
  PROVE  TypeOK' /\ SameCopies
  <1>1. /\ TreeTypes' /\ LockTypes' /\ RestoreTypes' /\ StoreTypes' /\ BoundTypes'
        /\ PastTypes'
    BY Unmoved DEF CheckStale
  <1>2. RunTypes' /\ SameCopies
    <2>1. ~At(p, "idle") /\ run[p] \in Run \ {NoRun} /\ (run[p].locks)
      BY Parts, RunFacts DEF CheckStale, At
    <2>2. CASE ~LockIsStale(lock)
      <3>1. Ends(p) /\ "stale" \in Steps
        BY <2>2 DEF CheckStale, Steps
      <3>2. QED
        BY <2>1, <3>1, OnOrOut DEF Before, CheckStale, At
    <2>3. CASE LockIsStale(lock)
      <3> DEFINE saw == IF lock = None THEN 0 ELSE lock.by
                 sure == lock # None /\ lock.pid # None
                 r == [run[p] EXCEPT !.pc = "reclaim", !.saw = saw, !.sure = sure]
      <3>1. run' = [run EXCEPT ![p] = r]
        BY <2>3 DEF CheckStale
      <3>2. saw \in 0..MaxRuns
        BY Parts DEF LockTypes, Option, Lock, Ran, BackupAssumption
      <3>3. sure \in BOOLEAN
        OBVIOUS
      <3> HIDE DEF saw, sure
      <3>4. /\ r \in Run /\ r.left = run[p].left /\ r.copy = run[p].copy
            /\ r.locks = run[p].locks /\ r.pc = "reclaim"
        BY <2>1, <3>2, <3>3 DEF Run
      <3>5. (\A f \in r.left : r.copy[f] = None) /\ r.copy = Bare
        BY <3>4, <2>1, Parts, RunFacts DEF CheckStale, At, Before
      <3>6. RunTypes' /\ run'[p] = r /\ \A q \in Procs \ {p} : run'[q] = run[q]
        <4>1. RunTypes /\ (r.locks) /\ r.pc = "reclaim"
          BY <2>1, <3>4, Parts
        <4> HIDE DEF r
        <4>2. QED
          BY <3>1, <3>4, <3>5, <4>1, RunUpdate
      <3>7. QED
        BY <2>1, <3>4, <3>6 DEF SameCopies, At
    <2>4. QED
      BY <2>2, <2>3
  <1>3. QED
    BY <1>1, <1>2, PartsNext

LEMMA ReclaimTypes ==
  ASSUME BackupAssumption, TypeOK, NEW p \in Procs, Reclaim(p)
  PROVE  TypeOK' /\ SameCopies
  <1>1. TreeTypes' /\ RestoreTypes' /\ StoreTypes' /\ BoundTypes' /\ PastTypes'
    BY Unmoved DEF Reclaim
  <1>2. LockTypes'
    BY Parts DEF Reclaim, LockTypes, Option
  <1>3. RunTypes' /\ SameCopies
    <2>1. ~At(p, "idle") /\ (run[p].locks) /\ "lock" \in Steps
      BY Parts, RunFacts DEF Reclaim, At, Steps
    <2>2. (Goes(p, "lock") \/ Ends(p)) /\ run[p].pc \in Before
      BY DEF Reclaim, At, Before
    <2>3. QED
      BY <2>1, <2>2, OnOrOut
  <1>4. QED
    BY <1>1, <1>2, <1>3, PartsNext

LEMMA CollectTypes ==
  ASSUME BackupAssumption, TypeOK, NEW p \in Procs, Collect(p)
  PROVE  TypeOK' /\ SameCopies
  <1>1. LockTypes' /\ RestoreTypes' /\ StoreTypes' /\ BoundTypes' /\ PastTypes'
    BY Unmoved DEF Collect
  <1>2. TreeTypes'
    BY RootIsThereTypes DEF Collect
  <1> DEFINE files == {f \in Files : root'[f] # None}
             now == era'
             r == [run[p] EXCEPT !.pc = "read", !.left = files, !.era = now]
  <1>3. /\ ~At(p, "idle") /\ RunTypes /\ run[p] \in Run \ {NoRun} /\ (run[p].locks)
        /\ run[p].copy = Bare
    BY Parts, RunFacts DEF Collect, At, Before
  <1>4. run' = [run EXCEPT ![p] = r]
    BY DEF Collect
  <1>5. now \in Nat /\ files \subseteq Files
    BY <1>2 DEF TreeTypes
  <1> HIDE DEF files, now
  <1>6. /\ r \in Run /\ r.left = files /\ r.copy = Bare /\ r.locks = run[p].locks
        /\ r.pc = "read"
    BY <1>3, <1>5 DEF Run
  <1>7. \A f \in r.left : r.copy[f] = None
    BY <1>5, <1>6 DEF Bare
  <1>8. RunTypes' /\ run'[p] = r /\ \A q \in Procs \ {p} : run'[q] = run[q]
    <2> HIDE DEF r
    <2>1. QED
      BY <1>3, <1>4, <1>6, <1>7, RunUpdate
  <1>9. SameCopies
    BY <1>3, <1>6, <1>8 DEF SameCopies, At
  <1>10. QED
    BY <1>1, <1>2, <1>8, <1>9, PartsNext

\* A run that reads a file has it from the data root.
LEMMA ReadTypes ==
  ASSUME BackupAssumption, TypeOK, NEW p \in Procs, NEW f \in Files, Read(p, f)
  PROVE  /\ TypeOK'
         /\ run'[p].copy = [run[p].copy EXCEPT ![f] = root[f]]
         /\ \A q \in Procs \ {p} : run'[q] = run[q]
  <1>1. /\ TreeTypes' /\ LockTypes' /\ RestoreTypes' /\ StoreTypes' /\ BoundTypes'
        /\ PastTypes'
    BY Unmoved DEF Read
  <1> DEFINE copy == [run[p].copy EXCEPT ![f] = root[f]]
             left == run[p].left \ {f}
             r == [run[p] EXCEPT !.left = left, !.copy = copy]
  <1>2. ~At(p, "idle") /\ RunTypes /\ run[p] \in Run \ {NoRun} /\ (run[p].locks)
    BY Parts, RunFacts DEF Read, At
  <1>3. run' = [run EXCEPT ![p] = r]
    BY DEF Read
  <1>4. copy \in Tree
    <2>1. root[f] \in Held
      BY Parts DEF Read, TreeTypes, Option, Tree
    <2>2. run[p].copy \in Tree
      BY <1>2 DEF Run
    <2>3. QED
      BY <2>1, <2>2, TreeFacts
  <1>5. /\ r \in Run /\ r.left = left /\ r.copy = copy /\ r.locks = run[p].locks
        /\ r.pc = "read"
    BY <1>2, <1>4 DEF Run, Read, At
  <1>6. \A g \in r.left : r.copy[g] = None
    <2>1. \A g \in run[p].left : run[p].copy[g] = None
      BY <1>2, RunFacts
    <2>2. run[p].copy \in Tree /\ run[p].left \subseteq Files
      BY <1>2 DEF Run
    <2>3. QED
      BY <1>5, <2>1, <2>2 DEF Tree
  <1>7. RunTypes' /\ run'[p] = r /\ \A q \in Procs \ {p} : run'[q] = run[q]
    <2>1. r.pc \in Before => r.copy = Bare
      BY <1>5 DEF Before
    <2>2. QED
      BY <1>2, <1>3, <1>5, <1>6, <2>1, RunUpdate
  <1>8. QED
    BY <1>1, <1>5, <1>7, PartsNext

LEMMA UploadTypes ==
  ASSUME BackupAssumption, TypeOK, NEW p \in Procs, Upload(p)
  PROVE  TypeOK' /\ SameCopies
  <1>1. TreeTypes' /\ LockTypes' /\ RestoreTypes' /\ BoundTypes' /\ PastTypes'
    BY Unmoved DEF Upload
  <1>2. ~At(p, "idle") /\ (run[p].locks) /\ run[p].pid \in Ran /\ run[p].copy \in Tree
    BY Parts, RunFacts DEF Upload, At
  <1>3. StoreTypes'
    BY <1>2, Parts DEF Upload, StoreTypes
  <1>4. RunTypes' /\ SameCopies
    BY <1>2, OnOrOut DEF Upload, Steps, Before
  <1>5. QED
    BY <1>1, <1>3, <1>4, PartsNext

LEMMA FailsTypes ==
  ASSUME BackupAssumption, TypeOK, NEW p \in Procs, Fails(p)
  PROVE  TypeOK' /\ SameCopies
  <1>1. TreeTypes' /\ RestoreTypes' /\ StoreTypes' /\ PastTypes'
    BY Unmoved DEF Fails
  <1>2. LockTypes' /\ BoundTypes'
    BY UnlockedTypes, FaultBounds DEF Fails
  <1>3. ~At(p, "idle") /\ (run[p].locks)
    BY Parts, RunFacts DEF Fails, At
  <1>4. RunTypes' /\ SameCopies
    BY <1>3, OnOrOut DEF Fails, Steps, Before
  <1>5. QED
    BY <1>1, <1>2, <1>4, PartsNext

LEMMA SidecarTypes ==
  ASSUME BackupAssumption, TypeOK, NEW p \in Procs, Sidecar(p)
  PROVE  TypeOK' /\ SameCopies
  <1>1. TreeTypes' /\ LockTypes' /\ RestoreTypes' /\ PastTypes'
    BY Unmoved DEF Sidecar
  <1>2. BoundTypes'
    BY FaultBounds DEF Sidecar
  <1>3. ~At(p, "idle") /\ (run[p].locks) /\ run[p].pid \in Ran
    BY Parts, RunFacts DEF Sidecar, At
  <1>4. StoreTypes'
    BY <1>3, Parts DEF Sidecar, StoreTypes
  <1>5. RunTypes' /\ SameCopies
    <2>1. CASE Goes(p, "list")
      BY <1>3, <2>1, OnOrOut DEF Steps, Before
    <2>2. CASE Goes(p, "orphan")
      BY <1>3, <2>2, OnOrOut DEF Steps, Before
    <2>3. QED
      BY <2>1, <2>2 DEF Sidecar
  <1>6. QED
    BY <1>1, <1>2, <1>4, <1>5, PartsNext

LEMMA OrphanTypes ==
  ASSUME BackupAssumption, TypeOK, NEW p \in Procs, Orphan(p)
  PROVE  TypeOK' /\ SameCopies
  <1>1. TreeTypes' /\ RestoreTypes' /\ PastTypes'
    BY Unmoved DEF Orphan
  <1>2. LockTypes' /\ BoundTypes'
    BY UnlockedTypes, FaultBounds DEF Orphan
  <1>3. StoreTypes'
    BY Parts DEF Orphan, StoreTypes
  <1>4. ~At(p, "idle") /\ (run[p].locks)
    BY Parts, RunFacts DEF Orphan, At
  <1>5. RunTypes' /\ SameCopies
    BY <1>4, OnOrOut DEF Orphan, Steps, Before
  <1>6. QED
    BY <1>1, <1>2, <1>3, <1>5, PartsNext

\* What a prune plans to delete are numbers of archives.
LEMMA ListTypes ==
  ASSUME BackupAssumption, TypeOK, NEW p \in Procs, List(p)
  PROVE  TypeOK' /\ SameCopies
  <1>1. TreeTypes' /\ RestoreTypes' /\ PastTypes'
    BY Unmoved DEF List
  <1>2. LockTypes'
    BY UnlockedTypes DEF List
  <1>3. BoundTypes'
    BY FaultBounds DEF List
  <1>4. Ids \subseteq Ran /\ PlanPrune(Ids, runs) \subseteq Ids
    BY Parts DEF Ids, StoreTypes, PlanPrune
  <1>5. StoreTypes'
    BY <1>4, Parts DEF List, StoreTypes
  <1>6. RunTypes' /\ SameCopies
    <2>1. ~At(p, "idle") /\ RunTypes /\ run[p] \in Run \ {NoRun} /\ run[p].pc = "list"
      BY Parts, RunFacts DEF List, At
    <2>2. CASE Ends(p)
      BY <2>1, <2>2, OnOrOut DEF Steps, Before
    <2>3. CASE run' = [run EXCEPT ![p].pc = "prune", ![p].doomed = PlanPrune(Ids, runs)]
      <3> DEFINE doomed == PlanPrune(Ids, runs)
                 r == [run[p] EXCEPT !.pc = "prune", !.doomed = doomed]
      <3>1. run' = [run EXCEPT ![p] = r]
        BY <2>3
      <3>2. doomed \in SUBSET Ran
        BY <1>4
      <3> HIDE DEF doomed
      <3>3. r \in Run /\ r.left = run[p].left /\ r.copy = run[p].copy /\ r.pc = "prune"
        BY <2>1, <3>2 DEF Run
      <3>4. \A f \in r.left : r.copy[f] = None
        BY <2>1, <3>3, RunFacts
      <3>5. RunTypes' /\ run'[p] = r /\ \A q \in Procs \ {p} : run'[q] = run[q]
        <4>1. r.pc \in Before => r.copy = Bare
          BY <3>3 DEF Before
        <4>2. QED
          BY <2>1, <3>1, <3>3, <3>4, <4>1, RunUpdate
      <3>6. QED
        BY <2>1, <3>3, <3>5 DEF SameCopies, At
    <2>4. QED
      BY <2>2, <2>3 DEF List
  <1>7. QED
    BY <1>1, <1>2, <1>3, <1>5, <1>6, PartsNext

LEMMA DeleteTypes ==
  ASSUME BackupAssumption, TypeOK, NEW p \in Procs, Delete(p)
  PROVE  TypeOK' /\ SameCopies
  <1>1. TreeTypes' /\ LockTypes' /\ RestoreTypes' /\ BoundTypes' /\ PastTypes'
    BY Unmoved DEF Delete
  <1>2. StoreTypes'
    BY Parts DEF Delete, StoreTypes
  <1> DEFINE doomed == run[p].doomed \ {Max(run[p].doomed)}
             r == [run[p] EXCEPT !.doomed = doomed]
  <1>3. ~At(p, "idle") /\ RunTypes /\ run[p] \in Run \ {NoRun} /\ run[p].pc = "prune"
    BY Parts, RunFacts DEF Delete, At
  <1>4. run' = [run EXCEPT ![p] = r]
    BY DEF Delete
  <1>5. doomed \in SUBSET Ran
    BY <1>3 DEF Run
  <1> HIDE DEF doomed
  <1>6. r \in Run /\ r.left = run[p].left /\ r.copy = run[p].copy /\ r.pc = "prune"
    BY <1>3, <1>5 DEF Run
  <1>7. \A f \in r.left : r.copy[f] = None
    BY <1>3, <1>6, RunFacts
  <1>8. RunTypes' /\ run'[p] = r /\ \A q \in Procs \ {p} : run'[q] = run[q]
    <2>1. (r.pc \in Before => r.copy = Bare) /\ (r.locks \/ r.pc \in {"list", "prune"})
      BY <1>6 DEF Before
    <2>2. QED
      BY <1>3, <1>4, <1>6, <1>7, <2>1, RunUpdate
  <1>9. SameCopies
    BY <1>3, <1>6, <1>8 DEF SameCopies, At
  <1>10. QED
    BY <1>1, <1>2, <1>8, <1>9, PartsNext

LEMMA EndingTypes ==
  ASSUME BackupAssumption, TypeOK, NEW p \in Procs, PruneEnds(p) \/ Crash(p)
  PROVE  TypeOK' /\ SameCopies
  <1>1. TreeTypes' /\ RestoreTypes' /\ StoreTypes' /\ PastTypes'
    BY Unmoved DEF PruneEnds, Crash
  <1>2. LockTypes'
    BY UnlockedTypes DEF PruneEnds, Crash
  <1>3. BoundTypes'
    BY FaultBounds DEF PruneEnds, Crash
  <1>4. ~At(p, "idle") /\ Ends(p)
    BY DEF PruneEnds, Crash, At
  <1>5. RunTypes' /\ SameCopies
    <2>1. RunTypes
      BY Parts
    <2>2. QED
      BY <2>1, <1>4, EndsTypes DEF SameCopies, At, NoRun
  <1>6. QED
    BY <1>1, <1>2, <1>3, <1>5, PartsNext

LEMMA FetchTypes ==
  ASSUME BackupAssumption, TypeOK, Fetch
  PROVE  TypeOK'
  <1>1. TreeTypes' /\ LockTypes' /\ RunTypes' /\ StoreTypes' /\ PastTypes'
    BY Unmoved DEF Fetch
  <1>2. BoundTypes'
    BY Parts DEF Fetch, BoundTypes, BackupAssumption
  <1>3. RestoreTypes'
    BY Parts DEF Fetch, RestoreTypes, StoreTypes
  <1>4. QED
    BY <1>1, <1>2, <1>3, PartsNext

LEMMA RestoreRecord ==
  ASSUME TypeOK, restore # NoRestore
  PROVE  restore \in [pc : {"gate", "swap", "in"}, tree : Tree, aside : BOOLEAN]
  BY Parts DEF RestoreTypes

LEMMA GateTypes ==
  ASSUME BackupAssumption, TypeOK, Gate
  PROVE  TypeOK'
  <1>1. TreeTypes' /\ LockTypes' /\ RunTypes' /\ StoreTypes' /\ BoundTypes' /\ PastTypes'
    BY Unmoved DEF Gate
  <1>2. RestoreTypes'
    BY RestoreRecord DEF Gate, RestoreTypes, NoRestore
  <1>3. QED
    BY <1>1, <1>2, PartsNext

LEMMA MoveAsideTypes ==
  ASSUME BackupAssumption, TypeOK, MoveAside
  PROVE  TypeOK'
  <1>1. RunTypes' /\ StoreTypes' /\ BoundTypes' /\ PastTypes'
    BY Unmoved DEF MoveAside
  <1>2. TreeTypes'
    BY Parts DEF MoveAside, TreeTypes, Option
  <1>3. LockTypes'
    BY Parts DEF MoveAside, locks, LockTypes, Option
  <1>4. RestoreTypes'
    <2>1. restore \in [pc : {"gate", "swap", "in"}, tree : Tree, aside : BOOLEAN]
      BY RestoreRecord DEF MoveAside, NoRestore
    <2>2. QED
      BY <2>1 DEF MoveAside, RestoreTypes
  <1>5. QED
    BY <1>1, <1>2, <1>3, <1>4, PartsNext

LEMMA MoveInTypes ==
  ASSUME BackupAssumption, TypeOK, MoveIn
  PROVE  TypeOK'
  <1>1. LockTypes' /\ RunTypes' /\ StoreTypes' /\ BoundTypes' /\ PastTypes'
    BY Unmoved DEF MoveIn
  <1>2. restore.tree \in Tree
    BY RestoreRecord DEF MoveIn, NoRestore
  <1>3. TreeTypes'
    <2>1. root' = restore.tree /\ era' = era + 1 /\ split' = FALSE
          /\ moved' = moved /\ base' = base
      BY DEF MoveIn
    <2>2. era \in Nat /\ moved \in Tree /\ base \in Tree
      BY Parts DEF TreeTypes
    <2>3. root' \in Option(Tree)
      BY <1>2, <2>1 DEF Option
    <2>4. era' \in Nat
      BY <2>1, <2>2
    <2>5. split' \in BOOLEAN
      BY <2>1, Zenon
    <2>6. QED
      BY <2>1, <2>2, <2>3, <2>4, <2>5 DEF TreeTypes
  <1>4. RestoreTypes'
    BY DEF MoveIn, RestoreTypes
  <1>5. QED
    BY <1>1, <1>3, <1>4, PartsNext

LEMMA MoveBackTypes ==
  ASSUME BackupAssumption, TypeOK, MoveBack \/ RestoreStops
  PROVE  TypeOK'
  <1>1. RunTypes' /\ StoreTypes' /\ PastTypes'
    BY Unmoved DEF MoveBack, RestoreStops
  <1>2. TreeTypes'
    BY Parts DEF MoveBack, RestoreStops, tree, TreeTypes, Option
  <1>3. LockTypes'
    BY Parts DEF MoveBack, RestoreStops, locks, LockTypes, Option
  <1>4. RestoreTypes'
    BY DEF MoveBack, RestoreStops, RestoreTypes
  <1>5. BoundTypes'
    BY FaultBounds DEF MoveBack, RestoreStops
  <1>6. QED
    BY <1>1, <1>2, <1>3, <1>4, <1>5, PartsNext

-----------------------------------------------------------------------------
(* Type correctness. *)

LEMMA NextTypes ==
  ASSUME BackupAssumption, TypeOK, Next
  PROVE  TypeOK'
  <1>1. ASSUME NEW f \in Files, NEW c \in Held, Edit(f, c) PROVE TypeOK'
    BY <1>1, EditTypes
  <1>2. ASSUME NEW p \in Procs, BackupStep(p) PROVE TypeOK'
    <2>1. CASE Begin(p) \/ TryLock(p) \/ WritePid(p)
      BY <2>1, BeginTypes, TryLockTypes, WritePidTypes
    <2>2. CASE CheckStale(p) \/ Reclaim(p) \/ Collect(p) \/ \E f \in Files : Read(p, f)
      BY <2>2, CheckStaleTypes, ReclaimTypes, CollectTypes, ReadTypes
    <2>3. CASE Upload(p) \/ Fails(p) \/ Sidecar(p) \/ Orphan(p)
      BY <2>3, UploadTypes, FailsTypes, SidecarTypes, OrphanTypes
    <2>4. CASE List(p) \/ Delete(p) \/ PruneEnds(p) \/ Crash(p)
      BY <2>4, ListTypes, DeleteTypes, EndingTypes
    <2>5. QED
      BY <1>2, <2>1, <2>2, <2>3, <2>4 DEF BackupStep
  <1>3. ASSUME RestoreStep PROVE TypeOK'
    BY <1>3, FetchTypes, GateTypes, MoveAsideTypes, MoveInTypes, MoveBackTypes DEF RestoreStep
  <1>4. QED
    BY <1>1, <1>2, <1>3 DEF Next

LEMMA StutterTypes ==
  ASSUME TypeOK, UNCHANGED vars
  PROVE  TypeOK'
  BY Unmoved, PartsNext DEF vars

\* Backups, prunes and restores keep their types, and a file is read once per run.
THEOREM TypeCorrect == Spec => []TypeOK
  <1>1. Init => TypeOK
    BY InitTypes, BackupAssumption
  <1>2. TypeOK /\ [Next]_vars => TypeOK'
    BY NextTypes, StutterTypes, BackupAssumption
  <1>3. QED
    BY <1>1, <1>2, PTL DEF Spec

-----------------------------------------------------------------------------
(* Every step is one of the promise's, and keeps the invariant. *)

Promised == Inv' /\ [Promise!Next]_(Promise!vars)

\* A step that changes nothing of what can be put together, and no history.
LEMMA Quiet ==
  ASSUME Inv, TypeOK', Whole' = Whole, UNCHANGED <<edits, past>>,
         root' # None => \A f \in Files : root'[f] \in past[f],
         \A f \in Files : moved'[f] \in past[f],
         \A q \in Procs : ~At(q, "idle")' => \A f \in Files : run'[q].copy[f] \in past[f],
         \A t \in Kept' : FromPast(t)
  PROVE  Promised
  <1>1. Inv'
    BY DEF Inv, FromPast
  <1>2. Kept' \subseteq Tree
    <2>1. StoreTypes' /\ RestoreTypes'
      BY PartsNext
    <2>2. {a.tree : a \in remote'} \subseteq Tree
      BY <2>1 DEF StoreTypes
    <2>3. restore' # NoRestore => restore'.tree \in Tree
      BY <2>1 DEF RestoreTypes
    <2>4. QED
      BY <2>2, <2>3 DEF Kept
  <1>3. Promise!Keep
    BY <1>2 DEF Promise!Keep, Promise!Tree, Promise!Held, Tree, Held, FromPast
  <1>4. QED
    BY <1>1, <1>3 DEF Promised, Promise!Next

\* A step that leaves the tree alone, and keeps nothing but what was kept or copied.
LEMMA QuietTree ==
  ASSUME Inv, TypeOK', UNCHANGED <<tree, edits, past>>, SameCopies \/ UNCHANGED run,
         \A t \in Kept' : FromPast(t)
  PROVE  Promised
  <1>1. Whole' = Whole
    BY DEF Whole, Top, tree
  <1>2. root' # None => \A f \in Files : root'[f] \in past[f]
    BY DEF tree, Inv, FromPast
  <1>3. \A f \in Files : moved'[f] \in past[f]
    BY DEF tree, Inv, FromPast
  <1>4. \A q \in Procs : ~At(q, "idle")' => \A f \in Files : run'[q].copy[f] \in past[f]
    BY DEF SameCopies, Inv, FromPast, At
  <1>5. QED
    BY <1>1, <1>2, <1>3, <1>4, Quiet

\* Nothing new is kept when neither the remote nor the restore gains a tree.
LEMMA NothingNew ==
  ASSUME Inv, remote' \subseteq remote,
         restore' # NoRestore => restore # NoRestore /\ restore'.tree = restore.tree
  PROVE  Kept' \subseteq Kept /\ \A t \in Kept' : FromPast(t)
  <1>1. Kept' \subseteq Kept
    BY DEF Kept
  <1>2. QED
    BY <1>1 DEF Inv

LEMMA EditPromised ==
  ASSUME BackupAssumption, Inv, TypeOK', NEW f \in Files, NEW c \in Held, Edit(f, c)
  PROVE  Promised
  <1> DEFINE top == [(IF root = None THEN Bare ELSE root) EXCEPT ![f] = c]
  <1>1. TreeTypes /\ TreeTypes' /\ PastTypes /\ PastTypes'
    BY Parts, PartsNext DEF Inv
  <1>2. Whole \in Tree /\ Whole' \in Tree
    <2>1. Whole \in Tree
      BY <1>1, WholeIsTree
    <2>2. Top' \in Tree
      BY <1>1 DEF Top, TreeTypes, Option
    <2>3. base' \in Tree
      BY <1>1 DEF TreeTypes
    <2>4. QED
      BY <2>1, <2>2, <2>3, TreeFacts DEF Whole
  <1>3. top \in Tree /\ root' = top /\ root' # None /\ moved' = moved
    <2>1. (IF root = None THEN Bare ELSE root) \in Tree
      BY <1>1, TreeFacts DEF TreeTypes, Option
    <2>2. top \in Tree
      BY <2>1, TreeFacts
    <2>3. MakesRoot(top)
      BY DEF Edit
    <2>4. QED
      BY <2>2, <2>3, NoneIsNoTree DEF MakesRoot, Edit
  <1>4. top[f] = c /\ \A g \in Files \ {f} : top[g] = (IF root = None THEN Bare ELSE root)[g]
    BY <1>1, TreeFacts DEF TreeTypes, Option, Tree, Bare
  <1>5. Whole'[f] = c \/ c = None
    <2>1. Top' = top
      BY <1>3 DEF Top
    <2>2. QED
      BY <2>1, <1>4 DEF Whole, Over
  <1>6. \A g \in Files \ {f} : Whole'[g] = Whole[g]
    <2>1. Top' = top
      BY <1>3 DEF Top
    <2>2. CASE root # None
      <3>1. UNCHANGED <<split, base>> /\ Top = root
        BY <2>2 DEF Edit, MakesRoot, Top
      <3>2. QED
        BY <2>1, <2>2, <3>1, <1>4 DEF Whole, Over
    <2>3. CASE root = None
      <3>1. split' = TRUE /\ base' = Whole
        BY <2>3 DEF Edit, MakesRoot
      <3>2. Whole' = Over(top, Whole)
        BY <2>1, <3>1 DEF Whole, Over
      <3>3. \A g \in Files \ {f} : top[g] = None
        BY <2>3, <1>4 DEF Bare
      <3>4. QED
        BY <3>2, <3>3 DEF Over
    <2>4. QED
      BY <2>2, <2>3
  <1>7. past' = [past EXCEPT ![f] = @ \cup {Whole'[f]}]
    BY DEF Edit
  <1>8. Kept' = Kept
    BY DEF Edit, store, Kept
  <1>9. Promise!Edit(f)
    <2>1. Whole' = [Whole EXCEPT ![f] = Whole'[f]]
      BY <1>2, <1>6 DEF Tree
    <2>2. Whole'[f] \in Held
      BY <1>2 DEF Tree
    <2>3. edits' = edits + 1
      BY DEF Edit
    <2>4. QED
      BY <1>7, <1>8, <2>1, <2>2, <2>3 DEF Promise!Edit, Promise!Held, Held
  <1>10. \A g \in Files : past[g] \subseteq past'[g]
    BY <1>7, <1>1 DEF PastTypes
  <1>11. \A g \in Files : root'[g] \in past'[g]
    <2>1. root'[f] \in past'[f]
      <3>1. None \in past'[f]
        BY <1>10 DEF Inv
      <3>2. Whole'[f] \in past'[f]
        BY <1>7, <1>1 DEF PastTypes
      <3>3. QED
        BY <1>3, <1>4, <1>5, <3>1, <3>2
    <2>2. \A g \in Files \ {f} : root'[g] \in past'[g]
      BY <1>3, <1>4, <1>10 DEF Inv, FromPast, Bare
    <2>3. QED
      BY <2>1, <2>2
  <1>12. Inv'
    <2>1. \A g \in Files : None \in past'[g]
      BY <1>10 DEF Inv
    <2>2. FromPast(moved)'
      BY <1>3, <1>10 DEF Inv, FromPast
    <2>3. \A p \in Procs : ~At(p, "idle")' => FromPast(run[p].copy)'
      BY <1>10 DEF Inv, FromPast, At, Edit
    <2>4. \A t \in Kept' : FromPast(t)'
      BY <1>8, <1>10 DEF Inv, FromPast
    <2>5. QED
      BY <1>11, <2>1, <2>2, <2>3, <2>4 DEF Inv, FromPast
  <1>13. QED
    BY <1>9, <1>12 DEF Promised, Promise!Next

LEMMA BeginPromised ==
  ASSUME BackupAssumption, Inv, TypeOK', NEW p \in Procs, Begin(p)
  PROVE  Promised
  <1>1. UNCHANGED <<tree, edits, past>> /\ UNCHANGED <<remote, restore>>
    BY DEF Begin, store, bounds
  <1>2. \A t \in Kept' : FromPast(t)
    BY <1>1, NothingNew
  <1>3. run'[p].copy = Bare /\ \A q \in Procs \ {p} : run'[q] = run[q]
    BY BeginTypes DEF Inv
  <1>4. \A q \in Procs : ~At(q, "idle")' => \A f \in Files : run'[q].copy[f] \in past[f]
    BY <1>3 DEF Inv, FromPast, At, Bare
  <1>5. Whole' = Whole
    BY <1>1 DEF Whole, Top, tree
  <1>6. /\ root' # None => \A f \in Files : root'[f] \in past[f]
        /\ \A f \in Files : moved'[f] \in past[f]
    BY <1>1 DEF tree, Inv, FromPast
  <1>7. QED
    BY <1>1, <1>2, <1>4, <1>5, <1>6, Quiet

\* A data root made anew hides nothing.
LEMMA RootPromised ==
  ASSUME BackupAssumption, Inv, TypeOK', RootIsThere,
         UNCHANGED <<moved, edits, past, remote, restore>>,
         \A q \in Procs : ~At(q, "idle")' => \A f \in Files : run'[q].copy[f] \in past[f]
  PROVE  Promised
  <1>1. \A t \in Kept' : FromPast(t)
    BY NothingNew
  <1>2. CASE root # None
    <2>1. UNCHANGED <<root, split, base>>
      BY <1>2 DEF RootIsThere
    <2>2. Whole' = Whole
      BY <2>1 DEF Whole, Top
    <2>3. /\ root' # None => \A f \in Files : root'[f] \in past[f]
          /\ \A f \in Files : moved'[f] \in past[f]
      BY <2>1 DEF Inv, FromPast
    <2>4. QED
      BY <1>1, <2>2, <2>3, Quiet
  <1>3. CASE root = None
    <2>1. root' = Bare /\ split' = TRUE /\ base' = Whole
      BY <1>3 DEF RootIsThere, MakesRoot
    <2>2. Whole \in Tree /\ Bare \in Tree /\ Bare # None
      BY Parts, WholeIsTree, TreeFacts, NoneIsNoTree DEF Inv
    <2>3. Whole' = Over(Bare, Whole)
      BY <2>1, <2>2 DEF Whole, Top
    <2>4. Over(Bare, Whole) = Whole
      BY <2>2 DEF Over, Bare, Tree
    <2>5. /\ root' # None => \A f \in Files : root'[f] \in past[f]
          /\ \A f \in Files : moved'[f] \in past[f]
      BY <2>1 DEF Inv, FromPast, Bare
    <2>6. QED
      BY <1>1, <2>3, <2>4, <2>5, Quiet
  <1>4. QED
    BY <1>2, <1>3

LEMMA TryLockPromised ==
  ASSUME BackupAssumption, Inv, TypeOK', NEW p \in Procs, TryLock(p)
  PROVE  Promised
  <1>1. UNCHANGED <<moved, edits, past, remote, restore>> /\ RootIsThere
    BY DEF TryLock, store, bounds
  <1>2. run'[p].copy = run[p].copy /\ \A q \in Procs \ {p} : run'[q] = run[q]
    BY TryLockTypes DEF Inv
  <1>3. \A q \in Procs : ~At(q, "idle")' => \A f \in Files : run'[q].copy[f] \in past[f]
    BY <1>2 DEF Inv, FromPast, At, TryLock
  <1>4. QED
    BY <1>1, <1>3, RootPromised

LEMMA CollectPromised ==
  ASSUME BackupAssumption, Inv, TypeOK', NEW p \in Procs, Collect(p)
  PROVE  Promised
  <1>1. UNCHANGED <<moved, edits, past, remote, restore>> /\ RootIsThere
    BY DEF Collect, store, bounds
  <1>2. SameCopies
    BY CollectTypes DEF Inv
  <1>3. \A q \in Procs : ~At(q, "idle")' => \A f \in Files : run'[q].copy[f] \in past[f]
    BY <1>2 DEF Inv, FromPast, SameCopies
  <1>4. QED
    BY <1>1, <1>3, RootPromised

LEMMA WritePidPromised ==
  ASSUME BackupAssumption, Inv, TypeOK', NEW p \in Procs, WritePid(p)
  PROVE  Promised
  <1>1. UNCHANGED <<tree, edits, past>> /\ UNCHANGED <<remote, restore>>
    BY DEF WritePid, store, bounds
  <1>2. \A t \in Kept' : FromPast(t)
    BY <1>1, NothingNew
  <1>3. SameCopies
    BY WritePidTypes DEF Inv, SameCopies, WritePid, At
  <1>4. QED
    BY <1>1, <1>2, <1>3, QuietTree

\* What a run reads is in the data root.
LEMMA ReadPromised ==
  ASSUME BackupAssumption, Inv, TypeOK', NEW p \in Procs, NEW f \in Files, Read(p, f)
  PROVE  Promised
  <1>1. UNCHANGED <<tree, edits, past>> /\ UNCHANGED <<remote, restore>>
    BY DEF Read, store, bounds
  <1>2. \A t \in Kept' : FromPast(t)
    BY <1>1, NothingNew
  <1>3. /\ run'[p].copy = [run[p].copy EXCEPT ![f] = root[f]]
        /\ \A q \in Procs \ {p} : run'[q] = run[q]
    BY ReadTypes DEF Inv
  <1>4. run[p].copy \in Tree /\ FromPast(run[p].copy) /\ FromPast(root)
    BY Parts, RunFacts DEF Inv, Read, At
  <1>5. \A g \in Files : run'[p].copy[g] \in past[g]
    BY <1>3, <1>4 DEF FromPast, Tree
  <1>6. \A q \in Procs : ~At(q, "idle")' => \A g \in Files : run'[q].copy[g] \in past[g]
    BY <1>3, <1>5 DEF Inv, FromPast, At
  <1>7. Whole' = Whole
    BY <1>1 DEF Whole, Top, tree
  <1>8. /\ root' # None => \A g \in Files : root'[g] \in past[g]
        /\ \A g \in Files : moved'[g] \in past[g]
    BY <1>1 DEF tree, Inv, FromPast
  <1>9. QED
    BY <1>1, <1>2, <1>6, <1>7, <1>8, Quiet

\* The archive that is stored is the run's copy.
LEMMA UploadPromised ==
  ASSUME BackupAssumption, Inv, TypeOK', NEW p \in Procs, Upload(p)
  PROVE  Promised
  <1>1. UNCHANGED <<tree, edits, past>> /\ restore' = restore
    BY DEF Upload, bounds
  <1>2. remote' = remote \cup {[id |-> run[p].pid, tree |-> run[p].copy]}
    BY DEF Upload
  <1>3. FromPast(run[p].copy)
    BY DEF Inv, Upload, At
  <1>4. Kept' \subseteq Kept \cup {run[p].copy}
    BY <1>1, <1>2 DEF Kept
  <1>5. \A t \in Kept' : FromPast(t)
    BY <1>3, <1>4 DEF Inv
  <1>6. SameCopies
    BY UploadTypes DEF Inv
  <1>7. QED
    BY <1>1, <1>5, <1>6, QuietTree

\* Nothing else a backup or a prune does brings a tree.
LEMMA OthersPromised ==
  ASSUME BackupAssumption, Inv, TypeOK', NEW p \in Procs,
         \/ CheckStale(p) \/ Reclaim(p) \/ Fails(p) \/ Sidecar(p) \/ Orphan(p)
         \/ List(p) \/ Delete(p) \/ PruneEnds(p) \/ Crash(p)
  PROVE  Promised
  <1>1. UNCHANGED <<tree, edits, past>> /\ restore' = restore
    BY DEF CheckStale, Reclaim, Fails, Sidecar, Orphan, List, Delete, PruneEnds, Crash,
           bounds
  <1>2. remote' \subseteq remote
    BY DEF CheckStale, Reclaim, Fails, Sidecar, Orphan, List, Delete, PruneEnds, Crash,
           store
  <1>3. \A t \in Kept' : FromPast(t)
    BY <1>1, <1>2, NothingNew
  <1>4. SameCopies
    BY CheckStaleTypes, ReclaimTypes, FailsTypes, SidecarTypes, OrphanTypes,
       ListTypes, DeleteTypes, EndingTypes DEF Inv
  <1>5. QED
    BY <1>1, <1>3, <1>4, QuietTree

\* A restore fetches a tree that is kept.
LEMMA FetchPromised ==
  ASSUME BackupAssumption, Inv, TypeOK', Fetch
  PROVE  Promised
  <1>1. UNCHANGED <<tree, edits, past>> /\ UNCHANGED run /\ remote' = remote
    BY DEF Fetch, store, bounds
  <1>2. PICK a \in remote : restore' = [pc |-> "gate", tree |-> a.tree, aside |-> FALSE]
    BY DEF Fetch
  <1>3. Kept' \subseteq Kept
    BY <1>1, <1>2 DEF Kept
  <1>4. \A t \in Kept' : FromPast(t)
    BY <1>3 DEF Inv
  <1>5. QED
    BY <1>1, <1>4, QuietTree

\* The first steps of a restore, and its end, bring nothing.
LEMMA GatePromised ==
  ASSUME BackupAssumption, Inv, TypeOK', Gate \/ RestoreStops
  PROVE  Promised
  <1>1. UNCHANGED <<tree, edits, past>> /\ UNCHANGED run /\ remote' = remote
    BY DEF Gate, RestoreStops, store, bounds
  <1>2. restore' # NoRestore => restore # NoRestore /\ restore'.tree = restore.tree
    <2>1. CASE RestoreStops
      BY <2>1 DEF RestoreStops
    <2>2. CASE Gate
      <3>1. restore # NoRestore
        BY <2>2 DEF Gate, NoRestore
      <3>2. restore \in [pc : {"gate", "swap", "in"}, tree : Tree, aside : BOOLEAN]
        BY <3>1, RestoreRecord DEF Inv
      <3>3. QED
        BY <2>2, <3>1, <3>2 DEF Gate
    <2>3. QED
      BY <2>1, <2>2
  <1>3. \A t \in Kept' : FromPast(t)
    BY <1>1, <1>2, NothingNew
  <1>4. QED
    BY <1>1, <1>3, QuietTree

\* Between the two renames the vault is the tree that was moved aside.
LEMMA MoveAsidePromised ==
  ASSUME BackupAssumption, Inv, TypeOK', MoveAside
  PROVE  Promised
  <1>1. UNCHANGED <<split, base, run, edits, past, remote>>
    BY DEF MoveAside, store, bounds
  <1>2. /\ restore # NoRestore /\ restore' # NoRestore
        /\ restore'.tree = restore.tree
    <2>1. restore # NoRestore
      BY DEF MoveAside, NoRestore
    <2>2. restore \in [pc : {"gate", "swap", "in"}, tree : Tree, aside : BOOLEAN]
      BY <2>1, RestoreRecord DEF Inv
    <2>3. restore'.pc = "in" /\ restore'.tree = restore.tree
      BY <2>2 DEF MoveAside
    <2>4. QED
      BY <2>1, <2>3 DEF NoRestore
  <1>3. \A t \in Kept' : FromPast(t)
    BY <1>1, <1>2, NothingNew
  <1>4. Top' = Top
    BY DEF MoveAside, Top
  <1>5. Whole' = Whole
    BY <1>1, <1>4 DEF Whole
  <1>6. /\ root' # None => \A f \in Files : root'[f] \in past[f]
        /\ \A f \in Files : moved'[f] \in past[f]
    BY DEF MoveAside, Inv, FromPast
  <1>7. \A q \in Procs : ~At(q, "idle")' => \A f \in Files : run'[q].copy[f] \in past[f]
    BY <1>1 DEF Inv, FromPast, At
  <1>8. QED
    BY <1>1, <1>3, <1>5, <1>6, <1>7, Quiet

\* A swap that fails puts the tree back, or leaves it aside.
LEMMA MoveBackPromised ==
  ASSUME BackupAssumption, Inv, TypeOK', MoveBack
  PROVE  Promised
  <1>1. UNCHANGED <<moved, split, base, run, edits, past, remote>> /\ restore' = NoRestore
    BY DEF MoveBack, store, bounds
  <1>2. \A t \in Kept' : FromPast(t)
    BY <1>1, NothingNew
  <1>3. moved # None
    BY Parts, NoneIsNoTree DEF Inv, TreeTypes
  <1>4. Top' = Top
    BY <1>1, <1>3 DEF MoveBack, Top
  <1>5. Whole' = Whole
    BY <1>1, <1>4 DEF Whole
  <1>6. /\ root' # None => \A f \in Files : root'[f] \in past[f]
        /\ \A f \in Files : moved'[f] \in past[f]
    BY DEF MoveBack, Inv, FromPast
  <1>7. \A q \in Procs : ~At(q, "idle")' => \A f \in Files : run'[q].copy[f] \in past[f]
    BY <1>1 DEF Inv, FromPast, At
  <1>8. QED
    BY <1>1, <1>2, <1>5, <1>6, <1>7, Quiet

\* The second rename is the restore.
LEMMA MoveInPromised ==
  ASSUME BackupAssumption, Inv, TypeOK', MoveIn
  PROVE  Promised
  <1>1. /\ UNCHANGED <<moved, run, edits, past, remote>> /\ restore' = NoRestore
        /\ root' = restore.tree /\ split' = FALSE
    BY DEF MoveIn, store, bounds
  <1>2. restore # NoRestore /\ restore.tree \in Tree
    <2>1. restore # NoRestore
      BY DEF MoveIn, NoRestore
    <2>2. QED
      BY <2>1, RestoreRecord DEF Inv
  <1>3. restore.tree \in Kept /\ restore.tree # None
    BY <1>2, NoneIsNoTree DEF Kept
  <1>4. Kept' \subseteq Kept /\ \A t \in Kept' : FromPast(t)
    BY <1>1, NothingNew
  <1>5. Whole' = restore.tree
    BY <1>1, <1>3 DEF Whole, Top
  <1>6. Promise!Restore
    BY <1>1, <1>3, <1>4, <1>5 DEF Promise!Restore
  <1>7. Inv'
    <2>1. FromPast(restore.tree)
      BY <1>3 DEF Inv
    <2>2. \A f \in Files : root'[f] \in past'[f]
      BY <1>1, <2>1 DEF FromPast
    <2>3. FromPast(moved)' /\ \A f \in Files : None \in past'[f]
      BY <1>1 DEF Inv, FromPast
    <2>4. \A p \in Procs : ~At(p, "idle")' => FromPast(run[p].copy)'
      BY <1>1 DEF Inv, FromPast, At
    <2>5. \A t \in Kept' : FromPast(t)'
      BY <1>1, <1>4 DEF FromPast
    <2>6. QED
      BY <2>2, <2>3, <2>4, <2>5 DEF Inv, FromPast
  <1>8. QED
    BY <1>6, <1>7 DEF Promised, Promise!Next

LEMMA StepPromised ==
  ASSUME BackupAssumption, Inv, Next
  PROVE  Promised
  <1>1. TypeOK'
    BY NextTypes DEF Inv
  <1>2. ASSUME NEW f \in Files, NEW c \in Held, Edit(f, c) PROVE Promised
    BY <1>1, <1>2, EditPromised
  <1>3. ASSUME NEW p \in Procs, BackupStep(p) PROVE Promised
    <2>1. CASE Begin(p) \/ TryLock(p) \/ WritePid(p) \/ Collect(p) \/ Upload(p)
      BY <1>1, <2>1, BeginPromised, TryLockPromised, WritePidPromised, CollectPromised,
         UploadPromised
    <2>2. CASE \E f \in Files : Read(p, f)
      BY <1>1, <2>2, ReadPromised
    <2>3. CASE \/ CheckStale(p) \/ Reclaim(p) \/ Fails(p) \/ Sidecar(p)
               \/ Orphan(p) \/ List(p) \/ Delete(p) \/ PruneEnds(p) \/ Crash(p)
      BY <1>1, <2>3, OthersPromised
    <2>4. QED
      BY <1>3, <2>1, <2>2, <2>3 DEF BackupStep
  <1>4. ASSUME RestoreStep PROVE Promised
    BY <1>1, <1>4, FetchPromised, GatePromised, MoveAsidePromised, MoveBackPromised,
       MoveInPromised DEF RestoreStep
  <1>5. QED
    BY <1>2, <1>3, <1>4 DEF Next

LEMMA StutterPromised ==
  ASSUME Inv, UNCHANGED vars
  PROVE  Promised
  <1>1. /\ UNCHANGED <<tree, edits, past>> /\ UNCHANGED run /\ UNCHANGED <<remote, restore>>
    BY DEF vars, store, bounds
  <1>2. TypeOK'
    BY StutterTypes DEF Inv
  <1>3. \A t \in Kept' : FromPast(t)
    BY <1>1, NothingNew
  <1>4. QED
    BY <1>1, <1>2, <1>3, QuietTree

LEMMA InitPromised ==
  ASSUME BackupAssumption, Init
  PROVE  Inv /\ Promise!Init
  <1>1. TypeOK
    BY InitTypes
  <1>2. root \in Tree /\ Whole = root
    BY NoneIsNoTree DEF Init, Whole, Top
  <1>3. Kept = {}
    BY DEF Init, Kept
  <1>4. Promise!Init
    BY <1>2, <1>3 DEF Init, Promise!Init, Promise!Tree, Promise!Held, Tree, Held
  <1>5. Inv
    BY <1>1, <1>2, <1>3 DEF Init, Inv, FromPast, Bare, At, NoRun
  <1>6. QED
    BY <1>4, <1>5

\* Backups, restores, crashes between the two renames and the programs that write in
\* the meantime keep what Vault promises: a restore happens in one step or not at
\* all, and brings back a tree made of what the vault has held.
THEOREM Implements == Spec => NothingLost
  <1>1. Init => Inv /\ Promise!Init
    BY InitPromised, BackupAssumption
  <1>2. Inv /\ [Next]_vars => Inv' /\ [Promise!Next]_(Promise!vars)
    BY StepPromised, StutterPromised, BackupAssumption DEF Promised
  <1>3. QED
    BY <1>1, <1>2, PTL DEF Spec, NothingLost, Promise!Spec
-----------------------------------------------------------------------------
(* The exclusive backup lock. *)

Running(p) == ~At(p, "idle")

\* Two commands never have the same pid, and none has one that is still to come.
PidsDiffer ==
  /\ \A p \in Procs : Running(p) => run[p].pid <= runs
  /\ \A p, q \in Procs : Running(p) /\ Running(q) /\ run[p].pid = run[q].pid => p = q

\* A lock was made by a command that began, which put its own pid in it; it is in the
\* data root, and goes with it.
LockFits(l) == l # None => l.by <= runs /\ (l.pid # None => l.pid = l.by)
LocksFit == LockFits(lock) /\ LockFits(movedLock) /\ (root = None => lock = None)

\* A pid that was found to be dead stays dead: no later command gets it.
SureIsDead ==
  \A p \in Procs : At(p, "reclaim") /\ run[p].sure =>
    run[p].saw \in 1..runs /\ ~Alive(run[p].saw)

\* As long as no lock was taken from its holder, whoever is under way has the lock.
HolderLocked == ~stolen => \A p \in Holding : lock # None /\ lock.by = run[p].pid

LInv == PidsDiffer /\ LocksFit /\ SureIsDead /\ HolderLocked

\* What a step of p does to the commands: p ends, or goes on at one of some steps.
Onward(p, S) ==
  /\ \A q \in Procs \ {p} : run'[q] = run[q]
  /\ \/ run'[p] = NoRun
     \/ run'[p].pc \in S /\ run'[p].pid = run[p].pid /\ run'[p].locks = run[p].locks

LEMMA GoesOn ==
  ASSUME RunTypes, NEW p \in Procs, Running(p), NEW pc, Goes(p, pc)
  PROVE  /\ Onward(p, {pc})
         /\ run'[p].pc = pc /\ run'[p].pid = run[p].pid /\ run'[p].locks = run[p].locks
         /\ run'[p].sure = run[p].sure /\ run'[p].saw = run[p].saw
         /\ run'[p].doomed = run[p].doomed
  <1>1. run[p] \in Run \ {NoRun}
    BY RunFacts DEF Running
  <1>2. /\ run'[p] = [run[p] EXCEPT !.pc = pc]
        /\ \A q \in Procs \ {p} : run'[q] = run[q]
    BY DEF Goes, RunTypes
  <1>3. QED
    BY <1>1, <1>2 DEF Onward, Run

LEMMA EndsOn ==
  ASSUME RunTypes, NEW p \in Procs, NEW S, Ends(p)
  PROVE  Onward(p, S) /\ run'[p] = NoRun
  BY EndsTypes DEF Onward

LEMMA CheckStaleOn ==
  ASSUME TypeOK, NEW p \in Procs, CheckStale(p)
  PROVE  /\ Onward(p, {"reclaim"})
         /\ run'[p] = NoRun \/ /\ run'[p].saw = IF lock = None THEN 0 ELSE lock.by
                               /\ run'[p].sure = (lock # None /\ lock.pid # None)
                               /\ LockIsStale(lock)
  <1>1. RunTypes /\ Running(p) /\ run[p] \in Run \ {NoRun}
    BY Parts, RunFacts DEF Running, CheckStale, At
  <1>2. CASE ~LockIsStale(lock)
    BY <1>1, <1>2, EndsOn DEF CheckStale
  <1>3. CASE LockIsStale(lock)
    <2> DEFINE saw == IF lock = None THEN 0 ELSE lock.by
               sure == lock # None /\ lock.pid # None
    <2>1. run' = [run EXCEPT ![p].pc = "reclaim", ![p].saw = saw, ![p].sure = sure]
      BY <1>3 DEF CheckStale
    <2> HIDE DEF saw, sure
    <2>2. /\ run'[p] = [run[p] EXCEPT !.pc = "reclaim", !.saw = saw, !.sure = sure]
          /\ \A q \in Procs \ {p} : run'[q] = run[q]
      BY <2>1, <1>1 DEF RunTypes
    <2>3. /\ run'[p].pc = "reclaim" /\ run'[p].pid = run[p].pid
          /\ run'[p].locks = run[p].locks /\ run'[p].saw = saw /\ run'[p].sure = sure
      BY <2>2, <1>1 DEF Run
    <2>4. Onward(p, {"reclaim"})
      BY <2>2, <2>3 DEF Onward
    <2>5. QED
      BY <1>3, <2>3, <2>4 DEF saw, sure
  <1>4. QED
    BY <1>2, <1>3

LEMMA CollectOn ==
  ASSUME TypeOK, NEW p \in Procs, Collect(p)
  PROVE  Onward(p, {"read"})
  <1> DEFINE files == {f \in Files : root'[f] # None}
             now == era'
  <1>1. RunTypes /\ run[p] \in Run \ {NoRun}
    BY Parts, RunFacts DEF Collect, At
  <1>2. run' = [run EXCEPT ![p].pc = "read", ![p].left = files, ![p].era = now]
    BY DEF Collect
  <1> HIDE DEF files, now
  <1>3. /\ run'[p] = [run[p] EXCEPT !.pc = "read", !.left = files, !.era = now]
        /\ \A q \in Procs \ {p} : run'[q] = run[q]
    BY <1>1, <1>2 DEF RunTypes
  <1>4. QED
    BY <1>1, <1>3 DEF Onward, Run

LEMMA ReadOn ==
  ASSUME TypeOK, NEW p \in Procs, NEW f \in Files, Read(p, f)
  PROVE  Onward(p, {"read"})
  <1> DEFINE left == run[p].left \ {f}
             copy == [run[p].copy EXCEPT ![f] = root[f]]
  <1>1. RunTypes /\ run[p] \in Run \ {NoRun} /\ run[p].pc = "read"
    BY Parts, RunFacts DEF Read, At
  <1>2. run' = [run EXCEPT ![p].left = left, ![p].copy = copy]
    BY DEF Read
  <1> HIDE DEF left, copy
  <1>3. /\ run'[p] = [run[p] EXCEPT !.left = left, !.copy = copy]
        /\ \A q \in Procs \ {p} : run'[q] = run[q]
    BY <1>1, <1>2 DEF RunTypes
  <1>4. QED
    BY <1>1, <1>3 DEF Onward, Run

LEMMA ListOn ==
  ASSUME TypeOK, NEW p \in Procs, List(p)
  PROVE  /\ Onward(p, {"prune"})
         /\ run'[p] = NoRun \/ run'[p].doomed = PlanPrune(Ids, runs)
  <1> DEFINE doomed == PlanPrune(Ids, runs)
  <1>1. RunTypes /\ run[p] \in Run \ {NoRun}
    BY Parts, RunFacts DEF List, At
  <1>2. CASE Ends(p)
    BY <1>1, <1>2, EndsOn
  <1>3. CASE run' = [run EXCEPT ![p].pc = "prune", ![p].doomed = doomed]
    <2> HIDE DEF doomed
    <2>1. /\ run'[p] = [run[p] EXCEPT !.pc = "prune", !.doomed = doomed]
          /\ \A q \in Procs \ {p} : run'[q] = run[q]
      BY <1>1, <1>3 DEF RunTypes
    <2>2. Onward(p, {"prune"}) /\ run'[p].doomed = doomed
      BY <1>1, <2>1 DEF Onward, Run
    <2>3. QED
      BY <2>2 DEF doomed
  <1>4. QED
    BY <1>2, <1>3 DEF List

LEMMA DeleteOn ==
  ASSUME TypeOK, NEW p \in Procs, Delete(p)
  PROVE  /\ Onward(p, {"prune"})
         /\ run'[p].doomed = run[p].doomed \ {Max(run[p].doomed)}
  <1> DEFINE doomed == run[p].doomed \ {Max(run[p].doomed)}
  <1>1. RunTypes /\ run[p] \in Run \ {NoRun} /\ run[p].pc = "prune"
    BY Parts, RunFacts DEF Delete, At
  <1>2. run' = [run EXCEPT ![p].doomed = doomed]
    BY DEF Delete
  <1> HIDE DEF doomed
  <1>3. /\ run'[p] = [run[p] EXCEPT !.doomed = doomed]
        /\ \A q \in Procs \ {p} : run'[q] = run[q]
    BY <1>1, <1>2 DEF RunTypes
  <1>4. Onward(p, {"prune"}) /\ run'[p].doomed = doomed
    BY <1>1, <1>3 DEF Onward, Run
  <1>5. QED
    BY <1>4 DEF doomed

\* An idle command has pid 0, the others have pids that began.
LEMMA IdleFacts ==
  ASSUME TypeOK, NEW p \in Procs
  PROVE  /\ ~Running(p) <=> run[p] = NoRun
         /\ run[p].pid \in Nat /\ (Running(p) <=> run[p].pid # 0)
         /\ run[p].locks \in BOOLEAN \/ run[p] = NoRun
         /\ Running(p) => run[p].pid \in Ran
  <1>1. run[p] \in Run
    BY Parts DEF RunTypes
  <1>2. CASE run[p] = NoRun
    BY <1>2 DEF Running, At, NoRun
  <1>3. CASE run[p] # NoRun
    <2>1. run[p].pc # "idle" /\ run[p].pid \in Ran /\ run[p].locks \in BOOLEAN
      BY <1>1, <1>3 DEF Run
    <2>2. \A n \in Ran : n \in Nat /\ n # 0
      BY DEF Ran
    <2>3. QED
      BY <1>3, <2>1, <2>2 DEF Running, At
  <1>4. QED
    BY <1>2, <1>3

LEMMA IdleFactsNext ==
  ASSUME TypeOK', NEW p \in Procs
  PROVE  /\ ~Running(p)' <=> run'[p] = NoRun
         /\ run'[p].pid \in Nat /\ (Running(p)' <=> run'[p].pid # 0)
         /\ run'[p].locks \in BOOLEAN \/ run'[p] = NoRun
         /\ Running(p)' => run'[p].pid \in Ran
  <1>1. run'[p] \in Run
    BY PartsNext DEF RunTypes
  <1>2. CASE run'[p] = NoRun
    BY <1>2 DEF Running, At, NoRun
  <1>3. CASE run'[p] # NoRun
    <2>1. run'[p].pc # "idle" /\ run'[p].pid \in Ran /\ run'[p].locks \in BOOLEAN
      BY <1>1, <1>3 DEF Run
    <2>2. \A n \in Ran : n \in Nat /\ n # 0
      BY DEF Ran
    <2>3. QED
      BY <1>3, <2>1, <2>2 DEF Running, At
  <1>4. QED
    BY <1>2, <1>3

\* A step that starts no command changes no pid but to end a command.
SamePids == \A q \in Procs : run'[q].pid = run[q].pid \/ run'[q] = NoRun

LEMMA SamePidsStay ==
  ASSUME TypeOK, TypeOK', PidsDiffer, runs' = runs, SamePids
  PROVE  /\ PidsDiffer'
         /\ \A n \in Nat : n # 0 /\ Alive(n)' => Alive(n)
  <1>1. \A q \in Procs : Running(q)' => Running(q) /\ run'[q].pid = run[q].pid
    BY IdleFacts, IdleFactsNext DEF SamePids
  <1>2. PidsDiffer'
    <2>1. \A p \in Procs : Running(p)' => run'[p].pid <= runs'
      BY <1>1 DEF PidsDiffer
    <2>2. \A p, q \in Procs :
            Running(p)' /\ Running(q)' /\ run'[p].pid = run'[q].pid => p = q
      BY <1>1 DEF PidsDiffer
    <2>3. QED
      BY <2>1, <2>2 DEF PidsDiffer
  <1>3. \A n \in Nat : n # 0 /\ Alive(n)' => Alive(n)
    BY <1>1, IdleFactsNext DEF Alive
  <1>4. QED
    BY <1>2, <1>3

LEMMA OnwardPids ==
  ASSUME NEW p \in Procs, NEW S, Onward(p, S)
  PROVE  SamePids
  BY DEF Onward, SamePids

\* A pid that is known to be dead is still known to be, when no command has turned to
\* "reclaim" in the step.
LEMMA SureStays ==
  ASSUME TypeOK, TypeOK', PidsDiffer, SureIsDead, runs' = runs, NEW p \in Procs, NEW S,
         Onward(p, S), ~At(p, "reclaim")' \/ run'[p] = run[p]
  PROVE  SureIsDead'
  <1>1. \A n \in Nat : n # 0 /\ Alive(n)' => Alive(n)
    BY SamePidsStay, OnwardPids
  <1>2. runs \in Nat
    BY Parts DEF BoundTypes
  <1>3. \A q \in Procs : At(q, "reclaim")' => run'[q] = run[q]
    BY DEF Onward
  <1>4. ASSUME NEW q \in Procs, At(q, "reclaim")', run'[q].sure
        PROVE  (run[q].saw \in 1..runs /\ ~Alive(run[q].saw))'
    <2>1. run[q].saw \in 1..runs /\ ~Alive(run[q].saw) /\ run'[q] = run[q]
      BY <1>3, <1>4 DEF SureIsDead, At
    <2>2. run[q].saw \in Nat /\ run[q].saw # 0
      BY <1>2, <2>1
    <2>3. \A r \in Procs : run'[r].pid # run[q].saw
      BY <1>1, <2>1, <2>2 DEF Alive
    <2>4. QED
      BY <2>1, <2>3 DEF Alive
  <1>5. QED
    BY <1>4 DEF SureIsDead

\* Who has the lock.
Holds == {"write", "collect", "read", "sidecar", "orphan"}

LEMMA HoldingIs ==
  /\ \A p \in Procs : p \in Holding <=>
       run[p].pc \in Holds \/ (run[p].pc \in {"list", "prune"} /\ run[p].locks)
  /\ \A p \in Procs : p \in Holding' <=>
       run'[p].pc \in Holds \/ (run'[p].pc \in {"list", "prune"} /\ run'[p].locks)
  BY DEF Holding, Holds

\* Steps that leave the locks alone, and after which no other command is under way.
LEMMA LocksLeft ==
  ASSUME TypeOK, TypeOK', LInv, runs' = runs, UNCHANGED locks, root' = None => root = None,
         NEW p \in Procs, NEW S, Onward(p, S), ~At(p, "reclaim")' \/ run'[p] = run[p],
         p \in Holding' => p \in Holding
  PROVE  LInv'
  <1>1. PidsDiffer' /\ SureIsDead'
    BY SamePidsStay, SureStays, OnwardPids DEF LInv
  <1>2. LocksFit'
    BY DEF LInv, LocksFit, LockFits, locks
  <1>3. \A q \in Procs : q \in Holding' => q \in Holding /\ run'[q].pid = run[q].pid
    <2>1. \A q \in Procs \ {p} : q \in Holding' => q \in Holding /\ run'[q].pid = run[q].pid
      BY HoldingIs DEF Onward
    <2>2. p \in Holding' => run'[p] # NoRun
      BY HoldingIs DEF NoRun, Holds
    <2>3. p \in Holding' => run'[p].pid = run[p].pid
      BY <2>2 DEF Onward
    <2>4. QED
      BY <2>1, <2>3
  <1>4. HolderLocked'
    <2>1. Holding' \subseteq Procs
      BY DEF Holding
    <2>2. QED
      BY <1>3, <2>1 DEF LInv, HolderLocked, locks
  <1>5. QED
    BY <1>1, <1>2, <1>4 DEF LInv

\* Whoever gives up the lock was the only one under way, unless a lock was taken.
LEMMA LocksGivenUp ==
  ASSUME TypeOK, TypeOK', LInv, runs' = runs, Unlocked, root' = root,
         NEW p \in Procs, p \in Holding, run'[p] = NoRun, Onward(p, {})
  PROVE  LInv'
  <1>1. PidsDiffer'
    BY SamePidsStay, OnwardPids DEF LInv
  <1>2. SureIsDead'
    <2>1. ~At(p, "reclaim")'
      BY DEF At, NoRun
    <2>2. QED
      BY <2>1, SureStays DEF LInv
  <1>3. LocksFit'
    BY DEF LInv, LocksFit, LockFits, Unlocked
  <1>4. HolderLocked'
    <2> SUFFICES ASSUME ~stolen', NEW q \in Holding' PROVE FALSE
      BY DEF HolderLocked
    <2>1. ~stolen
      BY DEF Unlocked
    <2>2. q \in Procs /\ q # p
      BY HoldingIs DEF Holding, NoRun, Holds
    <2>3. q \in Holding
      BY <2>2, HoldingIs DEF Onward
    <2>4. run[p].pid = run[q].pid
      BY <2>1, <2>3 DEF LInv, HolderLocked
    <2>5. Running(p) /\ Running(q)
      BY <2>2, <2>3, HoldingIs DEF Running, At, Holds
    <2>6. QED
      BY <2>2, <2>4, <2>5 DEF LInv, PidsDiffer
  <1>5. QED
    BY <1>1, <1>2, <1>3, <1>4 DEF LInv

\* Steps of the others: no command changes.
LEMMA RunsLeft ==
  ASSUME LInv, UNCHANGED <<run, runs>>
  PROVE  /\ PidsDiffer' /\ SureIsDead' /\ Holding' = Holding
         /\ UNCHANGED locks /\ (root' = None => root = None) => LInv'
  <1>1. PidsDiffer' /\ SureIsDead' /\ Holding' = Holding
    BY DEF LInv, PidsDiffer, SureIsDead, Running, At, Alive, Holding
  <1>2. UNCHANGED locks /\ (root' = None => root = None) => LInv'
    BY <1>1 DEF LInv, locks, LocksFit, LockFits, HolderLocked
  <1>3. QED
    BY <1>1, <1>2

\* A command that begins has a pid of its own, and no lock.
LEMMA BeginLocked ==
  ASSUME BackupAssumption, TypeOK, TypeOK', LInv, NEW p \in Procs, Begin(p)
  PROVE  LInv'
  <1>1. PICK pc \in {"lock", "list"} :
          run' = [run EXCEPT ![p] = [pc |-> pc, pid |-> runs + 1, locks |-> (pc = "lock"),
                                     sure |-> FALSE, saw |-> 0, era |-> era, left |-> {},
                                     copy |-> Bare, doomed |-> {}]]
    BY DEF Begin
  <1>2. /\ run'[p].pc = pc /\ run'[p].pid = runs + 1 /\ run'[p].locks = (pc = "lock")
        /\ \A q \in Procs \ {p} : run'[q] = run[q]
    BY <1>1, Parts DEF RunTypes
  <1>3. runs \in Nat /\ runs' = runs + 1 /\ UNCHANGED <<root, lock, movedLock, stolen>>
    BY Parts DEF BoundTypes, Begin, tree, locks
  <1>4. \A q \in Procs : run[q].pid \in Nat /\ (Running(q) => run[q].pid <= runs)
    BY IdleFacts DEF LInv, PidsDiffer
  <1>5. \A q \in Procs \ {p} : Running(q)' <=> Running(q)
    BY <1>2 DEF Running, At
  <1>6. PidsDiffer'
    <2>1. \A q \in Procs : Running(q)' => run'[q].pid <= runs'
      BY <1>2, <1>3, <1>4, <1>5
    <2>2. \A q, r \in Procs :
            Running(q)' /\ Running(r)' /\ run'[q].pid = run'[r].pid => q = r
      BY <1>2, <1>3, <1>4, <1>5 DEF LInv, PidsDiffer
    <2>3. QED
      BY <2>1, <2>2 DEF PidsDiffer
  <1>7. SureIsDead'
    <2> SUFFICES ASSUME NEW q \in Procs, At(q, "reclaim")', run'[q].sure
                 PROVE  (run[q].saw \in 1..runs /\ ~Alive(run[q].saw))'
      BY DEF SureIsDead
    <2>1. q # p /\ run'[q] = run[q]
      BY <1>2 DEF At
    <2>2. run[q].saw \in 1..runs /\ ~Alive(run[q].saw)
      BY <2>1 DEF LInv, SureIsDead, At
    <2>3. \A r \in Procs : run'[r].pid # run[q].saw
      BY <1>2, <1>3, <2>2 DEF Alive
    <2>4. QED
      BY <1>3, <2>1, <2>2, <2>3 DEF Alive
  <1>8. LocksFit'
    <2>1. \A l \in Option(Lock) : l # None => l.by \in Nat
      BY DEF Option, Lock, Ran
    <2>2. QED
      BY <1>3, <2>1, Parts DEF LInv, LocksFit, LockFits, LockTypes
  <1>9. HolderLocked'
    <2>1. p \notin Holding'
      BY <1>2, HoldingIs DEF Holds
    <2>2. \A q \in Holding' : q \in Holding /\ run'[q] = run[q]
      BY <1>2, <2>1, HoldingIs DEF Holding
    <2>3. QED
      BY <1>3, <2>2 DEF LInv, HolderLocked
  <1>10. QED
    BY <1>6, <1>7, <1>8, <1>9 DEF LInv

\* The lock is taken when there is none: then no other command is under way.
LEMMA TryLockLocked ==
  ASSUME BackupAssumption, TypeOK, TypeOK', LInv, NEW p \in Procs, TryLock(p)
  PROVE  LInv'
  <1>1. Running(p) /\ RunTypes /\ runs' = runs /\ root' # None
    BY Parts, RootIsThereTypes DEF TryLock, Running, At, bounds
  <1>2. CASE lock # None
    <2>1. Goes(p, "stale") /\ UNCHANGED locks
      BY <1>2 DEF TryLock, locks
    <2>2. Onward(p, {"stale"}) /\ run'[p].pc = "stale"
      BY <1>1, <2>1, GoesOn
    <2>3. ~At(p, "reclaim")' /\ p \notin Holding'
      BY <2>2, HoldingIs DEF At, Holds
    <2>4. QED
      BY <1>1, <2>1, <2>2, <2>3, LocksLeft
  <1>3. CASE lock = None
    <2>1. /\ lock' = [by |-> run[p].pid, pid |-> None] /\ Goes(p, "write")
          /\ UNCHANGED <<movedLock, stolen>>
      BY <1>3 DEF TryLock
    <2>2. Onward(p, {"write"}) /\ run'[p].pc = "write" /\ run'[p].pid = run[p].pid
      BY <1>1, <2>1, GoesOn
    <2>3. PidsDiffer' /\ SureIsDead'
      BY <1>1, <2>2, SamePidsStay, SureStays, OnwardPids DEF LInv, At
    <2>4. LocksFit'
      <3>1. LockFits(lock)'
        BY <1>1, <2>1 DEF LInv, PidsDiffer, LockFits
      <3>2. LockFits(movedLock)'
        BY <1>1, <2>1 DEF LInv, LocksFit, LockFits
      <3>3. QED
        BY <1>1, <3>1, <3>2 DEF LocksFit
    <2>5. HolderLocked'
      <3> SUFFICES ASSUME ~stolen', NEW q \in Holding'
                   PROVE  lock' # None /\ lock'.by = run'[q].pid
        BY DEF HolderLocked
      <3>1. q = p
        <4>1. q \in Procs /\ (q # p => q \in Holding)
          BY <2>2, HoldingIs DEF Holding, Onward
        <4>2. q \notin Holding
          BY <1>3, <2>1 DEF LInv, HolderLocked
        <4>3. QED
          BY <4>1, <4>2
      <3>2. lock' # None
        <4>1. lock' \in Lock
          BY <2>1, <1>1, RunFacts DEF Running, Lock, Option
        <4>2. QED
          BY <4>1, NoneIsNoLock
      <3>3. QED
        BY <2>1, <2>2, <3>1, <3>2
    <2>6. QED
      BY <2>3, <2>4, <2>5 DEF LInv
  <1>4. QED
    BY <1>2, <1>3

\* The pid goes into the lock of the one that made it.
LEMMA WritePidLocked ==
  ASSUME BackupAssumption, TypeOK, TypeOK', LInv, NEW p \in Procs, WritePid(p)
  PROVE  LInv'
  <1>1. Running(p) /\ RunTypes /\ runs' = runs /\ root' = root /\ stolen' = stolen
    BY Parts DEF WritePid, Running, At, bounds, tree
  <1>2. Onward(p, {"collect"}) /\ run'[p].pc = "collect" /\ run'[p].pid = run[p].pid
    BY <1>1, GoesOn DEF WritePid
  <1>3. PidsDiffer' /\ SureIsDead'
    BY <1>1, <1>2, SamePidsStay, SureStays, OnwardPids DEF LInv, At
  <1> DEFINE written(l) == IF l # None /\ l.by = run[p].pid THEN [l EXCEPT !.pid = l.by] ELSE l
  <1>4. \A l \in Lock : /\ written(l) \in Lock /\ written(l).by = l.by
                        /\ LockFits(l) => LockFits(written(l))
    BY NoneIsNoLock DEF Lock, Option, LockFits
  <1>5. lock' = written(lock) /\ movedLock' = written(movedLock)
    BY DEF WritePid
  <1>6. written(None) = None
    OBVIOUS
  <1>7. lock \in Option(Lock) /\ movedLock \in Option(Lock)
    BY Parts DEF LockTypes
  <1> HIDE DEF written
  <1>8. /\ lock' = None <=> lock = None
        /\ lock # None => lock'.by = lock.by
    BY <1>4, <1>5, <1>6, <1>7, NoneIsNoLock DEF Option
  <1>9. LocksFit'
    <2>1. LockFits(written(lock)) /\ LockFits(written(movedLock))
      BY <1>4, <1>6, <1>7 DEF Option, LInv, LocksFit
    <2>2. LockFits(lock)' /\ LockFits(movedLock)'
      BY <1>1, <1>5, <2>1 DEF LockFits
    <2>3. QED
      BY <1>1, <1>8, <2>2 DEF LInv, LocksFit
  <1>10. HolderLocked'
    <2>1. p \in Holding
      BY HoldingIs DEF WritePid, At, Holds
    <2>2. \A q \in Holding' : q \in Holding /\ run'[q].pid = run[q].pid
      BY <1>2, <2>1, HoldingIs DEF Holding, Onward
    <2>3. QED
      BY <1>1, <1>8, <2>2 DEF LInv, HolderLocked
  <1>11. QED
    BY <1>3, <1>9, <1>10 DEF LInv

\* A lock is stale when no command has the pid in it; with a pid in it, whoever made it
\* is known to be dead.
LEMMA CheckStaleLocked ==
  ASSUME BackupAssumption, TypeOK, TypeOK', LInv, NEW p \in Procs, CheckStale(p)
  PROVE  LInv'
  <1>1. runs' = runs /\ root' = root /\ UNCHANGED locks
    BY DEF CheckStale, bounds, tree
  <1>2. Onward(p, {"reclaim"})
    BY CheckStaleOn
  <1>3. CASE run'[p] = NoRun
    BY <1>1, <1>2, <1>3, LocksLeft, HoldingIs DEF NoRun, At, Holds
  <1>4. CASE run'[p] # NoRun
    <2>1. /\ run'[p].pc = "reclaim" /\ LockIsStale(lock)
          /\ run'[p].saw = IF lock = None THEN 0 ELSE lock.by
          /\ run'[p].sure = (lock # None /\ lock.pid # None)
      BY <1>2, <1>4, CheckStaleOn DEF Onward
    <2>2. PidsDiffer' /\ \A n \in Nat : n # 0 /\ Alive(n)' => Alive(n)
      BY <1>1, <1>2, SamePidsStay, OnwardPids DEF LInv
    <2>3. SureIsDead'
      <3> SUFFICES ASSUME NEW q \in Procs, At(q, "reclaim")', run'[q].sure
                   PROVE  (run[q].saw \in 1..runs /\ ~Alive(run[q].saw))'
        BY DEF SureIsDead
      <3>1. run'[q].saw \in 1..runs /\ \A r \in Procs : run[r].pid # run'[q].saw
        <4>1. CASE q = p
          <5>1. lock # None /\ lock.pid # None /\ run'[q].saw = lock.by
            BY <2>1, <4>1
          <5>2. lock.pid = lock.by /\ lock.by <= runs /\ lock.by \in Ran
            BY <5>1, Parts DEF LInv, LocksFit, LockFits, LockTypes, Option, Lock
          <5>3. runs \in Nat
            BY Parts DEF BoundTypes
          <5>4. lock.by \in 1..runs
            BY <5>2, <5>3 DEF Ran
          <5>5. ~Alive(lock.by)
            BY <2>1, <5>1, <5>2 DEF LockIsStale
          <5>6. QED
            BY <5>1, <5>4, <5>5 DEF Alive
        <4>2. CASE q # p
          <5>1. run'[q] = run[q] /\ At(q, "reclaim")
            BY <1>2, <4>2 DEF Onward, At
          <5>2. QED
            BY <5>1 DEF LInv, SureIsDead, Alive
        <4>3. QED
          BY <4>1, <4>2
      <3>2. run'[q].saw \in Nat /\ run'[q].saw # 0
        BY <3>1, Parts DEF BoundTypes
      <3>3. \A r \in Procs : run'[r].pid # run'[q].saw
        BY <2>2, <3>1, <3>2 DEF Alive
      <3>4. QED
        BY <1>1, <3>1, <3>3 DEF Alive
    <2>4. LocksFit'
      BY <1>1 DEF LInv, LocksFit, LockFits, locks
    <2>5. HolderLocked'
      <3>1. p \notin Holding'
        BY <2>1, HoldingIs DEF Holds
      <3>2. \A q \in Holding' : q \in Holding /\ run'[q] = run[q]
        BY <1>2, <3>1, HoldingIs DEF Holding, Onward
      <3>3. QED
        BY <1>1, <3>2 DEF LInv, HolderLocked, locks
    <2>6. QED
      BY <2>2, <2>3, <2>4, <2>5 DEF LInv
  <1>5. QED
    BY <1>3, <1>4

\* Who removes a lock takes it from nobody, or takes it from its holder.
LEMMA ReclaimLocked ==
  ASSUME BackupAssumption, TypeOK, TypeOK', LInv, NEW p \in Procs, Reclaim(p)
  PROVE  LInv'
  <1>1. Running(p) /\ RunTypes /\ runs' = runs /\ root' = root /\ lock' = None
    BY Parts DEF Reclaim, Running, At, bounds, tree
  <1>2. Onward(p, {"lock"}) /\ (run'[p].pc = "lock" \/ run'[p] = NoRun)
    BY <1>1, GoesOn, EndsOn DEF Reclaim
  <1>3. ~At(p, "reclaim")' /\ p \notin Holding'
    BY <1>2, HoldingIs DEF At, NoRun, Holds
  <1>4. PidsDiffer' /\ SureIsDead'
    BY <1>1, <1>2, <1>3, SamePidsStay, SureStays, OnwardPids DEF LInv
  <1>5. LocksFit'
    BY <1>1 DEF Reclaim, LInv, LocksFit, LockFits
  <1>6. HolderLocked'
    <2> SUFFICES ASSUME ~stolen', NEW q \in Holding' PROVE FALSE
      BY DEF HolderLocked
    <2>1. q \in Procs /\ q \in Holding /\ ~stolen
      BY <1>2, <1>3, HoldingIs DEF Holding, Onward, Reclaim
    <2>2. lock # None /\ lock.by = run[q].pid
      BY <2>1 DEF LInv, HolderLocked
    <2>3. Alive(lock.by)
      BY <2>1, <2>2 DEF Alive
    <2>4. run[p].sure /\ run[p].saw = lock.by
      BY <2>2, <2>3 DEF Reclaim
    <2>5. QED
      BY <2>3, <2>4 DEF LInv, SureIsDead, Reclaim, At
  <1>7. QED
    BY <1>4, <1>5, <1>6 DEF LInv

\* The steps of a run, or of a prune, that leave the lock where it is.
LEMMA OthersLocked ==
  ASSUME BackupAssumption, TypeOK, TypeOK', LInv, NEW p \in Procs,
         \/ Collect(p) \/ Upload(p) \/ Sidecar(p) \/ Delete(p) \/ Crash(p)
         \/ \E f \in Files : Read(p, f)
  PROVE  LInv'
  <1>1. Running(p) /\ RunTypes /\ runs' = runs /\ UNCHANGED locks
    BY Parts DEF Collect, Upload, Sidecar, Delete, Crash, Read, Running, At, bounds
  <1>2. root' = None => root = None
    BY RootIsThereTypes DEF Collect, Upload, Sidecar, Delete, Crash, Read, tree
  <1>3. CASE Collect(p) \/ \E f \in Files : Read(p, f)
    <2>1. Onward(p, {"read"}) /\ p \in Holding
      BY <1>3, CollectOn, ReadOn, HoldingIs DEF Collect, Read, At, Holds
    <2>2. ~At(p, "reclaim")'
      BY <2>1 DEF Onward, At, NoRun
    <2>3. QED
      BY <1>1, <1>2, <2>1, <2>2, LocksLeft
  <1>4. CASE Upload(p)
    <2>1. Onward(p, {"sidecar"}) /\ p \in Holding /\ run'[p].pc = "sidecar"
      BY <1>1, <1>4, GoesOn, HoldingIs DEF Upload, At, Holds
    <2>2. QED
      BY <1>1, <1>2, <2>1, LocksLeft DEF At
  <1>5. CASE Sidecar(p)
    <2>1. p \in Holding
      BY <1>5, HoldingIs DEF Sidecar, At, Holds
    <2>2. CASE Goes(p, "list")
      <3>1. Onward(p, {"list"}) /\ run'[p].pc = "list"
        BY <1>1, <2>2, GoesOn
      <3>2. ~At(p, "reclaim")'
        BY <3>1 DEF At
      <3>3. QED
        BY <1>1, <1>2, <2>1, <3>1, <3>2, LocksLeft
    <2>3. CASE Goes(p, "orphan")
      <3>1. Onward(p, {"orphan"}) /\ run'[p].pc = "orphan"
        BY <1>1, <2>3, GoesOn
      <3>2. ~At(p, "reclaim")'
        BY <3>1 DEF At
      <3>3. QED
        BY <1>1, <1>2, <2>1, <3>1, <3>2, LocksLeft
    <2>4. QED
      BY <1>5, <2>2, <2>3 DEF Sidecar
  <1>6. CASE Delete(p)
    <2>1. Onward(p, {"prune"}) /\ run[p].pc = "prune"
      BY <1>6, DeleteOn DEF Delete, At
    <2>2. ~At(p, "reclaim")'
      BY <2>1 DEF Onward, At, NoRun
    <2>3. p \in Holding' => p \in Holding
      BY <2>1, HoldingIs DEF Onward, NoRun, Holds
    <2>4. QED
      BY <1>1, <1>2, <2>1, <2>2, <2>3, LocksLeft
  <1>7. CASE Crash(p)
    <2>1. Onward(p, {}) /\ run'[p] = NoRun
      BY <1>1, <1>7, EndsOn DEF Crash
    <2>2. ~At(p, "reclaim")' /\ p \notin Holding'
      BY <2>1, HoldingIs DEF At, NoRun, Holds
    <2>3. QED
      BY <1>1, <1>2, <2>1, <2>2, LocksLeft
  <1>8. QED
    BY <1>3, <1>4, <1>5, <1>6, <1>7

\* A command that had the lock gives it up when it ends.
LEMMA EndingLocked ==
  ASSUME BackupAssumption, TypeOK, TypeOK', LInv, NEW p \in Procs,
         Fails(p) \/ Orphan(p) \/ List(p) \/ PruneEnds(p)
  PROVE  LInv'
  <1>1. Running(p) /\ RunTypes /\ runs' = runs /\ root' = root
    BY Parts DEF Fails, Orphan, List, PruneEnds, Running, At, bounds, tree
  <1>2. CASE Ends(p)
    <2>1. Onward(p, {}) /\ run'[p] = NoRun
      BY <1>1, <1>2, EndsOn
    <2>2. ~At(p, "reclaim")' /\ p \notin Holding'
      BY <2>1, HoldingIs DEF At, NoRun, Holds
    <2>3. CASE UNCHANGED locks
      BY <1>1, <2>1, <2>2, <2>3, LocksLeft
    <2>4. CASE Unlocked /\ p \in Holding
      BY <1>1, <2>1, <2>4, LocksGivenUp
    <2>5. UNCHANGED locks \/ (Unlocked /\ p \in Holding)
      <3>1. CASE Fails(p) \/ Orphan(p)
        BY <3>1, HoldingIs DEF Fails, Orphan, At, Holds
      <3>2. CASE List(p) \/ PruneEnds(p)
        <4>1. UNCHANGED locks \/ (Unlocked /\ run[p].locks)
          BY <3>2 DEF List, PruneEnds
        <4>2. run[p].pc \in {"list", "prune"}
          BY <3>2 DEF List, PruneEnds, At
        <4>3. QED
          BY <4>1, <4>2, HoldingIs
      <3>3. QED
        BY <3>1, <3>2
    <2>6. QED
      BY <2>3, <2>4, <2>5
  <1>3. CASE ~Ends(p)
    <2>1. List(p) /\ UNCHANGED locks
      BY <1>3 DEF Fails, Orphan, List, PruneEnds
    <2>2. Onward(p, {"prune"}) /\ run[p].pc = "list"
      BY <2>1, ListOn DEF List, At
    <2>3. ~At(p, "reclaim")'
      BY <2>2 DEF Onward, At, NoRun
    <2>4. p \in Holding' => p \in Holding
      BY <2>2, HoldingIs DEF Onward, NoRun, Holds
    <2>5. QED
      BY <1>1, <2>1, <2>2, <2>3, <2>4, LocksLeft
  <1>4. QED
    BY <1>2, <1>3

\* A restore takes the lock away with the tree, and brings it back with it.
LEMMA RestoreLocked ==
  ASSUME BackupAssumption, TypeOK, TypeOK', LInv, RestoreStep
  PROVE  LInv'
  <1>1. UNCHANGED <<run, runs>>
    BY DEF RestoreStep, Fetch, Gate, MoveAside, MoveIn, MoveBack, RestoreStops, bounds
  <1>2. PidsDiffer' /\ SureIsDead' /\ Holding' = Holding
    BY <1>1, RunsLeft
  <1>3. CASE Fetch \/ Gate \/ RestoreStops
    <2>1. UNCHANGED locks /\ root' = root
      BY <1>3 DEF Fetch, Gate, RestoreStops, tree
    <2>2. QED
      BY <1>1, <2>1, RunsLeft
  <1>4. CASE MoveIn
    <2>1. UNCHANGED locks /\ root = None
      BY <1>4 DEF MoveIn
    <2>2. QED
      BY <1>1, <2>1, RunsLeft
  <1>5. CASE MoveAside
    <2>1. CASE root = None
      BY <1>1, <1>5, <2>1, RunsLeft DEF MoveAside
    <2>2. CASE root # None
      <3>1. lock' = None /\ movedLock' = lock /\ stolen' = (stolen \/ lock # None)
        BY <1>5, <2>2 DEF MoveAside
      <3>2. LocksFit'
        BY <1>1, <3>1 DEF LInv, LocksFit, LockFits
      <3>3. HolderLocked'
        BY <1>1, <1>2, <3>1 DEF LInv, HolderLocked
      <3>4. QED
        BY <1>2, <3>2, <3>3 DEF LInv
    <2>3. QED
      BY <2>1, <2>2
  <1>6. CASE MoveBack
    <2>1. CASE ~(restore.aside /\ root = None)
      <3>1. UNCHANGED locks /\ root' = root
        BY <1>6, <2>1 DEF MoveBack, locks
      <3>2. QED
        BY <1>1, <3>1, RunsLeft
    <2>2. CASE restore.aside /\ root = None
      <3>1. root' = moved /\ lock' = movedLock /\ movedLock' = None /\ stolen' = stolen
        BY <1>6, <2>2 DEF MoveBack
      <3>2. moved # None
        BY Parts, NoneIsNoTree DEF TreeTypes
      <3>3. LocksFit'
        BY <1>1, <3>1, <3>2 DEF LInv, LocksFit, LockFits
      <3>4. HolderLocked'
        BY <1>1, <1>2, <2>2, <3>1 DEF LInv, LocksFit, HolderLocked
      <3>5. QED
        BY <1>2, <3>3, <3>4 DEF LInv
    <2>3. QED
      BY <2>1, <2>2
  <1>7. QED
    BY <1>3, <1>4, <1>5, <1>6 DEF RestoreStep

LEMMA EditLocked ==
  ASSUME BackupAssumption, TypeOK, TypeOK', LInv, NEW f \in Files, NEW c \in Held, Edit(f, c)
  PROVE  LInv'
  <1>1. UNCHANGED <<run, runs>> /\ UNCHANGED locks
    BY DEF Edit, locks
  <1>2. root' # None
    <2>1. (IF root = None THEN Bare ELSE root) \in Tree
      BY Parts, TreeFacts DEF TreeTypes, Option
    <2>2. [(IF root = None THEN Bare ELSE root) EXCEPT ![f] = c] \in Tree
      BY <2>1, TreeFacts
    <2>3. QED
      BY <2>2, NoneIsNoTree DEF Edit, MakesRoot
  <1>3. QED
    BY <1>1, <1>2, RunsLeft

LEMMA NextLocked ==
  ASSUME BackupAssumption, TypeOK, LInv, Next
  PROVE  LInv'
  <1>1. TypeOK'
    BY NextTypes
  <1>2. ASSUME NEW p \in Procs, BackupStep(p) PROVE LInv'
    <2>1. CASE Begin(p) \/ TryLock(p) \/ WritePid(p) \/ CheckStale(p) \/ Reclaim(p)
      BY <1>1, <2>1, BeginLocked, TryLockLocked, WritePidLocked, CheckStaleLocked,
         ReclaimLocked
    <2>2. CASE \/ Collect(p) \/ Upload(p) \/ Sidecar(p) \/ Delete(p) \/ Crash(p)
               \/ \E f \in Files : Read(p, f)
      BY <1>1, <2>2, OthersLocked
    <2>3. CASE Fails(p) \/ Orphan(p) \/ List(p) \/ PruneEnds(p)
      BY <1>1, <2>3, EndingLocked
    <2>4. QED
      BY <1>2, <2>1, <2>2, <2>3 DEF BackupStep
  <1>3. QED
    BY <1>1, <1>2, EditLocked, RestoreLocked DEF Next

LEMMA StutterLocked ==
  ASSUME LInv, UNCHANGED vars
  PROVE  LInv'
  BY RunsLeft DEF vars, bounds, tree

LEMMA InitLocked ==
  ASSUME BackupAssumption, Init
  PROVE  LInv
  <1>1. \A p \in Procs : run[p].pc = "idle"
    BY DEF Init, NoRun
  <1>2. PidsDiffer /\ SureIsDead
    BY <1>1 DEF PidsDiffer, SureIsDead, Running, At
  <1>3. LocksFit /\ HolderLocked
    BY <1>1 DEF Init, LocksFit, LockFits, HolderLocked, Holding
  <1>4. QED
    BY <1>2, <1>3 DEF LInv

\* At most one command is under way, unless a lock was taken from its holder.
LEMMA LockExcludes ==
  ASSUME LInv
  PROVE  OneBackup
  <1> SUFFICES ASSUME ~stolen PROVE ~(Cardinality(Holding) > 1)
    BY DEF OneBackup
  <1>1. \A p, q \in Holding : p = q
    <2>1. \A p \in Holding : p \in Procs /\ Running(p)
      BY HoldingIs DEF Holding, Running, At, Holds
    <2>2. \A p, q \in Holding : run[p].pid = run[q].pid
      BY DEF LInv, HolderLocked
    <2>3. QED
      BY <2>1, <2>2 DEF LInv, PidsDiffer
  <1>2. CASE Holding = {}
    BY <1>2, FS_EmptySet
  <1>3. CASE Holding # {}
    <2>1. PICK p : p \in Holding
      BY <1>3
    <2>2. Holding = {p}
      BY <1>1, <2>1
    <2>3. Cardinality({p}) = 1
      BY FS_Singleton
    <2>4. QED
      BY <2>2, <2>3
  <1>4. QED
    BY <1>2, <1>3

\* However the steps of the runs, of a restore and of crashes interleave, and whatever
\* lock each of them finds: two runs are under way at once only if a lock was taken from
\* its holder.  In particular no run that found a pid dead takes a live run's lock but
\* one that was put there since.
THEOREM Exclusive == Spec => []OneBackup
  <1>1. Init => TypeOK /\ LInv
    BY InitTypes, InitLocked, BackupAssumption
  <1>2. TypeOK /\ LInv /\ [Next]_vars => (TypeOK /\ LInv)'
    BY NextTypes, NextLocked, StutterTypes, StutterLocked, BackupAssumption
  <1>3. LInv => OneBackup
    BY LockExcludes
  <1>4. QED
    BY <1>1, <1>2, <1>3, PTL DEF Spec

-----------------------------------------------------------------------------
(* Retention. *)

\* A nonempty set of numbers of runs has a greatest.
LEMMA Greatest ==
  ASSUME BackupAssumption, NEW S \in SUBSET Ran, S # {}
  PROVE  Max(S) \in S /\ \A j \in S : j <= Max(S)
  <1> DEFINE T == {MaxRuns - i : i \in S}
  <1>1. T \subseteq Nat /\ T # {} /\ \A i \in S : i \in Int
    <2>1. MaxRuns \in Nat /\ \A i \in Ran : i \in Int /\ MaxRuns - i \in Nat
      BY DEF Ran, BackupAssumption
    <2>2. \A i \in S : i \in Int /\ MaxRuns - i \in Nat
      BY <2>1
    <2>3. T # {}
      OBVIOUS
    <2>4. QED
      BY <2>2, <2>3
  <1>2. PICK t \in T : \A u \in T : ~(<<u, t>> \in OpToRel(<, Nat))
    BY <1>1, NatLessThanWellFounded, WFMin
  <1>3. \A u \in T : ~(u < t)
    BY <1>1, <1>2 DEF OpToRel
  <1>4. \E i \in S : \A j \in S : i >= j
    <2>1. PICK i \in S : t = MaxRuns - i
      OBVIOUS
    <2>2. \A j \in S : ~(MaxRuns - j < MaxRuns - i)
      BY <1>3, <2>1
    <2>3. QED
      BY <1>1, <2>1, <2>2 DEF BackupAssumption
  <1>5. Max(S) \in S /\ \A j \in S : Max(S) >= j
    BY <1>4 DEF Max
  <1>6. QED
    BY <1>1, <1>5

\* The newest archive is not in the plan.
LEMMA NewestIsKept ==
  ASSUME BackupAssumption, NEW ids \in SUBSET Ran, ids # {}, NEW today
  PROVE  Max(ids) \in ids \ PlanPrune(ids, today)
  <1>1. Max(ids) \in ids /\ \A j \in ids : j <= Max(ids)
    BY Greatest
  <1>2. {j \in ids : j > Max(ids)} = {}
    <2>1. \A j \in ids : j \in Int
      BY DEF Ran
    <2>2. \A j \in ids : ~(j > Max(ids))
      BY <1>1, <2>1
    <2>3. QED
      BY <2>2
  <1>3. Newer(ids, Max(ids)) = 0
    BY <1>2, FS_EmptySet DEF Newer
  <1>4. QED
    BY <1>1, <1>3 DEF PlanPrune

\* What a prune is about to delete is older than an archive that a prune counts on.
DoomedOlder ==
  \A p \in Procs : At(p, "prune") => \A i \in run[p].doomed : \E j \in counted : j > i

\* The newest archive that any prune has counted on is there.
NewestStays ==
  ~pulled => \A i \in counted : (\A j \in counted : j <= i) => i \in Ids

\* A run that stored its archive and sidecar is past these steps.
DoneLater ==
  /\ \A i \in done : i <= runs
  /\ \A p \in Procs : Running(p) /\ run[p].pid \in done => run[p].pc \in {"list", "prune"}

\* Before the first prune, the archives stay.
StayUncounted ==
  counted = {} => /\ done \subseteq Ids
                  /\ \A p \in Procs : At(p, "sidecar") => run[p].pid \in Ids

PInv == DoomedOlder /\ NewestStays /\ DoneLater /\ StayUncounted

\* A stored backup means a remote that is not empty.
LEMMA PruneKeeps ==
  ASSUME BackupAssumption, TypeOK, PInv
  PROVE  NeverEmptied
  <1> SUFFICES ASSUME done # {}, remote = {}, ~pulled PROVE FALSE
    BY Parts DEF NeverEmptied, StoreTypes
  <1>1. Ids = {}
    BY DEF Ids
  <1>2. counted # {}
    BY <1>1 DEF PInv, StayUncounted
  <1>3. counted \in SUBSET Ran
    BY Parts DEF StoreTypes
  <1>4. Max(counted) \in Ids
    BY <1>2, <1>3, Greatest DEF PInv, NewestStays
  <1>5. QED
    BY <1>1, <1>4

\* Steps that leave the remote alone, and after which no other command prunes.
LEMMA StoreLeft ==
  ASSUME TypeOK, TypeOK', PInv, runs' = runs, UNCHANGED <<remote, counted, pulled>>,
         NEW p \in Procs, NEW S, Onward(p, S), S \cap {"sidecar", "prune"} = {},
         \/ done' = done /\ (run[p].pid \in done => S \subseteq {"list", "prune"})
         \/ /\ done' = done \cup {run[p].pid} /\ S \subseteq {"list"} /\ At(p, "sidecar")
            /\ PidsDiffer
  PROVE  PInv'
  <1>1. \A q \in Procs \ {p} : run'[q] = run[q]
    BY DEF Onward
  <1>2. run'[p] # NoRun => run'[p].pc \in S /\ run'[p].pid = run[p].pid
    BY DEF Onward
  <1>3. ~At(p, "prune")' /\ ~At(p, "sidecar")'
    BY <1>2 DEF At, NoRun
  <1>4. DoomedOlder'
    BY <1>1, <1>3 DEF PInv, DoomedOlder, At
  <1>5. NewestStays'
    BY DEF PInv, NewestStays, Ids
  <1>6. Ids' = Ids
    BY DEF Ids
  <1>7. DoneLater' /\ StayUncounted'
    <2>1. CASE done' = done /\ (run[p].pid \in done => S \subseteq {"list", "prune"})
      <3>1. \A q \in Procs : Running(q)' /\ run'[q].pid \in done' =>
              run'[q].pc \in {"list", "prune"}
        <4>1. \A q \in Procs \ {p} : Running(q)' /\ run'[q].pid \in done' =>
                run'[q].pc \in {"list", "prune"}
          BY <1>1, <2>1 DEF PInv, DoneLater, Running, At
        <4>2. Running(p)' => run'[p].pc \in S /\ run'[p].pid = run[p].pid
          BY <1>2, IdleFactsNext
        <4>3. QED
          BY <4>1, <4>2, <2>1
      <3>2. StayUncounted'
        BY <1>1, <1>3, <1>6, <2>1 DEF PInv, StayUncounted, At
      <3>3. QED
        BY <2>1, <3>1, <3>2 DEF PInv, DoneLater
    <2>2. CASE /\ done' = done \cup {run[p].pid} /\ S \subseteq {"list"} /\ At(p, "sidecar")
               /\ PidsDiffer
      <3>1. Running(p) /\ run[p].pid <= runs
        BY <2>2 DEF PidsDiffer, Running, At
      <3>2. \A q \in Procs : Running(q)' /\ run'[q].pid \in done' =>
              run'[q].pc \in {"list", "prune"}
        <4>1. \A q \in Procs \ {p} : Running(q)' /\ run'[q].pid \in done' =>
                run'[q].pc \in {"list", "prune"}
          BY <1>1, <2>2, <3>1 DEF PInv, DoneLater, PidsDiffer, Running, At
        <4>2. Running(p)' => run'[p].pc \in S
          BY <1>2, IdleFactsNext
        <4>3. QED
          BY <4>1, <4>2, <2>2
      <3>3. StayUncounted'
        BY <1>1, <1>3, <1>6, <2>2 DEF PInv, StayUncounted, At
      <3>4. QED
        BY <2>2, <3>1, <3>2, <3>3 DEF PInv, DoneLater
    <2>3. QED
      BY <2>1, <2>2
  <1>8. QED
    BY <1>4, <1>5, <1>7 DEF PInv

\* The steps that reach neither the remote nor its list.
LEMMA QuietKept ==
  ASSUME TypeOK, TypeOK', PidsDiffer, PInv, NEW p \in Procs,
         \/ TryLock(p) \/ WritePid(p) \/ CheckStale(p) \/ Reclaim(p) \/ Collect(p)
         \/ Fails(p) \/ Sidecar(p) \/ PruneEnds(p) \/ Crash(p)
         \/ \E f \in Files : Read(p, f)
  PROVE  PInv'
  <1>1. /\ Running(p) /\ RunTypes /\ runs' = runs /\ UNCHANGED <<remote, counted, pulled>>
        /\ done' = done \/ (Sidecar(p) /\ Goes(p, "list") /\ done' = done \cup {run[p].pid})
    BY Parts DEF TryLock, WritePid, CheckStale, Reclaim, Collect, Fails, Sidecar, PruneEnds,
                 Crash, Read, Running, At, bounds, store
  <1>2. CASE Ends(p)
    <2>1. Onward(p, {}) /\ done' = done
      <3>1. Onward(p, {}) /\ run'[p].pc = "idle"
        BY <1>1, <1>2, EndsOn DEF NoRun
      <3>2. Sidecar(p) /\ Goes(p, "list") => run'[p].pc = "list"
        BY <1>1, GoesOn
      <3>3. QED
        BY <1>1, <3>1, <3>2
    <2>2. QED
      BY <1>1, <2>1, StoreLeft
  <1>3. CASE Sidecar(p) /\ Goes(p, "list") /\ done' = done \cup {run[p].pid}
    <2>1. Onward(p, {"list"}) /\ At(p, "sidecar")
      BY <1>1, <1>3, GoesOn DEF Sidecar
    <2>2. QED
      BY <1>1, <1>3, <2>1, StoreLeft
  <1>4. CASE ~Ends(p) /\ done' = done /\ ~PruneEnds(p) /\ ~Crash(p) /\ ~Fails(p)
    <2>1. run[p].pid \notin done \/ run[p].pc \in {"list", "prune"}
      BY <1>1 DEF PInv, DoneLater
    <2>2. run[p].pc \notin {"list", "prune"}
      BY <1>1, <1>4 DEF TryLock, WritePid, CheckStale, Reclaim, Collect, Fails, Sidecar,
                        PruneEnds, Crash, Read, At
    <2>3. \E S : Onward(p, S) /\ S \cap {"sidecar", "prune"} = {}
      <3>1. CASE TryLock(p) \/ WritePid(p) \/ Reclaim(p)
        <4>1. PICK pc \in {"write", "stale", "collect", "lock"} : Goes(p, pc)
          BY <1>4, <3>1 DEF TryLock, WritePid, Reclaim
        <4>2. Onward(p, {pc}) /\ {pc} \cap {"sidecar", "prune"} = {}
          BY <1>1, <4>1, GoesOn
        <4>3. QED
          BY <4>2
      <3>2. CASE CheckStale(p)
        <4>1. Onward(p, {"reclaim"}) /\ {"reclaim"} \cap {"sidecar", "prune"} = {}
          BY <3>2, CheckStaleOn
        <4>2. QED
          BY <4>1
      <3>3. CASE Collect(p) \/ \E f \in Files : Read(p, f)
        <4>1. Onward(p, {"read"}) /\ {"read"} \cap {"sidecar", "prune"} = {}
          BY <3>3, CollectOn, ReadOn
        <4>2. QED
          BY <4>1
      <3>4. CASE Sidecar(p)
        <4>1. Goes(p, "orphan") \/ Goes(p, "list")
          BY <3>4 DEF Sidecar
        <4>2. PICK pc \in {"orphan", "list"} : Goes(p, pc)
          BY <4>1
        <4>3. Onward(p, {pc}) /\ {pc} \cap {"sidecar", "prune"} = {}
          BY <1>1, <4>2, GoesOn
        <4>4. QED
          BY <4>3
      <3>5. QED
        BY <1>4, <3>1, <3>2, <3>3, <3>4
    <2>4. PICK S : Onward(p, S) /\ S \cap {"sidecar", "prune"} = {}
      BY <2>3
    <2>5. QED
      BY <1>1, <1>4, <2>1, <2>2, <2>4, StoreLeft
  <1>5. QED
    BY <1>1, <1>2, <1>3, <1>4 DEF PruneEnds, Crash, Fails

\* A new command has a pid that no stored archive has.
LEMMA BeginKept ==
  ASSUME TypeOK, TypeOK', PInv, NEW p \in Procs, Begin(p)
  PROVE  PInv'
  <1>1. PICK pc \in {"lock", "list"} :
          run' = [run EXCEPT ![p] = [pc |-> pc, pid |-> runs + 1, locks |-> (pc = "lock"),
                                     sure |-> FALSE, saw |-> 0, era |-> era, left |-> {},
                                     copy |-> Bare, doomed |-> {}]]
    BY DEF Begin
  <1>2. /\ run'[p].pc = pc /\ run'[p].pid = runs + 1
        /\ \A q \in Procs \ {p} : run'[q] = run[q]
    BY <1>1, Parts DEF RunTypes
  <1>3. /\ runs \in Nat /\ runs' = runs + 1 /\ done \subseteq Ran
        /\ UNCHANGED <<remote, done, counted, pulled>>
    BY Parts DEF BoundTypes, StoreTypes, Begin, store
  <1>4. Ids' = Ids
    BY <1>3 DEF Ids
  <1>5. \A i \in done : i \in Int
    BY <1>3 DEF Ran
  <1>6. DoomedOlder' /\ NewestStays'
    BY <1>2, <1>3, <1>4 DEF PInv, DoomedOlder, NewestStays, At
  <1>7. DoneLater'
    <2>1. \A i \in done : i <= runs + 1 /\ i # runs + 1
      BY <1>3, <1>5 DEF PInv, DoneLater
    <2>2. \A q \in Procs : Running(q)' /\ run'[q].pid \in done =>
            run'[q].pc \in {"list", "prune"}
      BY <1>2, <2>1 DEF PInv, DoneLater, Running, At
    <2>3. QED
      BY <1>3, <2>1, <2>2 DEF DoneLater
  <1>8. StayUncounted'
    BY <1>2, <1>3, <1>4 DEF PInv, StayUncounted, At
  <1>9. QED
    BY <1>6, <1>7, <1>8 DEF PInv

LEMMA UploadKept ==
  ASSUME TypeOK, TypeOK', PInv, NEW p \in Procs, Upload(p)
  PROVE  PInv'
  <1>1. Running(p) /\ RunTypes /\ runs' = runs /\ UNCHANGED <<done, counted, pulled>>
    BY Parts DEF Upload, Running, At, bounds
  <1>2. /\ run'[p].pc = "sidecar" /\ run'[p].pid = run[p].pid
        /\ \A q \in Procs \ {p} : run'[q] = run[q]
    BY <1>1, GoesOn DEF Upload, Onward
  <1>3. Ids \subseteq Ids' /\ run[p].pid \in Ids'
    <2> DEFINE a == [id |-> run[p].pid, tree |-> run[p].copy]
    <2>1. remote \subseteq remote' /\ a \in remote' /\ a.id = run[p].pid
      BY DEF Upload
    <2> HIDE DEF a
    <2>2. QED
      BY <2>1 DEF Ids
  <1>4. DoomedOlder' /\ NewestStays'
    BY <1>1, <1>2, <1>3 DEF PInv, DoomedOlder, NewestStays, At
  <1>5. DoneLater'
    <2>1. run[p].pid \notin done
      BY <1>1 DEF PInv, DoneLater, Upload, At
    <2>2. QED
      BY <1>1, <1>2, <2>1 DEF PInv, DoneLater, Running, At
  <1>6. StayUncounted'
    BY <1>1, <1>2, <1>3 DEF PInv, StayUncounted, At
  <1>7. QED
    BY <1>4, <1>5, <1>6 DEF PInv

\* An archive that is taken back was not stored, and a prune that counted on it is told.
LEMMA OrphanKept ==
  ASSUME TypeOK, TypeOK', PidsDiffer, PInv, NEW p \in Procs, Orphan(p)
  PROVE  PInv'
  <1>1. /\ Running(p) /\ RunTypes /\ runs' = runs /\ UNCHANGED <<done, counted>>
        /\ Ends(p)
    BY Parts DEF Orphan, Running, At
  <1>2. run'[p] = NoRun /\ \A q \in Procs \ {p} : run'[q] = run[q]
    BY <1>1, EndsOn DEF Onward
  <1>3. CASE UNCHANGED <<remote, pulled>>
    <2>1. Onward(p, {})
      BY <1>1, EndsOn
    <2>2. QED
      BY <1>1, <1>3, <2>1, StoreLeft
  <1>4. CASE /\ remote' = {a \in remote : a.id # run[p].pid}
             /\ pulled' = (pulled \/ run[p].pid \in counted)
    <2>1. Ids' = Ids \ {run[p].pid}
      BY <1>4 DEF Ids
    <2>2. DoomedOlder'
      BY <1>1, <1>2 DEF PInv, DoomedOlder, At, NoRun
    <2>3. NewestStays'
      BY <1>1, <1>4, <2>1 DEF PInv, NewestStays
    <2>4. DoneLater'
      BY <1>1, <1>2 DEF PInv, DoneLater, Running, At, NoRun
    <2>5. StayUncounted'
      <3>1. run[p].pid \notin done
        BY <1>1 DEF PInv, DoneLater, Orphan, At
      <3>2. \A q \in Procs : At(q, "sidecar")' =>
              At(q, "sidecar") /\ run'[q] = run[q] /\ run[q].pid # run[p].pid
        BY <1>1, <1>2 DEF PidsDiffer, Running, At, NoRun
      <3>3. QED
        BY <1>1, <2>1, <3>1, <3>2 DEF PInv, StayUncounted, At
    <2>6. QED
      BY <2>2, <2>3, <2>4, <2>5 DEF PInv
  <1>5. QED
    BY <1>3, <1>4 DEF Orphan

\* Whatever a plan dooms, it counts on the newest archive that was there.
LEMMA ListKept ==
  ASSUME BackupAssumption, TypeOK, TypeOK', PInv, NEW p \in Procs, List(p)
  PROVE  PInv'
  <1> DEFINE plan == PlanPrune(Ids, runs)
  <1>1. /\ Running(p) /\ RunTypes /\ runs' = runs /\ UNCHANGED <<remote, done, pulled>>
        /\ run[p].pc = "list"
    BY Parts DEF List, Running, At, bounds
  <1>2. CASE Ends(p) /\ UNCHANGED counted
    <2>1. Onward(p, {})
      BY <1>1, <1>2, EndsOn
    <2>2. QED
      BY <1>1, <1>2, <2>1, StoreLeft
  <1>3. CASE /\ run' = [run EXCEPT ![p].pc = "prune", ![p].doomed = plan]
             /\ counted' = counted \cup (Ids \ plan)
    <2>1. Onward(p, {"prune"}) /\ (run'[p] = NoRun \/ run'[p].doomed = plan)
      BY ListOn
    <2> HIDE DEF plan
    <2>2. \A q \in Procs \ {p} : run'[q] = run[q]
      BY <2>1 DEF Onward
    <2>3. Ids' = Ids /\ Ids \in SUBSET Ran /\ counted' \in SUBSET Ran /\ counted \in SUBSET Ran
      BY <1>1, Parts, PartsNext DEF Ids, StoreTypes
    <2>4. \A i \in Ids : i \in plan => \E j \in Ids \ plan : j > i
      <3> SUFFICES ASSUME NEW i \in Ids, i \in plan PROVE \E j \in Ids \ plan : j > i
        OBVIOUS
      <3>1. Max(Ids) \in Ids \ plan
        BY <2>3, NewestIsKept DEF plan
      <3>2. i <= Max(Ids) /\ i # Max(Ids)
        BY <2>3, <3>1, Greatest
      <3>3. i \in Int /\ Max(Ids) \in Int
        <4>1. \A n \in Ran : n \in Int
          BY DEF Ran
        <4>2. QED
          BY <2>3, <3>1, <4>1
      <3>4. Max(Ids) > i
        BY <3>2, <3>3
      <3>5. QED
        BY <3>1, <3>4
    <2>5. plan \subseteq Ids
      BY DEF plan, PlanPrune
    <2>6. DoomedOlder'
      <3>1. At(p, "prune")' => run'[p].doomed = plan
        BY <2>1 DEF At, NoRun
      <3>2. \A i \in plan : \E j \in counted' : j > i
        BY <1>3, <2>4, <2>5
      <3>3. \A q \in Procs \ {p} : At(q, "prune")' =>
              \A i \in run'[q].doomed : \E j \in counted' : j > i
        BY <1>3, <2>2 DEF PInv, DoomedOlder, At
      <3>4. QED
        BY <3>1, <3>2, <3>3 DEF DoomedOlder
    <2>7. NewestStays'
      BY <1>1, <1>3, <2>3 DEF PInv, NewestStays
    <2>8. DoneLater'
      <3>1. Running(p)' => run'[p].pc = "prune"
        BY <2>1, IdleFactsNext DEF Onward
      <3>2. QED
        BY <1>1, <2>2, <3>1 DEF PInv, DoneLater, Running, At
    <2>9. StayUncounted'
      <3>1. counted' = {} => counted = {}
        BY <1>3
      <3>2. ~At(p, "sidecar")'
        BY <2>1 DEF Onward, At, NoRun
      <3>3. QED
        BY <1>1, <2>2, <2>3, <3>1, <3>2 DEF PInv, StayUncounted, At
    <2>10. QED
      BY <2>6, <2>7, <2>8, <2>9 DEF PInv
  <1>4. QED
    BY <1>2, <1>3 DEF List

\* What is deleted is older than an archive that a prune counted on.
LEMMA DeleteKept ==
  ASSUME BackupAssumption, TypeOK, TypeOK', PInv, NEW p \in Procs, Delete(p)
  PROVE  PInv'
  <1> DEFINE id == Max(run[p].doomed)
  <1>1. /\ Running(p) /\ RunTypes /\ runs' = runs /\ UNCHANGED <<done, counted, pulled>>
        /\ run[p].pc = "prune" /\ run[p].doomed # {}
        /\ remote' = {a \in remote : a.id # id}
    BY Parts DEF Delete, Running, At, bounds
  <1>2. id \in run[p].doomed /\ id \in Ran
    BY <1>1, RunFacts, Greatest DEF Running
  <1>3. Onward(p, {"prune"}) /\ run'[p].doomed \subseteq run[p].doomed
    BY DeleteOn
  <1> HIDE DEF id
  <1>4. PICK j \in counted : j > id
    BY <1>1, <1>2 DEF PInv, DoomedOlder, At
  <1>5. Ids' = Ids \ {id}
    BY <1>1 DEF Ids
  <1>6. \A q \in Procs \ {p} : run'[q] = run[q]
    BY <1>3 DEF Onward
  <1>7. DoomedOlder'
    BY <1>1, <1>3, <1>6 DEF PInv, DoomedOlder, At
  <1>8. NewestStays'
    <2>1. \A i \in Ran : i \in Int
      BY DEF Ran
    <2>2. j \in Int /\ id \in Int
      BY <1>2, <1>4, <2>1, Parts DEF StoreTypes
    <2>3. ~(j <= id)
      BY <1>4, <2>2
    <2>4. QED
      BY <1>1, <1>5, <2>3 DEF PInv, NewestStays
  <1>9. DoneLater'
    <2>1. Running(p)' => run'[p].pc = "prune"
      BY <1>3, IdleFactsNext DEF Onward
    <2>2. QED
      BY <1>1, <1>6, <2>1 DEF PInv, DoneLater, Running, At
  <1>10. StayUncounted'
    BY <1>1, <1>4 DEF StayUncounted
  <1>11. QED
    BY <1>7, <1>8, <1>9, <1>10 DEF PInv

\* Edits and restores change neither the remote nor the commands.
LEMMA OthersKept ==
  ASSUME PInv, UNCHANGED <<run, runs, remote, done, counted, pulled>>
  PROVE  PInv'
  BY DEF PInv, DoomedOlder, NewestStays, DoneLater, StayUncounted, Running, At, Ids

LEMMA NextKept ==
  ASSUME BackupAssumption, TypeOK, LInv, PInv, Next
  PROVE  PInv'
  <1>1. TypeOK' /\ PidsDiffer
    BY NextTypes DEF LInv
  <1>2. ASSUME NEW p \in Procs, BackupStep(p) PROVE PInv'
    <2>1. CASE \/ TryLock(p) \/ WritePid(p) \/ CheckStale(p) \/ Reclaim(p) \/ Collect(p)
               \/ Fails(p) \/ Sidecar(p) \/ PruneEnds(p) \/ Crash(p)
               \/ \E f \in Files : Read(p, f)
      BY <1>1, <2>1, QuietKept
    <2>2. CASE Begin(p) \/ Upload(p) \/ Orphan(p) \/ List(p) \/ Delete(p)
      BY <1>1, <2>2, BeginKept, UploadKept, OrphanKept, ListKept, DeleteKept
    <2>3. QED
      BY <1>2, <2>1, <2>2 DEF BackupStep
  <1>3. ASSUME NEW f \in Files, NEW c \in Held, Edit(f, c) PROVE PInv'
    BY <1>3, OthersKept DEF Edit, store
  <1>4. CASE RestoreStep
    <2>1. UNCHANGED <<run, runs, remote, done, counted, pulled>>
      BY <1>4 DEF RestoreStep, Fetch, Gate, MoveAside, MoveIn, MoveBack, RestoreStops, store,
                  bounds
    <2>2. QED
      BY <2>1, OthersKept
  <1>5. QED
    BY <1>2, <1>3, <1>4 DEF Next

LEMMA InitKept ==
  ASSUME Init
  PROVE  PInv
  BY DEF Init, PInv, DoomedOlder, NewestStays, DoneLater, StayUncounted, Running, At, NoRun

\* "The newest snapshot is always kept", for every number of commands that back up and
\* prune at once, each on the list it read: the remote never becomes empty again once a
\* backup is stored, unless a run takes its own archive back that a prune counted on.
THEOREM NewestKept == Spec => []NeverEmptied
  <1>1. Init => TypeOK /\ LInv /\ PInv
    BY InitTypes, InitLocked, InitKept, BackupAssumption
  <1>2. TypeOK /\ LInv /\ PInv /\ [Next]_vars => (TypeOK /\ LInv /\ PInv)'
    <2>1. ASSUME TypeOK, LInv, PInv, UNCHANGED vars PROVE PInv'
      BY <2>1, OthersKept DEF vars, bounds, store
    <2>2. QED
      BY <2>1, NextTypes, NextLocked, NextKept, StutterTypes, StutterLocked, BackupAssumption
  <1>3. TypeOK /\ PInv => NeverEmptied
    BY PruneKeeps, BackupAssumption
  <1>4. QED
    BY <1>1, <1>2, <1>3, PTL DEF Spec
=============================================================================
