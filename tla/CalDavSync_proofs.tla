------------------------- MODULE CalDavSync_proofs -------------------------
(***************************************************************************)
(* Proofs about CalDavSync, for every collection, every set of bodies and  *)
(* every number of lost messages.                                          *)
(***************************************************************************)
EXTENDS CalDavSync, TLAPS

USE NoneAssumption, CalDavAssumption

Ops == [item : Items, half : {1, 2}, kind : TwoWayKinds]

First(s, o) == o \in s.todo /\ \A p \in s.todo \ {o} : Precedes(o, p)

Unlinked(l) == l # None /\ l.at = None

\* What the pass relies on between a request and the write after its reply.
OpOK(s, o) ==
  /\ o.kind = "Push" => s.loaded[o.item] # None
  /\ o.half = 1 /\ Unlinked(s.loaded[o.item]) => o.kind = "Push"
  /\ o.half = 2 => o.kind = "Pull"
  /\ s.phase = "stamp" /\ First(s, o) => o.kind = "Push"
  /\ s.phase = "store" /\ First(s, o) => o.kind = "Pull"

IInv ==
  /\ TypeOK
  /\ pass.phase \in {"list", "done"} => pass.todo = {}
  /\ \A o \in pass.todo : OpOK(pass, o)
  /\ pass.phase = "store" => pass.reply \in Bodies
  /\ Running => pass.coll \in Collections

-----------------------------------------------------------------------------
(* Lemmas about the planner. *)

\* What plan_sync asks for.
LEMMA TwoWayPlanOK ==
  ASSUME NEW c \in Collections, NEW locals \in [Items -> Option(Copy)],
         NEW remotes \in [Items -> Option(Bodies)],
         NEW o \in TwoWayPlan(c, locals, remotes)
  PROVE  /\ o \in Ops
         /\ o.kind = "Push" => locals[o.item] # None
         /\ o.half = 1 /\ Unlinked(locals[o.item]) => o.kind = "Push"
         /\ o.half = 2 => o.kind = "Pull"
         /\ locals[o.item] # None \/ remotes[o.item] # None
<1> DEFINE here(i) == locals[i] # None /\ locals[i].at = c
           op(i) == TwoWayOp(locals[i], IF here(i) THEN remotes[i] ELSE None)
<1>1. CASE \E i \in Items : /\ locals[i] # None /\ op(i) # "Nothing"
                            /\ o = [item |-> i, half |-> 1, kind |-> op(i)]
  <2> PICK i \in Items : /\ locals[i] # None /\ op(i) # "Nothing"
                         /\ o = [item |-> i, half |-> 1, kind |-> op(i)]
    BY <1>1
  <2>1. /\ op(i) \in TwoWayKinds
        /\ locals[i].at = None => op(i) = "Push"
    BY DEF TwoWayOp, TwoWayKinds
  <2> HIDE DEF op
  <2> QED
    BY <2>1 DEF Ops, Unlinked
<1>2. CASE \E i \in Items : /\ remotes[i] # None
                            /\ o = [item |-> i, half |-> 2, kind |-> "Pull"]
  BY <1>2 DEF Ops, TwoWayKinds
<1> QED
  BY <1>1, <1>2 DEF TwoWayPlan

\* A file that was never linked is planned for upload.
LEMMA UnlinkedIsPushed ==
  ASSUME NEW c \in Collections, NEW locals \in [Items -> Option(Copy)],
         NEW remotes \in [Items -> Option(Bodies)],
         NEW i \in Items, Unlinked(locals[i])
  PROVE  [item |-> i, half |-> 1, kind |-> "Push"] \in TwoWayPlan(c, locals, remotes)
<1>1. \A listed : TwoWayOp(locals[i], listed) = "Push"
  BY DEF TwoWayOp, Unlinked
<1> QED
  BY <1>1 DEF TwoWayPlan, Unlinked

\* Operations that are done leave the others as they were.
LEMMA OnwardOK ==
  ASSUME NEW s, NEW t, \A o \in s.todo : OpOK(s, o), t.todo \subseteq s.todo,
         t.loaded = s.loaded, t.phase \in {"ops", "done", "failed"}
  PROVE  \A o \in t.todo : OpOK(t, o)
BY DEF OpOK

-----------------------------------------------------------------------------
(* The invariant. *)

LEMMA InitOK == Init => IInv
<1> SUFFICES ASSUME Init PROVE IInv
  OBVIOUS
<1>1. /\ pass.phase = "done" /\ pass.todo = {}
      /\ pass \in [coll : Option(Collections), phase : Phases,
                   loaded : [Items -> Option(Copy)], todo : SUBSET Ops,
                   reply : Option(Bodies)]
  BY DEF Init, NoFiles, Phases, Option
<1>2. /\ local \in [Items -> Option(Copy)]
      /\ server \in [Collections -> [Items -> Option(Bodies)]]
      /\ held \in [Items -> SUBSET Bodies]
      /\ kept \in [Collections -> [Items -> SUBSET Bodies]]
  BY DEF Init, NoFiles, Option
<1>3. edits \in 0..MaxEdits /\ faults \in 0..MaxFaults
  BY DEF Init
<1>4. calm \in BOOLEAN
  BY DEF Init
<1>5. setup \in Setups /\ queue \subseteq Collections
  BY DEF Init
<1>6. TypeOK
  BY <1>1, <1>2, <1>3, <1>4, <1>5 DEF TypeOK, Ops
<1> QED
  BY <1>1, <1>6 DEF IInv, Running

\* What the users' steps leave alone.
LEMMA UserFrame ==
  ASSUME UserStep
  PROVE  UNCHANGED <<setup, queue, pass, faults>> /\ UserActs
BY DEF UserStep, LocalDelete, PairingLinks, ServerDelete, LocalCreate, LocalEdit,
       ServerWrite, LocalUserActs

\* A file of the client's vault written by its user.
LEMMA LocalWriteOK ==
  ASSUME TypeOK, NEW i \in Items, NEW copy \in Option(Copy),
         local' = [local EXCEPT ![i] = copy]
  PROVE  local' \in [Items -> Option(Copy)]
BY DEF TypeOK

LEMMA HoldingOK ==
  ASSUME TypeOK, NEW i \in Items, NEW b \in Bodies, Holding(i, b)
  PROVE  held' \in [Items -> SUBSET Bodies]
BY DEF TypeOK, Holding

LEMMA ServerPutOK ==
  ASSUME TypeOK, NEW c \in Collections, NEW i \in Items, NEW b \in Bodies,
         server' = [server EXCEPT ![c][i] = b],
         kept' = [kept EXCEPT ![c][i] = @ \cup {b}]
  PROVE  /\ server' \in [Collections -> [Items -> Option(Bodies)]]
         /\ kept' \in [Collections -> [Items -> SUBSET Bodies]]
<1>1. server' \in [Collections -> [Items -> Option(Bodies)]]
  BY DEF TypeOK, Option
<1>2. kept' \in [Collections -> [Items -> SUBSET Bodies]]
  BY DEF TypeOK
<1> QED
  BY <1>1, <1>2

LEMMA UserFiles ==
  ASSUME TypeOK, UserStep
  PROVE  /\ local' \in [Items -> Option(Copy)]
         /\ server' \in [Collections -> [Items -> Option(Bodies)]]
         /\ held' \in [Items -> SUBSET Bodies]
         /\ kept' \in [Collections -> [Items -> SUBSET Bodies]]
<1>0. /\ local \in [Items -> Option(Copy)]
      /\ server \in [Collections -> [Items -> Option(Bodies)]]
      /\ held \in [Items -> SUBSET Bodies]
      /\ kept \in [Collections -> [Items -> SUBSET Bodies]]
  BY DEF TypeOK
<1>1. ASSUME NEW i \in Items, LocalDelete(i)
      PROVE  local' \in [Items -> Option(Copy)] /\ UNCHANGED <<server, held, kept>>
  <2>1. local' = [local EXCEPT ![i] = None] /\ None \in Option(Copy)
    BY <1>1 DEF LocalDelete, Option
  <2>2. local' \in [Items -> Option(Copy)]
    BY <2>1, LocalWriteOK
  <2> QED
    BY <1>1, <2>2 DEF LocalDelete, LocalUserActs
<1>2. ASSUME NEW i \in Items, PairingLinks(i)
      PROVE  local' \in [Items -> Option(Copy)] /\ UNCHANGED <<server, held, kept>>
  <2>1. local[i] \in Copy
    BY <1>0, <1>2 DEF PairingLinks, Option
  <2>2. [local[i] EXCEPT !.at = Hub, !.etag = local[i].body] \in Option(Copy)
    BY <2>1 DEF Copy, Option
  <2>3. local' = [local EXCEPT ![i] = [local[i] EXCEPT !.at = Hub, !.etag = local[i].body]]
    BY <1>0, <1>2 DEF PairingLinks
  <2>4. local' \in [Items -> Option(Copy)]
    BY <2>2, <2>3, LocalWriteOK
  <2> QED
    BY <1>2, <2>4 DEF PairingLinks, LocalUserActs
<1>3. ASSUME NEW i \in Items, NEW b \in Bodies, LocalCreate(i, b)
      PROVE  /\ local' \in [Items -> Option(Copy)] /\ held' \in [Items -> SUBSET Bodies]
             /\ UNCHANGED <<server, kept>>
  <2>1. [body |-> b, at |-> None, etag |-> None] \in Option(Copy)
    BY DEF Copy, Option
  <2>2. local' \in [Items -> Option(Copy)]
    BY <1>3, <2>1, LocalWriteOK DEF LocalCreate
  <2> QED
    BY <1>3, <2>2, HoldingOK DEF LocalCreate, LocalUserActs
<1>4. ASSUME NEW i \in Items, NEW b \in Bodies, LocalEdit(i, b)
      PROVE  /\ local' \in [Items -> Option(Copy)] /\ held' \in [Items -> SUBSET Bodies]
             /\ UNCHANGED <<server, kept>>
  <2>1. local[i] \in Copy
    BY <1>0, <1>4 DEF LocalEdit, Option
  <2>2. [local[i] EXCEPT !.body = b] \in Option(Copy)
    BY <2>1 DEF Copy, Option
  <2>3. local' = [local EXCEPT ![i] = [local[i] EXCEPT !.body = b]]
    BY <1>0, <1>4 DEF LocalEdit
  <2>4. local' \in [Items -> Option(Copy)]
    BY <2>2, <2>3, LocalWriteOK
  <2> QED
    BY <1>4, <2>4, HoldingOK DEF LocalEdit, LocalUserActs
<1>5. ASSUME NEW c \in Collections, NEW i \in Items, NEW b \in Bodies, ServerWrite(c, i, b)
      PROVE  /\ server' \in [Collections -> [Items -> Option(Bodies)]]
             /\ kept' \in [Collections -> [Items -> SUBSET Bodies]]
             /\ UNCHANGED <<local, held>>
  BY <1>0, <1>5, ServerPutOK DEF ServerWrite
<1>6. ASSUME NEW c \in Collections, NEW i \in Items, ServerDelete(c, i)
      PROVE  /\ server' \in [Collections -> [Items -> Option(Bodies)]]
             /\ UNCHANGED <<local, held, kept>>
  BY <1>0, <1>6 DEF ServerDelete, Option
<1> QED
  BY <1>0, <1>1, <1>2, <1>3, <1>4, <1>5, <1>6 DEF UserStep

LEMMA UserOK ==
  ASSUME IInv, UserStep
  PROVE  IInv'
<1>0. TypeOK
  BY DEF IInv
<1>1. UNCHANGED <<setup, queue, pass, faults>> /\ UserActs
  BY UserFrame
<1>2. edits' \in 0..MaxEdits
  BY <1>0, <1>1 DEF UserActs, TypeOK
<1>3. calm' \in BOOLEAN
  BY <1>1 DEF UserActs
<1>4. TypeOK'
  BY <1>0, <1>1, <1>2, <1>3, UserFiles DEF TypeOK
<1> QED
  BY <1>1, <1>4 DEF IInv, Running

\* A step that takes the pass from pass to pass'.
LEMMA StepTo ==
  ASSUME TypeOK,
         pass' \in [coll : Option(Collections), phase : Phases,
                    loaded : [Items -> Option(Copy)],
                    todo : SUBSET Ops, reply : Option(Bodies)],
         local' \in [Items -> Option(Copy)], server' \in [Collections -> [Items -> Option(Bodies)]],
         held' \in [Items -> SUBSET Bodies], kept' \in [Collections -> [Items -> SUBSET Bodies]],
         edits' = edits, faults' \in 0..MaxFaults, calm' \in BOOLEAN,
         setup' = setup, queue' \subseteq Collections
  PROVE  TypeOK'
BY DEF TypeOK, Ops

\* The operation the pass is at, and what becomes of the others.
LEMMA TheOp ==
  ASSUME IInv, NEW o \in pass.todo
  PROVE  /\ o \in Ops /\ OpOK(pass, o)
         /\ pass.loaded \in [Items -> Option(Copy)]
         /\ At(o) => First(pass, o)
BY DEF IInv, TypeOK, Ops, At, First

LEMMA FinishedOK ==
  ASSUME IInv, NEW o \in pass.todo, At(o), pass.phase \in {"ops", "stamp", "store"},
         pass' = Finished(o),
         local' \in [Items -> Option(Copy)], held' \in [Items -> SUBSET Bodies],
         UNCHANGED <<setup, server, queue, edits, faults, calm, kept>>
  PROVE  IInv'
<1>1. /\ pass'.phase = "ops" /\ pass'.loaded = pass.loaded /\ pass'.todo = pass.todo \ {o}
      /\ pass'.coll = pass.coll
      /\ pass' \in [coll : Option(Collections), phase : Phases,
                    loaded : [Items -> Option(Copy)], todo : SUBSET Ops,
                    reply : Option(Bodies)]
  BY DEF Finished, IInv, TypeOK, Ops, Phases, Option
<1>2. TypeOK'
  BY <1>1, StepTo DEF IInv, TypeOK
<1>3. \A x \in pass'.todo : OpOK(pass', x)
  BY <1>1, OnwardOK DEF IInv
<1>4. pass'.coll \in Collections
  BY <1>1 DEF IInv, Running
<1> QED
  BY <1>1, <1>2, <1>3, <1>4 DEF IInv

LEMMA FailOK ==
  ASSUME IInv, Fail, UNCHANGED <<setup, local, edits, held>>,
         server' \in [Collections -> [Items -> Option(Bodies)]],
         kept' \in [Collections -> [Items -> SUBSET Bodies]],
         faults' \in 0..MaxFaults, calm' \in BOOLEAN
  PROVE  IInv'
<1>1. /\ pass'.phase = "failed" /\ pass'.loaded = pass.loaded /\ pass'.todo = pass.todo
      /\ pass' \in [coll : Option(Collections), phase : Phases,
                    loaded : [Items -> Option(Copy)], todo : SUBSET Ops,
                    reply : Option(Bodies)]
      /\ queue' \subseteq Collections
  BY DEF Fail, IInv, TypeOK, Ops, Phases
<1>2. TypeOK'
  BY <1>1, StepTo DEF IInv, TypeOK
<1>3. \A x \in pass'.todo : OpOK(pass', x)
  BY <1>1, OnwardOK DEF IInv
<1> QED
  BY <1>1, <1>2, <1>3 DEF IInv, Running

LEMMA CommandOK ==
  ASSUME IInv, NEW targets \in SUBSET Collections, Command(targets)
  PROVE  IInv'
<1>1. TypeOK'
  BY DEF Command, IInv, TypeOK
<1> QED
  BY <1>1 DEF Command, IInv, Running

LEMMA BeginOK ==
  ASSUME IInv, NEW c \in Collections, BeginPass(c)
  PROVE  IInv'
<1>1. CASE Fail /\ calm' = FALSE
  BY <1>1, FailOK DEF BeginPass, IInv, TypeOK
<1>2. CASE /\ pass' = [coll |-> c, phase |-> "list", loaded |-> Loaded(c), todo |-> {},
                       reply |-> None]
           /\ calm' = TRUE /\ UNCHANGED queue
  <2>1. Loaded(c) \in [Items -> Option(Copy)]
    BY DEF Loaded, IInv, TypeOK, Option
  <2>2. /\ pass'.phase = "list" /\ pass'.todo = {} /\ pass'.coll = c
        /\ pass' \in [coll : Option(Collections), phase : Phases,
                      loaded : [Items -> Option(Copy)], todo : SUBSET Ops,
                      reply : Option(Bodies)]
    BY <1>2, <2>1 DEF Phases, Option
  <2>3. calm' \in BOOLEAN
    BY <1>2
  <2>4. TypeOK'
    BY <1>2, <2>2, <2>3, StepTo DEF BeginPass, IInv, TypeOK
  <2> QED
    BY <2>2, <2>4 DEF IInv
<1> QED
  BY <1>1, <1>2 DEF BeginPass

LEMMA ListedOps ==
  ASSUME IInv, List
  PROVE  \A o \in TwoWayPlan(pass.coll, pass.loaded, server[pass.coll]) :
           /\ o \in Ops
           /\ o.kind = "Push" => pass.loaded[o.item] # None
           /\ o.half = 1 /\ Unlinked(pass.loaded[o.item]) => o.kind = "Push"
           /\ o.half = 2 => o.kind = "Pull"
           /\ pass.loaded[o.item] # None \/ server[pass.coll][o.item] # None
<1> DEFINE c == pass.coll
           locals == pass.loaded
           remotes == server[c]
<1>1. c \in Collections
  BY DEF IInv, Running, List
<1>2. locals \in [Items -> Option(Copy)]
  BY DEF IInv, TypeOK
<1>3. remotes \in [Items -> Option(Bodies)]
  BY <1>1 DEF IInv, TypeOK
<1> SUFFICES ASSUME NEW o \in TwoWayPlan(c, locals, remotes)
             PROVE  /\ o \in Ops
                    /\ o.kind = "Push" => locals[o.item] # None
                    /\ o.half = 1 /\ Unlinked(locals[o.item]) => o.kind = "Push"
                    /\ o.half = 2 => o.kind = "Pull"
                    /\ locals[o.item] # None \/ remotes[o.item] # None
  OBVIOUS
<1> HIDE DEF c, locals, remotes
<1> QED
  BY <1>1, <1>2, <1>3, TwoWayPlanOK

LEMMA ListOK == IInv /\ List => IInv'
<1> SUFFICES ASSUME IInv, List PROVE IInv'
  OBVIOUS
<1> DEFINE plan == TwoWayPlan(pass.coll, pass.loaded, server[pass.coll])
<1>0. pass.coll \in Collections
  BY DEF IInv, Running, List
<1>1. /\ pass.loaded \in [Items -> Option(Copy)]
      /\ server[pass.coll] \in [Items -> Option(Bodies)]
  BY <1>0 DEF IInv, TypeOK
<1>3. \A o \in plan : /\ o \in Ops
                      /\ o.kind = "Push" => pass.loaded[o.item] # None
                      /\ o.half = 1 /\ Unlinked(pass.loaded[o.item]) => o.kind = "Push"
                      /\ o.half = 2 => o.kind = "Pull"
  BY ListedOps
<1>2. plan \in SUBSET Ops
  BY <1>3
<1>4. pass' = [pass EXCEPT !.phase = "ops", !.todo = plan]
  BY DEF List
<1> HIDE DEF plan
<1>5. /\ pass'.phase = "ops" /\ pass'.loaded = pass.loaded /\ pass'.todo = plan
      /\ pass'.coll = pass.coll
      /\ pass' \in [coll : Option(Collections), phase : Phases,
                    loaded : [Items -> Option(Copy)], todo : SUBSET Ops,
                    reply : Option(Bodies)]
  BY <1>2, <1>4 DEF IInv, TypeOK, Phases
<1>6. TypeOK'
  BY <1>5, StepTo DEF List, IInv, TypeOK
<1>7. \A o \in plan : OpOK(pass', o)
  BY <1>3, <1>5 DEF OpOK
<1> QED
  BY <1>0, <1>5, <1>6, <1>7 DEF IInv

\* The first operation has its reply.
LEMMA AwaitOK ==
  ASSUME IInv, NEW o \in pass.todo, First(pass, o), Running, NEW to \in {"stamp", "store"},
         NEW r \in Option(Bodies), pass' = [pass EXCEPT !.phase = to, !.reply = r],
         to = "stamp" => o.kind = "Push",
         to = "store" => o.kind = "Pull" /\ r \in Bodies,
         server' \in [Collections -> [Items -> Option(Bodies)]],
         kept' \in [Collections -> [Items -> SUBSET Bodies]],
         UNCHANGED <<setup, local, queue, edits, faults, calm, held>>
  PROVE  IInv'
<1>1. /\ pass'.phase = to /\ pass'.loaded = pass.loaded /\ pass'.todo = pass.todo
      /\ pass'.reply = r /\ pass'.coll = pass.coll
      /\ pass' \in [coll : Option(Collections), phase : Phases,
                    loaded : [Items -> Option(Copy)],
                    todo : SUBSET Ops, reply : Option(Bodies)]
  BY DEF IInv, TypeOK, Ops, Phases
<1>2. TypeOK'
  BY <1>1, StepTo DEF IInv, TypeOK
<1>3. ASSUME NEW x \in pass'.todo
      PROVE  OpOK(pass', x)
  <2>1. First(pass', x) => x = o
    <3> SUFFICES ASSUME First(pass', x), x # o PROVE FALSE
      OBVIOUS
    <3>1. Precedes(x, o) /\ Precedes(o, x)
      BY <1>1 DEF First
    <3>2. x.item \in Int /\ o.item \in Int /\ x.half \in {1, 2} /\ o.half \in {1, 2}
      BY <1>1, TheOp DEF Ops
    <3> QED
      BY <3>1, <3>2 DEF Precedes
  <2> QED
    BY <1>1, <2>1, TheOp DEF OpOK
<1>4. pass'.coll \in Collections
  BY <1>1 DEF IInv
<1> QED
  BY <1>1, <1>2, <1>3, <1>4 DEF IInv

LEMMA PushOK ==
  ASSUME IInv, NEW o \in pass.todo, Push(o)
  PROVE  IInv'
<1> DEFINE b == pass.loaded[o.item].body
<1>1. o.kind = "Push" /\ First(pass, o) /\ o.item \in Items
  BY TheOp DEF Push, Ops
<1>2. b \in Bodies
  <2>1. pass.loaded[o.item] \in Copy
    BY <1>1, TheOp DEF OpOK, Option
  <2> QED
    BY <2>1 DEF Copy
<1> HIDE DEF b
<1>c. pass.coll \in Collections /\ Running
  BY DEF Push, Running, IInv
<1>3. CASE UNCHANGED <<server, kept, faults, calm>> /\ Fail
  BY <1>3, FailOK DEF Push, IInv, TypeOK
<1>4. CASE Upload(o.item, b)
  <2>1. /\ server' \in [Collections -> [Items -> Option(Bodies)]]
        /\ kept' \in [Collections -> [Items -> SUBSET Bodies]]
    BY <1>1, <1>2, <1>c, <1>4, ServerPutOK DEF Upload, IInv
  <2>2. UNCHANGED <<setup, local, edits, held>>
    BY DEF Push
  <2>3. ASSUME NEW r \in {b, None}, UNCHANGED <<queue, faults, calm>>,
               pass' = [pass EXCEPT !.phase = "stamp", !.reply = r]
        PROVE  IInv'
    <3>1. r \in Option(Bodies)
      BY <1>2, <2>3 DEF Option
    <3> QED
      BY <1>1, <1>c, <2>1, <2>2, <2>3, <3>1, AwaitOK
  <2>4. CASE faults < MaxFaults /\ faults' = faults + 1 /\ calm' = FALSE /\ Fail
    <3>1. faults' \in 0..MaxFaults
      BY <2>4 DEF IInv, TypeOK
    <3>2. calm' \in BOOLEAN
      BY <2>4
    <3> QED
      BY <2>1, <2>2, <2>4, <3>1, <3>2, FailOK
  <2> QED
    BY <1>4, <2>3, <2>4 DEF Upload
<1> QED
  BY <1>3, <1>4 DEF Push, b

LEMMA StampPushedOK ==
  ASSUME IInv, NEW o \in pass.todo, StampPushed(o)
  PROVE  IInv'
<1> PICK b \in Restamped(o.item) :
           /\ local' = [local EXCEPT ![o.item] =
                          [body |-> b, at |-> pass.coll, etag |-> pass.reply]]
           /\ Holding(o.item, b)
  BY DEF StampPushed
<1> DEFINE copy == [body |-> b, at |-> pass.coll, etag |-> pass.reply]
<1>1. pass.loaded[o.item] \in Copy /\ o.item \in Items
  BY TheOp DEF StampPushed, OpOK, Option, Ops
<1>2. b \in Bodies
  BY <1>1 DEF Copy, Restamped
<1>3. pass.reply \in Option(Bodies) /\ pass.coll \in Option(Collections \cup {Hub})
  BY DEF IInv, TypeOK, Option
<1>4. copy \in Copy
  BY <1>2, <1>3 DEF Copy
<1>5. local' = [local EXCEPT ![o.item] = copy] /\ Holding(o.item, b)
  OBVIOUS
<1> HIDE DEF copy
<1>6. local' \in [Items -> Option(Copy)] /\ held' \in [Items -> SUBSET Bodies]
  BY <1>1, <1>2, <1>4, <1>5, LocalWriteOK, HoldingOK DEF IInv, Option
<1> QED
  BY <1>6, FinishedOK DEF StampPushed

LEMMA FetchOK ==
  ASSUME IInv, NEW o \in pass.todo, Fetch(o)
  PROVE  IInv'
<1> DEFINE r == server[pass.coll][o.item]
<1>1. o.kind = "Pull" /\ First(pass, o) /\ o.item \in Items
  BY TheOp DEF Fetch, Ops
<1>c. pass.coll \in Collections /\ Running
  BY DEF Fetch, Running, IInv
<1>f. server[pass.coll] \in [Items -> Option(Bodies)]
  BY <1>c DEF IInv, TypeOK
<1>2. r \in Option(Bodies)
  BY <1>1, <1>f
<1>3. CASE r # None /\ pass' = [pass EXCEPT !.phase = "store", !.reply = r] /\ UNCHANGED queue
  <2>1. r \in Bodies
    BY <1>2, <1>3 DEF Option
  <2>2. /\ UNCHANGED <<setup, local, edits, faults, calm, held>>
        /\ server' \in [Collections -> [Items -> Option(Bodies)]]
        /\ kept' \in [Collections -> [Items -> SUBSET Bodies]]
    BY DEF Fetch, IInv, TypeOK
  <2> HIDE DEF r
  <2> QED
    BY <1>1, <1>c, <1>2, <1>3, <2>1, <2>2, AwaitOK
<1>4. CASE Fail
  BY <1>4, FailOK DEF Fetch, IInv, TypeOK
<1> QED
  BY <1>3, <1>4 DEF Fetch

LEMMA StoreFetchedOK ==
  ASSUME IInv, NEW o \in pass.todo, StoreFetched(o)
  PROVE  IInv'
<1> DEFINE copy == [body |-> pass.reply, at |-> pass.coll, etag |-> pass.reply]
<1>1. pass.reply \in Bodies /\ o.item \in Items
  BY TheOp DEF StoreFetched, IInv, Ops
<1>c. pass.coll \in Option(Collections \cup {Hub})
  BY DEF IInv, TypeOK, Option
<1>2. copy \in Copy
  BY <1>1, <1>c DEF Copy, Option
<1>3. CASE /\ local' = [local EXCEPT ![o.item] = copy] /\ Holding(o.item, pass.reply)
           /\ pass' = Finished(o) /\ UNCHANGED queue
  <2> HIDE DEF copy
  <2>1. local' \in [Items -> Option(Copy)] /\ held' \in [Items -> SUBSET Bodies]
    BY <1>1, <1>2, <1>3, LocalWriteOK, HoldingOK DEF IInv, Option
  <2> QED
    BY <1>3, <2>1, FinishedOK DEF StoreFetched
<1>4. CASE pass' = Finished(o) /\ UNCHANGED <<local, queue, held>>
  BY <1>4, FinishedOK DEF StoreFetched, IInv, TypeOK
<1>5. CASE Fail /\ UNCHANGED <<local, held>>
  BY <1>5, FailOK DEF StoreFetched, IInv, TypeOK
<1> QED
  BY <1>3, <1>4, <1>5 DEF StoreFetched, Store

LEMMA DeleteLocalFileOK ==
  ASSUME IInv, NEW o \in pass.todo, DeleteLocalFile(o)
  PROVE  IInv'
<1>1. local' \in [Items -> Option(Copy)] /\ held' \in [Items -> SUBSET Bodies]
  BY DEF DeleteLocalFile, IInv, TypeOK, Option
<1> QED
  BY <1>1, FinishedOK DEF DeleteLocalFile

LEMMA EndPassOK == IInv /\ EndPass => IInv'
<1> SUFFICES ASSUME IInv, EndPass PROVE IInv'
  OBVIOUS
<1>1. /\ pass'.phase = "done" /\ pass'.todo = {}
      /\ pass' \in [coll : Option(Collections), phase : Phases,
                    loaded : [Items -> Option(Copy)], todo : SUBSET Ops,
                    reply : Option(Bodies)]
      /\ queue' \subseteq Collections
  BY DEF EndPass, IInv, TypeOK, Ops, Phases
<1>2. TypeOK'
  BY <1>1, StepTo DEF EndPass, IInv, TypeOK
<1> QED
  BY <1>1, <1>2 DEF IInv, Running

LEMMA LoseRequestOK ==
  ASSUME IInv, LoseRequest
  PROVE  IInv'
<1>1. faults' \in 0..MaxFaults
  BY DEF LoseRequest, IInv, TypeOK
<1>2. calm' \in BOOLEAN
  BY DEF LoseRequest
<1> QED
  BY <1>1, <1>2, FailOK DEF LoseRequest, IInv, TypeOK

\* The steps of a pass, one by one.
LEMMA PassSteps ==
  ASSUME PassStep
  PROVE  \/ \E targets \in SUBSET Collections : Command(targets)
         \/ \E c \in Collections : BeginPass(c)
         \/ List
         \/ \E o \in pass.todo :
              Push(o) \/ StampPushed(o) \/ Fetch(o) \/ StoreFetched(o) \/ DeleteLocalFile(o)
         \/ EndPass
<1>1. {Collections} \cup {{c} : c \in Collections} \subseteq SUBSET Collections
  OBVIOUS
<1> QED
  BY <1>1 DEF PassStep

LEMMA StepOK == IInv /\ [Next]_vars => IInv'
<1> SUFFICES ASSUME IInv, [Next]_vars PROVE IInv'
  OBVIOUS
<1>1. CASE UserStep
  BY <1>1, UserOK
<1>2. CASE PassStep
  BY <1>2, PassSteps, CommandOK, BeginOK, ListOK, PushOK, StampPushedOK, FetchOK,
     StoreFetchedOK, DeleteLocalFileOK, EndPassOK
<1>3. CASE LoseRequest
  BY <1>3, LoseRequestOK
<1>4. CASE UNCHANGED vars
  BY <1>4 DEF vars, IInv, TypeOK, Running
<1> QED
  BY <1>1, <1>2, <1>3, <1>4 DEF Next

LEMMA Inductive == Spec => []IInv
BY InitOK, StepOK, PTL DEF Spec

\* Every reachable state is well typed, whatever the server returns and other
\* clients do meanwhile.
THEOREM CalDavTypeCorrect == Spec => []TypeOK
BY Inductive, PTL DEF IInv

\* A pass never changes or removes what is on the server, with any number of
\* lost messages (put_new in mgmt-dav/src/client.rs:219).
THEOREM CalDavServerFilesStand == Spec => ServerFilesStand
<1>1. IInv /\ [Next]_vars =>
        [\A c \in Collections, i \in Items :
           ByPass /\ server[c][i] # None => server'[c][i] = server[c][i]]_vars
  <2> SUFFICES ASSUME IInv, Next, ByPass, NEW c \in Collections, NEW i \in Items,
                      server[c][i] # None
               PROVE  server'[c][i] = server[c][i]
    OBVIOUS
  <2>1. CASE UserStep
    BY <2>1, UserFrame DEF ByPass
  <2>2. ASSUME NEW o \in pass.todo, Push(o)
        PROVE  server'[c][i] = server[c][i]
    <3>1. CASE UNCHANGED server
      BY <3>1
    <3>2. CASE /\ server[pass.coll][o.item] = None
               /\ server' = [server EXCEPT ![pass.coll][o.item] = pass.loaded[o.item].body]
      BY <3>2 DEF IInv, TypeOK
    <3> QED
      BY <2>2, <3>1, <3>2 DEF Push, Upload
  <2>3. CASE \E o \in pass.todo :
               StampPushed(o) \/ Fetch(o) \/ StoreFetched(o) \/ DeleteLocalFile(o)
    BY <2>3 DEF StampPushed, Fetch, StoreFetched, DeleteLocalFile
  <2>4. CASE \/ \E targets \in SUBSET Collections : Command(targets)
             \/ \E d \in Collections : BeginPass(d)
             \/ List \/ EndPass \/ LoseRequest
    BY <2>4 DEF Command, BeginPass, List, EndPass, LoseRequest
  <2> QED
    BY <2>1, <2>2, <2>3, <2>4, PassSteps DEF Next
<1> QED
  BY <1>1, Inductive, PTL DEF Spec, ServerFilesStand

-----------------------------------------------------------------------------
(* Files that were never linked stay, as long as the user leaves the vault *)
(* alone during a pass.                                                    *)

\* A collection holds, and a pass works on, items of its own store only.
Homes ==
  /\ \A c \in Collections, i \in Items : kept[c][i] # {} => Stores(c, i)
  /\ \A c \in Collections, i \in Items : server[c][i] # None => Stores(c, i)
  /\ Running => \A i \in Items : pass.loaded[i] # None => Stores(pass.coll, i)
  /\ Running => \A o \in pass.todo : Stores(pass.coll, o.item)

LEMMA StartsHome == Init => Homes
BY DEF Init, Homes, Running, NoFiles

\* A step that leaves the servers alone and makes no more of the pass.
LEMMA SameHomes ==
  ASSUME Homes, UNCHANGED <<setup, server, kept>>,
         \/ pass'.phase \in {"done", "failed"}
         \/ /\ Running /\ pass'.coll = pass.coll /\ pass'.loaded = pass.loaded
            /\ pass'.todo \subseteq pass.todo
         \/ UNCHANGED pass
  PROVE  Homes'
BY DEF Homes, Running, Stores

LEMMA UserHomes ==
  ASSUME IInv, Homes, UserStep
  PROVE  Homes'
<1>1. UNCHANGED <<setup, pass>>
  BY UserFrame
<1>2. ASSUME NEW c \in Collections, NEW i \in Items, NEW b \in Bodies, ServerWrite(c, i, b)
      PROVE  Homes'
  <2>1. Stores(c, i)
    BY <1>2 DEF ServerWrite, Homes, Stores
  <2>2. ASSUME NEW d \in Collections, NEW j \in Items, ~Stores(d, j)
        PROVE  server'[d][j] = server[d][j] /\ kept'[d][j] = kept[d][j]
    BY <1>2, <2>1, <2>2 DEF ServerWrite, IInv, TypeOK
  <2> QED
    BY <1>1, <2>2 DEF Homes, Stores, Running
<1>3. ASSUME NEW c \in Collections, NEW i \in Items, ServerDelete(c, i)
      PROVE  Homes'
  <2>1. \A d \in Collections, j \in Items : server'[d][j] # None => server[d][j] # None
    BY <1>3 DEF ServerDelete, IInv, TypeOK
  <2>2. kept' = kept
    BY <1>3 DEF ServerDelete
  <2> QED
    BY <1>1, <2>1, <2>2 DEF Homes, Stores, Running
<1>4. CASE UNCHANGED <<server, kept>>
  BY <1>1, <1>4, SameHomes
<1> QED
  BY <1>2, <1>3, <1>4 DEF UserStep, LocalDelete, PairingLinks, LocalCreate, LocalEdit,
                          LocalUserActs

LEMMA BeginHomes ==
  ASSUME IInv, Homes, NEW c \in Collections, BeginPass(c)
  PROVE  Homes'
<1>1. UNCHANGED <<setup, server, kept>>
  BY DEF BeginPass
<1>2. CASE Fail
  <2>1. pass'.phase = "failed"
    BY <1>2 DEF Fail, IInv, TypeOK
  <2> QED
    BY <1>1, <2>1, SameHomes
<1>3. CASE pass' = [coll |-> c, phase |-> "list", loaded |-> Loaded(c), todo |-> {},
                    reply |-> None]
  <2>1. pass'.coll = c /\ pass'.loaded = Loaded(c) /\ pass'.todo = {}
    BY <1>3
  <2>2. \A i \in Items : Loaded(c)[i] # None => Stores(c, i)
    BY DEF Loaded
  <2>3. \A d \in Collections, i \in Items : Stores(d, i)' = Stores(d, i)
    BY <1>1 DEF Stores
  <2> QED
    BY <1>1, <2>1, <2>2, <2>3 DEF Homes
<1> QED
  BY <1>2, <1>3 DEF BeginPass

LEMMA ListHomes ==
  ASSUME IInv, Homes, List
  PROVE  Homes'
<1> DEFINE plan == TwoWayPlan(pass.coll, pass.loaded, server[pass.coll])
<1>1. pass.coll \in Collections /\ Running
  BY DEF IInv, Running, List
<1>2. /\ pass.loaded \in [Items -> Option(Copy)]
      /\ server[pass.coll] \in [Items -> Option(Bodies)]
  BY <1>1 DEF IInv, TypeOK
<1>3. \A o \in plan : /\ o \in Ops
                      /\ pass.loaded[o.item] # None \/ server[pass.coll][o.item] # None
  BY ListedOps
<1>4. \A o \in plan : Stores(pass.coll, o.item)
  BY <1>1, <1>3 DEF Homes, Ops
<1>5. pass'.coll = pass.coll /\ pass'.loaded = pass.loaded /\ pass'.todo = plan
  BY DEF List, IInv, TypeOK
<1> HIDE DEF plan
<1> QED
  BY <1>1, <1>4, <1>5 DEF Homes, List, Stores

LEMMA OpHomes ==
  ASSUME IInv, Homes, NEW o \in pass.todo,
         Push(o) \/ StampPushed(o) \/ Fetch(o) \/ StoreFetched(o) \/ DeleteLocalFile(o)
  PROVE  Homes'
<1>1. /\ Running /\ setup' = setup
      /\ \/ pass'.phase = "failed"
         \/ /\ pass'.coll = pass.coll /\ pass'.loaded = pass.loaded
            /\ pass'.todo \subseteq pass.todo
  <2>0. /\ pass \in [coll : Option(Collections), phase : Phases,
                     loaded : [Items -> Option(Copy)],
                     todo : SUBSET [item : Items, half : {1, 2}, kind : TwoWayKinds],
                     reply : Option(Bodies)]
    BY DEF IInv, TypeOK
  <2>f. /\ Finished(o).coll = pass.coll /\ Finished(o).loaded = pass.loaded
        /\ Finished(o).todo \subseteq pass.todo
    BY <2>0 DEF Finished
  <2>1. CASE Push(o)
    BY <2>0, <2>1 DEF Push, Upload, Fail, Running
  <2>2. CASE StampPushed(o)
    <3>1. pass' = Finished(o) /\ pass.phase = "stamp" /\ setup' = setup
      BY <2>2 DEF StampPushed
    <3> QED
      BY <3>1, <2>f DEF Running
  <2>3. CASE Fetch(o)
    BY <2>0, <2>3 DEF Fetch, Fail, Running
  <2>4. CASE StoreFetched(o)
    <3>1. /\ pass.phase = "store" /\ setup' = setup
          /\ pass' = Finished(o) \/ Fail
      BY <2>4 DEF StoreFetched, Store
    <3>2. Fail => pass'.phase = "failed"
      BY <2>0 DEF Fail
    <3> QED
      BY <3>1, <3>2, <2>f DEF Running
  <2>5. CASE DeleteLocalFile(o)
    <3>1. pass' = Finished(o) /\ pass.phase = "ops" /\ setup' = setup
      BY <2>5 DEF DeleteLocalFile
    <3> QED
      BY <3>1, <2>f DEF Running
  <2> QED
    BY <2>1, <2>2, <2>3, <2>4, <2>5
<1>2. CASE UNCHANGED <<server, kept>>
  BY <1>1, <1>2, SameHomes
<1>3. CASE Push(o) /\ Upload(o.item, pass.loaded[o.item].body)
  <2>1. pass.coll \in Collections /\ o.item \in Items /\ Stores(pass.coll, o.item)
    BY <1>1, TheOp DEF Ops, Homes, IInv
  <2>2. ASSUME NEW d \in Collections, NEW j \in Items, ~Stores(d, j)
        PROVE  server'[d][j] = server[d][j] /\ kept'[d][j] = kept[d][j]
    BY <1>3, <2>1, <2>2 DEF Upload, IInv, TypeOK
  <2> QED
    BY <1>1, <2>2 DEF Homes, Stores, Running
<1> QED
  BY <1>2, <1>3 DEF Push, StampPushed, Fetch, StoreFetched, DeleteLocalFile

LEMMA StepHomes ==
  ASSUME IInv, Homes, [Next]_vars
  PROVE  Homes'
<1>1. CASE \/ \E targets \in SUBSET Collections : Command(targets)
           \/ EndPass \/ LoseRequest \/ UNCHANGED vars
  <2>1. UNCHANGED <<setup, server, kept>>
    BY <1>1 DEF Command, EndPass, LoseRequest, vars
  <2>2. pass'.phase \in {"done", "failed"} \/ UNCHANGED pass
    BY <1>1 DEF Command, EndPass, LoseRequest, Fail, vars, IInv, TypeOK
  <2> QED
    BY <2>1, <2>2, SameHomes
<1> QED
  BY <1>1, UserHomes, PassSteps, BeginHomes, ListHomes, OpHomes DEF Next

\* A pass over its store knows such a file as it is, with its upload to come.
NewFileKnown(i) ==
  Running /\ Stores(pass.coll, i) /\ Unlinked(local[i]) =>
    /\ local[i] = pass.loaded[i]
    /\ pass.phase # "list" => [item |-> i, half |-> 1, kind |-> "Push"] \in pass.todo

NewFilesKnown == \A i \in Items : NewFileKnown(i)

\* While its upload is still to be done, nothing else is done to the file.
LEMMA PushComesFirst ==
  ASSUME IInv, NEW o \in pass.todo, At(o), NEW i \in Items, o.item = i,
         Unlinked(pass.loaded[i]),
         [item |-> i, half |-> 1, kind |-> "Push"] \in pass.todo
  PROVE  o.kind = "Push"
<1> DEFINE up == [item |-> i, half |-> 1, kind |-> "Push"]
<1>1. o \in Ops /\ OpOK(pass, o)
  BY TheOp
<1>2. CASE o.half = 1
  BY <1>1, <1>2 DEF OpOK
<1>3. CASE o.half = 2
  <2>1. up.half = 1 /\ up \in pass.todo \ {o}
    BY <1>3
  <2>2. Precedes(o, up)
    BY <2>1 DEF At
  <2> QED
    BY <1>3, <2>1, <2>2 DEF Precedes
<1> QED
  BY <1>1, <1>2, <1>3 DEF Ops

\* Finishing an operation on another item keeps what is known about item i.
LEMMA OthersKnown ==
  ASSUME IInv, NewFilesKnown, NEW o \in pass.todo, pass' = Finished(o), setup' = setup,
         pass.phase \in {"ops", "stamp", "store"}, NEW i \in Items,
         o.item # i, local'[i] = local[i]
  PROVE  NewFileKnown(i)'
<1>1. /\ pass'.loaded = pass.loaded /\ pass'.phase = "ops" /\ pass'.todo = pass.todo \ {o}
      /\ pass'.coll = pass.coll
  BY DEF Finished, IInv, TypeOK
<1>2. Running
  BY DEF Running
<1>3. [item |-> i, half |-> 1, kind |-> "Push"] # o
  OBVIOUS
<1>4. Stores(pass.coll, i)' = Stores(pass.coll, i)
  BY <1>1 DEF Stores
<1> QED
  BY <1>1, <1>2, <1>3, <1>4 DEF NewFilesKnown, NewFileKnown, Running

LEMMA StartsKnown == Init => NewFilesKnown
BY DEF Init, NewFilesKnown, NewFileKnown, Running

LEMMA OpStepKnown ==
  ASSUME IInv, Homes, NewFilesKnown, NEW o \in pass.todo, NEW i \in Items,
         Push(o) \/ StampPushed(o) \/ Fetch(o) \/ StoreFetched(o) \/ DeleteLocalFile(o)
  PROVE  NewFileKnown(i)'
<1>0. /\ o \in Ops /\ OpOK(pass, o) /\ At(o) /\ First(pass, o)
      /\ pass.phase \in {"ops", "stamp", "store"}
      /\ local \in [Items -> Option(Copy)]
      /\ setup' = setup
  BY TheOp DEF Push, StampPushed, Fetch, StoreFetched, DeleteLocalFile, IInv, TypeOK
<1>s. Running /\ Stores(pass.coll, o.item)
  BY <1>0 DEF Running, Homes
<1>1. CASE Fail
  BY <1>1 DEF NewFileKnown, Running, Fail, IInv, TypeOK
<1>2. ASSUME UNCHANGED local, NEW to, NEW r, pass' = [pass EXCEPT !.phase = to, !.reply = r],
             to # "list"
      PROVE  NewFileKnown(i)'
  <2>1. /\ pass'.loaded = pass.loaded /\ pass'.todo = pass.todo /\ pass'.phase = to
        /\ pass'.coll = pass.coll
    BY <1>2 DEF IInv, TypeOK
  <2>2. Stores(pass.coll, i)' = Stores(pass.coll, i)
    BY <1>0, <2>1 DEF Stores
  <2> QED
    BY <1>0, <1>s, <1>2, <2>1, <2>2 DEF NewFilesKnown, NewFileKnown
<1>3. CASE /\ pass' = Finished(o)
           /\ \E copy : local' = [local EXCEPT ![o.item] = copy] /\ ~Unlinked(copy)
  BY <1>0, <1>3, OthersKnown DEF NewFileKnown, Ops
<1>4. CASE UNCHANGED local /\ pass' = Finished(o) /\ pass.phase = "store"
  <2>1. CASE o.item # i
    BY <1>0, <1>4, <2>1, OthersKnown
  <2>2. CASE o.item = i
    <3>1. o.kind # "Push"
      BY <1>0, <1>4 DEF OpOK
    <3>2. ~Unlinked(local[i])
      BY <1>0, <1>s, <1>4, <2>2, <3>1, PushComesFirst DEF NewFilesKnown, NewFileKnown
    <3> QED
      BY <1>4, <3>2 DEF NewFileKnown
  <2> QED
    BY <2>1, <2>2
<1>5. CASE Push(o)
  BY <1>1, <1>2, <1>5 DEF Push, Upload
<1>6. CASE Fetch(o)
  BY <1>1, <1>2, <1>6 DEF Fetch
<1>7. CASE StampPushed(o)
  <2>1. \A b : ~Unlinked([body |-> b, at |-> pass.coll, etag |-> pass.reply])
    BY <1>s DEF Unlinked, IInv
  <2> QED
    BY <1>3, <1>7, <2>1 DEF StampPushed
<1>8. CASE StoreFetched(o)
  <2>1. ~Unlinked([body |-> pass.reply, at |-> pass.coll, etag |-> pass.reply])
    BY <1>s DEF Unlinked, IInv
  <2> QED
    BY <1>1, <1>3, <1>4, <1>8, <2>1 DEF StoreFetched, Store
<1>9. CASE DeleteLocalFile(o)
  <2>1. ~Unlinked(None)
    BY DEF Unlinked
  <2> QED
    BY <1>3, <1>9, <2>1 DEF DeleteLocalFile
<1> QED
  BY <1>5, <1>6, <1>7, <1>8, <1>9

LEMMA StepKnown ==
  ASSUME ~MidPassEdits, IInv, Homes, NewFilesKnown, [Next]_vars
  PROVE  NewFilesKnown'
<1> SUFFICES ASSUME NEW i \in Items PROVE NewFileKnown(i)'
  BY DEF NewFilesKnown
<1>0. NewFileKnown(i)
  BY DEF NewFilesKnown
<1>1. CASE UserStep
  <2>1. UNCHANGED <<setup, pass>> /\ (UNCHANGED local \/ ~Running)
    BY <1>1, UserFrame DEF UserStep, LocalDelete, PairingLinks, ServerDelete, LocalCreate,
                           LocalEdit, ServerWrite, LocalUserActs
  <2> QED
    BY <1>0, <2>1 DEF NewFileKnown, Running, Stores
<1>2. ASSUME NEW c \in Collections, BeginPass(c)
      PROVE  NewFileKnown(i)'
  <2>1. CASE Fail
    BY <2>1 DEF Fail, NewFileKnown, Running, IInv, TypeOK
  <2>2. CASE pass' = [coll |-> c, phase |-> "list", loaded |-> Loaded(c), todo |-> {},
                      reply |-> None]
    <3>1. pass'.coll = c /\ pass'.phase = "list" /\ pass'.loaded = Loaded(c)
      BY <2>2
    <3>2. UNCHANGED <<setup, local>>
      BY <1>2 DEF BeginPass
    <3> QED
      BY <3>1, <3>2 DEF NewFileKnown, Loaded, Stores
  <2> QED
    BY <1>2, <2>1, <2>2 DEF BeginPass
<1>3. CASE List
  <2>1. /\ pass.coll \in Collections /\ Running
        /\ pass.loaded \in [Items -> Option(Copy)]
    BY <1>3 DEF List, IInv, TypeOK, Running
  <2>2. server[pass.coll] \in [Items -> Option(Bodies)]
    BY <2>1 DEF IInv, TypeOK
  <2>3. /\ pass'.loaded = pass.loaded /\ pass'.coll = pass.coll
        /\ pass'.todo = TwoWayPlan(pass.coll, pass.loaded, server[pass.coll])
        /\ UNCHANGED <<setup, local>>
    BY <1>3 DEF List, IInv, TypeOK
  <2>4. Stores(pass.coll, i)' = Stores(pass.coll, i)
    BY <2>3 DEF Stores
  <2>5. Unlinked(pass.loaded[i]) =>
          [item |-> i, half |-> 1, kind |-> "Push"] \in pass'.todo
    <3> SUFFICES ASSUME Unlinked(pass.loaded[i])
                 PROVE  [item |-> i, half |-> 1, kind |-> "Push"]
                          \in TwoWayPlan(pass.coll, pass.loaded, server[pass.coll])
      BY <2>3
    <3> QED
      BY <2>1, <2>2, UnlinkedIsPushed
  <2>6. pass'.phase = "ops"
    BY <1>3 DEF List, IInv, TypeOK
  <2> QED
    BY <1>0, <2>1, <2>3, <2>4, <2>5, <2>6 DEF NewFileKnown, Running
<1>4. CASE \E o \in pass.todo :
             Push(o) \/ StampPushed(o) \/ Fetch(o) \/ StoreFetched(o) \/ DeleteLocalFile(o)
  BY <1>4, OpStepKnown
<1>5. CASE EndPass \/ LoseRequest
  BY <1>5 DEF EndPass, LoseRequest, Fail, NewFileKnown, Running, IInv, TypeOK
<1>6. CASE UNCHANGED vars \/ \E targets \in SUBSET Collections : Command(targets)
  BY <1>0, <1>6 DEF vars, Command, NewFileKnown, Running, Stores
<1> QED
  BY <1>1, <1>2, <1>3, <1>4, <1>5, <1>6, PassSteps DEF Next

\* What NewFilesStay asks of an operation.
LEMMA OpStepStays ==
  ASSUME IInv, Homes, NewFilesKnown, NEW o \in pass.todo, NEW i \in Items, Unlinked(local[i]),
         Push(o) \/ StampPushed(o) \/ Fetch(o) \/ StoreFetched(o) \/ DeleteLocalFile(o)
  PROVE  local'[i] # None /\ local'[i].body = local[i].body
<1>1. CASE local'[i] = local[i]
  BY <1>1 DEF Unlinked
<1>2. CASE StampPushed(o) /\ o.item = i
  <2> DEFINE copy == [body |-> pass.loaded[i].body, at |-> pass.coll, etag |-> pass.reply]
  <2>0. Running /\ Stores(pass.coll, i)
    BY <1>2 DEF StampPushed, Running, Homes
  <2>1. local[i] = pass.loaded[i] /\ local[i] \in Copy
    BY <1>2, <2>0 DEF NewFilesKnown, NewFileKnown, Unlinked, IInv, TypeOK, Option
  <2>c. Restamped(i) = {pass.loaded[i].body}
    BY <2>1 DEF Restamped, Unlinked
  <2>2. local'[i] = copy
    BY <1>2, <2>c DEF StampPushed, IInv, TypeOK
  <2>3. pass.reply \in Option(Bodies) /\ pass.coll \in Option(Collections \cup {Hub})
    BY DEF IInv, TypeOK, Option
  <2>4. copy \in Copy
    BY <2>1, <2>3 DEF Copy
  <2>5. copy.body = pass.loaded[i].body
    OBVIOUS
  <2> HIDE DEF copy
  <2>6. copy # None
    BY <2>4, CalDavAssumption
  <2> QED
    BY <2>1, <2>2, <2>5, <2>6
<1>3. CASE (StoreFetched(o) \/ DeleteLocalFile(o)) /\ o.item = i
  <2>1. /\ At(o) /\ First(pass, o) /\ OpOK(pass, o) /\ Running /\ pass.phase # "list"
        /\ Stores(pass.coll, i)
    BY <1>3, TheOp DEF StoreFetched, DeleteLocalFile, Running, Homes
  <2>2. o.kind # "Push"
    BY <1>3, <2>1 DEF StoreFetched, DeleteLocalFile, OpOK
  <2> QED
    BY <1>3, <2>1, <2>2, PushComesFirst DEF NewFilesKnown, NewFileKnown
<1> QED
  BY <1>1, <1>2, <1>3 DEF Push, StampPushed, Fetch, StoreFetched, Store, DeleteLocalFile,
                          IInv, TypeOK

\* As long as the user leaves the vault alone during a pass, a file that was
\* never linked keeps its body through every pass, although its name may be
\* taken on the server by an upload whose reply was lost (engine.rs:100-122).
THEOREM CalDavNewFilesStay ==
  ASSUME ~MidPassEdits
  PROVE  Spec => NewFilesStay
<1>1. Init => IInv /\ Homes /\ NewFilesKnown
  BY InitOK, StartsHome, StartsKnown
<1>2. IInv /\ Homes /\ NewFilesKnown /\ [Next]_vars => (IInv /\ Homes /\ NewFilesKnown)'
  BY StepOK, StepHomes, StepKnown
<1>3. IInv /\ Homes /\ NewFilesKnown /\ [Next]_vars =>
        [\A i \in Items :
           ByPass /\ local[i] # None /\ local[i].at = None =>
             local'[i] # None /\ local'[i].body = local[i].body]_vars
  <2> SUFFICES ASSUME IInv, Homes, NewFilesKnown, Next, ByPass, NEW i \in Items,
                      Unlinked(local[i])
               PROVE  local'[i] # None /\ local'[i].body = local[i].body
    BY DEF Unlinked
  <2>1. CASE UserStep
    BY <2>1, UserFrame DEF ByPass
  <2>2. CASE \/ \E targets \in SUBSET Collections : Command(targets)
             \/ \E c \in Collections : BeginPass(c)
             \/ List \/ EndPass \/ LoseRequest
    BY <2>2 DEF Command, BeginPass, List, EndPass, LoseRequest, Unlinked
  <2> QED
    BY <2>1, <2>2, OpStepStays, PassSteps DEF Next
<1> QED
  BY <1>1, <1>2, <1>3, PTL DEF Spec, NewFilesStay

-----------------------------------------------------------------------------
(* A pass nobody interferes with ends with everything in place.             *)

\* The client's vault has what collection c's server has of item i.
Settled(c, i) ==
  LET r == server[c][i]
  IN
  /\ r \in Bodies \ Foreign =>
       /\ local[i] # None
       /\ local[i].etag = r \/ local[i].body = r
  /\ r = None => local[i] = None

\* What an operation still to be done finds, if only the pass has acted.
Awaits(o) ==
  LET r == server[pass.coll][o.item]
  IN
  /\ o.kind = "Push" =>
       local[o.item] = pass.loaded[o.item] /\ Unlinked(pass.loaded[o.item])
  /\ o.kind = "Pull" => r # None
  /\ o.kind = "DeleteLocal" =>
       r = None \/ [item |-> o.item, half |-> 2, kind |-> "Pull"] \in pass.todo

Untouched(i) == \A o \in pass.todo : o.item # i

Working == pass.phase \in {"ops", "stamp", "store"}

\* The reply that the pass is about to use is what the server has now.
ReplyStands ==
  \A o \in pass.todo : First(pass, o) =>
    /\ pass.phase = "stamp" => server[pass.coll][o.item] = pass.loaded[o.item].body
    /\ pass.phase = "store" => server[pass.coll][o.item] = pass.reply

OnCourse ==
  calm =>
    /\ pass.coll \in Collections
    /\ pass.phase = "list" => pass.loaded = Loaded(pass.coll)
    /\ Working \/ pass.phase = "done" =>
         \A i \in Items : Stores(pass.coll, i) /\ Untouched(i) => Settled(pass.coll, i)
    /\ Working => (\A o \in pass.todo : Awaits(o)) /\ ReplyStands

\* What the plan leaves to be done, and what it takes to be in place.
LEMMA PlanIsSound ==
  ASSUME NEW c \in Collections, NEW locals \in [Items -> Option(Copy)],
         NEW remotes \in [Items -> Option(Bodies)], NEW i \in Items
  PROVE  LET plan == TwoWayPlan(c, locals, remotes)
         IN
         /\ \A o \in plan : o.item = i =>
              /\ o.kind = "Push" => Unlinked(locals[i])
              /\ o.kind = "Pull" => remotes[i] # None
              /\ o.kind = "DeleteLocal" =>
                   remotes[i] = None \/ [item |-> i, half |-> 2, kind |-> "Pull"] \in plan
         /\ (\A o \in plan : o.item # i) =>
              \/ locals[i] = None /\ remotes[i] = None
              \/ locals[i] # None /\ remotes[i] # None /\ locals[i].etag = remotes[i]
<1> DEFINE here(j) == locals[j] # None /\ locals[j].at = c
           op(j) == TwoWayOp(locals[j], IF here(j) THEN remotes[j] ELSE None)
           first == {[item |-> j, half |-> 1, kind |-> op(j)] :
                       j \in {k \in Items : locals[k] # None /\ op(k) # "Nothing"}}
           second == {[item |-> j, half |-> 2, kind |-> "Pull"] :
                        j \in {k \in Items : remotes[k] # None /\ ~here(k)}}
           plan == TwoWayPlan(c, locals, remotes)
<1>1. plan = first \cup second
  BY DEF TwoWayPlan
<1>2. c # None
  BY CalDavAssumption
<1>3. locals[i] # None =>
        /\ op(i) = "Push" <=> locals[i].at = None
        /\ op(i) = "Pull" => here(i) /\ remotes[i] # None
        /\ op(i) = "DeleteLocal" => ~here(i) \/ remotes[i] = None
        /\ op(i) = "Nothing" => here(i) /\ remotes[i] # None /\ locals[i].etag = remotes[i]
  BY <1>2 DEF TwoWayOp
<1>4. ASSUME NEW o \in plan, o.item = i
      PROVE  \/ o.kind = op(i) /\ locals[i] # None
             \/ o.kind = "Pull" /\ remotes[i] # None
  <2>1. CASE \E j \in Items : /\ locals[j] # None
                              /\ o = [item |-> j, half |-> 1, kind |-> op(j)]
    <3> HIDE DEF op
    <3> QED
      BY <1>4, <2>1
  <2>2. CASE \E j \in Items : /\ remotes[j] # None
                              /\ o = [item |-> j, half |-> 2, kind |-> "Pull"]
    BY <1>4, <2>2
  <2> QED
    BY <1>1, <1>4, <2>1, <2>2
<1>5. remotes[i] # None /\ ~here(i) => [item |-> i, half |-> 2, kind |-> "Pull"] \in plan
  BY <1>1
<1>6. locals[i] # None /\ op(i) # "Nothing" =>
        [item |-> i, half |-> 1, kind |-> op(i)] \in plan
  BY <1>1
<1> HIDE DEF op, plan
<1>7. \A o \in plan : o.item = i =>
        /\ o.kind = "Push" => Unlinked(locals[i])
        /\ o.kind = "Pull" => remotes[i] # None
        /\ o.kind = "DeleteLocal" =>
             remotes[i] = None \/ [item |-> i, half |-> 2, kind |-> "Pull"] \in plan
  BY <1>3, <1>4, <1>5 DEF Unlinked
<1>8. (\A o \in plan : o.item # i) =>
        \/ locals[i] = None /\ remotes[i] = None
        \/ locals[i] # None /\ remotes[i] # None /\ locals[i].etag = remotes[i]
  <2>1. CASE [item |-> i, half |-> 2, kind |-> "Pull"] \in plan
    BY <2>1
  <2>2. CASE [item |-> i, half |-> 1, kind |-> op(i)] \in plan
    BY <2>2
  <2> QED
    BY <1>3, <1>5, <1>6, <2>1, <2>2
<1> QED
  BY <1>7, <1>8 DEF plan

LEMMA ListOnCourse ==
  ASSUME IInv, Homes, OnCourse, List
  PROVE  OnCourse'
<1> SUFFICES ASSUME calm PROVE OnCourse'
  BY DEF List, OnCourse
<1> DEFINE c == pass.coll
           plan == TwoWayPlan(c, pass.loaded, server[c])
<1>1. c \in Collections /\ pass.loaded = Loaded(c) /\ calm' = calm
  BY DEF List, OnCourse
<1>2. /\ pass.loaded \in [Items -> Option(Copy)]
      /\ server[c] \in [Items -> Option(Bodies)]
  BY <1>1 DEF IInv, TypeOK
<1>3. /\ pass'.coll = c /\ pass'.loaded = pass.loaded /\ pass'.phase = "ops"
      /\ pass'.todo = plan
      /\ UNCHANGED <<setup, local, server>>
  BY DEF List, IInv, TypeOK
<1>4. \A o \in plan : o.item \in Items /\ (o.kind = "Push" => pass.loaded[o.item] # None)
  BY ListedOps DEF Ops
<1>5. ASSUME NEW i \in Items
      PROVE  /\ \A o \in plan : o.item = i =>
                  /\ o.kind = "Push" => Unlinked(pass.loaded[i])
                  /\ o.kind = "Pull" => server[c][i] # None
                  /\ o.kind = "DeleteLocal" =>
                       \/ server[c][i] = None
                       \/ [item |-> i, half |-> 2, kind |-> "Pull"] \in plan
             /\ (\A o \in plan : o.item # i) =>
                  \/ pass.loaded[i] = None /\ server[c][i] = None
                  \/ /\ pass.loaded[i] # None /\ server[c][i] # None
                     /\ pass.loaded[i].etag = server[c][i]
  <2> DEFINE locals == pass.loaded
             remotes == server[c]
  <2>1. c \in Collections
    BY <1>1
  <2>2. locals \in [Items -> Option(Copy)] /\ remotes \in [Items -> Option(Bodies)]
    BY <1>2
  <2> HIDE DEF c, locals, remotes
  <2> QED
    BY <2>1, <2>2, PlanIsSound DEF locals, remotes
<1> HIDE DEF plan, c
<1>6. \A i \in Items : Stores(c, i) => pass.loaded[i] = local[i]
  BY <1>1 DEF Loaded
<1>7. \A i \in Items : pass.loaded[i] # None => pass.loaded[i] = local[i]
  BY <1>1 DEF Loaded
<1>8. ASSUME NEW i \in Items, Stores(pass.coll, i)', Untouched(i)'
      PROVE  Settled(pass.coll, i)'
  <2>1. Stores(c, i) /\ (\A o \in plan : o.item # i)
    BY <1>3, <1>8 DEF Stores, Untouched
  <2> QED
    BY <1>3, <1>5, <1>6, <2>1 DEF Settled
<1>9. ASSUME NEW o \in plan
      PROVE  Awaits(o)'
  <2>1. o.item \in Items
    BY <1>4
  <2> QED
    BY <1>3, <1>4, <1>5, <1>7, <2>1 DEF Awaits
<1>10. ReplyStands'
  BY <1>3 DEF ReplyStands
<1>11. pass'.coll \in Collections /\ pass'.phase = "ops" /\ pass'.todo = plan
  BY <1>1, <1>3
<1> QED
  BY <1>8, <1>9, <1>10, <1>11 DEF OnCourse, Working

\* An upload is the first thing done to its item.
LEMMA NoPushLeft ==
  ASSUME IInv, OnCourse, calm, Working, NEW o \in pass.todo, At(o),
         NEW p \in pass.todo \ {o}, p.item = o.item
  PROVE  p.kind # "Push"
<1> SUFFICES ASSUME p.kind = "Push" PROVE FALSE
  OBVIOUS
<1>1. /\ o \in Ops /\ OpOK(pass, o) /\ p \in Ops /\ OpOK(pass, p)
      /\ Unlinked(pass.loaded[o.item])
  BY TheOp DEF OnCourse, Awaits
<1>2. p = [item |-> o.item, half |-> 1, kind |-> "Push"]
  BY <1>1 DEF Ops, OpOK
<1>3. o.kind = "Push"
  BY <1>1, <1>2, PushComesFirst DEF Ops
<1>4. o = p
  BY <1>1, <1>2, <1>3 DEF Ops, OpOK
<1> QED
  BY <1>4

\* An operation that is done leaves the others awaiting what they did.
LEMMA FinishedOnCourse ==
  ASSUME IInv, Homes, OnCourse, calm, Working, NEW o \in pass.todo, At(o),
         pass' = Finished(o), UNCHANGED <<setup, server, calm>>,
         \A j \in Items : j # o.item => local'[j] = local[j],
         (\A p \in pass.todo \ {o} : p.item # o.item) => Settled(pass.coll, o.item)'
  PROVE  OnCourse'
<1>1. /\ pass'.coll = pass.coll /\ pass'.loaded = pass.loaded /\ pass'.phase = "ops"
      /\ pass'.todo = pass.todo \ {o}
  BY DEF Finished, IInv, TypeOK
<1>2. o \in Ops /\ \A p \in pass.todo : p \in Ops /\ OpOK(pass, p) /\ Awaits(p)
  BY TheOp DEF OnCourse
<1>3. ASSUME NEW i \in Items, Stores(pass.coll, i)', Untouched(i)'
      PROVE  Settled(pass.coll, i)'
  <2>1. Stores(pass.coll, i) /\ \A p \in pass.todo \ {o} : p.item # i
    BY <1>1, <1>3 DEF Stores, Untouched
  <2>2. CASE i = o.item
    BY <2>1, <2>2
  <2>3. CASE i # o.item
    <3>1. Untouched(i)
      BY <2>1, <2>3 DEF Untouched
    <3>2. Settled(pass.coll, i)
      BY <2>1, <3>1 DEF OnCourse
    <3> QED
      BY <1>1, <2>3, <3>2 DEF Settled
  <2> QED
    BY <2>2, <2>3
<1>4. ASSUME NEW p \in pass.todo \ {o}
      PROVE  Awaits(p)'
  <2>1. Awaits(p) /\ p \in Ops /\ OpOK(pass, p)
    BY <1>2
  <2>2. p.kind = "Push" => local'[p.item] = local[p.item]
    BY <2>1, NoPushLeft DEF Ops
  <2>3. p.kind = "DeleteLocal" /\ server[pass.coll][p.item] # None =>
          [item |-> p.item, half |-> 2, kind |-> "Pull"] \in pass.todo \ {o}
    <3> SUFFICES ASSUME p.kind = "DeleteLocal", server[pass.coll][p.item] # None
                 PROVE  [item |-> p.item, half |-> 2, kind |-> "Pull"] # o
      BY <2>1 DEF Awaits
    <3>1. p.half = 1
      BY <2>1 DEF OpOK, Ops
    <3>2. Precedes(o, p)
      BY DEF At
    <3> QED
      BY <3>1, <3>2 DEF Precedes
  <2> QED
    BY <1>1, <2>1, <2>2, <2>3 DEF Awaits
<1>5. ReplyStands'
  BY <1>1 DEF ReplyStands
<1>6. pass'.coll \in Collections /\ calm
  BY <1>1 DEF OnCourse
<1> QED
  BY <1>1, <1>3, <1>4, <1>5, <1>6 DEF OnCourse, Working

LEMMA PushOnCourse ==
  ASSUME IInv, Homes, OnCourse, NEW o \in pass.todo, Push(o)
  PROVE  OnCourse'
<1> SUFFICES ASSUME calm, calm' PROVE OnCourse'
  BY DEF OnCourse, Push, Upload
<1> DEFINE i == o.item
           b == pass.loaded[i].body
<1>0. /\ pass.coll \in Collections /\ o \in Ops /\ OpOK(pass, o) /\ At(o) /\ Working
      /\ pass.phase = "ops" /\ o.kind = "Push" /\ pass.loaded[i] \in Copy
      /\ Unlinked(pass.loaded[i]) /\ Stores(pass.coll, i)
  <2>1. /\ pass.coll \in Collections /\ o \in Ops /\ OpOK(pass, o) /\ At(o) /\ Working
        /\ pass.phase = "ops" /\ o.kind = "Push" /\ Awaits(o) /\ Running
    BY TheOp DEF Push, OnCourse, Working, Running
  <2> QED
    BY <2>1 DEF Awaits, Ops, Unlinked, IInv, TypeOK, Option, Homes
<1>b. b \in Bodies /\ b # None
  BY <1>0, NoneAssumption DEF Copy
<1>1. CASE Fail
  <2>1. pass'.phase = "failed" /\ pass'.coll = pass.coll
    BY <1>1 DEF Fail, IInv, TypeOK
  <2> QED
    BY <1>0, <2>1 DEF OnCourse, Working
<1>2. CASE /\ server[pass.coll][i] = None
           /\ server' = [server EXCEPT ![pass.coll][i] = b]
           /\ \E etag \in {b, None} : pass' = [pass EXCEPT !.phase = "stamp", !.reply = etag]
           /\ UNCHANGED <<setup, local>>
  <2>1. /\ pass'.coll = pass.coll /\ pass'.loaded = pass.loaded /\ pass'.phase = "stamp"
        /\ pass'.todo = pass.todo
    BY <1>2 DEF IInv, TypeOK
  <2>2. /\ server'[pass.coll][i] = b
        /\ \A j \in Items : j # i => server'[pass.coll][j] = server[pass.coll][j]
    BY <1>0, <1>2 DEF IInv, TypeOK, Ops
  <2>3. ASSUME NEW j \in Items, Stores(pass.coll, j)', Untouched(j)'
        PROVE  Settled(pass.coll, j)'
    <3>1. Stores(pass.coll, j) /\ Untouched(j) /\ j # i
      BY <1>2, <2>1, <2>3 DEF Stores, Untouched
    <3>2. Settled(pass.coll, j)
      BY <1>0, <3>1 DEF OnCourse
    <3> HIDE DEF i, b
    <3> QED
      BY <1>2, <2>1, <2>2, <3>1, <3>2 DEF Settled
  <2>4. ASSUME NEW p \in pass.todo
        PROVE  Awaits(p)'
    <3>1. Awaits(p) /\ p \in Ops /\ OpOK(pass, p)
      BY <1>0, TheOp DEF OnCourse
    <3>2. p.item = i => p.kind # "DeleteLocal"
      BY <1>0, <3>1 DEF OpOK, Ops
    <3>3. p.item = i => server'[pass.coll][p.item] # None
      BY <1>b, <2>2
    <3>4. p.item # i => server'[pass.coll][p.item] = server[pass.coll][p.item]
      BY <2>2, <3>1 DEF Ops
    <3> HIDE DEF i, b
    <3> QED
      BY <1>2, <2>1, <3>1, <3>2, <3>3, <3>4 DEF Awaits
  <2>5. ReplyStands'
    <3> SUFFICES ASSUME NEW p \in pass.todo, First(pass', p)
                 PROVE  server'[pass.coll][p.item] = pass.loaded[p.item].body
      BY <2>1 DEF ReplyStands, First
    <3>1. p = o
      <4>1. First(pass, p) /\ First(pass, o) /\ p \in Ops
        BY <1>0, <2>1, TheOp DEF First
      <4>2. p # o => Precedes(o, p) /\ Precedes(p, o)
        BY <4>1 DEF First
      <4>3. /\ o.half \in {1, 2} /\ p.half \in {1, 2}
            /\ o.item \in Int /\ p.item \in Int
        BY <1>0, <4>1, CalDavAssumption DEF Ops
      <4> QED
        BY <4>2, <4>3 DEF Precedes
    <3> QED
      BY <2>2, <3>1
  <2> QED
    BY <1>0, <2>1, <2>3, <2>4, <2>5 DEF OnCourse, Working
<1> QED
  BY <1>1, <1>2 DEF Push, Upload

LEMMA StampOnCourse ==
  ASSUME IInv, Homes, OnCourse, NEW o \in pass.todo, StampPushed(o)
  PROVE  OnCourse'
<1> SUFFICES ASSUME calm PROVE OnCourse'
  BY DEF OnCourse, StampPushed
<1> DEFINE i == o.item
           b == pass.loaded[i].body
<1>0. /\ pass.coll \in Collections /\ o \in Ops /\ OpOK(pass, o) /\ At(o) /\ Working
      /\ First(pass, o) /\ pass.phase = "stamp" /\ o.kind = "Push"
  BY TheOp DEF StampPushed, OnCourse, Working, OpOK
<1>1. /\ local[i] = pass.loaded[i] /\ Unlinked(pass.loaded[i]) /\ pass.loaded[i] \in Copy
      /\ server[pass.coll][i] = b
  BY <1>0 DEF OnCourse, Awaits, ReplyStands, Ops, Unlinked, IInv, TypeOK, Option
<1>2. Restamped(i) = {b}
  BY <1>1 DEF Restamped, Unlinked
<1>3. /\ local' = [local EXCEPT ![i] = [body |-> b, at |-> pass.coll, etag |-> pass.reply]]
      /\ pass' = Finished(o) /\ UNCHANGED <<setup, server, calm>>
  BY <1>2 DEF StampPushed
<1>4. /\ \A j \in Items : j # i => local'[j] = local[j]
      /\ local'[i] = [body |-> b, at |-> pass.coll, etag |-> pass.reply]
  BY <1>0, <1>3 DEF IInv, TypeOK, Ops
<1>5. [body |-> b, at |-> pass.coll, etag |-> pass.reply] \in Copy
  BY <1>0, <1>1 DEF Copy, IInv, TypeOK, Option
<1>6. pass'.coll = pass.coll /\ b # None
  BY <1>1, <1>3, NoneAssumption DEF Finished, IInv, TypeOK, Copy
<1>7. local'[i] # None /\ local'[i].body = b
  <2>1. local'[i].body = b
    BY <1>4
  <2> QED
    BY <1>4, <1>5, <2>1, CalDavAssumption
<1>8. Settled(pass.coll, i)'
  BY <1>1, <1>3, <1>6, <1>7 DEF Settled
<1> QED
  BY <1>0, <1>3, <1>4, <1>8, FinishedOnCourse

LEMMA FetchOnCourse ==
  ASSUME IInv, Homes, OnCourse, NEW o \in pass.todo, Fetch(o)
  PROVE  OnCourse'
<1> SUFFICES ASSUME calm PROVE OnCourse'
  BY DEF OnCourse, Fetch
<1>0. /\ pass.coll \in Collections /\ Working /\ At(o) /\ First(pass, o) /\ o \in Ops
      /\ UNCHANGED <<setup, local, server, calm>>
  BY TheOp DEF Fetch, OnCourse, Working
<1>1. CASE Fail
  <2>1. pass'.phase = "failed" /\ pass'.coll = pass.coll
    BY <1>1 DEF Fail, IInv, TypeOK
  <2> QED
    BY <1>0, <2>1 DEF OnCourse, Working
<1>2. CASE pass' = [pass EXCEPT !.phase = "store", !.reply = server[pass.coll][o.item]]
  <2>1. /\ pass'.coll = pass.coll /\ pass'.loaded = pass.loaded /\ pass'.phase = "store"
        /\ pass'.todo = pass.todo /\ pass'.reply = server[pass.coll][o.item]
    BY <1>2 DEF IInv, TypeOK
  <2>2. ASSUME NEW j \in Items, Stores(pass.coll, j)', Untouched(j)'
        PROVE  Settled(pass.coll, j)'
    <3>1. Stores(pass.coll, j) /\ Untouched(j)
      BY <1>0, <2>1, <2>2 DEF Stores, Untouched
    <3>2. Settled(pass.coll, j)
      BY <1>0, <3>1 DEF OnCourse
    <3> QED
      BY <1>0, <2>1, <3>2 DEF Settled
  <2>3. \A p \in pass.todo : Awaits(p)'
    BY <1>0, <2>1 DEF OnCourse, Awaits
  <2>4. ReplyStands'
    <3> SUFFICES ASSUME NEW p \in pass.todo, First(pass', p)
                 PROVE  server[pass.coll][p.item] = server[pass.coll][o.item]
      BY <1>0, <2>1 DEF ReplyStands, First
    <3>1. First(pass, p) /\ First(pass, o) /\ p \in Ops
      BY <1>0, <2>1, TheOp DEF First
    <3>2. p # o => Precedes(o, p) /\ Precedes(p, o)
      BY <3>1 DEF First
    <3>3. /\ o.half \in {1, 2} /\ p.half \in {1, 2}
          /\ o.item \in Int /\ p.item \in Int
      BY <1>0, <3>1, CalDavAssumption DEF Ops
    <3> QED
      BY <3>2, <3>3 DEF Precedes
  <2> QED
    BY <1>0, <2>1, <2>2, <2>3, <2>4 DEF OnCourse, Working
<1> QED
  BY <1>1, <1>2 DEF Fetch

LEMMA StoreOnCourse ==
  ASSUME IInv, Homes, OnCourse, NEW o \in pass.todo, StoreFetched(o)
  PROVE  OnCourse'
<1> SUFFICES ASSUME calm PROVE OnCourse'
  BY DEF OnCourse, StoreFetched
<1> DEFINE i == o.item
           r == pass.reply
<1>0. /\ pass.coll \in Collections /\ Working /\ At(o) /\ First(pass, o) /\ o \in Ops
      /\ UNCHANGED <<setup, server, calm>>
      /\ r \in Bodies /\ r # None
      /\ server[pass.coll][i] = r
  BY TheOp, NoneAssumption DEF StoreFetched, OnCourse, Working, ReplyStands, IInv
<1>1. CASE Fail
  <2>1. pass'.phase = "failed" /\ pass'.coll = pass.coll
    BY <1>1 DEF Fail, IInv, TypeOK
  <2> QED
    BY <1>0, <2>1 DEF OnCourse, Working
<1>2. CASE Store(o)
  <2>1. /\ local' = [local EXCEPT ![i] = [body |-> r, at |-> pass.coll, etag |-> r]]
        /\ pass' = Finished(o)
    BY <1>2 DEF Store
  <2>2. /\ \A j \in Items : j # i => local'[j] = local[j]
        /\ local'[i] = [body |-> r, at |-> pass.coll, etag |-> r]
    BY <1>0, <2>1 DEF IInv, TypeOK, Ops
  <2>3. [body |-> r, at |-> pass.coll, etag |-> r] \in Copy
    BY <1>0 DEF Copy, Option
  <2>4. local'[i] # None /\ local'[i].etag = r
    <3>1. local'[i].etag = r
      BY <2>2
    <3> QED
      BY <2>2, <2>3, <3>1, CalDavAssumption
  <2>5. pass'.coll = pass.coll
    BY <2>1 DEF Finished, IInv, TypeOK
  <2>6. Settled(pass.coll, o.item)'
    BY <1>0, <2>4, <2>5 DEF Settled
  <2> QED
    BY <1>0, <2>1, <2>2, <2>6, FinishedOnCourse
<1>3. CASE r \in Foreign /\ pass' = Finished(o) /\ local' = local
  <2>1. pass'.coll = pass.coll
    BY <1>3 DEF Finished, IInv, TypeOK
  <2>2. Settled(pass.coll, o.item)'
    BY <1>0, <1>3, <2>1 DEF Settled
  <2> QED
    BY <1>0, <1>3, <2>2, FinishedOnCourse
<1> QED
  BY <1>1, <1>2, <1>3 DEF StoreFetched

LEMMA DeleteOnCourse ==
  ASSUME IInv, Homes, OnCourse, NEW o \in pass.todo, DeleteLocalFile(o)
  PROVE  OnCourse'
<1> SUFFICES ASSUME calm PROVE OnCourse'
  BY DEF OnCourse, DeleteLocalFile
<1> DEFINE i == o.item
<1>0. /\ Working /\ At(o) /\ o \in Ops /\ Awaits(o) /\ OpOK(pass, o)
      /\ o.kind = "DeleteLocal" /\ pass' = Finished(o)
      /\ UNCHANGED <<setup, server, calm>>
      /\ local' = [local EXCEPT ![i] = None]
  BY TheOp DEF DeleteLocalFile, OnCourse, Working
<1>1. /\ \A j \in Items : j # i => local'[j] = local[j]
      /\ local'[i] = None
  BY <1>0 DEF IInv, TypeOK, Ops
<1>2. ASSUME \A p \in pass.todo \ {o} : p.item # o.item
      PROVE  Settled(pass.coll, o.item)'
  <2>1. [item |-> i, half |-> 2, kind |-> "Pull"] \notin pass.todo
    <3>1. [item |-> i, half |-> 2, kind |-> "Pull"] # o
      BY <1>0
    <3> QED
      BY <1>2, <3>1
  <2>2. server[pass.coll][i] = None
    BY <1>0, <2>1 DEF Awaits
  <2>3. pass'.coll = pass.coll
    BY <1>0 DEF Finished, IInv, TypeOK
  <2> QED
    BY <1>0, <1>1, <2>2, <2>3, NoneAssumption DEF Settled
<1> QED
  BY <1>0, <1>1, <1>2, FinishedOnCourse

LEMMA StepOnCourse ==
  ASSUME IInv, Homes, OnCourse, [Next]_vars
  PROVE  OnCourse'
<1>1. CASE UserStep
  BY <1>1, UserFrame DEF UserActs, OnCourse
<1>2. ASSUME NEW c \in Collections, BeginPass(c)
      PROVE  OnCourse'
  <2>1. CASE calm' = FALSE
    BY <2>1 DEF OnCourse
  <2>2. CASE pass' = [coll |-> c, phase |-> "list", loaded |-> Loaded(c), todo |-> {},
                      reply |-> None]
    <3>1. pass'.coll = c /\ pass'.phase = "list" /\ pass'.loaded = Loaded(c)
      BY <2>2
    <3>2. UNCHANGED <<setup, local>>
      BY <1>2 DEF BeginPass
    <3>3. Loaded(pass.coll)' = Loaded(c)
      BY <3>1, <3>2 DEF Loaded, Stores
    <3> QED
      BY <3>1, <3>3 DEF OnCourse, Working
  <2> QED
    BY <1>2, <2>1, <2>2 DEF BeginPass
<1>3. CASE EndPass
  <2>1. /\ pass'.coll = pass.coll /\ pass'.phase = "done" /\ pass'.todo = pass.todo
        /\ UNCHANGED <<setup, local, server, calm>> /\ Working
    BY <1>3 DEF EndPass, IInv, TypeOK, Working
  <2>2. ASSUME calm, NEW i \in Items, Stores(pass.coll, i)', Untouched(i)'
        PROVE  Settled(pass.coll, i)'
    <3>1. Stores(pass.coll, i) /\ Untouched(i)
      BY <2>1, <2>2 DEF Stores, Untouched
    <3>2. Settled(pass.coll, i)
      BY <2>1, <2>2, <3>1 DEF OnCourse
    <3> QED
      BY <2>1, <3>2 DEF Settled
  <2>3. ~Working'
    BY <2>1 DEF Working
  <2> QED
    BY <2>1, <2>2, <2>3 DEF OnCourse
<1>4. CASE LoseRequest
  BY <1>4 DEF LoseRequest, OnCourse
<1>5. CASE UNCHANGED <<setup, local, server, pass, calm>>
  BY <1>5 DEF OnCourse, Loaded, Stores, Working, Untouched, Settled, Awaits, ReplyStands, First,
              Precedes, Unlinked
<1>6. UNCHANGED vars \/ (\E targets \in SUBSET Collections : Command(targets)) =>
        UNCHANGED <<setup, local, server, pass, calm>>
  BY DEF vars, Command
<1> QED
  BY <1>1, <1>2, <1>3, <1>4, <1>5, <1>6, PassSteps, ListOnCourse, PushOnCourse, StampOnCourse,
     FetchOnCourse, StoreOnCourse, DeleteOnCourse DEF Next

-----------------------------------------------------------------------------
(* Of a series that was never linked the server knows nothing, but while    *)
(* its upload is being stamped.                                             *)

Begun ==
  /\ \A i \in Items : local[i] # None => held[i] # {}
  /\ \A c \in Collections, i \in Items : server[c][i] # None => kept[c][i] # {}

Stamping(i) == pass.phase = "stamp" /\ \E o \in pass.todo : First(pass, o) /\ o.item = i

NewIsUnkept(i) ==
  LET c == setup.home[i]
  IN  faults = 0 /\ setup.kind[c] = "events" /\ Unlinked(local[i]) /\ kept[c][i] # {} =>
        Stamping(i) /\ pass.coll = c

NewAreUnkept == Begun /\ \A i \in Items : NewIsUnkept(i)

\* An item as the configuration has it.
LEMMA HomeIsCollection ==
  ASSUME TypeOK, NEW i \in Items
  PROVE  setup.home[i] \in Collections
BY DEF TypeOK, Setup

\* The upload of a new series meets nothing.
LEMMA NewUploadFits ==
  ASSUME IInv, Homes, OnCourse, NewAreUnkept, calm, faults = 0,
         setup.kind[pass.coll] = "events", NEW o \in pass.todo,
         pass.phase = "ops", o.kind = "Push"
  PROVE  server[pass.coll][o.item] = None
<1>1. /\ pass.coll \in Collections /\ Awaits(o) /\ Working /\ Running /\ o.item \in Items
  BY TheOp DEF OnCourse, Working, Running, Ops
<1>2. Stores(pass.coll, o.item) /\ Unlinked(local[o.item])
  BY <1>1 DEF Awaits, Homes
<1>3. setup.home[o.item] = pass.coll
  BY <1>2 DEF Stores
<1>4. kept[pass.coll][o.item] = {}
  BY <1>1, <1>2, <1>3 DEF NewAreUnkept, NewIsUnkept, Stamping
<1> QED
  BY <1>1, <1>4 DEF NewAreUnkept, Begun

LEMMA UserBegun ==
  ASSUME IInv, Begun, UserStep
  PROVE  Begun'
<1>1. /\ local \in [Items -> Option(Copy)] /\ held \in [Items -> SUBSET Bodies]
      /\ server \in [Collections -> [Items -> Option(Bodies)]]
      /\ kept \in [Collections -> [Items -> SUBSET Bodies]]
  BY DEF IInv, TypeOK
<1>2. ASSUME NEW i \in Items, NEW b \in Bodies, LocalCreate(i, b) \/ LocalEdit(i, b)
      PROVE  Begun'
  <2>1. /\ UNCHANGED <<server, kept>>
        /\ held' = [held EXCEPT ![i] = @ \cup {b}]
        /\ \A j \in Items : j # i => local'[j] = local[j]
    BY <1>1, <1>2 DEF LocalCreate, LocalEdit, LocalUserActs, Holding
  <2>2. held'[i] # {} /\ \A j \in Items : j # i => held'[j] = held[j]
    BY <1>1, <2>1
  <2> QED
    BY <2>1, <2>2 DEF Begun
<1>3. ASSUME NEW i \in Items, LocalDelete(i) \/ PairingLinks(i)
      PROVE  Begun'
  <2>1. /\ UNCHANGED <<server, kept, held>>
        /\ \A j \in Items : j # i => local'[j] = local[j]
    BY <1>1, <1>3 DEF LocalDelete, PairingLinks, LocalUserActs
  <2>2. local[i] # None
    BY <1>3 DEF LocalDelete, PairingLinks
  <2> QED
    BY <2>1, <2>2 DEF Begun
<1>4. ASSUME NEW c \in Collections, NEW i \in Items, ServerDelete(c, i)
      PROVE  Begun'
  <2>1. UNCHANGED <<local, held, kept>>
    BY <1>4 DEF ServerDelete
  <2>2. \A d \in Collections, j \in Items : server'[d][j] # None => server[d][j] # None
    BY <1>1, <1>4 DEF ServerDelete
  <2> QED
    BY <2>1, <2>2 DEF Begun
<1>5. ASSUME NEW c \in Collections, NEW i \in Items, NEW b \in Bodies, ServerWrite(c, i, b)
      PROVE  Begun'
  <2>1. UNCHANGED <<local, held>>
    BY <1>5 DEF ServerWrite
  <2>2. \A d \in Collections, j \in Items :
          IF d = c /\ j = i THEN kept'[d][j] # {}
          ELSE server'[d][j] = server[d][j] /\ kept'[d][j] = kept[d][j]
    BY <1>1, <1>5 DEF ServerWrite
  <2> QED
    BY <2>1, <2>2 DEF Begun
<1> QED
  BY <1>2, <1>3, <1>4, <1>5 DEF UserStep

LEMMA PassBegun ==
  ASSUME IInv, Begun, NEW o \in pass.todo,
         Push(o) \/ StampPushed(o) \/ Fetch(o) \/ StoreFetched(o) \/ DeleteLocalFile(o)
  PROVE  Begun'
<1>1. /\ local \in [Items -> Option(Copy)] /\ held \in [Items -> SUBSET Bodies]
      /\ server \in [Collections -> [Items -> Option(Bodies)]]
      /\ kept \in [Collections -> [Items -> SUBSET Bodies]]
      /\ o.item \in Items /\ pass.coll \in Collections
  BY TheOp DEF IInv, TypeOK, Ops, Running, Push, StampPushed, Fetch, StoreFetched,
               DeleteLocalFile
<1>2. CASE UNCHANGED <<local, held, server, kept>>
  BY <1>2 DEF Begun
<1>3. ASSUME UNCHANGED <<server, kept>>, NEW b, NEW copy,
             local' = [local EXCEPT ![o.item] = copy],
             held' = [held EXCEPT ![o.item] = @ \cup {b}]
      PROVE  Begun'
  <2>1. /\ held'[o.item] # {}
        /\ \A j \in Items : j # o.item => held'[j] = held[j] /\ local'[j] = local[j]
    BY <1>1, <1>3
  <2> QED
    BY <1>3, <2>1 DEF Begun
<1>4. CASE Push(o) /\ Upload(o.item, pass.loaded[o.item].body)
  <2>1. UNCHANGED <<local, held>>
    BY <1>4 DEF Push
  <2>2. \A d \in Collections, j \in Items :
          IF d = pass.coll /\ j = o.item THEN kept'[d][j] # {}
          ELSE server'[d][j] = server[d][j] /\ kept'[d][j] = kept[d][j]
    BY <1>1, <1>4 DEF Upload
  <2> QED
    BY <2>1, <2>2 DEF Begun
<1>5. CASE DeleteLocalFile(o)
  <2>1. /\ UNCHANGED <<held, server, kept>>
        /\ \A j \in Items : local'[j] # None => local[j] # None
    BY <1>1, <1>5 DEF DeleteLocalFile
  <2> QED
    BY <2>1 DEF Begun
<1>6. CASE StampPushed(o)
  BY <1>3, <1>6 DEF StampPushed, Holding
<1>7. CASE StoreFetched(o)
  BY <1>2, <1>3, <1>7 DEF StoreFetched, Store, Holding
<1> QED
  BY <1>2, <1>4, <1>5, <1>6, <1>7 DEF Push, Fetch

LEMMA StepBegun ==
  ASSUME IInv, Begun, [Next]_vars
  PROVE  Begun'
<1>1. CASE \/ \E targets \in SUBSET Collections : Command(targets)
           \/ \E c \in Collections : BeginPass(c)
           \/ List \/ EndPass \/ LoseRequest \/ UNCHANGED vars
  <2>1. UNCHANGED <<local, held, server, kept>>
    BY <1>1 DEF Command, BeginPass, List, EndPass, LoseRequest, vars
  <2> QED
    BY <2>1 DEF Begun
<1> QED
  BY <1>1, UserBegun, PassBegun, PassSteps DEF Next

\* A step after which no file is new that was not, nor known to a server that
\* did not know it, while no stamp is finished.
LEMMA SameUnkept ==
  ASSUME IInv, NewAreUnkept, NEW i \in Items, setup' = setup,
         faults' = 0 => faults = 0,
         Unlinked(local'[i]) => Unlinked(local[i]),
         kept'[setup.home[i]][i] = kept[setup.home[i]][i],
         UNCHANGED pass \/ pass.phase # "stamp"
  PROVE  NewIsUnkept(i)'
<1>1. NewIsUnkept(i)
  BY DEF NewAreUnkept
<1>2. Stamping(i) => Stamping(i)' /\ pass'.coll = pass.coll
  BY DEF Stamping, First, Precedes
<1> QED
  BY <1>1, <1>2 DEF NewIsUnkept

LEMMA UserUnkept ==
  ASSUME IInv, NewAreUnkept, UserStep, NEW i \in Items
  PROVE  NewIsUnkept(i)'
<1>0. /\ UNCHANGED <<setup, queue, pass, faults>>
      /\ setup.home[i] \in Collections
      /\ local \in [Items -> Option(Copy)]
      /\ kept \in [Collections -> [Items -> SUBSET Bodies]]
  BY UserFrame, HomeIsCollection DEF IInv, TypeOK
<1>1. ASSUME NEW j \in Items, NEW b \in Bodies, LocalCreate(j, b)
      PROVE  NewIsUnkept(i)'
  <2>1. UNCHANGED kept /\ \A k \in Items : k # j => local'[k] = local[k]
    BY <1>0, <1>1 DEF LocalCreate, LocalUserActs
  <2>2. i = j => kept[setup.home[i]][i] = {}
    BY <1>0, <1>1 DEF LocalCreate, Unborn
  <2> QED
    BY <1>0, <2>1, <2>2, SameUnkept DEF NewIsUnkept
<1>2. ASSUME NEW j \in Items, NEW b \in Bodies, LocalEdit(j, b)
      PROVE  NewIsUnkept(i)'
  <2>1. /\ UNCHANGED kept /\ local[j] # None /\ local[j] \in Copy
        /\ local' = [local EXCEPT ![j] = [local[j] EXCEPT !.body = b]]
    BY <1>0, <1>2 DEF LocalEdit, LocalUserActs, Option
  <2>2. /\ \A k \in Items : k # j => local'[k] = local[k]
        /\ local'[j] = [local[j] EXCEPT !.body = b]
    BY <1>0, <2>1
  <2>3. local'[j].at = local[j].at
    BY <2>1, <2>2 DEF Copy
  <2>4. Unlinked(local'[i]) => Unlinked(local[i])
    BY <2>1, <2>2, <2>3 DEF Unlinked
  <2> QED
    BY <1>0, <2>1, <2>4, SameUnkept
<1>3. ASSUME NEW j \in Items, LocalDelete(j)
      PROVE  NewIsUnkept(i)'
  <2>1. UNCHANGED kept /\ (Unlinked(local'[i]) => Unlinked(local[i]))
    BY <1>0, <1>3 DEF LocalDelete, LocalUserActs, Unlinked
  <2> QED
    BY <1>0, <2>1, SameUnkept
<1>4. ASSUME NEW j \in Items, PairingLinks(j)
      PROVE  NewIsUnkept(i)'
  <2>1. /\ UNCHANGED kept /\ setup.kind[setup.home[j]] = "tasks"
        /\ \A k \in Items : k # j => local'[k] = local[k]
    BY <1>0, <1>4 DEF PairingLinks, LocalUserActs
  <2>2. CASE i = j
    BY <1>0, <2>1, <2>2 DEF NewIsUnkept
  <2>3. CASE i # j
    BY <1>0, <2>1, <2>3, SameUnkept
  <2> QED
    BY <2>2, <2>3
<1>5. ASSUME NEW c \in Collections, NEW j \in Items, ServerDelete(c, j)
      PROVE  NewIsUnkept(i)'
  <2>1. UNCHANGED <<local, kept>>
    BY <1>5 DEF ServerDelete
  <2> QED
    BY <1>0, <2>1, SameUnkept
<1>6. ASSUME NEW c \in Collections, NEW j \in Items, NEW b \in Bodies, ServerWrite(c, j, b)
      PROVE  NewIsUnkept(i)'
  <2>1. /\ UNCHANGED local
        /\ kept[c][j] # {} \/ held[j] = {}
        /\ \A d \in Collections, k \in Items :
              ~(d = c /\ k = j) => kept'[d][k] = kept[d][k]
    BY <1>0, <1>6 DEF ServerWrite, Unborn
  <2>2. CASE c = setup.home[i] /\ i = j
    <3>1. kept[c][i] # {} \/ ~Unlinked(local[i])
      BY <2>1, <2>2 DEF NewAreUnkept, Begun, Unlinked
    <3>2. Stamping(i)' <=> Stamping(i)
      BY <1>0 DEF Stamping, First, Precedes
    <3>3. NewIsUnkept(i)
      BY DEF NewAreUnkept
    <3> QED
      BY <1>0, <2>1, <2>2, <3>1, <3>2, <3>3 DEF NewIsUnkept
  <2>3. CASE ~(c = setup.home[i] /\ i = j)
    BY <1>0, <2>1, <2>3, SameUnkept
  <2> QED
    BY <2>2, <2>3
<1> QED
  BY <1>1, <1>2, <1>3, <1>4, <1>5, <1>6 DEF UserStep

LEMMA PassUnkept ==
  ASSUME IInv, NewAreUnkept, NEW i \in Items, NEW o \in pass.todo,
         Push(o) \/ StampPushed(o) \/ Fetch(o) \/ StoreFetched(o) \/ DeleteLocalFile(o)
  PROVE  NewIsUnkept(i)'
<1>0. /\ setup' = setup /\ setup.home[i] \in Collections
      /\ local \in [Items -> Option(Copy)] /\ faults \in Nat
      /\ kept \in [Collections -> [Items -> SUBSET Bodies]]
      /\ o.item \in Items /\ pass.coll \in Collections /\ At(o) /\ First(pass, o) /\ o \in Ops
  BY HomeIsCollection, TheOp DEF IInv, TypeOK, Ops, Running, Push, StampPushed, Fetch,
     StoreFetched, DeleteLocalFile
<1>1. CASE Push(o) /\ Upload(o.item, pass.loaded[o.item].body)
  <2>1. /\ UNCHANGED local /\ pass.phase = "ops"
        /\ \A d \in Collections, k \in Items :
              ~(d = pass.coll /\ k = o.item) => kept'[d][k] = kept[d][k]
        /\ faults' = faults \/ faults' = faults + 1
    BY <1>0, <1>1 DEF Push, Upload
  <2>2. CASE faults' = faults + 1
    BY <1>0, <2>2 DEF NewIsUnkept
  <2>3. CASE \E etag : pass' = [pass EXCEPT !.phase = "stamp", !.reply = etag]
    <3>1. /\ pass'.phase = "stamp" /\ pass'.coll = pass.coll /\ pass'.todo = pass.todo
      BY <2>3 DEF IInv, TypeOK
    <3>2. Stamping(o.item)'
      BY <1>0, <3>1 DEF Stamping, First
    <3>3. CASE i = o.item /\ setup.home[i] = pass.coll
      BY <3>1, <3>2, <3>3, <1>0 DEF NewIsUnkept
    <3>4. CASE ~(i = o.item /\ setup.home[i] = pass.coll)
      <4>1. kept'[setup.home[i]][i] = kept[setup.home[i]][i]
        BY <1>0, <2>1, <3>4
      <4>2. faults' = 0 => faults = 0
        BY <1>0, <2>1
      <4> QED
        BY <1>0, <2>1, <4>1, <4>2, SameUnkept
    <3> QED
      BY <3>3, <3>4
  <2> QED
    BY <1>1, <2>2, <2>3 DEF Upload
<1>2. CASE StampPushed(o)
  <2>1. /\ UNCHANGED <<kept, faults>> /\ pass' = Finished(o)
        /\ \E b : local' = [local EXCEPT ![o.item] =
                              [body |-> b, at |-> pass.coll, etag |-> pass.reply]]
    BY <1>2 DEF StampPushed
  <2>2. /\ \A k \in Items : k # o.item => local'[k] = local[k]
        /\ local'[o.item].at = pass.coll
    BY <1>0, <2>1
  <2>3. ~Unlinked(local'[o.item])
    BY <1>0, <2>2, CalDavAssumption DEF Unlinked
  <2>4. CASE i = o.item
    BY <2>3, <2>4 DEF NewIsUnkept
  <2>5. CASE i # o.item
    <3>1. ~Stamping(i)
      <4>1. ASSUME NEW p \in pass.todo, First(pass, p), p.item = i
            PROVE  FALSE
        <5>1. p \in Ops /\ p # o
          BY <2>5, <4>1, TheOp
        <5>2. Precedes(o, p) /\ Precedes(p, o)
          BY <1>0, <4>1, <5>1 DEF First
        <5>3. /\ o.half \in {1, 2} /\ p.half \in {1, 2}
              /\ o.item \in Int /\ p.item \in Int
          BY <1>0, <5>1, CalDavAssumption DEF Ops
        <5> QED
          BY <5>2, <5>3 DEF Precedes
      <4> QED
        BY <4>1 DEF Stamping
    <3>2. NewIsUnkept(i)
      BY DEF NewAreUnkept
    <3> QED
      BY <1>0, <2>1, <2>2, <2>5, <3>1, <3>2 DEF NewIsUnkept
  <2> QED
    BY <2>4, <2>5
<1>3. CASE StoreFetched(o)
  <2>1. /\ UNCHANGED <<kept, faults>> /\ pass.phase = "store"
        /\ \/ UNCHANGED local
           \/ local' = [local EXCEPT ![o.item] =
                          [body |-> pass.reply, at |-> pass.coll, etag |-> pass.reply]]
    BY <1>3 DEF StoreFetched, Store
  <2>2. \/ local'[i] = local[i]
        \/ local'[i] = [body |-> pass.reply, at |-> pass.coll, etag |-> pass.reply]
    BY <1>0, <2>1
  <2>3. Unlinked(local'[i]) => Unlinked(local[i])
    BY <1>0, <2>2, CalDavAssumption DEF Unlinked
  <2> QED
    BY <1>0, <2>1, <2>3, SameUnkept
<1>4. CASE DeleteLocalFile(o)
  <2>1. /\ UNCHANGED <<kept, faults>> /\ pass.phase = "ops"
        /\ Unlinked(local'[i]) => Unlinked(local[i])
    BY <1>0, <1>4 DEF DeleteLocalFile, Unlinked
  <2> QED
    BY <1>0, <2>1, SameUnkept
<1>5. CASE pass.phase = "ops" /\ UNCHANGED <<local, kept, faults>>
  BY <1>0, <1>5, SameUnkept
<1> QED
  BY <1>1, <1>2, <1>3, <1>4, <1>5 DEF Push, Fetch

LEMMA StepUnkept ==
  ASSUME IInv, NewAreUnkept, [Next]_vars
  PROVE  NewAreUnkept'
<1>1. Begun'
  BY StepBegun DEF NewAreUnkept
<1> SUFFICES ASSUME NEW i \in Items PROVE NewIsUnkept(i)'
  BY <1>1 DEF NewAreUnkept
<1>2. CASE \/ \E targets \in SUBSET Collections : Command(targets)
           \/ \E c \in Collections : BeginPass(c)
           \/ List \/ EndPass \/ LoseRequest \/ UNCHANGED vars
  <2>1. /\ UNCHANGED <<setup, local, kept>>
        /\ UNCHANGED pass \/ pass.phase # "stamp"
        /\ faults' = faults \/ faults' = faults + 1
    BY <1>2 DEF Command, BeginPass, List, EndPass, LoseRequest, vars, Running
  <2>2. faults' = 0 => faults = 0
    BY <2>1 DEF IInv, TypeOK
  <2> QED
    BY <2>1, <2>2, SameUnkept
<1> QED
  BY <1>2, UserUnkept, PassUnkept, PassSteps DEF Next

\* What makes a pass over a calendar that nobody interferes with get to its end.
LEMMA StepCompletes ==
  ASSUME IInv, Homes, OnCourse, NewAreUnkept, PassCompletes, [Next]_vars
  PROVE  PassCompletes'
<1> SUFFICES ASSUME calm', faults' = 0, setup'.kind[pass'.coll] = "events"
             PROVE  pass'.phase # "failed"
  BY DEF PassCompletes
<1>1. CASE UserStep
  BY <1>1, UserFrame DEF UserActs
<1>2. CASE UNCHANGED <<setup, pass, faults, calm>>
  BY <1>2 DEF PassCompletes
<1>3. CASE \/ \E c \in Collections : BeginPass(c)
           \/ List \/ EndPass \/ LoseRequest
  <2>1. CASE List \/ EndPass
    BY <2>1 DEF List, EndPass, IInv, TypeOK
  <2>2. CASE LoseRequest
    BY <2>2 DEF LoseRequest
  <2>3. ASSUME NEW c \in Collections, BeginPass(c)
        PROVE  pass'.phase # "failed"
    BY <2>3 DEF BeginPass
  <2> QED
    BY <1>3, <2>1, <2>2, <2>3
<1>4. ASSUME NEW o \in pass.todo,
             Push(o) \/ StampPushed(o) \/ Fetch(o) \/ StoreFetched(o) \/ DeleteLocalFile(o)
      PROVE  pass'.phase # "failed"
  <2>1. CASE \/ pass' = Finished(o)
             \/ \E to \in {"stamp", "store"} : \E r : pass' = [pass EXCEPT !.phase = to, !.reply = r]
    BY <2>1 DEF Finished, IInv, TypeOK
  <2>2. CASE Fail
    <3>1. /\ pass'.coll = pass.coll /\ setup' = setup /\ calm /\ faults = 0
      BY <1>4, <2>2 DEF Fail, Push, Upload, StampPushed, Fetch, StoreFetched, DeleteLocalFile,
                        IInv, TypeOK
    <3>2. CASE Push(o)
      <4>1. pass.phase = "ops" /\ o.kind = "Push"
        BY <3>2 DEF Push
      <4>2. setup.kind[pass.coll] = "events"
        BY <3>1
      <4>3. server[pass.coll][o.item] = None
        BY <3>1, <4>1, <4>2, NewUploadFits
      <4>4. \E etag : pass' = [pass EXCEPT !.phase = "stamp", !.reply = etag]
        BY <3>1, <3>2, <4>3 DEF Push, Upload
      <4> QED
        BY <4>4 DEF IInv, TypeOK
    <3>3. CASE Fetch(o)
      <4>1. server[pass.coll][o.item] # None
        BY <3>1, <3>3 DEF Fetch, OnCourse, Working, Awaits
      <4> QED
        BY <3>3, <4>1 DEF Fetch, Fail, IInv, TypeOK
    <3>4. CASE StoreFetched(o)
      BY <3>1, <3>4, <2>1 DEF StoreFetched, Store
    <3>5. CASE StampPushed(o) \/ DeleteLocalFile(o)
      BY <2>1, <3>5 DEF StampPushed, DeleteLocalFile
    <3> QED
      BY <1>4, <3>2, <3>3, <3>4, <3>5
  <2> QED
    BY <1>4, <2>1, <2>2 DEF Push, Upload, StampPushed, Fetch, StoreFetched, Store,
                            DeleteLocalFile
<1>5. UNCHANGED vars \/ (\E targets \in SUBSET Collections : Command(targets)) =>
        UNCHANGED <<setup, pass, faults, calm>>
  BY DEF vars, Command
<1> QED
  BY <1>1, <1>2, <1>3, <1>4, <1>5, PassSteps DEF Next

LEMMA StartsOnCourse == Init => OnCourse /\ NewAreUnkept /\ PassCompletes
<1> SUFFICES ASSUME Init PROVE OnCourse /\ NewAreUnkept /\ PassCompletes
  OBVIOUS
<1>1. ~calm /\ \A i \in Items : local[i] = None
  BY DEF Init, NoFiles
<1>2. \A c \in Collections, i \in Items : server[c][i] = None
  BY DEF Init, NoFiles
<1> QED
  BY <1>1, <1>2 DEF OnCourse, NewAreUnkept, Begun, NewIsUnkept, Unlinked, PassCompletes

\* A pass that neither users nor lost messages disturb brings every change of
\* the server's into the client's vault if it ends (engine.rs:100-128), and one
\* over a calendar ends as long as no reply was ever lost, for any calendars and
\* task lists and whatever others did between the passes.
THEOREM CalDavPassServes == Spec => []PassServes
<1>1. Init => IInv /\ Homes /\ OnCourse /\ NewAreUnkept /\ PassCompletes
  BY InitOK, StartsHome, StartsOnCourse
<1>2. IInv /\ Homes /\ OnCourse /\ NewAreUnkept /\ PassCompletes /\ [Next]_vars =>
        (IInv /\ Homes /\ OnCourse /\ NewAreUnkept /\ PassCompletes)'
  BY StepOK, StepHomes, StepOnCourse, StepUnkept, StepCompletes
<1>3. IInv /\ OnCourse /\ PassCompletes => PassServes
  <2> SUFFICES ASSUME IInv, OnCourse, calm, pass.phase = "done", NEW i \in Items,
                      Stores(pass.coll, i)
               PROVE  Settled(pass.coll, i)
    BY DEF PassServes, PassDelivers, Settled
  <2>1. Untouched(i)
    BY DEF IInv, Untouched
  <2> QED
    BY <2>1 DEF OnCourse
<1> QED
  BY <1>1, <1>2, <1>3, PTL DEF Spec
=============================================================================
