------------------------- MODULE NativeSync_proofs -------------------------
(***************************************************************************)
(* Proofs about NativeSync, for every number of items, bodies, pairings    *)
(* and concurrent passes, and with every fault the model knows: crashes,   *)
(* lost messages, edits during a pass, undo and restore.  What a pass owes *)
(* the client's own edits is proved for orderly circumstances, at the end. *)
(***************************************************************************)
EXTENDS NativeSync, TLAPS

(***************************************************************************)
(* The inductive invariant.  `h` stands for held and `q` for published.    *)
(***************************************************************************)

\* What the code may rely on about a file of the client: its body has been in
\* the vault, and so has the body its etag names.
CopyHeld(h, i, c) ==
  c # None => /\ c.body \in h[i]
              /\ c.etag # None => c.etag \in h[i]

\* What it may rely on about a base entry for server p.
RefHeld(h, q, p, i, r) ==
  r # None => /\ r.etag \in q[p][i]
              /\ r.etag \in h[i]
              /\ r.hash \in h[i]

FileHeld(q, p, i, b) == b # None => b \in q[p][i]

\* An operation that uploads has a body to upload, and one that overwrites or
\* deletes a listed file was planned because the client holds that file.
OpOK(h, s, o) ==
  /\ o.kind \in {"PushCreate", "PushUpdate", "Conflict"} => s.loaded[o.item] # None
  /\ o.kind \in {"PushUpdate", "DeleteRemote"} =>
       s.listing[o.item] # None /\ s.listing[o.item] \in h[o.item]

First(s, o) == o \in s.todo /\ \A p \in s.todo \ {o} : Precedes(o, p)

\* Between a request and the write that follows its reply.
ReplyOK(q, s, o) ==
  /\ s.phase \in {"stamp", "put", "store"} =>
       s.reply \in Bodies /\ s.reply \in q[s.pairing][o.item]
  /\ s.phase \in {"stamp", "put"} => s.loaded[o.item] # None
  /\ s.phase = "stamp" => s.reply = s.loaded[o.item].body
  /\ s.phase = "put" => LocalWins(s.loaded[o.item].body, s.reply)

VaultsOK(h, q, p, i, s) ==
  /\ CopyHeld(h, i, s.loaded[i])
  /\ RefHeld(h, q, p, i, s.base[i])
  /\ FileHeld(q, p, i, s.listing[i])

PassOK(h, q, s) ==
  /\ s.phase = "idle" => s = Idle
  /\ s.phase = "list" => s.todo = {}
  /\ s.phase # "idle" =>
       /\ s.pairing \in Pairings
       /\ \A i \in Items : VaultsOK(h, q, s.pairing, i, s)
       /\ \A o \in s.todo : OpOK(h, s, o) /\ (First(s, o) => ReplyOK(q, s, o))

FilesOK ==
  /\ \A i \in Items : CopyHeld(held, i, local[i]) /\ CopyHeld(held, i, earlier[i])
  /\ \A p \in Pairings, i \in Items :
       /\ RefHeld(held, published, p, i, saved[p][i])
       /\ FileHeld(published, p, i, server[p][i])

IInv ==
  /\ TypeOK
  /\ FilesOK
  /\ \A w \in Workers : PassOK(held, published, pass[w])

-----------------------------------------------------------------------------
(* Lemmas about the operators. *)

USE NoneAssumption, ConstantsAssumption

\* An operation of a plan comes from a local file or from a remote one.
LEMMA PlanCases ==
  ASSUME NEW bases, NEW locals, NEW remotes, DOMAIN locals = Items,
         NEW o \in Plan(bases, locals, remotes)
  PROVE  \/ \E i \in Items :
              /\ locals[i] # None
              /\ LocalOp(bases[i], locals[i], remotes[i]) # "Nothing"
              /\ o = [item |-> i, half |-> 1,
                      kind |-> LocalOp(bases[i], locals[i], remotes[i])]
         \/ \E i \in Items :
              /\ remotes[i] # None /\ ~Linked(locals[i])
              /\ o = [item |-> i, half |-> 2, kind |-> RemoteOp(bases[i], remotes[i])]
BY DEF Plan

\* A plan is made of well-formed operations.
LEMMA PlanType ==
  ASSUME NEW bases, NEW locals, NEW remotes, DOMAIN locals = Items
  PROVE  Plan(bases, locals, remotes) \in SUBSET [item : Items, half : {1, 2}, kind : Kinds]
<1> SUFFICES ASSUME NEW o \in Plan(bases, locals, remotes)
             PROVE  o \in [item : Items, half : {1, 2}, kind : Kinds]
  OBVIOUS
<1>1. ASSUME NEW i \in Items, LocalOp(bases[i], locals[i], remotes[i]) # "Nothing"
      PROVE  LocalOp(bases[i], locals[i], remotes[i]) \in Kinds
  BY <1>1 DEF LocalOp, Kinds
<1>2. \A i \in Items : RemoteOp(bases[i], remotes[i]) \in Kinds
  BY DEF RemoteOp, Kinds
<1> QED
  BY <1>1, <1>2, PlanCases

\* The base a plan starts from is made of entries that were saved and of
\* entries for files whose etag the server itself has just listed.
LEMMA PreparedType ==
  ASSUME NEW base \in Option(BaseRef), NEW l \in Option(LocalCopy), NEW r \in Option(Bodies)
  PROVE  PreparedRef(base, l, r) \in Option(BaseRef)
BY DEF PreparedRef, Option, BaseRef, LocalCopy, Linked

LEMMA PreparedHeld ==
  ASSUME NEW h, NEW q, NEW p, NEW i,
         NEW base \in Option(BaseRef), NEW l \in Option(LocalCopy), NEW r \in Option(Bodies),
         RefHeld(h, q, p, i, base), CopyHeld(h, i, l), FileHeld(q, p, i, r)
  PROVE  RefHeld(h, q, p, i, PreparedRef(base, l, r))
BY DEF PreparedRef, RefHeld, CopyHeld, FileHeld, Option, BaseRef, LocalCopy, Linked

\* A planned overwrite or delete names a body that the base recorded.
LEMMA PlanOK ==
  ASSUME NEW h, NEW q, NEW p, NEW bases \in [Items -> Option(BaseRef)],
         NEW locals \in [Items -> Option(LocalCopy)],
         NEW remotes \in [Items -> Option(Bodies)],
         \A i \in Items : RefHeld(h, q, p, i, bases[i]),
         NEW o \in Plan(bases, locals, remotes)
  PROVE  /\ o.kind \in {"PushCreate", "PushUpdate", "Conflict"} => locals[o.item] # None
         /\ o.kind \in {"PushUpdate", "DeleteRemote"} =>
              remotes[o.item] # None /\ remotes[o.item] \in h[o.item]
<1>2. CASE \E i \in Items : /\ locals[i] # None
                            /\ o = [item |-> i, half |-> 1,
                                    kind |-> LocalOp(bases[i], locals[i], remotes[i])]
  <2> PICK i \in Items : /\ locals[i] # None
                         /\ o = [item |-> i, half |-> 1,
                                 kind |-> LocalOp(bases[i], locals[i], remotes[i])]
    BY <1>2
  <2>1. o.item = i /\ o.kind = LocalOp(bases[i], locals[i], remotes[i])
    OBVIOUS
  <2>2. o.kind # "DeleteRemote"
    BY <2>1 DEF LocalOp
  <2>3. ASSUME o.kind = "PushUpdate"
        PROVE  remotes[i] # None /\ bases[i] # None /\ bases[i].etag = remotes[i]
    <3>1. locals[i] \in LocalCopy
      BY DEF Option
    <3>2. LocalChanged(bases[i], locals[i]) /\ ~RemoteChanged(bases[i], locals[i], remotes[i])
          /\ locals[i].linked /\ remotes[i] # None
      BY <2>1, <2>3, <3>1 DEF LocalOp, LocalCopy
    <3> QED
      BY <3>2 DEF LocalChanged, RemoteChanged
  <2> QED
    BY <2>1, <2>2, <2>3 DEF RefHeld
<1>3. CASE \E i \in Items : /\ remotes[i] # None
                            /\ o = [item |-> i, half |-> 2, kind |-> RemoteOp(bases[i], remotes[i])]
  BY <1>3 DEF RemoteOp, RefHeld
<1> QED
  BY <1>2, <1>3, PlanCases

\* What holds of a pass goes on holding while the histories grow.
LEMMA Frame ==
  ASSUME NEW h1, NEW q1, NEW h2, NEW q2, NEW s \in PassRecord,
         \A i \in Items : h1[i] \subseteq h2[i],
         \A p \in Pairings, i \in Items : q1[p][i] \subseteq q2[p][i],
         PassOK(h1, q1, s)
  PROVE  PassOK(h2, q2, s)
<1>1. \A o \in s.todo : o.item \in Items
  BY DEF PassRecord
<1>2. ASSUME s.phase # "idle", NEW i \in Items, VaultsOK(h1, q1, s.pairing, i, s),
             s.pairing \in Pairings
      PROVE  VaultsOK(h2, q2, s.pairing, i, s)
  BY <1>2 DEF VaultsOK, CopyHeld, RefHeld, FileHeld
<1>3. ASSUME s.phase # "idle", NEW o \in s.todo, OpOK(h1, s, o)
      PROVE  OpOK(h2, s, o)
  BY <1>1, <1>3 DEF OpOK
<1>4. ASSUME s.phase # "idle", NEW o \in s.todo, ReplyOK(q1, s, o), s.pairing \in Pairings
      PROVE  ReplyOK(q2, s, o)
  BY <1>1, <1>4 DEF ReplyOK
<1> QED
  BY <1>2, <1>3, <1>4 DEF PassOK

\* At most one operation is first.
LEMMA FirstUnique ==
  ASSUME NEW s \in PassRecord, NEW o, NEW p, First(s, o), First(s, p)
  PROVE  o = p
<1>1. o \in s.todo /\ p \in s.todo
  BY DEF First
<1>2. o.item \in Int /\ p.item \in Int /\ o.half \in {1, 2} /\ p.half \in {1, 2}
  BY <1>1 DEF PassRecord
<1> SUFFICES ASSUME o # p PROVE FALSE
  OBVIOUS
<1>3. Precedes(o, p) /\ Precedes(p, o)
  BY <1>1 DEF First
<1> QED
  BY <1>2, <1>3 DEF Precedes

-----------------------------------------------------------------------------
(* What the steps have in common. *)

LEMMA IdleType == Idle \in PassRecord
BY DEF Idle, PassRecord, NoFiles, Phases, Option

LEMMA IdleOK ==
  ASSUME NEW h, NEW q
  PROVE  PassOK(h, q, Idle)
BY DEF PassOK, Idle

\* The histories only grow.
Grow ==
  /\ held' \in [Items -> SUBSET Bodies]
  /\ published' \in [Pairings -> [Items -> SUBSET Bodies]]
  /\ \A i \in Items : held[i] \subseteq held'[i]
  /\ \A p \in Pairings, i \in Items : published[p][i] \subseteq published'[p][i]

PassesOK ==
  /\ pass \in [Workers -> PassRecord]
  /\ \A w \in Workers : PassOK(held, published, pass[w])

LEMMA SameHistories ==
  ASSUME TypeOK, UNCHANGED held, UNCHANGED published
  PROVE  Grow
BY DEF TypeOK, Grow

\* A step of process w that takes its pass to t leaves the others alone.
LEMMA Advance ==
  ASSUME TypeOK, PassesOK, Grow, NEW w \in Workers, NEW t \in PassRecord,
         pass' = [pass EXCEPT ![w] = t], PassOK(held', published', t)
  PROVE  PassesOK'
<1>1. pass' \in [Workers -> PassRecord]
  BY DEF TypeOK
<1>2. ASSUME NEW v \in Workers
      PROVE  PassOK(held', published', pass'[v])
  <2>1. CASE v = w
    BY <2>1 DEF TypeOK
  <2>2. CASE v # w
    <3>1. pass'[v] = pass[v] /\ pass[v] \in PassRecord
      BY <2>2 DEF TypeOK
    <3> HIDE DEF PassOK
    <3>2. PassOK(held, published, pass[v])
      BY DEF PassesOK
    <3> QED
      BY <3>1, <3>2, Frame DEF Grow
  <2> QED
    BY <2>1, <2>2
<1> QED
  BY <1>1, <1>2 DEF PassesOK

LEMMA StandStill ==
  ASSUME TypeOK, PassesOK, Grow, UNCHANGED pass
  PROVE  PassesOK'
<1> ASSUME NEW v \in Workers
    PROVE  PassOK(held', published', pass'[v])
  <2>1. pass'[v] = pass[v] /\ pass[v] \in PassRecord
    BY DEF TypeOK
  <2>2. PassOK(held, published, pass[v])
    BY DEF PassesOK
  <2> QED
    BY <2>1, <2>2, Frame DEF Grow
<1> QED
  BY DEF PassesOK

-----------------------------------------------------------------------------
(* The users' steps preserve the invariant. *)

LEMMA WriteLocalOK ==
  ASSUME IInv, LocalUserActs, NEW i \in Items,
         NEW copy \in Option(LocalCopy), NEW keep \in Option(LocalCopy),
         WriteLocal(i, copy, keep), CopyHeld(held', i, copy), CopyHeld(held, i, keep)
  PROVE  IInv'
<1>1. /\ local' \in [Items -> Option(LocalCopy)]
      /\ earlier' \in [Items -> Option(LocalCopy)]
      /\ edits' \in Nat
      /\ UNCHANGED <<server, saved, faults, published, pass>>
  BY DEF IInv, TypeOK, LocalUserActs, UserActs, WriteLocal, Option
<1>2. Grow
  BY DEF IInv, TypeOK, Grow, WriteLocal, LocalUserActs, Option, LocalCopy
<1>3. ASSUME NEW j \in Items
      PROVE  CopyHeld(held', j, local'[j]) /\ CopyHeld(held', j, earlier'[j])
  BY <1>2 DEF IInv, TypeOK, FilesOK, WriteLocal, CopyHeld, Grow
<1>4. ASSUME NEW p \in Pairings, NEW j \in Items
      PROVE  /\ RefHeld(held', published', p, j, saved'[p][j])
             /\ FileHeld(published', p, j, server'[p][j])
  BY <1>1, <1>2 DEF IInv, FilesOK, RefHeld, FileHeld, Grow
<1>5. PassesOK'
  BY <1>1, <1>2, StandStill DEF IInv, TypeOK, PassesOK
<1> QED
  BY <1>1, <1>2, <1>3, <1>4, <1>5 DEF IInv, TypeOK, FilesOK, PassesOK, Grow

\* What a user's step may write: the files there are, or no file.
LEMMA CopiesOK ==
  ASSUME IInv, NEW i \in Items
  PROVE  /\ local[i] \in Option(LocalCopy) /\ earlier[i] \in Option(LocalCopy)
         /\ CopyHeld(held, i, local[i]) /\ CopyHeld(held, i, earlier[i])
         /\ None \in Option(LocalCopy) /\ CopyHeld(held, i, None) /\ CopyHeld(held', i, None)
         /\ held \in [Items -> SUBSET Bodies]
BY DEF IInv, TypeOK, FilesOK, Option, CopyHeld

LEMMA LocalTakeOK ==
  ASSUME IInv, NEW i \in Items, LocalDelete(i) \/ LocalUndo(i)
  PROVE  IInv'
<1>1. CASE LocalDelete(i)
  BY <1>1, CopiesOK, WriteLocalOK DEF LocalDelete
<1>2. CASE LocalUndo(i)
  <2>1. CopyHeld(held', i, earlier[i])
    BY <1>2, CopiesOK DEF LocalUndo, WriteLocal, CopyHeld
  <2> QED
    BY <1>2, <2>1, CopiesOK, WriteLocalOK DEF LocalUndo
<1> QED
  BY <1>1, <1>2

LEMMA LocalWriteOK ==
  ASSUME IInv, NEW i \in Items, NEW b \in Bodies,
         LocalCreate(i, b) \/ LocalEdit(i, b) \/ LocalRestore(i, b)
  PROVE  IInv'
<1>3. CASE LocalCreate(i, b)
  <2> DEFINE copy == [body |-> b, linked |-> FALSE, etag |-> None]
  <2>1. copy \in Option(LocalCopy)
    BY DEF LocalCopy, Option
  <2>2. CopyHeld(held', i, copy)
    BY <1>3, CopiesOK DEF LocalCreate, WriteLocal, CopyHeld
  <2>3. LocalUserActs /\ WriteLocal(i, copy, None)
    BY <1>3 DEF LocalCreate
  <2> HIDE DEF copy
  <2> QED
    BY CopiesOK, <2>1, <2>2, <2>3, WriteLocalOK
<1>4. CASE LocalEdit(i, b)
  <2> DEFINE copy == [local[i] EXCEPT !.body = b]
  <2>1. copy \in LocalCopy /\ copy.body = b /\ copy.etag = local[i].etag
    BY <1>4, CopiesOK DEF LocalEdit, LocalCopy, Option
  <2>2. LocalUserActs /\ WriteLocal(i, copy, local[i]) /\ local[i] # None
    BY <1>4 DEF LocalEdit
  <2> HIDE DEF copy
  <2>3. CopyHeld(held', i, copy)
    BY CopiesOK, <2>1, <2>2 DEF WriteLocal, CopyHeld
  <2> QED
    BY CopiesOK, <2>1, <2>2, <2>3, WriteLocalOK DEF Option
<1>5. CASE LocalRestore(i, b)
  <2> DEFINE copy == [earlier[i] EXCEPT !.body = b]
  <2>1. copy \in LocalCopy /\ copy.body = b /\ copy.etag = earlier[i].etag
    BY <1>5, CopiesOK DEF LocalRestore, LocalCopy, Option
  <2>2. LocalUserActs /\ WriteLocal(i, copy, None) /\ earlier[i] # None
    BY <1>5 DEF LocalRestore
  <2> HIDE DEF copy
  <2>3. CopyHeld(held', i, copy)
    BY CopiesOK, <2>1, <2>2 DEF WriteLocal, CopyHeld
  <2> QED
    BY CopiesOK, <2>1, <2>2, <2>3, WriteLocalOK DEF Option
<1> QED
  BY <1>3, <1>4, <1>5

LEMMA ServerUserOK ==
  ASSUME IInv, NEW p \in Pairings,
         \/ Reimport(p)
         \/ \E i \in Items : ServerDelete(p, i) \/ \E b \in Bodies : ServerWrite(p, i, b)
  PROVE  IInv'
<1>1. /\ UNCHANGED <<local, earlier, saved, pass, faults, held>>
      /\ edits' \in Nat
      /\ Grow
      /\ server' \in [Pairings -> [Items -> Option(Bodies)]]
      /\ \A r \in Pairings, j \in Items : FileHeld(published', r, j, server'[r][j])
  <2>1. CASE \E i \in Items : ServerDelete(p, i)
    <3> PICK i \in Items : ServerDelete(p, i)
      BY <2>1
    <3>1. server' \in [Pairings -> [Items -> Option(Bodies)]]
      BY DEF IInv, TypeOK, ServerDelete, Option
    <3>2. \A r \in Pairings, j \in Items : FileHeld(published', r, j, server'[r][j])
      BY DEF IInv, TypeOK, FilesOK, FileHeld, ServerDelete
    <3> QED
      BY <3>1, <3>2, SameHistories DEF IInv, TypeOK, ServerDelete, UserActs
  <2>2. CASE \E i \in Items, b \in Bodies : ServerWrite(p, i, b)
    <3> PICK i \in Items, b \in Bodies : ServerWrite(p, i, b)
      BY <2>2
    <3>1. server' \in [Pairings -> [Items -> Option(Bodies)]]
      BY DEF IInv, TypeOK, ServerWrite, Option
    <3>2. Grow
      <4>1. /\ published \in [Pairings -> [Items -> SUBSET Bodies]]
            /\ held \in [Items -> SUBSET Bodies]
        BY DEF IInv, TypeOK
      <4>2. /\ published' = [published EXCEPT ![p][i] = @ \cup {b}]
            /\ held' = held
        BY DEF ServerWrite
      <4> QED
        BY <4>1, <4>2 DEF Grow
    <3>3. \A r \in Pairings, j \in Items : FileHeld(published', r, j, server'[r][j])
      BY DEF IInv, TypeOK, FilesOK, FileHeld, ServerWrite
    <3>4. UNCHANGED <<local, earlier, saved, pass, faults, held>>
      BY DEF ServerWrite
    <3>5. edits' \in Nat
      BY DEF IInv, TypeOK, ServerWrite, UserActs
    <3> QED
      BY <3>1, <3>2, <3>3, <3>4, <3>5
  <2>3. CASE Reimport(p)
    <3>1. server' \in [Pairings -> [Items -> Option(Bodies)]]
      BY <2>3 DEF IInv, TypeOK, Reimport, NoFiles, Option
    <3>2. \A r \in Pairings, j \in Items : FileHeld(published', r, j, server'[r][j])
      BY <2>3 DEF IInv, TypeOK, FilesOK, FileHeld, Reimport, NoFiles
    <3>3. UNCHANGED <<local, earlier, saved, pass, faults, held, published>>
      BY <2>3 DEF Reimport
    <3>4. edits' \in Nat
      BY <2>3 DEF IInv, TypeOK, Reimport, UserActs
    <3> QED
      BY <3>1, <3>2, <3>3, <3>4, SameHistories DEF IInv
  <2> QED
    BY <2>1, <2>2, <2>3
<1>2. /\ \A j \in Items : CopyHeld(held', j, local'[j]) /\ CopyHeld(held', j, earlier'[j])
      /\ \A r \in Pairings, j \in Items : RefHeld(held', published', r, j, saved'[r][j])
  BY <1>1 DEF IInv, FilesOK, CopyHeld, RefHeld, Grow
<1>3. PassesOK'
  BY <1>1, StandStill DEF IInv, TypeOK, PassesOK
<1> QED
  BY <1>1, <1>2, <1>3 DEF IInv, TypeOK, FilesOK, PassesOK, Grow

LEMMA UserOK ==
  ASSUME IInv, UserStep
  PROVE  IInv'
BY LocalTakeOK, LocalWriteOK, ServerUserOK DEF UserStep

-----------------------------------------------------------------------------
(* How a pass moves from one point of sync_tasks_http to the next. *)

\* s and t plan to do the same things with the same files.
SamePlan(s, t) ==
  /\ t.pairing = s.pairing /\ t.loaded = s.loaded /\ t.listing = s.listing
  /\ t.todo \subseteq s.todo

\* The base holds nothing the two sides did not hold.
BaseHeld(h, q, s) == \A i \in Items : RefHeld(h, q, s.pairing, i, s.base[i])

\* An operation is done, or the pass gives up.
LEMMA Onward ==
  ASSUME NEW h, NEW q, NEW s \in PassRecord, NEW t \in PassRecord,
         PassOK(h, q, s), s.phase # "idle", t.phase \in {"ops", "save"},
         SamePlan(s, t), BaseHeld(h, q, t)
  PROVE  PassOK(h, q, t)
<1>1. \A i \in Items : VaultsOK(h, q, t.pairing, i, t)
  BY DEF PassOK, VaultsOK, SamePlan, BaseHeld
<1>2. \A o \in t.todo : OpOK(h, t, o)
  BY DEF PassOK, OpOK, SamePlan
<1>3. \A o \in t.todo : ReplyOK(q, t, o)
  BY DEF ReplyOK
<1> QED
  BY <1>1, <1>2, <1>3 DEF PassOK, SamePlan

\* The first operation has its reply.
LEMMA Await ==
  ASSUME NEW h, NEW q, NEW s \in PassRecord, NEW t \in PassRecord, NEW o,
         PassOK(h, q, s), First(s, o), s.phase # "idle",
         t.phase \in {"stamp", "put", "store"},
         SamePlan(s, t), t.todo = s.todo, t.base = s.base, ReplyOK(q, t, o)
  PROVE  PassOK(h, q, t)
<1>1. \A i \in Items : VaultsOK(h, q, t.pairing, i, t)
  BY DEF PassOK, VaultsOK, SamePlan
<1>2. \A x \in t.todo : OpOK(h, t, x)
  BY DEF PassOK, OpOK, SamePlan
<1>3. \A x \in t.todo : First(t, x) => x = o
  <2> TAKE x \in t.todo
  <2> HAVE First(t, x)
  <2>1. First(s, x)
    BY DEF First
  <2> QED
    BY <2>1, FirstUnique
<1> QED
  BY <1>1, <1>2, <1>3 DEF PassOK, SamePlan

LEMMA SameBase ==
  ASSUME NEW h, NEW q, NEW s \in PassRecord, NEW t \in PassRecord,
         PassOK(h, q, s), s.phase # "idle", t.pairing = s.pairing, t.base = s.base
  PROVE  BaseHeld(h, q, t)
BY DEF PassOK, VaultsOK, BaseHeld

LEMMA FailOK ==
  ASSUME NEW h, NEW q, NEW s \in PassRecord, PassOK(h, q, s), s.phase # "idle"
  PROVE  /\ [s EXCEPT !.phase = "save"] \in PassRecord
         /\ PassOK(h, q, [s EXCEPT !.phase = "save"])
<1> DEFINE t == [s EXCEPT !.phase = "save"]
<1>1. t \in PassRecord /\ t.phase = "save" /\ SamePlan(s, t) /\ t.base = s.base
  BY DEF PassRecord, Phases, SamePlan
<1> HIDE DEF t
<1>2. BaseHeld(h, q, t)
  BY <1>1, SameBase DEF SamePlan
<1>3. PassOK(h, q, t)
  BY <1>1, <1>2, Onward
<1> QED
  BY <1>1, <1>3 DEF t

\* A step of a pass that touches no file and no history.
LEMMA Quiet ==
  ASSUME IInv, NEW w \in Workers, NEW t \in PassRecord,
         pass' = [pass EXCEPT ![w] = t], PassOK(held, published, t),
         UNCHANGED <<userVars, saved, held, published>>, faults' \in Nat
  PROVE  IInv'
<1>1. Grow
  BY SameHistories DEF IInv
<1>2. PassesOK'
  BY <1>1, Advance DEF IInv, PassesOK, TypeOK
<1>3. TypeOK'
  BY <1>2 DEF IInv, TypeOK, PassesOK, userVars
<1>4. FilesOK'
  BY DEF IInv, FilesOK, userVars
<1> QED
  BY <1>2, <1>3, <1>4 DEF IInv, PassesOK

-----------------------------------------------------------------------------
(* The steps of a pass preserve the invariant. *)

LEMMA ThePass ==
  ASSUME IInv, NEW w \in Workers
  PROVE  pass[w] \in PassRecord /\ PassOK(held, published, pass[w])
BY DEF IInv, TypeOK

\* An operation a pass is at.
LEMMA TheOp ==
  ASSUME IInv, NEW w \in Workers, NEW o \in pass[w].todo, pass[w].phase # "idle"
  PROVE  /\ o \in [item : Items, half : {1, 2}, kind : Kinds]
         /\ pass[w].pairing \in Pairings
         /\ OpOK(held, pass[w], o)
         /\ At(w, o) => First(pass[w], o) /\ ReplyOK(published, pass[w], o)
BY ThePass DEF PassRecord, PassOK, At, First

LEMMA BeginOK ==
  ASSUME IInv, NEW w \in Workers, NEW p \in Pairings, BeginPass(w, p)
  PROVE  IInv'
<1> DEFINE t == [Idle EXCEPT !.phase = "list", !.pairing = p,
                             !.base = saved[p], !.loaded = Loaded]
<1>1. pass[w] = Idle
  BY ThePass DEF BeginPass, PassOK
<1>2. pass' = [pass EXCEPT ![w] = t]
  BY <1>1 DEF BeginPass
<1>3. Loaded \in [Items -> Option(LocalCopy)] /\ \A i \in Items : CopyHeld(held, i, Loaded[i])
  BY DEF Loaded, IInv, TypeOK, FilesOK, CopyHeld, Option
<1>4. saved[p] \in [Items -> Option(BaseRef)]
      /\ \A i \in Items : RefHeld(held, published, p, i, saved[p][i])
  BY DEF IInv, TypeOK, FilesOK
<1>5. t \in PassRecord
  BY <1>3, <1>4 DEF Idle, PassRecord, NoFiles, Phases, Option
<1>6. PassOK(held, published, t)
  <2>1. t.phase = "list" /\ t.todo = {} /\ t.pairing = p /\ t.base = saved[p]
        /\ t.loaded = Loaded /\ t.listing = NoFiles
    BY DEF Idle
  <2> HIDE DEF t
  <2> QED
    BY <1>3, <1>4, <2>1 DEF PassOK, VaultsOK, FileHeld, NoFiles
<1> HIDE DEF t
<1> QED
  BY <1>2, <1>5, <1>6, Quiet DEF BeginPass, IInv, TypeOK

LEMMA ListOK ==
  ASSUME IInv, NEW w \in Workers, List(w)
  PROVE  IInv'
<1> DEFINE s == pass[w]
           p == s.pairing
           base == PrepareBase(s.base, s.loaded, server[p])
           t == [s EXCEPT !.phase = "ops", !.listing = server[p], !.base = base,
                          !.todo = Plan(base, s.loaded, server[p])]
<1>1. pass' = [pass EXCEPT ![w] = t]
  BY DEF List
<1>2. /\ s \in PassRecord /\ p \in Pairings
      /\ s.loaded \in [Items -> Option(LocalCopy)]
      /\ \A i \in Items : VaultsOK(held, published, p, i, s)
  BY ThePass DEF List, PassOK, PassRecord
<1>3. /\ server[p] \in [Items -> Option(Bodies)]
      /\ \A i \in Items : FileHeld(published, p, i, server[p][i])
  BY <1>2 DEF IInv, TypeOK, FilesOK
<1>4. /\ base \in [Items -> Option(BaseRef)]
      /\ \A i \in Items : RefHeld(held, published, p, i, base[i])
  <2>1. ASSUME NEW i \in Items
        PROVE  PreparedRef(s.base[i], s.loaded[i], server[p][i]) \in Option(BaseRef)
               /\ RefHeld(held, published, p, i,
                          PreparedRef(s.base[i], s.loaded[i], server[p][i]))
    <3>1. s.base[i] \in Option(BaseRef) /\ s.loaded[i] \in Option(LocalCopy)
          /\ server[p][i] \in Option(Bodies)
      BY <1>2, <1>3 DEF PassRecord
    <3>2. RefHeld(held, published, p, i, s.base[i]) /\ CopyHeld(held, i, s.loaded[i])
      BY <1>2 DEF VaultsOK
    <3> QED
      BY <1>3, <3>1, <3>2, PreparedType, PreparedHeld
  <2>2. base = [i \in Items |-> PreparedRef(s.base[i], s.loaded[i], server[p][i])]
    BY <1>2 DEF PrepareBase
  <2> QED
    BY <2>1, <2>2
<1>5. t \in PassRecord
  <2>1. Plan(base, s.loaded, server[p]) \in SUBSET [item : Items, half : {1, 2}, kind : Kinds]
    BY <1>2, PlanType
  <2> QED
    BY <1>2, <1>3, <1>4, <2>1 DEF PassRecord, Phases
<1>6. PassOK(held, published, t)
  <2>1. t.phase = "ops" /\ t.pairing = p /\ t.loaded = s.loaded /\ t.listing = server[p]
        /\ t.base = base /\ t.todo = Plan(base, s.loaded, server[p])
    BY <1>2 DEF PassRecord
  <2>2. \A i \in Items : VaultsOK(held, published, p, i, t)
    BY <1>2, <1>3, <1>4, <2>1 DEF VaultsOK
  <2>3. ASSUME NEW o \in t.todo
        PROVE  OpOK(held, t, o)
    <3>1. o \in Plan(base, s.loaded, server[p])
      BY <2>1
    <3> HIDE DEF base, t, s, p
    <3>2. /\ o.kind \in {"PushCreate", "PushUpdate", "Conflict"} => s.loaded[o.item] # None
          /\ o.kind \in {"PushUpdate", "DeleteRemote"} =>
               server[p][o.item] # None /\ server[p][o.item] \in held[o.item]
      BY <1>2, <1>3, <1>4, <3>1, PlanOK
    <3> QED
      BY <2>1, <3>2 DEF OpOK
  <2>4. \A o \in t.todo : ReplyOK(published, t, o)
    BY <2>1 DEF ReplyOK
  <2> QED
    BY <1>2, <2>1, <2>2, <2>3, <2>4 DEF PassOK
<1> HIDE DEF t
<1> QED
  BY <1>1, <1>5, <1>6, Quiet DEF List, IInv, TypeOK

LEMMA GiveUpOK ==
  ASSUME IInv, NEW w \in Workers, Fail(w), pass[w].phase # "idle",
         UNCHANGED <<userVars, saved, held, published>>, faults' \in Nat
  PROVE  IInv'
<1> DEFINE t == [pass[w] EXCEPT !.phase = "save"]
<1>1. pass' = [pass EXCEPT ![w] = t]
  BY DEF Fail
<1>2. t \in PassRecord /\ PassOK(held, published, t)
  BY ThePass, FailOK
<1> HIDE DEF t
<1> QED
  BY <1>1, <1>2, Quiet

LEMMA FetchOK ==
  ASSUME IInv, NEW w \in Workers, NEW o \in pass[w].todo, Fetch(w, o)
  PROVE  IInv'
<1> DEFINE s == pass[w]
           r == Remote(w, o.item)
           wins == o.kind = "Conflict" /\ LocalWins(s.loaded[o.item].body, r)
           t == [s EXCEPT !.reply = r, !.phase = IF wins THEN "put" ELSE "store"]
<1>1. s \in PassRecord /\ PassOK(held, published, s) /\ s.phase = "ops"
  BY ThePass DEF Fetch
<1>2. o.item \in Items /\ s.pairing \in Pairings /\ OpOK(held, s, o) /\ First(s, o)
  BY <1>1, TheOp DEF Fetch
<1>3. CASE r = None /\ Fail(w)
  BY <1>1, <1>3, GiveUpOK DEF Fetch, IInv, TypeOK
<1>4. CASE r # None /\ pass' = [pass EXCEPT ![w] = t]
  <2>1. r \in Bodies /\ r \in published[s.pairing][o.item]
    BY <1>2, <1>4 DEF Remote, IInv, TypeOK, FilesOK, FileHeld, Option
  <2>2. t \in PassRecord
    BY <1>1, <2>1 DEF PassRecord, Phases, Option
  <2>3. /\ SamePlan(s, t) /\ t.todo = s.todo /\ t.base = s.base /\ t.reply = r
        /\ t.phase = IF wins THEN "put" ELSE "store"
    BY <1>1 DEF PassRecord, SamePlan
  <2>4. ReplyOK(published, t, o)
    BY <1>2, <2>1, <2>3 DEF ReplyOK, OpOK, SamePlan
  <2> HIDE DEF t
  <2>5. PassOK(held, published, t)
    BY <1>1, <1>2, <2>2, <2>3, <2>4, Await
  <2> QED
    BY <1>4, <2>2, <2>5, Quiet DEF Fetch, IInv, TypeOK
<1> QED
  BY <1>3, <1>4 DEF Fetch

\* The server wrote or removed a file on behalf of process w, which is now at t.
LEMMA ServedOK ==
  ASSUME IInv, NEW w \in Workers, NEW i \in Items, NEW b \in Option(Bodies),
         pass[w].pairing \in Pairings, Write(w, i, b),
         NEW t \in PassRecord, pass' = [pass EXCEPT ![w] = t], PassOK(held, published', t),
         UNCHANGED <<local, earlier, saved, edits, held>>, faults' \in Nat
  PROVE  IInv'
<1>1. /\ server' \in [Pairings -> [Items -> Option(Bodies)]]
      /\ published' \in [Pairings -> [Items -> SUBSET Bodies]]
      /\ \A p \in Pairings, j \in Items : published[p][j] \subseteq published'[p][j]
      /\ \A p \in Pairings, j \in Items : FileHeld(published', p, j, server'[p][j])
  BY DEF Write, IInv, TypeOK, FilesOK, FileHeld, Option
<1>2. Grow
  BY <1>1 DEF Grow, IInv, TypeOK
<1>3. PassesOK'
  BY <1>2, Advance DEF IInv, PassesOK, TypeOK
<1>4. TypeOK'
  BY <1>1, <1>3 DEF IInv, TypeOK, PassesOK
<1>5. FilesOK'
  BY <1>1 DEF IInv, FilesOK, CopyHeld, RefHeld
<1> QED
  BY <1>3, <1>4, <1>5 DEF IInv, PassesOK

\* The histories after the server's write.
LEMMA Wrote ==
  ASSUME IInv, NEW w \in Workers, NEW i \in Items, NEW b \in Option(Bodies),
         pass[w].pairing \in Pairings, Write(w, i, b), UNCHANGED held
  PROVE  /\ PassOK(held, published', pass[w])
         /\ b # None => b \in published'[pass[w].pairing][i]
<1>1. /\ \A p \in Pairings, j \in Items : published[p][j] \subseteq published'[p][j]
      /\ b # None => b \in published'[pass[w].pairing][i]
  BY DEF Write, IInv, TypeOK
<1>2. PassOK(held, published', pass[w])
  BY <1>1, ThePass, Frame
<1> QED
  BY <1>1, <1>2

LEMMA PutOK ==
  ASSUME IInv, NEW w \in Workers, NEW o \in pass[w].todo, NEW expected,
         pass[w].phase \in {"ops", "put"}, At(w, o),
         pass[w].loaded[o.item] # None, Put(w, o.item, expected),
         UNCHANGED <<local, earlier, saved, edits, held>>
  PROVE  IInv'
<1> DEFINE s == pass[w]
           b == s.loaded[o.item].body
           t == [s EXCEPT !.phase = "stamp", !.reply = b]
<1>1. /\ s \in PassRecord /\ PassOK(held, published, s)
      /\ o.item \in Items /\ s.pairing \in Pairings /\ First(s, o)
  BY ThePass, TheOp
<1>2. b \in Bodies
  BY <1>1 DEF PassRecord, Option, LocalCopy
<1>3. CASE Fail(w) /\ UNCHANGED <<server, published, faults>>
  BY <1>3, GiveUpOK DEF userVars, IInv, TypeOK
<1>4. CASE Write(w, o.item, b) /\ Reply(w, pass' = [pass EXCEPT ![w] = t])
  <2>1. PassOK(held, published', s) /\ b \in published'[s.pairing][o.item]
    BY <1>1, <1>2, <1>4, Wrote, NoneAssumption DEF Option
  <2>2. faults' \in Nat
    BY <1>4 DEF Reply, IInv, TypeOK
  <2>3. CASE pass' = [pass EXCEPT ![w] = t]
    <3>1. t \in PassRecord
      BY <1>1, <1>2 DEF PassRecord, Phases, Option
    <3>2. /\ SamePlan(s, t) /\ t.todo = s.todo /\ t.base = s.base
          /\ t.reply = b /\ t.phase = "stamp"
      BY <1>1 DEF PassRecord, SamePlan
    <3> HIDE DEF t
    <3>3. ReplyOK(published', t, o)
      BY <1>2, <2>1, <3>2 DEF ReplyOK, SamePlan
    <3>4. PassOK(held, published', t)
      BY <1>1, <2>1, <3>1, <3>2, <3>3, Await
    <3> QED
      BY <1>1, <1>2, <1>4, <2>2, <2>3, <3>1, <3>4, ServedOK DEF Option
  <2>4. CASE Fail(w)
    <3> DEFINE u == [s EXCEPT !.phase = "save"]
    <3>1. u \in PassRecord /\ PassOK(held, published', u)
      BY <1>1, <2>1, FailOK
    <3>2. pass' = [pass EXCEPT ![w] = u]
      BY <2>4 DEF Fail
    <3> HIDE DEF u
    <3> QED
      BY <1>1, <1>2, <1>4, <2>2, <3>1, <3>2, ServedOK DEF Option
  <2> QED
    BY <1>4, <2>3, <2>4 DEF Reply
<1> QED
  BY <1>3, <1>4 DEF Put

LEMMA PushOK ==
  ASSUME IInv, NEW w \in Workers, NEW o \in pass[w].todo, Push(w, o)
  PROVE  IInv'
<1>1. pass[w].phase = "ops" /\ At(w, o) /\ o.kind \in {"PushCreate", "PushUpdate"}
  BY DEF Push
<1>2. pass[w].loaded[o.item] # None
  BY <1>1, TheOp DEF OpOK
<1> QED
  BY <1>1, <1>2, PutOK DEF Push

LEMMA PutWinnerOK ==
  ASSUME IInv, NEW w \in Workers, NEW o \in pass[w].todo, PutWinner(w, o)
  PROVE  IInv'
<1>1. pass[w].phase = "put" /\ At(w, o)
  BY DEF PutWinner
<1>2. pass[w].loaded[o.item] # None
  BY <1>1, TheOp DEF ReplyOK
<1> QED
  BY <1>1, <1>2, PutOK DEF PutWinner

\* The two sides agree on body b, which the client now holds or has held.
LEMMA AgreeOK ==
  ASSUME IInv, NEW w \in Workers, NEW o \in pass[w].todo, NEW b \in Bodies,
         NEW c \in Bodies,
         pass[w].phase # "idle", b \in published[pass[w].pairing][o.item],
         Agree(w, o, b, c),
         UNCHANGED <<earlier, server, saved, edits, faults, published>>
  PROVE  IInv'
<1> DEFINE s == pass[w]
           i == o.item
           ref == [etag |-> b, hash |-> b]
           t == [s EXCEPT !.phase = "ops", !.reply = None, !.todo = s.todo \ {o},
                          !.base = [s.base EXCEPT ![i] = ref]]
<1>1. /\ s \in PassRecord /\ PassOK(held, published, s)
      /\ i \in Items /\ s.pairing \in Pairings
  BY ThePass, TheOp
<1>2. ref \in BaseRef /\ ref.etag = b /\ ref.hash = b
  BY DEF BaseRef
<1>3. t \in PassRecord
  BY <1>1, <1>2 DEF PassRecord, Phases, Option
<1>4. pass' = [pass EXCEPT ![w] = t]
  <2>1. pass' = [pass EXCEPT ![w].phase = "ops", ![w].reply = None,
                             ![w].todo = @ \ {o}, ![w].base[o.item] = [etag |-> b, hash |-> b]]
    BY DEF Agree
  <2> HIDE DEF Agree
  <2> QED
    BY ONLY <2>1
<1>5. Grow /\ b \in held'[i] /\ c \in held'[i]
  BY <1>1 DEF Agree, Grow, IInv, TypeOK
<1>6. PassOK(held', published', s)
  BY <1>1, <1>5, Frame DEF Grow
<1>7. /\ SamePlan(s, t) /\ t.phase = "ops"
      /\ t.base = [s.base EXCEPT ![i] = ref]
  BY <1>1 DEF PassRecord, SamePlan
<1>8. s.base \in [Items -> Option(BaseRef)]
  BY <1>1 DEF PassRecord
<1> HIDE DEF t, ref
<1>9. BaseHeld(held', published', t)
  <2> SUFFICES ASSUME NEW j \in Items
               PROVE  RefHeld(held', published', t.pairing, j, t.base[j])
    BY DEF BaseHeld
  <2>1. CASE j = i
    BY <1>1, <1>2, <1>5, <1>7, <1>8, <2>1 DEF RefHeld, SamePlan
  <2>2. CASE j # i
    BY <1>6, <1>7, <1>8, <2>2 DEF PassOK, VaultsOK, SamePlan
  <2> QED
    BY <2>1, <2>2
<1>10. PassOK(held', published', t)
  BY <1>1, <1>3, <1>6, <1>7, <1>9, Onward
<1>11. PassesOK'
  BY <1>3, <1>4, <1>5, <1>10, Advance DEF IInv, PassesOK, TypeOK
<1>12. local' \in [Items -> Option(LocalCopy)]
       /\ \A j \in Items : CopyHeld(held', j, local'[j])
  <2> DEFINE copy == [body |-> c, linked |-> TRUE, etag |-> b]
  <2>1. copy \in Option(LocalCopy) /\ copy.body = c /\ copy.etag = b
    BY DEF LocalCopy, Option
  <2>2. local' = [local EXCEPT ![i] = copy]
    BY DEF Agree
  <2> HIDE DEF copy
  <2> QED
    BY <1>1, <1>5, <2>1, <2>2 DEF IInv, TypeOK, FilesOK, CopyHeld, Grow
<1>13. TypeOK'
  BY <1>5, <1>11, <1>12 DEF IInv, TypeOK, PassesOK, Grow
<1>14. FilesOK'
  BY <1>5, <1>12 DEF IInv, FilesOK, CopyHeld, RefHeld, FileHeld, Grow
<1> QED
  BY <1>11, <1>13, <1>14 DEF IInv, PassesOK

LEMMA StampPushedOK ==
  ASSUME IInv, NEW w \in Workers, NEW o \in pass[w].todo, StampPushed(w, o)
  PROVE  IInv'
<1>1. ReplyOK(published, pass[w], o) /\ pass[w].phase = "stamp"
  BY TheOp DEF StampPushed
<1>2. pass[w].reply \in Bodies /\ pass[w].reply = pass[w].loaded[o.item].body
  BY <1>1 DEF ReplyOK
<1>3. PICK c \in Restamped(w, o.item) : Agree(w, o, pass[w].reply, c)
  BY DEF StampPushed
<1>4. c \in Bodies
  BY <1>2, <1>3 DEF Restamped
<1> QED
  BY <1>1, <1>2, <1>3, <1>4, AgreeOK DEF StampPushed, ReplyOK

LEMMA StoreFetchedOK ==
  ASSUME IInv, NEW w \in Workers, NEW o \in pass[w].todo, StoreFetched(w, o)
  PROVE  IInv'
<1>1. ReplyOK(published, pass[w], o) /\ pass[w].phase = "store"
  BY TheOp DEF StoreFetched
<1>2. CASE Agree(w, o, pass[w].reply, pass[w].reply)
  BY <1>1, <1>2, AgreeOK DEF StoreFetched, ReplyOK
<1>3. CASE Fail(w) /\ UNCHANGED <<local, held>>
  BY <1>1, <1>3, GiveUpOK DEF StoreFetched, userVars, IInv, TypeOK
<1> QED
  BY <1>2, <1>3 DEF StoreFetched

\* The operation is done and its base entry is gone.
LEMMA DroppedOK ==
  ASSUME IInv, NEW w \in Workers, NEW o \in pass[w].todo, NEW h, NEW q,
         pass[w].phase = "ops", PassOK(h, q, pass[w])
  PROVE  \E t \in PassRecord : /\ Dropped(w, o) = [pass EXCEPT ![w] = t]
                               /\ PassOK(h, q, t)
<1> DEFINE s == pass[w]
           t == [s EXCEPT !.base = [s.base EXCEPT ![o.item] = None], !.todo = s.todo \ {o}]
<1>1. s \in PassRecord /\ o.item \in Items
  BY ThePass, TheOp
<1>2. Dropped(w, o) = [pass EXCEPT ![w] = t]
  BY DEF Dropped
<1>3. t \in PassRecord
  BY <1>1 DEF PassRecord, Option
<1>4. /\ SamePlan(s, t) /\ t.phase = "ops"
      /\ t.base = [s.base EXCEPT ![o.item] = None]
  BY <1>1 DEF PassRecord, SamePlan
<1>5. s.base \in [Items -> Option(BaseRef)]
  BY <1>1 DEF PassRecord
<1> HIDE DEF t
<1>6. BaseHeld(h, q, t)
  BY <1>1, <1>4, <1>5 DEF BaseHeld, RefHeld, PassOK, VaultsOK, SamePlan
<1>7. PassOK(h, q, t)
  BY <1>1, <1>3, <1>4, <1>6, Onward
<1> QED
  BY <1>2, <1>3, <1>7

LEMMA DeleteLocalFileOK ==
  ASSUME IInv, NEW w \in Workers, NEW o \in pass[w].todo, DeleteLocalFile(w, o)
  PROVE  IInv'
<1>1. PICK t \in PassRecord : pass' = [pass EXCEPT ![w] = t] /\ PassOK(held, published, t)
  BY ThePass, DroppedOK DEF DeleteLocalFile
<1>2. Grow
  BY SameHistories DEF IInv, DeleteLocalFile
<1>3. PassesOK'
  BY <1>1, <1>2, Advance DEF DeleteLocalFile, IInv, PassesOK, TypeOK
<1>4. local' \in [Items -> Option(LocalCopy)]
      /\ \A j \in Items : CopyHeld(held', j, local'[j])
  BY DEF DeleteLocalFile, IInv, TypeOK, FilesOK, CopyHeld, Option
<1>5. TypeOK'
  BY <1>3, <1>4 DEF DeleteLocalFile, IInv, TypeOK, PassesOK
<1>6. FilesOK'
  BY <1>4 DEF DeleteLocalFile, IInv, FilesOK
<1> QED
  BY <1>3, <1>5, <1>6 DEF IInv, PassesOK

LEMMA DeleteRemoteFileOK ==
  ASSUME IInv, NEW w \in Workers, NEW o \in pass[w].todo, DeleteRemoteFile(w, o)
  PROVE  IInv'
<1>1. /\ pass[w] \in PassRecord /\ pass[w].phase = "ops"
      /\ o.item \in Items /\ pass[w].pairing \in Pairings
  BY ThePass, TheOp DEF DeleteRemoteFile
<1>2. CASE Fail(w) /\ UNCHANGED <<server, published, faults>>
  BY <1>1, <1>2, GiveUpOK DEF DeleteRemoteFile, userVars, IInv, TypeOK
<1>3. CASE Write(w, o.item, None) /\ Reply(w, pass' = Dropped(w, o))
  <2>1. None \in Option(Bodies) /\ faults' \in Nat
    BY <1>3 DEF Option, Reply, IInv, TypeOK
  <2>2. PassOK(held, published', pass[w])
    BY <1>1, <1>3, <2>1, Wrote DEF DeleteRemoteFile
  <2>3. PICK t \in PassRecord : pass' = [pass EXCEPT ![w] = t] /\ PassOK(held, published', t)
    <3>1. CASE pass' = Dropped(w, o)
      BY <1>1, <2>2, <3>1, DroppedOK
    <3>2. CASE Fail(w)
      BY <1>1, <2>2, <3>2, FailOK DEF Fail
    <3> QED
      BY <1>3, <3>1, <3>2 DEF Reply
  <2> QED
    BY <1>1, <1>3, <2>1, <2>3, ServedOK DEF DeleteRemoteFile
<1> QED
  BY <1>2, <1>3 DEF DeleteRemoteFile

LEMMA SaveBaseOK ==
  ASSUME IInv, NEW w \in Workers, SaveBase(w)
  PROVE  IInv'
<1>1. /\ pass[w] \in PassRecord /\ pass[w].pairing \in Pairings
      /\ \A i \in Items : RefHeld(held, published, pass[w].pairing, i, pass[w].base[i])
  BY ThePass DEF SaveBase, PassOK, VaultsOK
<1>2. Grow
  BY SameHistories DEF IInv, SaveBase
<1>3. PassesOK'
  BY <1>2, Advance, IdleType, IdleOK DEF SaveBase, IInv, PassesOK, TypeOK
<1>4. /\ saved' \in [Pairings -> [Items -> Option(BaseRef)]]
      /\ \A p \in Pairings, i \in Items : RefHeld(held, published, p, i, saved'[p][i])
  BY <1>1 DEF SaveBase, IInv, TypeOK, FilesOK, PassRecord
<1>5. TypeOK'
  BY <1>3, <1>4 DEF SaveBase, IInv, TypeOK, PassesOK, userVars
<1>6. FilesOK'
  BY <1>4 DEF SaveBase, IInv, FilesOK, userVars, RefHeld
<1> QED
  BY <1>3, <1>5, <1>6 DEF IInv, PassesOK

LEMMA CrashOK ==
  ASSUME IInv, NEW w \in Workers, Crash(w)
  PROVE  IInv'
<1>1. faults' \in Nat
  BY DEF Crash, IInv, TypeOK
<1> QED
  BY <1>1, Quiet, IdleType, IdleOK DEF Crash

LEMMA LoseRequestOK ==
  ASSUME IInv, NEW w \in Workers, LoseRequest(w)
  PROVE  IInv'
<1>1. faults' \in Nat
  BY DEF LoseRequest, IInv, TypeOK
<1>2. CASE pass' = [pass EXCEPT ![w] = Idle]
  BY <1>1, <1>2, Quiet, IdleType, IdleOK DEF LoseRequest
<1>3. CASE Fail(w) /\ pass[w].phase \in {"put", "ops"}
  BY <1>1, <1>3, GiveUpOK DEF LoseRequest
<1> QED
  BY <1>2, <1>3 DEF LoseRequest

-----------------------------------------------------------------------------
(* The invariant is inductive. *)

LEMMA InitOK == Init => IInv
<1> SUFFICES ASSUME Init PROVE IInv
  OBVIOUS
<1>1. TypeOK
  BY IdleType DEF Init, TypeOK, NoFiles, Option
<1>2. FilesOK
  BY DEF Init, FilesOK, NoFiles, CopyHeld, RefHeld, FileHeld
<1>3. \A w \in Workers : PassOK(held, published, pass[w])
  BY IdleOK DEF Init
<1> QED
  BY <1>1, <1>2, <1>3 DEF IInv

LEMMA OpStepOK ==
  ASSUME IInv, NEW w \in Workers, OpStep(w)
  PROVE  IInv'
<1> PICK o \in pass[w].todo :
      \/ Push(w, o) \/ Fetch(w, o) \/ PutWinner(w, o) \/ StampPushed(w, o)
      \/ StoreFetched(w, o) \/ DeleteLocalFile(w, o) \/ DeleteRemoteFile(w, o)
  BY DEF OpStep
<1> QED
  BY PushOK, FetchOK, PutWinnerOK, StampPushedOK, StoreFetchedOK,
     DeleteLocalFileOK, DeleteRemoteFileOK

LEMMA StepOK == IInv /\ [Next]_vars => IInv'
<1> SUFFICES ASSUME IInv, [Next]_vars PROVE IInv'
  OBVIOUS
<1>1. CASE UserStep
  BY <1>1, UserOK
<1>2. ASSUME NEW w \in Workers, PassStep(w)
      PROVE  IInv'
  BY <1>2, BeginOK, ListOK, OpStepOK, SaveBaseOK DEF PassStep
<1>3. ASSUME NEW w \in Workers, LoseRequest(w) \/ Crash(w)
      PROVE  IInv'
  BY <1>3, LoseRequestOK, CrashOK
<1>4. CASE UNCHANGED vars
  BY <1>4 DEF vars, IInv, TypeOK, FilesOK
<1> QED
  BY <1>1, <1>2, <1>3, <1>4 DEF Next, Step

LEMMA Inductive == Spec => []IInv
BY InitOK, StepOK, PTL DEF Spec

\* Every reachable state is well typed: no pass ever runs into a missing body,
\* etag or base entry, however its steps and the users' interleave.
THEOREM TypeCorrect == Spec => []TypeOK
BY Inductive, PTL DEF IInv

\* A saved base records only what both sides did hold, so no later pass can
\* take a version nobody agreed on for the common ancestor (http.rs:161-171,
\* 321-344).
THEOREM BaseIsCommonAncestor == Spec => []BaseWasHeld
<1>1. IInv => BaseWasHeld
  BY DEF IInv, FilesOK, RefHeld, BaseWasHeld
<1> QED
  BY <1>1, Inductive, PTL

-----------------------------------------------------------------------------
(* No pass destroys a server's edit. *)

\* What ServerEditsSurvive allows a step to do to the file of item i.
Survives(p, i) ==
  LET was == server[p][i]
      is  == server'[p][i]
  IN  was # None /\ is # was => was \in held[i] \/ (is # None /\ LocalWins(is, was))

LEMMA PushSurvives ==
  ASSUME IInv, NEW w \in Workers, NEW o \in pass[w].todo, Push(w, o),
         NEW p \in Pairings, NEW i \in Items
  PROVE  Survives(p, i)
<1>1. OpOK(held, pass[w], o) /\ o.item \in Items /\ pass[w].pairing \in Pairings
  BY TheOp DEF Push
<1>2. CASE UNCHANGED server
  BY <1>2 DEF Survives
<1>3. ASSUME NEW expected, NEW b, Remote(w, o.item) = expected, Write(w, o.item, b),
             expected = None \/ expected \in held[o.item]
      PROVE  Survives(p, i)
  BY <1>1, <1>3 DEF Survives, Remote, Write, IInv, TypeOK
<1> QED
  BY <1>1, <1>2, <1>3 DEF Push, Put, OpOK

LEMMA PutWinnerSurvives ==
  ASSUME IInv, NEW w \in Workers, NEW o \in pass[w].todo, PutWinner(w, o),
         NEW p \in Pairings, NEW i \in Items
  PROVE  Survives(p, i)
<1>1. /\ o.item \in Items /\ pass[w].pairing \in Pairings
      /\ pass[w].loaded[o.item] # None
      /\ LocalWins(pass[w].loaded[o.item].body, pass[w].reply)
  BY TheOp DEF PutWinner, ReplyOK
<1>2. pass[w].loaded[o.item].body \in Bodies
  <2>1. pass[w].loaded \in [Items -> Option(LocalCopy)]
    BY ThePass DEF PassRecord
  <2>2. pass[w].loaded[o.item] \in LocalCopy
    BY <1>1, <2>1 DEF Option
  <2> QED
    BY <2>2 DEF LocalCopy
<1>3. CASE UNCHANGED server
  BY <1>3 DEF Survives
<1>4. CASE Remote(w, o.item) = pass[w].reply /\ Write(w, o.item, pass[w].loaded[o.item].body)
  BY <1>1, <1>2, <1>4, NoneAssumption DEF Survives, Remote, Write, IInv, TypeOK
<1> QED
  BY <1>3, <1>4 DEF PutWinner, Put

LEMMA DeleteRemoteSurvives ==
  ASSUME IInv, NEW w \in Workers, NEW o \in pass[w].todo, DeleteRemoteFile(w, o),
         NEW p \in Pairings, NEW i \in Items
  PROVE  Survives(p, i)
<1>1. /\ o.item \in Items /\ pass[w].pairing \in Pairings
      /\ pass[w].listing[o.item] \in held[o.item]
  BY TheOp DEF DeleteRemoteFile, OpOK
<1> QED
  BY <1>1 DEF DeleteRemoteFile, Survives, Remote, Write, IInv, TypeOK

LEMMA QuietSurvives ==
  ASSUME UNCHANGED server, NEW p \in Pairings, NEW i \in Items
  PROVE  Survives(p, i)
BY DEF Survives

LEMMA StepSurvives ==
  ASSUME IInv, Next, ByPass, NEW p \in Pairings, NEW i \in Items
  PROVE  Survives(p, i)
<1>1. ASSUME UserStep
      PROVE  FALSE
  BY <1>1 DEF ByPass, UserStep, LocalDelete, LocalUndo, LocalCreate, LocalEdit,
              LocalRestore, LocalUserActs, ServerDelete, ServerWrite, Reimport
<1>2. ASSUME NEW w \in Workers, PassStep(w)
      PROVE  Survives(p, i)
  <2>1. ASSUME NEW o \in pass[w].todo,
               \/ Push(w, o) \/ PutWinner(w, o) \/ DeleteRemoteFile(w, o)
        PROVE  Survives(p, i)
    BY <2>1, PushSurvives, PutWinnerSurvives, DeleteRemoteSurvives
  <2>2. ASSUME NEW o \in pass[w].todo,
               \/ Fetch(w, o) \/ StampPushed(w, o) \/ StoreFetched(w, o)
               \/ DeleteLocalFile(w, o)
        PROVE  Survives(p, i)
    BY <2>2, QuietSurvives DEF Fetch, StampPushed, StoreFetched, DeleteLocalFile, userVars
  <2>3. ASSUME List(w) \/ SaveBase(w) \/ \E r \in Pairings : BeginPass(w, r)
        PROVE  Survives(p, i)
    BY <2>3, QuietSurvives DEF List, SaveBase, BeginPass, userVars
  <2> QED
    BY <1>2, <2>1, <2>2, <2>3 DEF PassStep, OpStep
<1>3. ASSUME NEW w \in Workers, LoseRequest(w) \/ Crash(w)
      PROVE  Survives(p, i)
  BY <1>3, QuietSurvives DEF LoseRequest, Crash, userVars
<1> QED
  BY <1>1, <1>2, <1>3 DEF Next, Step

\* A pass replaces or deletes a server's file only if the client's vault has
\* held those very bytes, or the upload is strictly newer: with any number of
\* servers and of concurrent passes, whatever is lost, killed or edited
\* half-way through (If-Match in http.rs:236-302 and mgmt-web/src/sync.rs).
THEOREM ServerEditsSafe == Spec => ServerEditsSurvive
<1>1. IInv /\ [Next]_vars =>
        [\A p \in Pairings, i \in Items :
           LET was == server[p][i]
               is  == server'[p][i]
           IN  ByPass /\ was # None /\ is # was =>
                 was \in held[i] \/ (is # None /\ LocalWins(is, was))]_vars
  BY StepSurvives DEF Survives
<1> QED
  BY <1>1, Inductive, PTL DEF Spec, ServerEditsSurvive

-----------------------------------------------------------------------------
(* Orderly circumstances: no pass destroys a local edit.                    *)

(***************************************************************************)
(* With two servers paired with one vault a file's link says nothing of    *)
(* either base: both theorems that follow are about one server, and the    *)
(* model checking about two.                                               *)
(***************************************************************************)
Alone == \E p : Pairings = {p}

\* A file is linked just when the base has an entry for it.
Fits(l, r) == l # None => (l.linked <=> r # None)

\* An entry that records one body, agreed on by both sides.
Agreed(r) == r # None => r.hash = r.etag

Readable(l) == l # None => l.body \notin Unparseable

(***************************************************************************)
(* What pass s may rely on about the files f of the client, where q is     *)
(* published.  The base keeps telling which files are linked.  A file that *)
(* is not linked is still to be uploaded; one that was linked by this pass *)
(* has been.                                                               *)
(***************************************************************************)
FileKnown(f, q, s, i) ==
  /\ Agreed(s.base[i]) /\ Fits(f[i], s.base[i])
  /\ s.phase = "list" => s.loaded[i] = f[i]
  /\ s.phase # "list" =>
       /\ f[i] # None /\ ~f[i].linked =>
            [item |-> i, half |-> 1, kind |-> "PushCreate"] \in s.todo
       /\ Linked(f[i]) /\ ~Linked(s.loaded[i]) => f[i].body \in q[s.pairing][i]

\* An operation of the first half finds the file as it was loaded, and takes
\* it away only if the server has had it.
OpKnown(f, q, s, o) ==
  /\ o.half = 1 =>
       /\ s.loaded[o.item] # None /\ f[o.item] = s.loaded[o.item]
       /\ ~s.loaded[o.item].linked => o.kind = "PushCreate"
       /\ o.kind \in {"Pull", "DeleteLocal"} =>
            s.loaded[o.item].body \in q[s.pairing][o.item]
  /\ o.half = 2 =>
       /\ ~Linked(s.loaded[o.item])
       /\ o.kind \in {"Pull", "DeleteRemote"}
  /\ o.kind = "DeleteRemote" => s.loaded[o.item] = None /\ f[o.item] = None

\* Between a request and the write that follows its reply.
ReplyKnown(s, o) ==
  /\ s.phase \in {"stamp", "put"} => o.half = 1
  /\ s.phase = "put" => o.kind = "Conflict"
  /\ s.phase = "store" =>
       /\ o.kind \in {"Pull", "Conflict"}
       /\ o.kind = "Conflict" => ~LocalWins(s.loaded[o.item].body, s.reply)

OnePerHalf(s) ==
  \A o, x \in s.todo : o.item = x.item /\ o.half = x.half => o = x

Known(f, q, s) ==
  /\ \A i \in Items : FileKnown(f, q, s, i)
  /\ \A o \in s.todo : OpKnown(f, q, s, o) /\ (First(s, o) => ReplyKnown(s, o))
  /\ OnePerHalf(s)

\* No pass has had its listing yet.
Resting == \A w \in Workers : pass[w].phase \in {"idle", "list"}

FilesKnown ==
  /\ \A i \in Items : earlier[i] = None /\ Readable(local[i])
  /\ \A p \in Pairings, i \in Items :
       Agreed(saved[p][i]) /\ (Resting => Fits(local[i], saved[p][i]))

PassesKnown ==
  \A w \in Workers : pass[w].phase # "idle" =>
    w \in regime.workers /\ Known(local, published, pass[w])

OInv ==
  /\ regime \in Regimes
  /\ Orderly => FilesKnown /\ PassesKnown

-----------------------------------------------------------------------------
(* What a pass relies on, from one of its points to the next. *)

LEMMA KnownGrows ==
  ASSUME NEW f, NEW q1, NEW q2, NEW s \in PassRecord, s.pairing \in Pairings,
         \A p \in Pairings, i \in Items : q1[p][i] \subseteq q2[p][i], Known(f, q1, s)
  PROVE  Known(f, q2, s)
<1>1. \A o \in s.todo : o.item \in Items
  BY DEF PassRecord
<1>2. \A i \in Items : FileKnown(f, q2, s, i)
  BY DEF Known, FileKnown
<1>3. \A o \in s.todo : OpKnown(f, q2, s, o)
  BY <1>1 DEF Known, OpKnown
<1> QED
  BY <1>2, <1>3 DEF Known

\* A request has been answered, or the pass gives up.
LEMMA KnownOnward ==
  ASSUME NEW f, NEW q, NEW s \in PassRecord, NEW t \in PassRecord, Known(f, q, s),
         s.phase # "list", t.phase # "list",
         SamePlan(s, t), t.todo = s.todo, t.base = s.base,
         \A o \in t.todo : First(t, o) => ReplyKnown(t, o)
  PROVE  Known(f, q, t)
<1>1. \A i \in Items : FileKnown(f, q, t, i)
  BY DEF Known, FileKnown, SamePlan
<1>2. \A o \in t.todo : OpKnown(f, q, t, o)
  BY DEF Known, OpKnown, SamePlan
<1>3. OnePerHalf(t)
  BY DEF Known, OnePerHalf
<1> QED
  BY <1>1, <1>2, <1>3 DEF Known

\* The first operation is done: file and base entry are both there, or neither.
LEMMA KnownDone ==
  ASSUME NEW f \in [Items -> Option(LocalCopy)], NEW q,
         NEW s \in PassRecord, NEW t \in PassRecord, NEW o,
         Known(f, q, s), First(s, o), s.phase # "list", t.phase = "ops",
         SamePlan(s, t), t.todo = s.todo \ {o},
         NEW c, NEW r, t.base = [s.base EXCEPT ![o.item] = r],
         Agreed(r), Fits(c, r),
         c # None => c.linked /\ c.body \in q[s.pairing][o.item]
  PROVE  Known([f EXCEPT ![o.item] = c], q, t)
<1> DEFINE f2 == [f EXCEPT ![o.item] = c]
<1>1. /\ o \in s.todo /\ o.item \in Items /\ o.half \in {1, 2}
      /\ s.base \in [Items -> Option(BaseRef)]
      /\ \A x \in s.todo : x.item \in Items /\ x.half \in {1, 2}
  BY DEF PassRecord, First
<1>2. /\ f2[o.item] = c /\ t.base[o.item] = r
      /\ \A i \in Items \ {o.item} : f2[i] = f[i] /\ t.base[i] = s.base[i]
  BY <1>1
<1> HIDE DEF f2
<1>3. ASSUME NEW i \in Items
      PROVE  FileKnown(f2, q, t, i)
  <2>1. CASE i = o.item
    BY <1>2, <2>1 DEF FileKnown, SamePlan, Linked
  <2>2. CASE i # o.item
    <3>1. FileKnown(f, q, s, i)
      BY DEF Known
    <3>2. [item |-> i, half |-> 1, kind |-> "PushCreate"] # o
      BY <2>2
    <3> QED
      BY <1>2, <2>2, <3>1, <3>2 DEF FileKnown, SamePlan
  <2> QED
    BY <2>1, <2>2
<1>4. ASSUME NEW x \in t.todo
      PROVE  OpKnown(f2, q, t, x)
  <2>1. x \in s.todo /\ x # o /\ OpKnown(f, q, s, x) /\ OpKnown(f, q, s, o)
    BY <1>1 DEF Known
  <2>2. CASE x.item # o.item
    BY <1>1, <1>2, <2>1, <2>2 DEF OpKnown, SamePlan
  <2>3. CASE x.item = o.item
    <3>1. o.half # x.half
      BY <1>1, <2>1, <2>3 DEF Known, OnePerHalf
    <3>2. Precedes(o, x)
      BY <2>1 DEF First
    <3>3. o.half = 1 /\ x.half = 2
      BY <1>1, <2>1, <3>1, <3>2 DEF Precedes
    <3> QED
      BY <2>1, <2>3, <3>3 DEF OpKnown, SamePlan
  <2> QED
    BY <2>2, <2>3
<1>5. OnePerHalf(t)
  BY DEF Known, OnePerHalf
<1>6. \A x \in t.todo : ReplyKnown(t, x)
  BY DEF ReplyKnown
<1> QED
  BY <1>3, <1>4, <1>5, <1>6 DEF Known, f2

\* What the planner makes of a base that tells which files are linked.
LEMMA KnownPlanned ==
  ASSUME NEW f \in [Items -> Option(LocalCopy)], NEW q, NEW s \in PassRecord,
         NEW t \in PassRecord, NEW h, NEW p, NEW remotes \in [Items -> Option(Bodies)],
         Known(f, q, s), s.phase = "list", s.pairing = p,
         \A i \in Items : RefHeld(h, q, p, i, s.base[i]),
         t.phase = "ops", t.pairing = p, t.loaded = s.loaded,
         t.base = PrepareBase(s.base, s.loaded, remotes),
         t.todo = Plan(t.base, s.loaded, remotes)
  PROVE  Known(f, q, t)
<1>1. s.loaded = f
  <2>1. \A i \in Items : s.loaded[i] = f[i]
    BY DEF Known, FileKnown
  <2>2. s.loaded \in [Items -> Option(LocalCopy)]
    BY DEF PassRecord
  <2> DEFINE g == s.loaded
  <2>3. g \in [Items -> Option(LocalCopy)] /\ \A i \in Items : g[i] = f[i]
    BY <2>1, <2>2
  <2> HIDE DEF g
  <2>4. f = [i \in Items |-> f[i]] /\ g = [i \in Items |-> g[i]]
    BY <2>3
  <2>5. g = f
    BY ONLY <2>3, <2>4
  <2> QED
    BY <2>5 DEF g
<1>2. /\ s.base \in [Items -> Option(BaseRef)]
      /\ t.base = [i \in Items |-> PreparedRef(s.base[i], f[i], remotes[i])]
  BY <1>1 DEF PrepareBase, PassRecord
<1>3. ASSUME NEW i \in Items
      PROVE  /\ Agreed(t.base[i]) /\ Fits(f[i], t.base[i])
             /\ RefHeld(h, q, p, i, t.base[i]) /\ Agreed(t.base[i])
             /\ t.base[i] \in Option(BaseRef)
             /\ Linked(f[i]) => t.base[i] # None
  <2>1. Agreed(s.base[i]) /\ Fits(f[i], s.base[i]) /\ RefHeld(h, q, p, i, s.base[i])
    BY DEF Known, FileKnown
  <2>2. t.base[i] = s.base[i] \/ (t.base[i] = None /\ ~Linked(f[i]))
    BY <1>2, <2>1 DEF PreparedRef, Fits, Linked
  <2> QED
    BY <1>2, <2>1, <2>2 DEF Agreed, Fits, RefHeld, Linked, Option
<1>4. ASSUME NEW i \in Items
      PROVE  FileKnown(f, q, t, i)
  <2>1. ASSUME f[i] # None, ~f[i].linked
        PROVE  [item |-> i, half |-> 1, kind |-> "PushCreate"] \in t.todo
    <3>1. LocalOp(t.base[i], f[i], remotes[i]) = "PushCreate"
      BY <2>1 DEF LocalOp
    <3> QED
      BY <1>1, <2>1, <3>1 DEF Plan
  <2> QED
    BY <1>1, <1>3, <2>1 DEF FileKnown
<1>5. ASSUME NEW o \in t.todo
      PROVE  OpKnown(f, q, t, o)
  <2>1. CASE \E i \in Items :
              /\ f[i] # None
              /\ o = [item |-> i, half |-> 1, kind |-> LocalOp(t.base[i], f[i], remotes[i])]
    <3> PICK i \in Items :
              /\ f[i] # None
              /\ o = [item |-> i, half |-> 1, kind |-> LocalOp(t.base[i], f[i], remotes[i])]
      BY <2>1
    <3>1. o.item = i /\ o.half = 1 /\ o.kind = LocalOp(t.base[i], f[i], remotes[i])
      OBVIOUS
    <3>2. f[i] \in LocalCopy
      BY DEF Option
    <3>3. ~f[i].linked => o.kind = "PushCreate"
      BY <3>1 DEF LocalOp
    <3>4. ASSUME o.kind \in {"Pull", "DeleteLocal"}
          PROVE  f[i].body \in q[p][i]
      <4>1. f[i].linked /\ ~LocalChanged(t.base[i], f[i])
        BY <3>1, <3>2, <3>4 DEF LocalOp, LocalCopy
      <4>2. t.base[i] # None /\ t.base[i].hash = f[i].body
        BY <1>3, <4>1 DEF LocalChanged, Linked
      <4> QED
        BY <1>3, <4>2 DEF Agreed, RefHeld
    <3>5. o.kind # "DeleteRemote"
      BY <3>1 DEF LocalOp
    <3> QED
      BY <1>1, <3>1, <3>3, <3>4, <3>5 DEF OpKnown
  <2>2. CASE \E i \in Items :
              /\ remotes[i] # None /\ ~Linked(f[i])
              /\ o = [item |-> i, half |-> 2, kind |-> RemoteOp(t.base[i], remotes[i])]
    <3> PICK i \in Items :
              /\ remotes[i] # None /\ ~Linked(f[i])
              /\ o = [item |-> i, half |-> 2, kind |-> RemoteOp(t.base[i], remotes[i])]
      BY <2>2
    <3>1. o.item = i /\ o.half = 2 /\ o.kind = RemoteOp(t.base[i], remotes[i])
      OBVIOUS
    <3>2. o.kind \in {"Pull", "DeleteRemote"}
      BY <3>1 DEF RemoteOp
    <3>3. o.kind = "DeleteRemote" => f[i] = None
      BY <1>3, <3>1 DEF RemoteOp, Fits, Linked
    <3> QED
      BY <1>1, <3>1, <3>2, <3>3 DEF OpKnown
  <2>3. o \in Plan(t.base, f, remotes) /\ DOMAIN f = Items
    BY <1>1
  <2> HIDE DEF Plan
  <2> QED
    BY <2>1, <2>2, <2>3, PlanCases
<1>6. OnePerHalf(t)
  BY <1>1 DEF OnePerHalf, Plan
<1>7. \A o \in t.todo : ReplyKnown(t, o)
  BY DEF ReplyKnown
<1> QED
  BY <1>4, <1>5, <1>6, <1>7 DEF Known

-----------------------------------------------------------------------------
(* The invariant of orderly circumstances holds at first and is preserved. *)

LEMMA OrderlyInit ==
  ASSUME Init
  PROVE  OInv
BY DEF Init, OInv, FilesKnown, PassesKnown, NoFiles, Idle, Agreed, Readable, Fits

\* While a process runs a pass, no other does.
LEMMA OneAtWork ==
  ASSUME Alone, OInv, Orderly, NEW w \in Workers, w \in regime.workers
  PROVE  \A v \in Workers \ {w} : pass[v].phase = "idle"
BY DEF Alone, OInv, Orderly, PassesKnown

\* A pass goes on, or begins.
LEMMA TurnOK ==
  ASSUME Alone, OInv, Orderly, UNCHANGED <<regime, earlier, saved>>,
         pass \in [Workers -> PassRecord],
         NEW w \in Workers, w \in regime.workers,
         NEW t, pass' = [pass EXCEPT ![w] = t], t.phase # "idle",
         Known(local', published', t),
         t.phase = "list" => Resting /\ local' = local,
         \A i \in Items : Readable(local'[i])
  PROVE  OInv'
<1>1. /\ pass'[w] = t
      /\ \A v \in Workers \ {w} : pass'[v].phase = "idle"
  BY OneAtWork
<1>2. PassesKnown'
  <2> SUFFICES ASSUME NEW v \in Workers, pass'[v].phase # "idle"
               PROVE  v \in regime'.workers /\ Known(local', published', pass'[v])
    BY DEF PassesKnown
  <2>1. v = w
    BY <1>1
  <2> QED
    BY <1>1, <2>1
<1>3. Resting' => Resting /\ local' = local
  BY <1>1 DEF Resting
<1>4. FilesKnown'
  BY <1>3 DEF OInv, FilesKnown
<1> QED
  BY <1>2, <1>4 DEF OInv

\* A pass ends.
LEMMA EndOK ==
  ASSUME Alone, OInv, Orderly, UNCHANGED <<regime, local, earlier>>,
         pass \in [Workers -> PassRecord],
         NEW w \in Workers, w \in regime.workers, pass' = [pass EXCEPT ![w] = Idle],
         \A p \in Pairings, i \in Items : Agreed(saved'[p][i]) /\ Fits(local[i], saved'[p][i])
  PROVE  OInv'
<1>1. \A v \in Workers : pass'[v].phase = "idle"
  BY OneAtWork DEF Idle
<1>2. PassesKnown'
  BY <1>1 DEF PassesKnown
<1>3. FilesKnown'
  BY DEF OInv, FilesKnown
<1> QED
  BY <1>2, <1>3 DEF OInv

\* The pass of process w, and what it relies on.
LEMMA ItsPass ==
  ASSUME IInv, OInv, Orderly, NEW w \in Workers, pass[w].phase # "idle"
  PROVE  /\ pass \in [Workers -> PassRecord] /\ pass[w] \in PassRecord
         /\ pass[w].pairing \in Pairings
         /\ w \in regime.workers
         /\ Known(local, published, pass[w])
         /\ local \in [Items -> Option(LocalCopy)]
         /\ \A i \in Items : Readable(local[i])
BY ThePass DEF OInv, PassesKnown, FilesKnown, PassOK, IInv, TypeOK

\* An operation the pass is at, and what it relies on.
LEMMA ItsOp ==
  ASSUME IInv, OInv, Orderly, NEW w \in Workers, NEW o \in pass[w].todo,
         pass[w].phase # "idle", At(w, o)
  PROVE  /\ o.item \in Items /\ o.half \in {1, 2}
         /\ First(pass[w], o)
         /\ OpKnown(local, published, pass[w], o)
         /\ ReplyKnown(pass[w], o)
         /\ ReplyOK(published, pass[w], o)
         /\ FileKnown(local, published, pass[w], o.item)
<1>1. o.item \in Items /\ o.half \in {1, 2} /\ First(pass[w], o) /\ ReplyOK(published, pass[w], o)
  BY TheOp
<1> QED
  BY <1>1, ItsPass DEF Known

LEMMA UserKeepsOrder ==
  ASSUME IInv, OInv, Orderly, UserStep, UNCHANGED regime
  PROVE  OInv'
<1>1. ASSUME NEW i \in Items, NEW copy, \E keep : WriteLocal(i, copy, keep), LocalUserActs,
             Readable(copy),
             \A p \in Pairings : Fits(copy, saved[p][i])
      PROVE  OInv'
  <2>1. \A w \in Workers : pass[w].phase = "idle"
    BY <1>1 DEF LocalUserActs, Orderly
  <2>2. PassesKnown'
    BY <1>1, <2>1 DEF LocalUserActs, PassesKnown
  <2>3. /\ local \in [Items -> Option(LocalCopy)] /\ earlier \in [Items -> Option(LocalCopy)]
        /\ local' = [local EXCEPT ![i] = copy]
        /\ earlier' = [earlier EXCEPT ![i] = None]
    BY <1>1 DEF WriteLocal, Orderly, IInv, TypeOK
  <2>4. \A j \in Items : earlier'[j] = None /\ Readable(local'[j])
    BY <1>1, <2>3 DEF OInv, FilesKnown
  <2>5. \A p \in Pairings, j \in Items : Agreed(saved'[p][j]) /\ Fits(local'[j], saved'[p][j])
    BY <1>1, <2>1, <2>3 DEF OInv, FilesKnown, Resting, LocalUserActs
  <2>6. FilesKnown'
    BY <2>4, <2>5 DEF FilesKnown
  <2> QED
    BY <2>2, <2>6 DEF OInv
<1>2. ASSUME NEW i \in Items, NEW b \in Bodies \ Unparseable, LocalCreate(i, b)
      PROVE  OInv'
  <2> DEFINE copy == [body |-> b, linked |-> FALSE, etag |-> None]
  <2>1. \A p \in Pairings : saved[p][i] = None
    BY <1>2 DEF LocalCreate, Unborn, IInv, FilesOK, RefHeld
  <2>2. copy.body = b /\ ~copy.linked
    OBVIOUS
  <2>3. LocalUserActs /\ WriteLocal(i, copy, None)
    BY <1>2 DEF LocalCreate
  <2> HIDE DEF copy
  <2>4. Readable(copy) /\ \A p \in Pairings : Fits(copy, saved[p][i])
    BY <2>1, <2>2 DEF Readable, Fits
  <2> QED
    BY <1>1, <2>3, <2>4
<1>3. ASSUME NEW i \in Items, NEW b \in Bodies \ Unparseable, LocalEdit(i, b)
      PROVE  OInv'
  <2> DEFINE copy == [local[i] EXCEPT !.body = b]
  <2>1. local[i] \in LocalCopy /\ local[i] # None
    BY <1>3, CopiesOK DEF LocalEdit, Option
  <2>2. copy.body = b /\ copy.linked = local[i].linked
    BY <2>1 DEF LocalCopy
  <2>3. LocalUserActs /\ WriteLocal(i, copy, local[i])
    BY <1>3 DEF LocalEdit
  <2> HIDE DEF copy
  <2>4. Resting
    BY <2>3 DEF LocalUserActs, Orderly, Resting
  <2>5. \A p \in Pairings : Fits(local[i], saved[p][i])
    BY <2>4 DEF OInv, FilesKnown
  <2>6. Readable(copy) /\ \A p \in Pairings : Fits(copy, saved[p][i])
    BY <2>1, <2>2, <2>5 DEF Readable, Fits
  <2> QED
    BY <1>1, <2>3, <2>6
<1>4. ASSUME NEW i \in Items, LocalDelete(i)
      PROVE  OInv'
  <2>1. Readable(None) /\ \A p \in Pairings : Fits(None, saved[p][i])
    BY DEF Readable, Fits
  <2> QED
    BY <1>1, <1>4, <2>1 DEF LocalDelete
<1>5. ASSUME NEW i \in Items, LocalUndo(i) \/ \E b \in Bodies : LocalRestore(i, b)
      PROVE  FALSE
  BY <1>5 DEF LocalUndo, LocalRestore, OInv, FilesKnown
<1>6. ASSUME UNCHANGED <<local, earlier, saved, pass>>,
             \A p \in Pairings, i \in Items : published[p][i] \subseteq published'[p][i]
      PROVE  OInv'
  <2>1. FilesKnown'
    BY <1>6 DEF OInv, FilesKnown, Resting
  <2>2. ASSUME NEW w \in Workers, pass[w].phase # "idle"
        PROVE  Known(local, published', pass[w])
    BY <1>6, <2>2, ItsPass, KnownGrows
  <2>3. PassesKnown'
    BY <1>6, <2>2 DEF OInv, PassesKnown
  <2> QED
    BY <2>1, <2>3 DEF OInv
<1>7. ASSUME NEW p \in Pairings, NEW i \in Items, NEW b \in Bodies, ServerWrite(p, i, b)
      PROVE  OInv'
  <2>1. \A r \in Pairings, j \in Items : published[r][j] \subseteq published'[r][j]
    BY <1>7 DEF ServerWrite, IInv, TypeOK
  <2> QED
    BY <1>6, <1>7, <2>1 DEF ServerWrite
<1>8. ASSUME NEW p \in Pairings, Reimport(p) \/ \E i \in Items : ServerDelete(p, i)
      PROVE  OInv'
  BY <1>6, <1>8 DEF Reimport, ServerDelete
<1> QED
  BY <1>2, <1>3, <1>4, <1>5, <1>7, <1>8 DEF UserStep

LEMMA BeginKeepsOrder ==
  ASSUME Alone, IInv, OInv, Orderly, UNCHANGED regime,
         NEW w \in Workers, NEW p \in Pairings, BeginPass(w, p)
  PROVE  OInv'
<1> DEFINE t == [Idle EXCEPT !.phase = "list", !.pairing = p,
                             !.base = saved[p], !.loaded = Loaded]
<1>1. pass[w] = Idle /\ pass \in [Workers -> PassRecord]
  BY ThePass DEF BeginPass, PassOK, IInv, TypeOK
<1>2. pass' = [pass EXCEPT ![w] = t] /\ w \in regime.workers
  BY <1>1 DEF BeginPass
<1>3. /\ t.phase = "list" /\ t.todo = {} /\ t.pairing = p
      /\ t.base = saved[p] /\ t.loaded = Loaded
  BY DEF Idle
<1> HIDE DEF t
<1>4. \A i \in Items : Loaded[i] = local[i] /\ Readable(local[i])
  BY DEF Loaded, OInv, FilesKnown, Readable
<1>5. Resting
  BY <1>1, <1>2, OneAtWork DEF Resting, Idle
<1>6. \A i \in Items : Agreed(saved[p][i]) /\ Fits(local[i], saved[p][i])
  BY <1>5 DEF OInv, FilesKnown
<1>7. Known(local, published, t)
  BY <1>3, <1>4, <1>6 DEF Known, FileKnown, OnePerHalf
<1>8. UNCHANGED <<local, earlier, saved, published>>
  BY DEF BeginPass, userVars
<1> QED
  BY <1>1, <1>2, <1>3, <1>4, <1>5, <1>7, <1>8, TurnOK

LEMMA ListKeepsOrder ==
  ASSUME Alone, IInv, OInv, Orderly, UNCHANGED regime, NEW w \in Workers, List(w)
  PROVE  OInv'
<1> DEFINE s == pass[w]
           p == s.pairing
           base == PrepareBase(s.base, s.loaded, server[p])
           t == [s EXCEPT !.phase = "ops", !.listing = server[p], !.base = base,
                          !.todo = Plan(base, s.loaded, server[p])]
<1>1. pass' = [pass EXCEPT ![w] = t] /\ s.phase = "list"
  BY DEF List
<1>2. /\ s \in PassRecord /\ p \in Pairings /\ Known(local, published, s)
      /\ w \in regime.workers /\ pass \in [Workers -> PassRecord]
      /\ local \in [Items -> Option(LocalCopy)]
      /\ \A i \in Items : Readable(local[i])
  BY <1>1, ItsPass
<1>3. \A i \in Items : RefHeld(held, published, p, i, s.base[i])
  BY <1>1, ThePass DEF PassOK, VaultsOK
<1>4. server[p] \in [Items -> Option(Bodies)]
  BY <1>2 DEF IInv, TypeOK
<1>5. pass'[w] \in PassRecord /\ pass'[w] = t
  BY <1>1, <1>2, ListOK DEF IInv, TypeOK
<1>6. /\ t.phase = "ops" /\ t.pairing = p /\ t.loaded = s.loaded /\ t.base = base
      /\ t.todo = Plan(t.base, s.loaded, server[p])
  BY <1>2 DEF PassRecord
<1>7. t \in PassRecord
  BY <1>5
<1>8. UNCHANGED <<local, earlier, saved, published>>
  BY DEF List, userVars
<1> HIDE DEF t
<1>9. Known(local, published, t)
  BY <1>1, <1>2, <1>3, <1>4, <1>6, <1>7, KnownPlanned
<1> QED
  BY <1>1, <1>2, <1>6, <1>8, <1>9, TurnOK

\* A pass that goes on with the same plan, or gives up.
LEMMA AwaitKeepsOrder ==
  ASSUME Alone, IInv, OInv, Orderly, UNCHANGED <<regime, local, earlier, saved>>,
         NEW w \in Workers, pass[w].phase \notin {"idle", "list"},
         \A p \in Pairings, i \in Items : published[p][i] \subseteq published'[p][i],
         NEW t \in PassRecord, pass' = [pass EXCEPT ![w] = t],
         t.phase \notin {"idle", "list"},
         SamePlan(pass[w], t), t.todo = pass[w].todo, t.base = pass[w].base,
         \A o \in t.todo : First(t, o) => ReplyKnown(t, o)
  PROVE  OInv'
<1>1. Known(local, published', pass[w])
  BY ItsPass, KnownGrows
<1>2. Known(local, published', t)
  BY <1>1, ItsPass, KnownOnward
<1> QED
  BY <1>2, ItsPass, TurnOK

LEMMA GiveUpKeepsOrder ==
  ASSUME Alone, IInv, OInv, Orderly, UNCHANGED <<regime, local, earlier, saved>>,
         NEW w \in Workers, pass[w].phase \notin {"idle", "list"}, Fail(w),
         \A p \in Pairings, i \in Items : published[p][i] \subseteq published'[p][i]
  PROVE  OInv'
<1> DEFINE s == pass[w]
           t == [s EXCEPT !.phase = "save"]
<1>1. s \in PassRecord
  BY ItsPass
<1>2. t \in PassRecord /\ t.phase = "save" /\ SamePlan(s, t) /\ t.todo = s.todo /\ t.base = s.base
  BY <1>1 DEF PassRecord, Phases, SamePlan
<1>3. pass' = [pass EXCEPT ![w] = t]
  BY DEF Fail
<1>4. \A o \in t.todo : ReplyKnown(t, o)
  BY <1>2 DEF ReplyKnown
<1> HIDE DEF t
<1> QED
  BY <1>2, <1>3, <1>4, AwaitKeepsOrder

LEMMA PutKeepsOrder ==
  ASSUME Alone, IInv, OInv, Orderly, UNCHANGED <<regime, local, earlier, saved>>,
         NEW w \in Workers, NEW o \in pass[w].todo, NEW expected,
         pass[w].phase \in {"ops", "put"}, At(w, o), o.half = 1, Put(w, o.item, expected)
  PROVE  OInv'
<1> DEFINE s == pass[w]
           b == s.loaded[o.item].body
           t == [s EXCEPT !.phase = "stamp", !.reply = b]
<1>1. /\ s \in PassRecord /\ s.pairing \in Pairings /\ o.item \in Items
      /\ First(s, o) /\ s.loaded[o.item] # None
  BY ItsPass, ItsOp DEF OpKnown
<1>2. \A p \in Pairings, i \in Items : published[p][i] \subseteq published'[p][i]
  <2>1. published \in [Pairings -> [Items -> SUBSET Bodies]]
    BY DEF IInv, TypeOK
  <2>2. UNCHANGED published \/ Write(w, o.item, b)
    BY DEF Put
  <2> QED
    BY <1>1, <2>1, <2>2 DEF Write
<1>3. CASE Fail(w)
  BY <1>2, <1>3, GiveUpKeepsOrder
<1>4. CASE pass' = [pass EXCEPT ![w] = t]
  <2>1. b \in Bodies
    BY <1>1 DEF PassRecord, Option, LocalCopy
  <2>2. /\ t \in PassRecord /\ t.phase = "stamp" /\ SamePlan(s, t)
        /\ t.todo = s.todo /\ t.base = s.base
    BY <1>1, <2>1 DEF PassRecord, Phases, Option, SamePlan
  <2> HIDE DEF t
  <2>3. \A x \in t.todo : First(t, x) => x = o
    BY <1>1, <2>2, FirstUnique DEF First
  <2>4. \A x \in t.todo : First(t, x) => ReplyKnown(t, x)
    BY <2>2, <2>3 DEF ReplyKnown
  <2> QED
    BY <1>2, <1>4, <2>2, <2>4, AwaitKeepsOrder
<1> QED
  BY <1>3, <1>4 DEF Put, Reply

LEMMA FetchKeepsOrder ==
  ASSUME Alone, IInv, OInv, Orderly, UNCHANGED regime,
         NEW w \in Workers, NEW o \in pass[w].todo, Fetch(w, o)
  PROVE  OInv'
<1> DEFINE s == pass[w]
           r == Remote(w, o.item)
           wins == o.kind = "Conflict" /\ LocalWins(s.loaded[o.item].body, r)
           t == [s EXCEPT !.reply = r, !.phase = IF wins THEN "put" ELSE "store"]
<1>1. /\ s.phase = "ops" /\ At(w, o) /\ o.kind \in {"Pull", "Conflict"}
      /\ UNCHANGED <<local, earlier, saved, published>>
  BY DEF Fetch, userVars
<1>2. /\ s \in PassRecord /\ s.pairing \in Pairings /\ First(s, o)
      /\ o.item \in Items /\ o.half \in {1, 2} /\ OpKnown(local, published, s, o)
  BY <1>1, ItsPass, ItsOp
<1>3. CASE Fail(w)
  BY <1>1, <1>3, GiveUpKeepsOrder
<1>4. CASE r # None /\ pass' = [pass EXCEPT ![w] = t]
  <2>1. r \in Option(Bodies)
    <3>1. server \in [Pairings -> [Items -> Option(Bodies)]]
      BY DEF IInv, TypeOK
    <3> QED
      BY <1>2, <3>1 DEF Remote
  <2>2. /\ t \in PassRecord /\ SamePlan(s, t) /\ t.todo = s.todo /\ t.base = s.base
        /\ t.reply = r /\ t.phase = (IF wins THEN "put" ELSE "store") /\ t.loaded = s.loaded
    BY <1>2, <2>1 DEF PassRecord, Phases, SamePlan
  <2> HIDE DEF t
  <2>3. \A x \in t.todo : First(t, x) => x = o
    BY <1>2, <2>2, FirstUnique DEF First
  <2>4. ReplyKnown(t, o)
    BY <1>1, <1>2, <2>2 DEF ReplyKnown, OpKnown
  <2>5. t.phase \notin {"idle", "list"}
    BY <2>2
  <2> QED
    BY <1>1, <1>4, <2>2, <2>3, <2>4, <2>5, AwaitKeepsOrder
<1> QED
  BY <1>3, <1>4 DEF Fetch

\* The file and the base entry are written, and the operation is done.
LEMMA DoneKeepsOrder ==
  ASSUME Alone, IInv, OInv, Orderly, UNCHANGED <<regime, earlier, saved>>,
         NEW w \in Workers, NEW o \in pass[w].todo, At(w, o),
         pass[w].phase \notin {"idle", "list"},
         \A p \in Pairings, i \in Items : published[p][i] \subseteq published'[p][i],
         NEW c, NEW r, NEW reply \in Option(Bodies), r \in Option(BaseRef),
         local' = [local EXCEPT ![o.item] = c], Readable(c),
         pass' = [pass EXCEPT ![w].phase = "ops", ![w].reply = reply,
                              ![w].todo = @ \ {o}, ![w].base[o.item] = r],
         Agreed(r), Fits(c, r),
         c # None => c.linked /\ c.body \in published'[pass[w].pairing][o.item]
  PROVE  OInv'
<1> DEFINE s == pass[w]
           t == [s EXCEPT !.phase = "ops", !.reply = reply, !.todo = s.todo \ {o},
                          !.base = [s.base EXCEPT ![o.item] = r]]
<1>1. /\ s \in PassRecord /\ s.pairing \in Pairings /\ Known(local, published, s)
      /\ w \in regime.workers /\ pass \in [Workers -> PassRecord]
      /\ local \in [Items -> Option(LocalCopy)]
      /\ \A i \in Items : Readable(local[i])
  BY ItsPass
<1>2. First(s, o) /\ o.item \in Items
  BY ItsOp
<1>3. pass' = [pass EXCEPT ![w] = t]
  OBVIOUS
<1>4. /\ t \in PassRecord /\ SamePlan(s, t) /\ t.phase = "ops"
      /\ t.todo = s.todo \ {o} /\ t.base = [s.base EXCEPT ![o.item] = r]
  BY <1>1, <1>2 DEF PassRecord, Phases, SamePlan
<1> HIDE DEF t
<1>5. Known(local, published', s)
  BY <1>1, KnownGrows
<1>6. Known(local', published', t)
  BY <1>1, <1>2, <1>4, <1>5, KnownDone
<1>7. \A i \in Items : Readable(local'[i])
  BY <1>1, <1>2
<1> QED
  BY <1>1, <1>3, <1>4, <1>6, <1>7, TurnOK

LEMMA StampKeepsOrder ==
  ASSUME Alone, IInv, OInv, Orderly, UNCHANGED regime,
         NEW w \in Workers, NEW o \in pass[w].todo, StampPushed(w, o)
  PROVE  OInv' /\ BodyOf(local'[o.item]) = BodyOf(local[o.item])
<1> DEFINE b == pass[w].reply
           c == [body |-> b, linked |-> TRUE, etag |-> b]
           r == [etag |-> b, hash |-> b]
<1>1. /\ pass[w].phase = "stamp" /\ At(w, o)
      /\ UNCHANGED <<earlier, saved, published>>
  BY DEF StampPushed
<1>2. /\ o.item \in Items /\ o.half = 1
      /\ local[o.item] # None /\ local[o.item] = pass[w].loaded[o.item]
      /\ b = local[o.item].body /\ b \in Bodies
      /\ b \in published[pass[w].pairing][o.item]
  BY <1>1, ItsOp DEF ReplyKnown, ReplyOK, OpKnown
<1>3. local \in [Items -> Option(LocalCopy)] /\ b \notin Unparseable
  BY <1>1, <1>2, ItsPass DEF Readable
<1>4. Agree(w, o, b, b)
  BY <1>2 DEF StampPushed, Restamped
<1>5. /\ local' = [local EXCEPT ![o.item] = c]
      /\ pass' = [pass EXCEPT ![w].phase = "ops", ![w].reply = None,
                              ![w].todo = @ \ {o}, ![w].base[o.item] = r]
  BY <1>4 DEF Agree
<1>6. c.body = b /\ c.linked /\ c \in LocalCopy /\ r \in BaseRef /\ r.hash = r.etag
  BY <1>2 DEF LocalCopy, BaseRef, Option
<1> HIDE DEF c, r, b
<1>7. c # None /\ r # None /\ r \in Option(BaseRef) /\ None \in Option(Bodies)
  BY <1>6, NoBaseAssumption DEF Option
<1>8. Readable(c) /\ Agreed(r) /\ Fits(c, r)
  BY <1>3, <1>6, <1>7 DEF Readable, Agreed, Fits
<1>9. OInv'
  BY <1>1, <1>2, <1>5, <1>6, <1>7, <1>8, DoneKeepsOrder
<1> QED
  BY <1>2, <1>3, <1>5, <1>6, <1>7, <1>9 DEF BodyOf

LEMMA StoreKeepsOrder ==
  ASSUME Alone, IInv, OInv, Orderly, UNCHANGED regime,
         NEW w \in Workers, NEW o \in pass[w].todo, StoreFetched(w, o)
  PROVE  OInv'
<1> DEFINE b == pass[w].reply
           c == [body |-> b, linked |-> TRUE, etag |-> b]
           r == [etag |-> b, hash |-> b]
<1>1. /\ pass[w].phase = "store" /\ At(w, o)
      /\ UNCHANGED <<earlier, saved, published>>
  BY DEF StoreFetched
<1>2. o.item \in Items /\ b \in Bodies /\ b \in published[pass[w].pairing][o.item]
  BY <1>1, ItsOp DEF ReplyOK
<1>3. CASE Fail(w) /\ UNCHANGED local
  BY <1>1, <1>3, GiveUpKeepsOrder
<1>4. CASE b \notin Unparseable /\ Agree(w, o, b, b)
  <2>1. /\ local' = [local EXCEPT ![o.item] = c]
        /\ pass' = [pass EXCEPT ![w].phase = "ops", ![w].reply = None,
                                ![w].todo = @ \ {o}, ![w].base[o.item] = r]
    BY <1>4 DEF Agree
  <2>2. c.body = b /\ c.linked /\ c \in LocalCopy /\ r \in BaseRef /\ r.hash = r.etag
    BY <1>2 DEF LocalCopy, BaseRef, Option
  <2> HIDE DEF c, r, b
  <2>3. c # None /\ r # None /\ r \in Option(BaseRef) /\ None \in Option(Bodies)
    BY <2>2, NoBaseAssumption DEF Option
  <2>4. Readable(c) /\ Agreed(r) /\ Fits(c, r)
    BY <1>4, <2>2, <2>3 DEF Readable, Agreed, Fits
  <2> QED
    BY <1>1, <1>2, <2>1, <2>2, <2>3, <2>4, DoneKeepsOrder
<1> QED
  BY <1>3, <1>4 DEF StoreFetched

\* The file is gone on one side, and now on the other.
LEMMA DropKeepsOrder ==
  ASSUME Alone, IInv, OInv, Orderly, UNCHANGED <<regime, earlier, saved>>,
         NEW w \in Workers, NEW o \in pass[w].todo, At(w, o), pass[w].phase = "ops",
         \A p \in Pairings, i \in Items : published[p][i] \subseteq published'[p][i],
         pass' = Dropped(w, o), local' = [local EXCEPT ![o.item] = None]
  PROVE  OInv'
<1>1. pass[w] \in PassRecord /\ pass \in [Workers -> PassRecord]
  BY ItsPass
<1>2. pass[w].reply \in Option(Bodies) /\ o.item \in Items
  BY <1>1, ItsOp DEF PassRecord
<1>3. pass' = [pass EXCEPT ![w].phase = "ops", ![w].reply = pass[w].reply,
                           ![w].todo = @ \ {o}, ![w].base[o.item] = None]
  <2> DEFINE s == pass[w]
             t == [s EXCEPT !.base = [s.base EXCEPT ![o.item] = None], !.todo = s.todo \ {o}]
             u == [s EXCEPT !.phase = "ops", !.reply = s.reply, !.todo = s.todo \ {o},
                            !.base = [s.base EXCEPT ![o.item] = None]]
  <2>1. t = u
    BY <1>1 DEF PassRecord
  <2>2. pass' = [pass EXCEPT ![w] = t]
    BY DEF Dropped
  <2>3. pass' = [pass EXCEPT ![w] = u]
    BY ONLY <2>1, <2>2
  <2> QED
    BY ONLY <2>3
<1>4. Readable(None) /\ Agreed(None) /\ Fits(None, None) /\ None \in Option(BaseRef)
  BY DEF Readable, Agreed, Fits, Option
<1> QED
  BY <1>1, <1>2, <1>3, <1>4, DoneKeepsOrder

LEMMA DeleteRemoteKeepsOrder ==
  ASSUME Alone, IInv, OInv, Orderly, UNCHANGED regime,
         NEW w \in Workers, NEW o \in pass[w].todo, DeleteRemoteFile(w, o)
  PROVE  OInv'
<1>1. /\ pass[w].phase = "ops" /\ At(w, o) /\ o.kind = "DeleteRemote"
      /\ UNCHANGED <<local, earlier, saved>>
      /\ \A p \in Pairings, i \in Items : published[p][i] \subseteq published'[p][i]
  BY DEF DeleteRemoteFile, Write, IInv, TypeOK
<1>2. CASE Fail(w)
  BY <1>1, <1>2, GiveUpKeepsOrder
<1>3. CASE pass' = Dropped(w, o)
  <2>1. local[o.item] = None /\ o.item \in Items /\ local \in [Items -> Option(LocalCopy)]
    BY <1>1, ItsOp, ItsPass DEF OpKnown
  <2>2. local' = [local EXCEPT ![o.item] = None]
    BY <1>1, <2>1
  <2> QED
    BY <1>1, <1>3, <2>2, DropKeepsOrder
<1> QED
  BY <1>2, <1>3 DEF DeleteRemoteFile, Reply

LEMMA SaveKeepsOrder ==
  ASSUME Alone, IInv, OInv, Orderly, UNCHANGED regime, NEW w \in Workers, SaveBase(w)
  PROVE  OInv'
<1>1. /\ pass[w].phase # "idle" /\ UNCHANGED <<local, earlier>>
      /\ saved' = [saved EXCEPT ![pass[w].pairing] = pass[w].base]
      /\ pass' = [pass EXCEPT ![w] = Idle]
  BY DEF SaveBase, userVars
<1>2. /\ pass \in [Workers -> PassRecord] /\ pass[w].pairing \in Pairings
      /\ w \in regime.workers /\ Known(local, published, pass[w])
  BY <1>1, ItsPass
<1>3. saved \in [Pairings -> [Items -> Option(BaseRef)]]
  BY DEF IInv, TypeOK
<1>4. \A p \in Pairings : saved'[p] = pass[w].base
  BY <1>1, <1>2, <1>3 DEF Alone
<1>5. \A i \in Items : Agreed(pass[w].base[i]) /\ Fits(local[i], pass[w].base[i])
  BY <1>2 DEF Known, FileKnown
<1> QED
  BY <1>1, <1>2, <1>4, <1>5, EndOK

LEMMA LoseKeepsOrder ==
  ASSUME Alone, IInv, OInv, Orderly, UNCHANGED regime, NEW w \in Workers, LoseRequest(w)
  PROVE  OInv'
<1>1. UNCHANGED <<local, earlier, saved, published>>
  BY DEF LoseRequest, userVars
<1>2. CASE pass[w].phase = "list" /\ pass' = [pass EXCEPT ![w] = Idle]
  <2>1. pass \in [Workers -> PassRecord] /\ w \in regime.workers
    BY <1>2, ItsPass
  <2>2. Resting
    BY <1>2, <2>1, OneAtWork DEF Resting
  <2>3. \A p \in Pairings, i \in Items : Agreed(saved'[p][i]) /\ Fits(local[i], saved'[p][i])
    BY <1>1, <2>2 DEF OInv, FilesKnown
  <2> QED
    BY <1>1, <1>2, <2>1, <2>3, EndOK
<1>3. CASE pass[w].phase \in {"put", "ops"} /\ Fail(w)
  BY <1>1, <1>3, GiveUpKeepsOrder
<1> QED
  BY <1>2, <1>3 DEF LoseRequest

LEMMA PushKeepsOrder ==
  ASSUME Alone, IInv, OInv, Orderly, UNCHANGED regime,
         NEW w \in Workers, NEW o \in pass[w].todo, Push(w, o) \/ PutWinner(w, o)
  PROVE  OInv'
<1>1. /\ pass[w].phase \in {"ops", "put"} /\ At(w, o) /\ UNCHANGED <<local, earlier, saved>>
      /\ \E expected : Put(w, o.item, expected)
      /\ o.kind \in {"PushCreate", "PushUpdate"} \/ pass[w].phase = "put"
  BY DEF Push, PutWinner
<1>2. o.half = 1
  BY <1>1, ItsOp DEF OpKnown, ReplyKnown
<1> QED
  BY <1>1, <1>2, PutKeepsOrder

LEMMA DeleteLocalKeepsOrder ==
  ASSUME Alone, IInv, OInv, Orderly, UNCHANGED regime,
         NEW w \in Workers, NEW o \in pass[w].todo, DeleteLocalFile(w, o)
  PROVE  OInv'
BY DropKeepsOrder DEF DeleteLocalFile

LEMMA StepKeepsOrder ==
  ASSUME Alone, IInv, OInv, [Next]_vars
  PROVE  OInv'
<1>1. CASE UNCHANGED vars
  BY <1>1 DEF vars, OInv, Orderly, FilesKnown, PassesKnown, Resting
<1>2. CASE Next
  <2>1. UNCHANGED regime /\ (Orderly' <=> Orderly) /\ Step
    BY <1>2 DEF Next, Orderly
  <2>2. CASE ~Orderly
    BY <2>1, <2>2 DEF OInv
  <2>3. CASE Orderly
    <3>1. CASE UserStep
      BY <2>1, <2>3, <3>1, UserKeepsOrder
    <3>2. ASSUME NEW w \in Workers, OpStep(w)
          PROVE  OInv'
      BY <2>1, <2>3, <3>2, PushKeepsOrder, FetchKeepsOrder, StampKeepsOrder,
         StoreKeepsOrder, DeleteLocalKeepsOrder, DeleteRemoteKeepsOrder DEF OpStep
    <3>3. ASSUME NEW w \in Workers, PassStep(w)
          PROVE  OInv'
      BY <2>1, <2>3, <3>2, <3>3, BeginKeepsOrder, ListKeepsOrder, SaveKeepsOrder DEF PassStep
    <3>4. ASSUME NEW w \in Workers, LoseRequest(w) \/ Crash(w)
          PROVE  OInv'
      BY <2>1, <2>3, <3>4, LoseKeepsOrder DEF Crash, Orderly
    <3> QED
      BY <2>1, <3>1, <3>3, <3>4 DEF Step
  <2> QED
    BY <2>2, <2>3
<1> QED
  BY <1>1, <1>2

LEMMA OrderInductive ==
  ASSUME Alone
  PROVE  Spec => []OInv
<1>1. IInv /\ OInv /\ [Next]_vars => OInv'
  BY StepKeepsOrder
<1> QED
  BY <1>1, OrderlyInit, Inductive, PTL DEF Spec

-----------------------------------------------------------------------------
(* What becomes of the files. *)

\* What LocalEditsSurvive allows a step to do to the file of item i.
LocalSurvives(i) ==
  LET was == BodyOf(local[i])
      is  == BodyOf(local'[i])
  IN  was # None /\ ~Published(i, was) /\ is # was => is # None /\ ~LocalWins(was, is)

LEMMA StoreSurvives ==
  ASSUME IInv, OInv, Orderly, NEW w \in Workers, NEW o \in pass[w].todo,
         StoreFetched(w, o), NEW i \in Items
  PROVE  LocalSurvives(i)
<1> DEFINE b == pass[w].reply
<1>1. pass[w].phase = "store" /\ At(w, o)
  BY DEF StoreFetched
<1>2. /\ o.item \in Items /\ o.half \in {1, 2} /\ b \in Bodies
      /\ o \in pass[w].todo /\ pass[w].pairing \in Pairings
      /\ OpKnown(local, published, pass[w], o) /\ ReplyKnown(pass[w], o)
      /\ FileKnown(local, published, pass[w], o.item)
      /\ local \in [Items -> Option(LocalCopy)]
  BY <1>1, ItsPass, ItsOp DEF ReplyOK
<1>3. CASE local'[i] = local[i]
  BY <1>3 DEF LocalSurvives
<1>4. CASE i = o.item /\ local'[i] = [body |-> b, linked |-> TRUE, etag |-> b]
  <2> SUFFICES ASSUME local[i] # None, ~Published(i, local[i].body)
               PROVE  ~LocalWins(local[i].body, b) /\ BodyOf(local'[i]) = b
    BY <1>2 DEF LocalSurvives, BodyOf
  <2>1. BodyOf(local'[i]) = b
    <3>1. local'[i] \in LocalCopy /\ local'[i].body = b
      BY <1>2, <1>4 DEF LocalCopy, Option
    <3> QED
      BY <3>1 DEF BodyOf
  <2>2. CASE o.half = 1
    BY <1>1, <1>2, <1>4, <2>1, <2>2 DEF OpKnown, ReplyKnown, Published
  <2>3. CASE o.half = 2
    <3>1. ~\E x \in pass[w].todo : x.half = 1
      BY <1>1, <2>3 DEF At, Precedes
    <3>2. Linked(local[i]) /\ ~Linked(pass[w].loaded[i])
      BY <1>1, <1>2, <1>4, <2>3, <3>1 DEF FileKnown, OpKnown, Linked
    <3> QED
      BY <1>1, <1>2, <1>4, <3>2 DEF FileKnown, Published
  <2> QED
    BY <1>2, <2>1, <2>2, <2>3
<1> QED
  BY <1>2, <1>3, <1>4 DEF StoreFetched, Agree

LEMMA StampSurvives ==
  ASSUME Alone, IInv, OInv, Orderly, UNCHANGED regime,
         NEW w \in Workers, NEW o \in pass[w].todo, StampPushed(w, o), NEW i \in Items
  PROVE  LocalSurvives(i)
<1>1. BodyOf(local'[o.item]) = BodyOf(local[o.item])
  BY StampKeepsOrder
<1>2. i # o.item => local'[i] = local[i]
  BY DEF StampPushed, Agree, IInv, TypeOK
<1> QED
  BY <1>1, <1>2 DEF LocalSurvives

LEMMA DeleteSurvives ==
  ASSUME IInv, OInv, Orderly, NEW w \in Workers, NEW o \in pass[w].todo,
         DeleteLocalFile(w, o), NEW i \in Items
  PROVE  LocalSurvives(i)
<1>1. /\ pass[w].phase = "ops" /\ At(w, o) /\ o.kind = "DeleteLocal"
      /\ local' = [local EXCEPT ![o.item] = None]
  BY DEF DeleteLocalFile
<1>2. /\ pass[w].pairing \in Pairings /\ o.half \in {1, 2}
      /\ OpKnown(local, published, pass[w], o)
      /\ local \in [Items -> Option(LocalCopy)]
  BY <1>1, ItsPass, ItsOp
<1>3. Published(o.item, local[o.item].body) /\ local[o.item] # None
  BY <1>1, <1>2 DEF OpKnown, Published
<1>4. i # o.item => local'[i] = local[i]
  BY <1>1, <1>2
<1> QED
  BY <1>3, <1>4 DEF LocalSurvives, BodyOf

LEMMA StepLeavesEdits ==
  ASSUME Alone, IInv, OInv, Next, ByPass, Orderly, NEW i \in Items
  PROVE  LocalSurvives(i)
<1>1. ASSUME UserStep
      PROVE  FALSE
  BY <1>1 DEF ByPass, UserStep, LocalDelete, LocalUndo, LocalCreate, LocalEdit,
              LocalRestore, LocalUserActs, ServerDelete, ServerWrite, Reimport
<1>2. CASE UNCHANGED local
  BY <1>2 DEF LocalSurvives
<1>3. ASSUME NEW w \in Workers, PassStep(w)
      PROVE  LocalSurvives(i)
  <2>1. ASSUME NEW o \in pass[w].todo,
               StampPushed(w, o) \/ StoreFetched(w, o) \/ DeleteLocalFile(w, o)
        PROVE  LocalSurvives(i)
    BY <2>1, StampSurvives, StoreSurvives, DeleteSurvives DEF Next
  <2>2. ASSUME NEW o \in pass[w].todo,
               Push(w, o) \/ Fetch(w, o) \/ PutWinner(w, o) \/ DeleteRemoteFile(w, o)
        PROVE  UNCHANGED local
    BY <2>2 DEF Push, Fetch, PutWinner, DeleteRemoteFile, userVars
  <2>3. ASSUME List(w) \/ SaveBase(w) \/ \E r \in Pairings : BeginPass(w, r)
        PROVE  UNCHANGED local
    BY <2>3 DEF List, SaveBase, BeginPass, userVars
  <2> QED
    BY <1>2, <1>3, <2>1, <2>2, <2>3 DEF PassStep, OpStep
<1>4. ASSUME NEW w \in Workers, LoseRequest(w) \/ Crash(w)
      PROVE  UNCHANGED local
  BY <1>4 DEF LoseRequest, Crash, userVars
<1> QED
  BY <1>1, <1>2, <1>3, <1>4 DEF Next, Step

\* Where users act between passes only and no pass dies, one process that
\* syncs with one server never takes an edit no server has had, but for a
\* fetched body that wins the comparison of stamps (docs/sync.md).
THEOREM LocalEditsSafe ==
  ASSUME Alone
  PROVE  Spec => LocalEditsSurvive
<1>1. IInv /\ OInv /\ [Next]_vars =>
        [\A i \in Items :
           LET was == BodyOf(local[i])
               is  == BodyOf(local'[i])
           IN  Orderly /\ OnePairing /\ ByPass
                 /\ was # None /\ ~Published(i, was) /\ is # was =>
               is # None /\ ~LocalWins(was, is)]_vars
  BY StepLeavesEdits DEF LocalSurvives
<1> QED
  BY <1>1, Inductive, OrderInductive, PTL DEF Spec, LocalEditsSurvive

\* With no base and no linked file there is nothing to delete.
LEMMA NoBaseNoDelete ==
  ASSUME NEW locals \in [Items -> Option(LocalCopy)], NEW remotes,
         \A i \in Items : ~Linked(locals[i]),
         NEW o \in Plan(PrepareBase(NoFiles, locals, remotes), locals, remotes)
  PROVE  o.kind \notin {"DeleteLocal", "DeleteRemote"}
<1> DEFINE base == PrepareBase(NoFiles, locals, remotes)
<1>1. DOMAIN locals = Items /\ \A i \in Items : base[i] = None
  BY DEF PrepareBase, PreparedRef, NoFiles
<1>2. o \in Plan(base, locals, remotes)
  OBVIOUS
<1> HIDE DEF base
<1>3. \/ \E i \in Items : locals[i] # None /\ o.kind = LocalOp(base[i], locals[i], remotes[i])
      \/ \E i \in Items : o.kind = RemoteOp(base[i], remotes[i])
  BY <1>1, <1>2, PlanCases
<1>4. CASE \E i \in Items : locals[i] # None /\ o.kind = LocalOp(base[i], locals[i], remotes[i])
  BY <1>4 DEF LocalOp, Linked
<1>5. CASE \E i \in Items : o.kind = RemoteOp(base[i], remotes[i])
  BY <1>1, <1>5 DEF RemoteOp
<1> QED
  BY <1>3, <1>4, <1>5

\* What a pass that is at its listing may plan.
LEMMA FirstPassSafe ==
  ASSUME IInv, OInv, Orderly, Next, NEW w \in Workers,
         pass[w].phase = "list", pass[w].base = NoFiles, NEW o \in pass'[w].todo
  PROVE  o.kind \notin {"DeleteLocal", "DeleteRemote"}
<1>1. /\ pass \in [Workers -> PassRecord] /\ pass[w] \in PassRecord
      /\ pass[w].todo = {} /\ Known(local, published, pass[w])
  BY ItsPass, ThePass DEF PassOK
<1>2. ASSUME List(w)
      PROVE  o.kind \notin {"DeleteLocal", "DeleteRemote"}
  <2> DEFINE remotes == server[pass[w].pairing]
             locals == pass[w].loaded
  <2>1. locals \in [Items -> Option(LocalCopy)]
    BY <1>1 DEF PassRecord
  <2>2. \A i \in Items : ~Linked(locals[i])
    <3> TAKE i \in Items
    <3>1. pass[w].base[i] = None
      BY DEF NoFiles
    <3>2. locals[i] = local[i] /\ Fits(local[i], pass[w].base[i])
      BY <1>1 DEF Known, FileKnown
    <3> HIDE DEF locals
    <3> QED
      BY <3>1, <3>2 DEF Fits, Linked
  <2>3. o \in Plan(PrepareBase(NoFiles, locals, remotes), locals, remotes)
    BY <1>1, <1>2 DEF List
  <2> HIDE DEF locals, remotes
  <2> QED
    BY <2>1, <2>2, <2>3, NoBaseNoDelete
<1>3. ASSUME pass'[w] = pass[w] \/ pass'[w] = Idle
      PROVE  FALSE
  BY <1>1, <1>3 DEF Idle
<1>4. ASSUME UserStep
      PROVE  UNCHANGED pass
  BY <1>4 DEF UserStep, LocalDelete, LocalUndo, LocalCreate, LocalEdit,
              LocalRestore, LocalUserActs, ServerDelete, ServerWrite, Reimport
<1>5. ASSUME NEW v \in Workers \ {w}, PassStep(v) \/ LoseRequest(v) \/ Crash(v)
      PROVE  pass'[w] = pass[w]
  <2>1. \/ \E t : pass' = [pass EXCEPT ![v] = t]
        \/ \E x \in pass[v].todo : \E t, d : Agree(v, x, t, d)
        \/ \E p \in Pairings : BeginPass(v, p)
        \/ List(v)
        \/ \E x \in pass[v].todo : Fetch(v, x) \/ pass' = Dropped(v, x)
        \/ Fail(v)
        \/ \E x \in pass[v].todo : \E e : Put(v, x.item, e)
    BY <1>5 DEF PassStep, OpStep, Push, PutWinner, StampPushed, StoreFetched,
                DeleteLocalFile, DeleteRemoteFile, SaveBase, LoseRequest, Crash, Reply
  <2> QED
    BY <1>1, <2>1 DEF Agree, BeginPass, List, Fetch, Dropped, Fail, Put, Reply
<1>6. ASSUME PassStep(w) \/ LoseRequest(w) \/ Crash(w), ~List(w)
      PROVE  pass'[w] = Idle
  BY <1>1, <1>6 DEF PassStep, OpStep, BeginPass, SaveBase, LoseRequest, Crash
<1> QED
  BY <1>2, <1>3, <1>4, <1>5, <1>6 DEF Next, Step

\* Under the same circumstances a linked file has its base entry whenever no
\* pass is at work, and a pass that finds no base at all deletes nothing on
\* either side (http.rs:313-320, pairing.rs:123-126).
THEOREM BasesReliable ==
  ASSUME Alone
  PROVE  Spec => BasesServe
<1>1. OInv => LinkedHasBase
  BY DEF Alone, OInv, LinkedHasBase, FilesKnown, Resting, Fits, Linked
<1>2. IInv /\ OInv /\ [Next]_vars =>
        [\A w \in Workers :
           Orderly /\ pass[w].phase = "list" /\ pass[w].base = NoFiles =>
             \A o \in pass'[w].todo :
               /\ o.kind # "DeleteRemote"
               /\ o.kind = "DeleteLocal" =>
                    \E q \in Pairings \ {pass[w].pairing} : saved[q][o.item] # None]_vars
  BY FirstPassSafe
<1>3. Spec => []LinkedHasBase
  BY <1>1, OrderInductive, PTL
<1>4. Spec => FirstPassSpares
  BY <1>2, Inductive, OrderInductive, PTL DEF Spec, FirstPassSpares
<1> QED
  BY <1>3, <1>4 DEF BasesServe
=============================================================================
