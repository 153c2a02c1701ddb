----------------------------- MODULE NativeSync -----------------------------
(***************************************************************************)
(* The native sync of mgmt: a client vault reconciled with the vaults of   *)
(* `mgmt web` servers, one pass at a time, against a persisted base        *)
(* (crates/mgmt-sync/src/http.rs, driven by pairing.rs; the server half is *)
(* crates/mgmt-web/src/sync.rs).                                           *)
(*                                                                         *)
(* Every request is one step, and so is every write of a file of the       *)
(* client's vault: users of either side, other devices and a second sync   *)
(* process (the daemon's poll beside an `mgmt sync`) act in between.  A    *)
(* request may be lost, its reply may be lost after the server acted on    *)
(* it, and the process may die at any step.                                *)
(***************************************************************************)
EXTENDS Reconcile

CONSTANTS
  Items,        \* files of the collection, as the positions of their names
  Stamp,        \* Stamp[b]: the `modified` of body b, 0 when it has none
  Unparseable,  \* bodies parse_task rejects: a note kept in the tasks directory
  Pairings,     \* the pairings of sync-pairings.yaml; each names one server vault
  Workers,      \* processes that run passes: the daemon, an `mgmt sync`
  Regimes       \* the circumstances a behaviour may run under

(***************************************************************************)
(* calendar: is the collection a calendar, an item a series with overrides?*)
(* workers: who runs passes; pairings: those the user has configured;      *)
(* edits: a bound on what users do; faults: a bound on lost requests, lost *)
(* replies and crashes, together; midPass: may the user act on the client's*)
(* vault during a pass; crashes: may a pass die before it saves the base;  *)
(* restores: may the user undo, redo and restore from the trash.           *)
(***************************************************************************)
Regime == [calendar : BOOLEAN, workers : SUBSET Workers, pairings : SUBSET Pairings,
           edits : Nat, faults : Nat,
           midPass : BOOLEAN, crashes : BOOLEAN, restores : BOOLEAN]

ASSUME ConstantsAssumption ==
  /\ Items \subseteq Int
  /\ Stamp \in [Bodies -> Nat]
  /\ Unparseable \subseteq Bodies
  /\ \A b \in Unparseable : Stamp[b] = 0
  /\ None \notin Pairings
  /\ Regimes \subseteq Regime

VARIABLES
  regime,    \* what this behaviour runs under
  local,     \* local[i]: the client's file
  earlier,   \* earlier[i]: what an undo or the trash would bring back
  server,    \* server[p][i]: the body in the server vault of pairing p
  saved,     \* saved[p][i]: the base snapshot file of pairing p
  pass,      \* pass[w]: the locals of sync_tasks_http in process w
  edits,     \* how often users have acted
  faults,    \* how many messages were lost and processes killed
  held,      \* history: held[i], the bodies the client's vault has ever held
  published  \* history: published[p][i], the bodies server p has ever held

userVars == <<local, earlier, server, edits>>
vars == <<regime, local, earlier, server, saved, pass, edits, faults, held, published>>

\* "list" to "save" are the points of sync_tasks_http at which it is about to
\* send a request or to write a file.
Phases == {"idle", "list", "ops", "stamp", "put", "store", "save"}

NoFiles == [i \in Items |-> None]

Idle == [phase |-> "idle", pairing |-> None, loaded |-> NoFiles,
         listing |-> NoFiles, base |-> NoFiles, todo |-> {}, reply |-> None]

Init ==
  /\ regime \in Regimes
  /\ local = NoFiles
  /\ earlier = NoFiles
  /\ server = [p \in Pairings |-> NoFiles]
  /\ saved = [p \in Pairings |-> NoFiles]
  /\ pass = [w \in Workers |-> Idle]
  /\ edits = 0
  /\ faults = 0
  /\ held = [i \in Items |-> {}]
  /\ published = [p \in Pairings |-> [i \in Items |-> {}]]

-----------------------------------------------------------------------------
(* The users.  A uid is random, so an item comes into being once. *)

Unborn(i) == held[i] = {} /\ \A p \in Pairings : published[p][i] = {}

UserActs == edits < regime.edits /\ edits' = edits + 1

\* The user of the client's vault (TUI, CLI): MgmtContext writes the file.
LocalUserActs ==
  /\ UserActs
  /\ regime.midPass \/ \A w \in Workers : pass[w].phase = "idle"
  /\ UNCHANGED <<server, saved, pass, faults, published>>

WriteLocal(i, copy, keep) ==
  /\ local' = [local EXCEPT ![i] = copy]
  /\ earlier' = [earlier EXCEPT ![i] = IF regime.restores THEN keep ELSE None]
  /\ held' = [held EXCEPT ![i] = IF copy = None THEN @ ELSE @ \cup {copy.body}]

LocalCreate(i, b) ==
  /\ LocalUserActs
  /\ Unborn(i)
  /\ WriteLocal(i, [body |-> b, linked |-> FALSE, etag |-> None], None)

\* put_task writes the sync meta of the copy it was given back beside the body.
LocalEdit(i, b) ==
  /\ LocalUserActs
  /\ local[i] # None /\ b # local[i].body
  /\ WriteLocal(i, [local[i] EXCEPT !.body = b], local[i])

\* delete_task moves the file to the trash, sync meta included.
LocalDelete(i) ==
  /\ LocalUserActs
  /\ local[i] # None
  /\ WriteLocal(i, None, local[i])

\* undo and redo apply a snapshot as it was: old body, old stamp, old sync meta.
LocalUndo(i) ==
  /\ LocalUserActs
  /\ earlier[i] # None
  /\ WriteLocal(i, earlier[i], local[i])

\* restore_task puts the trashed task back through put_task, which restamps it.
LocalRestore(i, b) ==
  /\ LocalUserActs
  /\ local[i] = None /\ earlier[i] # None
  /\ WriteLocal(i, [earlier[i] EXCEPT !.body = b], None)

\* The web UI, another paired device or a hand edit on the server.
ServerWrite(p, i, b) ==
  /\ UserActs
  /\ p \in regime.pairings
  /\ b # server[p][i]
  /\ Unborn(i) \/ published[p][i] # {}
  /\ server' = [server EXCEPT ![p][i] = b]
  /\ published' = [published EXCEPT ![p][i] = @ \cup {b}]
  /\ UNCHANGED <<local, earlier, saved, pass, faults, held>>

ServerDelete(p, i) ==
  /\ UserActs
  /\ server[p][i] # None
  /\ server' = [server EXCEPT ![p][i] = None]
  /\ UNCHANGED <<local, earlier, saved, pass, faults, held, published>>

\* `mgmt pair import` under a name that is in use: another server, whose vault
\* is empty, and the base of the one before, whose directory has that name.
Reimport(p) ==
  /\ UserActs
  /\ p \in regime.pairings
  /\ \A w \in Workers : pass[w].pairing # p
  /\ server' = [server EXCEPT ![p] = NoFiles]
  /\ UNCHANGED <<local, earlier, saved, pass, faults, held, published>>

-----------------------------------------------------------------------------
(* A pass of process w. *)

\* load_all skips a file that does not parse.
Loaded == [i \in Items |->
             IF local[i] # None /\ local[i].body \notin Unparseable
             THEN local[i] ELSE None]

BeginPass(w, p) ==
  /\ w \in regime.workers /\ p \in regime.pairings
  /\ pass[w].phase = "idle"
  /\ pass' = [pass EXCEPT ![w].phase = "list", ![w].pairing = p,
                          ![w].base = saved[p], ![w].loaded = Loaded]
  /\ UNCHANGED <<userVars, saved, faults, held, published>>

List(w) ==
  LET s    == pass[w]
      base == PrepareBase(s.base, s.loaded, server[s.pairing])
  IN
  /\ s.phase = "list"
  /\ pass' = [pass EXCEPT ![w].phase = "ops",
                          ![w].listing = server[s.pairing],
                          ![w].base = base,
                          ![w].todo = Plan(base, s.loaded, server[s.pairing])]
  /\ UNCHANGED <<userVars, saved, faults, held, published>>

Remote(w, i) == server[pass[w].pairing][i]

\* The operation process w is at: the first one left.
At(w, o) ==
  /\ o \in pass[w].todo
  /\ \A p \in pass[w].todo \ {o} : Precedes(o, p)

\* An error ends the loop; the base is saved all the same.
Fail(w) == pass' = [pass EXCEPT ![w].phase = "save"]

\* The server has acted on a request: its reply takes the pass on, or is lost.
Reply(w, onward) ==
  \/ onward /\ UNCHANGED faults
  \/ Fail(w) /\ faults < regime.faults /\ faults' = faults + 1

\* write_item and remove_item under the server's write lock: the precondition
\* is checked against the bytes on disk in the same step as the write.
Write(w, i, b) ==
  LET p == pass[w].pairing
  IN  /\ server' = [server EXCEPT ![p][i] = b]
      /\ published' = [published EXCEPT ![p][i] = IF b = None THEN @ ELSE @ \cup {b}]

\* A mistake: an upload without If-Match.
PutUnconditionally(w, i, expected) ==
  LET b == pass[w].loaded[i].body
  IN  /\ Write(w, i, b)
      /\ Reply(w, pass' = [pass EXCEPT ![w].phase = "stamp", ![w].reply = b])

\* PUT the body loaded when the pass began, if the server's file is `expected`.
Put(w, i, expected) ==
  LET b == pass[w].loaded[i].body
  IN  \/ /\ Remote(w, i) = expected
         /\ Write(w, i, b)
         /\ Reply(w, pass' = [pass EXCEPT ![w].phase = "stamp", ![w].reply = b])
      \/ /\ Remote(w, i) # expected
         /\ Fail(w)
         /\ UNCHANGED <<server, published, faults>>

\* If-None-Match: * for a creation, If-Match with the etag of the listing.
Push(w, o) ==
  /\ pass[w].phase = "ops"
  /\ At(w, o)
  /\ \/ o.kind = "PushCreate" /\ Put(w, o.item, None)
     \/ o.kind = "PushUpdate" /\ Put(w, o.item, pass[w].listing[o.item])
  /\ UNCHANGED <<local, earlier, saved, edits, held>>

\* True only when both sides have a stamp and the local one is newer.
LocalWins(l, r) == Stamp[l] # 0 /\ Stamp[r] # 0 /\ Stamp[l] > Stamp[r]

Fetch(w, o) ==
  LET r == Remote(w, o.item)
  IN
  /\ pass[w].phase = "ops"
  /\ At(w, o)
  /\ o.kind \in {"Pull", "Conflict"}
  /\ \/ /\ r # None
        /\ pass' = [pass EXCEPT
             ![w].reply = r,
             ![w].phase = IF o.kind = "Conflict"
                             /\ LocalWins(pass[w].loaded[o.item].body, r)
                          THEN "put" ELSE "store"]
     \/ r = None /\ Fail(w)
  /\ UNCHANGED <<userVars, saved, faults, held, published>>

\* The local copy won the conflict: upload it over exactly what was fetched.
PutWinner(w, o) ==
  /\ pass[w].phase = "put"
  /\ At(w, o)
  /\ Put(w, o.item, pass[w].reply)
  /\ UNCHANGED <<local, earlier, saved, edits, held>>

\* The two sides agree on b, and `copy` goes to the file with b's etag.
Agree(w, o, b, copy) ==
  /\ local' = [local EXCEPT ![o.item] = [body |-> copy, linked |-> TRUE, etag |-> b]]
  /\ held' = [held EXCEPT ![o.item] = @ \cup {b, copy}]
  /\ pass' = [pass EXCEPT ![w].phase = "ops", ![w].reply = None,
                          ![w].todo = @ \ {o},
                          ![w].base[o.item] = [etag |-> b, hash |-> b]]

\* stamp_task writes back the copy loaded when the pass began.  stamp_event
\* writes back the master only, beside the overrides the file has by now.
Restamped(w, i) ==
  LET b == pass[w].loaded[i].body
  IN  IF regime.calendar /\ (local[i] = None \/ local[i].body # b)
      THEN Bodies \ Unparseable
      ELSE {b}

StampPushed(w, o) ==
  /\ pass[w].phase = "stamp"
  /\ At(w, o)
  /\ \E copy \in Restamped(w, o.item) : Agree(w, o, pass[w].reply, copy)
  /\ UNCHANGED <<earlier, server, saved, edits, faults, published>>

StoreFetched(w, o) ==
  /\ pass[w].phase = "store"
  /\ At(w, o)
  /\ \/ /\ pass[w].reply \notin Unparseable
        /\ Agree(w, o, pass[w].reply, pass[w].reply)
     \/ /\ pass[w].reply \in Unparseable
        /\ Fail(w)
        /\ UNCHANGED <<local, held>>
  /\ UNCHANGED <<earlier, server, saved, edits, faults, published>>

Dropped(w, o) == [pass EXCEPT ![w].base[o.item] = None, ![w].todo = @ \ {o}]

DeleteLocalFile(w, o) ==
  /\ pass[w].phase = "ops"
  /\ At(w, o)
  /\ o.kind = "DeleteLocal"
  /\ local' = [local EXCEPT ![o.item] = None]
  /\ pass' = Dropped(w, o)
  /\ UNCHANGED <<earlier, server, saved, edits, faults, held, published>>

DeleteRemoteFile(w, o) ==
  /\ pass[w].phase = "ops"
  /\ At(w, o)
  /\ o.kind = "DeleteRemote"
  /\ \/ /\ Remote(w, o.item) = pass[w].listing[o.item]
        /\ Write(w, o.item, None)
        /\ Reply(w, pass' = Dropped(w, o))
     \/ /\ Remote(w, o.item) # pass[w].listing[o.item]
        /\ Fail(w)
        /\ UNCHANGED <<server, published, faults>>
  /\ UNCHANGED <<local, earlier, saved, edits, held>>

\* A mistake: a pass that fails returns without saving the base.
SaveBaseUnlessFailed(w) ==
  /\ \/ pass[w].phase = "save" /\ UNCHANGED saved
     \/ /\ pass[w].phase = "ops" /\ pass[w].todo = {}
        /\ saved' = [saved EXCEPT ![pass[w].pairing] = pass[w].base]
  /\ pass' = [pass EXCEPT ![w] = Idle]
  /\ UNCHANGED <<userVars, faults, held, published>>

SaveBase(w) ==
  /\ \/ pass[w].phase = "save"
     \/ pass[w].phase = "ops" /\ pass[w].todo = {}
  /\ saved' = [saved EXCEPT ![pass[w].pairing] = pass[w].base]
  /\ pass' = [pass EXCEPT ![w] = Idle]
  /\ UNCHANGED <<userVars, faults, held, published>>

\* A request that never reached the server.  A failed listing ends the pass
\* before the base is saved, any later failure after.
LoseRequest(w) ==
  /\ faults < regime.faults
  /\ faults' = faults + 1
  /\ \/ /\ pass[w].phase = "list"
        /\ pass' = [pass EXCEPT ![w] = Idle]
     \/ /\ \/ pass[w].phase = "put"
           \/ /\ pass[w].phase = "ops"
              /\ \E o \in pass[w].todo : At(w, o) /\ o.kind # "DeleteLocal"
        /\ Fail(w)
  /\ UNCHANGED <<userVars, saved, held, published>>

Crash(w) ==
  /\ regime.crashes
  /\ faults < regime.faults
  /\ faults' = faults + 1
  /\ pass[w].phase # "idle"
  /\ pass' = [pass EXCEPT ![w] = Idle]
  /\ UNCHANGED <<userVars, saved, held, published>>

-----------------------------------------------------------------------------
UserStep ==
  \/ \E i \in Items :
       \/ LocalDelete(i)
       \/ LocalUndo(i)
       \/ \E b \in Bodies \ Unparseable :
            LocalCreate(i, b) \/ LocalEdit(i, b) \/ LocalRestore(i, b)
  \/ \E p \in Pairings, i \in Items :
       ServerDelete(p, i) \/ \E b \in Bodies : ServerWrite(p, i, b)
  \/ \E p \in Pairings : Reimport(p)

OpStep(w) ==
  \E o \in pass[w].todo :
    \/ Push(w, o)
    \/ Fetch(w, o)
    \/ PutWinner(w, o)
    \/ StampPushed(w, o)
    \/ StoreFetched(w, o)
    \/ DeleteLocalFile(w, o)
    \/ DeleteRemoteFile(w, o)

PassStep(w) ==
  \/ \E p \in Pairings : BeginPass(w, p)
  \/ List(w)
  \/ OpStep(w)
  \/ SaveBase(w)

Step == UserStep \/ \E w \in Workers : PassStep(w) \/ LoseRequest(w) \/ Crash(w)

Next == Step /\ UNCHANGED regime

Spec == Init /\ [][Next]_vars

\* The daemon polls for ever and a pass it has begun goes on.  Users owe nothing.
FairSpec == Spec /\ \A w \in Workers : WF_vars(PassStep(w) /\ UNCHANGED regime)

-----------------------------------------------------------------------------
(* What the sync owes its users. *)

PassRecord ==
  [phase : Phases, pairing : Option(Pairings),
   loaded : [Items -> Option(LocalCopy)], listing : [Items -> Option(Bodies)],
   base : [Items -> Option(BaseRef)],
   todo : SUBSET [item : Items, half : {1, 2}, kind : Kinds],
   reply : Option(Bodies)]

\* The variables hold what the code's types say, and the body a pass is about
\* to upload or to store is there (http.rs:206-311).
TypeOK ==
  /\ local \in [Items -> Option(LocalCopy)]
  /\ earlier \in [Items -> Option(LocalCopy)]
  /\ server \in [Pairings -> [Items -> Option(Bodies)]]
  /\ saved \in [Pairings -> [Items -> Option(BaseRef)]]
  /\ pass \in [Workers -> PassRecord]
  /\ edits \in Nat
  /\ faults \in Nat
  /\ held \in [Items -> SUBSET Bodies]
  /\ published \in [Pairings -> [Items -> SUBSET Bodies]]

BodyOf(copy) == IF copy = None THEN None ELSE copy.body

\* A step of some pass: the users' steps leave `pass` alone.
ByPass == pass' # pass

(***************************************************************************)
(* A pass replaces or deletes a server's file only if the client's vault   *)
(* has held those very bytes, or the upload is strictly newer than what it *)
(* replaces.  An edit made in the web UI or on another device between the  *)
(* listing and the request therefore survives, whatever is lost, killed or *)
(* run twice (If-Match in http.rs:236-302, write_item and remove_item in   *)
(* mgmt-web/src/sync.rs).                                                  *)
(***************************************************************************)
ServerEditsSurvive ==
  [][\A p \in Pairings, i \in Items :
       LET was == server[p][i]
           is  == server'[p][i]
       IN  ByPass /\ was # None /\ is # was =>
             was \in held[i] \/ (is # None /\ LocalWins(is, was))]_vars

Published(i, b) == \E p \in Pairings : b \in published[p][i]

Orderly ==
  /\ ~regime.midPass /\ ~regime.crashes /\ ~regime.restores
  /\ \A v, w \in regime.workers : v = w

OnePairing == \A p, q \in regime.pairings : p = q

(***************************************************************************)
(* Where one process syncs with one server, users act between passes only  *)
(* and bring nothing back, and no pass dies, a pass never takes from the   *)
(* client's vault a body no server has ever held, unless the fetched body  *)
(* that replaces it wins the comparison of stamps: "detects edits and      *)
(* deletes on either side instead of blindly overwriting" (docs/sync.md).  *)
(* With a second pairing it does: see FirstPassSpares.                     *)
(***************************************************************************)
LocalEditsSurvive ==
  [][\A i \in Items :
       LET was == BodyOf(local[i])
           is  == BodyOf(local'[i])
       IN  Orderly /\ OnePairing /\ ByPass
             /\ was # None /\ ~Published(i, was) /\ is # was =>
           is # None /\ ~LocalWins(was, is)]_vars

\* What a saved base says was agreed on, both sides did hold: a hash of the
\* client's vault and an etag of this very server (http.rs:161-171, 321-344).
BaseWasHeld ==
  \A p \in Pairings, i \in Items :
    saved[p][i] # None => /\ saved[p][i].etag \in published[p][i]
                          /\ saved[p][i].etag \in held[i]
                          /\ saved[p][i].hash \in held[i]

\* Where users act between passes only and no pass dies, a linked file has at
\* rest the base entry of some pairing: without any, plan_sync3 has no change
\* signal for it (http.rs:313-320).
LinkedHasBase ==
  Orderly /\ (\A w \in Workers : pass[w].phase = "idle") =>
    \A i \in Items : Linked(local[i]) => \E p \in Pairings : saved[p][i] # None

(***************************************************************************)
(* Nor does a pass that finds no base then delete anything on the server;  *)
(* and of the client's files it deletes none but those another pairing's   *)
(* base has.  With one pairing that is the "initial clone (pull everything *)
(* remote, push everything local)" of pairing.rs:123-126.  With two it is  *)
(* not: a file's link does not say whose it is, and the first pass over    *)
(* the second server deletes what was pulled from the first                *)
(* (reconcile.rs:134-142), edited since or not.                            *)
(***************************************************************************)
FirstPassSpares ==
  [][\A w \in Workers :
       Orderly /\ pass[w].phase = "list" /\ pass[w].base = NoFiles =>
         \A o \in pass'[w].todo :
           /\ o.kind # "DeleteRemote"
           /\ o.kind = "DeleteLocal" =>
                \E q \in Pairings \ {pass[w].pairing} : saved[q][o.item] # None]_vars

\* What the planner's signals rest on: a linked file has a base entry at rest,
\* and a pass that has no base at all deletes only what another one pulled.
BasesServe == []LinkedHasBase /\ FirstPassSpares

\* Files the client cannot parse stay where they are; all others agree.
InSync ==
  \A p \in Pairings, i \in Items :
    server[p][i] \notin Unparseable => BodyOf(local[i]) = server[p][i]

\* Once the users and the faults have come to an end, the client's vault and
\* the server's say the same for good: "a durable link that keeps a local
\* vault in sync with a remote user, bidirectionally" (docs/sync.md).
Converges == <>[]InSync
=============================================================================
