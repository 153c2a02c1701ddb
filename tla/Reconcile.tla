----------------------------- MODULE Reconcile -----------------------------
(***************************************************************************)
(* The planners of mgmt-sync (crates/mgmt-sync/src/reconcile.rs) and the   *)
(* maintenance of the merge base that precedes them (http.rs).  Pure       *)
(* operators: the state machines that run the plans are NativeSync and     *)
(* CalDavSync.                                                             *)
(*                                                                         *)
(* An item is one file of a collection: a task, or a whole event series.   *)
(* Its href is derived from its uid, so the item itself stands for both.   *)
(* SHA-256 is taken to be collision free and the serializer to be          *)
(* deterministic: the server's ETag of a file and the client's hash of a   *)
(* clean body are both represented by the body.                            *)
(***************************************************************************)
EXTENDS Integers

CONSTANTS Bodies,   \* what a file may say, its `modified` stamp included
          None      \* Option::None: no file, no base entry, no etag

Option(S) == S \cup {None}

\* A file of the client's vault.  `etag` is SyncMeta.etag, and `linked` says
\* whether SyncMeta.href is set: both travel in the file beside the body.
LocalCopy == [body : Bodies, linked : BOOLEAN, etag : Option(Bodies)]

ASSUME NoneAssumption == None \notin Bodies /\ None \notin LocalCopy

\* BaseRef: the server's etag and the clean body's hash at the last sync.
BaseRef == [etag : Bodies, hash : Bodies]

ASSUME NoBaseAssumption == None \notin BaseRef

Linked(l) == l # None /\ l.linked

LocalChanged(base, l) == base # None /\ base.hash # l.body

RemoteChanged(base, l, r) ==
  r # (IF base # None THEN base.etag ELSE l.etag)

Kinds == {"PushCreate", "PushUpdate", "Pull", "DeleteLocal", "DeleteRemote",
          "Conflict"}

\* Mistakes the checks must catch: a remote delete that wins over an edit, and
\* a planner that compares etags only, so that an edit is never uploaded.
LocalOpDropsEdits(base, l, r) ==
  CASE ~l.linked                              -> "PushCreate"
    [] l.linked /\ r = None                   -> "DeleteLocal"
    [] OTHER ->
         CASE LocalChanged(base, l) /\ RemoteChanged(base, l, r)  -> "Conflict"
           [] LocalChanged(base, l) /\ ~RemoteChanged(base, l, r) -> "PushUpdate"
           [] ~LocalChanged(base, l) /\ RemoteChanged(base, l, r) -> "Pull"
           [] OTHER                                               -> "Nothing"

LocalOpEtagsOnly(base, l, r) ==
  CASE ~l.linked                                       -> "PushCreate"
    [] l.linked /\ r = None                            -> "DeleteLocal"
    [] l.linked /\ r # None /\ RemoteChanged(base, l, r) -> "Pull"
    [] OTHER                                           -> "Nothing"

(***************************************************************************)
(* plan_sync3, first loop: the operation a local file calls for.           *)
(***************************************************************************)
LocalOp(base, l, r) ==
  CASE ~l.linked                                    -> "PushCreate"
    [] l.linked /\ r = None /\ LocalChanged(base, l)  -> "PushCreate"
    [] l.linked /\ r = None /\ ~LocalChanged(base, l) -> "DeleteLocal"
    [] OTHER ->
         CASE LocalChanged(base, l) /\ RemoteChanged(base, l, r)  -> "Conflict"
           [] LocalChanged(base, l) /\ ~RemoteChanged(base, l, r) -> "PushUpdate"
           [] ~LocalChanged(base, l) /\ RemoteChanged(base, l, r) -> "Pull"
           [] OTHER                                               -> "Nothing"

\* A mistake: no base entry taken for a local deletion.
RemoteOpNoBaseIsDeleted(base, r) ==
  IF base = None \/ base.etag = r THEN "DeleteRemote" ELSE "Pull"

(***************************************************************************)
(* plan_sync3, second loop: a remote file no local file links to.          *)
(***************************************************************************)
RemoteOp(base, r) ==
  IF base # None /\ base.etag = r THEN "DeleteRemote" ELSE "Pull"

(***************************************************************************)
(* plan_sync3.  `bases`, `locals` and `remotes` are functions over the     *)
(* items.  The plan is a set of operations; Precedes is the order of the   *)
(* vector: local files first, each half in the order of the listing, which *)
(* collect_files sorts by name.                                            *)
(***************************************************************************)
Op == [item : Int, half : {1, 2}, kind : Kinds]

Plan(bases, locals, remotes) ==
  LET op1(i) == LocalOp(bases[i], locals[i], remotes[i])
      op2(i) == RemoteOp(bases[i], remotes[i])
  IN  {[item |-> i, half |-> 1, kind |-> op1(i)] :
         i \in {j \in DOMAIN locals : locals[j] # None /\ op1(j) # "Nothing"}}
      \cup
      {[item |-> i, half |-> 2, kind |-> op2(i)] :
         i \in {j \in DOMAIN locals : remotes[j] # None /\ ~Linked(locals[j])}}

Precedes(o, p) == o.half < p.half \/ (o.half = p.half /\ o.item < p.item)

\* Mistakes: a seed for a file the server does not list, and a seed for a file
\* whose etag is not the server's.
PreparedRefSeedsUnlisted(base, l, r) ==
  IF base = None /\ Linked(l) THEN [etag |-> r, hash |-> l.body]
  ELSE IF Linked(l) \/ r # None THEN base ELSE None

PreparedRefSeedsUnmatched(base, l, r) ==
  IF base = None /\ Linked(l) /\ r # None THEN [etag |-> r, hash |-> l.body]
  ELSE IF Linked(l) \/ r # None THEN base ELSE None

(***************************************************************************)
(* prepare_base: drop the entries of items that are on neither side, then  *)
(* seed an entry for a linked file whose etag is the server's.  The seed   *)
(* takes the file as it is now for the base.                               *)
(***************************************************************************)
PreparedRef(base, l, r) ==
  LET live == Linked(l) \/ r # None
      seed == base = None /\ Linked(l) /\ r # None /\ l.etag = r
  IN  IF seed THEN [etag |-> r, hash |-> l.body]
      ELSE IF live THEN base ELSE None

PrepareBase(bases, locals, remotes) ==
  [i \in DOMAIN locals |-> PreparedRef(bases[i], locals[i], remotes[i])]

(***************************************************************************)
(* plan_sync, the two-way planner of the CalDAV driver.  A file carries    *)
(* the href it was last synced at, which names the collection `at` too; it *)
(* is looked up in the listing of collection c.  Only etags are compared:  *)
(* no operation uploads over an existing resource.                         *)
(***************************************************************************)
TwoWayKinds == {"Push", "Pull", "DeleteLocal"}

\* A mistake: a file without an etag is taken to be up to date.
TwoWayOpTrustsNoEtag(l, listed) ==
  CASE l.at = None                                      -> "Push"
    [] l.at # None /\ listed = None                     -> "DeleteLocal"
    [] l.at # None /\ listed # None /\ l.etag \notin {listed, None} -> "Pull"
    [] OTHER                                            -> "Nothing"

TwoWayOp(l, listed) ==
  CASE l.at = None                                      -> "Push"
    [] l.at # None /\ listed = None                     -> "DeleteLocal"
    [] l.at # None /\ listed # None /\ l.etag # listed  -> "Pull"
    [] OTHER                                            -> "Nothing"

TwoWayPlan(c, locals, remotes) ==
  LET here(i) == locals[i] # None /\ locals[i].at = c
      op(i) == TwoWayOp(locals[i], IF here(i) THEN remotes[i] ELSE None)
  IN  {[item |-> i, half |-> 1, kind |-> op(i)] :
         i \in {j \in DOMAIN locals : locals[j] # None /\ op(j) # "Nothing"}}
      \cup
      {[item |-> i, half |-> 2, kind |-> "Pull"] :
         i \in {j \in DOMAIN locals : remotes[j] # None /\ ~here(j)}}
=============================================================================
