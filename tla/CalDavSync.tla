----------------------------- MODULE CalDavSync -----------------------------
(***************************************************************************)
(* `mgmt sync` over the CalDAV collections of the configuration, one after *)
(* the other (cmd_sync in crates/mgmt-cli/src/main.rs; sync_events and     *)
(* sync_tasks in crates/mgmt-sync/src/engine.rs).  There is no base: the   *)
(* planner compares the href and the etag a file carries with the listing, *)
(* and an error ends the command where it stands.  The server is any       *)
(* CalDAV server: other clients write to it, and it need not return an     *)
(* ETag to a PUT.  An item is an event series or a task.                   *)
(*                                                                         *)
(* Every collection of events has a calendar directory of its own.  All    *)
(* collections of tasks share the one tasks directory, with each other and *)
(* with the native pairings.                                               *)
(***************************************************************************)
EXTENDS Reconcile

CONSTANTS
  Items,        \* resources, as their positions in a listing
  Collections,  \* the collections, as their positions in the configuration
  Hub,          \* the server of a native pairing
  Setups,       \* the configurations a behaviour may start with
  Foreign,      \* bodies of the other kind, which one calendar may hold as well
  MaxEdits,     \* bound on what users do
  MaxFaults,    \* bound on lost requests and replies, together
  MidPassEdits  \* may the user act on the client's vault during a pass?

\* kind: what the configuration says a collection holds; broken: it names an
\* unknown account, protocol or kind; home: where an item comes into being.
Setup == [kind : [Collections -> {"events", "tasks"}],
          broken : SUBSET Collections, home : [Items -> Collections]]

\* A file of the client's vault: `at` is the collection of its SyncMeta.href.
Copy == [body : Bodies, at : Option(Collections \cup {Hub}), etag : Option(Bodies)]

ASSUME CalDavAssumption ==
  /\ Items \subseteq Int /\ Collections \subseteq Int
  /\ Setups \subseteq Setup
  /\ Foreign \subseteq Bodies
  /\ MaxEdits \in Nat /\ MaxFaults \in Nat
  /\ MidPassEdits \in BOOLEAN
  /\ None \notin Collections /\ Hub \notin Collections /\ Hub # None
  /\ None \notin Copy

VARIABLES
  setup,   \* the configuration
  local,   \* local[i]: the client's file
  server,  \* server[c][i]: the resource's body, which stands for its ETag too
  queue,   \* the collections the command has still to sync
  pass,    \* the locals of sync_events or sync_tasks
  edits,   \* how often users have acted
  faults,  \* how many messages were lost
  calm,    \* history: no user has acted and no message was lost in this pass
  held,    \* history: held[i], the bodies the client's vault has ever held
  kept     \* history: kept[c][i], the bodies the server has ever held

vars == <<setup, local, server, queue, pass, edits, faults, calm, held, kept>>

Phases == {"list", "ops", "stamp", "store", "done", "failed"}

NoFiles == [i \in Items |-> None]

\* Does the store of collection c hold item i?  load_all of the tasks directory
\* and the filter on the calendar.
Stores(c, i) ==
  \/ setup.home[i] = c
  \/ setup.kind[c] = "tasks" /\ setup.kind[setup.home[i]] = "tasks"

Init ==
  /\ setup \in Setups
  /\ local = NoFiles
  /\ server = [c \in Collections |-> NoFiles]
  /\ queue = {}
  /\ pass = [coll |-> None, phase |-> "done", loaded |-> NoFiles, todo |-> {}, reply |-> None]
  /\ edits = 0
  /\ faults = 0
  /\ calm = FALSE
  /\ held = [i \in Items |-> {}]
  /\ kept = [c \in Collections |-> [i \in Items |-> {}]]

-----------------------------------------------------------------------------
(* The users.  A uid is random, so an item comes into being once. *)

Running == pass.phase \notin {"done", "failed"}

Unborn(i) == held[i] = {} /\ \A c \in Collections : kept[c][i] = {}

UserActs == edits < MaxEdits /\ edits' = edits + 1 /\ calm' = FALSE

LocalUserActs ==
  /\ UserActs
  /\ MidPassEdits \/ ~Running
  /\ UNCHANGED <<setup, server, queue, pass, faults, kept>>

Holding(i, b) == held' = [held EXCEPT ![i] = @ \cup {b}]

LocalCreate(i, b) ==
  /\ LocalUserActs
  /\ Unborn(i)
  /\ local' = [local EXCEPT ![i] = [body |-> b, at |-> None, etag |-> None]]
  /\ Holding(i, b)

LocalEdit(i, b) ==
  /\ LocalUserActs
  /\ local[i] # None /\ b # local[i].body
  /\ local' = [local EXCEPT ![i].body = b]
  /\ Holding(i, b)

LocalDelete(i) ==
  /\ LocalUserActs
  /\ local[i] # None
  /\ local' = [local EXCEPT ![i] = None]
  /\ UNCHANGED held

\* A native pairing has pushed the task to its server and stamped the file.
PairingLinks(i) ==
  /\ LocalUserActs
  /\ setup.kind[setup.home[i]] = "tasks"
  /\ local[i] # None /\ local[i].at = None
  /\ local' = [local EXCEPT ![i].at = Hub, ![i].etag = local[i].body]
  /\ UNCHANGED held

\* Another client of the CalDAV server.
ServerWrite(c, i, b) ==
  /\ UserActs
  /\ b # server[c][i]
  /\ kept[c][i] # {} \/ (Unborn(i) /\ setup.home[i] = c)
  /\ server' = [server EXCEPT ![c][i] = b]
  /\ kept' = [kept EXCEPT ![c][i] = @ \cup {b}]
  /\ UNCHANGED <<setup, local, queue, pass, faults, held>>

ServerDelete(c, i) ==
  /\ UserActs
  /\ server[c][i] # None
  /\ server' = [server EXCEPT ![c][i] = None]
  /\ UNCHANGED <<setup, local, queue, pass, faults, held, kept>>

-----------------------------------------------------------------------------
(* The command and its passes. *)

\* `mgmt sync [NAME]`: every collection, or the one that is named.
Command(targets) ==
  /\ ~Running /\ queue = {}
  /\ queue' = targets
  /\ UNCHANGED <<setup, local, server, pass, edits, faults, calm, held, kept>>

Fail ==
  /\ pass' = [pass EXCEPT !.phase = "failed"]
  /\ queue' = {}

Loaded(c) == [i \in Items |-> IF Stores(c, i) THEN local[i] ELSE None]

\* The next collection of the configuration.  One whose account, protocol or
\* kind is unknown ends the command.
BeginPass(c) ==
  /\ ~Running
  /\ c \in queue /\ \A d \in queue : c <= d
  /\ \/ /\ c \notin setup.broken
        /\ pass' = [coll |-> c, phase |-> "list", loaded |-> Loaded(c), todo |-> {},
                    reply |-> None]
        /\ calm' = TRUE
        /\ UNCHANGED queue
     \/ c \in setup.broken /\ Fail /\ calm' = FALSE
  /\ UNCHANGED <<setup, local, server, edits, faults, held, kept>>

List ==
  /\ pass.phase = "list"
  /\ pass' = [pass EXCEPT !.phase = "ops",
                          !.todo = TwoWayPlan(pass.coll, pass.loaded, server[pass.coll])]
  /\ UNCHANGED <<setup, local, server, queue, edits, faults, calm, held, kept>>

At(o) ==
  /\ o \in pass.todo
  /\ \A p \in pass.todo \ {o} : Precedes(o, p)

Finished(o) == [pass EXCEPT !.phase = "ops", !.todo = @ \ {o}, !.reply = None]

\* The server has stored the upload; its reply may come without an ETag, or
\* not at all.
Upload(i, b) ==
  /\ server' = [server EXCEPT ![pass.coll][i] = b]
  /\ kept' = [kept EXCEPT ![pass.coll][i] = @ \cup {b}]
  /\ \/ /\ \E etag \in {b, None} :
             pass' = [pass EXCEPT !.phase = "stamp", !.reply = etag]
        /\ UNCHANGED <<queue, faults, calm>>
     \/ faults < MaxFaults /\ faults' = faults + 1 /\ calm' = FALSE /\ Fail

\* Mistakes: an upload without If-None-Match, and a pass that goes on after the
\* server has refused one.
PushOverwrites(o) ==
  /\ pass.phase = "ops" /\ At(o) /\ o.kind = "Push"
  /\ Upload(o.item, pass.loaded[o.item].body)
  /\ UNCHANGED <<setup, local, edits, held>>

PushGoesOn(o) ==
  LET i == o.item
      b == pass.loaded[i].body
  IN
  /\ pass.phase = "ops" /\ At(o) /\ o.kind = "Push"
  /\ \/ server[pass.coll][i] = None /\ Upload(i, b)
     \/ /\ server[pass.coll][i] # None /\ pass' = Finished(o)
        /\ UNCHANGED <<server, queue, kept, faults, calm>>
  /\ UNCHANGED <<setup, local, edits, held>>

\* put_new: PUT with If-None-Match.
Push(o) ==
  LET i == o.item
      b == pass.loaded[i].body
  IN
  /\ pass.phase = "ops" /\ At(o) /\ o.kind = "Push"
  /\ \/ server[pass.coll][i] = None /\ Upload(i, b)
     \/ /\ server[pass.coll][i] # None
        /\ Fail
        /\ UNCHANGED <<server, kept, faults, calm>>
  /\ UNCHANGED <<setup, local, edits, held>>

\* The sync meta goes onto the copy that was loaded when the pass began: the
\* whole task, or the master of a series beside the overrides the file has now.
Restamped(i) ==
  LET b == pass.loaded[i].body
  IN  IF setup.kind[pass.coll] = "events" /\ (local[i] = None \/ local[i].body # b)
      THEN Bodies \ Foreign
      ELSE {b}

StampPushed(o) ==
  /\ pass.phase = "stamp" /\ At(o)
  /\ \E b \in Restamped(o.item) :
       /\ local' = [local EXCEPT ![o.item] =
                      [body |-> b, at |-> pass.coll, etag |-> pass.reply]]
       /\ Holding(o.item, b)
  /\ pass' = Finished(o)
  /\ UNCHANGED <<setup, server, queue, edits, faults, calm, kept>>

\* A mistake: a resource deleted since the listing is taken to be there.
FetchUnchecked(o) ==
  /\ pass.phase = "ops" /\ At(o) /\ o.kind = "Pull"
  /\ pass' = [pass EXCEPT !.phase = "store", !.reply = server[pass.coll][o.item]]
  /\ UNCHANGED <<setup, local, server, queue, edits, faults, calm, held, kept>>

Fetch(o) ==
  LET r == server[pass.coll][o.item]
  IN
  /\ pass.phase = "ops" /\ At(o) /\ o.kind = "Pull"
  /\ \/ r # None /\ pass' = [pass EXCEPT !.phase = "store", !.reply = r] /\ UNCHANGED queue
     \/ r = None /\ Fail
  /\ UNCHANGED <<setup, local, server, edits, faults, calm, held, kept>>

Store(o) ==
  LET r == pass.reply
  IN  /\ local' = [local EXCEPT ![o.item] = [body |-> r, at |-> pass.coll, etag |-> r]]
      /\ Holding(o.item, r)
      /\ pass' = Finished(o)
      /\ UNCHANGED queue

\* A mistake: sync_events as strict as sync_tasks.
StoreFetchedStrict(o) ==
  /\ pass.phase = "store" /\ At(o)
  /\ \/ pass.reply \notin Foreign /\ Store(o)
     \/ pass.reply \in Foreign /\ Fail /\ UNCHANGED <<local, held>>
  /\ UNCHANGED <<setup, server, edits, faults, calm, kept>>

\* sync_events passes over a resource without a VEVENT; sync_tasks fails on
\* one without a VTODO.
StoreFetched(o) ==
  LET foreign == pass.reply \in Foreign
      kind    == setup.kind[pass.coll]
  IN
  /\ pass.phase = "store" /\ At(o)
  /\ \/ ~foreign /\ Store(o)
     \/ foreign /\ kind = "events" /\ pass' = Finished(o) /\ UNCHANGED <<local, queue, held>>
     \/ foreign /\ kind = "tasks" /\ Fail /\ UNCHANGED <<local, held>>
  /\ UNCHANGED <<setup, server, edits, faults, calm, kept>>

DeleteLocalFile(o) ==
  /\ pass.phase = "ops" /\ At(o) /\ o.kind = "DeleteLocal"
  /\ local' = [local EXCEPT ![o.item] = None]
  /\ pass' = Finished(o)
  /\ UNCHANGED <<setup, server, queue, edits, faults, calm, held, kept>>

EndPass ==
  /\ pass.phase = "ops" /\ pass.todo = {}
  /\ pass' = [pass EXCEPT !.phase = "done"]
  /\ queue' = queue \ {pass.coll}
  /\ UNCHANGED <<setup, local, server, edits, faults, calm, held, kept>>

\* A request that never reached the server ends the command.
LoseRequest ==
  /\ faults < MaxFaults /\ faults' = faults + 1 /\ calm' = FALSE
  /\ \/ pass.phase = "list"
     \/ pass.phase = "ops" /\ \E o \in pass.todo : At(o) /\ o.kind # "DeleteLocal"
  /\ Fail
  /\ UNCHANGED <<setup, local, server, edits, held, kept>>

-----------------------------------------------------------------------------
UserStep ==
  \E i \in Items :
    \/ LocalDelete(i)
    \/ PairingLinks(i)
    \/ \E b \in Bodies \ Foreign : LocalCreate(i, b) \/ LocalEdit(i, b)
    \/ \E c \in Collections :
         ServerDelete(c, i) \/ \E b \in Bodies : ServerWrite(c, i, b)

PassStep ==
  \/ \E targets \in {Collections} \cup {{c} : c \in Collections} : Command(targets)
  \/ \E c \in Collections : BeginPass(c)
  \/ List
  \/ \E o \in pass.todo :
       Push(o) \/ StampPushed(o) \/ Fetch(o) \/ StoreFetched(o) \/ DeleteLocalFile(o)
  \/ EndPass

Next == UserStep \/ PassStep \/ LoseRequest

Spec == Init /\ [][Next]_vars

-----------------------------------------------------------------------------
\* The variables hold what the code's types say: a pass reads and writes only
\* files that are there.
TypeOK ==
  /\ setup \in Setups
  /\ local \in [Items -> Option(Copy)]
  /\ server \in [Collections -> [Items -> Option(Bodies)]]
  /\ queue \subseteq Collections
  /\ pass \in [coll : Option(Collections), phase : Phases,
               loaded : [Items -> Option(Copy)],
               todo : SUBSET [item : Items, half : {1, 2}, kind : TwoWayKinds],
               reply : Option(Bodies)]
  /\ edits \in 0..MaxEdits
  /\ faults \in 0..MaxFaults
  /\ calm \in BOOLEAN
  /\ held \in [Items -> SUBSET Bodies]
  /\ kept \in [Collections -> [Items -> SUBSET Bodies]]

ByPass == pass' # pass

\* A pass never changes or removes what is on the server, whoever put it there
\* and whenever: put_new carries If-None-Match (mgmt-dav client.rs:219).
ServerFilesStand ==
  [][\A c \in Collections, i \in Items :
       ByPass /\ server[c][i] # None => server'[c][i] = server[c][i]]_vars

\* A file that was never linked leaves the vault by no pass, even if an upload
\* whose reply was lost put it on the server and others edited it there: the
\* failing upload comes before the pull that would replace the file
\* (engine.rs:52-64, 100-112).
NewFilesStay ==
  [][\A i \in Items :
       ByPass /\ local[i] # None /\ local[i].at = None =>
         local'[i] # None /\ local'[i].body = local[i].body]_vars

\* A pass nobody interferes with ends with every change of the server's in the
\* client's vault: the file carries the listed etag, or was just uploaded.
PassDelivers ==
  calm /\ pass.phase = "done" =>
    \A i \in Items : Stores(pass.coll, i) =>
      LET r == server[pass.coll][i]
      IN
      /\ r \in Bodies \ Foreign =>
           /\ local[i] # None
           /\ local[i].etag = r \/ local[i].body = r
      /\ r = None => local[i] = None

\* As long as no reply was lost, a pass over an events collection that nobody
\* interferes with gets to its end: "each becomes a Collection (an events
\* calendar and/or a tasks calendar, per its advertised components)"
\* (docs/sync.md), so one calendar is synced as both.
PassCompletes ==
  calm /\ faults = 0 /\ setup.kind[pass.coll] = "events" => pass.phase # "failed"

\* An undisturbed pass ends (where it must not fail), with everything in place.
PassServes == PassDelivers /\ PassCompletes

\* A pass takes a file out of the vault only if its own server once had the
\* item and has it no more: "Add as many accounts and calendars as you like"
\* (docs/sync.md).
DeletesWhatWasThere ==
  [][\A i \in Items :
       ByPass /\ local[i] # None /\ local'[i] = None => kept[pass.coll][i] # {}]_vars
=============================================================================
