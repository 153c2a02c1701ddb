------------------------------ MODULE WebVault ------------------------------
(***************************************************************************)
(* One user's vault in the web server: UserCtx of                          *)
(* crates/mgmt-web/src/state.rs and the handlers of routes.rs, sync.rs and *)
(* calendars.rs that use it.  A context (its cache) is behind a read-write *)
(* lock; a file watcher sets `stale`, which read() and write() clear       *)
(* before they ask for the lock, read() to load the files first, write()   *)
(* without doing so.  Other programs write to the files and know nothing   *)
(* of the lock.                                                            *)
(*                                                                         *)
(* An item is a file in a directory; `rev` tells what it says.  The watcher *)
(* is taken to report every change, sooner or later.                       *)
(* What one context does to its files is in VaultContext; here a mutation  *)
(* is one step of a handler that holds the lock.                           *)
(***************************************************************************)
EXTENDS Integers, Sequences

CONSTANTS
  Procs,      \* requests being handled at the same time
  Tasks, Events,
  TasksDir,   \* the directory of the tasks
  Calendars,  \* the directories of the events
  Default,    \* DEFAULT_CALENDAR
  ReportsOpens,   \* does the platform's watcher report files that are opened?
  None,       \* Option::None
  MaxActs,    \* bound on requests other than reads and writes of others, together
  MaxFaults   \* bound on failing file operations and clients that hang up

Option(S) == S \cup {None}
Items == Tasks \cup Events
File == [home : Calendars \cup {TasksDir}, rev : Nat]
Home(i) == IF i \in Tasks THEN {TasksDir} ELSE Calendars

ReadRequest == [kind : {"read"}]
ReloadRequest == [kind : {"reload"}]
PutRequest == [kind : {"put"}, item : Items, home : Calendars \cup {TasksDir}, rev : Nat]
ItemRequest == [kind : {"edit", "delete"}, item : Items, rev : Nat]
\* want is the ETag of If-Match, or None for `If-None-Match: *`.
SyncRequest == [kind : {"syncPut", "syncDelete"}, item : Tasks, want : Option(File),
                rev : Nat]
RemoveRequest == [kind : {"remove"}, from : Calendars, force : BOOLEAN, rev : Nat]
RenameRequest == [kind : {"rename"}, from : Calendars, to : Calendars]

Request == ReadRequest \cup ReloadRequest \cup PutRequest \cup ItemRequest
             \cup SyncRequest \cup RemoveRequest \cup RenameRequest

Waiting == [askReload |-> "waitReload", askRead |-> "waitRead", askWrite |-> "waitWrite"]

Phases == {"idle", "askReload", "askRead", "askWrite", "waitReload", "waitRead",
           "waitWrite", "serve", "work", "write", "move", "loadTasks", "loadEvents"}

\* The locals of a handler: `cleared` is whether its write() found the flag set
\* and it has not changed the files since; `todo` the events it has to move.
Handler == [pc : Phases, req : Option(Request), cleared : BOOLEAN, todo : SUBSET Events]

Idle == [pc |-> "idle", req |-> None, cleared |-> FALSE, todo |-> {}]

ASSUME WebAssumption ==
  /\ Tasks \cap Events = {}
  /\ Default \in Calendars /\ TasksDir \notin Calendars
  /\ ReportsOpens \in BOOLEAN
  /\ MaxActs \in Nat /\ MaxFaults \in Nat
  /\ None \notin File /\ None \notin Request /\ None \notin Procs

VARIABLES
  disk,       \* the files
  cache,      \* the MgmtContext
  watching,   \* is the watcher there?
  noticed,    \* it has events to deliver
  stale,      \* UserCtx.stale
  pinged,     \* a page has got a `changed` event and has not refetched yet
  queue,      \* who waits for the lock, in order
  writer, readers,   \* who holds it
  handler,    \* the request each process handles
  acts,       \* requests other than reads and writes of others so far
  faults,     \* file operations that failed and clients that hung up
  forgotten,  \* history: items of which a change may have been missed for good
  raced       \* history: handlers since whose precondition check others wrote

lock == <<queue, writer, readers>>
signals == <<watching, noticed, stale, pinged>>
bounds == <<acts, faults>>
vars == <<disk, cache, signals, lock, handler, bounds, forgotten, raced>>

\* UserCtx::open loads what is there, then starts to watch.
Init ==
  /\ disk \in [Items -> Option([home : Calendars \cup {TasksDir}, rev : {0}])]
  /\ \A i \in Items : disk[i] # None => disk[i].home \in Home(i)
  /\ cache = disk
  /\ watching = FALSE /\ noticed = FALSE /\ stale = FALSE /\ pinged = FALSE
  /\ queue = <<>> /\ writer = None /\ readers = {}
  /\ handler = [p \in Procs |-> Idle]
  /\ acts = 0 /\ faults = 0
  /\ forgotten = {} /\ raced = {}

pc(p) == handler[p].pc
req(p) == handler[p].req
Goto(p, l) == handler' = [handler EXCEPT ![p].pc = l]

-----------------------------------------------------------------------------
(* Requests arrive: UserCtx::read and UserCtx::write up to the lock.       *)

Begin(p, r, l, cleared) ==
  /\ watching
  /\ pc(p) = "idle"
  /\ stale' = FALSE
  /\ handler' = [handler EXCEPT ![p] = [Idle EXCEPT !.pc = l, !.req = r, !.cleared = cleared]]
  /\ UNCHANGED <<disk, cache, watching, noticed, lock, faults, forgotten, raced>>

\* stale.swap(false)
Read(p) ==
  /\ Begin(p, [kind |-> "read"], IF stale THEN "askReload" ELSE "askRead", FALSE)
  /\ UNCHANGED acts

BeginRead(p) == Read(p) /\ UNCHANGED pinged

\* The page fetches everything again after a `changed` event.
Refetch(p) == pinged /\ pinged' = FALSE /\ Read(p)

\* stale.store(false).  `rev` marks what the request will write.
BeginWrite(p, r) ==
  /\ acts < MaxActs /\ acts' = acts + 1
  /\ Begin(p, r, "askWrite", stale)
  /\ UNCHANGED pinged

BeginReload(p) == BeginWrite(p, [kind |-> "reload"])

BeginPut(p, i, home) ==
  BeginWrite(p, [kind |-> "put", item |-> i, home |-> home, rev |-> acts + 1])

BeginItem(p, kind, i) == BeginWrite(p, [kind |-> kind, item |-> i, rev |-> acts + 1])

\* The client names a version it has been listed, or none for a new file.
BeginSync(p, kind, t, want) ==
  BeginWrite(p, [kind |-> kind, item |-> t, want |-> want, rev |-> acts + 1])

BeginRemove(p, c, force) ==
  /\ c # Default
  /\ BeginWrite(p, [kind |-> "remove", from |-> c, force |-> force, rev |-> acts + 1])

EventsIn(d, c) == {e \in Events : d[e] # None /\ d[e].home = c}

\* calendars::update looks for the new name before it has the lock.
BeginRename(p, c, new) ==
  /\ c # new /\ EventsIn(disk, new) = {}
  /\ BeginWrite(p, [kind |-> "rename", from |-> c, to |-> new])

-----------------------------------------------------------------------------
(* The lock. *)

\* A mistake: a lock that lets readers go first.
AskReadersFirst(p) ==
  /\ pc(p) \in DOMAIN Waiting
  /\ queue' = IF pc(p) = "askRead" THEN <<p>> \o queue ELSE Append(queue, p)
  /\ Goto(p, Waiting[pc(p)])
  /\ UNCHANGED <<disk, cache, signals, writer, readers, bounds, forgotten, raced>>

\* tokio's RwLock is fair: whoever asks first gets it first.
Ask(p) ==
  /\ pc(p) \in DOMAIN Waiting
  /\ queue' = Append(queue, p)
  /\ Goto(p, Waiting[pc(p)])
  /\ UNCHANGED <<disk, cache, signals, writer, readers, bounds, forgotten, raced>>

GrantRead(p) ==
  /\ queue # <<>> /\ Head(queue) = p /\ pc(p) = "waitRead"
  /\ writer = None
  /\ queue' = Tail(queue)
  /\ readers' = readers \cup {p}
  /\ Goto(p, "serve")
  /\ UNCHANGED <<disk, cache, signals, writer, bounds, forgotten, raced>>

GrantWrite(p) ==
  /\ queue # <<>> /\ Head(queue) = p /\ pc(p) \in {"waitReload", "waitWrite"}
  /\ writer = None /\ readers = {}
  /\ queue' = Tail(queue)
  /\ writer' = p
  /\ Goto(p, IF pc(p) = "waitReload" THEN "loadTasks" ELSE "work")
  /\ UNCHANGED <<disk, cache, signals, readers, bounds, forgotten, raced>>

\* A read handler answers from the cache.
Serve(p) ==
  /\ pc(p) = "serve"
  /\ readers' = readers \ {p}
  /\ handler' = [handler EXCEPT ![p] = Idle]
  /\ UNCHANGED <<disk, cache, signals, queue, writer, bounds, forgotten, raced>>

\* What no handler that has the lock changes.
others == <<watching, stale, pinged, queue, readers, acts>>

Fail == faults < MaxFaults /\ faults' = faults + 1

\* The client is gone and the request is dropped where it waits.  The flag it has
\* taken down stays down.
HangUp(p) ==
  /\ pc(p) \in {"waitReload", "waitRead", "waitWrite"}
  /\ \E k \in 1..Len(queue) :
       queue[k] = p /\ queue' = SubSeq(queue, 1, k - 1) \o SubSeq(queue, k + 1, Len(queue))
  /\ Fail
  /\ handler' = [handler EXCEPT ![p] = Idle]
  /\ forgotten' = IF handler[p].cleared \/ pc(p) = "waitReload" THEN Items ELSE forgotten
  /\ UNCHANGED <<disk, cache, signals, writer, readers, acts, raced>>

-----------------------------------------------------------------------------
(* MgmtContext::reload: the tasks, then the events; an error ends it, and  *)
(* read() does not look at the result.                                     *)

\* The guard is dropped; a reader goes on to ask for its read guard.
Release(p) ==
  /\ writer' = None
  /\ IF req(p).kind = "read" THEN Goto(p, "askRead")
     ELSE handler' = [handler EXCEPT ![p] = Idle]

\* Any event counts (state.rs:244-258).
Opens == noticed' = (noticed \/ ReportsOpens)

Load(S) ==
  /\ cache' = [i \in Items |-> IF i \in S THEN disk[i] ELSE cache[i]]
  /\ Opens

\* A mistake: the flag is cleared once the files have been read.
LoadEventsThenClear(p) ==
  /\ pc(p) = "loadEvents"
  /\ Load(Events)
  /\ forgotten' = forgotten \ Events
  /\ stale' = FALSE
  /\ Release(p)
  /\ UNCHANGED <<disk, watching, pinged, queue, readers, bounds, raced>>

LoadTasks(p) ==
  /\ pc(p) = "loadTasks"
  /\ \/ /\ Load(Tasks)
        /\ Goto(p, "loadEvents")
        /\ forgotten' = forgotten \ Tasks
        /\ UNCHANGED <<writer, faults>>
     \/ /\ Fail
        /\ Release(p)
        /\ forgotten' = Items
        /\ Opens /\ UNCHANGED cache
  /\ UNCHANGED <<others, disk, raced>>

LoadEvents(p) ==
  /\ pc(p) = "loadEvents"
  /\ \/ /\ Load(Events)
        /\ forgotten' = forgotten \ Events
        /\ UNCHANGED faults
     \/ /\ Fail
        /\ forgotten' = forgotten \cup Events
        /\ Opens /\ UNCHANGED cache
  /\ Release(p)
  /\ UNCHANGED <<others, disk, raced>>

-----------------------------------------------------------------------------
(* The handlers, once they have the write guard.  The watcher sees their   *)
(* own changes too.                                                        *)

\* The handler returns.  If its write() cleared the flag and no change of its
\* own will set it again, the cache has missed something for good.
Return(p) ==
  /\ writer' = None
  /\ handler' = [handler EXCEPT ![p] = Idle]
  /\ forgotten' = IF handler[p].cleared THEN Items ELSE forgotten

Changes(d) == disk' = d /\ noticed' = TRUE

\* Having changed the files, the handler is done, or it goes on.
Done(p) ==
  /\ writer' = None
  /\ handler' = [handler EXCEPT ![p] = Idle]
  /\ UNCHANGED forgotten

GoesOn(p, l, todo) ==
  /\ handler' = [handler EXCEPT ![p].pc = l, ![p].todo = todo, ![p].cleared = FALSE]
  /\ UNCHANGED <<writer, forgotten>>

Working(p, kind) == pc(p) = "work" /\ req(p).kind = kind

Refuse(p) == Return(p) /\ UNCHANGED <<disk, cache, noticed, faults, raced>>

\* create_task, update_task, create_event, update_event: the body is the client's.
PutItem(p) ==
  LET f == [home |-> req(p).home, rev |-> req(p).rev]
  IN
  /\ Working(p, "put")
  /\ Changes([disk EXCEPT ![req(p).item] = f])
  /\ cache' = [cache EXCEPT ![req(p).item] = f]
  /\ Done(p)
  /\ UNCHANGED <<others, faults, raced>>

\* A mistake: an item that is not in the cache is edited nevertheless.
EditAnyItem(p) ==
  LET i == req(p).item
      f == [home |-> IF cache[i] = None THEN None ELSE cache[i].home, rev |-> req(p).rev]
  IN
  /\ Working(p, "edit")
  /\ Changes([disk EXCEPT ![i] = f])
  /\ cache' = [cache EXCEPT ![i] = f]
  /\ Done(p)
  /\ UNCHANGED <<others, faults, raced>>

\* set_status, toggle_task, cycle_priority, set_project and the scoped event
\* edits go from the cached item, and fail if there is none.
EditItem(p) ==
  LET i == req(p).item
  IN
  /\ Working(p, "edit")
  /\ IF cache[i] = None THEN Refuse(p)
     ELSE LET f == [home |-> cache[i].home, rev |-> req(p).rev]
          IN /\ Changes([disk EXCEPT ![i] = f])
             /\ cache' = [cache EXCEPT ![i] = f]
             /\ Done(p)
             /\ UNCHANGED <<faults, raced>>
  /\ UNCHANGED others

DeleteItem(p) ==
  LET i == req(p).item
  IN
  /\ Working(p, "delete")
  /\ cache' = [cache EXCEPT ![i] = None]
  /\ IF disk[i] = None THEN Return(p) /\ UNCHANGED <<disk, noticed>>
     ELSE Changes([disk EXCEPT ![i] = None]) /\ Done(p)
  /\ UNCHANGED <<others, faults, raced>>

\* A mistake: no precondition.
SyncCheckLoosely(p) ==
  /\ Working(p, "syncPut") \/ Working(p, "syncDelete")
  /\ Goto(p, "write") /\ raced' = raced \ {p}
  /\ UNCHANGED <<disk, cache, noticed, writer, forgotten, faults>>
  /\ UNCHANGED others

\* write_item and remove_item: the precondition is checked against the file,
\* then the file is written, then everything is loaded.
SyncCheck(p) ==
  /\ Working(p, "syncPut") \/ Working(p, "syncDelete")
  /\ IF disk[req(p).item] = req(p).want
     THEN /\ Goto(p, "write") /\ raced' = raced \ {p}
          /\ UNCHANGED <<disk, cache, noticed, writer, forgotten, faults>>
     ELSE Refuse(p)
  /\ UNCHANGED others

SyncWrite(p) ==
  LET f == IF req(p).kind = "syncPut" THEN [home |-> TasksDir, rev |-> req(p).rev] ELSE None
  IN
  /\ pc(p) = "write"
  /\ IF disk[req(p).item] = f THEN Refuse(p)
     ELSE /\ Changes([disk EXCEPT ![req(p).item] = f])
          /\ GoesOn(p, "loadTasks", {})
          /\ UNCHANGED <<cache, faults, raced>>
  /\ UNCHANGED others

\* A mistake: `force` means what it says.
RemoveCheckDestroys(p) ==
  LET known == EventsIn(cache, req(p).from)
  IN
  /\ Working(p, "remove")
  /\ IF known # {} /\ ~req(p).force THEN Refuse(p)
     ELSE /\ handler' = [handler EXCEPT ![p].pc = "move"]
          /\ UNCHANGED <<disk, cache, noticed, writer, forgotten, faults, raced>>
  /\ UNCHANGED others

\* calendars::remove: the events it knows of go to the default calendar first.
RemoveCheck(p) ==
  LET known == EventsIn(cache, req(p).from)
  IN
  /\ Working(p, "remove")
  /\ IF known # {} /\ ~req(p).force THEN Refuse(p)
     ELSE /\ handler' = [handler EXCEPT ![p].pc = "move", ![p].todo = known]
          /\ UNCHANGED <<disk, cache, noticed, writer, forgotten, faults, raced>>
  /\ UNCHANGED others

MoveOne(p, e) ==
  LET f == [home |-> Default, rev |-> req(p).rev]
  IN
  /\ pc(p) = "move" /\ e \in handler[p].todo
  /\ Changes([disk EXCEPT ![e] = f])
  /\ cache' = [cache EXCEPT ![e] = f]
  /\ GoesOn(p, "move", handler[p].todo \ {e})
  /\ UNCHANGED <<others, faults, raced>>

\* remove_dir_all, then the reload
RemoveDir(p) ==
  /\ pc(p) = "move" /\ handler[p].todo = {}
  /\ Changes([i \in Items |-> IF i \in EventsIn(disk, req(p).from) THEN None ELSE disk[i]])
  /\ GoesOn(p, "loadTasks", {})
  /\ UNCHANGED <<cache, others, faults, raced>>

\* A directory is not renamed over one that has files.
RenameDir(p) ==
  /\ Working(p, "rename")
  /\ IF EventsIn(disk, req(p).to) # {} THEN Refuse(p)
     ELSE /\ Changes([i \in Items |-> IF i \in EventsIn(disk, req(p).from)
                                      THEN [disk[i] EXCEPT !.home = req(p).to] ELSE disk[i]])
          /\ GoesOn(p, "loadTasks", {})
          /\ UNCHANGED <<cache, faults, raced>>
  /\ UNCHANGED others

StartReload(p) ==
  /\ Working(p, "reload")
  /\ Goto(p, "loadTasks")
  /\ UNCHANGED <<disk, cache, noticed, writer, forgotten, faults, raced, others>>

\* A file operation of the handler fails and changes nothing.
Error(p) ==
  /\ pc(p) \in {"write", "move"} \/ (pc(p) = "work" /\ req(p).kind # "reload")
  /\ Fail
  /\ Return(p)
  /\ UNCHANGED <<disk, cache, noticed, raced, others>>

-----------------------------------------------------------------------------
(* The watcher and the other programs. *)

StartWatching ==
  /\ ~watching /\ watching' = TRUE
  /\ UNCHANGED <<disk, cache, noticed, stale, pinged, lock, handler, bounds, forgotten, raced>>

\* A mistake: no event is sent to the pages.
DeliverSilently ==
  /\ noticed /\ noticed' = FALSE
  /\ stale' = TRUE
  /\ UNCHANGED <<disk, cache, watching, pinged, lock, handler, bounds, forgotten, raced>>

\* Also the end of a subscription's refresh, which writes to the files without
\* the lock and sets the flag itself.
Deliver ==
  /\ noticed /\ noticed' = FALSE
  /\ stale' = TRUE /\ pinged' = TRUE
  /\ UNCHANGED <<disk, cache, watching, lock, handler, bounds, forgotten, raced>>

\* The command line, the daemon, an editor, or a refresh writes or removes a file.
OthersWrite(i, f) ==
  /\ acts < MaxActs /\ acts' = acts + 1
  /\ disk[i] # f
  /\ disk' = [disk EXCEPT ![i] = f]
  /\ noticed' = (noticed \/ watching)
  /\ forgotten' = IF watching THEN forgotten ELSE forgotten \cup {i}
  /\ raced' = {p \in Procs : pc(p) = "write"} \cup raced
  /\ UNCHANGED <<cache, watching, stale, pinged, lock, handler, faults>>

-----------------------------------------------------------------------------
Arrival(p) ==
  \/ BeginRead(p) \/ BeginReload(p)
  \/ \E i \in Items : \/ \E home \in Home(i) : BeginPut(p, i, home)
                      \/ \E kind \in {"edit", "delete"} : BeginItem(p, kind, i)
  \/ \E t \in Tasks : \/ BeginSync(p, "syncPut", t, disk[t])
                      \/ disk[t] # None /\ BeginSync(p, "syncDelete", t, disk[t])
  \/ \E c \in Calendars : \/ \E force \in BOOLEAN : BeginRemove(p, c, force)
                          \/ \E new \in Calendars : BeginRename(p, c, new)

Step(p) ==
  \/ Ask(p) \/ GrantRead(p) \/ GrantWrite(p) \/ Serve(p)
  \/ LoadTasks(p) \/ LoadEvents(p)
  \/ PutItem(p) \/ EditItem(p) \/ DeleteItem(p)
  \/ SyncCheck(p) \/ SyncWrite(p)
  \/ RemoveCheck(p) \/ (\E e \in Events : MoveOne(p, e)) \/ RemoveDir(p) \/ RenameDir(p)
  \/ StartReload(p) \/ Error(p)

Next ==
  \/ \E p \in Procs : Arrival(p) \/ Refetch(p) \/ Step(p) \/ HangUp(p)
  \/ StartWatching \/ Deliver
  \/ \E i \in Items :
       \/ OthersWrite(i, None)
       \/ \E home \in Home(i) : OthersWrite(i, [home |-> home, rev |-> acts + 1])

Spec == Init /\ [][Next]_vars

\* Handlers are run on, the watcher delivers, an open page refetches.  Nothing
\* is assumed of who sends requests or writes to the files.
FairSpec ==
  /\ Spec
  /\ WF_vars(StartWatching) /\ WF_vars(Deliver)
  /\ \A p \in Procs : WF_vars(Step(p))
  /\ WF_vars(\E p \in Procs : Refetch(p))

-----------------------------------------------------------------------------
TypeOK ==
  /\ disk \in [Items -> Option(File)] /\ cache \in [Items -> Option(File)]
  /\ watching \in BOOLEAN /\ noticed \in BOOLEAN /\ stale \in BOOLEAN /\ pinged \in BOOLEAN
  /\ queue \in Seq(Procs) /\ writer \in Option(Procs) /\ readers \subseteq Procs
  /\ handler \in [Procs -> Handler]
  /\ acts \in 0..MaxActs /\ faults \in 0..MaxFaults
  /\ forgotten \subseteq Items /\ raced \subseteq Procs

\* Where the cache differs from the files, a notice is on its way, the flag is
\* set, or someone who took the flag down is going to load that item - unless a
\* change was missed for good, see `forgotten`.  No interleaving of readers,
\* writers, the watcher and other programs loses track of a change otherwise.
WillLoad(p, i) ==
  \/ handler[p].cleared /\ pc(p) # "loadEvents"
  \/ pc(p) \in {"askReload", "waitReload", "loadTasks"}
  \/ pc(p) = "loadEvents" /\ i \in Events

DifferenceIsKnown ==
  \A i \in Items :
    cache[i] # disk[i] =>
      noticed \/ stale \/ i \in forgotten \/ \E p \in Procs : WillLoad(p, i)

\* A conditional write or deletion of a sync replaces the version it names and
\* no other, unless another program wrote between the check and the write: the
\* check is made under the write guard (sync.rs:118), so no handler comes between.
SyncEditsStand ==
  [][\A p \in Procs :
       SyncWrite(p) /\ p \notin raced => disk[req(p).item] = req(p).want]_vars

\* Removing a calendar destroys only events of which the cache had another
\* version or none: those it knew of are in the default calendar by then
\* (calendars.rs:195-196).
RemovalKeepsKnown ==
  [][\A p \in Procs :
       RemoveDir(p) =>
         \A e \in Events : disk[e] # None /\ disk'[e] = None => cache[e] # disk[e]]_vars

\* With a page open, the cache catches up with the files once they have
\* stopped changing, but for what was missed for good.
CatchesUp == <>[](\A i \in Items : i \in forgotten \/ cache[i] = disk[i])

\* The same without exception, if nobody writes before the watcher is there: "an
\* external edit (a sync write, a cron `mgmt` mutation) flags just that user's
\* context stale and reads reload it lazily" (state.rs:7-8).
CatchesUpAlways == [](~watching => cache = disk) => <>[](cache = disk)

\* Every request is answered: nobody waits for the lock for ever.
Answered == \A p \in Procs : pc(p) # "idle" ~> pc(p) = "idle"
=============================================================================
