--------------------------- MODULE WebVault_proofs ---------------------------
(***************************************************************************)
(* Theorems about WebVault, for any number of requests, items, writes of   *)
(* others and failures.                                                    *)
(*                                                                         *)
(* The inductive invariant adds to the types what the lock gives: whoever  *)
(* is between its grant and its return is the one writer, so that what it  *)
(* checked of the files and of the cache stands until it acts.             *)
(***************************************************************************)
EXTENDS WebVault, TLAPS

\* The phases in which a handler has the write guard.
Guarded == {"work", "write", "move", "loadTasks", "loadEvents"}

RequestOK ==
  \A p \in Procs :
    /\ pc(p) # "idle" => req(p) \in Request
    /\ pc(p) # "idle" /\ req(p).kind = "remove" => req(p).from # Default
    /\ pc(p) = "write" => req(p) \in SyncRequest
    /\ pc(p) = "move" => req(p) \in RemoveRequest

LockOK == \A p \in Procs : pc(p) \in Guarded => writer = p

\* Only a write() clears the flag for a handler.
ClearedOK ==
  \A p \in Procs :
    handler[p].cleared => /\ pc(p) \in Guarded \cup {"askWrite", "waitWrite"}
                          /\ req(p).kind # "read"

\* What a sync has checked still holds, unless others wrote.
CheckOK ==
  \A p \in Procs : pc(p) = "write" /\ p \notin raced => disk[req(p).item] = req(p).want

\* The events the cache has in a calendar that is going are those yet to move.
MoveOK ==
  \A p \in Procs : pc(p) = "move" => EventsIn(cache, req(p).from) \subseteq handler[p].todo

IInv ==
  TypeOK /\ RequestOK /\ LockOK /\ ClearedOK /\ DifferenceIsKnown /\ CheckOK /\ MoveOK

-----------------------------------------------------------------------------
(* What all arrivals have in common. *)

Begun(p) ==
  \E r \in Request, l \in {"askReload", "askRead", "askWrite"}, cleared \in BOOLEAN :
    /\ Begin(p, r, l, cleared)
    /\ cleared => l = "askWrite" /\ r.kind # "read"
    /\ stale => cleared \/ l = "askReload"
    /\ r.kind = "remove" => r.from # Default
    /\ acts' \in 0..MaxActs
    /\ pinged' \in BOOLEAN

\* A request that reads is one of the arrivals.
LEMMA ReadBegins ==
  ASSUME TypeOK, NEW p \in Procs, Read(p), pinged' \in BOOLEAN
  PROVE  Begun(p)
<1> DEFINE r == [kind |-> "read"]
<1>1. r \in Request /\ r.kind = "read"
  BY DEF Request, ReadRequest
<1>2. Begin(p, r, IF stale THEN "askReload" ELSE "askRead", FALSE)
  BY DEF Read
<1>3. acts' \in 0..MaxActs
  BY DEF Read, TypeOK
<1>4. CASE stale
  BY <1>1, <1>2, <1>3, <1>4 DEF Begun
<1>5. CASE ~stale
  BY <1>1, <1>2, <1>3, <1>5 DEF Begun
<1> QED
  BY <1>4, <1>5

\* So is one that writes.
LEMMA WriteBegins ==
  ASSUME TypeOK, NEW p \in Procs, NEW r \in Request, r.kind # "read",
         r.kind = "remove" => r.from # Default, BeginWrite(p, r)
  PROVE  Begun(p)
<1>1. acts' \in 0..MaxActs
  BY WebAssumption DEF BeginWrite, TypeOK
<1>2. pinged' \in BOOLEAN
  BY DEF BeginWrite, TypeOK
<1>3. stale \in BOOLEAN /\ Begin(p, r, "askWrite", stale)
  BY DEF BeginWrite, TypeOK
<1> QED
  BY <1>1, <1>2, <1>3 DEF Begun

\* Every arrival is one of these.
LEMMA ArrivalBegins ==
  ASSUME TypeOK, NEW p \in Procs, Arrival(p) \/ Refetch(p)
  PROVE  Begun(p)
<1>0. acts + 1 \in Nat
  BY DEF TypeOK
<1>1. CASE Refetch(p)
  BY <1>1, ReadBegins DEF Refetch
<1>2. CASE BeginRead(p)
  BY <1>2, ReadBegins DEF BeginRead, TypeOK
<1>3. CASE BeginReload(p)
  <2>1. [kind |-> "reload"] \in Request
    BY DEF Request, ReloadRequest
  <2> QED
    BY <1>3, <2>1, WriteBegins DEF BeginReload
<1>4. ASSUME NEW i \in Items, NEW home \in Home(i), BeginPut(p, i, home)
      PROVE  Begun(p)
  <2>1. [kind |-> "put", item |-> i, home |-> home, rev |-> acts + 1] \in PutRequest
    BY <1>0, <1>4 DEF PutRequest, Home
  <2> QED
    BY <1>4, <2>1, WriteBegins DEF BeginPut, Request
<1>5. ASSUME NEW i \in Items, NEW kind \in {"edit", "delete"}, BeginItem(p, kind, i)
      PROVE  Begun(p)
  <2>1. [kind |-> kind, item |-> i, rev |-> acts + 1] \in ItemRequest
    BY <1>0, <1>5 DEF ItemRequest
  <2> QED
    BY <1>5, <2>1, WriteBegins DEF BeginItem, Request
<1>6. ASSUME NEW t \in Tasks, NEW kind \in {"syncPut", "syncDelete"},
             BeginSync(p, kind, t, disk[t])
      PROVE  Begun(p)
  <2>1. disk[t] \in Option(File)
    BY DEF TypeOK, Items
  <2>2. [kind |-> kind, item |-> t, want |-> disk[t], rev |-> acts + 1] \in SyncRequest
    BY <1>0, <2>1 DEF SyncRequest
  <2> QED
    BY <1>6, <2>2, WriteBegins DEF BeginSync, Request
<1>7. ASSUME NEW c \in Calendars, NEW force \in BOOLEAN, BeginRemove(p, c, force)
      PROVE  Begun(p)
  <2>1. [kind |-> "remove", from |-> c, force |-> force, rev |-> acts + 1] \in RemoveRequest
    BY <1>0 DEF RemoveRequest
  <2> QED
    BY <1>7, <2>1, WriteBegins DEF BeginRemove, Request
<1>8. ASSUME NEW c \in Calendars, NEW new \in Calendars, BeginRename(p, c, new)
      PROVE  Begun(p)
  <2>1. [kind |-> "rename", from |-> c, to |-> new] \in RenameRequest
    BY DEF RenameRequest
  <2> QED
    BY <1>8, <2>1, WriteBegins DEF BeginRename, Request
<1> QED
  BY <1>1, <1>2, <1>3, <1>4, <1>5, <1>6, <1>7, <1>8 DEF Arrival

-----------------------------------------------------------------------------
(* Each part of the invariant is preserved. *)

\* A handler's request fits the phase it is in, after every step.
LEMMA RequestStep ==
  ASSUME TypeOK, RequestOK,
         [Next]_vars
  PROVE  RequestOK'
<1> USE DEF pc, req, lock, signals, bounds, others
<1>0. ASSUME NEW p \in Procs, handler' = [handler EXCEPT ![p] = Idle]
      PROVE  RequestOK'
  BY <1>0 DEF Idle, RequestOK, TypeOK
<1>1. ASSUME NEW p \in Procs, Arrival(p) \/ Refetch(p)
      PROVE  RequestOK'
  <2>1. Begun(p)
    BY <1>1, ArrivalBegins
  <2> QED
    BY <2>1 DEF Begun, Begin, Idle, RequestOK, TypeOK, Handler
<1>2. ASSUME NEW p \in Procs, Ask(p)
      PROVE  RequestOK'
  BY <1>2 DEF Ask, Goto, Waiting, RequestOK, TypeOK, Handler
<1>3. ASSUME NEW p \in Procs, GrantRead(p)
      PROVE  RequestOK'
  BY <1>3 DEF GrantRead, Goto, RequestOK, TypeOK, Handler
<1>4. ASSUME NEW p \in Procs, GrantWrite(p)
      PROVE  RequestOK'
  BY <1>4 DEF GrantWrite, Goto, RequestOK, TypeOK, Handler
<1>5. ASSUME NEW p \in Procs, Serve(p)
      PROVE  RequestOK'
  BY <1>5 DEF Serve, Idle, RequestOK, TypeOK, Handler
<1>6. ASSUME NEW p \in Procs, LoadTasks(p)
      PROVE  RequestOK'
  BY <1>6 DEF LoadTasks, Load, Fail, Release, Goto, Idle, RequestOK, TypeOK, Handler
<1>7. ASSUME NEW p \in Procs, LoadEvents(p)
      PROVE  RequestOK'
  <2>1. CASE req(p).kind = "read"
    BY <1>7, <2>1 DEF LoadEvents, Release, Goto, Idle, RequestOK, TypeOK, Handler
  <2>2. CASE ~(req(p).kind = "read")
    BY <1>7, <2>2 DEF LoadEvents, Release, Goto, Idle, RequestOK, TypeOK, Handler
  <2> QED
    BY <2>1, <2>2
<1>8. ASSUME NEW p \in Procs, PutItem(p)
      PROVE  RequestOK'
  BY <1>8, <1>0 DEF PutItem, Done
<1>9. ASSUME NEW p \in Procs, EditItem(p)
      PROVE  RequestOK'
  BY <1>9, <1>0 DEF EditItem, Done, Refuse, Return
<1>10. ASSUME NEW p \in Procs, DeleteItem(p)
      PROVE  RequestOK'
  BY <1>10, <1>0 DEF DeleteItem, Done, Return
<1>11. ASSUME NEW p \in Procs, SyncCheck(p)
      PROVE  RequestOK'
  <2>1. req(p) \in SyncRequest
    BY <1>11 DEF SyncCheck, Working, RequestOK, Request, ReadRequest, ReloadRequest, PutRequest,
                 ItemRequest, SyncRequest, RemoveRequest, RenameRequest
  <2>2. CASE Refuse(p)
    BY <2>2, <1>0 DEF Refuse, Return
  <2>3. CASE Goto(p, "write")
    BY <1>11, <2>1, <2>3 DEF SyncCheck, Working, Goto, RequestOK, TypeOK, Handler
  <2> QED
    BY <1>11, <2>2, <2>3 DEF SyncCheck
<1>12. ASSUME NEW p \in Procs, SyncWrite(p)
      PROVE  RequestOK'
  <2>1. CASE Refuse(p)
    BY <2>1, <1>0 DEF Refuse, Return
  <2>2. CASE GoesOn(p, "loadTasks", {})
    BY <1>12, <2>2 DEF SyncWrite, GoesOn, RequestOK, TypeOK, Handler
  <2> QED
    BY <1>12, <2>1, <2>2 DEF SyncWrite
<1>13. ASSUME NEW p \in Procs, RemoveCheck(p)
      PROVE  RequestOK'
  <2>1. \A q \in Procs \ {p} : handler'[q] = handler[q]
    BY <1>13 DEF RemoveCheck, Refuse, Return, TypeOK
  <2>2. req(p) \in RemoveRequest
    BY <1>13 DEF RemoveCheck, Working, RequestOK, Request, ReadRequest, ReloadRequest,
              PutRequest, ItemRequest, SyncRequest, RemoveRequest, RenameRequest
  <2>3. /\ handler'[p].pc \in {"idle", "move"}
        /\ (handler'[p].pc = "move" => handler'[p].req = req(p))
    BY <1>13 DEF RemoveCheck, Refuse, Return, Idle, TypeOK, Handler
  <2> QED
    BY <1>13, <2>1, <2>2, <2>3 DEF RequestOK, RemoveCheck, Working, Request
<1>14. ASSUME NEW p \in Procs, NEW e \in Events, MoveOne(p, e)
      PROVE  RequestOK'
  BY <1>14 DEF MoveOne, Changes, GoesOn, RequestOK, TypeOK, Handler
<1>15. ASSUME NEW p \in Procs, RemoveDir(p)
      PROVE  RequestOK'
  BY <1>15 DEF RemoveDir, Changes, GoesOn, RequestOK, TypeOK, Handler
<1>16. ASSUME NEW p \in Procs, RenameDir(p)
      PROVE  RequestOK'
  <2>1. CASE EventsIn(disk, req(p).to) # {}
    BY <1>16, <2>1 DEF RenameDir, Working, Changes, GoesOn, Refuse, Return, Idle, RequestOK,
                        TypeOK, Handler
  <2>2. CASE ~(EventsIn(disk, req(p).to) # {})
    BY <1>16, <2>2 DEF RenameDir, Working, Changes, GoesOn, Refuse, Return, Idle, RequestOK,
                        TypeOK, Handler
  <2> QED
    BY <2>1, <2>2
<1>17. ASSUME NEW p \in Procs, StartReload(p)
      PROVE  RequestOK'
  BY <1>17 DEF StartReload, Working, Goto, RequestOK, TypeOK, Handler
<1>18. ASSUME NEW p \in Procs, Error(p)
      PROVE  RequestOK'
  BY <1>18 DEF Error, Fail, Return, Idle, RequestOK, TypeOK, Handler
<1>19. ASSUME StartWatching
      PROVE  RequestOK'
  BY <1>19 DEF StartWatching, RequestOK, TypeOK, Handler
<1>20. ASSUME Deliver
      PROVE  RequestOK'
  BY <1>20 DEF Deliver, RequestOK, TypeOK, Handler
<1>21. ASSUME NEW i \in Items, NEW f \in Option(File), OthersWrite(i, f)
      PROVE  RequestOK'
  BY <1>21 DEF OthersWrite, RequestOK, TypeOK, Handler
<1>22. CASE UNCHANGED vars
  BY <1>22 DEF RequestOK, TypeOK, Handler, vars
<1>23. ASSUME NEW p \in Procs, HangUp(p)
      PROVE  RequestOK'
  BY <1>23 DEF HangUp, Idle, RequestOK, TypeOK, Handler
<1>24. ASSUME NEW i \in Items
       PROVE  /\ None \in Option(File)
              /\ \A home \in Home(i) : [home |-> home, rev |-> acts + 1] \in Option(File)
  BY DEF Option, File, Home, TypeOK
<1> QED
  BY <1>1, <1>2, <1>3, <1>4, <1>5, <1>6, <1>7, <1>8, <1>9, <1>10, <1>11, <1>12, <1>13,
    <1>14, <1>15, <1>16, <1>17, <1>18, <1>19, <1>20, <1>21, <1>22, <1>23, <1>24 DEF Next, Step

\* The fields a request of each kind has.
LEMMA RequestFields ==
  ASSUME RequestOK, NEW p \in Procs, pc(p) # "idle"
  PROVE  /\ req(p).kind = "put" => req(p) \in PutRequest
         /\ req(p).kind \in {"edit", "delete"} => req(p) \in ItemRequest
         /\ req(p).kind \in {"syncPut", "syncDelete"} => req(p) \in SyncRequest
         /\ req(p).kind = "remove" => req(p) \in RemoveRequest
         /\ req(p).kind = "rename" => req(p) \in RenameRequest
BY DEF RequestOK, Request, ReadRequest, ReloadRequest, PutRequest, ItemRequest, SyncRequest,
       RemoveRequest, RenameRequest

\* Changes of the handler that keep its type.
LEMMA GotoType ==
  ASSUME TypeOK, NEW p \in Procs, NEW l \in Phases, Goto(p, l)
  PROVE  handler' \in [Procs -> Handler]
BY DEF TypeOK, Handler, Goto

\* An idle handler has the type of a handler.
LEMMA IdleType == Idle \in Handler
BY DEF Idle, Handler, Phases, Option

\* Returning, refused or failed, keeps the types of what it changes.
LEMMA ReturnType ==
  ASSUME TypeOK, NEW p \in Procs, Return(p)
  PROVE  /\ handler' \in [Procs -> Handler]
         /\ writer' \in Option(Procs)
         /\ forgotten' \subseteq Items
BY IdleType DEF TypeOK, Return, Option

\* So does returning after a change,
LEMMA DoneType ==
  ASSUME TypeOK, NEW p \in Procs, Done(p)
  PROVE  /\ handler' \in [Procs -> Handler]
         /\ writer' \in Option(Procs)
         /\ forgotten' \subseteq Items
BY IdleType DEF TypeOK, Done, Option

\* going on to a later phase,
LEMMA GoesOnType ==
  ASSUME TypeOK, NEW p \in Procs, NEW l \in Phases, NEW todo \in SUBSET Events,
         GoesOn(p, l, todo)
  PROVE  /\ handler' \in [Procs -> Handler]
         /\ writer' \in Option(Procs)
         /\ forgotten' \subseteq Items
BY DEF TypeOK, GoesOn, Handler

\* and dropping the guard of a reload.
LEMMA ReleaseType ==
  ASSUME TypeOK, NEW p \in Procs, Release(p)
  PROVE  handler' \in [Procs -> Handler] /\ writer' \in Option(Procs)
<1>1. CASE req(p).kind = "read"
  BY <1>1, GotoType DEF Release, Phases, Option
<1>2. CASE req(p).kind # "read"
  BY <1>2, IdleType DEF TypeOK, Release, Option
<1> QED
  BY <1>1, <1>2

\* A load puts well-typed items into the cache.
LEMMA LoadType ==
  ASSUME TypeOK, NEW S \in SUBSET Items, Load(S)
  PROVE  cache' \in [Items -> Option(File)] /\ noticed' \in BOOLEAN
BY WebAssumption DEF TypeOK, Load, Opens

\* Opening the files at most adds a notice.
LEMMA OpensType ==
  ASSUME TypeOK, Opens
  PROVE  noticed' \in BOOLEAN
BY WebAssumption DEF TypeOK, Opens

\* One file written, in the vault or in the cache.
LEMMA PutType ==
  ASSUME NEW d \in [Items -> Option(File)], NEW i \in Items, NEW f \in Option(File)
  PROVE  [d EXCEPT ![i] = f] \in [Items -> Option(File)]
OBVIOUS

\* What a request writes is a file.
LEMMA FileType ==
  ASSUME NEW home \in Calendars \cup {TasksDir}, NEW rev \in Nat
  PROVE  [home |-> home, rev |-> rev] \in Option(File) /\ None \in Option(File)
BY DEF File, Option

\* A failing file operation is counted within its bound.
LEMMA FailType ==
  ASSUME TypeOK, Fail
  PROVE  faults' \in 0..MaxFaults
BY WebAssumption DEF TypeOK, Fail

\* A refused request changes the handler and the lock only.
LEMMA RefuseType ==
  ASSUME TypeOK, NEW p \in Procs, Refuse(p), UNCHANGED others
  PROVE  TypeOK'
BY ReturnType DEF TypeOK, Refuse, others

\* Every step keeps the types.
LEMMA TypeStep ==
  ASSUME TypeOK, RequestOK,
         [Next]_vars
  PROVE  TypeOK'
<1> USE DEF pc, req, lock, signals, bounds, others
<1>1. ASSUME NEW p \in Procs, Arrival(p) \/ Refetch(p)
      PROVE  TypeOK'
  <2>1. PICK r \in Request, l \in {"askReload", "askRead", "askWrite"}, cleared \in BOOLEAN :
           Begin(p, r, l, cleared) /\ acts' \in 0..MaxActs /\ pinged' \in BOOLEAN
    BY <1>1, ArrivalBegins DEF Begun
  <2>2. [Idle EXCEPT !.pc = l, !.req = r, !.cleared = cleared] \in Handler
    BY DEF Idle, Handler, Phases, Option
  <2> QED
    BY <2>1, <2>2 DEF Begin, TypeOK
<1>2. ASSUME NEW p \in Procs, Ask(p)
      PROVE  TypeOK'
  <2>1. handler' \in [Procs -> Handler]
    BY <1>2, GotoType DEF Ask, Waiting, Phases
  <2>2. queue' \in Seq(Procs)
    BY <1>2 DEF Ask, TypeOK
  <2> QED
    BY <1>2, <2>1, <2>2 DEF Ask, TypeOK
<1>3. ASSUME NEW p \in Procs, GrantRead(p)
      PROVE  TypeOK'
  <2>1. handler' \in [Procs -> Handler]
    BY <1>3, GotoType DEF GrantRead, Phases
  <2> QED
    BY <1>3, <2>1 DEF GrantRead, TypeOK
<1>4. ASSUME NEW p \in Procs, GrantWrite(p)
      PROVE  TypeOK'
  <2>1. handler' \in [Procs -> Handler]
    BY <1>4, GotoType DEF GrantWrite, Phases
  <2> QED
    BY <1>4, <2>1 DEF GrantWrite, TypeOK, Option
<1>5. ASSUME NEW p \in Procs, Serve(p)
      PROVE  TypeOK'
  <2> QED
    BY <1>5, IdleType DEF Serve, TypeOK
<1>6. ASSUME NEW p \in Procs, LoadTasks(p)
      PROVE  TypeOK'
  <2>1. CASE Load(Tasks) /\ Goto(p, "loadEvents") /\ forgotten' = forgotten \ Tasks
               /\ UNCHANGED <<writer, faults>>
    BY <1>6, <2>1, GotoType, LoadType DEF LoadTasks, TypeOK, Phases, Items
  <2>2. CASE Fail /\ Release(p) /\ forgotten' = Items /\ Opens /\ UNCHANGED cache
    BY <1>6, <2>2, ReleaseType, FailType, OpensType DEF LoadTasks, TypeOK
  <2> QED
    BY <1>6, <2>1, <2>2 DEF LoadTasks
<1>7. ASSUME NEW p \in Procs, LoadEvents(p)
      PROVE  TypeOK'
  <2>1. CASE Load(Events) /\ forgotten' = forgotten \ Events /\ UNCHANGED faults
    BY <1>7, <2>1, ReleaseType, LoadType DEF LoadEvents, TypeOK, Items
  <2>2. CASE Fail /\ forgotten' = forgotten \cup Events /\ Opens /\ UNCHANGED cache
    BY <1>7, <2>2, ReleaseType, FailType, OpensType DEF LoadEvents, TypeOK, Items
  <2> QED
    BY <1>7, <2>1, <2>2 DEF LoadEvents
<1>8. ASSUME NEW p \in Procs, PutItem(p)
      PROVE  TypeOK'
  <2>1. req(p) \in PutRequest
    BY <1>8, RequestFields DEF PutItem, Working
  <2>2. [home |-> req(p).home, rev |-> req(p).rev] \in Option(File) /\ req(p).item \in Items
    BY <2>1, FileType DEF PutRequest
  <2> QED
    BY <1>8, <2>2, PutType, DoneType DEF PutItem, Changes, TypeOK, others
<1>9. ASSUME NEW p \in Procs, EditItem(p)
      PROVE  TypeOK'
  <2>1. req(p) \in ItemRequest
    BY <1>9, RequestFields DEF EditItem, Working
  <2>2. CASE cache[req(p).item] = None
    BY <1>9, <2>2, RefuseType DEF EditItem
  <2>3. CASE cache[req(p).item] # None
    <3>1. [home |-> cache[req(p).item].home, rev |-> req(p).rev] \in Option(File)
           /\ req(p).item \in Items
      BY <2>1, <2>3, FileType DEF ItemRequest, TypeOK, Option, File
    <3> QED
      BY <1>9, <2>3, <3>1, PutType, DoneType DEF EditItem, Changes, TypeOK, others
  <2> QED
    BY <2>2, <2>3
<1>10. ASSUME NEW p \in Procs, DeleteItem(p)
      PROVE  TypeOK'
  <2>1. req(p) \in ItemRequest
    BY <1>10, RequestFields DEF DeleteItem, Working
  <2>2. cache' \in [Items -> Option(File)]
    BY <1>10, <2>1, PutType, FileType DEF DeleteItem, ItemRequest, TypeOK, Option
  <2>3. CASE Return(p) /\ UNCHANGED <<disk, noticed>>
    BY <1>10, <2>2, <2>3, ReturnType DEF DeleteItem, TypeOK, others
  <2>4. CASE Changes([disk EXCEPT ![req(p).item] = None]) /\ Done(p)
    BY <1>10, <2>2, <2>4, DoneType DEF DeleteItem, Changes, TypeOK, others, Option
  <2> QED
    BY <1>10, <2>3, <2>4 DEF DeleteItem
<1>11. ASSUME NEW p \in Procs, SyncCheck(p)
      PROVE  TypeOK'
  <2>1. CASE Refuse(p)
    BY <1>11, <2>1, RefuseType DEF SyncCheck
  <2>2. CASE Goto(p, "write") /\ raced' = raced \ {p}
               /\ UNCHANGED <<disk, cache, noticed, writer, forgotten, faults>>
    BY <1>11, <2>2, GotoType DEF SyncCheck, TypeOK, Phases, others
  <2> QED
    BY <1>11, <2>1, <2>2 DEF SyncCheck
<1>12. ASSUME NEW p \in Procs, SyncWrite(p)
      PROVE  TypeOK'
  <2> DEFINE f == IF req(p).kind = "syncPut" THEN [home |-> TasksDir, rev |-> req(p).rev] ELSE None
  <2>1. req(p).item \in Items /\ req(p).rev \in Nat
    BY <1>12 DEF SyncWrite, RequestOK, SyncRequest, Items
  <2>. f \in Option(File)
    BY <2>1, FileType
  <2>2. CASE Refuse(p)
    BY <1>12, <2>2, RefuseType DEF SyncWrite
  <2>3. CASE Changes([disk EXCEPT ![req(p).item] = f]) /\ GoesOn(p, "loadTasks", {})
               /\ UNCHANGED <<cache, faults, raced>>
    BY <1>12, <2>1, <2>3, PutType, GoesOnType DEF SyncWrite, Changes, TypeOK, Phases, others
  <2> QED
    BY <1>12, <2>2, <2>3 DEF SyncWrite
<1>13. ASSUME NEW p \in Procs, RemoveCheck(p)
      PROVE  TypeOK'
  <2>1. CASE Refuse(p)
    BY <1>13, <2>1, RefuseType DEF RemoveCheck
  <2>2. CASE /\ handler' = [handler EXCEPT ![p].pc = "move",
                                          ![p].todo = EventsIn(cache, req(p).from)]
             /\ UNCHANGED <<disk, cache, noticed, writer, forgotten, faults, raced>>
    <3> DEFINE todo == EventsIn(cache, req(p).from)
               h == [handler[p] EXCEPT !.pc = "move", !.todo = todo]
    <3>1. todo \in SUBSET Events
      BY DEF EventsIn
    <3>3. handler[p] \in Handler /\ h \in Handler
      <4> HIDE DEF todo
      <4> QED
        BY <3>1 DEF TypeOK, Handler, Phases
    <3>4. handler' = [handler EXCEPT ![p] = h]
      BY <2>2
    <3>2. handler' \in [Procs -> Handler]
      <4> HIDE DEF h
      <4> QED
        BY <3>3, <3>4 DEF TypeOK
    <3> QED
      BY <1>13, <2>2, <3>2 DEF RemoveCheck, TypeOK, others
  <2> QED
    BY <1>13, <2>1, <2>2 DEF RemoveCheck
<1>14. ASSUME NEW p \in Procs, NEW e \in Events, MoveOne(p, e)
      PROVE  TypeOK'
  <2>1. [home |-> Default, rev |-> req(p).rev] \in Option(File)
    BY <1>14, FileType, WebAssumption DEF MoveOne, RequestOK, RemoveRequest
  <2>2. handler[p].todo \ {e} \in SUBSET Events /\ "move" \in Phases
    BY DEF TypeOK, Handler, Phases
  <2> QED
    BY <1>14, <2>1, <2>2, PutType, GoesOnType DEF MoveOne, Changes, TypeOK, Items, others
<1>15. ASSUME NEW p \in Procs, RemoveDir(p)
      PROVE  TypeOK'
  <2>1. disk' \in [Items -> Option(File)]
    BY <1>15 DEF RemoveDir, Changes, TypeOK, Option
  <2> QED
    BY <1>15, <2>1, GoesOnType DEF RemoveDir, Changes, TypeOK, Phases, others
<1>16. ASSUME NEW p \in Procs, RenameDir(p)
      PROVE  TypeOK'
  <2>1. req(p) \in RenameRequest
    BY <1>16, RequestFields DEF RenameDir, Working
  <2> DEFINE d == [i \in Items |-> IF i \in EventsIn(disk, req(p).from)
                                   THEN [disk[i] EXCEPT !.home = req(p).to] ELSE disk[i]]
  <2>2. CASE Refuse(p)
    BY <1>16, <2>2, RefuseType DEF RenameDir
  <2>3. CASE Changes(d) /\ GoesOn(p, "loadTasks", {}) /\ UNCHANGED <<cache, faults, raced>>
    <3>1. ASSUME NEW i \in EventsIn(disk, req(p).from)
          PROVE  [disk[i] EXCEPT !.home = req(p).to] \in Option(File)
      BY <2>1 DEF EventsIn, TypeOK, Items, RenameRequest, Option, File
    <3>2. d \in [Items -> Option(File)]
      BY <3>1 DEF TypeOK
    <3> QED
      BY <1>16, <2>3, <3>2, GoesOnType DEF RenameDir, Changes, TypeOK, Phases, others
  <2> QED
    BY <1>16, <2>2, <2>3 DEF RenameDir
<1>17. ASSUME NEW p \in Procs, StartReload(p)
      PROVE  TypeOK'
  <2> QED
    BY <1>17, GotoType DEF StartReload, TypeOK, Phases, others
<1>18. ASSUME NEW p \in Procs, Error(p)
      PROVE  TypeOK'
  <2> QED
    BY <1>18, ReturnType, FailType DEF Error, TypeOK, others
<1>19. ASSUME StartWatching
      PROVE  TypeOK'
  BY <1>19 DEF StartWatching, TypeOK, Handler, Phases, Option
<1>20. ASSUME Deliver
      PROVE  TypeOK'
  BY <1>20 DEF Deliver, TypeOK, Handler, Phases, Option
<1>21. ASSUME NEW i \in Items, NEW f \in Option(File), OthersWrite(i, f)
      PROVE  TypeOK'
  <2> QED
    BY <1>21, PutType, WebAssumption DEF OthersWrite, TypeOK
<1>22. CASE UNCHANGED vars
  BY <1>22 DEF TypeOK, vars
<1>23. ASSUME NEW p \in Procs, HangUp(p)
      PROVE  TypeOK'
  <2>1. queue' \in Seq(Procs)
    <3>1. PICK k \in 1..Len(queue) :
             queue' = SubSeq(queue, 1, k - 1) \o SubSeq(queue, k + 1, Len(queue))
      BY <1>23 DEF HangUp
    <3>2. SubSeq(queue, 1, k - 1) \in Seq(Procs)
      BY DEF TypeOK
    <3>3. SubSeq(queue, k + 1, Len(queue)) \in Seq(Procs)
      BY DEF TypeOK
    <3> QED
      BY <3>1, <3>2, <3>3
  <2>2. faults' \in 0..MaxFaults
    BY <1>23, FailType DEF HangUp
  <2>3. handler' \in [Procs -> Handler]
    BY <1>23, IdleType DEF HangUp, TypeOK
  <2> QED
    BY <1>23, <2>1, <2>2, <2>3 DEF HangUp, TypeOK
<1>24. ASSUME NEW i \in Items
       PROVE  /\ None \in Option(File)
              /\ \A home \in Home(i) : [home |-> home, rev |-> acts + 1] \in Option(File)
  BY DEF Option, File, Home, TypeOK
<1> QED
  BY <1>1, <1>2, <1>3, <1>4, <1>5, <1>6, <1>7, <1>8, <1>9, <1>10, <1>11, <1>12, <1>13,
    <1>14, <1>15, <1>16, <1>17, <1>18, <1>19, <1>20, <1>21, <1>22, <1>23, <1>24 DEF Next, Step

\* A handler that leaves the lock, stays in it, or drops the guard of its reload.
LEMMA Leaves ==
  ASSUME TypeOK, LockOK, ClearedOK, NEW p \in Procs, pc(p) \in Guarded,
         writer' = None, handler' = [handler EXCEPT ![p] = Idle]
  PROVE  LockOK' /\ ClearedOK'
BY DEF TypeOK, LockOK, ClearedOK, Guarded, Idle, pc, req

\* The end of a load, of a reader or of a handler.
LEMMA Releases ==
  ASSUME TypeOK, LockOK, ClearedOK, NEW p \in Procs, pc(p) \in Guarded, Release(p)
  PROVE  LockOK' /\ ClearedOK'
<1>1. CASE req(p).kind = "read"
  BY <1>1 DEF Release, Goto, TypeOK, Handler, LockOK, ClearedOK, Guarded, pc, req
<1>2. CASE req(p).kind # "read"
  BY <1>2, Leaves DEF Release
<1> QED
  BY <1>1, <1>2

\* A writer that goes to a later phase stays the writer,
LEMMA StaysGoto ==
  ASSUME TypeOK, LockOK, ClearedOK, NEW p \in Procs, pc(p) \in Guarded, UNCHANGED writer,
         NEW l \in Guarded, Goto(p, l)
  PROVE  LockOK' /\ ClearedOK'
BY DEF TypeOK, LockOK, ClearedOK, Guarded, Goto, pc, req

\* also when it has changed files on the way.
LEMMA StaysGoesOn ==
  ASSUME TypeOK, LockOK, ClearedOK, NEW p \in Procs, pc(p) \in Guarded,
         NEW l \in Guarded, NEW todo, GoesOn(p, l, todo)
  PROVE  LockOK' /\ ClearedOK'
BY DEF TypeOK, LockOK, ClearedOK, Guarded, GoesOn, pc, req

\* After every step, whoever is past its grant is the writer, and only a
\* write() that waits or works has cleared the flag.
LEMMA LockStep ==
  ASSUME TypeOK, RequestOK, LockOK, ClearedOK,
         [Next]_vars
  PROVE  LockOK' /\ ClearedOK'
<1> USE DEF pc, req, lock, signals, bounds, others
<1> USE WebAssumption DEF Option
<1>1. ASSUME NEW p \in Procs, Arrival(p) \/ Refetch(p)
      PROVE  LockOK' /\ ClearedOK'
  <2>1. PICK r \in Request, l \in {"askReload", "askRead", "askWrite"}, cleared \in BOOLEAN :
           /\ Begin(p, r, l, cleared)
           /\ cleared => l = "askWrite" /\ r.kind # "read"
    BY <1>1, ArrivalBegins DEF Begun
  <2> QED
    BY <2>1 DEF Begin, Idle, LockOK, ClearedOK, Guarded, TypeOK
<1>2. ASSUME NEW p \in Procs, Ask(p)
      PROVE  LockOK' /\ ClearedOK'
  <2>1. /\ pc(p) \in {"askReload", "askRead", "askWrite"}
        /\ Waiting[pc(p)] \in {"waitReload", "waitRead", "waitWrite"}
        /\ pc(p) = "askWrite" => Waiting[pc(p)] = "waitWrite"
    BY <1>2 DEF Ask, Waiting
  <2> QED
    BY <1>2, <2>1 DEF Ask, Goto, LockOK, ClearedOK, Guarded, TypeOK
<1>3. ASSUME NEW p \in Procs, GrantRead(p)
      PROVE  LockOK' /\ ClearedOK'
  BY <1>3 DEF GrantRead, Goto, LockOK, ClearedOK, Guarded, TypeOK, Handler
<1>4. ASSUME NEW p \in Procs, GrantWrite(p)
      PROVE  LockOK' /\ ClearedOK'
  BY <1>4 DEF GrantWrite, Goto, LockOK, ClearedOK, Guarded, TypeOK, Handler
<1>5. ASSUME NEW p \in Procs, Serve(p)
      PROVE  LockOK' /\ ClearedOK'
  BY <1>5 DEF Serve, Idle, LockOK, ClearedOK, Guarded, TypeOK, Handler
<1>6. ASSUME NEW p \in Procs, LoadTasks(p)
      PROVE  LockOK' /\ ClearedOK'
  <2> QED
    BY <1>6, Releases, StaysGoto DEF LoadTasks, Guarded
<1>7. ASSUME NEW p \in Procs, LoadEvents(p)
      PROVE  LockOK' /\ ClearedOK'
  <2> QED
    BY <1>7, Releases DEF LoadEvents, Guarded
<1>8. ASSUME NEW p \in Procs, PutItem(p)
      PROVE  LockOK' /\ ClearedOK'
  <2> QED
    BY <1>8, Leaves DEF PutItem, Working, Done, Guarded
<1>9. ASSUME NEW p \in Procs, EditItem(p)
      PROVE  LockOK' /\ ClearedOK'
  <2> QED
    BY <1>9, Leaves DEF EditItem, Working, Done, Refuse, Return, Guarded
<1>10. ASSUME NEW p \in Procs, DeleteItem(p)
      PROVE  LockOK' /\ ClearedOK'
  <2> QED
    BY <1>10, Leaves DEF DeleteItem, Working, Done, Return, Guarded
<1>11. ASSUME NEW p \in Procs, SyncCheck(p)
      PROVE  LockOK' /\ ClearedOK'
  <2> QED
    BY <1>11, Leaves, StaysGoto DEF SyncCheck, Working, Refuse, Return, Guarded
<1>12. ASSUME NEW p \in Procs, SyncWrite(p)
      PROVE  LockOK' /\ ClearedOK'
  <2> QED
    BY <1>12, Leaves, StaysGoesOn DEF SyncWrite, Refuse, Return, Guarded
<1>13. ASSUME NEW p \in Procs, RemoveCheck(p)
      PROVE  LockOK' /\ ClearedOK'
  <2>1. CASE Refuse(p)
    BY <1>13, <2>1, Leaves DEF RemoveCheck, Working, Refuse, Return, Guarded
  <2>2. CASE ~Refuse(p)
    BY <1>13, <2>2 DEF RemoveCheck, Working, TypeOK, Handler, LockOK, ClearedOK, Guarded
  <2> QED
    BY <2>1, <2>2
<1>14. ASSUME NEW p \in Procs, NEW e \in Events, MoveOne(p, e)
      PROVE  LockOK' /\ ClearedOK'
  <2> QED
    BY <1>14, StaysGoesOn DEF MoveOne, Guarded
<1>15. ASSUME NEW p \in Procs, RemoveDir(p)
      PROVE  LockOK' /\ ClearedOK'
  <2> QED
    BY <1>15, StaysGoesOn DEF RemoveDir, Guarded
<1>16. ASSUME NEW p \in Procs, RenameDir(p)
      PROVE  LockOK' /\ ClearedOK'
  <2> QED
    BY <1>16, Leaves, StaysGoesOn DEF RenameDir, Working, Refuse, Return, Guarded
<1>17. ASSUME NEW p \in Procs, StartReload(p)
      PROVE  LockOK' /\ ClearedOK'
  <2> QED
    BY <1>17, StaysGoto DEF StartReload, Working, Guarded
<1>18. ASSUME NEW p \in Procs, Error(p)
      PROVE  LockOK' /\ ClearedOK'
  <2> QED
    BY <1>18, Leaves DEF Error, Return, Guarded
<1>19. ASSUME StartWatching
      PROVE  LockOK' /\ ClearedOK'
  <2> QED
    BY <1>19 DEF StartWatching, LockOK, ClearedOK
<1>20. ASSUME Deliver
      PROVE  LockOK' /\ ClearedOK'
  <2> QED
    BY <1>20 DEF Deliver, LockOK, ClearedOK
<1>21. ASSUME NEW i \in Items, NEW f \in Option(File), OthersWrite(i, f)
      PROVE  LockOK' /\ ClearedOK'
  <2> QED
    BY <1>21 DEF OthersWrite, LockOK, ClearedOK
<1>22. CASE UNCHANGED vars
  BY <1>22 DEF LockOK, ClearedOK, vars
<1>23. ASSUME NEW p \in Procs, HangUp(p)
      PROVE  LockOK' /\ ClearedOK'
  BY <1>23 DEF HangUp, Idle, LockOK, ClearedOK, Guarded, TypeOK
<1>24. ASSUME NEW i \in Items
       PROVE  /\ None \in Option(File)
              /\ \A home \in Home(i) : [home |-> home, rev |-> acts + 1] \in Option(File)
  BY DEF Option, File, Home, TypeOK
<1> QED
  BY <1>1, <1>2, <1>3, <1>4, <1>5, <1>6, <1>7, <1>8, <1>9, <1>10, <1>11, <1>12, <1>13,
    <1>14, <1>15, <1>16, <1>17, <1>18, <1>19, <1>20, <1>21, <1>22, <1>23, <1>24 DEF Next, Step

\* A handler that returns without having changed a file drops nothing that
\* `forgotten` does not take over.
LEMMA ReturnKnown ==
  ASSUME TypeOK, DifferenceIsKnown, NEW p \in Procs, pc(p) \in {"work", "write", "move"},
         Return(p), UNCHANGED <<disk, noticed, stale>>,
         \A i \in Items : cache'[i] = cache[i] \/ cache'[i] = disk[i]
  PROVE  DifferenceIsKnown'
<1>1. CASE handler[p].cleared
  BY <1>1 DEF Return, DifferenceIsKnown
<1>2. CASE ~handler[p].cleared
  <2>1. \A i \in Items : ~WillLoad(p, i)
    BY <1>2 DEF WillLoad
  <2>2. forgotten' = forgotten /\ \A q \in Procs \ {p} : handler'[q] = handler[q]
    BY <1>2 DEF Return, TypeOK
  <2> QED
    BY <2>1, <2>2 DEF DifferenceIsKnown, WillLoad, pc
<1> QED
  BY <1>1, <1>2

\* One that goes on with its flag keeps track of what it knew.
LEMMA KeepsTrack ==
  ASSUME TypeOK, DifferenceIsKnown, UNCHANGED <<disk, cache, noticed, stale, forgotten>>,
         \A q \in Procs, i \in Items : WillLoad(q, i) => WillLoad(q, i)'
  PROVE  DifferenceIsKnown'
BY DEF DifferenceIsKnown

\* A handler that changes a file leaves a notice.
LEMMA ChangesKnown ==
  ASSUME NEW d, Changes(d)
  PROVE  DifferenceIsKnown'
BY DEF Changes, DifferenceIsKnown

\* No step loses track of a difference between the cache and the files.
LEMMA DifferenceStep ==
  ASSUME TypeOK, ClearedOK, DifferenceIsKnown,
         [Next]_vars
  PROVE  DifferenceIsKnown'
<1> USE DEF pc, req, lock, signals, bounds, others
<1>1. ASSUME NEW p \in Procs, Arrival(p) \/ Refetch(p)
      PROVE  DifferenceIsKnown'
  <2>1. PICK r \in Request, l \in {"askReload", "askRead", "askWrite"}, cleared \in BOOLEAN :
           /\ Begin(p, r, l, cleared)
           /\ cleared => l = "askWrite" /\ r.kind # "read"
           /\ stale => cleared \/ l = "askReload"
    BY <1>1, ArrivalBegins DEF Begun
  <2>2. \A j \in Items : ~WillLoad(p, j)
    BY <2>1 DEF Begin, WillLoad, ClearedOK, Guarded
  <2>3. \A q \in Procs \ {p} : handler'[q] = handler[q]
    BY <2>1 DEF Begin, TypeOK
  <2>4. handler'[p].pc = l /\ handler'[p].cleared = cleared
    BY <2>1 DEF Begin, TypeOK, Idle
  <2> QED
    BY <2>1, <2>2, <2>3, <2>4 DEF Begin, DifferenceIsKnown, WillLoad
<1>2. ASSUME NEW p \in Procs, Ask(p)
      PROVE  DifferenceIsKnown'
  <2>1. pc(p) = "askReload" => Waiting[pc(p)] = "waitReload"
    BY DEF Waiting
  <2>2. pc(p) \in {"askReload", "askRead", "askWrite"} /\ Waiting[pc(p)] # "loadEvents"
    BY <1>2 DEF Ask, Waiting
  <2>3. \A q \in Procs, j \in Items : WillLoad(q, j) => WillLoad(q, j)'
    BY <1>2, <2>1, <2>2 DEF Ask, Goto, WillLoad, TypeOK, Handler
  <2> QED
    BY <1>2, <2>3, KeepsTrack DEF Ask
<1>3. ASSUME NEW p \in Procs, GrantRead(p)
      PROVE  DifferenceIsKnown'
  <2>1. \A q \in Procs, j \in Items : WillLoad(q, j) => WillLoad(q, j)'
    BY <1>3 DEF GrantRead, Goto, WillLoad, TypeOK, Handler, ClearedOK, Guarded
  <2> QED
    BY <1>3, <2>1, KeepsTrack DEF GrantRead
<1>4. ASSUME NEW p \in Procs, GrantWrite(p)
      PROVE  DifferenceIsKnown'
  <2>1. \A q \in Procs, j \in Items : WillLoad(q, j) => WillLoad(q, j)'
    BY <1>4 DEF GrantWrite, Goto, WillLoad, TypeOK, Handler, ClearedOK, Guarded
  <2> QED
    BY <1>4, <2>1, KeepsTrack DEF GrantWrite
<1>5. ASSUME NEW p \in Procs, Serve(p)
      PROVE  DifferenceIsKnown'
  <2>1. \A q \in Procs, j \in Items : WillLoad(q, j) => WillLoad(q, j)'
    BY <1>5 DEF Serve, Idle, WillLoad, TypeOK, Handler, ClearedOK, Guarded
  <2> QED
    BY <1>5, <2>1, KeepsTrack DEF Serve
<1>6. ASSUME NEW p \in Procs, LoadTasks(p)
      PROVE  DifferenceIsKnown'
  <2>1. CASE Load(Tasks) /\ Goto(p, "loadEvents") /\ forgotten' = forgotten \ Tasks
               /\ UNCHANGED <<writer, faults>>
    <3>1. \A t \in Tasks : cache'[t] = disk'[t]
      BY <1>6, <2>1 DEF LoadTasks, Load, Items
    <3>2. \A j \in Events : cache'[j] = cache[j] /\ disk'[j] = disk[j] /\ WillLoad(p, j)'
      BY <1>6, <2>1, WebAssumption
         DEF LoadTasks, Load, Opens, Goto, Items, WillLoad, TypeOK, Handler
    <3> QED
      BY <3>1, <3>2 DEF DifferenceIsKnown, Items
  <2>2. CASE Fail /\ Release(p) /\ forgotten' = Items /\ Opens /\ UNCHANGED cache
    BY <2>2 DEF DifferenceIsKnown
  <2> QED
    BY <1>6, <2>1, <2>2 DEF LoadTasks
<1>7. ASSUME NEW p \in Procs, LoadEvents(p)
      PROVE  DifferenceIsKnown'
  <2>1. \A q \in Procs \ {p} : handler'[q] = handler[q]
    BY <1>7 DEF LoadEvents, Release, Goto, TypeOK
  <2>2. \A t \in Tasks : ~WillLoad(p, t)
    BY <1>7, WebAssumption DEF LoadEvents, WillLoad
  <2>3. \A t \in Tasks : /\ cache'[t] = cache[t] /\ disk'[t] = disk[t]
                         /\ (t \in forgotten => t \in forgotten')
    BY <1>7, WebAssumption DEF LoadEvents, Load, Items, TypeOK
  <2>4. \A j \in Events : cache'[j] = disk'[j] \/ j \in forgotten'
    BY <1>7 DEF LoadEvents, Load, Items
  <2>5. (noticed => noticed') /\ stale' = stale
    BY <1>7 DEF LoadEvents, Load, Opens
  <2> QED
    BY <1>7, <2>1, <2>2, <2>3, <2>4, <2>5 DEF DifferenceIsKnown, WillLoad, Items
<1>8. ASSUME NEW p \in Procs, PutItem(p)
      PROVE  DifferenceIsKnown'
  <2> QED
    BY <1>8, ChangesKnown DEF PutItem
<1>9. ASSUME NEW p \in Procs, EditItem(p)
      PROVE  DifferenceIsKnown'
  <2> QED
    BY <1>9, ChangesKnown, ReturnKnown DEF EditItem, Working, Refuse
<1>10. ASSUME NEW p \in Procs, DeleteItem(p)
      PROVE  DifferenceIsKnown'
  <2>1. CASE disk[req(p).item] = None
    <3>1. \A j \in Items : cache'[j] = cache[j] \/ cache'[j] = disk[j]
      BY <1>10, <2>1 DEF DeleteItem, TypeOK
    <3> QED
      BY <1>10, <2>1, <3>1, ReturnKnown DEF DeleteItem, Working
  <2>2. CASE disk[req(p).item] # None
    BY <1>10, <2>2, ChangesKnown DEF DeleteItem
  <2> QED
    BY <2>1, <2>2
<1>11. ASSUME NEW p \in Procs, SyncCheck(p)
      PROVE  DifferenceIsKnown'
  <2>1. CASE Refuse(p)
    BY <1>11, <2>1, ReturnKnown DEF SyncCheck, Working, Refuse
  <2>2. CASE Goto(p, "write") /\ UNCHANGED <<disk, cache, noticed, writer, forgotten, faults>>
    <3>1. \A q \in Procs, j \in Items : WillLoad(q, j) => WillLoad(q, j)'
      BY <1>11, <2>2 DEF SyncCheck, Working, Goto, WillLoad, TypeOK, Handler
    <3> QED
      BY <1>11, <2>2, <3>1, KeepsTrack DEF SyncCheck
  <2> QED
    BY <1>11, <2>1, <2>2 DEF SyncCheck
<1>12. ASSUME NEW p \in Procs, SyncWrite(p)
      PROVE  DifferenceIsKnown'
  <2> QED
    BY <1>12, ChangesKnown, ReturnKnown DEF SyncWrite, Refuse
<1>13. ASSUME NEW p \in Procs, RemoveCheck(p)
      PROVE  DifferenceIsKnown'
  <2>1. CASE Refuse(p)
    BY <1>13, <2>1, ReturnKnown DEF RemoveCheck, Working, Refuse
  <2>2. CASE ~Refuse(p)
    <3>1. \A q \in Procs, j \in Items : WillLoad(q, j) => WillLoad(q, j)'
      BY <1>13, <2>2 DEF RemoveCheck, Working, WillLoad, TypeOK, Handler
    <3> QED
      BY <1>13, <2>2, <3>1, KeepsTrack DEF RemoveCheck
  <2> QED
    BY <2>1, <2>2
<1>14. ASSUME NEW p \in Procs, NEW e \in Events, MoveOne(p, e)
      PROVE  DifferenceIsKnown'
  <2> QED
    BY <1>14, ChangesKnown DEF MoveOne
<1>15. ASSUME NEW p \in Procs, RemoveDir(p)
      PROVE  DifferenceIsKnown'
  <2> QED
    BY <1>15, ChangesKnown DEF RemoveDir
<1>16. ASSUME NEW p \in Procs, RenameDir(p)
      PROVE  DifferenceIsKnown'
  <2> QED
    BY <1>16, ChangesKnown, ReturnKnown DEF RenameDir, Working, Refuse
<1>17. ASSUME NEW p \in Procs, StartReload(p)
      PROVE  DifferenceIsKnown'
  <2>1. \A q \in Procs, j \in Items : WillLoad(q, j) => WillLoad(q, j)'
    BY <1>17 DEF StartReload, Working, Goto, WillLoad, TypeOK, Handler, ClearedOK, Guarded
  <2> QED
    BY <1>17, <2>1, KeepsTrack DEF StartReload
<1>18. ASSUME NEW p \in Procs, Error(p)
      PROVE  DifferenceIsKnown'
  <2> QED
    BY <1>18, ReturnKnown DEF Error
<1>19. ASSUME StartWatching
      PROVE  DifferenceIsKnown'
  <2> QED
    BY <1>19 DEF StartWatching, DifferenceIsKnown, WillLoad
<1>20. ASSUME Deliver
      PROVE  DifferenceIsKnown'
  <2> QED
    BY <1>20 DEF Deliver, DifferenceIsKnown
<1>21. ASSUME NEW i \in Items, NEW f \in Option(File), OthersWrite(i, f)
      PROVE  DifferenceIsKnown'
  <2> QED
    BY <1>21 DEF OthersWrite, DifferenceIsKnown, WillLoad, TypeOK
<1>22. CASE UNCHANGED vars
  BY <1>22 DEF DifferenceIsKnown, WillLoad, vars
<1>23. ASSUME NEW p \in Procs, HangUp(p)
      PROVE  DifferenceIsKnown'
  <2>1. \A q \in Procs \ {p} : handler'[q] = handler[q]
    BY <1>23 DEF HangUp, TypeOK
  <2>2. CASE handler[p].cleared \/ pc(p) = "waitReload"
    BY <1>23, <2>2 DEF HangUp, DifferenceIsKnown
  <2>3. CASE ~(handler[p].cleared \/ pc(p) = "waitReload")
    <3>1. \A i \in Items : ~WillLoad(p, i)
      BY <1>23, <2>3 DEF HangUp, WillLoad
    <3>2. forgotten' = forgotten
      BY <1>23, <2>3 DEF HangUp
    <3>3. \A q \in Procs, i \in Items : WillLoad(q, i) => WillLoad(q, i)'
      BY <1>23, <2>1, <3>1 DEF HangUp, WillLoad
    <3> QED
      BY <1>23, <3>2, <3>3 DEF HangUp, DifferenceIsKnown
  <2> QED
    BY <2>2, <2>3
<1>24. ASSUME NEW i \in Items
       PROVE  /\ None \in Option(File)
              /\ \A home \in Home(i) : [home |-> home, rev |-> acts + 1] \in Option(File)
  BY DEF Option, File, Home, TypeOK
<1> QED
  BY <1>1, <1>2, <1>3, <1>4, <1>5, <1>6, <1>7, <1>8, <1>9, <1>10, <1>11, <1>12, <1>13,
    <1>14, <1>15, <1>16, <1>17, <1>18, <1>19, <1>20, <1>21, <1>22, <1>23, <1>24 DEF Next, Step

\* Whoever is between a check and the act that relies on it is the writer: a
\* step of another that has the lock is none, and other steps change nothing.
LEMMA OnlyWriter ==
  ASSUME LockOK, NEW p \in Procs, pc(p) \in Guarded,
         \A q \in Procs \ {p} : handler'[q] = handler[q],
         handler'[p].pc \notin {"write", "move"}
  PROVE  CheckOK' /\ MoveOK'
BY DEF LockOK, CheckOK, MoveOK, Guarded, pc, req

\* A step that leaves the files and the cache alone, and takes no one to an act.
LEMMA Untouched ==
  ASSUME CheckOK, MoveOK, UNCHANGED <<disk, cache, raced>>,
         \A q \in Procs : handler'[q].pc \in {"write", "move"} => handler'[q] = handler[q]
  PROVE  CheckOK' /\ MoveOK'
BY DEF CheckOK, MoveOK, EventsIn, pc, req

\* After every step, what was checked stands.
LEMMA StandStep ==
  ASSUME TypeOK, RequestOK, LockOK, CheckOK, MoveOK,
         [Next]_vars
  PROVE  CheckOK' /\ MoveOK'
<1> USE DEF pc, req, lock, signals, bounds, others
<1>1. ASSUME NEW p \in Procs, Arrival(p) \/ Refetch(p)
      PROVE  CheckOK' /\ MoveOK'
  <2>1. PICK r \in Request, l \in {"askReload", "askRead", "askWrite"}, cleared \in BOOLEAN :
           Begin(p, r, l, cleared)
    BY <1>1, ArrivalBegins DEF Begun
  <2> QED
    BY <2>1, Untouched DEF Begin, Idle, TypeOK
<1>2. ASSUME NEW p \in Procs, Ask(p)
      PROVE  CheckOK' /\ MoveOK'
  <2>1. Waiting[pc(p)] \notin {"write", "move"}
    BY <1>2 DEF Ask, Waiting
  <2> QED
    BY <1>2, <2>1, Untouched DEF Ask, Goto, TypeOK, Handler
<1>3. ASSUME NEW p \in Procs, GrantRead(p)
      PROVE  CheckOK' /\ MoveOK'
  <2> QED
    BY <1>3, Untouched DEF GrantRead, Goto, TypeOK, Handler
<1>4. ASSUME NEW p \in Procs, GrantWrite(p)
      PROVE  CheckOK' /\ MoveOK'
  <2> QED
    BY <1>4, Untouched DEF GrantWrite, Goto, TypeOK, Handler
<1>5. ASSUME NEW p \in Procs, Serve(p)
      PROVE  CheckOK' /\ MoveOK'
  <2> QED
    BY <1>5, Untouched DEF Serve, Idle, TypeOK, Handler
<1>6. ASSUME NEW p \in Procs, LoadTasks(p)
      PROVE  CheckOK' /\ MoveOK'
  <2>1. \A q \in Procs \ {p} : handler'[q] = handler[q]
    BY <1>6 DEF LoadTasks, Release, Goto, Idle, TypeOK
  <2>2. handler'[p].pc \notin {"write", "move"}
    BY <1>6 DEF LoadTasks, Release, Goto, Idle, TypeOK, Handler
  <2> QED
    BY <1>6, <2>1, <2>2, OnlyWriter DEF LoadTasks, Release, Goto, Idle, Guarded
<1>7. ASSUME NEW p \in Procs, LoadEvents(p)
      PROVE  CheckOK' /\ MoveOK'
  <2>1. \A q \in Procs \ {p} : handler'[q] = handler[q]
    BY <1>7 DEF LoadEvents, Release, Goto, Idle, TypeOK
  <2>2. handler'[p].pc \notin {"write", "move"}
    BY <1>7 DEF LoadEvents, Release, Goto, Idle, TypeOK, Handler
  <2> QED
    BY <1>7, <2>1, <2>2, OnlyWriter DEF LoadEvents, Release, Goto, Idle, Guarded
<1>8. ASSUME NEW p \in Procs, PutItem(p)
      PROVE  CheckOK' /\ MoveOK'
  <2>1. \A q \in Procs \ {p} : handler'[q] = handler[q]
    BY <1>8 DEF PutItem, Working, Done, Idle, TypeOK
  <2>2. handler'[p].pc \notin {"write", "move"}
    BY <1>8 DEF PutItem, Working, Done, Idle, TypeOK, Handler
  <2> QED
    BY <1>8, <2>1, <2>2, OnlyWriter DEF PutItem, Working, Done, Idle, Guarded
<1>9. ASSUME NEW p \in Procs, EditItem(p)
      PROVE  CheckOK' /\ MoveOK'
  <2>1. \A q \in Procs \ {p} : handler'[q] = handler[q]
    BY <1>9 DEF EditItem, Working, Done, Refuse, Return, Idle, TypeOK
  <2>2. handler'[p].pc \notin {"write", "move"}
    BY <1>9 DEF EditItem, Working, Done, Refuse, Return, Idle, TypeOK, Handler
  <2> QED
    BY <1>9, <2>1, <2>2, OnlyWriter DEF EditItem, Working, Done, Refuse, Return, Idle, Guarded
<1>10. ASSUME NEW p \in Procs, DeleteItem(p)
      PROVE  CheckOK' /\ MoveOK'
  <2>1. \A q \in Procs \ {p} : handler'[q] = handler[q]
    BY <1>10 DEF DeleteItem, Working, Done, Return, Idle, TypeOK
  <2>2. handler'[p].pc \notin {"write", "move"}
    BY <1>10 DEF DeleteItem, Working, Done, Return, Idle, TypeOK, Handler
  <2> QED
    BY <1>10, <2>1, <2>2, OnlyWriter DEF DeleteItem, Working, Done, Return, Idle, Guarded
<1>11. ASSUME NEW p \in Procs, SyncCheck(p)
      PROVE  CheckOK' /\ MoveOK'
  <2>1. CASE Refuse(p)
    BY <1>11, <2>1, Untouched DEF SyncCheck, Refuse, Return, Idle, TypeOK
  <2>2. CASE disk[req(p).item] = req(p).want /\ Goto(p, "write") /\ raced' = raced \ {p}
               /\ UNCHANGED <<disk, cache, noticed, writer, forgotten, faults>>
    <3>1. \A q \in Procs \ {p} : handler'[q] = handler[q]
      BY <2>2 DEF Goto, TypeOK
    <3>2. handler'[p].pc = "write" /\ handler'[p].req = req(p)
      BY <2>2 DEF Goto, TypeOK, Handler
    <3> QED
      BY <2>2, <3>1, <3>2 DEF CheckOK, MoveOK, EventsIn
  <2> QED
    BY <1>11, <2>1, <2>2 DEF SyncCheck
<1>12. ASSUME NEW p \in Procs, SyncWrite(p)
      PROVE  CheckOK' /\ MoveOK'
  <2>1. \A q \in Procs \ {p} : handler'[q] = handler[q]
    BY <1>12 DEF SyncWrite, GoesOn, Refuse, Return, Idle, TypeOK
  <2>2. handler'[p].pc \notin {"write", "move"}
    BY <1>12 DEF SyncWrite, GoesOn, Refuse, Return, Idle, TypeOK, Handler
  <2> QED
    BY <1>12, <2>1, <2>2, OnlyWriter DEF SyncWrite, GoesOn, Refuse, Return, Idle, Guarded
<1>13. ASSUME NEW p \in Procs, RemoveCheck(p)
      PROVE  CheckOK' /\ MoveOK'
  <2>1. CASE Refuse(p)
    BY <1>13, <2>1, Untouched DEF RemoveCheck, Refuse, Return, Idle, TypeOK
  <2>2. CASE ~Refuse(p)
    <3>1. \A q \in Procs \ {p} : handler'[q] = handler[q]
      BY <1>13, <2>2 DEF RemoveCheck, TypeOK
    <3>2. /\ handler'[p].pc = "move" /\ handler'[p].req = req(p)
          /\ handler'[p].todo = EventsIn(cache, req(p).from)
      BY <1>13, <2>2 DEF RemoveCheck, TypeOK, Handler
    <3> QED
      BY <1>13, <2>2, <3>1, <3>2 DEF RemoveCheck, CheckOK, MoveOK, EventsIn
  <2> QED
    BY <2>1, <2>2
<1>14. ASSUME NEW p \in Procs, NEW e \in Events, MoveOne(p, e)
      PROVE  CheckOK' /\ MoveOK'
  <2>1. \A q \in Procs \ {p} : handler'[q] = handler[q] /\ pc(q) \notin {"write", "move"}
    BY <1>14 DEF MoveOne, GoesOn, TypeOK, LockOK, Guarded
  <2>2. /\ handler'[p].pc = "move" /\ handler'[p].req = req(p)
        /\ handler'[p].todo = handler[p].todo \ {e}
    BY <1>14 DEF MoveOne, GoesOn, TypeOK, Handler
  <2>3. EventsIn(cache', req(p).from) \subseteq handler[p].todo \ {e}
    <3>1. Default # req(p).from
      BY <1>14 DEF MoveOne, RequestOK, RemoveRequest
    <3>2. EventsIn(cache, req(p).from) \subseteq handler[p].todo
      BY <1>14 DEF MoveOne, MoveOK
    <3>3. cache'[e].home = Default /\ \A j \in Events \ {e} : cache'[j] = cache[j]
      BY <1>14 DEF MoveOne, TypeOK, Items
    <3> QED
      BY <3>1, <3>2, <3>3 DEF EventsIn
  <2> QED
    BY <2>1, <2>2, <2>3 DEF CheckOK, MoveOK
<1>15. ASSUME NEW p \in Procs, RemoveDir(p)
      PROVE  CheckOK' /\ MoveOK'
  <2>1. \A q \in Procs \ {p} : handler'[q] = handler[q]
    BY <1>15 DEF RemoveDir, GoesOn, TypeOK
  <2>2. handler'[p].pc \notin {"write", "move"}
    BY <1>15 DEF RemoveDir, GoesOn, TypeOK, Handler
  <2> QED
    BY <1>15, <2>1, <2>2, OnlyWriter DEF RemoveDir, GoesOn, Guarded
<1>16. ASSUME NEW p \in Procs, RenameDir(p)
      PROVE  CheckOK' /\ MoveOK'
  <2>1. \A q \in Procs \ {p} : handler'[q] = handler[q]
    BY <1>16 DEF RenameDir, Working, GoesOn, Refuse, Return, Idle, TypeOK
  <2>2. handler'[p].pc \notin {"write", "move"}
    BY <1>16 DEF RenameDir, Working, GoesOn, Refuse, Return, Idle, TypeOK, Handler
  <2> QED
    BY <1>16, <2>1, <2>2, OnlyWriter DEF RenameDir, Working, GoesOn, Refuse, Return, Idle, Guarded
<1>17. ASSUME NEW p \in Procs, StartReload(p)
      PROVE  CheckOK' /\ MoveOK'
  <2>1. \A q \in Procs \ {p} : handler'[q] = handler[q]
    BY <1>17 DEF StartReload, Working, Goto, TypeOK
  <2>2. handler'[p].pc \notin {"write", "move"}
    BY <1>17 DEF StartReload, Working, Goto, TypeOK, Handler
  <2> QED
    BY <1>17, <2>1, <2>2, OnlyWriter DEF StartReload, Working, Goto, Guarded
<1>18. ASSUME NEW p \in Procs, Error(p)
      PROVE  CheckOK' /\ MoveOK'
  <2>1. \A q \in Procs \ {p} : handler'[q] = handler[q]
    BY <1>18 DEF Error, Return, Idle, TypeOK
  <2>2. handler'[p].pc \notin {"write", "move"}
    BY <1>18 DEF Error, Return, Idle, TypeOK, Handler
  <2> QED
    BY <1>18, <2>1, <2>2, OnlyWriter DEF Error, Return, Idle, Guarded
<1>19. ASSUME StartWatching
      PROVE  CheckOK' /\ MoveOK'
  <2> QED
    BY <1>19, Untouched DEF StartWatching
<1>20. ASSUME Deliver
      PROVE  CheckOK' /\ MoveOK'
  <2> QED
    BY <1>20, Untouched DEF Deliver
<1>21. ASSUME NEW i \in Items, NEW f \in Option(File), OthersWrite(i, f)
      PROVE  CheckOK' /\ MoveOK'
  <2> QED
    BY <1>21 DEF OthersWrite, CheckOK, MoveOK, EventsIn
<1>22. CASE UNCHANGED vars
  BY <1>22, Untouched DEF vars
<1>23. ASSUME NEW p \in Procs, HangUp(p)
      PROVE  CheckOK' /\ MoveOK'
  BY <1>23, Untouched DEF HangUp, Idle, TypeOK
<1>24. ASSUME NEW i \in Items
       PROVE  /\ None \in Option(File)
              /\ \A home \in Home(i) : [home |-> home, rev |-> acts + 1] \in Option(File)
  BY DEF Option, File, Home, TypeOK
<1> QED
  BY <1>1, <1>2, <1>3, <1>4, <1>5, <1>6, <1>7, <1>8, <1>9, <1>10, <1>11, <1>12, <1>13,
    <1>14, <1>15, <1>16, <1>17, <1>18, <1>19, <1>20, <1>21, <1>22, <1>23, <1>24 DEF Next, Step

-----------------------------------------------------------------------------
(* The invariant. *)

\* A context that has just loaded.
LEMMA InitIInv ==
  ASSUME Init
  PROVE  IInv
<1>1. TypeOK
  <2>1. disk \in [Items -> Option(File)]
    BY DEF Init, Option, File
  <2>2. handler \in [Procs -> Handler]
    BY IdleType DEF Init
  <2>3. queue \in Seq(Procs) /\ writer \in Option(Procs)
    BY DEF Init, Option
  <2>4. acts \in 0..MaxActs /\ faults \in 0..MaxFaults
    BY WebAssumption DEF Init
  <2> QED
    BY <2>1, <2>2, <2>3, <2>4 DEF Init, TypeOK
<1>2. \A p \in Procs : handler[p] = Idle /\ pc(p) = "idle" /\ ~handler[p].cleared
  BY DEF Init, Idle, pc
<1>3. cache = disk
  BY DEF Init
<1> QED
  BY <1>1, <1>2, <1>3
     DEF IInv, RequestOK, LockOK, ClearedOK, Guarded, DifferenceIsKnown, CheckOK, MoveOK

\* The inductive invariant: after Init and after every step.
THEOREM IInvHolds == Spec => []IInv
<1>1. Init => IInv
  BY InitIInv
<1>2. IInv /\ [Next]_vars => IInv'
  BY TypeStep, RequestStep, LockStep, DifferenceStep, StandStep DEF IInv
<1> QED
  BY <1>1, <1>2, PTL DEF Spec

-----------------------------------------------------------------------------
(* What follows. *)

\* Every variable keeps its type.
THEOREM WebTypeCorrect == Spec => []TypeOK
<1>1. IInv => TypeOK
  BY DEF IInv
<1> QED
  BY <1>1, IInvHolds, PTL

\* No interleaving of readers, writers, the watcher and other programs loses
\* track of a difference between cache and files, but for the cases `forgotten`
\* collects: a write() that clears the flag and returns without a change
\* (state.rs:115), a reload that fails unnoticed (state.rs:107), a client that
\* hangs up before its request has the lock, a change between the load and the
\* watch (state.rs:69-74).
THEOREM WebDifferenceKnown == Spec => []DifferenceIsKnown
<1>1. IInv => DifferenceIsKnown
  BY DEF IInv
<1> QED
  BY <1>1, IInvHolds, PTL

\* A conditional write of a sync replaces only the version it names, unless a
\* program that knows nothing of the lock writes between (sync.rs:116-158).
THEOREM WebSyncEditsStand == Spec => SyncEditsStand
<1>1. IInv => \A p \in Procs :
                 SyncWrite(p) /\ p \notin raced => disk[req(p).item] = req(p).want
  BY DEF IInv, CheckOK, SyncWrite
<1>2. IInv /\ [Next]_vars =>
        [\A p \in Procs :
           SyncWrite(p) /\ p \notin raced => disk[req(p).item] = req(p).want]_vars
  BY <1>1
<1> QED
  BY <1>2, IInvHolds, PTL DEF Spec, SyncEditsStand

\* Removing a calendar destroys no event that the cache knows as it is
\* (calendars.rs:197-236).
THEOREM WebRemovalKeepsKnown == Spec => RemovalKeepsKnown
<1>1. ASSUME IInv, NEW p \in Procs, RemoveDir(p), NEW e \in Events, disk[e] # None,
             disk'[e] = None
      PROVE  cache[e] # disk[e]
  <2>1. EventsIn(cache, req(p).from) = {}
    BY <1>1 DEF IInv, MoveOK, RemoveDir
  <2>2. e \in EventsIn(disk, req(p).from)
    BY <1>1 DEF RemoveDir, Changes, Items
  <2> QED
    BY <2>1, <2>2 DEF EventsIn
<1>2. IInv /\ [Next]_vars =>
        [\A p \in Procs :
           RemoveDir(p) =>
             \A e \in Events : disk[e] # None /\ disk'[e] = None => cache[e] # disk[e]]_vars
  BY <1>1
<1> QED
  BY <1>2, IInvHolds, PTL DEF Spec, RemovalKeepsKnown

=============================================================================
