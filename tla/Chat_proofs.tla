----------------------------- MODULE Chat_proofs -----------------------------
(***************************************************************************)
(* The chat deletes nothing that was there all the while since the model   *)
(* answered, unless the request approves the very call: for any number of  *)
(* requests and rounds, any calls, and whatever others do.  First what the *)
(* tools do to the vault, then the loops that call them.                   *)
(***************************************************************************)
EXTENDS Chat, FiniteSetTheorems, TLAPS

USE DEF Option

-----------------------------------------------------------------------------
(* Series. *)

LEMMA GreaterOfTwo ==
  ASSUME NEW a \in Int, NEW b \in Int
  PROVE  Max({a, b}) \in Int
<1>1. \E x \in {a, b} : \A y \in {a, b} : x >= y
  <2>1. CASE a >= b
    BY <2>1
  <2>2. CASE b >= a
    BY <2>2
  <2> QED
    BY <2>1, <2>2
<1>2. Max({a, b}) \in {a, b}
  BY <1>1 DEF Max
<1> QED
  BY <1>2

LEMMA TruncateTyped ==
  ASSUME NEW m \in Master, NEW at \in Int
  PROVE  TruncateBefore(m, at) \in Master
<1>1. CASE m.rule = None
  BY <1>1 DEF TruncateBefore
<1>2. CASE m.rule # None
  <2>1. m.rule \in Rule
    BY <1>2 DEF Master
  <2>2. [m.rule EXCEPT !.count = None, !.until = at - 1] \in Rule
    <3> DEFINE r == m.rule
               x == at - 1
    <3>1. x \in Int /\ r \in Rule
      BY <2>1
    <3> HIDE DEF r, x
    <3>2. [r EXCEPT !.count = None, !.until = x] \in Rule
      BY <3>1 DEF Rule
    <3> QED
      BY <3>2 DEF r, x
  <2>3. TruncateBefore(m, at) =
          [m EXCEPT !.rule = [m.rule EXCEPT !.count = None, !.until = at - 1]]
    BY <1>2 DEF TruncateBefore, Master
  <2> QED
    BY <2>2, <2>3 DEF Master
<1> QED
  BY <1>1, <1>2

LEMMA HeadCountTyped ==
  ASSUME NEW r \in Option(Rule), NEW m \in Master, NEW at \in Int
  PROVE  SubtractHeadCount(r, m, at) \in Option(Rule)
<1> DEFINE S == OccurrencesIn(m, m.start, at) \cap (m.start..(at - 1))
           k == Cardinality(S)
<1>1. k \in Nat
  <2>1. m.start \in Int /\ at - 1 \in Int
    BY DEF Master
  <2>2. IsFiniteSet(m.start..(at - 1))
    BY <2>1, FS_Interval
  <2>3. IsFiniteSet(S)
    BY <2>2, FS_Subset
  <2> QED
    BY <2>3, FS_CardinalityType
<1>2. CASE r = None \/ r.count = None
  BY <1>2 DEF SubtractHeadCount
<1>3. CASE ~(r = None \/ r.count = None)
  <2>1. r \in Rule /\ r.count \in Int
    BY <1>3 DEF Rule
  <2>2. SubtractHeadCount(r, m, at) = [r EXCEPT !.count = Max({r.count - k, 1})]
    BY <1>3, <2>1 DEF SubtractHeadCount, Rule
  <2>3. r.count - k \in Int
    BY <1>1, <2>1
  <2>4. Max({r.count - k, 1}) \in Int
    BY <2>3, GreaterOfTwo
  <2> HIDE DEF k
  <2> QED
    BY <2>1, <2>2, <2>4 DEF Rule
<1> QED
  BY <1>2, <1>3

LEMMA TailTyped ==
  ASSUME NEW m \in Master, NEW e \in Master, NEW at \in Int
  PROVE  TailOf(m, e, at) \in Master
<1> DEFINE inherited == e.rule = None \/ e.rule = m.rule
           rule == IF e.rule = None THEN m.rule ELSE e.rule
           new == IF inherited THEN SubtractHeadCount(rule, m, at) ELSE rule
           out == {d \in m.out : d >= at}
<1>1. rule \in Option(Rule)
  BY DEF Master
<1>2. new \in Option(Rule)
  BY <1>1, HeadCountTyped
<1>3. out \in SUBSET Int
  BY DEF Master
<1>4. TailOf(m, e, at) = [e EXCEPT !.rule = new, !.out = out]
  BY DEF TailOf
<1> HIDE DEF new, out
<1> QED
  BY <1>2, <1>3, <1>4 DEF Master

\* What becomes of a series under a scoped edit: it stays, and is one.
LEMMA UpdateTyped ==
  ASSUME NEW all \in [Uids -> Option(EventSeries)], NEW u \in Uids, all[u] # None,
         NEW at \in Int, NEW e \in Master, NEW scope, NEW new,
         scope = "following" => new \in Uids
  PROVE  /\ UpdateOccurrence(all, u, at, e, scope, new) \in [Uids -> Option(EventSeries)]
         /\ \A x \in Uids : all[x] # None =>
              UpdateOccurrence(all, u, at, e, scope, new)[x] # None
<1> DEFINE m == all[u].master
           over == all[u].over
           w == UpdateOccurrence(all, u, at, e, scope, new)
<1>1. all[u] \in EventSeries /\ m \in Master /\ over \subseteq Override
  BY DEF EventSeries
<1>2. CASE scope = "all" \/ m.rule = None
  <2>1. [e EXCEPT !.out = m.out] \in Master
    BY <1>1 DEF Master
  <2>2. [all[u] EXCEPT !.master = [e EXCEPT !.out = m.out]] \in EventSeries
    BY <1>1, <2>1 DEF EventSeries
  <2>3. w = [all EXCEPT ![u] = [all[u] EXCEPT !.master = [e EXCEPT !.out = m.out]]]
    BY <1>2 DEF UpdateOccurrence
  <2> QED
    BY <2>2, <2>3, NoneIsNothing
<1>3. CASE ~(scope = "all" \/ m.rule = None) /\ scope = "this"
  <2> DEFINE o == [at |-> at, title |-> e.title, start |-> e.start, dur |-> e.dur,
                   day |-> e.day]
             now == {x \in over : x.at # at} \cup {o}
  <2>1. o \in Override
    BY DEF Override, Master
  <2>2. now \in SUBSET Override
    BY <1>1, <2>1
  <2>3. w = [all EXCEPT ![u] = [all[u] EXCEPT !.over = now]]
    BY <1>3 DEF UpdateOccurrence
  <2> HIDE DEF now
  <2>4. [all[u] EXCEPT !.over = now] \in EventSeries
    BY <1>1, <2>2 DEF EventSeries
  <2> QED
    BY <2>3, <2>4, NoneIsNothing
<1>4. CASE ~(scope = "all" \/ m.rule = None) /\ scope # "this"
  <2> DEFINE tail == TailOf(m, e, at)
             head == [master |-> TruncateBefore(m, at), over |-> {o \in over : o.at < at}]
             rest == [master |-> tail, over |-> {o \in over :
                        o.at >= at /\ o.at \in OccurrencesIn(tail, o.at, o.at + 1)}]
  <2>1. head \in EventSeries
    BY <1>1, TruncateTyped DEF EventSeries
  <2>2. rest \in EventSeries
    BY <1>1, TailTyped DEF EventSeries
  <2>3. w = [all EXCEPT ![u] = head, ![new] = rest]
    BY <1>4 DEF UpdateOccurrence
  <2> HIDE DEF head, rest
  <2> QED
    BY <2>1, <2>2, <2>3, NoneIsNothing
<1> QED
  BY <1>2, <1>3, <1>4

\* Nothing but the series itself goes.
LEMMA DeleteTyped ==
  ASSUME NEW all \in [Uids -> Option(EventSeries)], NEW u \in Uids, all[u] # None,
         NEW at, NEW scope, scope = "all" \/ at \in Int
  PROVE  /\ DeleteOccurrence(all, u, at, scope) \in [Uids -> Option(EventSeries)]
         /\ \A x \in Uids \ {u} : DeleteOccurrence(all, u, at, scope)[x] = all[x]
<1> DEFINE m == all[u].master
           over == all[u].over
           w == DeleteOccurrence(all, u, at, scope)
<1>1. all[u] \in EventSeries /\ m \in Master /\ over \subseteq Override
  BY DEF EventSeries
<1>2. CASE scope = "all" \/ m.rule = None
  BY <1>2 DEF DeleteOccurrence
<1>3. CASE ~(scope = "all" \/ m.rule = None) /\ scope = "this"
  <2>1. [m EXCEPT !.out = @ \cup {at}] \in Master
    BY <1>1, <1>3 DEF Master
  <2>2. [all[u] EXCEPT !.master = [m EXCEPT !.out = @ \cup {at}],
                       !.over = {o \in @ : o.at # at}] \in EventSeries
    BY <1>1, <2>1 DEF EventSeries
  <2>3. w = [all EXCEPT ![u] = [all[u] EXCEPT !.master = [m EXCEPT !.out = @ \cup {at}],
                                              !.over = {o \in @ : o.at # at}]]
    BY <1>1, <1>3 DEF DeleteOccurrence, EventSeries, Master
  <2> QED
    BY <2>2, <2>3
<1>4. CASE ~(scope = "all" \/ m.rule = None) /\ scope # "this"
  <2> DEFINE t == TruncateBefore(m, at)
  <2>1. t \in Master
    BY <1>1, <1>4, TruncateTyped
  <2>2. w = [all EXCEPT ![u] = [all[u] EXCEPT !.master = t, !.over = {o \in @ : o.at < at}]]
    BY <1>1, <1>4 DEF DeleteOccurrence, EventSeries
  <2> HIDE DEF t
  <2>3. [all[u] EXCEPT !.master = t, !.over = {o \in @ : o.at < at}] \in EventSeries
    BY <1>1, <2>1 DEF EventSeries
  <2> QED
    BY <2>2, <2>3
<1> QED
  BY <1>2, <1>3, <1>4

-----------------------------------------------------------------------------
(* Tools. *)

\* A call leaves a vault, and all that was held in the one before; a deletion may
\* take its target out of it.
Spares(c, v, w) ==
  /\ w \in Vault
  /\ \A t \in Tasks : v.tasks[t] # None =>
       w.tasks[t] # None \/ (c.tool = "delete_task" /\ t = c.uid)
  /\ \A u \in Uids : v.series[u] # None =>
       w.series[u] # None \/ (c.tool = "delete_event" /\ u = c.uid)

LEMMA SparesSame ==
  ASSUME NEW c, NEW v \in Vault
  PROVE  Spares(c, v, v)
BY DEF Spares

LEMMA VaultParts ==
  ASSUME NEW v \in Vault
  PROVE  /\ v.tasks \in [Tasks -> Option(Task)] /\ v.series \in [Uids -> Option(EventSeries)]
         /\ v.home \in [Uids -> Calendars] /\ v.projects \subseteq Projects
BY DEF Vault

LEMMA CallParts ==
  ASSUME NEW c \in ToolCall
  PROVE  /\ c \in Argument
         /\ {c.due, c.start, c.end, c.at} \subseteq Time
         /\ c.cal \in Option(Calendars)
         /\ c.tool \in EventTools \cup TaskTools => c.title \in Option(Names)
BY DEF ToolCall, Argument

\* The uid of what a call makes is not in use.
LEMMA FreshUid ==
  ASSUME NEW v \in Vault, NEW c \in ToolCall, NEW new \in Fresh(v, c)
  PROVE  /\ c.tool = "create_task" => new \in Tasks
         /\ c.tool = "create_event" => new \in Uids
         /\ c.tool = "update_event" /\ c.scope = "following" => new \in Uids
<1>1. CASE c.tool = "create_task"
  BY <1>1 DEF Fresh
<1>2. CASE c.tool = "create_event" \/ (c.tool = "update_event" /\ c.scope = "following")
  BY <1>2 DEF Fresh
<1> QED
  BY <1>1, <1>2

LEMMA WithMasterTyped ==
  ASSUME NEW c, NEW v \in Vault, NEW u \in Uids, NEW e \in Master, NEW cal \in Calendars
  PROVE  Spares(c, v, WithMaster(v, u, e, cal))
<1> DEFINE over == IF v.series[u] = None THEN {} ELSE v.series[u].over
           s == [master |-> e, over |-> over]
<1>1. over \in SUBSET Override
  BY VaultParts DEF EventSeries
<1>2. s \in EventSeries
  BY <1>1 DEF EventSeries
<1>3. WithMaster(v, u, e, cal) = [v EXCEPT !.series[u] = s, !.home[u] = cal]
  BY DEF WithMaster
<1> HIDE DEF s
<1>4. [v EXCEPT !.series[u] = s, !.home[u] = cal] \in Vault
  BY <1>2 DEF Vault
<1> QED
  BY <1>2, <1>3, <1>4, NoneIsNothing DEF Spares, Vault

LEMMA CreateEventSpares ==
  ASSUME NEW v \in Vault, NEW c \in ToolCall, NEW new \in Uids, c.tool = "create_event"
  PROVE  Spares(c, v, CreateEvent(v, c, new).vault)
<1>1. CASE Bad \in {c.start, c.end} \/ c.end <= c.start \/ ~Writable(c.cal)
  BY <1>1, SparesSame DEF CreateEvent, Err
<1>2. CASE ~(Bad \in {c.start, c.end} \/ c.end <= c.start \/ ~Writable(c.cal))
  <2> DEFINE e == [title |-> c.title, start |-> c.start, dur |-> c.end - c.start,
                   day |-> c.day, rule |-> None, out |-> {}]
  <2>1. c.start \in Int /\ c.end \in Int /\ c.cal \in Calendars /\ c.title \in Names
        /\ c.day \in BOOLEAN
    BY <1>2 DEF ToolCall, Argument, Time, EventTools
  <2>2. e \in Master
    BY <2>1 DEF Master
  <2>3. CreateEvent(v, c, new).vault = WithMaster(v, new, e, c.cal)
    BY <1>2 DEF CreateEvent, Ok
  <2> HIDE DEF e
  <2> QED
    BY <2>1, <2>2, <2>3, WithMasterTyped
<1> QED
  BY <1>1, <1>2

LEMMA ChangedTyped ==
  ASSUME NEW m \in Master, NEW c \in ToolCall, c.tool \in EventTools,
         Bad \notin {c.start, c.end}
  PROVE  Changed(m, c) \in Master
<1> DEFINE start == Given(c.start, m.start)
           title == Given(c.title, m.title)
           dur == Given(c.end, m.start + m.dur) - start
<1>1. c.start \in Option(Int) /\ c.end \in Option(Int) /\ c.title \in Option(Names)
  BY CallParts DEF Time
<1>2. start \in Int /\ title \in Names
  BY <1>1 DEF Given, Master
<1>3. dur \in Int
  BY <1>1, <1>2 DEF Given, Master
<1>4. Changed(m, c) = [m EXCEPT !.title = title, !.start = start, !.dur = dur]
  BY DEF Changed, Master
<1> HIDE DEF start, title, dur
<1> QED
  BY <1>2, <1>3, <1>4 DEF Master

LEMMA UpdateEventSpares ==
  ASSUME NEW v \in Vault, NEW c \in ToolCall, NEW new, c.tool = "update_event",
         c.scope = "following" => new \in Uids
  PROVE  Spares(c, v, UpdateEvent(v, c, new).vault)
<1> DEFINE m == v.series[c.uid].master
           e == Changed(m, c)
           cal == Given(c.cal, v.home[c.uid])
           scope == Given(c.scope, "all")
           whole == c.at = None \/ scope = "all" \/ m.rule = None
           refused == \/ v.series[c.uid] = None \/ Bad \in {c.start, c.end, c.at}
                      \/ scope = Bad /\ c.at # None
                      \/ c.at # None /\ ~Writable(v.home[c.uid])
                      \/ whole /\ ~Writable(cal)
<1>1. CASE refused
  <2>1. UpdateEvent(v, c, new) = Err(v)
    BY <1>1 DEF UpdateEvent
  <2> QED
    BY <2>1, SparesSame DEF Err
<1>2. CASE ~refused
  <2>1. c.uid \in Uids
    BY DEF ToolCall
  <2>2. v.series[c.uid] \in EventSeries /\ m \in Master
    BY <1>2, <2>1, VaultParts DEF EventSeries
  <2>3. e \in Master
    BY <1>2, <2>2, ChangedTyped DEF EventTools
  <2>4. cal \in Calendars
    BY <2>1, VaultParts, CallParts DEF Given
  <2>5. CASE whole
    <3>1. UpdateEvent(v, c, new) = Ok(WithMaster(v, c.uid, e, cal))
      BY <1>2, <2>5 DEF UpdateEvent
    <3> QED
      BY <2>1, <2>3, <2>4, <3>1, WithMasterTyped DEF Ok
  <2>6. CASE ~whole
    <3> DEFINE changed == UpdateOccurrence(v.series, c.uid, c.at, e, scope, new)
               home == IF scope = "following" THEN [v.home EXCEPT ![new] = cal] ELSE v.home
    <3>1. UpdateEvent(v, c, new) = Ok([v EXCEPT !.series = changed, !.home = home])
      BY <1>2, <2>6 DEF UpdateEvent
    <3>2. c.at \in Int
      BY <1>2, <2>6, CallParts DEF Time
    <3>3. scope = "following" => new \in Uids
      BY DEF Given
    <3>4. /\ changed \in [Uids -> Option(EventSeries)]
          /\ \A x \in Uids : v.series[x] # None => changed[x] # None
      BY <1>2, <2>1, <2>3, <3>2, <3>3, VaultParts, UpdateTyped
    <3>5. home \in [Uids -> Calendars]
      BY <2>4, <3>3, VaultParts
    <3> HIDE DEF changed, home
    <3>6. [v EXCEPT !.series = changed, !.home = home] \in Vault
      BY <3>4, <3>5 DEF Vault
    <3>7. /\ [v EXCEPT !.series = changed, !.home = home].series = changed
          /\ [v EXCEPT !.series = changed, !.home = home].tasks = v.tasks
      BY DEF Vault
    <3>8. UpdateEvent(v, c, new).vault = [v EXCEPT !.series = changed, !.home = home]
      BY <3>1 DEF Ok
    <3> QED
      BY <3>4, <3>6, <3>7, <3>8 DEF Spares
  <2> QED
    BY <2>5, <2>6
<1> QED
  BY <1>1, <1>2

LEMMA DeleteEventSpares ==
  ASSUME NEW v \in Vault, NEW c \in ToolCall, c.tool = "delete_event"
  PROVE  Spares(c, v, DeleteEvent(v, c).vault)
<1> DEFINE scope == IF c.at = None THEN "all" ELSE Given(c.scope, "all")
           refused == \/ v.series[c.uid] = None \/ c.at = Bad
                      \/ (c.at # None /\ c.scope = Bad) \/ ~Writable(v.home[c.uid])
<1>1. CASE refused
  BY <1>1, SparesSame DEF DeleteEvent, Err
<1>2. CASE ~refused
  <2> DEFINE deleted == DeleteOccurrence(v.series, c.uid, c.at, scope)
  <2>1. DeleteEvent(v, c) = Ok([v EXCEPT !.series = deleted])
    BY <1>2 DEF DeleteEvent
  <2>2. c.uid \in Uids
    BY DEF ToolCall
  <2>3. scope = "all" \/ c.at \in Int
    BY <1>2, CallParts DEF Time
  <2>4. /\ deleted \in [Uids -> Option(EventSeries)]
        /\ \A x \in Uids \ {c.uid} : deleted[x] = v.series[x]
    BY <1>2, <2>2, <2>3, VaultParts, DeleteTyped
  <2> HIDE DEF deleted
  <2>5. [v EXCEPT !.series = deleted] \in Vault
    BY <2>4 DEF Vault
  <2> QED
    BY <2>1, <2>4, <2>5 DEF Ok, Spares, Vault
<1> QED
  BY <1>1, <1>2

LEMMA PutTaskSpares ==
  ASSUME NEW c, NEW v \in Vault, NEW t \in Tasks, NEW task \in Task
  PROVE  Spares(c, v, [v EXCEPT !.tasks[t] = task])
<1>1. [v EXCEPT !.tasks[t] = task] \in Vault
  BY DEF Vault
<1> QED
  BY <1>1, NoneIsNothing DEF Spares, Vault

LEMMA CreateTaskSpares ==
  ASSUME NEW v \in Vault, NEW c \in ToolCall, NEW new \in Tasks, c.tool = "create_task"
  PROVE  Spares(c, v, CreateTask(v, c, new).vault)
<1>1. CASE Bad \in {c.title, c.due}
  BY <1>1, SparesSame DEF CreateTask, Err
<1>2. CASE Bad \notin {c.title, c.due}
  <2> DEFINE task == [title |-> c.title, due |-> c.due, status |-> Default]
  <2>1. c.title \in Names /\ c.due \in Option(Int)
    BY <1>2 DEF ToolCall, Argument, Time, TaskTools
  <2>2. task \in Task
    BY <2>1, ToolsAssumption DEF Task
  <2>3. CreateTask(v, c, new).vault = [v EXCEPT !.tasks[new] = task]
    BY <1>2 DEF CreateTask, Ok
  <2> HIDE DEF task
  <2> QED
    BY <2>2, <2>3, PutTaskSpares
<1> QED
  BY <1>1, <1>2

LEMMA UpdateTaskSpares ==
  ASSUME NEW v \in Vault, NEW c \in ToolCall, c.tool = "update_task"
  PROVE  Spares(c, v, UpdateTask(v, c).vault)
<1>1. CASE v.tasks[c.uid] = None \/ c.due = Bad
  BY <1>1, SparesSame DEF UpdateTask, Err
<1>2. CASE ~(v.tasks[c.uid] = None \/ c.due = Bad)
  <2> DEFINE title == Given(c.title, v.tasks[c.uid].title)
             due == Given(c.due, v.tasks[c.uid].due)
             task == [v.tasks[c.uid] EXCEPT !.title = title, !.due = due]
  <2>1. c.uid \in Tasks /\ c.title \in Option(Names) /\ c.due \in Option(Int)
    BY <1>2 DEF ToolCall, Argument, Time, TaskTools
  <2>2. v.tasks[c.uid] \in Task
    BY <1>2, <2>1, VaultParts
  <2>3. title \in Names /\ due \in Option(Int)
    BY <2>1, <2>2 DEF Given, Task
  <2>4. UpdateTask(v, c).vault = [v EXCEPT !.tasks[c.uid] = task]
    BY <1>2, <2>1, <2>2 DEF UpdateTask, Ok, Vault, Task
  <2> HIDE DEF title, due
  <2>5. task \in Task
    BY <2>2, <2>3 DEF Task
  <2> HIDE DEF task
  <2>6. Spares(c, v, [v EXCEPT !.tasks[c.uid] = task])
    BY <2>1, <2>5, PutTaskSpares
  <2> QED
    BY <2>4, <2>6
<1> QED
  BY <1>1, <1>2

LEMMA SetStatusSpares ==
  ASSUME NEW v \in Vault, NEW c, NEW u \in Tasks, NEW d, d.uid = u
  PROVE  Spares(c, v, SetTaskStatus(v, d).vault)
<1>1. CASE v.tasks[u] = None \/ d.status \notin Statuses
  BY <1>1, SparesSame DEF SetTaskStatus, Err
<1>2. CASE ~(v.tasks[u] = None \/ d.status \notin Statuses)
  <2> DEFINE task == [v.tasks[u] EXCEPT !.status = d.status]
  <2>1. v.tasks[u] \in Task
    BY <1>2, VaultParts
  <2>2. task \in Task
    BY <1>2, <2>1 DEF Task
  <2>3. SetTaskStatus(v, d).vault = [v EXCEPT !.tasks[u] = task]
    BY <1>2, <2>1 DEF SetTaskStatus, Ok, Vault, Task
  <2> HIDE DEF task
  <2>4. Spares(c, v, [v EXCEPT !.tasks[u] = task])
    BY <2>2, PutTaskSpares
  <2> QED
    BY <2>3, <2>4
<1> QED
  BY <1>1, <1>2

LEMMA DeleteTaskSpares ==
  ASSUME NEW v \in Vault, NEW c \in ToolCall, c.tool = "delete_task"
  PROVE  Spares(c, v, DeleteTask(v, c).vault)
<1>1. CASE v.tasks[c.uid] = None
  BY <1>1, SparesSame DEF DeleteTask, Err
<1>2. CASE v.tasks[c.uid] # None
  <2>1. [v EXCEPT !.tasks[c.uid] = None] \in Vault
    BY DEF Vault
  <2> QED
    BY <1>2, <2>1 DEF DeleteTask, Ok, Spares, Vault
<1> QED
  BY <1>1, <1>2

LEMMA CreateProjectSpares ==
  ASSUME NEW v \in Vault, NEW c \in ToolCall, c.tool = "create_project"
  PROVE  Spares(c, v, CreateProject(v, c).vault)
<1>1. CASE c.title = Bad
  BY <1>1, SparesSame DEF CreateProject, Err
<1>2. CASE c.title # Bad
  <2>1. c.title \in Projects
    BY <1>2 DEF ToolCall
  <2>2. [v EXCEPT !.projects = @ \cup {c.title}] \in Vault
    BY <2>1 DEF Vault
  <2> QED
    BY <1>2, <2>2 DEF CreateProject, Ok, Spares, Vault
<1> QED
  BY <1>1, <1>2

\* Whatever a call comes to, it spares all but the target of a deletion.
LEMMA OutcomeSpares ==
  ASSUME NEW v \in Vault, NEW c \in ToolCall, NEW outcome \in Outcomes(v, c)
  PROVE  Spares(c, v, outcome.vault)
<1>1. CASE outcome = Err(v)
  BY <1>1, SparesSame DEF Err
<1>2. ASSUME NEW new \in Fresh(v, c), outcome = Dispatch(v, c, new)
      PROVE  Spares(c, v, outcome.vault)
  <2>1. c.tool \in EventTools \cup TaskTools \cup Reads \cup {"create_project"}
    BY CallParts DEF Argument
  <2>2. CASE c.tool = "create_event"
    BY <1>2, <2>2, FreshUid, CreateEventSpares DEF Dispatch, Reads
  <2>3. CASE c.tool = "update_event"
    BY <1>2, <2>3, FreshUid, UpdateEventSpares DEF Dispatch, Reads
  <2>4. CASE c.tool = "delete_event"
    BY <1>2, <2>4, DeleteEventSpares DEF Dispatch, Reads
  <2>5. CASE c.tool = "create_task"
    BY <1>2, <2>5, FreshUid, CreateTaskSpares DEF Dispatch, Reads
  <2>6. CASE c.tool = "update_task"
    BY <1>2, <2>6, UpdateTaskSpares DEF Dispatch, Reads
  <2>7. CASE c.tool = "set_task_status"
    <3>1. c.uid \in Tasks
      BY <2>7 DEF ToolCall, TaskTools
    <3> QED
      BY <1>2, <2>7, <3>1, SetStatusSpares DEF Dispatch, Reads
  <2>8. CASE c.tool = "complete_task"
    <3> DEFINE d == [c EXCEPT !.status = FirstDone]
    <3>1. c.uid \in Tasks /\ d.uid = c.uid
      BY <2>8 DEF ToolCall, TaskTools, Argument
    <3>2. outcome = SetTaskStatus(v, d)
      BY <1>2, <2>8 DEF Dispatch, Reads, CompleteTask
    <3> HIDE DEF d
    <3> QED
      BY <3>1, <3>2, SetStatusSpares
  <2>9. CASE c.tool = "delete_task"
    BY <1>2, <2>9, DeleteTaskSpares DEF Dispatch, Reads
  <2>10. CASE c.tool = "create_project"
    BY <1>2, <2>10, CreateProjectSpares DEF Dispatch, Reads
  <2>11. CASE c.tool \in Reads
    <3>1. Dispatch(v, c, new) = Ok(v)
      BY <2>11 DEF Dispatch, Reads
    <3> QED
      BY <1>2, <3>1, SparesSame DEF Ok
  <2> QED
    BY <2>1, <2>2, <2>3, <2>4, <2>5, <2>6, <2>7, <2>8, <2>9, <2>10, <2>11
       DEF EventTools, TaskTools
<1> QED
  BY <1>1, <1>2 DEF Outcomes

\* A deletion whose target cannot be described has none.
LEMMA DescribedIsThere ==
  ASSUME NEW v \in Vault, NEW c \in ToolCall, c.tool \in Destructive, Described(v, c) = None
  PROVE  \/ c.tool = "delete_event" /\ c.uid \in Uids /\ v.series[c.uid] = None
         \/ c.tool = "delete_task" /\ c.uid \in Tasks /\ v.tasks[c.uid] = None
<1>1. CASE c.tool = "delete_event"
  <2>1. c.uid \in Uids
    BY <1>1 DEF ToolCall
  <2>2. ASSUME v.series[c.uid] # None
        PROVE  FALSE
    <3> DEFINE m == v.series[c.uid].master
               at == IF c.at \in {None, Bad} THEN m.start ELSE c.at
    <3>1. m \in Master
      BY <2>1, <2>2, VaultParts DEF EventSeries
    <3>2. at \in Option(Int) /\ m.title \in Names
      BY <3>1, CallParts DEF Time, Master
    <3>3. [title |-> m.title, at |-> at] \in Prompt
      BY <3>2 DEF Prompt
    <3>4. Described(v, c) = [title |-> m.title, at |-> at]
      BY <1>1, <2>2 DEF Described
    <3> QED
      BY <3>3, <3>4, NoneIsNothing
  <2> QED
    BY <1>1, <2>1, <2>2
<1>2. CASE c.tool = "delete_task"
  <2>1. c.uid \in Tasks
    BY <1>2 DEF ToolCall, TaskTools
  <2>2. ASSUME v.tasks[c.uid] # None
        PROVE  FALSE
    <3>1. v.tasks[c.uid] \in Task
      BY <2>1, <2>2, VaultParts
    <3>2. [title |-> v.tasks[c.uid].title, at |-> None] \in Prompt
      BY <3>1 DEF Prompt, Task
    <3>3. Described(v, c) = [title |-> v.tasks[c.uid].title, at |-> None]
      BY <1>2, <2>2 DEF Described
    <3> QED
      BY <3>2, <3>3, NoneIsNothing
  <2> QED
    BY <1>2, <2>1, <2>2
<1> QED
  BY <1>1, <1>2 DEF Destructive

-----------------------------------------------------------------------------
(* The loops. *)

\* What stayed in the vault since the model answered is in the vault; and a
\* deletion dispatched without approval is of what did not stay.
StayedHeld == \A r \in Requests : stayed[r] \subseteq Held(vault)
TargetMissing ==
  \A r \in Requests : At(r, "dispatch") => Running(r).uid \notin stayed[r]

IInv == TypeOK /\ StayedHeld /\ TargetMissing

LEMMA SparesHeld ==
  ASSUME NEW v \in Vault, NEW w, NEW c, Spares(c, v, w),
         NEW i \in Held(v), i \notin Held(w)
  PROVE  c.tool \in Destructive /\ i = c.uid
BY DEF Spares, Held, Destructive

\* The call that a loop is about to run.
LEMMA FirstCall ==
  ASSUME TypeOK, NEW r \in Requests, Ran(r)
  PROVE  /\ request[r].calls # <<>> /\ request[r].calls \in Seq(ToolCall)
         /\ Running(r) \in ToolCall
         /\ Tail(request[r].calls) \in Seq(ToolCall)
<1>1. request[r].calls # <<>> /\ request[r].calls \in Seq(ToolCall)
  BY DEF TypeOK, Ran, At, Turn
<1> QED
  BY <1>1 DEF Running

\* A loop that is over runs nothing more.
LEMMA OverTyped ==
  ASSUME NEW p \in Turn, NEW pc \in Over
  PROVE  LET q == [p EXCEPT !.pc = pc, !.calls = <<>>] IN
         /\ q \in Turn /\ q.approve = p.approve /\ q.round = p.round
         /\ q.pc = pc /\ q.calls = <<>>
<1>1. pc \in Pcs /\ <<>> \in Seq(ToolCall)
  BY DEF Pcs
<1> DEFINE e == <<>>
<1> HIDE DEF e
<1>2. ASSUME e \in Seq(ToolCall)
      PROVE  LET q == [p EXCEPT !.pc = pc, !.calls = e] IN
             /\ q \in Turn /\ q.approve = p.approve /\ q.round = p.round
             /\ q.pc = pc /\ q.calls = e
  BY <1>1, <1>2 DEF Turn
<1> QED
  BY <1>1, <1>2 DEF e

\* Calls start and stay as they are while a loop waits.
LEMMA Waits ==
  ASSUME TypeOK, UNCHANGED <<vault, gone, edits>>, asked \subseteq asked',
         \A c \in asked' : c \in ToolCall /\ c.tool \in Destructive,
         NEW r \in Requests, NEW q \in Turn, request' = [request EXCEPT ![r] = q],
         q.round <= MaxRounds \/ MaxRounds = 0,
         q.pc \in {"run", "dispatch"} <=> q.calls # <<>>,
         q.pc = "dispatch" => Head(q.calls).tool \in Destructive,
         q.approve \in asked' \cup {None},
         stayed' \in [Requests -> SUBSET (Tasks \cup Uids)]
  PROVE  TypeOK'
<1>1. request' \in [Requests -> Turn]
  BY DEF TypeOK
<1>2. \A x \in Requests : request'[x] = IF x = r THEN q ELSE request[x]
  BY DEF TypeOK
<1> QED
  BY <1>1, <1>2 DEF TypeOK

LEMMA InitInv ==
  ASSUME Init
  PROVE  IInv
<1>1. (CHOOSE c \in Calendars : Writable(c)) \in Calendars
  BY ToolsAssumption DEF Writable
<1>2. vault \in Vault
  BY <1>1, ChatAssumption DEF Init, Vault
<1>3. [pc |-> "idle", approve |-> None, round |-> 0, calls |-> <<>>] \in Turn
  BY DEF Turn, Pcs
<1>4. TypeOK
  BY <1>2, <1>3, ChatAssumption DEF Init, TypeOK
<1>5. StayedHeld /\ TargetMissing
  BY DEF Init, StayedHeld, TargetMissing, At
<1> QED
  BY <1>4, <1>5 DEF IInv

LEMMA PostInv ==
  ASSUME IInv, NEW r \in Requests, Post(r)
  PROVE  IInv'
<1>1. PICK approve \in asked \cup {None} :
        request' = [request EXCEPT ![r] =
          [pc |-> IF MaxRounds = 0 THEN "done" ELSE "ask", approve |-> approve,
           round |-> 1, calls |-> <<>>]]
  BY DEF Post
<1> DEFINE q == [pc |-> IF MaxRounds = 0 THEN "done" ELSE "ask", approve |-> approve,
                 round |-> 1, calls |-> <<>>]
<1>2. q \in Turn /\ q.approve \in asked \cup {None} /\ q.calls = <<>>
      /\ q.pc \in {"done", "ask"} /\ (q.round <= MaxRounds \/ MaxRounds = 0)
  BY ChatAssumption DEF Turn, Pcs, Over, IInv, TypeOK
<1>3. request' = [request EXCEPT ![r] = q]
  BY <1>1
<1> HIDE DEF q
<1>4. TypeOK'
  BY <1>2, <1>3, Waits DEF Post, IInv, TypeOK
<1>5. StayedHeld' /\ TargetMissing'
  BY <1>2, <1>3 DEF Post, IInv, TypeOK, StayedHeld, TargetMissing, At, Running
<1> QED
  BY <1>4, <1>5 DEF IInv

LEMMA UpstreamFailsInv ==
  ASSUME IInv, NEW r \in Requests, UpstreamFails(r)
  PROVE  IInv'
<1> DEFINE q == [request[r] EXCEPT !.pc = "error", !.calls = <<>>]
<1>1. request' = [request EXCEPT ![r] = q]
  BY DEF UpstreamFails
<1>2. q \in Turn /\ q.approve = request[r].approve /\ q.round = request[r].round
      /\ q.pc = "error" /\ q.calls = <<>>
  BY OverTyped DEF Over, IInv, TypeOK
<1> HIDE DEF q
<1>3. TypeOK'
  BY <1>1, <1>2, Waits DEF UpstreamFails, IInv, TypeOK
<1>4. StayedHeld' /\ TargetMissing'
  BY <1>1, <1>2 DEF UpstreamFails, IInv, TypeOK, StayedHeld, TargetMissing, At, Running
<1> QED
  BY <1>3, <1>4 DEF IInv

LEMMA HeldUids ==
  ASSUME NEW v
  PROVE  Held(v) \subseteq Tasks \cup Uids
BY DEF Held

LEMMA ModelAnswersInv ==
  ASSUME IInv, NEW r \in Requests, ModelAnswers(r)
  PROVE  IInv'
<1>1. PICK calls \in Answers :
        request' = [request EXCEPT ![r].pc = IF calls = <<>> THEN "done" ELSE "run",
                                   ![r].calls = calls]
  BY DEF ModelAnswers
<1> DEFINE q == [request[r] EXCEPT !.pc = IF calls = <<>> THEN "done" ELSE "run",
                                   !.calls = calls]
<1>2. request' = [request EXCEPT ![r] = q]
  BY <1>1
<1>3. q \in Turn /\ q.approve = request[r].approve /\ q.round = request[r].round
      /\ q.pc = (IF calls = <<>> THEN "done" ELSE "run") /\ q.calls = calls
  BY ChatAssumption DEF Turn, Pcs, Over, IInv, TypeOK
<1> HIDE DEF q
<1>4. stayed' \in [Requests -> SUBSET (Tasks \cup Uids)]
  BY HeldUids DEF ModelAnswers, IInv, TypeOK
<1>5. TypeOK'
  BY <1>2, <1>3, <1>4, Waits DEF ModelAnswers, IInv, TypeOK
<1>6. StayedHeld'
  BY DEF ModelAnswers, IInv, TypeOK, StayedHeld
<1>7. TargetMissing'
  BY <1>2, <1>3 DEF ModelAnswers, IInv, TypeOK, TargetMissing, At, Running
<1> QED
  BY <1>5, <1>6, <1>7 DEF IInv

LEMMA DescribeInv ==
  ASSUME IInv, NEW r \in Requests, Describe(r)
  PROVE  IInv'
<1> DEFINE c == Head(request[r].calls)
<1>1. c \in ToolCall /\ c = Running(r) /\ c.tool \in Destructive
  BY FirstCall DEF Describe, NeedsApproval, IInv, Ran, Running
<1>2. CASE Described(vault, c) # None
  <2> DEFINE q == [request[r] EXCEPT !.pc = "confirm", !.calls = <<>>]
  <2>1. request' = [request EXCEPT ![r] = q] /\ asked' = asked \cup {c}
    BY <1>2 DEF Describe
  <2>2. q \in Turn /\ q.approve = request[r].approve /\ q.round = request[r].round
        /\ q.pc = "confirm" /\ q.calls = <<>>
    BY OverTyped DEF Over, IInv, TypeOK
  <2> HIDE DEF q, c
  <2>3. TypeOK'
    BY <1>1, <2>1, <2>2, Waits DEF Describe, IInv, TypeOK
  <2>4. StayedHeld' /\ TargetMissing'
    BY <2>1, <2>2 DEF Describe, IInv, TypeOK, StayedHeld, TargetMissing, At, Running
  <2> QED
    BY <2>3, <2>4 DEF IInv
<1>3. CASE Described(vault, c) = None
  <2> DEFINE q == [request[r] EXCEPT !.pc = "dispatch"]
  <2>1. request' = [request EXCEPT ![r] = q] /\ asked' = asked
    BY <1>3 DEF Describe
  <2>2. q \in Turn /\ q.approve = request[r].approve /\ q.round = request[r].round
        /\ q.pc = "dispatch" /\ q.calls = request[r].calls /\ q.calls # <<>>
    BY FirstCall DEF Turn, Pcs, IInv, TypeOK, Ran, Describe
  <2>3. c.uid \notin Held(vault)
    <3>1. vault \in Vault
      BY DEF IInv, TypeOK
    <3>2. \/ c.uid \in Uids /\ vault.series[c.uid] = None
          \/ c.uid \in Tasks /\ vault.tasks[c.uid] = None
      BY <1>1, <1>3, <3>1, DescribedIsThere
    <3> HIDE DEF c
    <3> QED
      BY <3>2, ToolsAssumption DEF Held
  <2>4. TypeOK'
    <3>1. Head(q.calls).tool \in Destructive
      BY <1>1, <2>2
    <3> HIDE DEF q, c
    <3> QED
      BY <2>1, <2>2, <3>1, Waits DEF Describe, IInv, TypeOK
  <2>5. StayedHeld'
    BY DEF Describe, IInv, StayedHeld
  <2>6. TargetMissing'
    <3>1. c.uid \notin stayed[r]
      BY <2>3 DEF IInv, StayedHeld
    <3>2. Head(q.calls) = c
      BY <2>2
    <3> HIDE DEF q, c
    <3> QED
      BY <2>1, <3>1, <3>2 DEF Describe, IInv, TypeOK, TargetMissing, At, Running
  <2> QED
    BY <2>4, <2>5, <2>6 DEF IInv
<1> QED
  BY <1>2, <1>3

\* Where a loop goes after a call.
LEMMA NextCallTyped ==
  ASSUME TypeOK, NEW r \in Requests, Ran(r)
  PROVE  LET q == NextCall(request[r]) IN
         /\ q \in Turn /\ q.approve = request[r].approve
         /\ q.round <= MaxRounds \/ MaxRounds = 0
         /\ q.pc \in {"run", "error", "ask"} /\ (q.pc = "run" <=> q.calls # <<>>)
<1> DEFINE p == request[r]
           t == Tail(p.calls)
           q == NextCall(p)
<1>1. t \in Seq(ToolCall) /\ p \in Turn /\ (p.round <= MaxRounds \/ MaxRounds = 0)
  BY FirstCall DEF TypeOK
<1>2. q = IF t # <<>> THEN [p EXCEPT !.calls = t, !.pc = "run"]
          ELSE IF p.round = MaxRounds THEN [p EXCEPT !.calls = t, !.pc = "error"]
          ELSE [p EXCEPT !.calls = t, !.pc = "ask", !.round = p.round + 1]
  BY <1>1 DEF NextCall, Turn
<1> HIDE DEF t, p, q
<1>3. /\ q \in Turn /\ q.approve = p.approve
      /\ q.pc \in {"run", "error", "ask"} /\ (q.pc = "run" <=> q.calls # <<>>)
  <2>1. CASE t # <<>>
    BY <1>1, <1>2, <2>1 DEF Turn, Pcs
  <2>2. CASE t = <<>> /\ p.round = MaxRounds
    BY <1>1, <1>2, <2>2 DEF Turn, Pcs, Over
  <2>3. CASE t = <<>> /\ p.round # MaxRounds
    <3>1. p.round + 1 \in Nat
      BY <1>1 DEF Turn
    <3>2. q = [p EXCEPT !.calls = t, !.pc = "ask", !.round = p.round + 1]
      BY <1>2, <2>3
    <3> QED
      BY <1>1, <2>3, <3>1, <3>2 DEF Turn, Pcs
  <2> QED
    BY <2>1, <2>2, <2>3
<1>4. q.round <= MaxRounds \/ MaxRounds = 0
  BY <1>1, <1>2, ChatAssumption DEF Turn
<1> QED
  BY <1>3, <1>4 DEF p, q

LEMMA RunCallInv ==
  ASSUME IInv, NEW r \in Requests, RunCall(r)
  PROVE  IInv'
<1> DEFINE q == NextCall(request[r])
<1>1. Ran(r) /\ Running(r) \in ToolCall
  BY FirstCall DEF RunCall, IInv, Ran, Running
<1>2. PICK outcome \in Outcomes(vault, Running(r)) : Becomes(outcome.vault)
  BY DEF RunCall, Running
<1>3. vault \in Vault /\ vault' \in Vault
  BY <1>1, <1>2, OutcomeSpares DEF Becomes, Spares, IInv, TypeOK
<1>4. /\ q \in Turn /\ q.approve = request[r].approve
      /\ q.round <= MaxRounds \/ MaxRounds = 0
      /\ q.pc \in {"run", "error", "ask"} /\ (q.pc = "run" <=> q.calls # <<>>)
  BY <1>1, NextCallTyped DEF IInv
<1>5. request' = [request EXCEPT ![r] = q]
  BY DEF RunCall
<1> HIDE DEF q
<1>6. \A x \in Requests : request'[x] = IF x = r THEN q ELSE request[x]
  BY <1>5 DEF IInv, TypeOK
<1>7. /\ stayed' \in [Requests -> SUBSET (Tasks \cup Uids)]
      /\ \A x \in Requests : stayed'[x] = stayed[x] \cap Held(vault')
  BY <1>2 DEF Becomes, IInv, TypeOK
<1>8. TypeOK'
  <2>1. request' \in [Requests -> Turn]
    BY <1>4, <1>5 DEF IInv, TypeOK
  <2> QED
    BY <1>3, <1>4, <1>6, <1>7, <2>1 DEF RunCall, IInv, TypeOK
<1>9. StayedHeld' /\ TargetMissing'
  BY <1>4, <1>6, <1>7 DEF IInv, StayedHeld, TargetMissing, At, Running
<1> QED
  BY <1>8, <1>9 DEF IInv

-----------------------------------------------------------------------------
(* The others. *)

LEMMA OthersInv ==
  ASSUME IInv, NEW v \in Vault, Others(v),
         DOMAIN gone' = Tasks \cup Uids,
         \A t \in Tasks : gone'[t] \in Option(Task),
         \A u \in Uids : gone'[u] \in Option(EventSeries)
  PROVE  IInv'
<1>1. /\ stayed' \in [Requests -> SUBSET (Tasks \cup Uids)]
      /\ \A x \in Requests : stayed'[x] = stayed[x] \cap Held(vault')
  BY DEF Others, Becomes, IInv, TypeOK
<1>2. edits' \in 0..MaxEdits
  BY ChatAssumption DEF Others, IInv, TypeOK
<1>3. TypeOK'
  BY <1>1, <1>2 DEF Others, Becomes, IInv, TypeOK
<1>4. StayedHeld' /\ TargetMissing'
  BY <1>1 DEF Others, IInv, StayedHeld, TargetMissing, At, Running
<1> QED
  BY <1>3, <1>4 DEF IInv

LEMMA OthersStepInv ==
  ASSUME IInv, \/ \E t \in Tasks : RemoveTask(t) \/ BringTaskBack(t)
               \/ \E u \in Uids : RemoveSeries(u) \/ BringSeriesBack(u)
  PROVE  IInv'
<1>1. vault \in Vault
  BY DEF IInv, TypeOK
<1>2. ASSUME NEW t \in Tasks, NEW x \in Option(Task)
      PROVE  [vault EXCEPT !.tasks[t] = x] \in Vault
  BY <1>1 DEF Vault
<1>3. ASSUME NEW u \in Uids, NEW x \in Option(EventSeries)
      PROVE  [vault EXCEPT !.series[u] = x] \in Vault
  BY <1>1 DEF Vault
<1>4. ASSUME NEW t \in Tasks, RemoveTask(t)
      PROVE  IInv'
  <2>1. vault.tasks[t] \in Option(Task)
    BY <1>1, VaultParts
  <2>2. /\ DOMAIN gone' = Tasks \cup Uids
        /\ \A s \in Tasks : gone'[s] \in Option(Task)
        /\ \A u \in Uids : gone'[u] \in Option(EventSeries)
    BY <1>4, <2>1, ToolsAssumption DEF RemoveTask, IInv, TypeOK
  <2> QED
    BY <1>2, <1>4, <2>2, OthersInv DEF RemoveTask
<1>5. ASSUME NEW t \in Tasks, BringTaskBack(t)
      PROVE  IInv'
  <2>1. gone[t] \in Option(Task)
    BY DEF IInv, TypeOK
  <2> QED
    BY <1>2, <1>5, <2>1, OthersInv DEF BringTaskBack, IInv, TypeOK
<1>6. ASSUME NEW u \in Uids, RemoveSeries(u)
      PROVE  IInv'
  <2>1. vault.series[u] \in Option(EventSeries)
    BY <1>1, VaultParts
  <2>2. /\ DOMAIN gone' = Tasks \cup Uids
        /\ \A s \in Tasks : gone'[s] \in Option(Task)
        /\ \A x \in Uids : gone'[x] \in Option(EventSeries)
    BY <1>6, <2>1, ToolsAssumption DEF RemoveSeries, IInv, TypeOK
  <2> QED
    BY <1>3, <1>6, <2>2, OthersInv DEF RemoveSeries
<1>7. ASSUME NEW u \in Uids, BringSeriesBack(u)
      PROVE  IInv'
  <2>1. gone[u] \in Option(EventSeries)
    BY DEF IInv, TypeOK
  <2> QED
    BY <1>3, <1>7, <2>1, OthersInv DEF BringSeriesBack, IInv, TypeOK
<1> QED
  BY <1>4, <1>5, <1>6, <1>7

LEMMA NextInv ==
  ASSUME IInv, [Next]_vars
  PROVE  IInv'
<1>1. CASE UNCHANGED vars
  BY <1>1 DEF vars, IInv, TypeOK, StayedHeld, TargetMissing, At, Running
<1>2. ASSUME NEW r \in Requests, Post(r) \/ Steps(r)
      PROVE  IInv'
  BY <1>2, PostInv, UpstreamFailsInv, ModelAnswersInv, DescribeInv, RunCallInv DEF Steps
<1> QED
  BY <1>1, <1>2, OthersStepInv DEF Next

-----------------------------------------------------------------------------
(* Approval. *)

\* What one step of a loop takes of what stayed, it was approved to take.
Sparing ==
  \A r \in Requests : ByLoop(r) =>
    \A i \in stayed[r] : Removed(i) => request[r].approve = Running(r)

LEMMA RunCallSpares ==
  ASSUME IInv, NEW r \in Requests, RunCall(r), NEW i \in stayed[r], Removed(i)
  PROVE  request[r].approve = Running(r)
<1>1. Ran(r) /\ Running(r) \in ToolCall /\ vault \in Vault
  BY FirstCall DEF RunCall, IInv, Ran, Running, TypeOK
<1>2. PICK outcome \in Outcomes(vault, Running(r)) : Becomes(outcome.vault)
  BY DEF RunCall, Running
<1>3. Spares(Running(r), vault, vault')
  BY <1>1, <1>2, OutcomeSpares DEF Becomes
<1>4. Running(r).tool \in Destructive /\ i = Running(r).uid
  BY <1>1, <1>3, SparesHeld DEF Removed
<1>5. ~At(r, "dispatch")
  BY <1>4 DEF IInv, TargetMissing
<1> QED
  BY <1>4, <1>5 DEF RunCall, NeedsApproval, Running

LEMMA StepSparing ==
  ASSUME IInv, [Next]_vars
  PROVE  Sparing \/ UNCHANGED vars
<1>1. SUFFICES ASSUME Next, NEW r \in Requests, ByLoop(r), NEW i \in stayed[r], Removed(i)
               PROVE  request[r].approve = Running(r)
  BY DEF Sparing
<1>2. vault' # vault /\ request'[r] # request[r]
  BY <1>1 DEF Removed, ByLoop
<1>3. CASE \/ \E t \in Tasks : RemoveTask(t) \/ BringTaskBack(t)
           \/ \E u \in Uids : RemoveSeries(u) \/ BringSeriesBack(u)
  BY <1>2, <1>3 DEF RemoveTask, BringTaskBack, RemoveSeries, BringSeriesBack, Others
<1>4. ASSUME NEW s \in Requests, Post(s) \/ Steps(s)
      PROVE  RunCall(r)
  <2>1. RunCall(s)
    BY <1>2, <1>4 DEF Steps, Post, UpstreamFails, ModelAnswers, Describe
  <2>2. s = r
    BY <1>2, <2>1 DEF RunCall, IInv, TypeOK
  <2> QED
    BY <2>1, <2>2
<1> QED
  BY <1>1, <1>3, <1>4, RunCallSpares DEF Next

\* Nothing that was in the vault all the while since the model answered is deleted
\* by the chat unless the request approves this very call (chat/mod.rs:6-9).
THEOREM ApprovalKept == Spec => KeepsApproval
<1>1. Init => IInv
  BY InitInv
<1>2. IInv /\ [Next]_vars => IInv'
  BY NextInv
<1>3. IInv => TypeOK
  BY DEF IInv
<1>4. IInv /\ [Next]_vars => [Sparing]_vars
  BY StepSparing
<1>5. Spec => []TypeOK
  BY <1>1, <1>2, <1>3, PTL DEF Spec
<1>6. Spec => [][Sparing]_vars
  BY <1>1, <1>2, <1>4, PTL DEF Spec
<1> QED
  BY <1>5, <1>6 DEF KeepsApproval, Unapproved, Sparing
=============================================================================
