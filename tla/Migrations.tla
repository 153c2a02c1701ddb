----------------------------- MODULE Migrations -----------------------------
(***************************************************************************)
(* The one-time changes to a vault: the move into the multi-user layout at *)
(* the start of the server (paths.rs migrate_to_multiuser), the registry   *)
(* file of the projects that becomes a directory when a vault is opened    *)
(* (projects.rs migrate_legacy), and `mgmt migrate-tz` (main.rs), which    *)
(* shifts every stamp once.  Commands run beside the server's start, and   *)
(* nothing is locked: a command looks once where the vault is.             *)
(***************************************************************************)
EXTENDS Integers, Sequences, FiniteSets

CONSTANTS
  Order,      \* events and tasks, in the order in which migrate-tz writes them
  Dir,        \* the directory each lives in, "calendars" or "tasks"
  Given,      \* those there are to begin with; commands add the others
  ReadOnly,   \* those in a calendar that is a subscription
  Names,      \* the projects in the registry file
  Commands,   \* processes that run commands
  None,
  MaxStarts, MaxFaults   \* bounds on commands and starts, and on crashes and failures

Items == {Order[i] : i \in DOMAIN Order}
Roots == {"legacy", "admin"}
Option(S) == S \cup {None}
Procs == Commands \cup {"server"}

\* `movable`, without .trash, which fares like tasks.
Movable == <<"tasks", "calendars", "projects">>

VARIABLES
  made,      \* "none"; "users": that directory is there; "admin": and users/admin
  held,      \* how often the stamps of an item were shifted, in either root
  registry,  \* the registry file of either root
  projects,  \* the project files of either root
  marker,    \* .state/tz-migrated of either root
  job,       \* a process and its locals
  starts, faults,
  \* history: whether a move was cut short, or users/admin made by a command that came
  \* before it; the roots in which migrate-tz stopped
  \* in the middle or ran twice at once, or that a move took from or gave to
  \* while it was at work or done
  cut, excused

disk == <<made, held, registry, projects, marker>>
vars == <<disk, job, starts, faults, cut, excused>>

Idle == [kind |-> "idle"]

Init ==
  /\ made = "none"
  /\ held = [r \in Roots |-> [x \in Items |-> IF r = "legacy" /\ x \in Given THEN 0 ELSE None]]
  /\ registry = [r \in Roots |-> IF r = "legacy" THEN Names ELSE None]
  /\ projects = [r \in Roots |-> {}]
  /\ marker = [r \in Roots |-> FALSE]
  /\ job = [p \in Procs |-> Idle]
  /\ starts = 0 /\ faults = 0 /\ cut = FALSE /\ excused = {}

Becomes(p, j) == job' = [job EXCEPT ![p] = j]

\* atomic_write makes the directories it writes into, users/admin too; the server then
\* takes the move for done, unless it is at it.
Makes(r) ==
  /\ made' = IF r = "admin" THEN "admin" ELSE made
  /\ cut' = (cut \/ (r = "admin" /\ made # "admin" /\ job["server"].kind # "move"))

Starts == starts < MaxStarts /\ starts' = starts + 1

\* local_vault_root
Effective == IF made = "none" THEN "legacy" ELSE "admin"

\* The processes of migrate-tz at work in r.
Shifting(r) ==
  {p \in Procs :
     /\ job[p].kind \in {"open", "unlist", "enlist", "tz", "put"} /\ job[p].root = r
     /\ job[p].kind = "open" => job[p].goal = "tz"
     /\ job[p].kind \in {"unlist", "enlist"} => job[p].then.kind = "tz"}

-----------------------------------------------------------------------------
(* The move. *)

There(r, d) ==
  IF d = "projects" THEN registry[r] # None \/ projects[r] # {}
  ELSE \E x \in Items : Dir[x] = d /\ held[r][x] # None

StartServer ==
  /\ job["server"] = Idle /\ Starts
  /\ Becomes("server", IF made = "admin" THEN [kind |-> "open", root |-> "admin", goal |-> "serving"]
                       ELSE [kind |-> "move", left |-> Movable])
  /\ UNCHANGED <<disk, faults, cut, excused>>

\* create_dir_all, one directory after the other
MakeDir ==
  /\ job["server"].kind = "move" /\ made # "admin"
  /\ made' = IF made = "none" THEN "users" ELSE "admin"
  /\ UNCHANGED <<held, registry, projects, marker, job, starts, faults, cut, excused>>

\* `f` with the items of `taken` moved from one root into the other.
Moved(f, taken) ==
  [r \in Roots |-> [x \in Items |->
     IF x \notin taken THEN f[r][x] ELSE IF r = "admin" THEN f["legacy"][x] ELSE None]]

\* A directory that somebody has made in users/admin meanwhile is in the way: the
\* rename fails, and with it the server's start.
\* A mistake: it is passed over.
PassOver == Becomes("server", [job["server"] EXCEPT !.left = Tail(@)]) /\ UNCHANGED cut
GiveUp == Becomes("server", Idle) /\ cut' = TRUE

\* Whatever migrate-tz has done or is doing to either root is moved with it.
Rename ==
  LET d == Head(job["server"].left)
      taken == {x \in Items : Dir[x] = d}
      swept == {r \in Roots : r \in excused \/ marker[r] \/ Shifting(r) # {}}
  IN
  /\ job["server"].kind = "move" /\ made = "admin" /\ job["server"].left # <<>>
  /\ IF There("legacy", d) /\ There("admin", d)
     THEN GiveUp /\ UNCHANGED <<held, registry, projects, excused>>
     ELSE /\ \/ ~There("legacy", d) /\ UNCHANGED <<held, registry, projects, excused>>
             \/ /\ There("legacy", d) /\ d = "projects"
                /\ registry' = [registry EXCEPT !["admin"] = registry["legacy"], !["legacy"] = None]
                /\ projects' = [projects EXCEPT !["admin"] = projects["legacy"], !["legacy"] = {}]
                /\ UNCHANGED <<held, excused>>
             \/ /\ There("legacy", d) /\ d # "projects"
                /\ held' = Moved(held, taken)
                /\ excused' = excused \cup (IF swept # {} THEN Roots ELSE {})
                /\ UNCHANGED <<registry, projects>>
          /\ Becomes("server", [job["server"] EXCEPT !.left = Tail(@)])
          /\ UNCHANGED cut
  /\ UNCHANGED <<made, marker, starts, faults>>

MoveDone ==
  /\ job["server"].kind = "move" /\ job["server"].left = <<>>
  /\ Becomes("server", [kind |-> "open", root |-> "admin", goal |-> "serving"])
  /\ UNCHANGED <<disk, starts, faults, cut, excused>>

-----------------------------------------------------------------------------
(* Opening a vault. *)

\* A command; migrate-tz does not open a vault that bears the marker.
StartCommand(p, goal) ==
  /\ job[p] = Idle /\ p # "server" /\ Starts
  /\ IF goal = "tz" /\ marker[Effective] THEN UNCHANGED job
     ELSE Becomes(p, [kind |-> "open", root |-> Effective, goal |-> goal])
  /\ excused' = IF goal = "tz" /\ Shifting(Effective) # {} THEN excused \cup {Effective}
                ELSE excused
  /\ UNCHANGED <<disk, faults, cut>>

\* load_all of the tasks and the events; then the registry is read, if it is a file.
Open(p) ==
  LET r == job[p].root
      opened == [kind |-> job[p].goal, root |-> r, cache |-> held[r]]
  IN
  /\ job[p].kind = "open"
  /\ Becomes(p, IF registry[r] = None THEN opened
                ELSE [kind |-> "unlist", root |-> r, names |-> registry[r], then |-> opened])
  /\ UNCHANGED <<disk, starts, faults, cut, excused>>

\* migrate_legacy removes the file, unless that is gone by now: an error.
Unlist(p) ==
  LET r == job[p].root IN
  /\ job[p].kind = "unlist"
  /\ registry' = [registry EXCEPT ![r] = None]
  /\ Becomes(p, IF registry[r] = None THEN Idle ELSE [job[p] EXCEPT !.kind = "enlist"])
  /\ UNCHANGED <<made, held, projects, marker, starts, faults, cut, excused>>

Enlist(p) ==
  LET r == job[p].root IN
  /\ job[p].kind = "enlist"
  /\ IF job[p].names = {} THEN Becomes(p, job[p].then) /\ UNCHANGED <<made, projects, cut>>
     ELSE \E n \in job[p].names :
            /\ projects' = [projects EXCEPT ![r] = @ \cup {n}]
            /\ Makes(r)
            /\ Becomes(p, [job[p] EXCEPT !.names = @ \ {n}])
  /\ UNCHANGED <<held, registry, marker, starts, faults, excused>>

\* mgmt add and its like, or a subscription that is mirrored: a new item, whose
\* stamps are right.
Add(p) ==
  /\ job[p].kind = "add"
  /\ \E x \in Items \ Given :
       /\ \A r \in Roots : held[r][x] = None
       /\ held' = [held EXCEPT ![job[p].root][x] = 1]
  /\ Makes(job[p].root)
  /\ Becomes(p, Idle)
  /\ UNCHANGED <<registry, projects, marker, starts, faults, excused>>

-----------------------------------------------------------------------------
(* migrate-tz. *)

\* The shifted values are of the vault as it was opened.  Then the user is asked.
Scan(p) ==
  /\ job[p].kind = "tz"
  /\ Becomes(p, [kind |-> "put", root |-> job[p].root, cache |-> job[p].cache,
                 left |-> {x \in Items : job[p].cache[x] # None}])
  /\ UNCHANGED <<disk, starts, faults, cut, excused>>

\* The answer is no, or it was a dry run.
Abort(p) ==
  /\ job[p].kind = "tz"
  /\ Becomes(p, Idle)
  /\ UNCHANGED <<disk, starts, faults, cut, excused>>

First(x, left) == \E i \in DOMAIN Order : Order[i] = x /\ \A j \in 1..(i - 1) : Order[j] \notin left

\* put_series and put_task; a calendar that is read-only is refused, which ends it.
Put(p) ==
  LET r == job[p].root IN
  /\ job[p].kind = "put"
  /\ \E x \in job[p].left :
       /\ First(x, job[p].left)
       /\ IF x \in ReadOnly
          THEN /\ excused' = excused \cup {r} /\ Becomes(p, Idle)
               /\ UNCHANGED <<made, held, cut>>
          ELSE /\ held' = [held EXCEPT ![r][x] = job[p].cache[x] + 1]
               /\ Makes(r)
               /\ Becomes(p, [job[p] EXCEPT !.left = @ \ {x}])
               /\ UNCHANGED excused
  /\ UNCHANGED <<registry, projects, marker, starts, faults>>

\* A mistake: the marker is written only when there was nothing to do.
MarkIdle(p) ==
  /\ job[p].kind = "put" /\ job[p].left = {}
  /\ marker' = [marker EXCEPT ![job[p].root] = \A x \in Items : job[p].cache[x] = None]
  /\ Makes(job[p].root)
  /\ Becomes(p, Idle)
  /\ UNCHANGED <<held, registry, projects, starts, faults, excused>>
Mark(p) ==
  /\ job[p].kind = "put" /\ job[p].left = {}
  /\ marker' = [marker EXCEPT ![job[p].root] = TRUE]
  /\ Makes(job[p].root)
  /\ Becomes(p, Idle)
  /\ UNCHANGED <<held, registry, projects, starts, faults, excused>>

-----------------------------------------------------------------------------

\* The process is killed, or a write of its fails, after its directories were made or
\* before.
Crash(p) ==
  /\ job[p] # Idle /\ faults < MaxFaults /\ faults' = faults + 1
  /\ Becomes(p, Idle)
  /\ \/ /\ cut' = (cut \/ (job[p].kind = "move" /\ made = "admin"))
        /\ UNCHANGED made
     \/ job[p].kind \in {"enlist", "add", "put"} /\ Makes(job[p].root)
  /\ excused' = IF job[p].kind = "put" THEN excused \cup {job[p].root} ELSE excused
  /\ UNCHANGED <<held, registry, projects, marker, starts>>

\* The server is told to stop.
Stop ==
  /\ job["server"].kind = "serving"
  /\ Becomes("server", Idle)
  /\ UNCHANGED <<disk, starts, faults, cut, excused>>

Next ==
  \/ StartServer \/ MakeDir \/ Rename \/ MoveDone \/ Stop
  \/ \E p \in Commands, goal \in {"add", "tz"} : StartCommand(p, goal)
  \/ \E p \in Procs :
       Open(p) \/ Unlist(p) \/ Enlist(p) \/ Add(p) \/ Scan(p) \/ Abort(p) \/ Put(p) \/ Mark(p) \/ Crash(p)

Spec == Init /\ [][Next]_vars

-----------------------------------------------------------------------------

\* The server serves whatever there was before it first came up, no matter which
\* commands ran meanwhile, unless a move was cut short, or a command made users/admin
\* after a server that got no further than users/ (paths.rs:50, 96): then what was not
\* moved stays behind, as the next start takes the move for done (paths.rs:45).
ServesAll ==
  job["server"].kind = "serving" /\ ~cut => \A x \in Given : held["admin"][x] # None

\* "Re-running is a true no-op" (main.rs:229): a stamp is shifted once at most, and
\* once where the marker stands; unless the command was stopped in the middle, ran
\* twice at once, or the vault was moved when it was at work or done.
ShiftedOnce ==
  \A r \in Roots \ excused, x \in Given :
    held[r][x] # None => held[r][x] <= 1 /\ (marker[r] => held[r][x] = 1)
=============================================================================
