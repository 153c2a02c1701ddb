------------------------------- MODULE Notifier -------------------------------
(***************************************************************************)
(* The reminders that an open page shows (web/src/lib/notify.ts): every    *)
(* minute it looks through an agenda it has fetched before, or fetches it, *)
(* and shows what has come due of late and is not in its ledger.  What it  *)
(* fetches is the agenda of the next two days, not the reminders of them.  *)
(* Times are minutes; an item of the agenda has one reminder.              *)
(***************************************************************************)
EXTENDS Integers

CONSTANTS
  Items,
  Entries,   \* what an item may be: when its reminder is due (at), and the time it
             \* takes, [from, to); a task takes the minute of its calendar_date
  Ahead,     \* how far ahead the agenda is fetched, two days
  Ttl,       \* AGENDA_TTL_MS
  Late,      \* LATE_MS
  None,
  MaxTime,
  MaxActs    \* bound on edits, sign-outs and requests that fail or are slow

VARIABLES
  now,
  agenda,   \* the server's
  cache,    \* agendaCache
  asking,   \* the ticks that await the agenda
  fired,    \* the ledger, mgmt:notified
  acts,
  since,    \* history: since when every reminder is as it is
  seen      \* history: what was ever shown

vars == <<now, agenda, cache, asking, fired, acts, since, seen>>

Agendas == [Items -> Entries \cup {None}]
Tick(t) == [at |-> t, due |-> None]

Init ==
  /\ now = 0
  /\ agenda \in Agendas
  /\ cache = None
  /\ asking = {Tick(0)}
  /\ fired = {} /\ acts = 0
  /\ since = [i \in Items |-> 0]
  /\ seen = {}

Act == acts < MaxActs /\ acts' = acts + 1

\* A mistake: a reminder that did not come due within the last minute is left.
DueInTheMinute(due, at) ==
  {<<i, due[i].at>> : i \in {j \in Items : due[j] # None /\ due[j].at <= at /\ due[j].at > at - 1}}

Due(due, at) ==
  {<<i, due[i].at>> :
     i \in {j \in Items : due[j] # None /\ due[j].at <= at /\ due[j].at > at - Late}}

\* fireOnce, for everything a tick finds.
Fires(keys) ==
  /\ fired' = fired \cup keys
  /\ seen' = seen \cup (keys \ fired)

\* A request that takes longer than a minute counts as an act.
Minute ==
  /\ now < MaxTime /\ now' = now + 1
  /\ IF asking = {} THEN UNCHANGED acts ELSE Act
  /\ IF cache # None /\ now' - cache.at < Ttl
     THEN Fires(Due(cache.due, now')) /\ UNCHANGED asking
     ELSE asking' = asking \cup {Tick(now')} /\ UNCHANGED <<fired, seen>>
  /\ UNCHANGED <<agenda, cache, since>>

\* What the agenda of [at - Late, at + Ahead) has of an item.
Fetched(e, at) == IF e # None /\ e.from < at + Ahead /\ e.to > at - Late THEN e ELSE None

Answer(a) ==
  /\ a.due = None
  /\ asking' = (asking \ {a}) \cup
                {[a EXCEPT !.due = [i \in Items |-> Fetched(agenda[i], a.at)]]}
  /\ UNCHANGED <<now, agenda, cache, fired, acts, since, seen>>

\* The agenda is kept as of the tick that asked for it.
Land(a) ==
  /\ a.due # None
  /\ asking' = asking \ {a}
  /\ cache' = [at |-> a.at, due |-> a.due]
  /\ Fires(Due(a.due, a.at))
  /\ UNCHANGED <<now, agenda, acts, since>>

Fail(a) ==
  /\ Act
  /\ asking' = asking \ {a}
  /\ UNCHANGED <<now, agenda, cache, fired, since, seen>>

Edit(i, e) ==
  /\ agenda[i] # e /\ Act
  /\ agenda' = [agenda EXCEPT ![i] = e]
  /\ since' = [since EXCEPT ![i] = now]
  /\ UNCHANGED <<now, cache, asking, fired, seen>>

\* invalidateNotifier: a mutation, a ping of the stream, a visit.
Invalidate ==
  /\ cache # None /\ cache' = None
  /\ UNCHANGED <<now, agenda, asking, fired, acts, since, seen>>

\* clearCache takes the ledger too, whose key begins with "mgmt:"; signing in
\* again invalidates.
SignOutAndIn ==
  /\ Act
  /\ fired' = {} /\ cache' = None
  /\ UNCHANGED <<now, agenda, asking, since, seen>>

Next ==
  \/ Minute \/ Invalidate \/ SignOutAndIn
  \/ \E a \in asking : Answer(a) \/ Land(a) \/ Fail(a)
  \/ \E i \in Items, e \in Entries \cup {None} : Edit(i, e)

Spec == Init /\ [][Next]_vars

-----------------------------------------------------------------------------
\* The age that an agenda may have, and the minutes that requests may take or waste,
\* come to less than the time by which a reminder may be late.
InTime ==
  /\ None \notin Entries
  /\ \A e \in Entries : e.at \in Int /\ e.from \in Int /\ e.to \in Int
  /\ Ahead \in Nat /\ Ttl \in Nat \ {0} /\ Late \in Nat /\ MaxActs \in Nat
  /\ MaxActs + Ttl < Late

TypeOK ==
  /\ agenda \in Agendas
  /\ cache = None \/ (cache.due \in Agendas /\ cache.at \in 0..now)
  /\ \A a \in asking : a.at \in 0..now /\ (a.due = None \/ a.due \in Agendas)
  /\ fired \subseteq seen

\* An item begins less than `Ahead` after its reminder, and is not over when that comes
\* due.  The agenda is fetched by the times of its items (notify.ts:222): a reminder of
\* more than two days before an event is not fetched when it comes due, nor is an alarm
\* of an event that has been over for ten minutes.
InReach(e) == e.from < e.at + Ahead /\ e.to >= e.at

\* "Fire anything that came due in the last 10 minutes" (notify.ts:15): a
\* reminder in reach that stood in the agenda when it came due is shown by then,
\* though the agenda may be old by the five minutes it is kept and was asked for
\* before an invalidation, and a request or two failed or was slow.
NothingMissed ==
  \A i \in Items :
    /\ agenda[i] # None /\ InReach(agenda[i])
    /\ since[i] <= agenda[i].at /\ now >= agenda[i].at + Late
    => <<i, agenda[i].at>> \in seen
=============================================================================
