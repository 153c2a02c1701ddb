-------------------------------- MODULE Feeds --------------------------------
(***************************************************************************)
(* calendars.yaml, which holds the feed tokens and the subscriptions of    *)
(* the calendars (calendars.rs), the admin requests that change it         *)
(* (feed.rs), and the refreshes that replace a subscribed calendar with    *)
(* what its source serves (ics.rs), by a request or by the daemon.  The    *)
(* file and the directories have no lock: a request loads the file,        *)
(* changes its copy and saves it, and a refresh deletes what is there      *)
(* before it writes the new events one by one.                             *)
(***************************************************************************)
EXTENDS Integers, Sequences, FiniteSets

CONSTANTS
  None,
  Clients,            \* requests under way; the daemon is one process more
  Cals,
  Documents,          \* what the source serves, version by version: sets of events
  RefreshEvery,       \* in rounds of the daemon
  MaxActs, MaxFaults, MaxRounds   \* bounds on requests, on failures and crashes, on rounds

ASSUME FeedsAssumption ==
  /\ Documents \in Seq(SUBSET UNION {Documents[i] : i \in DOMAIN Documents})
  /\ Documents # <<>> /\ RefreshEvery \in Nat \ {0}
  /\ MaxActs \in Nat /\ MaxFaults \in Nat /\ MaxRounds \in Nat
  /\ "daemon" \notin Clients /\ None \notin Nat

Procs == Clients \cup {"daemon"}
Events == UNION {Documents[i] : i \in DOMAIN Documents}
Versions == 1..Len(Documents)
Option(S) == S \cup {None}
ASSUME NoneIsNoMirror == \A D \in SUBSET (Events \X Versions) : None # D

\* A calendar's entry in the file; the events in a directory, each with the
\* version it was written in.
Entry == [sub : BOOLEAN, token : Option(Nat)]
Document(v) == {<<e, v>> : e \in Documents[v]}

VARIABLES
  yaml,      \* calendars.yaml
  dir,       \* a calendar's directory: its events, or None
  served,    \* the version that the source serves
  minted,    \* feed tokens so far
  since,     \* the daemon's subs_since
  todo,      \* the subscriptions that this round of the daemon still looks at
  job,       \* the locals of a request, or of the daemon's refresh
  acts, faults, rounds,
  \* history: tokens somebody took back; those that a copy loaded before brought
  \* back; calendars whose refresh failed or met another one or an unsubscription
  revoked, undead, torn

file == <<yaml, minted>>
daemon == <<since, todo, rounds>>
vars == <<file, dir, served, daemon, job, acts, faults, revoked, undead, torn>>

Idle == [kind |-> "idle"]

Init ==
  /\ yaml = [c \in Cals |-> None] /\ dir = [c \in Cals |-> None]
  /\ served = 1 /\ minted = 0
  /\ since = [c \in Cals |-> RefreshEvery] /\ todo = {}
  /\ job = [p \in Procs |-> Idle]
  /\ acts = 0 /\ faults = 0 /\ rounds = 0
  /\ revoked = {} /\ undead = {} /\ torn = {}

Fault == faults < MaxFaults /\ faults' = faults + 1
Acts == acts < MaxActs /\ acts' = acts + 1
Becomes(p, j) == job' = [job EXCEPT ![p] = j]

-----------------------------------------------------------------------------
(* Requests on the file. *)

EntryOf(y, c) == IF y[c] = None THEN [sub |-> FALSE, token |-> None] ELSE y[c]
TokenOf(y, c) == EntryOf(y, c).token
Subscribed(y, c) == EntryOf(y, c).sub
Tokens(y) == {TokenOf(y, c) : c \in Cals} \ {None}

\* unsubscribe and refresh_now refuse a calendar that is not a subscription.
Load(p, kind, c) ==
  /\ job[p] = Idle /\ Acts
  /\ kind \in {"unsubscribe", "refresh"} => Subscribed(yaml, c)
  /\ Becomes(p, IF kind = "refresh" THEN [kind |-> "fetch", cal |-> c]
                ELSE [kind |-> kind, cal |-> c, copy |-> yaml, gone |-> revoked])
  /\ UNCHANGED <<file, dir, served, daemon, faults, revoked, undead, torn>>

\* The copy is saved with `entry` for its calendar; whoever takes the calendar's
\* token back or replaces it has revoked the one in his copy and the one in the file.
Save(p, entry, revokes) ==
  LET c == job[p].cal
      y == [job[p].copy EXCEPT ![c] = entry]
  IN
  /\ yaml' = y
  /\ revoked' = IF revokes
                THEN revoked \cup ({TokenOf(job[p].copy, c), TokenOf(yaml, c)} \ {None})
                ELSE revoked
  /\ undead' = undead \cup (Tokens(y) \cap (revoked \ job[p].gone))

MintFeed(p) ==
  /\ job[p].kind = "mint"
  /\ Save(p, [EntryOf(job[p].copy, job[p].cal) EXCEPT !.token = minted + 1], TRUE)
  /\ minted' = minted + 1
  /\ Becomes(p, Idle)
  /\ UNCHANGED <<dir, served, daemon, acts, faults, torn>>

\* A mistake: the token is left out of the answer and stays in the file.
RevokeAnswer(p) ==
  /\ job[p].kind = "revoke"
  /\ Save(p, EntryOf(job[p].copy, job[p].cal), TRUE)
  /\ Becomes(p, Idle)
  /\ UNCHANGED <<minted, dir, served, daemon, acts, faults, torn>>

RevokeFeed(p) ==
  /\ job[p].kind = "revoke"
  /\ Save(p, [EntryOf(job[p].copy, job[p].cal) EXCEPT !.token = None], TRUE)
  /\ Becomes(p, Idle)
  /\ UNCHANGED <<minted, dir, served, daemon, acts, faults, torn>>

Subscribe(p) ==
  /\ job[p].kind = "subscribe"
  /\ Save(p, [EntryOf(job[p].copy, job[p].cal) EXCEPT !.sub = TRUE], FALSE)
  /\ Becomes(p, [kind |-> "fetch", cal |-> job[p].cal])
  /\ UNCHANGED <<minted, dir, served, daemon, acts, faults, torn>>

\* The calendar's entry goes, and its token with it.
Unsubscribe(p) ==
  /\ job[p].kind = "unsubscribe"
  /\ Save(p, None, TRUE)
  /\ Becomes(p, [kind |-> "drop", cal |-> job[p].cal])
  /\ UNCHANGED <<minted, dir, served, daemon, acts, faults, torn>>

\* The save, which renames a temporary file, fails: the file stays as it was.
SaveFails(p) ==
  /\ job[p].kind \in {"mint", "revoke", "subscribe", "unsubscribe"} /\ Fault
  /\ Becomes(p, Idle)
  /\ UNCHANGED <<file, dir, served, daemon, acts, revoked, undead, torn>>

-----------------------------------------------------------------------------
(* The mirrors. *)

\* Another process is replacing the events of c.
Met(p, c) == \E q \in Procs \ {p} : job[q].kind = "write" /\ job[q].cal = c

Drop(p) ==
  LET c == job[p].cal IN
  /\ job[p].kind = "drop"
  /\ dir' = [dir EXCEPT ![c] = None]
  /\ torn' = IF Met(p, c) THEN torn \cup {c} ELSE torn \ {c}
  /\ Becomes(p, Idle)
  /\ UNCHANGED <<file, served, daemon, acts, faults, revoked, undead>>

\* fetch_ics: the source is down or serves what does not parse: nothing is changed.
FetchFails(p) ==
  /\ job[p].kind = "fetch" /\ Fault
  /\ Becomes(p, Idle)
  /\ UNCHANGED <<file, dir, served, daemon, acts, revoked, undead, torn>>

Fetch(p) ==
  /\ job[p].kind = "fetch"
  /\ Becomes(p, [kind |-> "clear", cal |-> job[p].cal, version |-> served,
                 left |-> Documents[served]])
  /\ UNCHANGED <<file, dir, served, daemon, acts, faults, revoked, undead, torn>>

Writes(p) == Becomes(p, [job[p] EXCEPT !.kind = "write"])

\* A mistake: the events that the source serves no more are left.
ClearNothing(p) ==
  LET c == job[p].cal IN
  /\ job[p].kind = "clear"
  /\ dir' = [dir EXCEPT ![c] = IF @ = None THEN {} ELSE @]
  /\ torn' = IF Met(p, c) THEN torn \cup {c} ELSE torn \ {c}
  /\ Writes(p)
  /\ UNCHANGED <<file, served, daemon, acts, faults, revoked, undead>>

\* ensure_collection, and every event that is there is deleted.
Clear(p) ==
  LET c == job[p].cal IN
  /\ job[p].kind = "clear"
  /\ dir' = [dir EXCEPT ![c] = {}]
  /\ torn' = IF Met(p, c) THEN torn \cup {c} ELSE torn \ {c}
  /\ Writes(p)
  /\ UNCHANGED <<file, served, daemon, acts, faults, revoked, undead>>

\* upsert: the event's file is replaced, in a directory that is made if need be.
Write(p, e) ==
  LET c == job[p].cal
      held == IF dir[c] = None THEN {} ELSE dir[c]
  IN
  /\ job[p].kind = "write" /\ e \in job[p].left
  /\ dir' = [dir EXCEPT ![c] = {f \in held : f[1] # e} \cup {<<e, job[p].version>>}]
  /\ Becomes(p, [job[p] EXCEPT !.left = @ \ {e}])
  /\ UNCHANGED <<file, served, daemon, acts, faults, revoked, undead, torn>>

RefreshDone(p) ==
  /\ job[p].kind = "write" /\ job[p].left = {}
  /\ Becomes(p, Idle)
  /\ UNCHANGED <<file, dir, served, daemon, acts, faults, revoked, undead, torn>>

\* The refresh stops in the middle: a file cannot be deleted or written, or the
\* process dies.  Any of the old events may be gone, and some of the new are there.
RefreshFails(p) ==
  LET c == job[p].cal IN
  /\ job[p].kind \in {"clear", "write"} /\ Fault
  /\ IF job[p].kind = "clear" /\ dir[c] # None
     THEN \E rest \in SUBSET dir[c] : dir' = [dir EXCEPT ![c] = rest]
     ELSE UNCHANGED dir
  /\ torn' = torn \cup {c}
  /\ Becomes(p, Idle)
  /\ UNCHANGED <<file, served, daemon, acts, revoked, undead>>

-----------------------------------------------------------------------------
(* The daemon: refresh_subscriptions, once a round. *)

Round ==
  /\ todo = {} /\ job["daemon"] = Idle /\ rounds < MaxRounds
  /\ todo' = {c \in Cals : Subscribed(yaml, c)}
  /\ rounds' = rounds + 1
  /\ UNCHANGED <<file, dir, served, since, job, acts, faults, revoked, undead, torn>>

\* A calendar that was not seen yet is due at once; the counter does not overflow.
Due(c) == since[c] + 1 >= RefreshEvery

\* A mistake: the counter goes on when the calendar is refreshed.
LookOn(c) ==
  /\ c \in todo /\ job["daemon"] = Idle
  /\ todo' = todo \ {c}
  /\ since' = [since EXCEPT ![c] = @ + 1]
  /\ IF Due(c) THEN Becomes("daemon", [kind |-> "fetch", cal |-> c]) ELSE UNCHANGED job
  /\ UNCHANGED <<file, dir, served, rounds, acts, faults, revoked, undead, torn>>

Look(c) ==
  /\ c \in todo /\ job["daemon"] = Idle
  /\ todo' = todo \ {c}
  /\ IF Due(c)
     THEN since' = [since EXCEPT ![c] = 0] /\ Becomes("daemon", [kind |-> "fetch", cal |-> c])
     ELSE since' = [since EXCEPT ![c] = @ + 1] /\ UNCHANGED job
  /\ UNCHANGED <<file, dir, served, rounds, acts, faults, revoked, undead, torn>>

DaemonRestarts ==
  /\ Fault
  /\ since' = [c \in Cals |-> RefreshEvery] /\ todo' = {}
  /\ torn' = IF job["daemon"].kind = "write" THEN torn \cup {job["daemon"].cal} ELSE torn
  /\ Becomes("daemon", Idle)
  /\ UNCHANGED <<file, dir, served, rounds, acts, revoked, undead>>

\* The source changes its calendar.
Publish ==
  /\ served < Len(Documents) /\ served' = served + 1
  /\ UNCHANGED <<file, dir, daemon, job, acts, faults, revoked, undead, torn>>

-----------------------------------------------------------------------------
Kinds == {"mint", "revoke", "subscribe", "unsubscribe", "refresh"}

Step(p) ==
  \/ MintFeed(p) \/ RevokeFeed(p) \/ Subscribe(p) \/ Unsubscribe(p) \/ SaveFails(p)
  \/ Drop(p) \/ Fetch(p) \/ FetchFails(p) \/ Clear(p) \/ RefreshDone(p) \/ RefreshFails(p)
  \/ \E e \in Events : job[p].kind = "write" /\ Write(p, e)

Next ==
  \/ Round \/ DaemonRestarts \/ Publish
  \/ \E c \in Cals : Look(c)
  \/ \E p \in Clients, kind \in Kinds, c \in Cals : Load(p, kind, c)
  \/ \E p \in Procs : Step(p)

Spec == Init /\ [][Next]_vars

-----------------------------------------------------------------------------
Job ==
  {Idle} \cup [kind : {"fetch", "drop"}, cal : Cals]
  \cup [kind : {"mint", "revoke", "subscribe", "unsubscribe"}, cal : Cals,
        copy : [Cals -> Option(Entry)], gone : SUBSET Nat]
  \cup [kind : {"clear", "write"}, cal : Cals, version : Versions, left : SUBSET Events]

\* Types; no two calendars share a token, in the file or in a copy of it, and the
\* daemon only ever refreshes.
TypeOK ==
  /\ yaml \in [Cals -> Option(Entry)] /\ minted \in Nat
  /\ dir \in [Cals -> Option(SUBSET (Events \X Versions))]
  /\ served \in Versions
  /\ since \in [Cals -> 0..RefreshEvery] /\ todo \subseteq Cals
  /\ job \in [Procs -> Job]
  /\ job["daemon"].kind \in {"idle", "fetch", "clear", "write"}
  /\ acts \in 0..MaxActs /\ faults \in 0..MaxFaults /\ rounds \in 0..MaxRounds
  /\ revoked \subseteq 1..minted /\ undead \subseteq revoked /\ torn \subseteq Cals
  /\ \A c, d \in Cals : c # d /\ TokenOf(yaml, c) # None => TokenOf(yaml, c) # TokenOf(yaml, d)

\* "Revoke the token; the old URL 404s immediately" (feed.rs:164): a token that was
\* revoked, replaced, or went with its subscription serves nothing ever again, unless
\* a request that had loaded the file before saved its copy over the revocation.
RevokedStays == Tokens(yaml) \cap revoked \subseteq undead

TokensSafe == TypeOK /\ RevokedStays

\* A mirror that nobody is refreshing is one whole version of the source, never a
\* mixture of two and never a part of one, unless its last refresh stopped in the
\* middle or another refresh or an unsubscription ran through it.
MirrorWhole ==
  \A c \in Cals :
    dir[c] # None /\ c \notin torn /\ (\A p \in Procs : ~(job[p].kind = "write" /\ job[p].cal = c))
      => \E v \in 1..served : dir[c] = Document(v)
=============================================================================
