---------------------------- MODULE Upkeep_proofs ----------------------------
(***************************************************************************)
(* What works on the data root without a lock, for any number of processes.*)
(* Feeds: a token that was taken back serves nothing any more, unless a    *)
(* request that had loaded the file before saves its copy over it; and a   *)
(* mirror that nobody is refreshing is one whole version of its source.    *)
(* The invariant is about what the requests hold between their steps: the  *)
(* copies of the file, and the events still to be written.                 *)
(* Migrations: a stamp is shifted once, and the server serves what there   *)
(* was.  The invariant is about the one process of migrate-tz in a root,   *)
(* and about the directories that the server has still to move.            *)
(* Daemon and Notifier: what the daemon shows it shows once, and a page    *)
(* shows every reminder in time.  The invariants are about the marks of    *)
(* what has fired, about the phase that runs and the copies of it, and     *)
(* about the minutes that a page has lost to its requests.                 *)
(***************************************************************************)
EXTENDS Upkeep, Reminders, TLAPS

\* A request that has loaded the file and will save its copy.
Saving(p) == job[p].kind \in {"mint", "revoke", "subscribe", "unsubscribe"}

\* The file and the copies of it.
Docs == {yaml} \cup {job[p].copy : p \in {q \in Procs : Saving(q)}}

\* A token is the token of one calendar only, in whichever copies it is.
OneEach == \A y, z \in Docs : \A c, d \in Cals :
  TokenOf(y, c) # None /\ TokenOf(y, c) = TokenOf(z, d) => c = d

Minted == \A y \in Docs : \A c \in Cals : TokenOf(y, c) # None => TokenOf(y, c) \in 1..minted

\* A copy has no token that had been revoked when it was loaded, but one that was
\* brought back before.
CopiesSafe ==
  \A p \in Procs : Saving(p) =>
    /\ job[p].gone \subseteq revoked
    /\ \A c \in Cals : TokenOf(job[p].copy, c) \in job[p].gone =>
                          TokenOf(job[p].copy, c) \in undead

FileTypes ==
  /\ yaml \in [Cals -> Option(Entry)] /\ minted \in Nat
  /\ revoked \subseteq 1..minted /\ undead \subseteq revoked
DirTypes ==
  /\ dir \in [Cals -> Option(SUBSET (Events \X Versions))]
  /\ served \in Versions /\ torn \subseteq Cals
JobTypes ==
  job \in [Procs -> Job] /\ job["daemon"].kind \in {"idle", "fetch", "clear", "write"}
CountTypes ==
  /\ since \in [Cals -> 0..RefreshEvery] /\ todo \subseteq Cals
  /\ acts \in 0..MaxActs /\ faults \in 0..MaxFaults /\ rounds \in 0..MaxRounds

Types == FileTypes /\ DirTypes /\ JobTypes /\ CountTypes
TInv == Types /\ OneEach /\ Minted /\ CopiesSafe /\ RevokedStays

-----------------------------------------------------------------------------
(* What a job holds. *)

LEMMA JobFacts ==
  ASSUME JobTypes, NEW p \in Procs
  PROVE  /\ Saving(p) => /\ job[p].cal \in Cals /\ job[p].gone \subseteq Nat
                         /\ job[p].copy \in [Cals -> Option(Entry)]
         /\ job[p].kind \in {"fetch", "drop"} => job[p].cal \in Cals
         /\ job[p].kind \in {"clear", "write"} =>
              /\ job[p].cal \in Cals /\ job[p].version \in Versions
              /\ job[p].left \subseteq Events
              /\ job[p] \in [kind : {"clear", "write"}, cal : Cals, version : Versions,
                             left : SUBSET Events]
         /\ job[p] = Idle \/ job[p].kind # "idle"
  <1>1. job[p] \in Job
    BY DEF JobTypes
  <1>2. CASE job[p] = Idle
    BY <1>2 DEF Idle, Saving
  <1>3. CASE job[p] \in [kind : {"fetch", "drop"}, cal : Cals]
    BY <1>3 DEF Saving
  <1>4. CASE job[p] \in [kind : {"mint", "revoke", "subscribe", "unsubscribe"}, cal : Cals,
                         copy : [Cals -> Option(Entry)], gone : SUBSET Nat]
    BY <1>4 DEF Saving
  <1>5. CASE job[p] \in [kind : {"clear", "write"}, cal : Cals, version : Versions,
                         left : SUBSET Events]
    BY <1>5 DEF Saving
  <1>6. QED
    BY <1>1, <1>2, <1>3, <1>4, <1>5 DEF Job

\* A job that is changed is that of one process.
LEMMA BecomesOne ==
  ASSUME JobTypes, NEW p \in Procs, NEW j, Becomes(p, j)
  PROVE  job'[p] = j /\ \A q \in Procs \ {p} : job'[q] = job[q]
  BY DEF JobTypes, Becomes

LEMMA BecomesTypes ==
  ASSUME JobTypes, NEW p \in Procs, NEW j \in Job, Becomes(p, j),
         p = "daemon" => j.kind \in {"idle", "fetch", "clear", "write"}
  PROVE  JobTypes'
  BY DEF JobTypes, Becomes, Procs

\* The jobs a process can turn to.
LEMMA JobsAre ==
  /\ Idle \in Job
  /\ \A c \in Cals : [kind |-> "fetch", cal |-> c] \in Job /\ [kind |-> "drop", cal |-> c] \in Job
  /\ \A kind \in {"mint", "revoke", "subscribe", "unsubscribe"}, c \in Cals,
        y \in [Cals -> Option(Entry)], g \in SUBSET Nat :
       [kind |-> kind, cal |-> c, copy |-> y, gone |-> g] \in Job
  /\ \A kind \in {"clear", "write"}, c \in Cals, v \in Versions, l \in SUBSET Events :
       [kind |-> kind, cal |-> c, version |-> v, left |-> l] \in Job
  BY DEF Job

\* What the source serves are events.
LEMMA DocumentFacts ==
  ASSUME FeedsAssumption
  PROVE  \A v \in Versions : Documents[v] \subseteq Events
  BY DEF FeedsAssumption, Versions, Events

-----------------------------------------------------------------------------
(* Tokens. *)

LEMMA TokenTypes ==
  ASSUME NEW y \in [Cals -> Option(Entry)], NEW c \in Cals
  PROVE  /\ EntryOf(y, c) \in Entry /\ TokenOf(y, c) \in Option(Nat)
         /\ TokenOf(y, c) = EntryOf(y, c).token
  <1>1. EntryOf(y, c) \in Entry
    BY DEF EntryOf, Entry, Option
  <1>2. QED
    BY <1>1 DEF TokenOf, Entry

LEMMA DocsAre ==
  /\ yaml \in Docs
  /\ \A p \in Procs : Saving(p) => job[p].copy \in Docs
  /\ \A y \in Docs : y = yaml \/ \E p \in Procs : Saving(p) /\ y = job[p].copy
  /\ yaml' \in Docs'
  /\ \A y \in Docs' : y = yaml' \/ \E p \in Procs : Saving(p)' /\ y = job'[p].copy
  BY DEF Docs, Saving

\* Whoever saves a copy writes over the file what the copy has for the other calendars:
\* no token in it had been revoked since the copy was loaded but it is counted as
\* brought back, and the token that is revoked now is no other calendar's.
LEMMA SaveKeeps ==
  ASSUME FeedsAssumption, TInv, NEW p \in Procs, Saving(p),
         NEW e \in Option(Entry), NEW revokes \in BOOLEAN, Save(p, e, revokes),
         NEW j, Becomes(p, j), j.kind \notin {"mint", "revoke", "subscribe", "unsubscribe"},
         minted' \in {minted, minted + 1},
         \/ TokenOf(yaml', job[p].cal) = None
         \/ TokenOf(yaml', job[p].cal) = minted + 1 /\ minted' = minted + 1
         \/ TokenOf(yaml', job[p].cal) = TokenOf(job[p].copy, job[p].cal) /\ ~revokes
  PROVE  FileTypes' /\ OneEach' /\ Minted' /\ CopiesSafe' /\ RevokedStays'
  <1> DEFINE c == job[p].cal
             copy == job[p].copy
             gone == job[p].gone
             y == [copy EXCEPT ![c] = e]
             taken == {TokenOf(copy, c), TokenOf(yaml, c)} \ {None}
  <1>1. /\ yaml' = y
        /\ revoked' = (IF revokes THEN revoked \cup taken ELSE revoked)
        /\ undead' = undead \cup (Tokens(y) \cap (revoked \ gone))
    BY DEF Save
  <1>2. /\ c \in Cals /\ copy \in [Cals -> Option(Entry)] /\ gone \subseteq revoked
        /\ yaml \in [Cals -> Option(Entry)]
    BY JobFacts DEF TInv, Types, CopiesSafe, FileTypes
  <1>3. /\ y \in [Cals -> Option(Entry)]
        /\ \A d \in Cals \ {c} : TokenOf(y, d) = TokenOf(copy, d)
    BY <1>2 DEF TokenOf, EntryOf
  <1>4. copy \in Docs /\ yaml \in Docs
    BY DocsAre
  <1>5. job'[p] = j /\ \A q \in Procs \ {p} : job'[q] = job[q]
    BY BecomesOne DEF TInv, Types
  <1>6. \A q \in Procs : Saving(q)' => q # p /\ Saving(q) /\ job'[q] = job[q]
    BY <1>5 DEF Saving
  <1>7. \A x \in Docs' : x = y \/ x \in Docs
    BY <1>1, <1>6, DocsAre
  <1> HIDE DEF c, copy, gone, y, taken
  <1>8. /\ TokenOf(y, c) = None \/ (TokenOf(y, c) = minted + 1 /\ minted' = minted + 1)
           \/ (TokenOf(y, c) = TokenOf(copy, c) /\ ~revokes)
    BY <1>1 DEF c, copy
  <1>9. \A x \in Docs', d \in Cals :
           \/ TokenOf(x, d) = None
           \/ \E z \in Docs : TokenOf(z, d) = TokenOf(x, d)
           \/ d = c /\ TokenOf(x, d) = minted + 1 /\ minted' = minted + 1
    BY <1>3, <1>4, <1>7, <1>8
  <1>10. minted \in Nat /\ revoked \subseteq 1..minted /\ undead \subseteq revoked
         /\ None \notin Nat
    BY DEF TInv, Types, FileTypes, FeedsAssumption
  <1>11. \A z \in Docs, d \in Cals : TokenOf(z, d) # None =>
           TokenOf(z, d) \in 1..minted /\ TokenOf(z, d) # minted + 1
    BY <1>10 DEF TInv, Minted
  <1>12. OneEach'
    <2>1. ASSUME NEW x \in Docs', NEW z \in Docs', NEW d \in Cals, NEW b \in Cals,
                 TokenOf(x, d) # None, TokenOf(x, d) = TokenOf(z, b)
          PROVE  d = b
      <3>1. CASE \E v \in Docs : TokenOf(v, d) = TokenOf(x, d)
        <4>1. \E w \in Docs : TokenOf(w, b) = TokenOf(z, b)
          BY <1>9, <1>11, <2>1, <3>1
        <4>2. QED
          BY <2>1, <3>1, <4>1 DEF TInv, OneEach
      <3>2. CASE d = c /\ TokenOf(x, d) = minted + 1
        <4>1. \A v \in Docs : TokenOf(v, b) # TokenOf(z, b)
          BY <1>11, <2>1, <3>2
        <4>2. TokenOf(z, b) # None
          BY <2>1
        <4>3. b = c
          BY <1>9, <4>1, <4>2
        <4>4. QED
          BY <3>2, <4>3
      <3>3. QED
        BY <1>9, <2>1, <3>1, <3>2
    <2>2. QED
      BY <2>1 DEF OneEach, TokenOf, EntryOf
  <1>13. Minted'
    <2>1. \A x \in Docs', d \in Cals : TokenOf(x, d) # None => TokenOf(x, d) \in 1..minted'
      BY <1>9, <1>10, <1>11
    <2>2. QED
      BY <2>1 DEF Minted, TokenOf, EntryOf
  <1>14. taken \subseteq 1..minted
    BY <1>2, <1>4, <1>11 DEF taken
  <1>15. FileTypes'
    <2>1. yaml' \in [Cals -> Option(Entry)] /\ undead' \subseteq revoked'
      BY <1>1, <1>3, <1>10
    <2>2. minted' \in Nat /\ 1..minted \subseteq 1..minted'
      BY <1>10
    <2>3. revoked' \subseteq 1..minted
      BY <1>1, <1>10, <1>14
    <2>4. QED
      BY <2>1, <2>2, <2>3 DEF FileTypes
  <1>16. CopiesSafe'
    <2>1. revoked \subseteq revoked' /\ undead \subseteq undead'
      BY <1>1
    <2>2. ASSUME NEW q \in Procs, Saving(q)'
          PROVE  /\ job'[q].gone \subseteq revoked'
                 /\ \A d \in Cals : TokenOf(job'[q].copy, d) \in job'[q].gone =>
                                       TokenOf(job'[q].copy, d) \in undead'
      BY <1>6, <2>1, <2>2 DEF TInv, CopiesSafe
    <2>3. QED
      BY <2>2 DEF CopiesSafe, TokenOf, EntryOf
  <1>17. RevokedStays'
    <2> SUFFICES ASSUME NEW t \in Tokens(y), t \in revoked' PROVE t \in undead'
      BY <1>1 DEF RevokedStays, Tokens, TokenOf, EntryOf
    <2>1. PICK d \in Cals : t = TokenOf(y, d) /\ t # None
      BY DEF Tokens
    <2>2. CASE t \in revoked /\ t \notin gone
      BY <1>1, <2>2
    <2>3. CASE t \in revoked /\ t \in gone
      <3>1. t # minted + 1
        BY <1>10, <2>3
      <3>2. t = TokenOf(copy, d)
        BY <1>3, <1>8, <2>1, <3>1
      <3>3. t \in undead
        BY <2>3, <3>2 DEF TInv, CopiesSafe, copy, gone
      <3>4. QED
        BY <1>1, <3>3
    <2>4. CASE t \notin revoked
      <3>1. revokes /\ t \in taken
        BY <1>1, <2>4
      <3>2. d # c
        <4>1. t # minted + 1
          BY <1>10, <1>14, <3>1
        <4>2. QED
          BY <1>8, <2>1, <3>1, <4>1
      <3>3. t = TokenOf(copy, d)
        BY <1>3, <2>1, <3>2
      <3>4. t = TokenOf(copy, c) \/ t = TokenOf(yaml, c)
        BY <3>1 DEF taken
      <3>5. d = c
        BY <1>2, <1>4, <2>1, <3>3, <3>4 DEF TInv, OneEach
      <3>6. QED
        BY <3>2, <3>5
    <2>5. QED
      BY <2>2, <2>3, <2>4
  <1>18. QED
    BY <1>12, <1>13, <1>15, <1>16, <1>17

-----------------------------------------------------------------------------
(* Every step keeps the types and the tokens. *)

Tokened == FileTypes /\ OneEach /\ Minted /\ CopiesSafe /\ RevokedStays

LEMMA TInvIs ==
  /\ TInv <=> Tokened /\ DirTypes /\ JobTypes /\ CountTypes
  /\ TInv' <=> Tokened' /\ DirTypes' /\ JobTypes' /\ CountTypes'
  <1>1. TInv <=> Tokened /\ DirTypes /\ JobTypes /\ CountTypes
    BY DEF TInv, Types, Tokened
  <1>2. TInv' <=> Tokened' /\ DirTypes' /\ JobTypes' /\ CountTypes'
    BY DEF TInv, Types, Tokened
  <1>3. QED
    BY <1>1, <1>2

\* What is left alone stays typed.
LEMMA Unmoved ==
  ASSUME TInv
  PROVE  /\ UNCHANGED <<dir, served, torn>> => DirTypes'
         /\ UNCHANGED job => JobTypes'
         /\ UNCHANGED <<daemon, acts>> /\ (UNCHANGED faults \/ Fault) => CountTypes'
  <1>1. UNCHANGED <<dir, served, torn>> => DirTypes'
    BY DEF TInv, Types, DirTypes
  <1>2. UNCHANGED job => JobTypes'
    BY DEF TInv, Types, JobTypes
  <1>3. UNCHANGED <<daemon, acts>> /\ (UNCHANGED faults \/ Fault) => CountTypes'
    <2>1. UNCHANGED <<daemon, acts>> => UNCHANGED <<since, todo, rounds, acts>>
      BY DEF daemon
    <2>2. faults \in 0..MaxFaults
      BY DEF TInv, Types, CountTypes
    <2>3. UNCHANGED faults \/ Fault => faults' \in 0..MaxFaults
      <3>1. MaxFaults \in Nat
        BY FeedsAssumption DEF FeedsAssumption
      <3>2. QED
        BY <2>2, <3>1 DEF Fault
    <2>4. QED
      BY <2>1, <2>3 DEF TInv, Types, CountTypes
  <1>4. QED
    BY <1>1, <1>2, <1>3

\* Steps that load nothing and save nothing.
LEMMA TokensLeft ==
  ASSUME TInv, UNCHANGED <<file, revoked, undead>>,
         \A q \in Procs : Saving(q)' => Saving(q) /\ job'[q] = job[q]
  PROVE  Tokened'
  <1>1. UNCHANGED <<yaml, minted>>
    BY DEF file
  <1>2. \A y \in Docs' : y \in Docs
    BY <1>1, DocsAre
  <1>3. FileTypes' /\ RevokedStays'
    BY <1>1 DEF TInv, Types, FileTypes, RevokedStays, Tokens, TokenOf, EntryOf
  <1>4. OneEach'
    BY <1>2 DEF TInv, OneEach, TokenOf, EntryOf
  <1>5. Minted'
    BY <1>1, <1>2 DEF TInv, Minted, TokenOf, EntryOf
  <1>6. CopiesSafe'
    BY DEF TInv, CopiesSafe, TokenOf, EntryOf
  <1>7. QED
    BY <1>3, <1>4, <1>5, <1>6 DEF Tokened

\* A process that turns to a job of another kind saves nothing.
LEMMA TurnsAway ==
  ASSUME TInv, NEW p \in Procs, NEW j, Becomes(p, j),
         j.kind \notin {"mint", "revoke", "subscribe", "unsubscribe"}
  PROVE  \A q \in Procs : Saving(q)' => Saving(q) /\ job'[q] = job[q]
  BY BecomesOne DEF TInv, Types, Saving

LEMMA LoadKeeps ==
  ASSUME FeedsAssumption, TInv, NEW p \in Clients, NEW kind \in Kinds, NEW c \in Cals,
         Load(p, kind, c)
  PROVE  TInv'
  <1>1. /\ DirTypes' /\ UNCHANGED <<yaml, minted, revoked, undead>> /\ p \in Procs
        /\ p # "daemon"
    BY Unmoved DEF Load, file, Procs, FeedsAssumption
  <1>2. CountTypes'
    BY DEF Load, Acts, daemon, TInv, Types, CountTypes, FeedsAssumption
  <1>3. CASE kind = "refresh"
    <2>1. Becomes(p, [kind |-> "fetch", cal |-> c])
      BY <1>3 DEF Load
    <2>2. JobTypes'
      BY <1>1, <2>1, BecomesTypes, JobsAre DEF TInv, Types
    <2>3. \A q \in Procs : Saving(q)' => Saving(q) /\ job'[q] = job[q]
      BY <1>1, <2>1, TurnsAway
    <2>4. Tokened'
      BY <1>1, <2>3, TokensLeft DEF file
    <2>5. QED
      BY <1>1, <1>2, <2>2, <2>4, TInvIs
  <1>4. CASE kind # "refresh"
    <2> DEFINE j == [kind |-> kind, cal |-> c, copy |-> yaml, gone |-> revoked]
    <2>1. Becomes(p, j) /\ kind \in {"mint", "revoke", "subscribe", "unsubscribe"}
      BY <1>4 DEF Load, Kinds
    <2>2. yaml \in [Cals -> Option(Entry)] /\ revoked \in SUBSET Nat
      BY DEF TInv, Types, FileTypes
    <2>3. j \in Job
      BY <2>1, <2>2, JobsAre
    <2>4. j.copy = yaml /\ j.gone = revoked
      OBVIOUS
    <2> HIDE DEF j
    <2>5. JobTypes'
      BY <1>1, <2>1, <2>3, BecomesTypes DEF TInv, Types
    <2>6. job'[p] = j /\ \A q \in Procs \ {p} : job'[q] = job[q]
      BY <1>1, <2>1, BecomesOne DEF TInv, Types
    <2>7. \A q \in Procs \ {p} : Saving(q)' => Saving(q) /\ job'[q] = job[q]
      BY <2>6 DEF Saving
    <2>8. \A y \in Docs' : y \in Docs
      BY <1>1, <2>4, <2>6, <2>7, DocsAre
    <2>9. FileTypes' /\ RevokedStays'
      BY <1>1 DEF TInv, Types, FileTypes, RevokedStays, Tokens, TokenOf, EntryOf
    <2>10. OneEach' /\ Minted'
      BY <1>1, <2>8 DEF TInv, OneEach, Minted, TokenOf, EntryOf
    <2>11. CopiesSafe'
      <3>1. \A d \in Cals : TokenOf(yaml, d) \in revoked => TokenOf(yaml, d) \in undead
        <4>1. \A n \in revoked : n # None
          BY <2>2 DEF FeedsAssumption
        <4>2. QED
          BY <4>1 DEF TInv, RevokedStays, Tokens
      <3>2. \A d \in Cals : TokenOf(j.copy, d) \in j.gone => TokenOf(j.copy, d) \in undead
        BY <2>4, <3>1
      <3>3. \A q \in Procs \ {p} : Saving(q)' =>
              /\ job[q].gone \subseteq revoked
              /\ \A d \in Cals : TokenOf(job[q].copy, d) \in job[q].gone =>
                                    TokenOf(job[q].copy, d) \in undead
        BY <2>7 DEF TInv, CopiesSafe
      <3>4. QED
        BY <1>1, <2>4, <2>6, <3>2, <3>3 DEF CopiesSafe, TokenOf, EntryOf
    <2>12. QED
      BY <1>1, <1>2, <2>5, <2>9, <2>10, <2>11, TInvIs DEF Tokened
  <1>5. QED
    BY <1>3, <1>4

\* The requests that save.
LEMMA SavingKeeps ==
  ASSUME FeedsAssumption, TInv, NEW p \in Procs,
         MintFeed(p) \/ RevokeFeed(p) \/ Subscribe(p) \/ Unsubscribe(p)
  PROVE  TInv'
  <1> DEFINE c == job[p].cal
             copy == job[p].copy
  <1>1. Saving(p) /\ c \in Cals /\ copy \in [Cals -> Option(Entry)] /\ p # "daemon"
    <2>1. Saving(p)
      BY DEF MintFeed, RevokeFeed, Subscribe, Unsubscribe, Saving
    <2>2. QED
      BY <2>1, JobFacts DEF TInv, Types, JobTypes, Saving
  <1>2. EntryOf(copy, c) \in Entry
    BY <1>1, TokenTypes
  <1>3. DirTypes' /\ CountTypes'
    BY Unmoved DEF MintFeed, RevokeFeed, Subscribe, Unsubscribe
  <1>4. minted \in Nat
    BY DEF TInv, Types, FileTypes
  <1>5. \A e \in Option(Entry), revokes \in BOOLEAN :
          Save(p, e, revokes) =>
            /\ yaml' = [copy EXCEPT ![c] = e]
            /\ TokenOf(yaml', c) = IF e = None THEN None ELSE e.token
    <2>1. \A e : [copy EXCEPT ![c] = e][c] = e
      BY <1>1
    <2>2. QED
      BY <2>1 DEF Save, TokenOf, EntryOf
  <1>6. \A j : Becomes(p, j) /\ j \in Job => JobTypes'
    BY <1>1, BecomesTypes DEF TInv, Types
  <1>7. CASE MintFeed(p)
    <2> DEFINE e == [EntryOf(copy, c) EXCEPT !.token = minted + 1]
    <2>1. Save(p, e, TRUE) /\ minted' = minted + 1 /\ Becomes(p, Idle)
      BY <1>7 DEF MintFeed
    <2>2. e \in Entry /\ e.token = minted + 1
      BY <1>2, <1>4 DEF Entry, Option
    <2> HIDE DEF e
    <2>3. TokenOf(yaml', c) = None \/ TokenOf(yaml', c) = minted + 1
      BY <1>5, <2>1, <2>2 DEF Option
    <2>4. Tokened'
      <3>1. Idle.kind \notin {"mint", "revoke", "subscribe", "unsubscribe"}
        BY DEF Idle
      <3>2. e \in Option(Entry) /\ TRUE \in BOOLEAN /\ minted' \in {minted, minted + 1}
        BY <2>1, <2>2 DEF Option
      <3>3. QED
        BY <1>1, <2>1, <2>3, <3>1, <3>2, SaveKeeps DEF Tokened
    <2>5. JobTypes'
      BY <1>6, <2>1, JobsAre
    <2>6. QED
      BY <1>3, <2>4, <2>5, TInvIs
  <1>8. CASE RevokeFeed(p)
    <2> DEFINE e == [EntryOf(copy, c) EXCEPT !.token = None]
    <2>1. Save(p, e, TRUE) /\ minted' = minted /\ Becomes(p, Idle)
      BY <1>8 DEF RevokeFeed
    <2>2. e \in Entry /\ e.token = None
      BY <1>2 DEF Entry, Option
    <2> HIDE DEF e
    <2>3. TokenOf(yaml', c) = None
      BY <1>5, <2>1, <2>2 DEF Option
    <2>4. Tokened'
      <3>1. Idle.kind \notin {"mint", "revoke", "subscribe", "unsubscribe"}
        BY DEF Idle
      <3>2. e \in Option(Entry) /\ TRUE \in BOOLEAN /\ minted' \in {minted, minted + 1}
        BY <2>1, <2>2 DEF Option
      <3>3. QED
        BY <1>1, <2>1, <2>3, <3>1, <3>2, SaveKeeps DEF Tokened
    <2>5. JobTypes'
      BY <1>6, <2>1, JobsAre
    <2>6. QED
      BY <1>3, <2>4, <2>5, TInvIs
  <1>9. CASE Subscribe(p)
    <2> DEFINE e == [EntryOf(copy, c) EXCEPT !.sub = TRUE]
               j == [kind |-> "fetch", cal |-> c]
    <2>1. Save(p, e, FALSE) /\ minted' = minted /\ Becomes(p, j)
      BY <1>9 DEF Subscribe
    <2>2. e \in Entry /\ e.token = TokenOf(copy, c)
      BY <1>1, <1>2, TokenTypes DEF Entry
    <2>3. j \in Job /\ j.kind = "fetch"
      BY <1>1, JobsAre
    <2> HIDE DEF e, j
    <2>4. TokenOf(yaml', c) = None \/ TokenOf(yaml', c) = TokenOf(copy, c)
      BY <1>5, <2>1, <2>2 DEF Option
    <2>5. Tokened'
      <3>1. j.kind \notin {"mint", "revoke", "subscribe", "unsubscribe"}
        BY <2>3
      <3>2. e \in Option(Entry) /\ FALSE \in BOOLEAN /\ minted' \in {minted, minted + 1}
        BY <2>1, <2>2 DEF Option
      <3>3. QED
        BY <1>1, <2>1, <2>4, <3>1, <3>2, SaveKeeps DEF Tokened
    <2>6. JobTypes'
      BY <1>6, <2>1, <2>3
    <2>7. QED
      BY <1>3, <2>5, <2>6, TInvIs
  <1>10. CASE Unsubscribe(p)
    <2> DEFINE j == [kind |-> "drop", cal |-> c]
    <2>1. Save(p, None, TRUE) /\ minted' = minted /\ Becomes(p, j)
      BY <1>10 DEF Unsubscribe
    <2>2. j \in Job /\ j.kind = "drop"
      BY <1>1, JobsAre
    <2> HIDE DEF j
    <2>3. TokenOf(yaml', c) = None
      BY <1>5, <2>1 DEF Option
    <2>4. Tokened'
      <3>1. j.kind \notin {"mint", "revoke", "subscribe", "unsubscribe"}
        BY <2>2
      <3>2. None \in Option(Entry) /\ TRUE \in BOOLEAN /\ minted' \in {minted, minted + 1}
        BY <2>1 DEF Option
      <3>3. QED
        BY <1>1, <2>1, <2>3, <3>1, <3>2, SaveKeeps DEF Tokened
    <2>5. JobTypes'
      BY <1>6, <2>1, <2>2
    <2>6. QED
      BY <1>3, <2>4, <2>5, TInvIs
  <1>11. QED
    BY <1>7, <1>8, <1>9, <1>10

\* The steps that leave the tokens alone keep the types of the mirrors and of the jobs.
LEMMA SaveFailsKeeps ==
  ASSUME FeedsAssumption, TInv, NEW p \in Procs,
         SaveFails(p) \/ FetchFails(p) \/ Fetch(p) \/ RefreshDone(p)
  PROVE  TInv'
  <1>1. UNCHANGED <<file, revoked, undead>> /\ DirTypes' /\ CountTypes'
    BY Unmoved DEF SaveFails, FetchFails, Fetch, RefreshDone
  <1>2. CASE Becomes(p, Idle)
    <2>1. JobTypes'
      BY <1>2, BecomesTypes, JobsAre DEF TInv, Types, Idle
    <2>2. Tokened'
      <3>1. Idle.kind \notin {"mint", "revoke", "subscribe", "unsubscribe"}
        BY DEF Idle
      <3>2. QED
        BY <1>1, <1>2, <3>1, TurnsAway, TokensLeft
    <2>3. QED
      BY <1>1, <2>1, <2>2, TInvIs
  <1>3. CASE Fetch(p)
    <2> DEFINE j == [kind |-> "clear", cal |-> job[p].cal, version |-> served,
                     left |-> Documents[served]]
    <2>1. Becomes(p, j) /\ job[p].cal \in Cals
      BY <1>3, JobFacts DEF Fetch, TInv, Types
    <2>2. served \in Versions /\ Documents[served] \in SUBSET Events
      BY DocumentFacts DEF TInv, Types, DirTypes
    <2>3. j \in Job /\ j.kind = "clear"
      BY <2>1, <2>2, JobsAre
    <2> HIDE DEF j
    <2>4. JobTypes'
      BY <2>1, <2>3, BecomesTypes DEF TInv, Types
    <2>5. Tokened'
      <3>1. j.kind \notin {"mint", "revoke", "subscribe", "unsubscribe"}
        BY <2>3
      <3>2. QED
        BY <1>1, <2>1, <3>1, TurnsAway, TokensLeft
    <2>6. QED
      BY <1>1, <2>4, <2>5, TInvIs
  <1>4. QED
    BY <1>2, <1>3 DEF SaveFails, FetchFails, RefreshDone

LEMMA MirrorSteps ==
  ASSUME FeedsAssumption, TInv, NEW p \in Procs,
         Drop(p) \/ Clear(p) \/ RefreshFails(p) \/ \E e \in Events : Write(p, e)
  PROVE  TInv'
  <1> DEFINE c == job[p].cal
  <1>1. /\ UNCHANGED <<file, revoked, undead>> /\ CountTypes'
        /\ served' = served
    BY Unmoved DEF Drop, Clear, RefreshFails, Write
  <1>2. /\ c \in Cals /\ (job[p].kind = "write" => job[p].version \in Versions)
        /\ job[p].kind \in {"clear", "write", "drop"}
    BY JobFacts DEF Drop, Clear, RefreshFails, Write, TInv, Types
  <1>3. /\ dir \in [Cals -> Option(SUBSET (Events \X Versions))] /\ torn \subseteq Cals
        /\ served \in Versions
    BY DEF TInv, Types, DirTypes
  <1>4. DirTypes'
    <2>1. CASE Drop(p) \/ Clear(p)
      <3>1. \E d \in Option(SUBSET (Events \X Versions)) : dir' = [dir EXCEPT ![c] = d]
        BY <2>1 DEF Drop, Clear, Option
      <3>2. torn' \subseteq Cals
        BY <1>2, <1>3, <2>1 DEF Drop, Clear
      <3>3. dir' \in [Cals -> Option(SUBSET (Events \X Versions))]
        BY <1>3, <3>1
      <3>4. QED
        BY <1>1, <1>3, <3>2, <3>3 DEF DirTypes
    <2>2. CASE RefreshFails(p)
      <3>1. torn' \subseteq Cals
        BY <1>2, <1>3, <2>2 DEF RefreshFails
      <3>2. dir' \in [Cals -> Option(SUBSET (Events \X Versions))]
        <4>1. CASE dir' = dir
          BY <1>3, <4>1
        <4>2. ASSUME dir[c] # None, NEW rest \in SUBSET dir[c],
                     dir' = [dir EXCEPT ![c] = rest]
              PROVE  dir' \in [Cals -> Option(SUBSET (Events \X Versions))]
          <5>1. dir[c] \in SUBSET (Events \X Versions)
            BY <1>2, <1>3, <4>2 DEF Option
          <5>2. rest \in Option(SUBSET (Events \X Versions))
            BY <4>2, <5>1 DEF Option
          <5>3. QED
            BY <1>3, <4>2, <5>2
        <4>3. QED
          BY <2>2, <4>1, <4>2 DEF RefreshFails
      <3>3. QED
        BY <1>1, <1>3, <3>1, <3>2 DEF DirTypes
    <2>3. ASSUME NEW e \in Events, Write(p, e) PROVE DirTypes'
      <3> DEFINE owned == IF dir[c] = None THEN {} ELSE dir[c]
                 new == {f \in owned : f[1] # e} \cup {<<e, job[p].version>>}
      <3>1. owned \subseteq Events \X Versions
        BY <1>2, <1>3 DEF Option
      <3>2. <<e, job[p].version>> \in Events \X Versions
        BY <1>2, <2>3 DEF Write
      <3>3. new \in Option(SUBSET (Events \X Versions))
        BY <3>1, <3>2 DEF Option
      <3>4. dir' = [dir EXCEPT ![c] = new] /\ torn' = torn
        BY <2>3 DEF Write
      <3> HIDE DEF new
      <3>5. QED
        BY <1>1, <1>3, <3>3, <3>4 DEF DirTypes
    <2>4. QED
      BY <2>1, <2>2, <2>3
  <1>5. \E j \in Job : /\ Becomes(p, j) /\ j.kind \in {"idle", "write"}
    <2>1. CASE Drop(p) \/ RefreshFails(p)
      <3>1. Becomes(p, Idle) /\ Idle \in Job /\ Idle.kind = "idle"
        BY <2>1, JobsAre DEF Drop, RefreshFails, Idle
      <3>2. QED
        BY <3>1
    <2>2. CASE Clear(p)
      <3> DEFINE j == [job[p] EXCEPT !.kind = "write"]
      <3>1. job[p] \in [kind : {"clear", "write"}, cal : Cals, version : Versions,
                        left : SUBSET Events]
        BY <2>2, JobFacts DEF Clear, TInv, Types
      <3>2. j \in Job /\ j.kind = "write" /\ Becomes(p, j)
        BY <2>2, <3>1 DEF Clear, Writes, Job
      <3>3. QED
        BY <3>2
    <2>3. ASSUME NEW e \in Events, Write(p, e)
          PROVE  \E j \in Job : /\ Becomes(p, j) /\ j.kind \in {"idle", "write"}
      <3> DEFINE j == [job[p] EXCEPT !.left = @ \ {e}]
      <3>1. job[p] \in [kind : {"clear", "write"}, cal : Cals, version : Versions,
                        left : SUBSET Events] /\ job[p].kind = "write"
        BY <2>3, JobFacts DEF Write, TInv, Types
      <3>2. job[p].left \ {e} \in SUBSET Events
        BY <3>1
      <3>3. j \in Job /\ j.kind = "write"
        BY <3>1, <3>2 DEF Job
      <3>4. Becomes(p, j)
        BY <2>3 DEF Write
      <3>5. QED
        BY <3>3, <3>4
    <2>4. QED
      BY <2>1, <2>2, <2>3
  <1>6. PICK j \in Job : Becomes(p, j) /\ j.kind \in {"idle", "write"}
    BY <1>5
  <1>7. JobTypes'
    BY <1>6, BecomesTypes DEF TInv, Types
  <1>8. Tokened'
    <2>1. j.kind \notin {"mint", "revoke", "subscribe", "unsubscribe"}
      BY <1>6
    <2>2. QED
      BY <1>1, <1>6, <2>1, TurnsAway, TokensLeft
  <1>9. QED
    BY <1>1, <1>4, <1>7, <1>8, TInvIs

LEMMA DaemonKeeps ==
  ASSUME FeedsAssumption, TInv, Round \/ DaemonRestarts \/ Publish \/ \E c \in Cals : Look(c)
  PROVE  TInv'
  <1>1. UNCHANGED <<file, revoked, undead>> /\ "daemon" \in Procs
    BY DEF Round, DaemonRestarts, Publish, Look, Procs
  <1>2. /\ since \in [Cals -> 0..RefreshEvery] /\ todo \subseteq Cals
        /\ acts \in 0..MaxActs /\ faults \in 0..MaxFaults /\ rounds \in 0..MaxRounds
        /\ RefreshEvery \in Nat \ {0} /\ MaxRounds \in Nat /\ MaxFaults \in Nat
    BY DEF TInv, Types, CountTypes, FeedsAssumption
  <1>3. CASE Round \/ Publish
    <2>1. JobTypes' /\ Tokened'
      BY <1>1, <1>3, Unmoved, TokensLeft DEF Round, Publish, Saving
    <2>2. CountTypes'
      BY <1>2, <1>3 DEF Round, Publish, CountTypes, daemon
    <2>3. DirTypes'
      <3>1. CASE Round
        BY <3>1, Unmoved DEF Round
      <3>2. CASE Publish
        <4>1. served + 1 \in Versions
          BY <3>2 DEF Publish, TInv, Types, DirTypes, Versions, FeedsAssumption
        <4>2. QED
          BY <3>2, <4>1 DEF Publish, TInv, Types, DirTypes
      <3>3. QED
        BY <1>3, <3>1, <3>2
    <2>4. QED
      BY <2>1, <2>2, <2>3, TInvIs
  <1>4. CASE DaemonRestarts
    <2>1. Becomes("daemon", Idle)
      BY <1>4 DEF DaemonRestarts
    <2>2. JobTypes'
      BY <1>1, <2>1, BecomesTypes, JobsAre DEF TInv, Types, Idle
    <2>3. Tokened'
      <3>1. Idle.kind \notin {"mint", "revoke", "subscribe", "unsubscribe"}
        BY DEF Idle
      <3>2. QED
        BY <1>1, <2>1, <3>1, TurnsAway, TokensLeft
    <2>4. CountTypes'
      <3>1. [c \in Cals |-> RefreshEvery] \in [Cals -> 0..RefreshEvery]
        BY <1>2
      <3>2. QED
        BY <1>2, <1>4, <3>1 DEF DaemonRestarts, Fault, CountTypes
    <2>5. DirTypes'
      <3>1. job["daemon"].kind = "write" => job["daemon"].cal \in Cals
        BY <1>1, JobFacts DEF TInv, Types
      <3>2. torn' \subseteq Cals
        BY <1>4, <3>1 DEF DaemonRestarts, TInv, Types, DirTypes
      <3>3. QED
        BY <1>4, <3>2 DEF DaemonRestarts, TInv, Types, DirTypes
    <2>6. QED
      BY <2>2, <2>3, <2>4, <2>5, TInvIs
  <1>5. ASSUME NEW c \in Cals, Look(c) PROVE TInv'
    <2>1. DirTypes'
      BY <1>5, Unmoved DEF Look
    <2>2. since[c] \in 0..RefreshEvery
      BY <1>2, <1>5
    <2>3. CountTypes'
      <3>1. \E n \in 0..RefreshEvery : since' = [since EXCEPT ![c] = n]
        <4>1. CASE Due(c)
          <5>1. 0 \in 0..RefreshEvery /\ since' = [since EXCEPT ![c] = 0]
            BY <1>2, <1>5, <4>1 DEF Look
          <5>2. QED
            BY <5>1
        <4>2. CASE ~Due(c)
          <5>1. /\ since[c] + 1 \in 0..RefreshEvery
                /\ since' = [since EXCEPT ![c] = since[c] + 1]
            BY <1>2, <1>5, <2>2, <4>2 DEF Look, Due
          <5>2. QED
            BY <5>1
        <4>3. QED
          BY <4>1, <4>2
      <3>2. since' \in [Cals -> 0..RefreshEvery] /\ todo' \subseteq Cals
        BY <1>2, <1>5, <3>1 DEF Look
      <3>3. QED
        BY <1>2, <1>5, <3>2 DEF Look, CountTypes
    <2>4. CASE UNCHANGED job
      <3>1. JobTypes' /\ Tokened'
        BY <1>1, <2>4, Unmoved, TokensLeft DEF Saving
      <3>2. QED
        BY <2>1, <2>3, <3>1, TInvIs
    <2>5. CASE Becomes("daemon", [kind |-> "fetch", cal |-> c])
      <3>1. JobTypes'
        BY <1>1, <1>5, <2>5, BecomesTypes, JobsAre DEF TInv, Types
      <3>2. Tokened'
        BY <1>1, <2>5, TurnsAway, TokensLeft
      <3>3. QED
        BY <2>1, <2>3, <3>1, <3>2, TInvIs
    <2>6. QED
      BY <1>5, <2>4, <2>5 DEF Look
  <1>6. QED
    BY <1>3, <1>4, <1>5

LEMMA NextTokens ==
  ASSUME FeedsAssumption, TInv, Next
  PROVE  TInv'
  <1>1. ASSUME NEW p \in Procs, Step(p) PROVE TInv'
    <2>1. CASE MintFeed(p) \/ RevokeFeed(p) \/ Subscribe(p) \/ Unsubscribe(p)
      BY <2>1, SavingKeeps
    <2>2. CASE SaveFails(p) \/ FetchFails(p) \/ Fetch(p) \/ RefreshDone(p)
      BY <2>2, SaveFailsKeeps
    <2>3. CASE Drop(p) \/ Clear(p) \/ RefreshFails(p) \/ \E e \in Events : Write(p, e)
      BY <2>3, MirrorSteps
    <2>4. QED
      BY <1>1, <2>1, <2>2, <2>3 DEF Step
  <1>2. QED
    BY <1>1, LoadKeeps, DaemonKeeps DEF Next

LEMMA StutterTokens ==
  ASSUME TInv, UNCHANGED vars
  PROVE  TInv'
  <1>1. DirTypes' /\ JobTypes' /\ CountTypes'
    BY Unmoved DEF vars
  <1>2. Tokened'
    BY TokensLeft DEF vars, Saving
  <1>3. QED
    BY <1>1, <1>2, TInvIs

LEMMA InitTokens ==
  ASSUME FeedsAssumption, Init
  PROVE  TInv
  <1>1. \A p \in Procs : job[p] = Idle /\ ~Saving(p)
    BY DEF Init, Saving, Idle
  <1>2. \A y \in Docs, c \in Cals : TokenOf(y, c) = None
    BY <1>1, DocsAre DEF Init, TokenOf, EntryOf
  <1>3. FileTypes
    BY DEF Init, FileTypes, Option
  <1>4. DirTypes
    BY DEF Init, DirTypes, Option, Versions, FeedsAssumption
  <1>5. JobTypes
    BY JobsAre DEF Init, JobTypes, Procs, Idle
  <1>6. CountTypes
    BY DEF Init, CountTypes, FeedsAssumption
  <1>7. OneEach /\ Minted /\ CopiesSafe
    BY <1>1, <1>2 DEF OneEach, Minted, CopiesSafe
  <1>8. RevokedStays
    BY DEF Init, RevokedStays
  <1>9. QED
    BY <1>3, <1>4, <1>5, <1>6, <1>7, <1>8, TInvIs DEF Tokened

LEMMA TokensAreSafe ==
  ASSUME TInv
  PROVE  TokensSafe
  <1>1. \A c, d \in Cals : c # d /\ TokenOf(yaml, c) # None => TokenOf(yaml, c) # TokenOf(yaml, d)
    BY DocsAre DEF TInv, OneEach
  <1>2. QED
    BY <1>1 DEF TokensSafe, TypeOK, TInv, Types, FileTypes, DirTypes, JobTypes, CountTypes

\* "Revoke the token; the old URL 404s immediately", for any number of requests that load
\* and save the file without a lock: a token that was revoked, replaced, or went with its
\* subscription is in the file again only if a request that had loaded the file before
\* saved its copy over the revocation.
THEOREM TokensStayRevoked == Spec => []TokensSafe
  <1>1. Init => TInv
    BY InitTokens, FeedsAssumption
  <1>2. TInv /\ [Next]_vars => TInv'
    BY NextTokens, StutterTokens, FeedsAssumption
  <1>3. TInv => TokensSafe
    BY TokensAreSafe
  <1>4. QED
    BY <1>1, <1>2, <1>3, PTL DEF Spec

-----------------------------------------------------------------------------
(* Mirrors. *)

Writing(p, c) == job[p].kind = "write" /\ job[p].cal = c

\* What a refresh has written: all of its version but what is left.
Written(j) == {<<e, j.version>> : e \in Documents[j.version] \ j.left}

\* A refresh brings one version that the source has served.
JobsFit ==
  \A p \in Procs :
    /\ job[p].kind \in {"clear", "write"} =>
         job[p].version <= served /\ job[p].left \subseteq Documents[job[p].version]
    /\ job[p].kind = "clear" => job[p].left = Documents[job[p].version]

\* Unless something ran through it, one process writes the events of a calendar, and
\* they are those that it has written.
Alone ==
  \A p, q \in Procs, c \in Cals :
    Writing(p, c) /\ Writing(q, c) /\ c \notin torn => p = q
Partial ==
  \A p \in Procs, c \in Cals : Writing(p, c) /\ c \notin torn => dir[c] = Written(job[p])

Whole(c) ==
  dir[c] # None /\ c \notin torn /\ (\A p \in Procs : ~Writing(p, c))
    => \E v \in 1..served : dir[c] = Document(v)

MInv == JobsFit /\ Alone /\ Partial /\ \A c \in Cals : Whole(c)

LEMMA MirrorWholeIs == MirrorWhole <=> \A c \in Cals : Whole(c)
  BY DEF MirrorWhole, Whole, Writing

\* Steps that change no mirror, and after which nobody starts or stops to write.
LEMMA MirrorsLeft ==
  ASSUME MInv, UNCHANGED <<dir, torn>>, served <= served', served \in Int, served' \in Int,
         \A p \in Procs : \/ job'[p] = job[p]
                          \/ /\ job[p].kind # "write" /\ job'[p].kind # "write"
                             /\ job'[p].kind = "clear" =>
                                  /\ job'[p].version \in Int /\ job'[p].version <= served'
                                  /\ job'[p].left = Documents[job'[p].version],
         \A p \in Procs : job[p].kind \in {"clear", "write"} => job[p].version \in Int
  PROVE  MInv'
  <1>1. \A p \in Procs, c \in Cals : Writing(p, c)' <=> Writing(p, c)
    BY DEF Writing
  <1>2. \A p \in Procs, c \in Cals : Writing(p, c)' => job'[p] = job[p]
    BY DEF Writing
  <1>3. JobsFit'
    BY DEF MInv, JobsFit
  <1>4. Alone'
    BY <1>1 DEF MInv, Alone
  <1>5. Partial'
    <2>1. ASSUME NEW p \in Procs, NEW c \in Cals, Writing(p, c)', c \notin torn'
          PROVE  dir'[c] = Written(job[p])'
      BY <1>1, <1>2, <2>1 DEF MInv, Partial, Written
    <2>2. QED
      BY <2>1 DEF Partial
  <1>6. \A c \in Cals : Whole(c)'
    <2> SUFFICES ASSUME NEW c \in Cals, dir'[c] # None, c \notin torn',
                        \A p \in Procs : ~Writing(p, c)'
                 PROVE  \E v \in 1..served' : dir'[c] = Document(v)
      BY DEF Whole, Document
    <2>1. PICK v \in 1..served : dir[c] = Document(v)
      BY <1>1 DEF MInv, Whole
    <2>2. v \in 1..served'
      OBVIOUS
    <2>3. QED
      BY <2>1, <2>2
  <1>7. QED
    BY <1>3, <1>4, <1>5, <1>6 DEF MInv

\* A step of one process on the mirror of its calendar.
LEMMA MirrorAt ==
  ASSUME MInv, NEW p \in Procs, NEW c \in Cals, NEW j, job[p].cal = c,
         served' = served, job'[p] = j, \A q \in Procs \ {p} : job'[q] = job[q],
         \A d \in Cals \ {c} : dir'[d] = dir[d] /\ (d \in torn' <=> d \in torn),
         j.kind \in {"clear", "write"} =>
           j.cal = c /\ j.version <= served /\ j.left \subseteq Documents[j.version],
         j.kind # "clear",
         c \notin torn' => \A q \in Procs \ {p} : ~Writing(q, c),
         c \notin torn' /\ j.kind = "write" => dir'[c] = Written(j),
         c \notin torn' /\ j.kind # "write" /\ dir'[c] # None =>
           \E v \in 1..served : dir'[c] = Document(v)
  PROVE  MInv'
  <1>1. \A q \in Procs \ {p}, d \in Cals : Writing(q, d)' <=> Writing(q, d)
    BY DEF Writing
  <1>2. \A d \in Cals \ {c} : ~Writing(p, d) /\ ~Writing(p, d)'
    BY DEF Writing
  <1>3. Writing(p, c)' <=> j.kind = "write"
    BY DEF Writing
  <1>4. JobsFit'
    <2>1. \A q \in Procs :
            /\ job'[q].kind \in {"clear", "write"} =>
                 job'[q].version <= served /\ job'[q].left \subseteq Documents[job'[q].version]
            /\ job'[q].kind = "clear" => job'[q].left = Documents[job'[q].version]
      BY DEF MInv, JobsFit
    <2>2. QED
      BY <2>1 DEF JobsFit
  <1>5. Alone'
    <2>1. ASSUME NEW q \in Procs, NEW r \in Procs, NEW d \in Cals,
                 Writing(q, d)', Writing(r, d)', d \notin torn'
          PROVE  q = r
      <3>1. CASE d = c
        BY <1>1, <2>1, <3>1
      <3>2. CASE d # c
        BY <1>1, <1>2, <2>1, <3>2 DEF MInv, Alone
      <3>3. QED
        BY <3>1, <3>2
    <2>2. QED
      BY <2>1 DEF Alone
  <1>6. Partial'
    <2>1. ASSUME NEW q \in Procs, NEW d \in Cals, Writing(q, d)', d \notin torn'
          PROVE  dir'[d] = Written(job[q])'
      <3>1. CASE d = c
        <4>1. q = p /\ j.kind = "write"
          BY <1>1, <1>3, <2>1, <3>1
        <4>2. QED
          BY <2>1, <3>1, <4>1 DEF Written
      <3>2. CASE d # c
        <4>1. q # p /\ Writing(q, d) /\ job'[q] = job[q]
          BY <1>1, <1>2, <2>1, <3>2
        <4>2. QED
          BY <2>1, <3>2, <4>1 DEF MInv, Partial, Written
      <3>3. QED
        BY <3>1, <3>2
    <2>2. QED
      BY <2>1 DEF Partial
  <1>7. \A d \in Cals : Whole(d)'
    <2> SUFFICES ASSUME NEW d \in Cals, dir'[d] # None, d \notin torn',
                        \A q \in Procs : ~Writing(q, d)'
                 PROVE  \E v \in 1..served' : dir'[d] = Document(v)
      BY DEF Whole, Document
    <2>1. CASE d = c
      BY <1>3, <2>1
    <2>2. CASE d # c
      <3>1. \A q \in Procs : ~Writing(q, d)
        BY <1>1, <1>2, <2>2
      <3>2. QED
        BY <2>2, <3>1 DEF MInv, Whole
    <2>3. QED
      BY <2>1, <2>2
  <1>8. QED
    BY <1>4, <1>5, <1>6, <1>7 DEF MInv

\* Requests, fetches, and the daemon's rounds leave the mirrors alone.
LEMMA QuietMirrors ==
  ASSUME FeedsAssumption, TInv, TInv', MInv,
         \/ Round \/ Publish \/ \E c \in Cals : Look(c)
         \/ \E p \in Clients, kind \in Kinds, c \in Cals : Load(p, kind, c)
         \/ \E p \in Procs : \/ MintFeed(p) \/ RevokeFeed(p) \/ Subscribe(p) \/ Unsubscribe(p)
                             \/ SaveFails(p) \/ Fetch(p) \/ FetchFails(p)
  PROVE  MInv'
  <1>1. UNCHANGED <<dir, torn>>
    BY DEF Round, Publish, Look, Load, MintFeed, RevokeFeed, Subscribe, Unsubscribe, SaveFails,
           Fetch, FetchFails
  <1>2. served \in Nat /\ served' \in Nat /\ served \in Versions
    BY DEF TInv, Types, DirTypes, Versions
  <1>3. served <= served'
    <2>1. served' = served \/ Publish
      BY DEF Round, Look, Load, MintFeed, RevokeFeed, Subscribe, Unsubscribe, SaveFails, Fetch,
             FetchFails
    <2>2. QED
      BY <1>2, <2>1 DEF Publish
  <1>4. \A p \in Procs : job[p].kind \in {"clear", "write"} => job[p].version \in Int
    <2>1. \A v \in Versions : v \in Int
      BY DEF Versions
    <2>2. QED
      BY <2>1, JobFacts DEF TInv, Types
  <1>5. \A q \in Procs : \/ job'[q] = job[q]
                         \/ /\ job[q].kind # "write" /\ job'[q].kind # "write"
                            /\ job'[q].kind = "clear" =>
                                 /\ job'[q].version \in Int /\ job'[q].version <= served'
                                 /\ job'[q].left = Documents[job'[q].version]
    <2>1. CASE Round \/ Publish
      BY <2>1 DEF Round, Publish
    <2>2. ASSUME NEW c \in Cals, Look(c), job' # job
          PROVE  /\ job["daemon"].kind = "idle" /\ job'["daemon"].kind = "fetch"
                 /\ \A q \in Procs \ {"daemon"} : job'[q] = job[q]
      <3>1. Becomes("daemon", [kind |-> "fetch", cal |-> c]) /\ job["daemon"] = Idle
        BY <2>2 DEF Look
      <3>2. QED
        BY <3>1, BecomesOne DEF Idle, Procs, TInv, Types
    <2>3. ASSUME NEW p \in Clients, NEW kind \in Kinds, NEW c \in Cals, Load(p, kind, c)
          PROVE  /\ p \in Procs /\ job[p].kind = "idle" /\ job'[p].kind \notin {"clear", "write"}
                 /\ \A q \in Procs \ {p} : job'[q] = job[q]
      <3>1. \E j : Becomes(p, j) /\ j.kind \notin {"clear", "write"}
        <4>1. CASE kind = "refresh"
          <5> DEFINE j == [kind |-> "fetch", cal |-> c]
          <5>1. Becomes(p, j) /\ j.kind \notin {"clear", "write"}
            BY <2>3, <4>1 DEF Load
          <5>2. QED
            BY <5>1
        <4>2. CASE kind # "refresh"
          <5> DEFINE j == [kind |-> kind, cal |-> c, copy |-> yaml, gone |-> revoked]
          <5>1. Becomes(p, j) /\ j.kind \notin {"clear", "write"}
            BY <2>3, <4>2 DEF Load, Kinds
          <5>2. QED
            BY <5>1
        <4>3. QED
          BY <4>1, <4>2
      <3>2. job[p] = Idle /\ p \in Procs
        BY <2>3 DEF Load, Procs
      <3>3. QED
        BY <3>1, <3>2, BecomesOne DEF Idle, TInv, Types
    <2>4. ASSUME NEW p \in Procs,
                 \/ MintFeed(p) \/ RevokeFeed(p) \/ Subscribe(p) \/ Unsubscribe(p)
                 \/ SaveFails(p) \/ FetchFails(p)
          PROVE  /\ job[p].kind # "write" /\ job'[p].kind \notin {"clear", "write"}
                 /\ \A q \in Procs \ {p} : job'[q] = job[q]
      <3>1. \E j : Becomes(p, j) /\ j.kind \notin {"clear", "write"}
        <4>1. CASE Becomes(p, Idle)
          BY <4>1 DEF Idle
        <4>2. CASE \/ Becomes(p, [kind |-> "fetch", cal |-> job[p].cal])
                   \/ Becomes(p, [kind |-> "drop", cal |-> job[p].cal])
          BY <4>2
        <4>3. QED
          BY <2>4, <4>1, <4>2 DEF MintFeed, RevokeFeed, Subscribe, Unsubscribe, SaveFails,
                                  FetchFails
      <3>2. job[p].kind # "write"
        BY <2>4 DEF MintFeed, RevokeFeed, Subscribe, Unsubscribe, SaveFails, FetchFails
      <3>3. QED
        BY <3>1, <3>2, BecomesOne DEF TInv, Types
    <2>5. ASSUME NEW p \in Procs, Fetch(p)
          PROVE  /\ job[p].kind = "fetch" /\ job'[p].kind = "clear" /\ job'[p].version = served
                 /\ job'[p].left = Documents[served] /\ served' = served
                 /\ \A q \in Procs \ {p} : job'[q] = job[q]
      <3>1. Becomes(p, [kind |-> "clear", cal |-> job[p].cal, version |-> served,
                        left |-> Documents[served]])
        BY <2>5 DEF Fetch
      <3>2. job[p].kind = "fetch" /\ served' = served
        BY <2>5 DEF Fetch
      <3>3. QED
        BY <3>1, <3>2, BecomesOne DEF TInv, Types
    <2>6. QED
      BY <1>2, <2>1, <2>2, <2>3, <2>4, <2>5
  <1>6. QED
    BY <1>1, <1>2, <1>3, <1>4, <1>5, MirrorsLeft

\* What a process does to the mirror of its calendar while it drops or refreshes it.
LEMMA BusyMirrors ==
  ASSUME FeedsAssumption, TInv, MInv, NEW p \in Procs,
         \/ Drop(p) \/ Clear(p) \/ RefreshDone(p) \/ RefreshFails(p)
         \/ \E e \in Events : Write(p, e)
  PROVE  MInv'
  <1> DEFINE c == job[p].cal
  <1>1. /\ c \in Cals /\ job[p].kind \in {"drop", "clear", "write"} /\ served' = served
    BY JobFacts DEF Drop, Clear, RefreshDone, RefreshFails, Write, TInv, Types
  <1>2. dir \in [Cals -> Option(SUBSET (Events \X Versions))]
    BY DEF TInv, Types, DirTypes
  <1>3. job[p].kind \in {"clear", "write"} =>
          /\ job[p] \in [kind : {"clear", "write"}, cal : Cals, version : Versions,
                         left : SUBSET Events]
          /\ job[p].version <= served /\ job[p].left \subseteq Documents[job[p].version]
    BY JobFacts DEF TInv, Types, MInv, JobsFit
  <1>4. \A q \in Procs \ {p} : Met(p, c) \/ ~Writing(q, c)
    BY DEF Met, Writing
  <1>5. CASE Drop(p)
    <2>1. /\ Becomes(p, Idle) /\ dir' = [dir EXCEPT ![c] = None]
          /\ torn' = IF Met(p, c) THEN torn \cup {c} ELSE torn \ {c}
      BY <1>5 DEF Drop
    <2>2. job'[p] = Idle /\ \A q \in Procs \ {p} : job'[q] = job[q]
      BY <2>1, BecomesOne DEF TInv, Types
    <2>3. dir'[c] = None /\ \A d \in Cals \ {c} : dir'[d] = dir[d] /\ (d \in torn' <=> d \in torn)
      BY <1>1, <1>2, <2>1
    <2>4. c \notin torn' => \A q \in Procs \ {p} : ~Writing(q, c)
      BY <1>4, <2>1
    <2>5. Idle.kind = "idle"
      BY DEF Idle
    <2>6. QED
      BY <1>1, <2>2, <2>3, <2>4, <2>5, MirrorAt
  <1>6. CASE Clear(p)
    <2> DEFINE j == [job[p] EXCEPT !.kind = "write"]
    <2>1. /\ Becomes(p, j) /\ dir' = [dir EXCEPT ![c] = {}] /\ job[p].kind = "clear"
          /\ torn' = IF Met(p, c) THEN torn \cup {c} ELSE torn \ {c}
      BY <1>6 DEF Clear, Writes
    <2>2. /\ j.kind = "write" /\ j.cal = c /\ j.version = job[p].version
          /\ j.left = job[p].left
      BY <1>3, <2>1
    <2> HIDE DEF j
    <2>3. job'[p] = j /\ \A q \in Procs \ {p} : job'[q] = job[q]
      BY <2>1, BecomesOne DEF TInv, Types
    <2>4. dir'[c] = {} /\ \A d \in Cals \ {c} : dir'[d] = dir[d] /\ (d \in torn' <=> d \in torn)
      BY <1>1, <1>2, <2>1
    <2>5. c \notin torn' => \A q \in Procs \ {p} : ~Writing(q, c)
      BY <1>4, <2>1
    <2>6. job[p].left = Documents[job[p].version]
      BY <2>1 DEF MInv, JobsFit
    <2>7. Written(j) = {}
      BY <2>2, <2>6 DEF Written
    <2>8. j.version <= served /\ j.left \subseteq Documents[j.version]
      BY <1>3, <2>1, <2>2
    <2>9. QED
      BY <1>1, <2>2, <2>3, <2>4, <2>5, <2>7, <2>8, MirrorAt
  <1>7. CASE RefreshDone(p)
    <2>1. /\ Becomes(p, Idle) /\ UNCHANGED <<dir, torn>> /\ job[p].kind = "write"
          /\ job[p].left = {}
      BY <1>7 DEF RefreshDone
    <2>2. job'[p] = Idle /\ \A q \in Procs \ {p} : job'[q] = job[q]
      BY <2>1, BecomesOne DEF TInv, Types
    <2>3. Writing(p, c)
      BY <2>1 DEF Writing
    <2>4. c \notin torn' => \A q \in Procs \ {p} : ~Writing(q, c)
      BY <1>1, <2>1, <2>3 DEF MInv, Alone
    <2>5. c \notin torn' => \E v \in 1..served : dir'[c] = Document(v)
      <3> SUFFICES ASSUME c \notin torn' PROVE \E v \in 1..served : dir'[c] = Document(v)
        OBVIOUS
      <3>1. dir[c] = Written(job[p])
        BY <1>1, <2>1, <2>3 DEF MInv, Partial
      <3>2. Written(job[p]) = Document(job[p].version)
        BY <2>1 DEF Written, Document
      <3>3. job[p].version \in Versions /\ job[p].version <= served /\ served \in Versions
        BY <1>3, <2>1 DEF TInv, Types, DirTypes
      <3>4. job[p].version \in 1..served
        BY <3>3 DEF Versions
      <3>5. QED
        BY <2>1, <3>1, <3>2, <3>4
    <2>6. Idle.kind = "idle"
      BY DEF Idle
    <2>7. QED
      BY <1>1, <2>1, <2>2, <2>4, <2>5, <2>6, MirrorAt
  <1>8. CASE RefreshFails(p)
    <2>1. Becomes(p, Idle) /\ torn' = torn \cup {c}
      BY <1>8 DEF RefreshFails
    <2>2. job'[p] = Idle /\ \A q \in Procs \ {p} : job'[q] = job[q]
      BY <2>1, BecomesOne DEF TInv, Types
    <2>3. \A d \in Cals \ {c} : dir'[d] = dir[d]
      BY <1>2, <1>8 DEF RefreshFails
    <2>4. Idle.kind = "idle"
      BY DEF Idle
    <2>5. QED
      BY <1>1, <2>1, <2>2, <2>3, <2>4, MirrorAt
  <1>9. ASSUME NEW e \in Events, Write(p, e) PROVE MInv'
    <2> DEFINE j == [job[p] EXCEPT !.left = @ \ {e}]
               owned == IF dir[c] = None THEN {} ELSE dir[c]
               v == job[p].version
               new == {f \in owned : f[1] # e} \cup {<<e, v>>}
    <2>1. /\ Becomes(p, j) /\ dir' = [dir EXCEPT ![c] = new] /\ torn' = torn
          /\ job[p].kind = "write" /\ e \in job[p].left
      BY <1>9 DEF Write
    <2>2. /\ j.kind = "write" /\ j.cal = c /\ j.version = v /\ j.left = job[p].left \ {e}
      BY <1>3, <2>1
    <2>3. Writing(p, c)
      BY <2>1 DEF Writing
    <2>4. c \notin torn => new = Written(j)
      <3> SUFFICES ASSUME c \notin torn PROVE new = Written(j)
        OBVIOUS
      <3>1. dir[c] = Written(job[p])
        BY <1>1, <2>3 DEF MInv, Partial
      <3>2. owned \subseteq Written(job[p]) /\ (dir[c] # None => owned = Written(job[p]))
        BY <3>1
      <3>3. owned = Written(job[p])
        <4>1. CASE dir[c] = None
          <5>1. Written(job[p]) \subseteq Events \X Versions
            BY <1>3, <2>1, DocumentFacts DEF Written
          <5>2. QED
            BY <3>1, <4>1, <5>1, NoneIsNoMirror
        <4>2. QED
          BY <3>2, <4>1
      <3>4. e \in Documents[v] \ j.left /\ Documents[v] \ j.left
              = (Documents[v] \ job[p].left) \cup {e}
        BY <1>3, <2>1, <2>2
      <3>5. e \notin Documents[v] \ job[p].left
        BY <2>1
      <3> HIDE DEF j, owned, v
      <3>6. owned = {<<x, v>> : x \in Documents[v] \ job[p].left}
        BY <3>3 DEF Written, v
      <3>7. {f \in owned : f[1] # e} = owned
        BY <3>5, <3>6
      <3>8. Written(j) = {<<x, v>> : x \in Documents[v] \ j.left}
        BY <2>2 DEF Written
      <3>9. QED
        BY <3>4, <3>6, <3>7, <3>8
    <2> HIDE DEF j, new
    <2>5. job'[p] = j /\ \A q \in Procs \ {p} : job'[q] = job[q]
      BY <2>1, BecomesOne DEF TInv, Types
    <2>6. dir'[c] = new /\ \A d \in Cals \ {c} : dir'[d] = dir[d]
      BY <1>1, <1>2, <2>1
    <2>7. c \notin torn' => \A q \in Procs \ {p} : ~Writing(q, c)
      BY <1>1, <2>1, <2>3 DEF MInv, Alone
    <2>8. j.version <= served /\ j.left \subseteq Documents[j.version]
      BY <1>3, <2>1, <2>2
    <2>9. QED
      BY <1>1, <2>1, <2>2, <2>4, <2>5, <2>6, <2>7, <2>8, MirrorAt
  <1>10. QED
    BY <1>5, <1>6, <1>7, <1>8, <1>9

\* A daemon that restarts leaves the mirror it was writing torn.
LEMMA RestartMirrors ==
  ASSUME FeedsAssumption, TInv, TInv', MInv, DaemonRestarts
  PROVE  MInv'
  <1>1. /\ Becomes("daemon", Idle) /\ UNCHANGED <<dir, served>> /\ "daemon" \in Procs
        /\ torn' = IF job["daemon"].kind = "write" THEN torn \cup {job["daemon"].cal} ELSE torn
    BY DEF DaemonRestarts, Procs
  <1>2. job'["daemon"] = Idle /\ \A q \in Procs \ {"daemon"} : job'[q] = job[q]
    BY <1>1, BecomesOne DEF TInv, Types
  <1>3. Idle.kind = "idle"
    BY DEF Idle
  <1>4. CASE job["daemon"].kind = "write"
    <2>1. job["daemon"].cal \in Cals
      BY <1>1, <1>4, JobFacts DEF TInv, Types
    <2>2. QED
      BY <1>1, <1>2, <1>3, <1>4, <2>1, MirrorAt
  <1>5. CASE job["daemon"].kind # "write"
    <2>1. served \in Int
      BY DEF TInv, Types, DirTypes, Versions
    <2>2. \A p \in Procs : job[p].kind \in {"clear", "write"} => job[p].version \in Int
      <3>1. \A v \in Versions : v \in Int
        BY DEF Versions
      <3>2. QED
        BY <3>1, JobFacts DEF TInv, Types
    <2>3. \A q \in Procs : job'[q] = job[q] \/ (job[q].kind # "write" /\ job'[q].kind = "idle")
      BY <1>2, <1>3, <1>5
    <2>4. QED
      BY <1>1, <1>5, <2>1, <2>2, <2>3, MirrorsLeft
  <1>6. QED
    BY <1>4, <1>5

LEMMA NextMirrors ==
  ASSUME FeedsAssumption, TInv, MInv, Next
  PROVE  MInv'
  <1>1. TInv'
    BY NextTokens
  <1>2. ASSUME NEW p \in Procs, Step(p) PROVE MInv'
    <2>1. CASE \/ MintFeed(p) \/ RevokeFeed(p) \/ Subscribe(p) \/ Unsubscribe(p)
               \/ SaveFails(p) \/ Fetch(p) \/ FetchFails(p)
      BY <1>1, <2>1, QuietMirrors
    <2>2. CASE \/ Drop(p) \/ Clear(p) \/ RefreshDone(p) \/ RefreshFails(p)
               \/ \E e \in Events : Write(p, e)
      BY <2>2, BusyMirrors
    <2>3. QED
      BY <1>2, <2>1, <2>2 DEF Step
  <1>3. CASE \/ Round \/ Publish \/ \E c \in Cals : Look(c)
             \/ \E p \in Clients, kind \in Kinds, c \in Cals : Load(p, kind, c)
    BY <1>1, <1>3, QuietMirrors
  <1>4. QED
    BY <1>1, <1>2, <1>3, RestartMirrors DEF Next

LEMMA StutterMirrors ==
  ASSUME TInv, MInv, UNCHANGED vars
  PROVE  MInv'
  <1>1. UNCHANGED <<dir, torn, served, job>>
    BY DEF vars
  <1>2. JobsFit' /\ Alone' /\ Partial'
    BY <1>1 DEF MInv, JobsFit, Alone, Partial, Writing, Written
  <1>3. \A c \in Cals : Whole(c)'
    BY <1>1 DEF MInv, Whole, Writing, Document
  <1>4. QED
    BY <1>2, <1>3 DEF MInv

LEMMA InitMirrors ==
  ASSUME Init
  PROVE  MInv
  <1>1. \A p \in Procs : job[p].kind = "idle"
    BY DEF Init, Idle
  <1>2. \A c \in Cals : dir[c] = None
    BY DEF Init
  <1>3. QED
    BY <1>1, <1>2 DEF MInv, JobsFit, Alone, Partial, Whole, Writing

\* However requests, the daemon's refreshes, unsubscriptions and failures interleave, a
\* mirror that nobody is refreshing is one whole version of the source, unless its last
\* refresh stopped in the middle or another one, or an unsubscription, ran through it.
THEOREM MirrorsStayWhole == Spec => []MirrorWhole
  <1>1. Init => TInv /\ MInv
    BY InitTokens, InitMirrors, FeedsAssumption
  <1>2. TInv /\ MInv /\ [Next]_vars => (TInv /\ MInv)'
    BY NextTokens, NextMirrors, StutterTokens, StutterMirrors, FeedsAssumption
  <1>3. MInv => MirrorWhole
    BY MirrorWholeIs DEF MInv
  <1>4. QED
    BY <1>1, <1>2, <1>3, PTL DEF Spec

-----------------------------------------------------------------------------
(* The layout and migrate-tz. *)

Caches == [Layout!Items -> Nat \cup {None}]
OpenWork == [kind : {"open"}, root : Layout!Roots, goal : {"serving", "add", "tz"}]
OpenedWork == [kind : {"serving", "add", "tz"}, root : Layout!Roots, cache : Caches]
ListWork ==
  {w \in [kind : {"unlist", "enlist"}, root : Layout!Roots, names : SUBSET Names,
          then : OpenedWork] : w.then.root = w.root}
PutWork ==
  {w \in [kind : {"put"}, root : Layout!Roots, cache : Caches, left : SUBSET Layout!Items] :
     \A x \in w.left : w.cache[x] # None}
ToMove == {<<"tasks", "calendars", "projects">>, <<"calendars", "projects">>,
           <<"projects">>, <<>>}
MoveWork == [kind : {"move"}, left : ToMove]
Work == {Layout!Idle} \cup OpenWork \cup OpenedWork \cup ListWork \cup PutWork \cup MoveWork

WorkTypes == work \in [Layout!Procs -> Work]

LayoutTypes ==
  /\ made \in {"none", "users", "admin"}
  /\ held \in [Layout!Roots -> Caches]
  /\ registry \in [Layout!Roots -> Layout!Option(SUBSET Names)]
  /\ projects \in [Layout!Roots -> SUBSET Names]
  /\ marker \in [Layout!Roots -> BOOLEAN]
  /\ excused \subseteq Layout!Roots /\ cut \in BOOLEAN
  /\ WorkTypes

\* The stamps in r are as they were.
Unshifted(r) == \A x \in Given : held[r][x] \in {None, 0}

Agrees(copy, r) == \A x \in Given : copy[x] = held[r][x]

\* The one process of migrate-tz in r writes what is in r, shifted: what it has
\* written is shifted once, and the rest is as it was when it was read.
AloneIn(p, r) ==
  /\ ~marker[r]
  /\ work[p].kind # "put" => Unshifted(r)
  /\ work[p].kind \in {"unlist", "enlist"} => Agrees(work[p].then.cache, r)
  /\ work[p].kind = "tz" => Agrees(work[p].cache, r)
  /\ work[p].kind = "put" => \A x \in Given :
       IF x \in work[p].left THEN held[r][x] = 0 /\ work[p].cache[x] = 0
       ELSE held[r][x] \in {None, 1}

RootSound(r) ==
  /\ \A p, q \in Layout!Shifting(r) : p = q
  /\ \A p \in Layout!Shifting(r) : AloneIn(p, r)
  /\ Layout!Shifting(r) = {} =>
       IF marker[r] THEN \A x \in Given : held[r][x] \in {None, 1} ELSE Unshifted(r)

ShiftInv == \A r \in Layout!Roots \ excused : RootSound(r)

\* Where an item is while the directories of `left` are still to be moved.
Place(x, left) == IF \E i \in DOMAIN left : left[i] = Dir[x] THEN "legacy" ELSE "admin"
AllIn(r) == \A x \in Given : held[r][x] # None

MoveInv ==
  /\ work["server"].kind \notin {"idle", "move"} => made = "admin"
  /\ work["server"].kind = "move" /\ made # "admin" => work["server"].left = Layout!Movable
  /\ ~cut =>
       /\ made # "admin" => AllIn("legacy")
       /\ made = "admin" /\ work["server"].kind # "move" => AllIn("admin")
       /\ made = "admin" /\ work["server"].kind = "move" =>
            \A x \in Given : held[Place(x, work["server"].left)][x] # None

LayoutInv == LayoutTypes /\ ShiftInv /\ MoveInv

-----------------------------------------------------------------------------
(* What a process of the layout holds. *)

LEMMA WorkFacts ==
  ASSUME WorkTypes, NEW p \in Layout!Procs
  PROVE  /\ work[p].kind \in {"open", "serving", "add", "tz", "unlist", "enlist", "put"} =>
              work[p].root \in Layout!Roots
         /\ work[p].kind = "open" => work[p] \in OpenWork
         /\ work[p].kind \in {"serving", "add", "tz"} => work[p] \in OpenedWork
         /\ work[p].kind \in {"unlist", "enlist"} => work[p] \in ListWork
         /\ work[p].kind = "put" => /\ work[p] \in PutWork
                                    /\ \A x \in work[p].left : work[p].cache[x] \in Nat
         /\ work[p].kind = "move" => work[p] \in MoveWork
         /\ work[p] = Layout!Idle \/ work[p].kind # "idle"
  BY LayoutAssumption
     DEF WorkTypes, Work, OpenWork, OpenedWork, ListWork, PutWork, MoveWork, Layout!Idle, Caches

\* The item of migrate-tz in r is the process that is at work there.
LEMMA ShiftingFacts ==
  ASSUME WorkTypes, NEW p \in Layout!Procs, NEW r
  PROVE  p \in Layout!Shifting(r) <=>
           \/ work[p].kind = "open" /\ work[p].goal = "tz" /\ work[p].root = r
           \/ work[p].kind \in {"unlist", "enlist"} /\ work[p].then.kind = "tz" /\ work[p].root = r
           \/ work[p].kind \in {"tz", "put"} /\ work[p].root = r
  BY DEF Layout!Shifting

\* A step changes what one process holds.
LEMMA WorkStep ==
  ASSUME WorkTypes, NEW p \in Layout!Procs, NEW j \in Work, Layout!Becomes(p, j)
  PROVE  /\ WorkTypes' /\ work'[p] = j
         /\ \A q \in Layout!Procs \ {p} : work'[q] = work[q]
  BY DEF WorkTypes, Layout!Becomes

LEMMA WorkEnds ==
  ASSUME WorkTypes, NEW p \in Layout!Procs, Layout!Becomes(p, Layout!Idle)
  PROVE  /\ WorkTypes' /\ work'[p] = Layout!Idle
         /\ \A q \in Layout!Procs \ {p} : work'[q] = work[q]
<1>1. Layout!Idle \in Work
  BY DEF Work, Layout!Idle
<1>2. QED BY <1>1, WorkStep

LEMMA WorkKept ==
  ASSUME WorkTypes, UNCHANGED work
  PROVE  WorkTypes'
  BY DEF WorkTypes

LEMMA Served ==
  /\ "server" \in Layout!Procs /\ "admin" \in Layout!Roots /\ "legacy" \in Layout!Roots
  /\ \A p \in Commands : p \in Layout!Procs /\ p # "server"
  BY LayoutAssumption DEF Layout!Procs, Layout!Roots

\* The list of directories to be moved, from its front.
LEMMA MovableFacts ==
  /\ Layout!Movable \in ToMove
  /\ \A l \in ToMove \ {<<>>} :
       /\ Tail(l) \in ToMove /\ Head(l) \in {"tasks", "calendars", "projects"}
       /\ \A d : (\E i \in DOMAIN l : l[i] = d) <=> d = Head(l) \/ \E i \in DOMAIN Tail(l) : Tail(l)[i] = d
       /\ \A i \in DOMAIN Tail(l) : Tail(l)[i] # Head(l)
  /\ \E i \in DOMAIN Layout!Movable : Layout!Movable[i] = "tasks"
  /\ \E i \in DOMAIN Layout!Movable : Layout!Movable[i] = "calendars"
<1>1. Layout!Movable \in ToMove /\ Layout!Movable[1] = "tasks" /\ Layout!Movable[2] = "calendars"
      /\ DOMAIN Layout!Movable = 1..3
  BY DEF ToMove, Layout!Movable
<1>2. ASSUME NEW l \in ToMove \ {<<>>}
      PROVE  /\ Tail(l) \in ToMove /\ Head(l) \in {"tasks", "calendars", "projects"}
             /\ \A d : (\E i \in DOMAIN l : l[i] = d)
                         <=> d = Head(l) \/ \E i \in DOMAIN Tail(l) : Tail(l)[i] = d
             /\ \A i \in DOMAIN Tail(l) : Tail(l)[i] # Head(l)
  <2> DEFINE t == Tail(l)
  <2>1. CASE l = <<"tasks", "calendars", "projects">>
    <3>1. t = <<"calendars", "projects">> /\ Head(l) = "tasks" /\ DOMAIN l = 1..3
          /\ l[1] = "tasks" /\ l[2] = "calendars" /\ l[3] = "projects"
      BY <2>1
    <3> HIDE DEF t
    <3>2. DOMAIN t = 1..2 /\ t[1] = "calendars" /\ t[2] = "projects"
      BY <3>1
    <3>3. \A d : /\ (\E i \in DOMAIN l : l[i] = d) <=> d \in {"tasks", "calendars", "projects"}
                /\ (\E i \in DOMAIN t : t[i] = d) <=> d \in {"calendars", "projects"}
      BY <3>1, <3>2
    <3>4. \A i \in DOMAIN t : t[i] # "tasks"
      BY <3>2
    <3>5. t \in ToMove
      BY <3>1 DEF ToMove
    <3>6. QED BY <3>1, <3>3, <3>4, <3>5 DEF t
  <2>2. CASE l = <<"calendars", "projects">>
    <3>1. t = <<"projects">> /\ Head(l) = "calendars" /\ DOMAIN l = 1..2
          /\ l[1] = "calendars" /\ l[2] = "projects"
      BY <2>2
    <3> HIDE DEF t
    <3>2. DOMAIN t = 1..1 /\ t[1] = "projects"
      BY <3>1
    <3>3. QED BY <3>1, <3>2 DEF ToMove, t
  <2>3. CASE l = <<"projects">>
    <3>1. t = <<>> /\ Head(l) = "projects" /\ DOMAIN l = 1..1 /\ l[1] = "projects"
      BY <2>3
    <3> HIDE DEF t
    <3>2. DOMAIN t = {}
      BY <3>1
    <3>3. QED BY <3>1, <3>2 DEF ToMove, t
  <2>4. QED BY <2>1, <2>2, <2>3 DEF ToMove
<1>3. QED BY <1>1, <1>2

LEMMA MovedFacts ==
  ASSUME NEW f \in [Layout!Roots -> Caches], NEW taken
  PROVE  /\ Layout!Moved(f, taken) \in [Layout!Roots -> Caches]
         /\ \A r \in Layout!Roots : \A x \in Layout!Items :
              /\ x \notin taken => Layout!Moved(f, taken)[r][x] = f[r][x]
              /\ x \in taken => Layout!Moved(f, taken)["admin"][x] = f["legacy"][x]
              /\ x \in taken => Layout!Moved(f, taken)["legacy"][x] = None
  BY DEF Layout!Moved, Layout!Roots, Caches

-----------------------------------------------------------------------------
(* Types of the layout. *)

LEMMA LayoutInitTypes ==
  ASSUME Layout!Init
  PROVE  LayoutTypes
<1>1. Layout!Idle \in Work
  BY DEF Work, Layout!Idle
<1>2. WorkTypes
  BY <1>1 DEF Layout!Init, WorkTypes
<1>3. held \in [Layout!Roots -> Caches]
  BY DEF Layout!Init, Caches
<1>4. registry \in [Layout!Roots -> Layout!Option(SUBSET Names)]
      /\ projects \in [Layout!Roots -> SUBSET Names]
  BY DEF Layout!Init, Layout!Option
<1>5. QED BY <1>2, <1>3, <1>4 DEF Layout!Init, LayoutTypes

\* The steps that change nothing but what one process holds, and history.
LEMMA LayoutJustWork ==
  ASSUME LayoutTypes, UNCHANGED Layout!disk, WorkTypes',
         excused' \subseteq Layout!Roots, cut' \in BOOLEAN
  PROVE  LayoutTypes'
  BY DEF LayoutTypes, Layout!disk

\* A write into the vault: users/admin is there afterwards, and the move is under way
\* or counts as cut short.
LEMMA MakesFacts ==
  ASSUME LayoutTypes, NEW r, Layout!Makes(r)
  PROVE  /\ made' \in {"none", "users", "admin"} /\ cut' \in BOOLEAN
         /\ cut => cut'
         /\ made' # made => /\ made # "admin" /\ made' = "admin"
                            /\ cut' \/ work["server"].kind = "move"
  BY DEF Layout!Makes, LayoutTypes

LEMMA StartServerTypes ==
  ASSUME LayoutTypes, Layout!StartServer
  PROVE  LayoutTypes'
<1> DEFINE j == IF made = "admin" THEN [kind |-> "open", root |-> "admin", goal |-> "serving"]
                ELSE [kind |-> "move", left |-> Layout!Movable]
<1>1. j \in Work
  <2>1. CASE made = "admin"
    <3>1. j = [kind |-> "open", root |-> "admin", goal |-> "serving"]
      BY <2>1
    <3>2. QED BY <3>1, Served DEF Work, OpenWork
  <2>2. CASE made # "admin"
    <3>1. j = [kind |-> "move", left |-> Layout!Movable]
      BY <2>2
    <3>2. QED BY <3>1, MovableFacts DEF Work, MoveWork
  <2>3. QED BY <2>1, <2>2
<1>2. Layout!Becomes("server", j)
  BY DEF Layout!StartServer
<1> HIDE DEF j
<1>3. WorkTypes'
  BY <1>1, <1>2, Served, WorkStep DEF LayoutTypes
<1>4. QED BY <1>3, LayoutJustWork DEF Layout!StartServer, LayoutTypes

LEMMA MakeDirTypes ==
  ASSUME LayoutTypes, Layout!MakeDir
  PROVE  LayoutTypes'
  BY DEF Layout!MakeDir, LayoutTypes, WorkTypes

LEMMA MoveDoneTypes ==
  ASSUME LayoutTypes, Layout!MoveDone
  PROVE  LayoutTypes'
<1> DEFINE j == [kind |-> "open", root |-> "admin", goal |-> "serving"]
<1>1. j \in Work
  BY Served DEF Work, OpenWork
<1>2. Layout!Becomes("server", j)
  BY DEF Layout!MoveDone
<1> HIDE DEF j
<1>3. WorkTypes'
  BY <1>1, <1>2, Served, WorkStep DEF LayoutTypes
<1>4. QED BY <1>3, LayoutJustWork DEF Layout!MoveDone, LayoutTypes

\* A directory is renamed, or the server gives up: what it is still to move.
LEMMA RenameWork ==
  ASSUME LayoutTypes, Layout!Rename
  PROVE  /\ WorkTypes'
         /\ \A q \in Layout!Procs \ {"server"} : work'[q] = work[q]
         /\ work["server"].left \in ToMove \ {<<>>}
         /\ \/ Layout!GiveUp /\ work'["server"] = Layout!Idle
            \/ /\ work'["server"] \in MoveWork /\ UNCHANGED cut
               /\ work'["server"].left = Tail(work["server"].left)
<1> DEFINE l == work["server"].left
           j == [work["server"] EXCEPT !.left = Tail(@)]
<1>1. work["server"] \in MoveWork /\ l \in ToMove \ {<<>>}
  BY Served, WorkFacts DEF Layout!Rename, LayoutTypes, MoveWork
<1>2. Tail(l) \in ToMove
  BY <1>1, MovableFacts
<1>3. j = [kind |-> "move", left |-> Tail(l)]
  BY <1>1 DEF MoveWork
<1>4. j \in MoveWork /\ j \in Work /\ j.left = Tail(l)
  BY <1>2, <1>3 DEF MoveWork, Work
<1>5. CASE Layout!GiveUp
  BY <1>1, <1>5, Served, WorkEnds DEF Layout!GiveUp, LayoutTypes
<1>6. CASE Layout!Becomes("server", j) /\ UNCHANGED cut
  BY <1>1, <1>4, <1>6, Served, WorkStep DEF LayoutTypes
<1>7. QED BY <1>5, <1>6 DEF Layout!Rename

LEMMA RenameTypes ==
  ASSUME LayoutTypes, Layout!Rename
  PROVE  LayoutTypes'
<1>1. WorkTypes'
  BY RenameWork
<1>2. held' \in [Layout!Roots -> Caches]
  BY MovedFacts DEF Layout!Rename, LayoutTypes
<1>3. registry' \in [Layout!Roots -> Layout!Option(SUBSET Names)]
  BY Served DEF Layout!Rename, LayoutTypes, Layout!Option
<1>4. projects' \in [Layout!Roots -> SUBSET Names]
  BY Served DEF Layout!Rename, LayoutTypes
<1>5. excused' \subseteq Layout!Roots /\ cut' \in BOOLEAN
  BY DEF Layout!Rename, LayoutTypes, Layout!GiveUp
<1>6. QED BY <1>1, <1>2, <1>3, <1>4, <1>5 DEF Layout!Rename, LayoutTypes

LEMMA StartCommandTypes ==
  ASSUME LayoutTypes, NEW p \in Commands, NEW goal \in {"add", "tz"},
         Layout!StartCommand(p, goal)
  PROVE  /\ LayoutTypes' /\ p \in Layout!Procs
         /\ \A q \in Layout!Procs \ {p} : work'[q] = work[q]
         /\ IF goal = "tz" /\ marker[Layout!Effective] THEN UNCHANGED work
            ELSE work'[p] = [kind |-> "open", root |-> Layout!Effective, goal |-> goal]
<1> DEFINE j == [kind |-> "open", root |-> Layout!Effective, goal |-> goal]
           marked == goal = "tz" /\ marker[Layout!Effective]
<1>1. p \in Layout!Procs /\ Layout!Effective \in Layout!Roots
  BY Served DEF Layout!Effective
<1>2. j \in Work
  BY <1>1 DEF Work, OpenWork
<1>3. IF marked THEN UNCHANGED work ELSE Layout!Becomes(p, j)
  BY DEF Layout!StartCommand
<1>4. /\ WorkTypes' /\ \A q \in Layout!Procs \ {p} : work'[q] = work[q]
      /\ IF marked THEN UNCHANGED work ELSE work'[p] = j
  <2> HIDE DEF j, marked
  <2>1. CASE marked
    BY <1>3, <2>1, WorkKept DEF LayoutTypes
  <2>2. CASE ~marked
    BY <1>1, <1>2, <1>3, <2>2, WorkStep DEF LayoutTypes
  <2>3. QED BY <2>1, <2>2
<1>5. excused' \subseteq Layout!Roots /\ cut' \in BOOLEAN /\ UNCHANGED Layout!disk
  BY <1>1 DEF Layout!StartCommand, LayoutTypes
<1>6. LayoutTypes'
  BY <1>4, <1>5, LayoutJustWork
<1>7. QED BY <1>1, <1>4, <1>6

LEMMA OpenTypes ==
  ASSUME LayoutTypes, NEW p \in Layout!Procs, Layout!Open(p)
  PROVE  LET r == work[p].root IN
         /\ LayoutTypes' /\ \A q \in Layout!Procs \ {p} : work'[q] = work[q]
         /\ r \in Layout!Roots
         /\ \/ /\ work'[p] \in OpenedWork /\ work'[p].root = r
               /\ work'[p].kind = work[p].goal /\ work'[p].cache = held[r]
            \/ /\ work'[p] \in ListWork /\ work'[p].root = r /\ work'[p].kind = "unlist"
               /\ work'[p].then.kind = work[p].goal /\ work'[p].then.cache = held[r]
<1> DEFINE r == work[p].root
           o == [kind |-> work[p].goal, root |-> r, cache |-> held[r]]
           u == [kind |-> "unlist", root |-> r, names |-> registry[r], then |-> o]
<1>1. work[p] \in OpenWork
  BY WorkFacts DEF Layout!Open, LayoutTypes
<1>2. r \in Layout!Roots /\ work[p].goal \in {"serving", "add", "tz"}
  BY <1>1 DEF OpenWork
<1>3. o \in OpenedWork
  BY <1>2 DEF OpenedWork, LayoutTypes
<1>4. o \in Work
  BY <1>2, <1>3 DEF Work
<1>5. o.root = r /\ o.kind = work[p].goal /\ o.cache = held[r]
  OBVIOUS
<1>6. CASE registry[r] = None
  <2>1. Layout!Becomes(p, o)
    BY <1>6 DEF Layout!Open
  <2> HIDE DEF o
  <2>2. WorkTypes' /\ work'[p] = o /\ \A q \in Layout!Procs \ {p} : work'[q] = work[q]
    BY <1>4, <2>1, WorkStep DEF LayoutTypes
  <2>3. LayoutTypes'
    BY <2>2, LayoutJustWork DEF Layout!Open, LayoutTypes
  <2>4. QED BY <1>2, <1>3, <1>5, <2>2, <2>3
<1>7. CASE registry[r] # None
  <2>1. registry[r] \in SUBSET Names
    BY <1>2, <1>7 DEF LayoutTypes, Layout!Option
  <2>2. Layout!Becomes(p, u)
    BY <1>7 DEF Layout!Open
  <2> HIDE DEF o
  <2>3. u \in ListWork
    <3>1. u.then = o /\ u.root = r /\ o.root = r
      BY <1>5
    <3>2. u \in [kind : {"unlist", "enlist"}, root : Layout!Roots, names : SUBSET Names,
                 then : OpenedWork]
      BY <1>2, <1>3, <2>1
    <3> HIDE DEF u
    <3>3. QED BY <3>1, <3>2 DEF ListWork
  <2>4. u \in Work /\ u.kind = "unlist" /\ u.root = r /\ u.then = o
    BY <2>3 DEF Work
  <2> HIDE DEF u
  <2>5. WorkTypes' /\ work'[p] = u /\ \A q \in Layout!Procs \ {p} : work'[q] = work[q]
    BY <2>2, <2>4, WorkStep DEF LayoutTypes
  <2>6. LayoutTypes'
    BY <2>5, LayoutJustWork DEF Layout!Open, LayoutTypes
  <2>7. QED BY <1>2, <1>5, <2>3, <2>4, <2>5, <2>6
<1>8. QED BY <1>6, <1>7

\* The steps through the registry keep where the process is and what it will hold.
LEMMA UnlistTypes ==
  ASSUME LayoutTypes, NEW p \in Layout!Procs, Layout!Unlist(p)
  PROVE  /\ LayoutTypes' /\ \A q \in Layout!Procs \ {p} : work'[q] = work[q]
         /\ work[p].root \in Layout!Roots
         /\ \/ work'[p] = Layout!Idle
            \/ /\ work'[p] \in ListWork /\ work'[p].kind = "enlist"
               /\ work'[p].root = work[p].root /\ work'[p].then = work[p].then
<1> DEFINE r == work[p].root
           j == [work[p] EXCEPT !.kind = "enlist"]
<1>1. work[p] \in ListWork
  BY WorkFacts DEF Layout!Unlist, LayoutTypes
<1>2. j \in ListWork /\ j.kind = "enlist" /\ j.root = r /\ j.then = work[p].then /\ r \in Layout!Roots
  BY <1>1 DEF ListWork
<1>3. j \in Work
  BY <1>2 DEF Work
<1>4. /\ WorkTypes' /\ \A q \in Layout!Procs \ {p} : work'[q] = work[q]
      /\ work'[p] = Layout!Idle \/ work'[p] = j
  <2>1. Layout!Becomes(p, Layout!Idle) \/ Layout!Becomes(p, j)
    BY DEF Layout!Unlist
  <2> HIDE DEF j
  <2>2. QED BY <1>3, <2>1, WorkStep, WorkEnds DEF LayoutTypes
<1>5. registry' \in [Layout!Roots -> Layout!Option(SUBSET Names)]
  BY <1>2 DEF Layout!Unlist, LayoutTypes, Layout!Option
<1>6. LayoutTypes'
  BY <1>4, <1>5 DEF Layout!Unlist, LayoutTypes
<1> HIDE DEF j
<1>7. QED BY <1>2, <1>4, <1>6

LEMMA EnlistTypes ==
  ASSUME LayoutTypes, NEW p \in Layout!Procs, Layout!Enlist(p)
  PROVE  /\ LayoutTypes' /\ \A q \in Layout!Procs \ {p} : work'[q] = work[q]
         /\ work[p] \in ListWork
         /\ \/ work'[p] = work[p].then
            \/ /\ work'[p] \in ListWork /\ work'[p].kind = "enlist"
               /\ work'[p].root = work[p].root /\ work'[p].then = work[p].then
<1>1. work[p] \in ListWork /\ work[p].then \in OpenedWork /\ work[p].root \in Layout!Roots
  BY WorkFacts DEF Layout!Enlist, LayoutTypes, ListWork
<1>2. CASE work[p].names = {}
  <2>1. Layout!Becomes(p, work[p].then) /\ UNCHANGED <<made, projects, cut>>
    BY <1>2 DEF Layout!Enlist
  <2>2. work[p].then \in Work
    BY <1>1 DEF Work, OpenedWork
  <2>3. WorkTypes' /\ work'[p] = work[p].then
        /\ \A q \in Layout!Procs \ {p} : work'[q] = work[q]
    BY <2>1, <2>2, WorkStep DEF LayoutTypes
  <2>4. LayoutTypes'
    BY <2>1, <2>3 DEF Layout!Enlist, LayoutTypes
  <2>5. QED BY <1>1, <2>3, <2>4
<1>3. CASE work[p].names # {}
  <2>1. PICK n \in work[p].names :
          /\ projects' = [projects EXCEPT ![work[p].root] = @ \cup {n}]
          /\ Layout!Makes(work[p].root)
          /\ Layout!Becomes(p, [work[p] EXCEPT !.names = @ \ {n}])
    BY <1>3 DEF Layout!Enlist
  <2> DEFINE j == [work[p] EXCEPT !.names = @ \ {n}]
  <2>2. j \in ListWork /\ j.kind = "enlist" /\ j.root = work[p].root /\ j.then = work[p].then
        /\ n \in Names
    BY <1>1 DEF ListWork, Layout!Enlist
  <2>3. j \in Work
    BY <2>2 DEF Work
  <2> HIDE DEF j
  <2>4. WorkTypes' /\ work'[p] = j /\ \A q \in Layout!Procs \ {p} : work'[q] = work[q]
    BY <2>1, <2>3, WorkStep DEF LayoutTypes, j
  <2>5. projects' \in [Layout!Roots -> SUBSET Names]
    BY <1>1, <2>1, <2>2 DEF LayoutTypes
  <2>6. made' \in {"none", "users", "admin"} /\ cut' \in BOOLEAN
    BY <2>1, MakesFacts
  <2>8. LayoutTypes'
    BY <2>4, <2>5, <2>6 DEF Layout!Enlist, LayoutTypes
  <2>7. QED BY <1>1, <2>2, <2>4, <2>8
<1>4. QED BY <1>2, <1>3

LEMMA AddTypes ==
  ASSUME LayoutTypes, NEW p \in Layout!Procs, Layout!Add(p)
  PROVE  /\ LayoutTypes' /\ \A q \in Layout!Procs \ {p} : work'[q] = work[q]
         /\ work'[p] = Layout!Idle
         /\ \A r \in Layout!Roots : \A y \in Given : held'[r][y] = held[r][y]
<1>1. work[p].root \in Layout!Roots
  BY WorkFacts DEF Layout!Add, LayoutTypes
<1>2. PICK x \in Layout!Items \ Given : held' = [held EXCEPT ![work[p].root][x] = 1]
  BY DEF Layout!Add
<1>3. held' \in [Layout!Roots -> Caches]
  BY <1>1, <1>2 DEF LayoutTypes, Caches
<1>4. \A r \in Layout!Roots : \A y \in Given : held'[r][y] = held[r][y]
  BY <1>1, <1>2, LayoutAssumption DEF LayoutTypes, Caches
<1>5. /\ WorkTypes' /\ work'[p] = Layout!Idle
      /\ \A q \in Layout!Procs \ {p} : work'[q] = work[q]
  BY WorkEnds DEF Layout!Add, LayoutTypes
<1>6. made' \in {"none", "users", "admin"} /\ cut' \in BOOLEAN
  BY MakesFacts DEF Layout!Add
<1>7. LayoutTypes'
  BY <1>3, <1>5, <1>6 DEF Layout!Add, LayoutTypes
<1>8. QED BY <1>4, <1>5, <1>7

LEMMA ScanTypes ==
  ASSUME LayoutTypes, NEW p \in Layout!Procs, Layout!Scan(p)
  PROVE  /\ LayoutTypes' /\ \A q \in Layout!Procs \ {p} : work'[q] = work[q]
         /\ work'[p].kind = "put" /\ work'[p].root = work[p].root
         /\ work'[p].cache = work[p].cache /\ work[p].cache \in Caches
         /\ work'[p].left = {x \in Layout!Items : work[p].cache[x] # None}
<1> DEFINE j == [kind |-> "put", root |-> work[p].root, cache |-> work[p].cache,
                 left |-> {x \in Layout!Items : work[p].cache[x] # None}]
<1>1. work[p].root \in Layout!Roots /\ work[p].cache \in Caches
  BY WorkFacts DEF Layout!Scan, LayoutTypes, OpenedWork
<1>2. j \in PutWork
  BY <1>1 DEF PutWork
<1>3. j \in Work
  BY <1>2 DEF Work
<1>4. Layout!Becomes(p, j)
  BY DEF Layout!Scan
<1>5. j.kind = "put" /\ j.root = work[p].root /\ j.cache = work[p].cache
      /\ j.left = {x \in Layout!Items : work[p].cache[x] # None}
  OBVIOUS
<1> HIDE DEF j
<1>6. WorkTypes' /\ work'[p] = j /\ \A q \in Layout!Procs \ {p} : work'[q] = work[q]
  BY <1>2, <1>3, <1>4, WorkStep DEF LayoutTypes
<1>7. LayoutTypes'
  BY <1>6, LayoutJustWork DEF Layout!Scan, LayoutTypes
<1>8. QED BY <1>1, <1>5, <1>6, <1>7

LEMMA PutTypes ==
  ASSUME LayoutTypes, NEW p \in Layout!Procs, Layout!Put(p)
  PROVE  LET r == work[p].root IN
         /\ LayoutTypes' /\ \A q \in Layout!Procs \ {p} : work'[q] = work[q]
         /\ r \in Layout!Roots
         /\ \/ work'[p] = Layout!Idle /\ UNCHANGED held /\ excused' = excused \cup {r}
            \/ \E x \in work[p].left :
                 /\ UNCHANGED excused
                 /\ work[p].cache[x] \in Nat
                 /\ held' = [held EXCEPT ![r][x] = work[p].cache[x] + 1]
                 /\ work'[p].kind = "put" /\ work'[p].root = r
                 /\ work'[p].cache = work[p].cache /\ work'[p].left = work[p].left \ {x}
<1> DEFINE r == work[p].root
<1>1. work[p] \in PutWork /\ \A x \in work[p].left : work[p].cache[x] \in Nat
  BY WorkFacts DEF Layout!Put, LayoutTypes
<1>2. r \in Layout!Roots /\ work[p].left \subseteq Layout!Items
  BY <1>1 DEF PutWork
<1>3. PICK x \in work[p].left :
        IF x \in ReadOnly
        THEN /\ excused' = excused \cup {r} /\ Layout!Becomes(p, Layout!Idle)
             /\ UNCHANGED <<made, held, cut>>
        ELSE /\ held' = [held EXCEPT ![r][x] = work[p].cache[x] + 1]
             /\ Layout!Makes(r)
             /\ Layout!Becomes(p, [work[p] EXCEPT !.left = @ \ {x}])
             /\ UNCHANGED excused
  BY DEF Layout!Put
<1>4. CASE x \in ReadOnly
  <2>1. WorkTypes' /\ work'[p] = Layout!Idle /\ \A q \in Layout!Procs \ {p} : work'[q] = work[q]
    BY <1>3, <1>4, WorkEnds DEF LayoutTypes
  <2>2. LayoutTypes'
    BY <1>2, <1>3, <1>4, <2>1 DEF Layout!Put, LayoutTypes
  <2>3. QED BY <1>2, <1>3, <1>4, <2>1, <2>2
<1>5. CASE x \notin ReadOnly
  <2> DEFINE j == [work[p] EXCEPT !.left = @ \ {x}]
  <2>1. j \in PutWork /\ j.kind = "put" /\ j.root = r /\ j.cache = work[p].cache
        /\ j.left = work[p].left \ {x}
    BY <1>1 DEF PutWork
  <2>2. j \in Work
    BY <2>1 DEF Work
  <2>3. Layout!Becomes(p, j)
    BY <1>3, <1>5
  <2> HIDE DEF j
  <2>4. WorkTypes' /\ work'[p] = j /\ \A q \in Layout!Procs \ {p} : work'[q] = work[q]
    BY <2>2, <2>3, WorkStep DEF LayoutTypes
  <2>5. work[p].cache[x] + 1 \in Nat /\ x \in Layout!Items
    BY <1>1, <1>2
  <2>6. held' \in [Layout!Roots -> Caches]
    BY <1>2, <1>3, <1>5, <2>5 DEF LayoutTypes, Caches
  <2>7. made' \in {"none", "users", "admin"} /\ cut' \in BOOLEAN
    BY <1>3, <1>5, MakesFacts
  <2>8. LayoutTypes'
    BY <1>3, <1>5, <2>4, <2>6, <2>7 DEF Layout!Put, LayoutTypes
  <2>9. QED BY <1>1, <1>2, <1>3, <1>5, <2>1, <2>4, <2>8
<1>6. QED BY <1>4, <1>5

\* The steps after which a process has nothing to do any more.
LEMMA EndTypes ==
  ASSUME LayoutTypes, NEW p \in Layout!Procs,
         \/ Layout!Abort(p) \/ Layout!Mark(p) \/ Layout!Crash(p)
         \/ Layout!Stop /\ p = "server"
  PROVE  /\ LayoutTypes' /\ \A q \in Layout!Procs \ {p} : work'[q] = work[q]
         /\ work'[p] = Layout!Idle
<1>1. /\ WorkTypes' /\ work'[p] = Layout!Idle
      /\ \A q \in Layout!Procs \ {p} : work'[q] = work[q]
  BY WorkEnds DEF Layout!Abort, Layout!Mark, Layout!Crash, Layout!Stop, LayoutTypes
<1>2. CASE Layout!Abort(p) \/ Layout!Stop
  BY <1>1, <1>2, LayoutJustWork DEF Layout!Abort, Layout!Stop, LayoutTypes
<1>3. CASE Layout!Mark(p)
  <2>1. marker' \in [Layout!Roots -> BOOLEAN]
    BY <1>3 DEF Layout!Mark, LayoutTypes
  <2>2. made' \in {"none", "users", "admin"} /\ cut' \in BOOLEAN
    BY <1>3, MakesFacts DEF Layout!Mark
  <2>3. QED BY <1>1, <1>3, <2>1, <2>2 DEF Layout!Mark, LayoutTypes
<1>4. CASE Layout!Crash(p)
  <2>1. excused' \subseteq Layout!Roots
    BY <1>4, WorkFacts DEF Layout!Crash, LayoutTypes
  <2>2. made' \in {"none", "users", "admin"} /\ cut' \in BOOLEAN
    <3>1. CASE UNCHANGED made
      BY <1>4, <3>1, MakesFacts DEF Layout!Crash, LayoutTypes
    <3>2. CASE Layout!Makes(work[p].root)
      BY <3>2, MakesFacts
    <3>3. QED BY <1>4, <3>1, <3>2 DEF Layout!Crash
  <2>3. QED BY <1>1, <1>4, <2>1, <2>2 DEF Layout!Crash, LayoutTypes
<1>5. QED BY <1>1, <1>2, <1>3, <1>4
-----------------------------------------------------------------------------
(* A root that migrate-tz works on alone. *)

\* What happens elsewhere.
LEMMA Apart ==
  ASSUME LayoutTypes, NEW r \in Layout!Roots, RootSound(r), NEW p \in Layout!Procs,
         \A q \in Layout!Procs \ {p} : work'[q] = work[q],
         p \notin Layout!Shifting(r), p \notin Layout!Shifting(r)',
         \A x \in Given : held'[r][x] = held[r][x], marker'[r] = marker[r]
  PROVE  RootSound(r)'
<1>1. Layout!Shifting(r)' = Layout!Shifting(r)
  BY DEF Layout!Shifting
<1>2. ASSUME NEW q \in Layout!Shifting(r) PROVE AloneIn(q, r)'
  <2>1. AloneIn(q, r) /\ work'[q] = work[q]
    BY <1>2 DEF RootSound, Layout!Shifting
  <2>2. QED BY <2>1 DEF AloneIn, Unshifted, Agrees
<1>3. QED BY <1>1, <1>2 DEF RootSound, Unshifted

\* What the process at work in r does, and goes on.
LEMMA GoesOn ==
  ASSUME NEW r \in Layout!Roots, RootSound(r), NEW p \in Layout!Procs,
         \A q \in Layout!Procs \ {p} : work'[q] = work[q],
         Layout!Shifting(r) \subseteq {p}, p \in Layout!Shifting(r)', AloneIn(p, r)'
  PROVE  RootSound(r)'
<1>1. Layout!Shifting(r)' = {p}
  BY DEF Layout!Shifting
<1>2. QED BY <1>1 DEF RootSound

\* What it leaves behind.
LEMMA Leaves ==
  ASSUME NEW r \in Layout!Roots, RootSound(r), NEW p \in Layout!Shifting(r),
         \A q \in Layout!Procs \ {p} : work'[q] = work[q],
         p \notin Layout!Shifting(r)',
         IF marker'[r] THEN \A x \in Given : held'[r][x] \in {None, 1}
         ELSE \A x \in Given : held'[r][x] \in {None, 0}
  PROVE  RootSound(r)'
<1>1. Layout!Shifting(r) = {p}
  BY DEF RootSound
<1>2. Layout!Shifting(r)' = {}
  BY <1>1 DEF Layout!Shifting
<1>3. QED BY <1>2 DEF RootSound, Unshifted

LEMMA OneAtWork ==
  ASSUME NEW r \in Layout!Roots, RootSound(r), NEW p \in Layout!Shifting(r)
  PROVE  Layout!Shifting(r) \subseteq {p} /\ AloneIn(p, r)
  BY DEF RootSound

LEMMA LayoutInitSound ==
  ASSUME Layout!Init
  PROVE  ShiftInv /\ MoveInv
<1>1. \A p \in Layout!Procs : work[p] = Layout!Idle /\ work[p].kind = "idle"
  BY DEF Layout!Init, Layout!Idle
<1>2. \A r \in Layout!Roots : Layout!Shifting(r) = {} /\ ~marker[r]
  BY <1>1 DEF Layout!Shifting, Layout!Init
<1>3. \A r \in Layout!Roots : Unshifted(r)
  BY LayoutAssumption DEF Layout!Init, Unshifted
<1>4. AllIn("legacy")
  BY Served, LayoutAssumption DEF Layout!Init, AllIn
<1>5. work["server"].kind = "idle" /\ made = "none"
  BY <1>1, Served DEF Layout!Init
<1>6. QED BY <1>2, <1>3, <1>4, <1>5 DEF ShiftInv, RootSound, MoveInv

\* The server's steps but the move itself.
LEMMA ServerSound ==
  ASSUME LayoutTypes, ShiftInv,
         Layout!StartServer \/ Layout!MakeDir \/ Layout!MoveDone \/ Layout!Stop
  PROVE  ShiftInv'
<1> SUFFICES ASSUME NEW r \in Layout!Roots \ excused PROVE RootSound(r)'
  BY DEF ShiftInv, Layout!StartServer, Layout!MakeDir, Layout!MoveDone, Layout!Stop
<1>1. "server" \in Layout!Procs /\ RootSound(r) /\ work \in [Layout!Procs -> Work]
  BY Served DEF ShiftInv, LayoutTypes, WorkTypes
<1>2. \A q \in Layout!Procs \ {"server"} : work'[q] = work[q]
  BY <1>1 DEF Layout!StartServer, Layout!MakeDir, Layout!MoveDone, Layout!Stop, Layout!Becomes
<1>3. held' = held /\ marker' = marker
  BY DEF Layout!StartServer, Layout!MakeDir, Layout!MoveDone, Layout!Stop, Layout!disk
<1>4. work["server"].kind \in {"idle", "move", "serving"}
  BY DEF Layout!StartServer, Layout!MakeDir, Layout!MoveDone, Layout!Stop, Layout!Idle
<1>5. \/ work'["server"].kind \in {"idle", "move"}
      \/ work'["server"].kind = "open" /\ work'["server"].goal = "serving"
  <2>1. CASE Layout!StartServer
    <3>1. work'["server"] = IF made = "admin" THEN [kind |-> "open", root |-> "admin", goal |-> "serving"]
                            ELSE [kind |-> "move", left |-> Layout!Movable]
      BY <1>1, <2>1 DEF Layout!StartServer, Layout!Becomes
    <3>2. QED BY <3>1
  <2>2. CASE Layout!MakeDir
    BY <2>2 DEF Layout!MakeDir
  <2>3. CASE Layout!MoveDone
    BY <1>1, <2>3 DEF Layout!MoveDone, Layout!Becomes
  <2>4. CASE Layout!Stop
    <3>1. work'["server"] = Layout!Idle
      BY <1>1, <2>4 DEF Layout!Stop, Layout!Becomes
    <3>2. QED BY <3>1 DEF Layout!Idle
  <2>5. QED BY <2>1, <2>2, <2>3, <2>4
<1>6. "server" \notin Layout!Shifting(r) /\ "server" \notin Layout!Shifting(r)'
  BY <1>4, <1>5 DEF Layout!Shifting
<1>7. QED BY <1>1, <1>2, <1>3, <1>6, Apart

\* The move: of roots where migrate-tz is neither done nor at work, or both are excused.
LEMMA RenameSound ==
  ASSUME LayoutTypes, ShiftInv, Layout!Rename
  PROVE  ShiftInv'
<1> SUFFICES ASSUME NEW r \in Layout!Roots \ excused' PROVE RootSound(r)'
  BY DEF ShiftInv
<1>1. r \in Layout!Roots \ excused /\ marker' = marker
  BY DEF Layout!Rename
<1>2. "server" \in Layout!Procs /\ RootSound(r) /\ \A q \in Layout!Procs \ {"server"} : work'[q] = work[q]
  BY <1>1, Served, RenameWork DEF ShiftInv
<1>3. work'["server"].kind \in {"idle", "move"} /\ work["server"].kind = "move"
  BY RenameWork DEF MoveWork, Layout!Idle, Layout!Rename
<1>4. "server" \notin Layout!Shifting(r) /\ "server" \notin Layout!Shifting(r)'
  BY <1>3 DEF Layout!Shifting
<1>5. CASE UNCHANGED held
  BY <1>1, <1>2, <1>4, <1>5, Apart
<1>6. CASE held' # held
  <2> DEFINE taken == {x \in Layout!Items : Dir[x] = Head(work["server"].left)}
             swept == {s \in Layout!Roots : s \in excused \/ marker[s] \/ Layout!Shifting(s) # {}}
  <2>1. held' = Layout!Moved(held, taken)
        /\ excused' = excused \cup (IF swept # {} THEN Layout!Roots ELSE {})
    BY <1>6 DEF Layout!Rename
  <2>2. swept = {}
    BY <2>1
  <2>3. \A s \in Layout!Roots : s \notin excused /\ ~marker[s] /\ Layout!Shifting(s) = {}
    BY <2>2
  <2>4. \A s \in Layout!Roots : Unshifted(s)
    BY <2>3 DEF ShiftInv, RootSound
  <2>5. \A x \in Given : held'[r][x] \in {None, 0}
    <3>1. \A x \in Given : x \in Layout!Items
      BY LayoutAssumption
    <3>2. ASSUME NEW x \in Given, r = "admin" PROVE held'[r][x] \in {held["admin"][x], held["legacy"][x]}
      BY <2>1, <3>1, <3>2, MovedFacts DEF LayoutTypes
    <3>3. ASSUME NEW x \in Given, r = "legacy" PROVE held'[r][x] \in {None, held["legacy"][x]}
      BY <2>1, <3>1, <3>3, MovedFacts DEF LayoutTypes
    <3>4. QED BY <2>4, <3>2, <3>3 DEF Layout!Roots, Unshifted
  <2>6. Layout!Shifting(r)' = {}
    BY <1>2, <1>4, <2>3 DEF Layout!Shifting
  <2>7. QED BY <1>1, <2>3, <2>5, <2>6 DEF RootSound, Unshifted
<1>7. QED BY <1>5, <1>6

LEMMA StartCommandSound ==
  ASSUME LayoutTypes, ShiftInv, NEW p \in Commands, NEW goal \in {"add", "tz"},
         Layout!StartCommand(p, goal)
  PROVE  ShiftInv'
<1> SUFFICES ASSUME NEW r \in Layout!Roots \ excused' PROVE RootSound(r)'
  BY DEF ShiftInv
<1>1. /\ p \in Layout!Procs /\ held' = held /\ marker' = marker /\ work[p] = Layout!Idle
      /\ r \in Layout!Roots \ excused /\ RootSound(r)
      /\ \A q \in Layout!Procs \ {p} : work'[q] = work[q]
  BY StartCommandTypes DEF Layout!StartCommand, Layout!disk, ShiftInv
<1>2. p \notin Layout!Shifting(r)
  BY <1>1 DEF Layout!Shifting, Layout!Idle
<1>3. CASE work' = work
  BY <1>1, <1>2, <1>3, Apart DEF Layout!Shifting
<1>4. CASE work'[p] = [kind |-> "open", root |-> Layout!Effective, goal |-> goal]
           /\ ~(goal = "tz" /\ marker[Layout!Effective])
  <2>1. CASE goal # "tz" \/ r # Layout!Effective
    <3>1. p \notin Layout!Shifting(r)'
      BY <1>4, <2>1 DEF Layout!Shifting
    <3>2. QED BY <1>1, <1>2, <3>1, Apart
  <2>2. CASE goal = "tz" /\ r = Layout!Effective
    <3>1. Layout!Shifting(r) = {}
      BY <2>2 DEF Layout!StartCommand
    <3>2. Unshifted(r) /\ ~marker[r]
      BY <1>1, <1>4, <2>2, <3>1 DEF RootSound
    <3>3. p \in Layout!Shifting(r)' /\ work'[p].kind = "open"
      BY <1>1, <1>4, <2>2 DEF Layout!Shifting
    <3>4. AloneIn(p, r)'
      BY <1>1, <3>2, <3>3 DEF AloneIn, Unshifted
    <3>5. QED BY <1>1, <3>1, <3>3, <3>4, GoesOn
  <2>3. QED BY <2>1, <2>2
<1>5. QED BY <1>3, <1>4, StartCommandTypes

LEMMA OpenSound ==
  ASSUME LayoutTypes, ShiftInv, NEW p \in Layout!Procs, Layout!Open(p)
  PROVE  ShiftInv'
<1> SUFFICES ASSUME NEW r \in Layout!Roots \ excused' PROVE RootSound(r)'
  BY DEF ShiftInv
<1>1. /\ held' = held /\ marker' = marker /\ work[p].kind = "open"
      /\ r \in Layout!Roots \ excused /\ RootSound(r)
      /\ \A q \in Layout!Procs \ {p} : work'[q] = work[q]
  BY OpenTypes DEF Layout!Open, Layout!disk, ShiftInv
<1>2. \/ /\ work'[p].kind = work[p].goal /\ work'[p].root = work[p].root
         /\ work'[p].cache = held[work[p].root] /\ work'[p].kind \in {"serving", "add", "tz"}
      \/ /\ work'[p].kind = "unlist" /\ work'[p].root = work[p].root
         /\ work'[p].then.kind = work[p].goal /\ work'[p].then.cache = held[work[p].root]
  BY OpenTypes DEF OpenedWork
<1>3. p \in Layout!Shifting(r) <=> work[p].goal = "tz" /\ work[p].root = r
  BY <1>1 DEF Layout!Shifting
<1>4. p \in Layout!Shifting(r)' <=> work[p].goal = "tz" /\ work[p].root = r
  BY <1>2 DEF Layout!Shifting
<1>5. CASE work[p].goal = "tz" /\ work[p].root = r
  <2>1. Layout!Shifting(r) \subseteq {p} /\ AloneIn(p, r)
    BY <1>1, <1>3, <1>5, OneAtWork
  <2>2. Unshifted(r)
    BY <1>1, <2>1 DEF AloneIn
  <2>3. AloneIn(p, r)'
    BY <1>1, <1>2, <1>5, <2>1, <2>2 DEF AloneIn, Unshifted, Agrees
  <2>4. QED BY <1>1, <1>4, <1>5, <2>1, <2>3, GoesOn
<1>6. CASE ~(work[p].goal = "tz" /\ work[p].root = r)
  BY <1>1, <1>3, <1>4, <1>6, Apart
<1>7. QED BY <1>5, <1>6

LEMMA ListSound ==
  ASSUME LayoutTypes, ShiftInv, NEW p \in Layout!Procs, Layout!Unlist(p) \/ Layout!Enlist(p)
  PROVE  ShiftInv'
<1> SUFFICES ASSUME NEW r \in Layout!Roots \ excused' PROVE RootSound(r)'
  BY DEF ShiftInv
<1>1. /\ held' = held /\ marker' = marker /\ work[p].kind \in {"unlist", "enlist"}
      /\ r \in Layout!Roots \ excused /\ RootSound(r)
      /\ \A q \in Layout!Procs \ {p} : work'[q] = work[q]
  BY UnlistTypes, EnlistTypes DEF Layout!Unlist, Layout!Enlist, ShiftInv
<1>2. \/ work'[p] = Layout!Idle
      \/ work'[p].kind = "enlist" /\ work'[p].root = work[p].root /\ work'[p].then = work[p].then
      \/ work'[p] = work[p].then
  BY UnlistTypes, EnlistTypes
<1>3. work[p] \in ListWork /\ work[p].then \in OpenedWork
  BY <1>1, WorkFacts DEF LayoutTypes, ListWork
<1>4. p \in Layout!Shifting(r) <=> work[p].then.kind = "tz" /\ work[p].root = r
  BY <1>1 DEF Layout!Shifting
<1>5. p \in Layout!Shifting(r)' => p \in Layout!Shifting(r)
  BY <1>2, <1>3, <1>4 DEF Layout!Shifting, Layout!Idle, ListWork, OpenedWork
<1>6. CASE p \notin Layout!Shifting(r)
  BY <1>1, <1>5, <1>6, Apart
<1>7. CASE p \in Layout!Shifting(r)
  <2>1. Layout!Shifting(r) \subseteq {p} /\ AloneIn(p, r)
    BY <1>1, <1>7, OneAtWork
  <2>2. Unshifted(r) /\ Agrees(work[p].then.cache, r) /\ ~marker[r]
    BY <1>1, <2>1 DEF AloneIn
  <2>3. CASE work'[p] = Layout!Idle
    <3>1. p \notin Layout!Shifting(r)'
      BY <2>3 DEF Layout!Shifting, Layout!Idle
    <3>2. QED BY <1>1, <1>7, <2>2, <3>1, Leaves DEF Unshifted
  <2>4. CASE work'[p].kind = "enlist" /\ work'[p].root = work[p].root /\ work'[p].then = work[p].then
    <3>1. p \in Layout!Shifting(r)'
      BY <1>4, <1>7, <2>4 DEF Layout!Shifting
    <3>2. AloneIn(p, r)'
      BY <1>1, <2>2, <2>4 DEF AloneIn, Unshifted, Agrees
    <3>3. QED BY <1>1, <2>1, <3>1, <3>2, GoesOn
  <2>5. CASE work'[p] = work[p].then
    <3>1. work'[p].kind = "tz" /\ work'[p].root = r
      BY <1>3, <1>4, <1>7, <2>5 DEF ListWork
    <3>2. p \in Layout!Shifting(r)'
      BY <3>1 DEF Layout!Shifting
    <3>3. AloneIn(p, r)'
      BY <1>1, <2>2, <2>5, <3>1 DEF AloneIn, Unshifted, Agrees
    <3>4. QED BY <1>1, <2>1, <3>2, <3>3, GoesOn
  <2>6. QED BY <1>2, <2>3, <2>4, <2>5
<1>8. QED BY <1>6, <1>7

LEMMA AddSound ==
  ASSUME LayoutTypes, ShiftInv, NEW p \in Layout!Procs, Layout!Add(p)
  PROVE  ShiftInv'
<1> SUFFICES ASSUME NEW r \in Layout!Roots \ excused' PROVE RootSound(r)'
  BY DEF ShiftInv
<1>1. /\ marker' = marker /\ work[p].kind = "add" /\ work'[p] = Layout!Idle
      /\ r \in Layout!Roots \ excused /\ RootSound(r)
      /\ \A q \in Layout!Procs \ {p} : work'[q] = work[q]
      /\ \A y \in Given : held'[r][y] = held[r][y]
  BY AddTypes DEF Layout!Add, ShiftInv
<1>2. p \notin Layout!Shifting(r) /\ p \notin Layout!Shifting(r)'
  BY <1>1 DEF Layout!Shifting, Layout!Idle
<1>3. QED BY <1>1, <1>2, Apart

LEMMA ScanSound ==
  ASSUME LayoutTypes, ShiftInv, NEW p \in Layout!Procs, Layout!Scan(p)
  PROVE  ShiftInv'
<1> SUFFICES ASSUME NEW r \in Layout!Roots \ excused' PROVE RootSound(r)'
  BY DEF ShiftInv
<1>1. /\ marker' = marker /\ held' = held /\ work[p].kind = "tz"
      /\ r \in Layout!Roots \ excused /\ RootSound(r)
      /\ \A q \in Layout!Procs \ {p} : work'[q] = work[q]
  BY ScanTypes DEF Layout!Scan, Layout!disk, ShiftInv
<1>2. /\ work'[p].kind = "put" /\ work'[p].root = work[p].root /\ work'[p].cache = work[p].cache
      /\ work'[p].left = {x \in Layout!Items : work[p].cache[x] # None}
  BY ScanTypes
<1>3. /\ p \in Layout!Shifting(r) <=> work[p].root = r
      /\ p \in Layout!Shifting(r)' <=> work[p].root = r
  BY <1>1, <1>2 DEF Layout!Shifting
<1>4. CASE work[p].root # r
  BY <1>1, <1>3, <1>4, Apart
<1>5. CASE work[p].root = r
  <2>1. Layout!Shifting(r) \subseteq {p} /\ AloneIn(p, r)
    BY <1>1, <1>3, <1>5, OneAtWork
  <2>2. Unshifted(r) /\ Agrees(work[p].cache, r) /\ ~marker[r]
    BY <1>1, <2>1 DEF AloneIn
  <2>3. ASSUME NEW x \in Given
        PROVE  IF x \in work'[p].left THEN held[r][x] = 0 /\ work[p].cache[x] = 0
               ELSE held[r][x] = None
    <3>1. x \in work'[p].left <=> held[r][x] # None
      BY <1>2, <2>2, LayoutAssumption DEF Agrees
    <3>2. held[r][x] \in {None, 0} /\ work[p].cache[x] = held[r][x]
      BY <2>2 DEF Unshifted, Agrees
    <3>3. QED BY <3>1, <3>2
  <2>4. AloneIn(p, r)'
    BY <1>1, <1>2, <2>2, <2>3 DEF AloneIn
  <2>5. QED BY <1>1, <1>3, <1>5, <2>1, <2>4, GoesOn
<1>6. QED BY <1>4, <1>5

LEMMA PutSound ==
  ASSUME LayoutTypes, ShiftInv, NEW p \in Layout!Procs, Layout!Put(p)
  PROVE  ShiftInv'
<1> SUFFICES ASSUME NEW r \in Layout!Roots \ excused' PROVE RootSound(r)'
  BY DEF ShiftInv
<1>1. /\ marker' = marker /\ work[p].kind = "put" /\ work[p].root \in Layout!Roots
      /\ r \in Layout!Roots \ excused /\ RootSound(r)
      /\ \A q \in Layout!Procs \ {p} : work'[q] = work[q]
  BY PutTypes DEF Layout!Put, ShiftInv
<1>2. CASE work'[p] = Layout!Idle /\ UNCHANGED held /\ excused' = excused \cup {work[p].root}
  <2>1. p \notin Layout!Shifting(r) /\ p \notin Layout!Shifting(r)'
    BY <1>1, <1>2 DEF Layout!Shifting, Layout!Idle
  <2>2. QED BY <1>1, <1>2, <2>1, Apart
<1>3. ASSUME NEW x \in work[p].left,
             work[p].cache[x] \in Nat,
             held' = [held EXCEPT ![work[p].root][x] = work[p].cache[x] + 1],
             work'[p].kind = "put" /\ work'[p].root = work[p].root
             /\ work'[p].cache = work[p].cache /\ work'[p].left = work[p].left \ {x}
      PROVE  RootSound(r)'
  <2>1. /\ p \in Layout!Shifting(r) <=> work[p].root = r
        /\ p \in Layout!Shifting(r)' <=> work[p].root = r
    BY <1>1, <1>3 DEF Layout!Shifting
  <2>2. CASE work[p].root # r
    <3>1. held'[r] = held[r]
      BY <1>1, <1>3, <2>2 DEF LayoutTypes
    <3>2. QED BY <1>1, <2>1, <2>2, <3>1, Apart
  <2>3. CASE work[p].root = r
    <3>1. Layout!Shifting(r) \subseteq {p} /\ AloneIn(p, r)
      BY <1>1, <2>1, <2>3, OneAtWork
    <3>2. /\ ~marker[r]
          /\ \A y \in Given : IF y \in work[p].left THEN held[r][y] = 0 /\ work[p].cache[y] = 0
                             ELSE held[r][y] \in {None, 1}
      BY <1>1, <3>1 DEF AloneIn
    <3>3. held[r] \in Caches /\ held'[r] = [held[r] EXCEPT ![x] = work[p].cache[x] + 1]
      BY <1>1, <1>3, <2>3 DEF LayoutTypes
    <3>4. ASSUME NEW y \in Given
          PROVE  IF y \in work'[p].left THEN held'[r][y] = 0 /\ work'[p].cache[y] = 0
                 ELSE held'[r][y] \in {None, 1}
      <4>1. y \in Layout!Items
        BY LayoutAssumption
      <4>2. CASE y = x
        <5>1. held'[r][y] = 0 + 1
          BY <3>2, <3>3, <4>1, <4>2 DEF Caches
        <5>2. QED BY <1>3, <4>2, <5>1
      <4>3. CASE y # x
        <5>1. held'[r][y] = held[r][y]
          BY <3>3, <4>1, <4>3 DEF Caches
        <5>2. y \in work'[p].left <=> y \in work[p].left
          BY <1>3, <4>3
        <5>3. QED BY <1>3, <3>2, <5>1, <5>2
      <4>4. QED BY <4>2, <4>3
    <3>5. AloneIn(p, r)'
      BY <1>1, <1>3, <3>2, <3>4 DEF AloneIn
    <3>6. QED BY <1>1, <2>1, <2>3, <3>1, <3>5, GoesOn
  <2>4. QED BY <2>2, <2>3
<1>4. QED BY <1>2, <1>3, PutTypes

LEMMA MarkSound ==
  ASSUME LayoutTypes, ShiftInv, NEW p \in Layout!Procs, Layout!Mark(p)
  PROVE  ShiftInv'
<1> SUFFICES ASSUME NEW r \in Layout!Roots \ excused' PROVE RootSound(r)'
  BY DEF ShiftInv
<1>1. /\ held' = held /\ work[p].kind = "put" /\ work'[p] = Layout!Idle /\ work[p].left = {}
      /\ marker' = [marker EXCEPT ![work[p].root] = TRUE] /\ work[p].root \in Layout!Roots
      /\ r \in Layout!Roots \ excused /\ RootSound(r)
      /\ \A q \in Layout!Procs \ {p} : work'[q] = work[q]
  BY EndTypes, WorkFacts DEF Layout!Mark, ShiftInv, LayoutTypes
<1>2. p \notin Layout!Shifting(r)' /\ (p \in Layout!Shifting(r) <=> work[p].root = r)
  BY <1>1 DEF Layout!Shifting, Layout!Idle
<1>3. CASE work[p].root # r
  <2>1. marker'[r] = marker[r]
    BY <1>1, <1>3 DEF LayoutTypes
  <2>2. QED BY <1>1, <1>2, <1>3, <2>1, Apart
<1>4. CASE work[p].root = r
  <2>1. AloneIn(p, r)
    BY <1>1, <1>2, <1>4, OneAtWork
  <2>2. \A x \in Given : held'[r][x] \in {None, 1}
    BY <1>1, <2>1 DEF AloneIn
  <2>3. marker'[r]
    BY <1>1, <1>4 DEF LayoutTypes
  <2>4. QED BY <1>1, <1>2, <1>4, <2>2, <2>3, Leaves
<1>5. QED BY <1>3, <1>4

\* Who stops before it has written anything leaves everything as it was.
LEMMA StopsSound ==
  ASSUME LayoutTypes, ShiftInv, NEW p \in Layout!Procs, Layout!Abort(p) \/ Layout!Crash(p)
  PROVE  ShiftInv'
<1> SUFFICES ASSUME NEW r \in Layout!Roots \ excused' PROVE RootSound(r)'
  BY DEF ShiftInv
<1>1. /\ held' = held /\ marker' = marker /\ work'[p] = Layout!Idle
      /\ r \in Layout!Roots \ excused /\ RootSound(r)
      /\ \A q \in Layout!Procs \ {p} : work'[q] = work[q]
  BY EndTypes DEF Layout!Abort, Layout!Crash, Layout!disk, ShiftInv
<1>2. work[p].kind = "put" => work[p].root # r
  BY DEF Layout!Abort, Layout!Crash
<1>3. p \notin Layout!Shifting(r)'
  BY <1>1 DEF Layout!Shifting, Layout!Idle
<1>4. CASE p \notin Layout!Shifting(r)
  BY <1>1, <1>3, <1>4, Apart
<1>5. CASE p \in Layout!Shifting(r)
  <2>1. AloneIn(p, r) /\ work[p].kind # "put"
    BY <1>1, <1>2, <1>5, OneAtWork DEF Layout!Shifting
  <2>2. Unshifted(r) /\ ~marker[r]
    BY <2>1 DEF AloneIn
  <2>3. QED BY <1>1, <1>3, <1>5, <2>2, Leaves DEF Unshifted
<1>6. QED BY <1>4, <1>5

LEMMA ShiftStep ==
  ASSUME LayoutTypes, ShiftInv, [Layout!Next]_(Layout!vars)
  PROVE  LayoutTypes' /\ ShiftInv'
<1>1. CASE UNCHANGED Layout!vars
  <2>1. LayoutTypes'
    BY <1>1 DEF LayoutTypes, WorkTypes, Layout!vars, Layout!disk
  <2>2. ShiftInv'
    BY <1>1 DEF ShiftInv, RootSound, AloneIn, Unshifted, Agrees, Layout!Shifting, Layout!vars,
                Layout!disk
  <2>3. QED BY <2>1, <2>2
<1>2. CASE Layout!StartServer \/ Layout!MakeDir \/ Layout!MoveDone \/ Layout!Stop
  <2>1. LayoutTypes'
    BY <1>2, StartServerTypes, MakeDirTypes, MoveDoneTypes, EndTypes, Served
  <2>2. QED BY <1>2, <2>1, ServerSound
<1>3. CASE Layout!Rename
  BY <1>3, RenameTypes, RenameSound
<1>4. ASSUME NEW p \in Commands, NEW goal \in {"add", "tz"}, Layout!StartCommand(p, goal)
      PROVE  LayoutTypes' /\ ShiftInv'
  BY <1>4, StartCommandTypes, StartCommandSound
<1>5. ASSUME NEW p \in Layout!Procs,
             \/ Layout!Open(p) \/ Layout!Unlist(p) \/ Layout!Enlist(p) \/ Layout!Add(p)
             \/ Layout!Scan(p) \/ Layout!Abort(p) \/ Layout!Put(p) \/ Layout!Mark(p)
             \/ Layout!Crash(p)
      PROVE  LayoutTypes' /\ ShiftInv'
  <2>1. LayoutTypes'
    BY <1>5, OpenTypes, UnlistTypes, EnlistTypes, AddTypes, ScanTypes, PutTypes, EndTypes
  <2>2. QED BY <1>5, <2>1, OpenSound, ListSound, AddSound, ScanSound, PutSound, MarkSound, StopsSound
<1>6. QED BY <1>1, <1>2, <1>3, <1>4, <1>5 DEF Layout!Next

LEMMA ShiftInvShifted ==
  ASSUME LayoutTypes, ShiftInv
  PROVE  ShiftedOnce
<1> SUFFICES ASSUME NEW r \in Layout!Roots \ excused, NEW x \in Given, held[r][x] # None
             PROVE  held[r][x] <= 1 /\ (marker[r] => held[r][x] = 1)
  BY DEF ShiftedOnce, Layout!ShiftedOnce
<1>1. RootSound(r)
  BY DEF ShiftInv
<1>2. CASE Layout!Shifting(r) = {}
  BY <1>1, <1>2 DEF RootSound, Unshifted
<1>3. ASSUME NEW p \in Layout!Shifting(r) PROVE ~marker[r] /\ held[r][x] \in {0, 1}
  <2>1. AloneIn(p, r)
    BY <1>1, OneAtWork
  <2>2. QED BY <2>1 DEF AloneIn, Unshifted
<1>4. QED BY <1>2, <1>3

\* "Re-running is a true no-op": the stamps that were there are shifted once at most,
\* and once where the marker stands, unless migrate-tz was stopped in the middle, ran
\* twice at once, or was moved away under.
THEOREM StampsShiftOnce == Layout!Spec => []ShiftedOnce
<1>1. Layout!Init => LayoutTypes /\ ShiftInv
  BY LayoutInitTypes, LayoutInitSound
<1>2. LayoutTypes /\ ShiftInv /\ [Layout!Next]_(Layout!vars) => (LayoutTypes /\ ShiftInv)'
  BY ShiftStep
<1>3. LayoutTypes /\ ShiftInv => ShiftedOnce
  BY ShiftInvShifted
<1>4. QED BY <1>1, <1>2, <1>3, PTL DEF Layout!Spec

-----------------------------------------------------------------------------
(* What there was is where the server looks for it. *)

\* The steps of the others, and those of a server that opens or stops: what there is
\* stays.
LEMMA MoveKept ==
  ASSUME LayoutTypes, MoveInv, made' = made, cut => cut',
         \/ work'["server"] = work["server"]
         \/ work["server"].kind \notin {"idle", "move"} /\ work'["server"].kind # "move"
         \/ /\ work'["server"].kind = "idle"
            /\ work["server"].kind = "move" /\ made = "admin" => cut',
         \A r \in Layout!Roots : \A x \in Given : held[r][x] # None => held'[r][x] # None
  PROVE  MoveInv'
<1>1. AllIn("admin") => AllIn("admin")'
  BY Served DEF AllIn
<1>2. AllIn("legacy") => AllIn("legacy")'
  BY Served DEF AllIn
<1>3. CASE work'["server"] = work["server"]
  <2>1. ASSUME NEW x \in Given, held[Place(x, work["server"].left)][x] # None
        PROVE  held'[Place(x, work["server"].left)][x] # None
    BY <2>1, Served DEF Place
  <2>2. QED BY <1>1, <1>2, <1>3, <2>1 DEF MoveInv, Place
<1>4. CASE work["server"].kind \notin {"idle", "move"} /\ work'["server"].kind # "move"
  BY <1>1, <1>2, <1>4 DEF MoveInv
<1>5. CASE /\ work'["server"].kind = "idle"
           /\ work["server"].kind = "move" /\ made = "admin" => cut'
  BY <1>1, <1>2, <1>5 DEF MoveInv
<1>6. QED BY <1>3, <1>4, <1>5

\* A write of another process may make users/admin: of a server that is at the move
\* everything is still to be moved.
LEMMA MadeMove ==
  ASSUME LayoutTypes, MoveInv, NEW r, Layout!Makes(r),
         NEW p \in Layout!Procs, work[p].kind \notin {"idle", "move"}, work'[p].kind # "move",
         \A q \in Layout!Procs \ {p} : work'[q] = work[q],
         \A s \in Layout!Roots : \A x \in Given : held[s][x] # None => held'[s][x] # None
  PROVE  MoveInv'
<1>1. cut => cut'
  BY MakesFacts
<1>2. CASE made' = made
  <2>1. CASE p = "server"
    BY <1>1, <1>2, <2>1, MoveKept
  <2>2. CASE p # "server"
    BY <1>1, <1>2, <2>2, Served, MoveKept
  <2>3. QED BY <2>1, <2>2
<1>3. CASE made' # made
  <2>1. made # "admin" /\ made' = "admin" /\ (cut' \/ work["server"].kind = "move")
    BY <1>3, MakesFacts
  <2>2. CASE cut'
    BY <2>1, <2>2 DEF MoveInv
  <2>3. CASE ~cut'
    <3>1. p # "server" /\ work["server"].kind = "move"
      BY <2>1, <2>3
    <3>2. work'["server"] = work["server"] /\ work["server"].left = Layout!Movable
      BY <2>1, <3>1, Served DEF MoveInv
    <3>3. \A x \in Given : held["legacy"][x] # None /\ held'["legacy"][x] # None
      BY <1>1, <2>1, <2>3, Served DEF MoveInv, AllIn
    <3>4. \A x \in Given : Place(x, Layout!Movable) = "legacy"
      BY LayoutAssumption, MovableFacts DEF Place
    <3>5. \A x \in Given : Place(x, work["server"].left)' = "legacy"
      BY <3>2, <3>4 DEF Place
    <3>6. QED BY <2>1, <3>1, <3>2, <3>3, <3>5 DEF MoveInv
  <2>4. QED BY <2>2, <2>3
<1>4. QED BY <1>2, <1>3

LEMMA StartServerMove ==
  ASSUME LayoutTypes, MoveInv, Layout!StartServer
  PROVE  MoveInv'
<1>1. /\ made' = made /\ held' = held /\ cut' = cut /\ work["server"].kind = "idle"
      /\ work'["server"] =
           IF made = "admin" THEN [kind |-> "open", root |-> "admin", goal |-> "serving"]
           ELSE [kind |-> "move", left |-> Layout!Movable]
  BY Served DEF Layout!StartServer, Layout!disk, Layout!Becomes, Layout!Idle, LayoutTypes, WorkTypes
<1>2. AllIn("admin")' = AllIn("admin") /\ AllIn("legacy")' = AllIn("legacy")
  BY <1>1 DEF AllIn
<1>3. CASE made = "admin"
  <2>1. work'["server"].kind = "open"
    BY <1>1, <1>3
  <2>2. QED BY <1>1, <1>2, <1>3, <2>1 DEF MoveInv
<1>4. CASE made # "admin"
  <2>1. work'["server"].kind = "move" /\ work'["server"].left = Layout!Movable
    BY <1>1, <1>4
  <2>2. QED BY <1>1, <1>2, <1>4, <2>1 DEF MoveInv
<1>5. QED BY <1>3, <1>4

LEMMA MakeDirMove ==
  ASSUME LayoutTypes, MoveInv, Layout!MakeDir
  PROVE  MoveInv'
<1>1. /\ work' = work /\ held' = held /\ cut' = cut /\ made # "admin"
      /\ work["server"].kind = "move" /\ work["server"].left = Layout!Movable
  BY DEF Layout!MakeDir, MoveInv
<1>2. \A x \in Given : Place(x, Layout!Movable) = "legacy"
  BY LayoutAssumption, MovableFacts DEF Place
<1>3. ~cut => AllIn("legacy")
  BY <1>1 DEF MoveInv
<1>4. AllIn("legacy") => /\ AllIn("legacy")'
                         /\ \A x \in Given : held'[Place(x, Layout!Movable)][x] # None
  BY <1>1, <1>2 DEF AllIn
<1>5. \A x \in Given : Place(x, work["server"].left)' = Place(x, Layout!Movable)
  BY <1>1 DEF Place
<1>6. QED BY <1>1, <1>3, <1>4, <1>5 DEF MoveInv

LEMMA MoveDoneMove ==
  ASSUME LayoutTypes, MoveInv, Layout!MoveDone
  PROVE  MoveInv'
<1>1. /\ made' = made /\ held' = held /\ cut' = cut /\ work["server"].kind = "move"
      /\ work["server"].left = <<>> /\ work'["server"].kind = "open"
  BY Served DEF Layout!MoveDone, Layout!disk, Layout!Becomes, LayoutTypes, WorkTypes
<1>2. made = "admin"
  BY <1>1 DEF MoveInv, Layout!Movable
<1>3. \A x \in Given : Place(x, <<>>) = "admin"
  BY DEF Place
<1>4. ~cut => AllIn("admin")'
  BY <1>1, <1>2, <1>3 DEF MoveInv, AllIn
<1>5. QED BY <1>1, <1>2, <1>4 DEF MoveInv

\* A directory is moved with all that is in it, and there is none in its way.
LEMMA RenameMove ==
  ASSUME LayoutTypes, MoveInv, Layout!Rename
  PROVE  MoveInv'
<1> DEFINE l == work["server"].left
<1>1. made' = made /\ made = "admin" /\ work["server"].kind = "move" /\ l \in ToMove \ {<<>>}
  BY RenameWork DEF Layout!Rename
<1>2. CASE Layout!GiveUp /\ work'["server"] = Layout!Idle
  <2>1. cut' /\ work'["server"].kind = "idle"
    BY <1>2 DEF Layout!GiveUp, Layout!Idle
  <2>2. QED BY <1>1, <2>1 DEF MoveInv
<1>3. CASE work'["server"] \in MoveWork /\ UNCHANGED cut /\ work'["server"].left = Tail(l)
  <2>1. work'["server"].kind = "move"
    BY <1>3 DEF MoveWork
  <2>2. ASSUME ~cut, NEW x \in Given PROVE held'[Place(x, Tail(l))][x] # None
    <3>1. held[Place(x, l)][x] # None /\ x \in Layout!Items
      BY <1>1, <2>2, LayoutAssumption DEF MoveInv
    <3> DEFINE d == Head(l)
               taken == {y \in Layout!Items : Dir[y] = d}
    <3>2. CASE Dir[x] = d
      <4>1. Place(x, l) = "legacy" /\ Place(x, Tail(l)) = "admin"
        <5>1. /\ (\E i \in DOMAIN l : l[i] = d)
              /\ \A i \in DOMAIN Tail(l) : Tail(l)[i] # d
          BY <1>1, MovableFacts
        <5>2. QED BY <3>2, <5>1 DEF Place
      <4>2. d # "projects" /\ Layout!There("legacy", d)
        BY <3>1, <3>2, <4>1, LayoutAssumption DEF Layout!There
      <4>3. held' = Layout!Moved(held, taken)
        BY <1>3, <2>2, <4>2 DEF Layout!Rename, Layout!GiveUp
      <4>4. held'["admin"][x] = held["legacy"][x]
        BY <3>1, <3>2, <4>3, MovedFacts, Served DEF LayoutTypes
      <4>5. QED BY <3>1, <4>1, <4>4
    <3>3. CASE Dir[x] # d
      <4>1. Place(x, l) = Place(x, Tail(l)) /\ Place(x, l) \in Layout!Roots
        BY <1>1, <3>3, MovableFacts, Served DEF Place
      <4>2. held' = held \/ held' = Layout!Moved(held, taken)
        BY DEF Layout!Rename
      <4>3. held'[Place(x, l)][x] = held[Place(x, l)][x]
        BY <3>1, <3>3, <4>1, <4>2, MovedFacts DEF LayoutTypes
      <4>4. QED BY <3>1, <4>1, <4>3
    <3>4. QED BY <3>2, <3>3
  <2>3. \A x \in Given : Place(x, work["server"].left)' = Place(x, Tail(l))
    BY <1>3 DEF Place
  <2>4. QED BY <1>1, <1>3, <2>1, <2>2, <2>3 DEF MoveInv
<1>4. QED BY <1>2, <1>3, RenameWork

LEMMA OthersMove ==
  ASSUME LayoutTypes, MoveInv, NEW p \in Layout!Procs,
         \/ Layout!Open(p) \/ Layout!Unlist(p) \/ Layout!Enlist(p) \/ Layout!Add(p)
         \/ Layout!Scan(p) \/ Layout!Abort(p) \/ Layout!Put(p) \/ Layout!Mark(p)
         \/ Layout!Stop /\ p = "server"
  PROVE  MoveInv'
<1>1. /\ work[p].kind \notin {"idle", "move"}
      /\ \/ made' = made /\ cut' = cut
         \/ Layout!Makes(work[p].root)
  BY DEF Layout!Open, Layout!Unlist, Layout!Enlist, Layout!Add, Layout!Scan, Layout!Abort,
         Layout!Put, Layout!Mark, Layout!Stop, Layout!disk
<1>2. \A r \in Layout!Roots : \A x \in Given : held[r][x] # None => held'[r][x] # None
  <2>1. CASE Layout!Add(p)
    BY <2>1, AddTypes
  <2>2. CASE Layout!Put(p)
    <3>1. CASE held' = held
      BY <3>1
    <3>2. ASSUME NEW y \in work[p].left, work[p].cache[y] \in Nat,
                 held' = [held EXCEPT ![work[p].root][y] = work[p].cache[y] + 1],
                 NEW r \in Layout!Roots, NEW x \in Given, held[r][x] # None
          PROVE  held'[r][x] # None
      <4>1. work[p].cache[y] + 1 # None /\ x \in Layout!Items
        BY <3>2, LayoutAssumption
      <4>2. held[r] \in Caches /\ held \in [Layout!Roots -> Caches]
        BY DEF LayoutTypes
      <4>3. held'[r][x] = IF r = work[p].root /\ x = y THEN work[p].cache[y] + 1 ELSE held[r][x]
        BY <3>2, <4>1, <4>2 DEF Caches
      <4>4. QED BY <3>2, <4>1, <4>3
    <3>3. QED BY <2>2, <3>1, <3>2, PutTypes
  <2>3. CASE held' = held
    BY <2>3
  <2>4. QED
    BY <2>1, <2>2, <2>3 DEF Layout!Open, Layout!Unlist, Layout!Enlist, Layout!Scan, Layout!Abort,
       Layout!Mark, Layout!Stop, Layout!disk
<1>3. /\ \A q \in Layout!Procs \ {p} : work'[q] = work[q]
      /\ work'[p].kind # "move"
  <2>1. CASE Layout!Open(p)
    BY <2>1, OpenTypes DEF OpenedWork, ListWork
  <2>2. CASE Layout!Unlist(p)
    BY <2>2, UnlistTypes DEF Layout!Idle
  <2>3. CASE Layout!Enlist(p)
    BY <2>3, EnlistTypes DEF ListWork, OpenedWork
  <2>4. CASE Layout!Add(p)
    BY <2>4, AddTypes DEF Layout!Idle
  <2>5. CASE Layout!Scan(p)
    BY <2>5, ScanTypes
  <2>6. CASE Layout!Put(p)
    <3>1. /\ \A q \in Layout!Procs \ {p} : work'[q] = work[q]
          /\ work'[p] = Layout!Idle \/ work'[p].kind = "put"
      BY <2>6, PutTypes
    <3>2. QED BY <3>1 DEF Layout!Idle
  <2>7. CASE \/ Layout!Abort(p) \/ Layout!Mark(p)
             \/ Layout!Stop /\ p = "server"
    BY <2>7, EndTypes DEF Layout!Idle
  <2>8. QED BY <2>1, <2>2, <2>3, <2>4, <2>5, <2>6, <2>7
<1>4. CASE p # "server" /\ made' = made /\ cut' = cut
  BY <1>2, <1>3, <1>4, Served, MoveKept
<1>5. CASE p = "server" /\ made' = made /\ cut' = cut
  BY <1>1, <1>2, <1>3, <1>5, MoveKept
<1>6. CASE Layout!Makes(work[p].root)
  BY <1>1, <1>2, <1>3, <1>6, MadeMove
<1>7. QED BY <1>1, <1>4, <1>5, <1>6

\* A server that is killed in the middle of the move cuts it short.
LEMMA CrashMove ==
  ASSUME LayoutTypes, MoveInv, NEW p \in Layout!Procs, Layout!Crash(p)
  PROVE  MoveInv'
<1>1. /\ held' = held
      /\ \/ /\ made' = made /\ (cut => cut')
            /\ work[p].kind = "move" /\ made = "admin" => cut'
         \/ work[p].kind \in {"enlist", "add", "put"} /\ Layout!Makes(work[p].root)
  BY DEF Layout!Crash, LayoutTypes
<1>2. work'[p].kind = "idle" /\ \A q \in Layout!Procs \ {p} : work'[q] = work[q]
  BY EndTypes DEF Layout!Idle
<1>3. CASE work[p].kind \in {"enlist", "add", "put"} /\ Layout!Makes(work[p].root)
  BY <1>1, <1>2, <1>3, MadeMove
<1>4. CASE /\ made' = made /\ (cut => cut')
           /\ work[p].kind = "move" /\ made = "admin" => cut'
  <2>1. CASE p = "server"
    BY <1>1, <1>2, <1>4, <2>1, MoveKept
  <2>2. CASE p # "server"
    BY <1>1, <1>2, <1>4, <2>2, Served, MoveKept
  <2>3. QED BY <2>1, <2>2
<1>5. QED BY <1>1, <1>3, <1>4

LEMMA MoveStep ==
  ASSUME LayoutTypes, MoveInv, [Layout!Next]_(Layout!vars)
  PROVE  MoveInv'
<1>1. CASE UNCHANGED Layout!vars
  BY <1>1 DEF MoveInv, AllIn, Place, Layout!vars, Layout!disk
<1>2. ASSUME NEW p \in Commands, NEW goal \in {"add", "tz"}, Layout!StartCommand(p, goal)
      PROVE  MoveInv'
  <2>1. work'["server"] = work["server"]
    BY <1>2, Served, StartCommandTypes
  <2>2. made' = made /\ held' = held /\ cut' = cut
    BY <1>2 DEF Layout!StartCommand, Layout!disk
  <2>3. QED BY <2>1, <2>2, MoveKept
<1>3. QED
  BY <1>1, <1>2, Served, StartServerMove, MakeDirMove, MoveDoneMove, RenameMove, OthersMove,
     CrashMove DEF Layout!Next

\* The server serves whatever there was before it first came up, whichever commands ran
\* meanwhile, unless a move was cut short or taken for done too early.
THEOREM ServerServesAll == Layout!Spec => []ServesAll
<1>1. Layout!Init => LayoutInv
  BY LayoutInitTypes, LayoutInitSound DEF LayoutInv
<1>2. LayoutInv /\ [Layout!Next]_(Layout!vars) => LayoutInv'
  BY ShiftStep, MoveStep DEF LayoutInv
<1>3. LayoutInv => ServesAll
  BY DEF LayoutInv, MoveInv, AllIn, ServesAll, Layout!ServesAll
<1>4. QED BY <1>1, <1>2, <1>3, PTL DEF Layout!Spec

-----------------------------------------------------------------------------
(* The loop of the daemon. *)

LoopAssumption == Loop!DaemonAssumption /\ Loop!TimerAssumption

\* When the window closes in which a reminder with this key can fire.
Closes(k) == IF k[1] = "task" THEN k[2] ELSE Loop!Later(k[2], k[3] + Grace)

\* What is about to fire is in its window, of which its key says when it closes; what
\* has fired is marked until then.
HitsOpen ==
  /\ pc # "fire" => hits = {}
  /\ \A h \in hits : h.target = Closes(h.key) /\ at < h.target
MarksHold ==
  /\ \A f \in fired \cup firedFile : f.ts = Closes(f.key)
  /\ \A k \in delivered \ lost : k \in Loop!Keys(fired) \/ Closes(k) < at

\* A phase that was announced has been left.
LeftFor(s) == s = Unset \/ s.id \notin announced \ revived
PhasesLeft == LeftFor(session) /\ LeftFor(loaded)

\* No phase is of the future.
Made(s) == s = Unset \/ s.id \in 1..ids
PhasesMade ==
  /\ Made(session) /\ Made(loaded)
  /\ \A p \in Tappers : tapping[p] # Unset => tapping[p].copy.id \in 1..ids

LoopInv ==
  /\ Loop!TypeOK /\ HitsOpen /\ MarksHold /\ Loop!FiresOnce
  /\ PhasesMade /\ PhasesLeft /\ Loop!AnnouncedOnce

-----------------------------------------------------------------------------
(* Types of the loop, by what changes together. *)

LoopClock == now \in 0..MaxTime /\ taps \in 0..MaxTaps /\ slips \in 0..MaxSlips
LoopVault == due \in Loop!Option(Dates) /\ occurs \subseteq Dates /\ cancelled \in BOOLEAN
LoopPlace ==
  /\ pc \in {"top", "reload", "fire", "pomodoro", "advance", "sleep"}
  /\ at \in 0..now /\ rested \in 0..Poll /\ wake \in 0..MaxTime
VaultCopies == [due : Loop!Option(Dates), starts : SUBSET Dates, cancelled : BOOLEAN]
LoopReminders ==
  /\ cache \in VaultCopies
  /\ hits \subseteq [key : Loop!Key, target : Int]
  /\ fired \subseteq [key : Loop!Key, ts : Int] /\ firedFile \subseteq [key : Loop!Key, ts : Int]
  /\ Loop!Keys(hits) \cap Loop!Keys(fired) = {}
  /\ \A f, g \in fired : f.key = g.key => f = g
LoopFocus ==
  /\ session \in Loop!Option(Loop!Session) /\ ids \in Nat
  /\ loaded \in Loop!Option(Loop!Session) /\ (pc = "advance") = (loaded # Unset)
LoopTaps ==
  tapping \in [Tappers -> Loop!Option([kind : {"toggle", "skip"}, t : Nat, copy : Loop!Session])]
LoopShown ==
  /\ delivered \subseteq Loop!Key /\ again \subseteq Loop!Key /\ lost \subseteq Loop!Key
LoopPhases ==
  /\ announced \subseteq 1..ids /\ twice \subseteq 1..ids /\ revived \subseteq 1..ids

LEMMA LoopTypes ==
  /\ Loop!TypeOK <=> /\ LoopClock /\ LoopVault /\ LoopPlace /\ LoopReminders
                     /\ LoopFocus /\ LoopTaps /\ LoopShown /\ LoopPhases
  /\ Loop!TypeOK' <=> /\ LoopClock' /\ LoopVault' /\ LoopPlace' /\ LoopReminders'
                      /\ LoopFocus' /\ LoopTaps' /\ LoopShown' /\ LoopPhases'
  BY DEF Loop!TypeOK, LoopClock, LoopVault, LoopPlace, LoopReminders, LoopFocus, LoopTaps,
         LoopShown, LoopPhases, Loop!Phases, VaultCopies

\* A file that exists holds a session.
LEMMA OptionFacts ==
  ASSUME NEW S, NEW s \in Loop!Option(S), s # Unset
  PROVE  s \in S
  BY DEF Loop!Option

LEMMA DivisionIsNat ==
  ASSUME NEW a \in Nat, NEW b \in Nat \ {0}
  PROVE  a \div b \in Nat
  OBVIOUS

LEMMA SessionFacts ==
  ASSUME Loop!TimerAssumption, NEW s \in Loop!Session, NEW t \in Nat, NEW id \in Nat
  PROVE  /\ Loop!Elapsed(s, t) \in Nat
         /\ Loop!Toggled(s, t) \in Loop!Session /\ Loop!Toggled(s, t).id = s.id
         /\ Loop!Skipped(s, t, id) \in Loop!Session /\ Loop!Skipped(s, t, id).id = id
<1>1. Loop!Elapsed(s, t) \in Nat
  BY DEF Loop!Elapsed, Loop!Session, Loop!Running
<1>2. Loop!Toggled(s, t) \in Loop!Session /\ Loop!Toggled(s, t).id = s.id
  <2>1. CASE Loop!Running(s)
    <3> DEFINE e == Loop!Elapsed(s, t)
    <3>1. Loop!Toggled(s, t) = [s EXCEPT !.before = e, !.since = Unset]
      BY <2>1 DEF Loop!Toggled
    <3> HIDE DEF e
    <3>2. e \in Nat
      BY <1>1 DEF e
    <3>3. QED BY <3>1, <3>2 DEF Loop!Session
  <2>2. CASE ~Loop!Running(s)
    <3>1. Loop!Toggled(s, t) = [s EXCEPT !.since = t]
      BY <2>2 DEF Loop!Toggled
    <3>2. QED BY <3>1 DEF Loop!Session
  <2>3. QED BY <2>1, <2>2
<1>3. Loop!Skipped(s, t, id) \in Loop!Session /\ Loop!Skipped(s, t, id).id = id
  <2> DEFINE e == Loop!Elapsed(s, t)
             target == Loop!NextTarget(s, e)
             done == IF s.engine = "pomodoro" /\ s.focus THEN s.done + 1 ELSE s.done
             began == IF Loop!Running(s) THEN t ELSE Unset
             turned == ~s.focus
  <2>1. target \in Nat \cup {Unset}
    <3>1. e \div Divisor \in Nat
      BY <1>1, DivisionIsNat DEF Loop!TimerAssumption
    <3> HIDE DEF e
    <3>2. QED BY <3>1 DEF Loop!NextTarget, Loop!TimerAssumption
  <2>2. done \in Nat /\ began \in Nat \cup {Unset} /\ turned \in BOOLEAN
    BY DEF Loop!Session
  <2>3. Loop!Skipped(s, t, id) =
          [s EXCEPT !.done = done, !.focus = turned, !.target = target, !.before = 0,
                    !.since = began, !.id = id]
    BY DEF Loop!Skipped
  <2> DEFINE engine == s.engine
             next == [engine |-> engine, done |-> done, focus |-> turned, target |-> target,
                      before |-> 0, since |-> began, id |-> id]
  <2> HIDE DEF target, done, began, turned
  <2>4. s = [engine |-> s.engine, done |-> s.done, focus |-> s.focus, target |-> s.target,
             before |-> s.before, since |-> s.since, id |-> s.id]
    BY DEF Loop!Session
  <2>5. Loop!Skipped(s, t, id) = next
    BY <2>3, <2>4
  <2>6. engine \in {"pomodoro", "flowtime"}
    BY DEF Loop!Session
  <2> HIDE DEF engine
  <2>7. next \in Loop!Session /\ next.id = id
    BY <2>1, <2>2, <2>6 DEF Loop!Session
  <2> HIDE DEF next
  <2>8. QED BY <2>5, <2>7
<1>4. QED BY <1>1, <1>2, <1>3

LEMMA BegunFacts ==
  ASSUME Loop!TimerAssumption, NEW engine \in {"pomodoro", "flowtime"}, NEW t \in Nat,
         NEW id \in Nat
  PROVE  Loop!Begun(engine, t, id) \in Loop!Session /\ Loop!Begun(engine, t, id).id = id
  BY DEF Loop!Begun, Loop!Session, Loop!TimerAssumption

LEMMA KeyFacts ==
  ASSUME LoopAssumption, NEW v \in VaultCopies, NEW t \in Nat,
         NEW h \in Loop!TaskHits(v, t) \cup Loop!EventHits(v, t)
  PROVE  /\ h.key \in Loop!Key /\ h.target \in Int
         /\ h \in [key : Loop!Key, target : Int]
         /\ h.target = Closes(h.key) /\ t < h.target
         /\ h = [key |-> h.key, target |-> h.target]
<1>1. CASE h \in Loop!TaskHits(v, t)
  <2>1. PICK m \in Offsets : /\ v.due # Unset /\ t < v.due
                             /\ h = [key |-> <<"task", v.due, m>>, target |-> v.due]
    BY <1>1 DEF Loop!TaskHits
  <2>2. v.due \in Nat /\ m \in Nat
    BY <2>1 DEF VaultCopies, Loop!Option, LoopAssumption, Loop!DaemonAssumption
  <2> DEFINE k == <<"task", v.due, m>>
  <2>3. k \in Loop!Key /\ k[1] = "task" /\ k[2] = v.due
    BY <2>2 DEF Loop!Key
  <2> HIDE DEF k
  <2>4. h.key = k /\ h.target = v.due
    BY <2>1 DEF k
  <2>5. QED BY <2>1, <2>2, <2>3, <2>4 DEF Closes, k
<1>2. CASE h \in Loop!EventHits(v, t)
  <2>1. PICK x \in v.starts \X Alarms :
          /\ t < Loop!Later(x[1], x[1] + x[2] + Grace)
          /\ h = [key |-> <<"event", x[1], x[1] + x[2]>>,
                  target |-> Loop!Later(x[1], x[1] + x[2] + Grace)]
    BY <1>2 DEF Loop!EventHits
  <2>2. x[1] \in Nat /\ x[2] \in Int /\ Grace \in Nat
    BY DEF VaultCopies, LoopAssumption, Loop!DaemonAssumption
  <2> DEFINE b == x[1] + x[2]
             k == <<"event", x[1], b>>
             g == Loop!Later(x[1], b + Grace)
  <2>3. b \in Int
    BY <2>2
  <2>4. g \in Int
    BY <2>2, <2>3 DEF Loop!Later
  <2>5. h = [key |-> k, target |-> g] /\ t < g
    BY <2>1
  <2> HIDE DEF b
  <2>6. k \in Loop!Key /\ k[1] = "event" /\ k[2] = x[1] /\ k[3] = b
    BY <2>2, <2>3 DEF Loop!Key
  <2>7. Closes(k) = g
    BY <2>6 DEF Closes
  <2> HIDE DEF k, g
  <2>8. QED BY <2>4, <2>5, <2>6, <2>7
<1>3. QED BY <1>1, <1>2

-----------------------------------------------------------------------------
(* Types step by step. *)

LEMMA LoopInitTypes ==
  ASSUME LoopAssumption, Loop!Init
  PROVE  Loop!TypeOK
<1>1. Loop!Vault \in VaultCopies
  BY DEF Loop!Init, Loop!Vault, VaultCopies, Loop!Option
<1>2. LoopClock /\ LoopPlace
  <2>1. now = 0 /\ taps = 0 /\ slips = 0 /\ pc = "top" /\ at = 0 /\ rested = Poll /\ wake = 0
    BY DEF Loop!Init
  <2>2. MaxTime \in Nat /\ MaxTaps \in Nat /\ MaxSlips \in Nat /\ Poll \in Nat
    BY DEF LoopAssumption, Loop!DaemonAssumption
  <2>3. QED BY <2>1, <2>2 DEF LoopClock, LoopPlace
<1>3. LoopReminders
  BY <1>1 DEF Loop!Init, LoopReminders, Loop!Keys
<1>4. LoopVault /\ LoopFocus /\ LoopTaps /\ LoopShown /\ LoopPhases
  BY DEF Loop!Init, LoopVault, LoopFocus, LoopTaps, LoopShown, LoopPhases, Loop!Option
<1>5. QED BY <1>2, <1>3, <1>4, LoopTypes

LEMMA ClockFacts ==
  ASSUME LoopAssumption, LoopClock, LoopPlace
  PROVE  /\ now \in Nat /\ at \in Nat /\ at <= now
         /\ Loop!Fault => slips' \in 0..MaxSlips
         /\ Loop!Acts => taps' \in 0..MaxTaps
  BY DEF LoopAssumption, Loop!DaemonAssumption, LoopClock, LoopPlace, Loop!Fault, Loop!Acts

\* The steps of the clock and the vault.
LEMMA OutsideTypes ==
  ASSUME LoopAssumption, Loop!TypeOK, Loop!Tick \/ Loop!Edit
  PROVE  Loop!TypeOK'
<1>1. /\ LoopClock /\ LoopVault /\ LoopPlace /\ LoopReminders
      /\ LoopFocus /\ LoopTaps /\ LoopShown /\ LoopPhases
  BY LoopTypes
<1>2. LoopClock' /\ LoopPlace'
  BY <1>1, ClockFacts DEF Loop!Tick, Loop!Edit, LoopClock, LoopPlace, Loop!loop, LoopAssumption,
     Loop!DaemonAssumption
<1>3. LoopVault'
  BY <1>1 DEF Loop!Tick, Loop!Edit, Loop!vault, LoopVault, Loop!Option
<1>4. LoopReminders' /\ LoopFocus' /\ LoopTaps' /\ LoopShown' /\ LoopPhases'
  BY <1>1 DEF Loop!Tick, Loop!Edit, Loop!loop, Loop!reminders, Loop!focus, Loop!firing,
     Loop!phases, LoopReminders, LoopFocus, LoopTaps, LoopShown, LoopPhases, Loop!Keys
<1>5. QED BY <1>2, <1>3, <1>4, LoopTypes

LEMMA RoundTypes ==
  ASSUME LoopAssumption, Loop!TypeOK, Loop!RoundBegins \/ Loop!Wake
  PROVE  Loop!TypeOK'
<1>1. /\ LoopClock /\ LoopVault /\ LoopPlace /\ LoopReminders
      /\ LoopFocus /\ LoopTaps /\ LoopShown /\ LoopPhases
  BY LoopTypes
<1>2. LoopPlace'
  BY <1>1, ClockFacts DEF Loop!RoundBegins, Loop!Wake, LoopPlace, LoopAssumption,
     Loop!DaemonAssumption
<1>3. LoopFocus'
  BY <1>1 DEF Loop!RoundBegins, Loop!Wake, LoopFocus, Loop!focus
<1>4. LoopClock' /\ LoopVault' /\ LoopReminders' /\ LoopTaps' /\ LoopShown' /\ LoopPhases'
  BY <1>1 DEF Loop!RoundBegins, Loop!Wake, Loop!vault, Loop!reminders, Loop!focus, Loop!firing,
     Loop!phases, LoopClock, LoopVault, LoopReminders, LoopTaps, LoopShown, LoopPhases, Loop!Keys
<1>5. QED BY <1>2, <1>3, <1>4, LoopTypes

\* What is looked up at a reload.
LEMMA HitFacts ==
  ASSUME LoopAssumption, Loop!TypeOK, Loop!Reload
  PROVE  /\ cache' \in VaultCopies
         /\ hits' \subseteq [key : Loop!Key, target : Int]
         /\ Loop!Keys(hits') \cap Loop!Keys(fired) = {}
         /\ \A h \in hits' : h.target = Closes(h.key) /\ at < h.target
<1>1. cache' \in VaultCopies
  BY LoopTypes DEF Loop!Reload, Loop!Vault, LoopVault, LoopReminders, VaultCopies
<1>2. at \in Nat
  BY LoopTypes, ClockFacts
<1>3. \A h \in hits' : /\ h \in Loop!TaskHits(cache', at) \cup Loop!EventHits(cache', at)
                       /\ h.key \notin Loop!Keys(fired)
  BY DEF Loop!Reload, Loop!Pending, Loop!Keys
<1>4. \A h \in hits' : /\ h \in [key : Loop!Key, target : Int]
                       /\ h.target = Closes(h.key) /\ at < h.target
  BY <1>1, <1>2, <1>3, KeyFacts
<1>5. QED BY <1>1, <1>3, <1>4 DEF Loop!Keys

LEMMA ReloadTypes ==
  ASSUME LoopAssumption, Loop!TypeOK, Loop!Reload
  PROVE  Loop!TypeOK'
<1>1. /\ LoopClock /\ LoopVault /\ LoopPlace /\ LoopReminders
      /\ LoopFocus /\ LoopTaps /\ LoopShown /\ LoopPhases
  BY LoopTypes
<1>2. LoopReminders'
  BY <1>1, HitFacts DEF Loop!Reload, LoopReminders, Loop!Keys
<1>3. LoopClock' /\ LoopPlace' /\ LoopFocus'
  BY <1>1, ClockFacts DEF Loop!Reload, LoopClock, LoopPlace, LoopFocus, Loop!focus
<1>4. LoopVault' /\ LoopTaps' /\ LoopShown' /\ LoopPhases'
  BY <1>1 DEF Loop!Reload, Loop!vault, Loop!focus, Loop!firing,
     Loop!phases, LoopVault, LoopTaps, LoopShown, LoopPhases
<1>5. QED BY <1>2, <1>3, <1>4, LoopTypes

LEMMA FireTypes ==
  ASSUME LoopAssumption, Loop!TypeOK, HitsOpen, NEW h \in hits, Loop!Fire(h)
  PROVE  Loop!TypeOK'
<1>1. /\ LoopClock /\ LoopVault /\ LoopPlace /\ LoopReminders
      /\ LoopFocus /\ LoopTaps /\ LoopShown /\ LoopPhases
  BY LoopTypes
<1> DEFINE f0 == [key |-> h.key, ts |-> h.target]
<1>2. h \in [key : Loop!Key, target : Int] /\ f0 \in [key : Loop!Key, ts : Int] /\ f0.key = h.key
  BY <1>1 DEF LoopReminders
<1>3. hits' = hits \ {h} /\ fired' = {f \in fired : f.key # h.key} \cup {f0}
  BY DEF Loop!Fire
<1> HIDE DEF f0
<1>4. \A g \in hits : g.key = h.key => g = h
  <2>1. SUFFICES ASSUME NEW g \in hits, g.key = h.key PROVE g = h
    OBVIOUS
  <2>2. g.target = h.target
    BY <2>1 DEF HitsOpen
  <2>3. g \in [key : Loop!Key, target : Int]
    BY <1>1 DEF LoopReminders
  <2>4. QED BY <1>2, <2>1, <2>2, <2>3
<1>5. Loop!Keys(hits') \cap Loop!Keys(fired') = {}
  <2>1. \A g \in hits' : g.key # h.key
    BY <1>3, <1>4
  <2>2. \A g \in hits, f \in fired : g.key # f.key
    BY <1>1 DEF LoopReminders, Loop!Keys
  <2>3. QED BY <1>2, <1>3, <2>1, <2>2 DEF Loop!Keys
<1>6. LoopReminders'
  <2>1. \A f, g \in fired' : f.key = g.key => f = g
    BY <1>1, <1>2, <1>3 DEF LoopReminders
  <2>2. fired' \subseteq [key : Loop!Key, ts : Int] /\ hits' \subseteq [key : Loop!Key, target : Int]
    BY <1>1, <1>2, <1>3 DEF LoopReminders
  <2>3. QED BY <1>1, <1>5, <2>1, <2>2 DEF Loop!Fire, LoopReminders
<1>7. LoopShown'
  BY <1>1, <1>2 DEF Loop!Fire, LoopShown
<1>8. LoopClock' /\ LoopVault' /\ LoopPlace' /\ LoopFocus' /\ LoopTaps' /\ LoopPhases'
  BY <1>1 DEF Loop!Fire, Loop!vault, Loop!loop, Loop!focus, Loop!phases, LoopClock, LoopVault,
     LoopPlace, LoopFocus, LoopTaps, LoopPhases
<1>9. QED BY <1>6, <1>7, <1>8, LoopTypes

LEMMA SaveFiredTypes ==
  ASSUME LoopAssumption, Loop!TypeOK, Loop!SaveFired
  PROVE  Loop!TypeOK'
<1>1. /\ LoopClock /\ LoopVault /\ LoopPlace /\ LoopReminders
      /\ LoopFocus /\ LoopTaps /\ LoopShown /\ LoopPhases
  BY LoopTypes
<1>2. LoopReminders'
  BY <1>1 DEF Loop!SaveFired, LoopReminders, Loop!Keys
<1>3. LoopClock' /\ LoopPlace' /\ LoopFocus'
  BY <1>1, ClockFacts DEF Loop!SaveFired, LoopClock, LoopPlace, LoopFocus, Loop!focus,
     LoopAssumption, Loop!DaemonAssumption
<1>4. LoopVault' /\ LoopTaps' /\ LoopShown' /\ LoopPhases'
  BY <1>1 DEF Loop!SaveFired, Loop!vault, Loop!focus, Loop!firing,
     Loop!phases, LoopVault, LoopTaps, LoopShown, LoopPhases
<1>5. QED BY <1>2, <1>3, <1>4, LoopTypes

LEMMA RestartTypes ==
  ASSUME LoopAssumption, Loop!TypeOK, MarksHold, Loop!Restart
  PROVE  Loop!TypeOK'
<1>1. /\ LoopClock /\ LoopVault /\ LoopPlace /\ LoopReminders
      /\ LoopFocus /\ LoopTaps /\ LoopShown /\ LoopPhases
  BY LoopTypes
<1>2. LoopReminders'
  <2>1. cache' \in VaultCopies /\ hits' = {} /\ fired' = firedFile' /\ firedFile' \subseteq firedFile
    BY <1>1 DEF Loop!Restart, Loop!Vault, LoopVault, VaultCopies
  <2>2. ASSUME NEW f \in firedFile, NEW g \in firedFile, f.key = g.key PROVE f = g
    <3>1. f.ts = g.ts
      BY <2>2 DEF MarksHold
    <3>2. f \in [key : Loop!Key, ts : Int] /\ g \in [key : Loop!Key, ts : Int]
      BY <1>1 DEF LoopReminders
    <3>3. QED BY <2>2, <3>1, <3>2
  <2>3. QED BY <1>1, <2>1, <2>2 DEF LoopReminders, Loop!Keys
<1>3. LoopClock' /\ LoopPlace' /\ LoopFocus'
  BY <1>1, ClockFacts DEF Loop!Restart, LoopClock, LoopPlace, LoopFocus, Loop!Option,
     LoopAssumption, Loop!DaemonAssumption
<1>4. LoopShown'
  BY <1>1 DEF Loop!Restart, LoopShown
<1>5. LoopVault' /\ LoopTaps' /\ LoopPhases'
  BY <1>1 DEF Loop!Restart, Loop!vault, Loop!phases, LoopVault, LoopTaps, LoopPhases
<1>6. QED BY <1>2, <1>3, <1>4, <1>5, LoopTypes

\* The steps of the focus session: file, loaded and the copies stay sessions.
LEMMA LoadTypes ==
  ASSUME LoopAssumption, Loop!TypeOK, Loop!LoadPomodoro
  PROVE  Loop!TypeOK'
<1>1. /\ LoopClock /\ LoopVault /\ LoopPlace /\ LoopReminders
      /\ LoopFocus /\ LoopTaps /\ LoopShown /\ LoopPhases
  BY LoopTypes
<1>2. LoopPlace'
  <2>1. pc' \in {"advance", "sleep"} /\ wake' \in {wake, now, now + 1}
    BY DEF Loop!LoadPomodoro, Loop!Sleeps
  <2>2. wake' \in 0..MaxTime
    BY <1>1 DEF Loop!LoadPomodoro, Loop!Sleeps, LoopPlace, LoopClock, LoopAssumption,
       Loop!DaemonAssumption
  <2>3. QED BY <1>1, <2>1, <2>2 DEF Loop!LoadPomodoro, LoopPlace
<1>3. LoopFocus'
  BY <1>1 DEF Loop!LoadPomodoro, Loop!Sleeps, LoopFocus
<1>4. LoopClock' /\ LoopVault' /\ LoopReminders' /\ LoopTaps' /\ LoopShown' /\ LoopPhases'
  BY <1>1 DEF Loop!LoadPomodoro, Loop!vault, Loop!reminders, Loop!firing, Loop!phases, LoopClock,
     LoopVault, LoopReminders, LoopTaps, LoopShown, LoopPhases, Loop!Keys
<1>5. QED BY <1>2, <1>3, <1>4, LoopTypes

LEMMA AdvanceTypes ==
  ASSUME LoopAssumption, Loop!TypeOK, PhasesMade, Loop!Advance
  PROVE  Loop!TypeOK' /\ ids <= ids' /\ loaded \in Loop!Session /\ loaded.id \in 1..ids
<1>1. /\ LoopClock /\ LoopVault /\ LoopPlace /\ LoopReminders
      /\ LoopFocus /\ LoopTaps /\ LoopShown /\ LoopPhases
  BY LoopTypes
<1>2. loaded \in Loop!Session /\ ids \in Nat /\ loaded # Unset
  BY <1>1, OptionFacts DEF Loop!Advance, LoopFocus
<1>3. loaded.id \in 1..ids
  BY <1>2 DEF PhasesMade, Made
<1>4. LoopClock' /\ LoopPlace'
  <2>1. pc' = "sleep" /\ now' = now /\ at' = at /\ rested' = rested
    BY DEF Loop!Advance, Loop!Sleeps
  <2>2. wake' \in 0..MaxTime
    BY <1>1 DEF Loop!Advance, Loop!Sleeps, LoopClock, LoopAssumption, Loop!DaemonAssumption
  <2>3. LoopClock'
    BY <1>1, ClockFacts DEF Loop!Advance, LoopClock
  <2>4. QED BY <1>1, <2>1, <2>2, <2>3 DEF LoopPlace
<1>5. LoopFocus' /\ ids <= ids'
  <2>1. at \in Nat /\ ids + 1 \in Nat
    BY <1>1, <1>2, ClockFacts
  <2>2. Loop!Skipped(loaded, at, ids + 1) \in Loop!Session
    BY <1>2, <2>1, SessionFacts DEF LoopAssumption
  <2>3. loaded' = Unset /\ pc' = "sleep"
    BY DEF Loop!Advance, Loop!Sleeps
  <2>4. \/ session' = Loop!Skipped(loaded, at, ids + 1) /\ ids' = ids + 1
        \/ session' = session /\ ids' = ids
    BY DEF Loop!Advance
  <2>5. QED BY <1>1, <1>2, <2>2, <2>3, <2>4 DEF LoopFocus, Loop!Option
<1>6. LoopPhases'
  <2>1. announced' \subseteq announced \cup {loaded.id} /\ twice' \subseteq twice \cup {loaded.id}
        /\ revived' \subseteq revived \cup {loaded.id}
    BY DEF Loop!Advance
  <2>2. ids' \in Nat
    BY <1>5 DEF LoopFocus
  <2>3. QED BY <1>1, <1>2, <1>3, <1>5, <2>1, <2>2 DEF LoopPhases
<1>7. LoopVault' /\ LoopReminders' /\ LoopTaps' /\ LoopShown'
  BY <1>1 DEF Loop!Advance, Loop!vault, Loop!reminders, Loop!firing, LoopVault, LoopReminders,
     LoopTaps, LoopShown, Loop!Keys
<1>8. QED BY <1>2, <1>3, <1>4, <1>5, <1>6, <1>7, LoopTypes

LEMMA StartStopTypes ==
  ASSUME LoopAssumption, Loop!TypeOK,
         Loop!FocusStop \/ \E engine \in {"pomodoro", "flowtime"} : Loop!FocusStart(engine)
  PROVE  Loop!TypeOK' /\ ids <= ids'
<1>1. /\ LoopClock /\ LoopVault /\ LoopPlace /\ LoopReminders
      /\ LoopFocus /\ LoopTaps /\ LoopShown /\ LoopPhases
  BY LoopTypes
<1>2. LoopClock' /\ LoopPlace'
  BY <1>1, ClockFacts DEF Loop!FocusStop, Loop!FocusStart, LoopClock, LoopPlace, Loop!loop
<1>3. LoopFocus' /\ ids <= ids'
  <2>1. ids \in Nat /\ ids + 1 \in Nat /\ now \in Nat
    BY <1>1, ClockFacts DEF LoopFocus
  <2>2. \A engine \in {"pomodoro", "flowtime"} :
          Loop!Begun(engine, now, ids + 1) \in Loop!Session
    BY <2>1, BegunFacts DEF LoopAssumption
  <2>3. loaded' = loaded /\ pc' = pc
    BY DEF Loop!FocusStop, Loop!FocusStart, Loop!loop
  <2>4. \/ session' = Unset /\ ids' = ids
        \/ ids' = ids + 1 /\ session' \in Loop!Session
    BY <2>2 DEF Loop!FocusStop, Loop!FocusStart
  <2>5. QED BY <1>1, <2>1, <2>3, <2>4 DEF LoopFocus, Loop!Option
<1>4. LoopPhases'
  <2>1. announced' = announced /\ twice' = twice /\ revived' = revived
    BY DEF Loop!FocusStop, Loop!FocusStart, Loop!phases
  <2>2. ids \in Nat /\ ids' \in Nat
    BY <1>1, <1>3 DEF LoopFocus
  <2>3. QED BY <1>1, <1>3, <2>1, <2>2 DEF LoopPhases
<1>5. LoopVault' /\ LoopReminders' /\ LoopTaps' /\ LoopShown'
  BY <1>1 DEF Loop!FocusStop, Loop!FocusStart, Loop!vault, Loop!reminders, Loop!firing, LoopVault,
     LoopReminders, LoopTaps, LoopShown, Loop!Keys
<1>6. QED BY <1>2, <1>3, <1>4, <1>5, LoopTypes

LEMMA FocusLoadTypes ==
  ASSUME LoopAssumption, Loop!TypeOK, NEW p \in Tappers, NEW kind \in {"toggle", "skip"},
         Loop!FocusLoad(p, kind)
  PROVE  Loop!TypeOK' /\ tapping' = [tapping EXCEPT ![p] = [kind |-> kind, t |-> now, copy |-> session]]
<1>1. /\ LoopClock /\ LoopVault /\ LoopPlace /\ LoopReminders
      /\ LoopFocus /\ LoopTaps /\ LoopShown /\ LoopPhases
  BY LoopTypes
<1>2. LoopTaps'
  <2>1. now \in Nat /\ session \in Loop!Session
    BY <1>1, ClockFacts, OptionFacts DEF Loop!FocusLoad, LoopFocus
  <2> DEFINE tap == [kind |-> kind, t |-> now, copy |-> session]
             Tap == [kind : {"toggle", "skip"}, t : Nat, copy : Loop!Session]
  <2>2. tap \in Tap
    BY <2>1
  <2>3. tapping' = [tapping EXCEPT ![p] = tap] /\ tapping \in [Tappers -> Loop!Option(Tap)]
    BY <1>1 DEF Loop!FocusLoad, LoopTaps
  <2> HIDE DEF tap, Tap
  <2>4. tapping' \in [Tappers -> Loop!Option(Tap)]
    BY <2>2, <2>3 DEF Loop!Option
  <2>5. QED BY <2>4 DEF Tap, LoopTaps
<1>3. LoopClock' /\ LoopPlace'
  BY <1>1, ClockFacts DEF Loop!FocusLoad, LoopClock, LoopPlace, Loop!loop
<1>4. LoopVault' /\ LoopReminders' /\ LoopFocus' /\ LoopShown' /\ LoopPhases'
  BY <1>1 DEF Loop!FocusLoad, Loop!vault, Loop!loop, Loop!reminders, Loop!focus, Loop!firing,
     Loop!phases, LoopVault, LoopReminders, LoopFocus, LoopShown, LoopPhases, Loop!Keys
<1>5. QED BY <1>2, <1>3, <1>4, LoopTypes DEF Loop!FocusLoad

LEMMA FocusSaveTypes ==
  ASSUME LoopAssumption, Loop!TypeOK, PhasesMade, NEW p \in Tappers, Loop!FocusSave(p)
  PROVE  /\ Loop!TypeOK' /\ ids <= ids'
         /\ tapping[p] \in [kind : {"toggle", "skip"}, t : Nat, copy : Loop!Session]
         /\ tapping[p].copy.id \in 1..ids
         /\ tapping' = [tapping EXCEPT ![p] = Unset]
<1>1. /\ LoopClock /\ LoopVault /\ LoopPlace /\ LoopReminders
      /\ LoopFocus /\ LoopTaps /\ LoopShown /\ LoopPhases
  BY LoopTypes
<1> DEFINE Tap == [kind : {"toggle", "skip"}, t : Nat, copy : Loop!Session]
           c == tapping[p].copy
           t == tapping[p].t
<1>2. tapping[p] # Unset /\ tapping' = [tapping EXCEPT ![p] = Unset]
  BY DEF Loop!FocusSave
<1>3. tapping \in [Tappers -> Loop!Option(Tap)]
  BY <1>1 DEF LoopTaps
<1> HIDE DEF Tap
<1>4. tapping[p] \in Tap /\ tapping' \in [Tappers -> Loop!Option(Tap)]
  BY <1>2, <1>3 DEF Loop!Option
<1>5. c \in Loop!Session /\ t \in Nat
  BY <1>4 DEF Tap
<1>6. c.id \in 1..ids /\ ids \in Nat /\ ids + 1 \in Nat
  BY <1>1, <1>2, <1>5 DEF PhasesMade, Made, LoopFocus, Loop!TimerAssumption, LoopAssumption
<1>7. LoopFocus' /\ ids <= ids'
  <2>1. /\ Loop!Toggled(c, t) \in Loop!Session
        /\ Loop!Skipped(c, t, ids + 1) \in Loop!Session
    BY <1>5, <1>6, SessionFacts DEF LoopAssumption
  <2>2. \/ session' = Loop!Toggled(c, t) /\ ids' = ids
        \/ session' = Loop!Skipped(c, t, ids + 1) /\ ids' = ids + 1
    BY DEF Loop!FocusSave
  <2>3. loaded' = loaded /\ pc' = pc
    BY DEF Loop!FocusSave, Loop!loop
  <2>4. session' \in Loop!Session /\ ids' \in Nat /\ ids <= ids'
    BY <1>6, <2>1, <2>2
  <2>5. QED BY <1>1, <2>3, <2>4 DEF LoopFocus, Loop!Option
<1>8. LoopPhases'
  <2>1. announced' = announced /\ twice' = twice /\ revived' \subseteq revived \cup {c.id}
    BY DEF Loop!FocusSave
  <2>2. ids' \in Nat
    BY <1>7 DEF LoopFocus
  <2> HIDE DEF c
  <2>3. QED BY <1>1, <1>6, <1>7, <2>1, <2>2 DEF LoopPhases
<1>9. LoopTaps'
  BY <1>4 DEF Tap, LoopTaps
<1>10. LoopClock' /\ LoopVault' /\ LoopPlace' /\ LoopReminders' /\ LoopShown'
  BY <1>1 DEF Loop!FocusSave, Loop!vault, Loop!loop, Loop!reminders, Loop!firing, LoopClock,
     LoopVault, LoopPlace, LoopReminders, LoopShown, Loop!Keys
<1>11. QED BY <1>2, <1>4, <1>6, <1>7, <1>8, <1>9, <1>10, LoopTypes DEF Tap

-----------------------------------------------------------------------------
(* What has been shown is marked until its window closes. *)

ShownSound == HitsOpen /\ MarksHold /\ Loop!FiresOnce

LEMMA ClosesIsInt ==
  ASSUME LoopAssumption, NEW k \in Loop!Key
  PROVE  Closes(k) \in Int
  BY DEF Closes, Loop!Key, Loop!Later, LoopAssumption, Loop!DaemonAssumption

\* Steps that leave the reminders alone.
LEMMA QuietKeepsShown ==
  ASSUME LoopAssumption, ShownSound, at' = at, pc = "fire" => pc' = "fire",
         UNCHANGED <<hits, fired, firedFile, delivered, again, lost>>
  PROVE  ShownSound'
<1>1. HitsOpen'
  BY DEF ShownSound, HitsOpen
<1>2. MarksHold' /\ Loop!FiresOnce'
  BY DEF ShownSound, MarksHold, Loop!FiresOnce, Loop!Keys
<1>3. QED BY <1>1, <1>2 DEF ShownSound

LEMMA OthersKeepShown ==
  ASSUME LoopAssumption, Loop!TypeOK, ShownSound,
         \/ Loop!Tick \/ Loop!Edit \/ Loop!LoadPomodoro \/ Loop!Advance \/ Loop!Wake
         \/ Loop!FocusStop \/ \E engine \in {"pomodoro", "flowtime"} : Loop!FocusStart(engine)
         \/ \E p \in Tappers : \/ Loop!FocusSave(p)
                               \/ \E kind \in {"toggle", "skip"} : Loop!FocusLoad(p, kind)
  PROVE  ShownSound'
<1>1. /\ at' = at /\ (pc = "fire" => pc' = "fire")
      /\ UNCHANGED <<hits, fired, firedFile, delivered, again, lost>>
  BY DEF Loop!Tick, Loop!Edit, Loop!LoadPomodoro, Loop!Advance, Loop!Wake, Loop!FocusStop,
     Loop!FocusStart, Loop!FocusSave, Loop!FocusLoad, Loop!loop, Loop!reminders, Loop!firing
<1>2. QED BY <1>1, QuietKeepsShown

LEMMA RoundKeepsShown ==
  ASSUME LoopAssumption, Loop!TypeOK, ShownSound, Loop!RoundBegins
  PROVE  ShownSound'
<1>1. /\ pc = "top" /\ pc' # "fire" /\ at' = now
      /\ UNCHANGED <<hits, fired, firedFile, delivered, again, lost>>
  BY DEF Loop!RoundBegins, Loop!reminders, Loop!firing
<1>2. at \in Nat /\ now \in Nat /\ at <= now /\ delivered \subseteq Loop!Key
  BY LoopTypes, ClockFacts DEF LoopShown
<1>3. hits = {}
  BY <1>1 DEF ShownSound, HitsOpen
<1>4. \A k \in delivered : Closes(k) < at => Closes(k) < now
  <2>1. ASSUME NEW k \in delivered, Closes(k) < at PROVE Closes(k) < now
    <3>1. Closes(k) \in Int
      BY <1>2, ClosesIsInt
    <3>2. QED BY <1>2, <2>1, <3>1
  <2>2. QED BY <2>1
<1>5. HitsOpen' /\ Loop!FiresOnce'
  BY <1>1, <1>3 DEF ShownSound, HitsOpen, Loop!FiresOnce
<1>6. MarksHold'
  BY <1>1, <1>4 DEF ShownSound, MarksHold, Loop!Keys
<1>7. QED BY <1>5, <1>6 DEF ShownSound

LEMMA ReloadKeepsShown ==
  ASSUME LoopAssumption, Loop!TypeOK, ShownSound, Loop!Reload
  PROVE  ShownSound'
<1>1. pc' = "fire" /\ at' = at /\ UNCHANGED <<fired, firedFile, delivered, again, lost>>
  BY DEF Loop!Reload, Loop!firing
<1>2. HitsOpen'
  BY <1>1, HitFacts DEF HitsOpen
<1>3. MarksHold' /\ Loop!FiresOnce'
  BY <1>1 DEF ShownSound, MarksHold, Loop!FiresOnce, Loop!Keys
<1>4. QED BY <1>2, <1>3 DEF ShownSound

\* A reminder that was shown and not lost is marked or its window is closed: either
\* way it is not what fires.
LEMMA FireKeepsShown ==
  ASSUME LoopAssumption, Loop!TypeOK, ShownSound, NEW h \in hits, Loop!Fire(h)
  PROVE  ShownSound'
<1> DEFINE f0 == [key |-> h.key, ts |-> h.target]
<1>1. /\ hits' = hits \ {h} /\ fired' = {f \in fired : f.key # h.key} \cup {f0}
      /\ delivered' = delivered \cup {h.key}
      /\ again' = IF h.key \in delivered THEN again \cup {h.key} ELSE again
      /\ pc = "fire" /\ UNCHANGED <<pc, at, firedFile, lost>>
  BY DEF Loop!Fire, Loop!loop
<1>2. f0.key = h.key /\ f0.ts = h.target
  OBVIOUS
<1> HIDE DEF f0
<1>3. h.key \in Loop!Key /\ h.target = Closes(h.key) /\ at < h.target /\ at \in Nat
      /\ h.key \notin Loop!Keys(fired)
  BY LoopTypes, ClockFacts DEF LoopReminders, ShownSound, HitsOpen, Loop!Keys
<1>4. HitsOpen'
  BY <1>1 DEF ShownSound, HitsOpen
<1>5. MarksHold'
  <2>1. \A f \in fired' \cup firedFile' : f.ts = Closes(f.key)
    BY <1>1, <1>2, <1>3 DEF ShownSound, MarksHold
  <2>2. ASSUME NEW k \in delivered' \ lost' PROVE k \in Loop!Keys(fired') \/ Closes(k) < at
    <3>1. CASE k = h.key
      BY <1>1, <1>2, <3>1 DEF Loop!Keys
    <3>2. CASE k # h.key
      <4>1. k \in delivered \ lost
        BY <1>1, <2>2, <3>2
      <4>2. k \in Loop!Keys(fired) => k \in Loop!Keys(fired')
        BY <1>1, <3>2 DEF Loop!Keys
      <4>3. QED BY <4>1, <4>2 DEF ShownSound, MarksHold
    <3>3. QED BY <3>1, <3>2
  <2>3. QED BY <1>1, <2>1, <2>2 DEF MarksHold, Loop!Keys
<1>6. Loop!FiresOnce'
  <2>1. h.key \in delivered => h.key \in lost
    <3>1. Closes(h.key) \in Int
      BY <1>3, ClosesIsInt
    <3>2. ~(Closes(h.key) < at)
      BY <1>3, <3>1
    <3>3. QED BY <1>3, <3>2 DEF ShownSound, MarksHold
  <2>2. QED BY <1>1, <2>1 DEF ShownSound, Loop!FiresOnce
<1>7. QED BY <1>4, <1>5, <1>6 DEF ShownSound

\* What a save forgets has closed.
LEMMA SaveFiredKeepsShown ==
  ASSUME LoopAssumption, Loop!TypeOK, ShownSound, Loop!SaveFired
  PROVE  ShownSound'
<1>1. /\ hits = {} /\ pc' = "pomodoro" /\ fired' = {f \in fired : f.ts >= at}
      /\ firedFile' \in {fired', firedFile} /\ UNCHANGED <<at, hits, delivered, again, lost>>
  BY DEF Loop!SaveFired, Loop!firing
<1>2. at \in Nat /\ fired \subseteq [key : Loop!Key, ts : Int]
  BY LoopTypes, ClockFacts DEF LoopReminders
<1>3. HitsOpen' /\ Loop!FiresOnce'
  BY <1>1 DEF ShownSound, HitsOpen, Loop!FiresOnce
<1>4. ASSUME NEW k \in delivered \ lost PROVE k \in Loop!Keys(fired') \/ Closes(k) < at
  <2>1. CASE k \in Loop!Keys(fired)
    <3>1. PICK f \in fired : f.key = k
      BY <2>1 DEF Loop!Keys
    <3>2. f.ts = Closes(k) /\ f.ts \in Int
      BY <1>2, <3>1 DEF ShownSound, MarksHold
    <3>3. f.ts >= at \/ Closes(k) < at
      BY <1>2, <3>2
    <3>4. QED BY <1>1, <3>1, <3>3 DEF Loop!Keys
  <2>2. QED BY <2>1 DEF ShownSound, MarksHold
<1>5. \A f \in fired' \cup firedFile' : f.ts = Closes(f.key)
  BY <1>1 DEF ShownSound, MarksHold
<1>6. MarksHold'
  BY <1>1, <1>4, <1>5 DEF MarksHold, Loop!Keys
<1>7. QED BY <1>3, <1>6 DEF ShownSound

\* What no file holds at a restart is lost.
LEMMA RestartKeepsShown ==
  ASSUME LoopAssumption, Loop!TypeOK, ShownSound, Loop!Restart
  PROVE  ShownSound'
<1>1. /\ hits' = {} /\ fired' = firedFile' /\ firedFile' \subseteq firedFile
      /\ lost' = lost \cup {k \in delivered : \A f \in firedFile' : f.key # k}
      /\ UNCHANGED <<delivered, again>>
  BY DEF Loop!Restart
<1>2. HitsOpen' /\ Loop!FiresOnce'
  BY <1>1 DEF ShownSound, HitsOpen, Loop!FiresOnce
<1>3. \A f \in fired' \cup firedFile' : f.ts = Closes(f.key)
  BY <1>1 DEF ShownSound, MarksHold
<1>4. \A k \in delivered' \ lost' : k \in Loop!Keys(fired')
  BY <1>1 DEF Loop!Keys
<1>5. MarksHold'
  BY <1>3, <1>4 DEF MarksHold, Loop!Keys
<1>6. QED BY <1>2, <1>5 DEF ShownSound

-----------------------------------------------------------------------------
(* The phase that runs has not been announced, unless it was put back. *)

PhasesSound == PhasesMade /\ PhasesLeft /\ Loop!AnnouncedOnce

\* Steps that leave the focus session alone.
LEMMA OthersKeepPhases ==
  ASSUME LoopAssumption, Loop!TypeOK, PhasesSound,
         \/ Loop!Tick \/ Loop!Edit \/ Loop!RoundBegins \/ Loop!Reload \/ Loop!SaveFired
         \/ Loop!Wake \/ \E h \in hits : Loop!Fire(h)
  PROVE  PhasesSound'
<1>1. UNCHANGED <<session, loaded, ids, tapping, announced, twice, revived>>
  BY DEF Loop!Tick, Loop!Edit, Loop!RoundBegins, Loop!Reload, Loop!SaveFired, Loop!Wake, Loop!Fire,
     Loop!focus, Loop!phases
<1>2. QED BY <1>1 DEF PhasesSound, PhasesMade, Made, PhasesLeft, LeftFor, Loop!AnnouncedOnce

LEMMA RestartKeepsPhases ==
  ASSUME LoopAssumption, Loop!TypeOK, PhasesSound, Loop!Restart
  PROVE  PhasesSound'
<1>1. loaded' = Unset /\ UNCHANGED <<session, ids, tapping, announced, twice, revived>>
  BY DEF Loop!Restart, Loop!phases
<1>2. QED BY <1>1 DEF PhasesSound, PhasesMade, Made, PhasesLeft, LeftFor, Loop!AnnouncedOnce

LEMMA LoadKeepsPhases ==
  ASSUME LoopAssumption, Loop!TypeOK, PhasesSound, Loop!LoadPomodoro
  PROVE  PhasesSound'
<1>1. loaded' \in {session, loaded} /\ UNCHANGED <<session, ids, tapping, announced, twice, revived>>
  BY DEF Loop!LoadPomodoro, Loop!phases
<1>2. QED BY <1>1 DEF PhasesSound, PhasesMade, Made, PhasesLeft, LeftFor, Loop!AnnouncedOnce

\* A phase that has just begun is new.
LEMMA AdvanceKeepsPhases ==
  ASSUME LoopAssumption, Loop!TypeOK, PhasesSound, Loop!Advance
  PROVE  PhasesSound'
<1>1. /\ loaded \in Loop!Session /\ loaded.id \in 1..ids /\ loaded # Unset
      /\ ids \in Nat /\ at \in Nat /\ announced \subseteq 1..ids /\ ids' \in Nat /\ ids <= ids'
  BY LoopTypes, ClockFacts, AdvanceTypes DEF LoopFocus, LoopPhases, PhasesSound, Loop!Advance
<1>2. /\ loaded' = Unset /\ announced' = announced \cup {loaded.id} /\ tapping' = tapping
      /\ twice' = IF loaded.id \in announced THEN twice \cup {loaded.id} ELSE twice
      /\ \/ /\ session' = Loop!Skipped(loaded, at, ids + 1) /\ ids' = ids + 1
            /\ revived' = revived
         \/ session' = session /\ ids' = ids /\ revived' = revived \cup {loaded.id}
  BY DEF Loop!Advance
<1>3. Loop!Skipped(loaded, at, ids + 1).id = ids + 1
  <2>1. ids + 1 \in Nat
    BY <1>1
  <2>2. QED BY <1>1, <2>1, SessionFacts DEF LoopAssumption
<1>4. PhasesMade'
  <2>1. Made(session)' /\ Made(loaded)'
    BY <1>1, <1>2, <1>3 DEF PhasesSound, PhasesMade, Made
  <2>2. ASSUME NEW p \in Tappers, tapping[p] # Unset PROVE tapping[p].copy.id \in 1..ids'
    BY <1>1, <2>2 DEF PhasesSound, PhasesMade
  <2>3. QED BY <1>2, <2>1, <2>2 DEF PhasesMade
<1>5. PhasesLeft'
  BY <1>1, <1>2, <1>3 DEF PhasesSound, PhasesLeft, LeftFor
<1>6. Loop!AnnouncedOnce'
  BY <1>1, <1>2 DEF PhasesSound, PhasesLeft, LeftFor, Loop!AnnouncedOnce
<1>7. QED BY <1>4, <1>5, <1>6 DEF PhasesSound

LEMMA StartStopKeepsPhases ==
  ASSUME LoopAssumption, Loop!TypeOK, PhasesSound,
         Loop!FocusStop \/ \E engine \in {"pomodoro", "flowtime"} : Loop!FocusStart(engine)
  PROVE  PhasesSound'
<1>1. /\ ids \in Nat /\ now \in Nat /\ announced \subseteq 1..ids /\ ids' \in Nat /\ ids <= ids'
  BY LoopTypes, ClockFacts, StartStopTypes DEF LoopFocus, LoopPhases
<1>2. /\ UNCHANGED <<loaded, tapping, announced, twice, revived>>
      /\ \/ session' = Unset
         \/ /\ \E engine \in {"pomodoro", "flowtime"} : session' = Loop!Begun(engine, now, ids + 1)
            /\ ids' = ids + 1
  BY DEF Loop!FocusStop, Loop!FocusStart, Loop!phases
<1>3. \A engine \in {"pomodoro", "flowtime"} : Loop!Begun(engine, now, ids + 1).id = ids + 1
  BY <1>1, BegunFacts DEF LoopAssumption
<1>4. session' = Unset \/ (session'.id = ids + 1 /\ ids' = ids + 1)
  BY <1>2, <1>3
<1>5. PhasesMade'
  <2>1. Made(session)' /\ Made(loaded)'
    BY <1>1, <1>2, <1>4 DEF PhasesSound, PhasesMade, Made
  <2>2. ASSUME NEW p \in Tappers, tapping[p] # Unset PROVE tapping[p].copy.id \in 1..ids'
    BY <1>1, <2>2 DEF PhasesSound, PhasesMade
  <2>3. QED BY <1>2, <2>1, <2>2 DEF PhasesMade
<1>6. PhasesLeft' /\ Loop!AnnouncedOnce'
  BY <1>1, <1>2, <1>4 DEF PhasesSound, PhasesLeft, LeftFor, Loop!AnnouncedOnce
<1>7. QED BY <1>5, <1>6 DEF PhasesSound

LEMMA FocusLoadKeepsPhases ==
  ASSUME LoopAssumption, Loop!TypeOK, PhasesSound, NEW p \in Tappers,
         NEW kind \in {"toggle", "skip"}, Loop!FocusLoad(p, kind)
  PROVE  PhasesSound'
<1>1. /\ session # Unset /\ UNCHANGED <<session, loaded, ids, announced, twice, revived>>
      /\ tapping' = [tapping EXCEPT ![p] = [kind |-> kind, t |-> now, copy |-> session]]
  BY DEF Loop!FocusLoad, Loop!focus, Loop!phases
<1>2. session.id \in 1..ids
  BY <1>1 DEF PhasesSound, PhasesMade, Made
<1>3. DOMAIN tapping = Tappers
  BY LoopTypes DEF LoopTaps
<1>4. ASSUME NEW q \in Tappers, tapping'[q] # Unset PROVE tapping'[q].copy.id \in 1..ids
  <2>1. CASE q = p
    BY <1>1, <1>2, <1>3, <2>1
  <2>2. CASE q # p
    BY <1>1, <1>3, <1>4, <2>2 DEF PhasesSound, PhasesMade
  <2>3. QED BY <2>1, <2>2
<1>5. PhasesMade'
  BY <1>1, <1>4 DEF PhasesSound, PhasesMade, Made
<1>6. PhasesLeft' /\ Loop!AnnouncedOnce'
  BY <1>1 DEF PhasesSound, PhasesLeft, LeftFor, Loop!AnnouncedOnce
<1>7. QED BY <1>5, <1>6 DEF PhasesSound

LEMMA FocusSaveKeepsPhases ==
  ASSUME LoopAssumption, Loop!TypeOK, PhasesSound, NEW p \in Tappers, Loop!FocusSave(p)
  PROVE  PhasesSound'
<1> DEFINE c == tapping[p].copy
           t == tapping[p].t
<1>1. /\ c \in Loop!Session /\ t \in Nat /\ c.id \in 1..ids /\ ids \in Nat
      /\ ids' \in Nat /\ ids <= ids' /\ announced \subseteq 1..ids
      /\ tapping' = [tapping EXCEPT ![p] = Unset] /\ DOMAIN tapping = Tappers
  BY LoopTypes, FocusSaveTypes DEF PhasesSound, LoopFocus, LoopPhases, LoopTaps
<1>2. /\ UNCHANGED <<loaded, announced, twice>>
      /\ \/ /\ session' = Loop!Toggled(c, t) /\ ids' = ids
            /\ revived' = IF session # Unset /\ session.id = c.id THEN revived ELSE revived \cup {c.id}
         \/ session' = Loop!Skipped(c, t, ids + 1) /\ ids' = ids + 1 /\ revived' = revived
  BY DEF Loop!FocusSave
<1> HIDE DEF c, t
<1>3. Loop!Toggled(c, t).id = c.id /\ Loop!Skipped(c, t, ids + 1).id = ids + 1
  <2>1. ids + 1 \in Nat
    BY <1>1
  <2>2. QED BY <1>1, <2>1, SessionFacts DEF LoopAssumption
<1>4. PhasesMade'
  <2>1. Made(session)' /\ Made(loaded)'
    BY <1>1, <1>2, <1>3 DEF PhasesSound, PhasesMade, Made
  <2>2. ASSUME NEW q \in Tappers, tapping'[q] # Unset PROVE tapping'[q].copy.id \in 1..ids'
    <3>1. q # p /\ tapping'[q] = tapping[q]
      BY <1>1, <2>2
    <3>2. tapping[q].copy.id \in 1..ids
      BY <2>2, <3>1 DEF PhasesSound, PhasesMade
    <3>3. QED BY <1>1, <3>1, <3>2
  <2>3. QED BY <2>1, <2>2 DEF PhasesMade
<1>5. PhasesLeft'
  <2>1. revived \subseteq revived' /\ announced' = announced /\ loaded' = loaded
    BY <1>2
  <2>2. LeftFor(loaded)'
    BY <2>1 DEF PhasesSound, PhasesLeft, LeftFor
  <2>3. LeftFor(session)'
    BY <1>1, <1>2, <1>3 DEF PhasesSound, PhasesLeft, LeftFor
  <2>4. QED BY <2>2, <2>3 DEF PhasesLeft
<1>6. Loop!AnnouncedOnce'
  BY <1>2 DEF PhasesSound, Loop!AnnouncedOnce
<1>7. QED BY <1>4, <1>5, <1>6 DEF PhasesSound

-----------------------------------------------------------------------------
LEMMA LoopInitially ==
  ASSUME LoopAssumption, Loop!Init
  PROVE  LoopInv
<1>1. ShownSound
  BY DEF Loop!Init, ShownSound, HitsOpen, MarksHold, Loop!FiresOnce
<1>2. PhasesSound
  BY DEF Loop!Init, PhasesSound, PhasesMade, Made, PhasesLeft, LeftFor, Loop!AnnouncedOnce
<1>3. QED BY <1>1, <1>2, LoopInitTypes DEF LoopInv, ShownSound, PhasesSound

LEMMA LoopStep ==
  ASSUME LoopAssumption, LoopInv, [Loop!Next]_(Loop!vars)
  PROVE  LoopInv'
<1>1. Loop!TypeOK /\ ShownSound /\ PhasesSound /\ HitsOpen /\ MarksHold /\ PhasesMade
  BY DEF LoopInv, ShownSound, PhasesSound
<1>2. CASE Loop!Tick \/ Loop!Edit
  BY <1>1, <1>2, OutsideTypes, OthersKeepShown, OthersKeepPhases DEF LoopInv, ShownSound, PhasesSound
<1>3. CASE Loop!RoundBegins
  BY <1>1, <1>3, RoundTypes, RoundKeepsShown, OthersKeepPhases DEF LoopInv, ShownSound, PhasesSound
<1>4. CASE Loop!Wake
  BY <1>1, <1>4, RoundTypes, OthersKeepShown, OthersKeepPhases DEF LoopInv, ShownSound, PhasesSound
<1>5. CASE Loop!Reload
  BY <1>1, <1>5, ReloadTypes, ReloadKeepsShown, OthersKeepPhases
     DEF LoopInv, ShownSound, PhasesSound
<1>6. CASE Loop!SaveFired
  BY <1>1, <1>6, SaveFiredTypes, SaveFiredKeepsShown, OthersKeepPhases
     DEF LoopInv, ShownSound, PhasesSound
<1>7. CASE Loop!Restart
  BY <1>1, <1>7, RestartTypes, RestartKeepsShown, RestartKeepsPhases
     DEF LoopInv, ShownSound, PhasesSound
<1>8. ASSUME NEW h \in hits, Loop!Fire(h) PROVE LoopInv'
  <2>1. Loop!TypeOK' /\ ShownSound'
    BY <1>1, <1>8, FireTypes, FireKeepsShown
  <2>2. PhasesSound'
    BY <1>1, <1>8, OthersKeepPhases
  <2>3. QED BY <2>1, <2>2 DEF LoopInv, ShownSound, PhasesSound
<1>9. CASE Loop!LoadPomodoro
  BY <1>1, <1>9, LoadTypes, OthersKeepShown, LoadKeepsPhases DEF LoopInv, ShownSound, PhasesSound
<1>10. CASE Loop!Advance
  BY <1>1, <1>10, AdvanceTypes, OthersKeepShown, AdvanceKeepsPhases
     DEF LoopInv, ShownSound, PhasesSound
<1>11. CASE Loop!FocusStop \/ \E engine \in {"pomodoro", "flowtime"} : Loop!FocusStart(engine)
  <2>1. Loop!TypeOK' /\ PhasesSound'
    BY <1>1, <1>11, StartStopTypes, StartStopKeepsPhases
  <2>2. ShownSound'
    BY <1>1, <1>11, OthersKeepShown
  <2>3. QED BY <2>1, <2>2 DEF LoopInv, ShownSound, PhasesSound
<1>12. ASSUME NEW p \in Tappers, Loop!FocusSave(p) PROVE LoopInv'
  <2>1. Loop!TypeOK' /\ PhasesSound'
    BY <1>1, <1>12, FocusSaveTypes, FocusSaveKeepsPhases
  <2>2. ShownSound'
    BY <1>1, <1>12, OthersKeepShown
  <2>3. QED BY <2>1, <2>2 DEF LoopInv, ShownSound, PhasesSound
<1>13. ASSUME NEW p \in Tappers, NEW kind \in {"toggle", "skip"}, Loop!FocusLoad(p, kind)
       PROVE  LoopInv'
  <2>1. Loop!TypeOK' /\ PhasesSound'
    BY <1>1, <1>13, FocusLoadTypes, FocusLoadKeepsPhases
  <2>2. ShownSound'
    BY <1>1, <1>13, OthersKeepShown
  <2>3. QED BY <2>1, <2>2 DEF LoopInv, ShownSound, PhasesSound
<1>14. CASE UNCHANGED Loop!vars
  <2>1. Loop!TypeOK'
    BY <1>1, <1>14 DEF Loop!vars, Loop!vault, Loop!loop, Loop!reminders, Loop!focus, Loop!firing,
       Loop!phases, Loop!TypeOK, Loop!Keys, Loop!Phases
  <2>2. ShownSound'
    BY <1>1, <1>14, QuietKeepsShown DEF Loop!vars, Loop!loop, Loop!reminders, Loop!firing
  <2>3. PhasesSound'
    BY <1>1, <1>14 DEF Loop!vars, Loop!focus, Loop!phases, PhasesSound, PhasesMade, Made,
       PhasesLeft, LeftFor, Loop!AnnouncedOnce
  <2>4. QED BY <2>1, <2>2, <2>3 DEF LoopInv, ShownSound, PhasesSound
<1>15. QED BY <1>2, <1>3, <1>4, <1>5, <1>6, <1>7, <1>8, <1>9, <1>10, <1>11, <1>12, <1>13, <1>14
       DEF Loop!Next

-----------------------------------------------------------------------------
(* The reminders that a page shows. *)

PageTypes ==
  /\ minute \in Nat /\ turns \in 0..Turns /\ stood \in [Calls -> Nat]
  /\ agenda \in Page!Agendas
  /\ kept = Unset \/ (kept.due \in Page!Agendas /\ kept.at \in 0..minute)
  /\ asking \subseteq [at : 0..minute, due : Page!Agendas \cup {Unset}]
  /\ ledger \subseteq seen

\* What was asked for after the last edit is what the server has, as far as it is fetched.
KeptIsTrue ==
  \A i \in Calls :
    /\ kept # Unset /\ kept.at > stood[i] => kept.due[i] = Page!Fetched(agenda[i], kept.at)
    /\ \A a \in asking :
         a.due # Unset /\ a.at > stood[i] => a.due[i] = Page!Fetched(agenda[i], a.at)

\* Once the agenda of before has been given up, every minute that a reminder is late
\* was lost to a request: one a minute, and one more when none is under way.
Stands(i) ==
  /\ agenda[i] # Unset /\ Page!InReach(agenda[i])
  /\ stood[i] <= agenda[i].at /\ <<i, agenda[i].at>> \notin seen
Asked(i) == \E a \in asking : a.at >= agenda[i].at + Ttl
LateIsPaid ==
  \A i \in Calls :
    Stands(i) /\ minute >= agenda[i].at + Ttl =>
      turns >= minute - (agenda[i].at + Ttl) + (IF Asked(i) THEN 0 ELSE 1)

PageInv == PageTypes /\ KeptIsTrue /\ LateIsPaid

LEMMA DateFacts ==
  ASSUME Page!InTime, PageTypes, NEW i \in Calls
  PROVE  /\ agenda[i] # Unset =>
              agenda[i].at \in Int /\ agenda[i].from \in Int /\ agenda[i].to \in Int
         /\ stood[i] \in Nat /\ minute \in Nat /\ turns \in Nat /\ turns <= Turns
         /\ Ahead \in Nat /\ Ttl \in Nat /\ Ttl > 0 /\ Late \in Nat /\ Turns \in Nat /\ Turns + Ttl < Late
         /\ \A a \in asking : a.at \in Nat /\ a.at <= minute
         /\ kept # Unset => kept.due \in Page!Agendas /\ kept.at \in Nat /\ kept.at <= minute
<1>1. agenda[i] # Unset =>
        agenda[i].at \in Int /\ agenda[i].from \in Int /\ agenda[i].to \in Int
  BY DEF Page!InTime, PageTypes, Page!Agendas
<1>2. /\ stood[i] \in Nat /\ minute \in Nat /\ turns \in Nat /\ turns <= Turns
      /\ Ahead \in Nat /\ Ttl \in Nat /\ Ttl > 0 /\ Late \in Nat /\ Turns \in Nat /\ Turns + Ttl < Late
  BY DEF Page!InTime, PageTypes
<1>3. \A a \in asking : a.at \in Nat /\ a.at <= minute
  BY <1>2 DEF PageTypes
<1>4. kept # Unset => kept.due \in Page!Agendas /\ kept.at \in Nat /\ kept.at <= minute
  BY <1>2 DEF PageTypes
<1>5. QED BY <1>1, <1>2, <1>3, <1>4

\* What a request of t has of an item that is in reach, while it may be shown.
LEMMA FetchedInReach ==
  ASSUME Page!InTime, PageTypes, NEW i \in Calls, Stands(i), NEW t \in Int,
         agenda[i].at <= t, agenda[i].at > t - Late
  PROVE  Page!Fetched(agenda[i], t) = agenda[i]
<1>1. agenda[i] # Unset /\ agenda[i].from < agenda[i].at + Ahead /\ agenda[i].to >= agenda[i].at
  BY DEF Stands, Page!InReach
<1>2. agenda[i].from < t + Ahead /\ agenda[i].to > t - Late
  BY <1>1, DateFacts
<1>3. QED BY <1>1, <1>2 DEF Page!Fetched

LEMMA FetchedTypes ==
  ASSUME PageTypes, NEW t
  PROVE  [i \in Calls |-> Page!Fetched(agenda[i], t)] \in Page!Agendas
  BY DEF PageTypes, Page!Agendas, Page!Fetched

LEMMA PageInitially ==
  ASSUME Page!InTime, Page!Init
  PROVE  PageInv
<1>1. PageTypes
  BY DEF Page!Init, PageTypes, Page!Tick, Page!InTime
<1>2. KeptIsTrue
  BY DEF Page!Init, KeptIsTrue, Page!Tick
<1>3. LateIsPaid
  <2>1. ASSUME NEW i \in Calls, Stands(i) PROVE ~(minute >= agenda[i].at + Ttl)
    BY <1>1, <2>1, DateFacts DEF Page!Init, Stands
  <2>2. QED BY <2>1 DEF LateIsPaid
<1>4. QED BY <1>1, <1>2, <1>3 DEF PageInv

\* A reminder that stands and is late is not too late.
LEMMA NotTooLate ==
  ASSUME Page!InTime, PageInv, NEW i \in Calls, Stands(i)
  PROVE  /\ minute < agenda[i].at + Late
         /\ minute >= agenda[i].at + Ttl /\ ~Asked(i) => minute + 1 < agenda[i].at + Late
         /\ turns < Turns => minute + 1 < agenda[i].at + Late
<1>1. agenda[i].at \in Int
  BY DateFacts DEF PageInv, Stands
<1>2. CASE minute < agenda[i].at + Ttl
  BY <1>1, <1>2, DateFacts DEF PageInv
<1>3. CASE minute >= agenda[i].at + Ttl
  BY <1>1, <1>3, DateFacts DEF PageInv, LateIsPaid
<1>4. QED BY <1>1, <1>2, <1>3, DateFacts DEF PageInv

LEMMA InvImpliesSound ==
  ASSUME Page!InTime, PageInv
  PROVE  Page!TypeOK /\ Page!NothingMissed
<1>1. Page!TypeOK
  BY DEF PageInv, PageTypes, Page!TypeOK
<1>2. ASSUME NEW i \in Calls, agenda[i] # Unset, Page!InReach(agenda[i]), stood[i] <= agenda[i].at,
             minute >= agenda[i].at + Late
      PROVE  <<i, agenda[i].at>> \in seen
  <2>1. agenda[i].at \in Int
    BY <1>2, DateFacts DEF PageInv
  <2>2. QED BY <1>2, <2>1, NotTooLate, DateFacts DEF Stands, PageInv
<1>3. QED BY <1>1, <1>2 DEF Page!NothingMissed

\* What a look through an agenda finds, and what it shows.
LEMMA LookFinds ==
  ASSUME NEW D, NEW t, NEW i \in Calls, D[i] # Unset, D[i].at <= t, D[i].at > t - Late
  PROVE  <<i, D[i].at>> \in Page!Due(D, t)
  BY DEF Page!Due

LEMMA LookShows ==
  ASSUME NEW D, NEW t, NEW i \in Calls, D[i] # Unset, D[i].at <= t, D[i].at > t - Late,
         Page!Fires(Page!Due(D, t)), ledger \subseteq seen
  PROVE  <<i, D[i].at>> \in seen'
  BY LookFinds DEF Page!Fires

LEMMA LookTypes ==
  ASSUME NEW keys, Page!Fires(keys), ledger \subseteq seen
  PROVE  ledger' \subseteq seen' /\ seen \subseteq seen'
  BY DEF Page!Fires

\* Steps that leave the clock, the agenda and what was kept of it alone.
LEMMA AnswerKeepsPage ==
  ASSUME Page!InTime, PageInv, NEW a \in asking, Page!Answer(a)
  PROVE  PageInv'
<1> DEFINE got == [i \in Calls |-> Page!Fetched(agenda[i], a.at)]
           b == [a EXCEPT !.due = got]
<1>1. /\ a.due = Unset /\ asking' = (asking \ {a}) \cup {b}
      /\ UNCHANGED <<minute, agenda, kept, ledger, turns, stood, seen>>
  BY DEF Page!Answer
<1>2. a \in [at : 0..minute, due : Page!Agendas \cup {Unset}] /\ got \in Page!Agendas
  BY FetchedTypes DEF PageInv, PageTypes
<1>3. \A i \in Calls : got[i] = Page!Fetched(agenda[i], a.at)
  OBVIOUS
<1> HIDE DEF got
<1>8. b \in [at : 0..minute, due : Page!Agendas \cup {Unset}] /\ b.at = a.at /\ b.due = got
  BY <1>2
<1> HIDE DEF b
<1>4. PageTypes'
  BY <1>1, <1>8 DEF PageInv, PageTypes
<1>5. KeptIsTrue'
  BY <1>1, <1>3, <1>8 DEF PageInv, KeptIsTrue, Page!Fetched
<1>6. LateIsPaid'
  <2>1. \A i \in Calls : Stands(i)' = Stands(i) /\ (Asked(i) => Asked(i)')
    BY <1>1, <1>8 DEF Stands, Asked, Page!InReach
  <2>2. ASSUME NEW i \in Calls, Stands(i)', minute' >= agenda'[i].at + Ttl
        PROVE  turns' >= minute' - (agenda'[i].at + Ttl) + (IF Asked(i)' THEN 0 ELSE 1)
    <3>1. Stands(i) /\ agenda[i].at \in Int
      BY <2>1, <2>2, DateFacts DEF PageInv, Stands
    <3>2. turns >= minute - (agenda[i].at + Ttl) + (IF Asked(i) THEN 0 ELSE 1)
      BY <1>1, <2>2, <3>1 DEF PageInv, LateIsPaid
    <3>3. CASE Asked(i)
      BY <1>1, <2>1, <3>2, <3>3
    <3>4. CASE ~Asked(i)
      BY <1>1, <3>1, <3>2, <3>4, DateFacts DEF PageInv
    <3>5. QED BY <3>3, <3>4
  <2>3. QED BY <2>2 DEF LateIsPaid
<1>7. QED BY <1>4, <1>5, <1>6 DEF PageInv

LEMMA LandKeepsPage ==
  ASSUME Page!InTime, PageInv, NEW a \in asking, Page!Land(a)
  PROVE  PageInv'
<1> DEFINE k == [at |-> a.at, due |-> a.due]
<1>1. /\ a.due # Unset /\ asking' = asking \ {a} /\ kept' = k /\ Page!Fires(Page!Due(a.due, a.at))
      /\ UNCHANGED <<minute, agenda, turns, stood>>
  BY DEF Page!Land
<1>2. a.at \in 0..minute /\ a.due \in Page!Agendas /\ ledger \subseteq seen
  BY <1>1 DEF PageInv, PageTypes
<1>3. k.at = a.at /\ k.due = a.due
  OBVIOUS
<1> HIDE DEF k
<1>4. ledger' \subseteq seen' /\ seen \subseteq seen'
  BY <1>1, <1>2, LookTypes
<1>5. PageTypes'
  BY <1>1, <1>2, <1>3, <1>4 DEF PageInv, PageTypes
<1>6. KeptIsTrue'
  BY <1>1, <1>2, <1>3 DEF PageInv, KeptIsTrue
<1>7. LateIsPaid'
  <2>1. ASSUME NEW i \in Calls, Stands(i)', minute' >= agenda'[i].at + Ttl
        PROVE  turns' >= minute' - (agenda'[i].at + Ttl) + (IF Asked(i)' THEN 0 ELSE 1)
    <3>1. Stands(i)
      BY <1>1, <1>4, <2>1 DEF Stands
    <3>2. agenda[i].at \in Int /\ agenda[i] # Unset /\ stood[i] <= agenda[i].at
          /\ minute < agenda[i].at + Late
      BY <3>1, DateFacts, NotTooLate DEF Stands, PageInv
    <3>3. ~(a.at >= agenda[i].at + Ttl)
      <4>1. ASSUME a.at >= agenda[i].at + Ttl PROVE FALSE
        <5>1. a.at > stood[i] /\ agenda[i].at <= a.at /\ agenda[i].at > a.at - Late
          BY <1>2, <3>2, <4>1, DateFacts DEF PageInv
        <5>2. a.due[i] = agenda[i]
          <6>1. a.due[i] = Page!Fetched(agenda[i], a.at)
            BY <1>1, <5>1 DEF PageInv, KeptIsTrue
          <6>2. Page!Fetched(agenda[i], a.at) = agenda[i]
            BY <1>2, <3>1, <5>1, FetchedInReach DEF PageInv, PageTypes
          <6>3. QED BY <6>1, <6>2
        <5>3. <<i, agenda[i].at>> \in seen'
          BY <1>1, <1>2, <3>2, <5>1, <5>2, LookShows
        <5>4. QED BY <1>1, <2>1, <5>3 DEF Stands
      <4>2. QED BY <4>1
    <3>4. Asked(i) => Asked(i)'
      BY <1>1, <3>3 DEF Asked
    <3>5. turns >= minute - (agenda[i].at + Ttl) + (IF Asked(i) THEN 0 ELSE 1)
      BY <1>1, <2>1, <3>1 DEF PageInv, LateIsPaid
    <3>6. CASE Asked(i)
      BY <1>1, <3>4, <3>5, <3>6
    <3>7. CASE ~Asked(i)
      BY <1>1, <3>2, <3>5, <3>7, DateFacts DEF PageInv
    <3>8. QED BY <3>6, <3>7
  <2>2. QED BY <2>1 DEF LateIsPaid
<1>8. QED BY <1>5, <1>6, <1>7 DEF PageInv

\* A request that fails takes an act.
LEMMA FailKeepsPage ==
  ASSUME Page!InTime, PageInv, NEW a \in asking, Page!Fail(a)
  PROVE  PageInv'
<1>1. /\ turns < Turns /\ turns' = turns + 1 /\ asking' = asking \ {a}
      /\ UNCHANGED <<minute, agenda, kept, ledger, stood, seen>>
  BY DEF Page!Fail, Page!Act
<1>2. PageTypes'
  BY <1>1 DEF PageInv, PageTypes, Page!InTime
<1>3. KeptIsTrue'
  BY <1>1 DEF PageInv, KeptIsTrue
<1>4. LateIsPaid'
  <2>1. ASSUME NEW i \in Calls, Stands(i)', minute' >= agenda'[i].at + Ttl
        PROVE  turns' >= minute' - (agenda'[i].at + Ttl) + (IF Asked(i)' THEN 0 ELSE 1)
    <3>1. Stands(i) /\ agenda[i].at \in Int
      BY <1>1, <2>1, DateFacts DEF Stands, PageInv
    <3>2. turns >= minute - (agenda[i].at + Ttl) + (IF Asked(i) THEN 0 ELSE 1)
      BY <1>1, <2>1, <3>1 DEF PageInv, LateIsPaid
    <3>3. QED BY <1>1, <3>1, <3>2, DateFacts DEF PageInv
  <2>2. QED BY <2>1 DEF LateIsPaid
<1>5. QED BY <1>2, <1>3, <1>4 DEF PageInv

\* A reminder that is set now does not stand before its time comes.
LEMMA EditKeepsPage ==
  ASSUME Page!InTime, PageInv, NEW i \in Calls, NEW t \in Entries \cup {Unset}, Page!Edit(i, t)
  PROVE  PageInv'
<1>1. /\ turns < Turns /\ turns' = turns + 1
      /\ agenda' = [agenda EXCEPT ![i] = t] /\ stood' = [stood EXCEPT ![i] = minute]
      /\ UNCHANGED <<minute, kept, asking, ledger, seen>>
  BY DEF Page!Edit, Page!Act
<1>2. minute \in Nat /\ turns \in 0..Turns /\ Turns \in Nat /\ stood \in [Calls -> Nat]
      /\ agenda \in [Calls -> Entries \cup {Unset}]
  BY DEF PageInv, PageTypes, Page!InTime, Page!Agendas
<1>3. PageTypes'
  <2>1. agenda' \in Page!Agendas /\ stood' \in [Calls -> Nat]
    BY <1>1, <1>2 DEF Page!Agendas
  <2>2. QED BY <1>1, <1>2, <2>1 DEF PageInv, PageTypes
<1>4. ASSUME NEW j \in Calls, j # i PROVE agenda'[j] = agenda[j] /\ stood'[j] = stood[j]
  BY <1>1, <1>2, <1>4
<1>5. agenda'[i] = t /\ stood'[i] = minute
  BY <1>1, <1>2
<1>6. KeptIsTrue'
  <2>1. kept # Unset => ~(kept.at > minute)
    BY DateFacts DEF PageInv
  <2>2. \A a \in asking : ~(a.at > minute)
    BY DateFacts DEF PageInv
  <2>3. ASSUME NEW j \in Calls
        PROVE  /\ kept' # Unset /\ kept'.at > stood'[j] =>
                    kept'.due[j] = Page!Fetched(agenda'[j], kept'.at)
               /\ \A a \in asking' :
                    a.due # Unset /\ a.at > stood'[j] => a.due[j] = Page!Fetched(agenda'[j], a.at)
    <3>1. CASE j = i
      BY <1>1, <1>5, <2>1, <2>2, <3>1
    <3>2. CASE j # i
      BY <1>1, <1>4, <3>2 DEF PageInv, KeptIsTrue
    <3>3. QED BY <3>1, <3>2
  <2>4. QED BY <2>3 DEF KeptIsTrue
<1>7. LateIsPaid'
  <2>1. ASSUME NEW j \in Calls, Stands(j)', minute' >= agenda'[j].at + Ttl
        PROVE  turns' >= minute' - (agenda'[j].at + Ttl) + (IF Asked(j)' THEN 0 ELSE 1)
    <3>1. j # i
      <4>1. SUFFICES ASSUME j = i PROVE FALSE
        OBVIOUS
      <4>2. t.at \in Int /\ minute <= t.at /\ minute >= t.at + Ttl
        BY <1>1, <1>5, <2>1, <4>1 DEF Stands, Page!InTime
      <4>3. QED BY <1>2, <4>2 DEF Page!InTime
    <3>2. agenda'[j] = agenda[j] /\ stood'[j] = stood[j]
      BY <1>4, <3>1
    <3>3. Stands(j) /\ agenda[j].at \in Int
      BY <1>1, <2>1, <3>2, DateFacts DEF Stands, PageInv
    <3>4. Asked(j)' = Asked(j)
      BY <1>1, <3>2 DEF Asked
    <3>5. turns >= minute - (agenda[j].at + Ttl) + (IF Asked(j) THEN 0 ELSE 1)
      BY <1>1, <2>1, <3>2, <3>3 DEF PageInv, LateIsPaid
    <3>6. QED BY <1>1, <1>2, <3>2, <3>3, <3>4, <3>5 DEF Page!InTime
  <2>2. QED BY <2>1 DEF LateIsPaid
<1>8. QED BY <1>3, <1>6, <1>7 DEF PageInv

LEMMA ForgetKeepsPage ==
  ASSUME Page!InTime, PageInv, Page!Invalidate \/ Page!SignOutAndIn
  PROVE  PageInv'
<1>1. /\ kept' = Unset /\ turns' \in {turns, turns + 1} /\ turns' \in 0..Turns
      /\ ledger' \in {ledger, {}}
      /\ UNCHANGED <<minute, agenda, asking, stood, seen>>
  BY DateFacts DEF Page!Invalidate, Page!SignOutAndIn, Page!Act, PageInv, PageTypes, Page!InTime
<1>2. PageTypes'
  BY <1>1 DEF PageInv, PageTypes
<1>3. KeptIsTrue'
  BY <1>1 DEF PageInv, KeptIsTrue
<1>4. LateIsPaid'
  <2>1. ASSUME NEW i \in Calls, Stands(i)', minute' >= agenda'[i].at + Ttl
        PROVE  turns' >= minute' - (agenda'[i].at + Ttl) + (IF Asked(i)' THEN 0 ELSE 1)
    <3>1. Stands(i) /\ agenda[i].at \in Int
      BY <1>1, <2>1, DateFacts DEF Stands, PageInv
    <3>2. Asked(i)' = Asked(i)
      BY <1>1 DEF Asked
    <3>3. turns >= minute - (agenda[i].at + Ttl) + (IF Asked(i) THEN 0 ELSE 1)
      BY <1>1, <2>1, <3>1 DEF PageInv, LateIsPaid
    <3>4. QED BY <1>1, <3>1, <3>2, <3>3, DateFacts DEF PageInv
  <2>2. QED BY <2>1 DEF LateIsPaid
<1>5. QED BY <1>2, <1>3, <1>4 DEF PageInv

\* A minute passes: an agenda that is kept shows what has come due, or it is asked for.
LEMMA MinuteKeepsPage ==
  ASSUME Page!InTime, PageInv, Page!Minute
  PROVE  PageInv'
<1> DEFINE tick == [at |-> minute + 1, due |-> Unset]
           Fresh == kept # Unset /\ (minute + 1) - kept.at < Ttl
<1>1. /\ minute' = minute + 1 /\ UNCHANGED <<agenda, kept, stood>>
      /\ IF asking = {} THEN turns' = turns ELSE turns < Turns /\ turns' = turns + 1
      /\ Fresh => Page!Fires(Page!Due(kept.due, minute + 1)) /\ asking' = asking
      /\ ~Fresh => asking' = asking \cup {tick} /\ ledger' = ledger /\ seen' = seen
  <2>1. minute' = minute + 1 /\ UNCHANGED <<agenda, kept, stood>>
    BY DEF Page!Minute
  <2>2. IF asking = {} THEN turns' = turns ELSE turns < Turns /\ turns' = turns + 1
    BY DEF Page!Minute, Page!Act
  <2>3. IF kept # Unset /\ minute' - kept.at < Ttl
        THEN Page!Fires(Page!Due(kept.due, minute')) /\ asking' = asking
        ELSE asking' = asking \cup {Page!Tick(minute')} /\ ledger' = ledger /\ seen' = seen
    BY DEF Page!Minute
  <2>4. Page!Tick(minute') = tick
    BY <2>1 DEF Page!Tick
  <2>5. /\ Fresh => Page!Fires(Page!Due(kept.due, minute + 1)) /\ asking' = asking
        /\ ~Fresh => asking' = asking \cup {tick} /\ ledger' = ledger /\ seen' = seen
    BY <2>1, <2>3, <2>4 DEF Page!Fires
  <2>6. QED BY <2>1, <2>2, <2>5
<1>2. minute \in Nat /\ turns \in 0..Turns /\ Turns \in Nat /\ ledger \subseteq seen
  BY DEF PageInv, PageTypes, Page!InTime
<1>3. tick \in [at : 0..(minute + 1), due : Page!Agendas \cup {Unset}]
      /\ tick.at = minute + 1 /\ tick.due = Unset
  BY <1>2
<1> HIDE DEF tick
<1>4. ledger' \subseteq seen' /\ seen \subseteq seen'
  BY <1>1, <1>2, LookTypes
<1>5. PageTypes'
  <2>1. turns' \in 0..Turns /\ minute' \in Nat
    BY <1>1, <1>2
  <2>2. kept' = Unset \/ (kept'.due \in Page!Agendas /\ kept'.at \in 0..minute')
    BY <1>1, <1>2 DEF PageInv, PageTypes
  <2>3. asking' \subseteq [at : 0..minute', due : Page!Agendas \cup {Unset}]
    <3>1. asking \subseteq [at : 0..(minute + 1), due : Page!Agendas \cup {Unset}]
      BY <1>2 DEF PageInv, PageTypes
    <3>2. QED BY <1>1, <1>3, <3>1
  <2>4. QED BY <1>1, <1>4, <2>1, <2>2, <2>3 DEF PageInv, PageTypes
<1>6. KeptIsTrue'
  BY <1>1, <1>3 DEF PageInv, KeptIsTrue
<1>7. LateIsPaid'
  <2>1. ASSUME NEW i \in Calls, Stands(i)', minute' >= agenda'[i].at + Ttl
        PROVE  turns' >= minute' - (agenda'[i].at + Ttl) + (IF Asked(i)' THEN 0 ELSE 1)
    <3>1. Stands(i)
      BY <1>1, <1>4, <2>1 DEF Stands
    <3>2. agenda[i].at \in Int /\ agenda[i] # Unset /\ stood[i] <= agenda[i].at
      BY <3>1, DateFacts DEF Stands, PageInv
    <3>3. minute >= agenda[i].at + Ttl =>
            turns >= minute - (agenda[i].at + Ttl) + (IF Asked(i) THEN 0 ELSE 1)
      BY <3>1 DEF PageInv, LateIsPaid
    <3>4. asking = {} => ~Asked(i)
      BY DEF Asked
    <3>5. turns' >= (minute + 1) - (agenda[i].at + Ttl)
      BY <1>1, <1>2, <2>1, <3>2, <3>3, <3>4, DateFacts DEF PageInv
    <3>6. minute + 1 < agenda[i].at + Late
      BY <1>1, <1>2, <3>2, <3>5, DateFacts DEF PageInv
    <3>7. ~Fresh
      <4>1. ASSUME Fresh PROVE FALSE
        <5>1. kept.at > stood[i] /\ agenda[i].at <= minute + 1 /\ agenda[i].at > (minute + 1) - Late
          BY <1>1, <2>1, <3>2, <3>6, <4>1, DateFacts DEF PageInv
        <5>2. kept.due[i] = agenda[i]
          <6>1. kept.due[i] = Page!Fetched(agenda[i], kept.at)
            BY <4>1, <5>1 DEF PageInv, KeptIsTrue
          <6>2. kept.at \in Int /\ agenda[i].at <= kept.at /\ agenda[i].at > kept.at - Late
            BY <1>1, <2>1, <3>2, <3>6, <4>1, DateFacts DEF PageInv
          <6>3. Page!Fetched(agenda[i], kept.at) = agenda[i]
            BY <3>1, <6>2, FetchedInReach DEF PageInv
          <6>4. QED BY <6>1, <6>3
        <5> DEFINE D == kept.due
                   t == minute + 1
        <5>3. D[i] # Unset /\ D[i].at <= t /\ D[i].at > t - Late
          BY <3>2, <5>1, <5>2
        <5> HIDE DEF D, t
        <5>4. <<i, D[i].at>> \in Page!Due(D, t)
          BY <5>3, LookFinds
        <5>5. <<i, kept.due[i].at>> \in seen'
          BY <1>1, <1>2, <4>1, <5>4 DEF Page!Fires, D, t
        <5>6. QED BY <1>1, <2>1, <5>2, <5>5 DEF Stands
      <4>2. QED BY <4>1
    <3>8. Asked(i)'
      BY <1>1, <1>3, <2>1, <3>7 DEF Asked
    <3>9. turns' >= minute' - (agenda'[i].at + Ttl) /\ turns' \in Int /\ minute' \in Int
          /\ agenda'[i].at + Ttl \in Int
      BY <1>1, <1>2, <3>2, <3>5, DateFacts DEF PageInv
    <3>10. QED BY <3>8, <3>9
  <2>2. QED BY <2>1 DEF LateIsPaid
<1>8. QED BY <1>5, <1>6, <1>7 DEF PageInv

LEMMA PageStep ==
  ASSUME Page!InTime, PageInv, [Page!Next]_(Page!vars)
  PROVE  PageInv'
<1>1. CASE Page!Minute
  BY <1>1, MinuteKeepsPage
<1>2. CASE Page!Invalidate \/ Page!SignOutAndIn
  BY <1>2, ForgetKeepsPage
<1>3. ASSUME NEW a \in asking, Page!Answer(a) \/ Page!Land(a) \/ Page!Fail(a)
      PROVE  PageInv'
  BY <1>3, AnswerKeepsPage, LandKeepsPage, FailKeepsPage
<1>4. ASSUME NEW i \in Calls, NEW t \in Entries \cup {Unset}, Page!Edit(i, t)
      PROVE  PageInv'
  BY <1>4, EditKeepsPage
<1>5. CASE UNCHANGED Page!vars
  BY <1>5 DEF Page!vars, PageInv, PageTypes, KeptIsTrue, LateIsPaid, Stands, Asked,
     Page!InReach
<1>6. QED BY <1>1, <1>2, <1>3, <1>4, <1>5 DEF Page!Next

-----------------------------------------------------------------------------
\* Whatever the user, the focus commands and the web server do beside the daemon, at
\* whatever moments it is restarted and whichever saves fail: a reminder is shown twice
\* only if no file held its key at a restart, and the end of a phase is announced twice
\* only if the phase was put back (daemon.rs run, reminders.rs, focus.rs); and a page
\* that asks every minute shows each reminder that is in its reach, of an item that
\* begins within two days of it and is not over, within the ten minutes (notify.ts).
THEOREM RemindersOnTime == Loop!Spec /\ Page!Spec => []RemindersSound
<1>1. Loop!Init => LoopInv
  BY RemindersAssumption, LoopInitially DEF LoopAssumption
<1>2. LoopInv /\ [Loop!Next]_(Loop!vars) => LoopInv'
  BY RemindersAssumption, LoopStep DEF LoopAssumption
<1>3. LoopInv => Loop!OnceEach
  BY DEF LoopInv, Loop!OnceEach
<1>4. Loop!Spec => []Loop!OnceEach
  BY <1>1, <1>2, <1>3, PTL DEF Loop!Spec
<1>5. Page!Init => PageInv
  BY RemindersAssumption, PageInitially
<1>6. PageInv /\ [Page!Next]_(Page!vars) => PageInv'
  BY RemindersAssumption, PageStep
<1>7. PageInv => Page!TypeOK /\ Page!NothingMissed
  BY RemindersAssumption, InvImpliesSound
<1>8. Page!Spec => [](Page!TypeOK /\ Page!NothingMissed)
  BY <1>5, <1>6, <1>7, PTL DEF Page!Spec
<1>9. Loop!OnceEach /\ (Page!TypeOK /\ Page!NothingMissed) => RemindersSound
  BY DEF RemindersSound
<1>10. QED BY <1>4, <1>8, <1>9, PTL
=============================================================================
