--------------------------------- MODULE Pages ---------------------------------
(***************************************************************************)
(* A page of the web front end: a resource that is shown from its last     *)
(* value while it is fetched anew (web/src/lib/cache.ts), the stream of    *)
(* changes that says when (lib/stream.ts), and the session it is fetched   *)
(* under (api.ts, app.tsx).  The resource is a user's board, and the board *)
(* is the column of one card.                                              *)
(*                                                                         *)
(* A request is sent, answered and received in three steps; everything     *)
(* else the page does between two awaits is one step.  A fetch that is no  *)
(* longer the latest of its resource has no effect but that of a 401, so   *)
(* that only MaxFetches of them are followed.                              *)
(***************************************************************************)
EXTENDS Integers, Sequences, SequencesExt

CONSTANTS
  Users, Boards,
  Moves,        \* moves of the card that may be on their way at once
  None,
  MaxSessions, MaxFetches,
  MaxActs       \* bound on edits and lost messages together

VARIABLES
  stored,   \* every user's board on the server
  signed,   \* whose session each was, the last one's cookie the browser has
  live,     \* does the server still take that
  authed,   \* does the page believe so
  res,      \* the resource: on the screen, in localStorage, on its way
  stream,   \* the EventSource, a `changed` on its way, the 500 ms timer, `missed`
  moves,    \* optimistic mutations on their way
  down,     \* serverDown
  acts,
  gap,      \* history: a change came before the stream was first open
  undone,   \* history: a rollback brought back what another session showed
  strayed   \* history: what is kept was asked for by a page that had signed out

vars == <<stored, signed, live, authed, res, stream, moves, down, acts, gap, undone, strayed>>

Session == Len(signed)
User == signed[Session]
Valid(session) == live /\ session = Session

NoStream == [at |-> "off", missed |-> FALSE, timer |-> FALSE, ping |-> FALSE]
Joining == [NoStream EXCEPT !.at = "joining"]
NoMoves == [m \in Moves |-> None]

\* entry.revalidate, of whatever session the cookie is now; `out` is history: the
\* page that asks has signed out.
Revalidated(r, session, out) ==
  [r EXCEPT !.fetches = Append(IF Len(@) = MaxFetches THEN Tail(@) ELSE @,
                               [by |-> session, st |-> "asked", data |-> None]),
            !.latest = TRUE, !.out = out]

\* A mistake: what is on its way is not called off.
ClearedButForFetches(r) == [r EXCEPT !.data = None, !.kept = None, !.error = FALSE]

\* clearCache; the higher generation makes every fetch one of the past.
Cleared(r) ==
  [r EXCEPT !.data = None, !.kept = None, !.error = FALSE, !.latest = FALSE, !.out = FALSE]

Opened(kept, session) ==
  Revalidated([data |-> kept, kept |-> kept, error |-> FALSE, fetches |-> <<>>,
               latest |-> FALSE, out |-> FALSE], session, FALSE)

Init ==
  /\ \E b \in Boards : stored = [u \in Users |-> b]
  /\ \E u \in Users : signed = <<u>>
  /\ live = TRUE /\ authed = TRUE
  /\ res = Opened(None, 1)
  /\ stream = Joining
  /\ moves = NoMoves
  /\ down = FALSE /\ acts = 0
  /\ gap = FALSE /\ undone = FALSE /\ strayed = FALSE

\* Another edit, or another message lost.
Act == acts < MaxActs /\ acts' = acts + 1

\* `u`'s board is now `b`: whoever listens to that vault is told.
Stores(u, b) ==
  /\ stored' = [stored EXCEPT ![u] = b]
  /\ stream' = [stream EXCEPT !.ping = @ \/ (stream.at = "open" /\ u = User)]
  /\ gap' = (gap \/ (stream.at = "joining" /\ u = User))

\* The effect that runs when `authed` has become FALSE.
LeftTo(r, foreign) ==
  /\ authed' = FALSE
  /\ res' = IF authed THEN Cleared(r) ELSE r
  /\ stream' = IF authed THEN NoStream ELSE stream
  /\ undone' = (foreign /\ ~authed)
  /\ strayed' = (strayed /\ ~authed)

-----------------------------------------------------------------------------
(* The session. *)

SignOut ==
  /\ authed /\ live /\ live' = FALSE
  /\ LeftTo(res, undone)
  /\ UNCHANGED <<stored, signed, moves, down, acts, gap>>

\* It runs out, or is ended from elsewhere.
Expire ==
  /\ live /\ live' = FALSE
  /\ UNCHANGED <<stored, signed, authed, res, stream, moves, down, acts, gap, undone, strayed>>

SignIn(u) ==
  /\ ~authed /\ Session < MaxSessions
  /\ signed' = Append(signed, u) /\ live' = TRUE /\ authed' = TRUE
  /\ res' = Revalidated(res, Session + 1, FALSE)
  /\ stream' = Joining
  /\ down' = FALSE /\ gap' = FALSE
  /\ undone' = (undone \/ res.data # None)
  /\ UNCHANGED <<stored, moves, acts, strayed>>

\* The page is opened anew and paints from localStorage.
OpenAgain ==
  /\ authed
  /\ res' = Opened(res.kept, Session)
  /\ stream' = Joining
  /\ moves' = NoMoves
  /\ down' = FALSE /\ gap' = FALSE /\ undone' = strayed
  /\ UNCHANGED <<stored, signed, live, authed, acts, strayed>>

-----------------------------------------------------------------------------
(* Fetches. *)

\* invalidate("all")
Invalidate ==
  /\ res' = Revalidated(res, Session, ~authed)
  /\ gap' = FALSE

\* The window has the focus, or the page is visible again.
Focus ==
  /\ Invalidate
  /\ UNCHANGED <<stored, signed, live, authed, stream, moves, down, acts, undone, strayed>>

\* Every ten seconds while the server is believed to be down.
Poll ==
  /\ down /\ stream.at # "open" /\ down' = FALSE
  /\ Invalidate
  /\ UNCHANGED <<stored, signed, live, authed, stream, moves, acts, undone, strayed>>

AnswerFetch(i) ==
  /\ res.fetches[i].st = "asked"
  /\ LET by == res.fetches[i].by IN
     res' = [res EXCEPT !.fetches[i] =
       IF Valid(by)
       THEN [by |-> by, st |-> "ok", data |-> [of |-> User, board |-> stored[User]]]
       ELSE [@ EXCEPT !.st = "no"]]
  /\ UNCHANGED <<stored, signed, live, authed, stream, moves, down, acts, gap, undone, strayed>>

LoseFetch(i) ==
  /\ res.fetches[i].st # "lost" /\ Act
  /\ res' = [res EXCEPT !.fetches[i] = [@ EXCEPT !.st = "lost", !.data = None]]
  /\ UNCHANGED <<stored, signed, live, authed, stream, moves, down, gap, undone, strayed>>

\* The fetch is over, with `value` or an error.
Settled(i, value) ==
  LET latest == res.latest /\ i = Len(res.fetches)
      rest == [res EXCEPT !.fetches = RemoveAt(@, i), !.latest = @ /\ ~latest, !.out = @ /\ ~latest]
  IN IF ~latest THEN rest
     ELSE IF value = None THEN [rest EXCEPT !.error = TRUE]
     ELSE [rest EXCEPT !.data = value, !.kept = value, !.error = FALSE]

LandFetch(i) ==
  LET f == res.fetches[i] IN
  /\ f.st # "asked"
  /\ down' = (f.st = "lost")
  /\ IF f.st = "no" THEN LeftTo(Settled(i, None), undone)
     ELSE /\ res' = Settled(i, f.data)
          /\ IF res.latest /\ i = Len(res.fetches) /\ f.st = "ok"
             THEN undone' = FALSE /\ strayed' = res.out
             ELSE UNCHANGED <<undone, strayed>>
          /\ UNCHANGED <<authed, stream>>
  /\ UNCHANGED <<stored, signed, live, moves, acts, gap>>

-----------------------------------------------------------------------------
(* Optimistic mutations. *)

Move(m, b) ==
  /\ authed /\ res.data # None /\ res.data.board # b /\ moves[m] = None
  /\ Act
  /\ moves' = [moves EXCEPT ![m] = [by |-> Session, to |-> b, prev |-> res.data, st |-> "asked"]]
  /\ res' = [res EXCEPT !.data.board = b]
  /\ UNCHANGED <<stored, signed, live, authed, stream, down, gap, undone, strayed>>

AnswerMove(m) ==
  /\ moves[m] # None /\ moves[m].st = "asked"
  /\ IF Valid(moves[m].by)
     THEN /\ Stores(User, moves[m].to)
          /\ moves' = [moves EXCEPT ![m].st = "ok"]
     ELSE /\ moves' = [moves EXCEPT ![m].st = "no"]
          /\ UNCHANGED <<stored, stream, gap>>
  /\ UNCHANGED <<signed, live, authed, res, down, acts, undone, strayed>>

\* The request or the reply.
LoseMove(m) ==
  /\ moves[m] # None /\ moves[m].st # "lost" /\ Act
  /\ moves' = [moves EXCEPT ![m].st = "lost"]
  /\ UNCHANGED <<stored, signed, live, authed, res, stream, down, gap, undone, strayed>>

\* A 401 is read to its end between `authed` and the rollback, and the effect
\* may clear in between.
LeftAndBack(data) ==
  /\ authed' = FALSE /\ stream' = NoStream
  /\ undone' = TRUE /\ strayed' = FALSE
  /\ res' = Revalidated([Cleared(res) EXCEPT !.data = data], Session, TRUE)

LandMove(m) ==
  /\ moves[m] # None /\ moves[m].st # "asked"
  /\ moves' = [moves EXCEPT ![m] = None]
  /\ down' = (moves[m].st = "lost")
  /\ LET back == [res EXCEPT !.data = moves[m].prev]
         foreign == moves[m].prev.of # User \/ ~authed
     IN CASE moves[m].st = "ok" ->
               Invalidate /\ UNCHANGED <<authed, stream, undone, strayed>>
          [] moves[m].st = "no" ->
               /\ \/ LeftTo(Revalidated(back, Session, ~authed), undone \/ ~authed)
                  \/ authed /\ LeftAndBack(moves[m].prev)
               /\ gap' = FALSE
          [] moves[m].st = "lost" ->
               /\ res' = Revalidated(back, Session, ~authed)
               /\ undone' = (undone \/ foreign)
               /\ gap' = FALSE
               /\ UNCHANGED <<authed, stream, strayed>>
  /\ UNCHANGED <<stored, signed, live, acts>>

-----------------------------------------------------------------------------
(* Other devices, and the stream. *)

Change(u, b) ==
  /\ stored[u] # b
  /\ Act
  /\ Stores(u, b)
  /\ UNCHANGED <<signed, live, authed, res, moves, down, undone, strayed>>

\* A mistake: the first ping after a break is waited for.
JoinWithoutCatchingUp ==
  /\ stream.at \in {"joining", "lost"} /\ live
  /\ stream' = [stream EXCEPT !.at = "open", !.missed = FALSE]
  /\ UNCHANGED <<stored, signed, live, authed, res, moves, down, acts, gap, undone, strayed>>

Join ==
  /\ stream.at \in {"joining", "lost"} /\ live
  /\ stream' = [stream EXCEPT !.at = "open", !.missed = FALSE, !.timer = @ \/ stream.missed]
  /\ UNCHANGED <<stored, signed, live, authed, res, moves, down, acts, gap, undone, strayed>>

\* The browser tries again after a broken connection, and never after a status
\* that is not 200.
Break(at) ==
  /\ stream.at \in {"joining", "lost", "open"}
  /\ at = "refused" => stream.at # "open"
  /\ stream' = [stream EXCEPT !.at = at, !.missed = TRUE, !.ping = FALSE]
  /\ UNCHANGED <<stored, signed, live, authed, res, moves, down, acts, gap, undone, strayed>>

\* refreshSoon
Ping ==
  /\ stream.ping
  /\ stream' = [stream EXCEPT !.ping = FALSE, !.timer = TRUE]
  /\ UNCHANGED <<stored, signed, live, authed, res, moves, down, acts, gap, undone, strayed>>

RefreshNow ==
  /\ stream.timer
  /\ stream' = [stream EXCEPT !.timer = FALSE]
  /\ Invalidate
  /\ UNCHANGED <<stored, signed, live, authed, moves, down, acts, undone, strayed>>

FetchStep == \E i \in DOMAIN res.fetches : AnswerFetch(i) \/ LoseFetch(i) \/ LandFetch(i)

MoveStep ==
  \E m \in Moves : \/ AnswerMove(m) \/ LoseMove(m) \/ LandMove(m)
                   \/ \E b \in Boards : Move(m, b)

Next ==
  \/ SignOut \/ Expire \/ \E u \in Users : SignIn(u)
  \/ OpenAgain \/ Focus \/ Poll
  \/ FetchStep \/ MoveStep
  \/ \E u \in Users, b \in Boards : Change(u, b)
  \/ Join \/ \E at \in {"lost", "refused"} : Break(at)
  \/ Ping \/ RefreshNow

Spec == Init /\ [][Next]_vars

-----------------------------------------------------------------------------
Board == [of : Users, board : Boards]
Data == Board \cup {None}
Moving ==
  [by : 1..MaxSessions, to : Boards, prev : Board, st : {"asked", "ok", "no", "lost"}]

\* null is no board and no move, and there is a session to sign in to.
NullIsNothing ==
  /\ MaxSessions \in Nat \ {0} /\ MaxFetches \in Nat \ {0}
  /\ None \notin Board \cup Moving

TypeOK ==
  /\ stored \in [Users -> Boards] /\ signed \in Seq(Users) /\ Session \in 1..MaxSessions
  /\ {live, authed, down, gap, undone, strayed} \subseteq BOOLEAN
  /\ res.data \in Data /\ res.kept \in Data /\ Len(res.fetches) <= MaxFetches
  /\ res.latest => res.fetches # <<>>
  /\ stream.ping => stream.at = "open"

Quiet ==
  ~stream.ping /\ ~stream.timer /\ ~res.latest /\ moves = NoMoves

\* While the stream is open, a page that waits for nothing and shows no error
\* shows what the server has, whichever of its fetches, moves, pings and
\* reconnections came first (cache.ts, stream.ts:1-3).
ShowsVault ==
  authed /\ stream.at = "open" /\ Quiet /\ ~res.error /\ ~gap =>
    res.data = [of |-> User, board |-> stored[User]]

\* "so the next user on this browser never sees the previous user's data"
\* (cache.ts:99-101): what is shown, and what is kept for the next visit, is
\* the user's own, but for a rollback after the sign-out, and for what a page
\* that has signed out asks for with a session that is still good.
ShowsOwn ==
  authed => /\ res.data # None /\ ~undone => res.data.of = User
            /\ res.kept # None /\ ~strayed => res.kept.of = User

\* A page can be relied on.
PagesSound == ShowsVault /\ ShowsOwn

\* The same sentence as it stands.
ShowsOnlyOwn == authed /\ res.data # None => res.data.of = User

\* Whatever was changed while nobody listened, an open stream says.
ShowsVaultAlways ==
  authed /\ stream.at = "open" /\ Quiet /\ ~res.error =>
    res.data = [of |-> User, board |-> stored[User]]
=============================================================================
