--------------------------- MODULE Administration ---------------------------
(***************************************************************************)
(* The administration of the web server: Access, and beside it the files   *)
(* of Accounts and the Pages that are signed in.  They share no state      *)
(* here.                                                                   *)
(***************************************************************************)
EXTENDS Access

CONSTANTS
  Names, Colls, Passwords, Flows, OAuthClients, Desktop, Workers,   \* see Accounts
  HandAccounts, HandColls, Nothing, Blank, Torn, MaxRequests,
  Persons, Boards, Moves, MaxSessions, MaxFetches, MaxTurns         \* see Pages

VARIABLES
  installed, tmp, fd, pending, client, tokens, job, requests, began, redeemed,
  stored, signed, live, authed, res, stream, moves, down, turns, gap, undone, strayed

Files == INSTANCE Accounts

Page == INSTANCE Pages WITH Users <- Persons, MaxActs <- MaxTurns, acts <- turns

ASSUME AdministrationAssumption == Files!Configured /\ Page!NullIsNothing

fileVars ==
  <<installed, tmp, fd, pending, client, tokens, job, requests, began, redeemed>>
pageVars ==
  <<stored, signed, live, authed, res, stream, moves, down, turns, gap, undone, strayed>>

\* What sync would run names accounts and tokens that are there (admin.rs:305, 427).
TargetsResolve == Files!TargetsResolve

\* A page that waits for nothing shows what the server has, and to its user what is
\* theirs (cache.ts, stream.ts).
PagesSound == Page!PagesSound
=============================================================================
