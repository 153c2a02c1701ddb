----------------------------- MODULE Access_proofs -----------------------------
(***************************************************************************)
(* Theorems about Access, for any number of clients, accounts, addresses,  *)
(* secrets and requests, and about what is administered beside it: the     *)
(* files of Accounts and the Pages.                                        *)
(*                                                                         *)
(* A transaction that nobody's commit has made stale still sees what it    *)
(* has read; a request that has proved a password and is not overtaken has *)
(* the password the account has now; a request past the check of a lock    *)
(* that has been set since is known to have been outrun.  What sync would  *)
(* be run with names accounts and tokens that are there.  A page that      *)
(* waits for nothing shows what the server has, and to its user what is    *)
(* theirs.                                                                 *)
(***************************************************************************)
EXTENDS Administration, Sequences, TLAPS

-----------------------------------------------------------------------------
(* Types. *)

RequestFits(r) ==
  /\ r.phase \in {"read", "commit"} /\ r.op \in {"login", "password"} =>
       r.code \in Nat /\ r.key \in Secrets
  /\ r.op = "accept" /\ r.phase = "commit" => r.user \in Users

RequestTypes ==
  /\ req \in [Clients -> Request]
  /\ \A c \in Clients : RequestFits(req[c])

\* The locals of one handler change to something that fits.
LEMMA RequestUpdate ==
  ASSUME TypeOK, NEW c \in Clients, NEW r \in Request, RequestFits(r),
         req' = [req EXCEPT ![c] = r]
  PROVE  RequestTypes'
  BY DEF TypeOK, RequestTypes, RequestFits

\* A handler goes on to its next phase.
LEMMA Goes ==
  ASSUME TypeOK, NEW c \in Clients, NEW phase \in Phases, Goto(c, phase),
         RequestFits([req[c] EXCEPT !.phase = phase])
  PROVE  RequestTypes'
<1>1. req[c] \in Request
  BY DEF TypeOK
<1>2. [req[c] EXCEPT !.phase = phase] \in Request
  BY <1>1 DEF Request
<1>3. req' = [req EXCEPT ![c] = [req[c] EXCEPT !.phase = phase]]
  BY <1>1 DEF Goto, Request, TypeOK
<1> QED
  BY <1>2, <1>3, RequestUpdate

\* A phase in which nothing is asked of the code and the key.
LEMMA GoesFreely ==
  ASSUME TypeOK, NEW c \in Clients, NEW phase \in Phases \ {"read", "commit"},
         Goto(c, phase)
  PROVE  RequestTypes'
<1>1. RequestFits([req[c] EXCEPT !.phase = phase])
  BY DEF TypeOK, Request, RequestFits
<1> QED
  BY <1>1, Goes

LEMMA SecretTypes ==
  ASSUME TypeOK, NEW n \in {1, 2}, NewSecret(n)
  PROVE  /\ minted' \in 4..MaxSecrets
         /\ minted + 1 \in Secrets /\ minted + n \in Secrets
  BY AccessAssumption DEF TypeOK, NewSecret, Secrets

\* How a request looks when its handler starts.
Begun(r) ==
  /\ r.phase \in {"check", "verify", "insert"} /\ RequestFits(r)
  /\ r.op = "create" => r.user \in Users
  /\ r.op = "setup" => r.user = Admin
  /\ r.op = "password" <=> r.phase = "verify"

LEMMA StartTypes ==
  ASSUME TypeOK, NEW c \in Clients, NEW r \in Request, Start(c, r), Begun(r)
  PROVE  TypeOK'
<1>1. RequestTypes'
  BY RequestUpdate DEF Start, Begun
<1>2. acts' \in 0..MaxActs
  BY AccessAssumption DEF Start, TypeOK
<1> QED
  BY <1>1, <1>2 DEF Start, TypeOK, RequestTypes, RequestFits, creds

\* Whatever a client asks for, its handler starts with a request of this kind.
LEMMA AskStarts ==
  ASSUME TypeOK, NEW c \in Clients, Asks(c)
  PROVE  \E r \in Request : Begun(r) /\ Start(c, r)
<1>1. PICK a \in Addrs :
    \/ StartSetup(c, a)
    \/ \E t \in {None} \cup {invite[u] : u \in Users} : StartAccept(c, a, t)
    \/ \E u \in Users : StartCreate(c, a, u)
    \/ \E u \in Accounts : StartMint(c, a, u)
    \/ \E u \in Accounts : \E pw \in {None, password[u]}, code \in {None, now} :
         \/ StartLogin(c, a, u, pw, code)
         \/ LoggedIn(c) /\ session[c].user = u /\ StartPassword(c, a, pw, code)
  BY DEF Asks
<1> USE DEF Request, Begun, RequestFits, Accounts, Ops, Phases, Option
<1>2. ASSUME StartSetup(c, a)
      PROVE  \E r \in Request : Begun(r) /\ Start(c, r)
  <2> DEFINE r == [user |-> Admin, op |-> "setup", phase |-> "check", addr |-> a,
                   typed |-> None, code |-> None, key |-> None]
  <2>1. r \in Request /\ Begun(r)
    BY <1>2
  <2> QED
    BY <1>2, <2>1 DEF StartSetup
<1>3. ASSUME NEW t \in {None} \cup {invite[u] : u \in Users}, StartAccept(c, a, t)
      PROVE  \E r \in Request : Begun(r) /\ Start(c, r)
  <2> DEFINE r == [user |-> Admin, op |-> "accept", phase |-> "check", addr |-> a,
                   typed |-> t, code |-> None, key |-> None]
  <2>1. r \in Request /\ Begun(r)
    BY <1>3 DEF TypeOK
  <2> QED
    BY <1>3, <2>1 DEF StartAccept
<1>4. ASSUME NEW u \in Users, StartCreate(c, a, u)
      PROVE  \E r \in Request : Begun(r) /\ Start(c, r)
  <2> DEFINE r == [user |-> u, op |-> "create", phase |-> "insert", addr |-> a,
                   typed |-> None, code |-> None, key |-> None]
  <2>1. r \in Request /\ Begun(r)
    BY <1>4
  <2> QED
    BY <1>4, <2>1 DEF StartCreate
<1>5. ASSUME NEW u \in Accounts, StartMint(c, a, u)
      PROVE  \E r \in Request : Begun(r) /\ Start(c, r)
  <2> DEFINE r == [user |-> u, op |-> "mint", phase |-> "insert", addr |-> a,
                   typed |-> None, code |-> None, key |-> None]
  <2>1. r \in Request /\ Begun(r)
    BY <1>5
  <2> QED
    BY <1>5, <2>1 DEF StartMint
<1>6. ASSUME NEW u \in Accounts, NEW pw \in {None, password[u]}, NEW code \in {None, now},
             StartLogin(c, a, u, pw, code)
      PROVE  \E r \in Request : Begun(r) /\ Start(c, r)
  <2> DEFINE r == [user |-> u, op |-> "login", phase |-> "check", addr |-> a,
                   typed |-> pw, code |-> code, key |-> None]
  <2>1. r \in Request /\ Begun(r)
    BY <1>6 DEF TypeOK
  <2> QED
    BY <1>6, <2>1 DEF StartLogin
<1>7. ASSUME NEW u \in Accounts, NEW pw \in {None, password[u]}, NEW code \in {None, now},
             session[c].user = u, StartPassword(c, a, pw, code)
      PROVE  \E r \in Request : Begun(r) /\ Start(c, r)
  <2> DEFINE r == [user |-> session[c].user, op |-> "password", phase |-> "verify", addr |-> a,
                   typed |-> pw, code |-> code, key |-> None]
  <2>1. r \in Request /\ Begun(r)
    BY <1>7 DEF TypeOK
  <2> QED
    BY <1>7, <2>1 DEF StartPassword
<1> QED
  BY <1>1, <1>2, <1>3, <1>4, <1>5, <1>6, <1>7

\* The clock, the stores and the history, for steps that change locals only.
LEMMA LocalTypes ==
  ASSUME TypeOK, RequestTypes', doomed' \subseteq Clients,
         UNCHANGED <<now, minted, acts, creds, rate, step, session, history>>
  PROVE  TypeOK'
  BY DEF TypeOK, RequestTypes, RequestFits, creds, history

LEMMA CheckLockTypes ==
  ASSUME TypeOK, NEW c \in Clients, CheckLock(c)
  PROVE  TypeOK'
<1>1. PICK phase \in Phases \ {"commit"} :
        Goto(c, phase) /\ (phase = "read" => req[c].op \notin {"login", "password"})
  BY DEF CheckLock, Phases
<1>2. RequestFits([req[c] EXCEPT !.phase = phase])
  BY <1>1 DEF TypeOK, Request, RequestFits
<1>3. doomed' \subseteq Clients
  BY DEF CheckLock, TypeOK
<1> QED
  BY <1>1, <1>2, <1>3, Goes, LocalTypes DEF CheckLock

LEMMA VerifyTypes ==
  ASSUME TypeOK, NEW c \in Clients, Verify(c)
  PROVE  TypeOK'
<1>1. doomed' \subseteq Clients
  BY DEF Verify, TypeOK
<1>2. CASE \E phase \in {"idle", "record", "store", "clear"} : Goto(c, phase)
  BY <1>1, <1>2, GoesFreely, LocalTypes DEF Verify, Phases
<1>3. CASE /\ totp[req[c].user] # None /\ CodeFits(c)
           /\ req' = [req EXCEPT ![c].phase = "read", ![c].key = totp[req[c].user]]
  <2> DEFINE r == [req[c] EXCEPT !.phase = "read", !.key = totp[req[c].user]]
  <2>1. req[c] \in Request
    BY DEF TypeOK
  <2>2. totp[req[c].user] \in Secrets
    BY <1>3, <2>1 DEF TypeOK, Request, Option
  <2>3. req[c].code \in Nat
    BY <1>3, <2>1 DEF CodeFits, Request, Option
  <2>4. r \in Request
    BY <2>1, <2>2 DEF Request, Phases, Option
  <2>5. RequestFits(r)
    BY <2>1, <2>2, <2>3 DEF Request, RequestFits
  <2>6. req' = [req EXCEPT ![c] = r]
    BY <1>3, <2>1 DEF Request, TypeOK
  <2> QED
    BY <1>1, <2>4, <2>5, <2>6, RequestUpdate, LocalTypes DEF Verify
<1> QED
  BY <1>2, <1>3 DEF Verify, Refused, Proved

LEMMA ReadTypes ==
  ASSUME TypeOK, NEW c \in Clients, Read(c)
  PROVE  TypeOK'
<1>0. req[c] \in Request /\ RequestFits(req[c])
  BY DEF TypeOK, RequestFits
<1>1. doomed' \subseteq Clients
  BY DEF Read, Begins, TypeOK
<1>2. CASE \E phase \in {"idle", "record"} : Goto(c, phase)
  BY <1>1, <1>2, GoesFreely, LocalTypes DEF Read, Phases
<1>3. CASE Goto(c, "commit") /\ req[c].op \in {"login", "password", "setup"}
  <2>1. RequestFits([req[c] EXCEPT !.phase = "commit"])
    BY <1>0, <1>3 DEF Read, At, Request, RequestFits
  <2> QED
    BY <1>1, <1>3, <2>1, Goes, LocalTypes DEF Read, Phases
<1>4. ASSUME NEW u \in Users, req[c].op = "accept",
             req' = [req EXCEPT ![c].phase = "commit", ![c].user = u]
      PROVE  TypeOK'
  <2> DEFINE r == [req[c] EXCEPT !.phase = "commit", !.user = u]
  <2>1. r \in Request /\ RequestFits(r)
    BY <1>0, <1>4 DEF Request, RequestFits, Accounts, Phases
  <2>2. req' = [req EXCEPT ![c] = r]
    BY <1>0, <1>4 DEF Request, TypeOK
  <2> QED
    BY <1>1, <2>1, <2>2, RequestUpdate, LocalTypes DEF Read
<1>5. \A t : Invited(t) \subseteq Users
  BY DEF Invited, TypeOK
<1> QED
  BY <1>2, <1>3, <1>4, <1>5 DEF Read, Refused

LEMMA CommitFailsTypes ==
  ASSUME TypeOK, NEW c \in Clients, CommitFails(c)
  PROVE  TypeOK'
<1>1. doomed' \subseteq Clients
  BY DEF CommitFails, TypeOK
<1> QED
  BY <1>1, GoesFreely, LocalTypes DEF CommitFails, Phases

LEMMA CommitTypes ==
  ASSUME TypeOK, NEW c \in Clients, Commits(c)
  PROVE  doomed' \subseteq Clients
  BY DEF Commits, TypeOK

LEMMA CommitCodeTypes ==
  ASSUME TypeOK, NEW c \in Clients, CommitCode(c)
  PROVE  TypeOK'
<1>1. req[c].code \in Nat /\ req[c].user \in Accounts
  BY DEF TypeOK, CommitCode, At, Request
<1>2. step' \in [Accounts -> Option(Nat)]
  BY <1>1 DEF TypeOK, CommitCode, Option
<1>3. RequestTypes'
  BY GoesFreely DEF CommitCode, Proved, Phases
<1>4. respent' \in BOOLEAN
  BY DEF CommitCode, Redeem, TypeOK
<1> QED
  BY <1>2, <1>3, <1>4, CommitTypes DEF CommitCode, TypeOK, RequestTypes, RequestFits, creds

\* A handler that has set a password goes on to the session with it.
LEMMA GrantsTypes ==
  ASSUME TypeOK, NEW c \in Clients, NEW x \in Secrets,
         req' = [req EXCEPT ![c].phase = "grant", ![c].typed = x]
  PROVE  RequestTypes'
<1> DEFINE r == [req[c] EXCEPT !.phase = "grant", !.typed = x]
<1>1. req[c] \in Request
  BY DEF TypeOK
<1>2. r \in Request /\ RequestFits(r)
  BY <1>1 DEF Request, RequestFits, Phases, Option
<1>3. req' = [req EXCEPT ![c] = r]
  BY <1>1 DEF Request, TypeOK
<1> QED
  BY <1>2, <1>3, RequestUpdate

LEMMA CommitClaimTypes ==
  ASSUME TypeOK, NEW c \in Clients, CommitClaim(c)
  PROVE  TypeOK'
<1>1. minted' \in 4..MaxSecrets /\ minted + 1 \in Secrets /\ minted + 2 \in Secrets
  BY SecretTypes DEF CommitClaim
<1>2. Admin \in Accounts
  BY DEF Accounts
<1>3. /\ password' \in [Accounts -> Option(Secrets)] /\ totp' \in [Accounts -> Option(Secrets)]
  BY <1>1, <1>2 DEF CommitClaim, TypeOK, Option
<1>4. RequestTypes'
  BY <1>1, GrantsTypes DEF CommitClaim
<1>5. respent' \in BOOLEAN /\ overtaken' \subseteq Clients
  BY DEF CommitClaim, Redeem, Relying, TypeOK
<1> QED
  BY <1>1, <1>3, <1>4, <1>5, CommitTypes
  DEF CommitClaim, TypeOK, RequestTypes, RequestFits

LEMMA CommitAcceptTypes ==
  ASSUME TypeOK, NEW c \in Clients, CommitAccept(c)
  PROVE  TypeOK'
<1>1. minted' \in 4..MaxSecrets /\ minted + 1 \in Secrets
  BY SecretTypes DEF CommitAccept
<1>2. req[c].user \in Users
  BY DEF CommitAccept, At, TypeOK
<1>3. /\ password' \in [Accounts -> Option(Secrets)] /\ invite' \in [Users -> Option(Secrets)]
  BY <1>1, <1>2 DEF CommitAccept, TypeOK, Option, Accounts
<1>4. RequestTypes'
  BY <1>1, GrantsTypes DEF CommitAccept
<1>5. respent' \in BOOLEAN /\ overtaken' \subseteq Clients
  BY DEF CommitAccept, Redeem, Relying, TypeOK
<1> QED
  BY <1>1, <1>3, <1>4, <1>5, CommitTypes
  DEF CommitAccept, TypeOK, RequestTypes, RequestFits

\* What record_failure leaves in an address's row.
LEMMA FailedRow ==
  ASSUME NEW r \in Option(Row), now \in Nat
  PROVE  Failed(r) \in Row
  BY AccessAssumption DEF Failed, Lapsed, Row, Option

LEMMA RecordTypes ==
  ASSUME TypeOK, NEW c \in Clients, Record(c)
  PROVE  TypeOK'
<1>1. \A x \in Addrs : Failed(rate[x]) \in Row
  BY FailedRow DEF TypeOK
<1>2. rate' \in [Addrs -> Option(Row)]
  BY <1>1 DEF Record, TypeOK, Option
<1>3. RequestTypes'
  BY GoesFreely DEF Record, Phases
<1>4. outrun' \subseteq Clients
  BY DEF Record, Past, TypeOK
<1> QED
  BY <1>2, <1>3, <1>4, CommitTypes DEF Record, TypeOK, RequestTypes, RequestFits, creds

LEMMA ClearTypes ==
  ASSUME TypeOK, NEW c \in Clients, Clear(c)
  PROVE  TypeOK'
<1>1. rate' \in [Addrs -> Option(Row)]
  BY DEF Clear, TypeOK, Option
<1>2. RequestTypes'
  BY GoesFreely DEF Clear, Phases
<1> QED
  BY <1>1, <1>2, CommitTypes DEF Clear, TypeOK, RequestTypes, RequestFits, creds, history

LEMMA StoreTypes ==
  ASSUME TypeOK, NEW c \in Clients, Store(c)
  PROVE  TypeOK'
<1>1. CASE ~Known(req[c].user)
  BY <1>1, GoesFreely DEF Store, TypeOK, RequestTypes, RequestFits, Phases, creds
<1>2. CASE Known(req[c].user)
  <2>1. minted' \in 4..MaxSecrets /\ minted + 1 \in Secrets
    BY <1>2, SecretTypes DEF Store
  <2>2. password' \in [Accounts -> Option(Secrets)]
    BY <1>2, <2>1 DEF Store, TypeOK, Option
  <2>3. RequestTypes'
    BY <1>2, <2>1, GrantsTypes DEF Store
  <2>4. overtaken' \subseteq Clients
    BY <1>2 DEF Store, Relying, TypeOK
  <2>5. doomed' \subseteq Clients
    BY <1>2, CommitTypes DEF Store
  <2> QED
    BY <1>2, <2>1, <2>2, <2>3, <2>4, <2>5 DEF Store, TypeOK, RequestTypes, RequestFits
<1> QED
  BY <1>1, <1>2

LEMMA GrantTypes ==
  ASSUME TypeOK, NEW c \in Clients, Grant(c)
  PROVE  TypeOK'
<1> DEFINE s == [user |-> req[c].user, hash |-> AuthHash(req[c].user),
                 by |-> req[c].typed, raced |-> c \in overtaken]
<1>1. req[c] \in Request
  BY DEF TypeOK
<1>2. AuthHash(req[c].user) \in Option(Secrets)
  BY <1>1 DEF AuthHash, TypeOK, Request, Option
<1>3. s \in Session
  BY <1>1, <1>2 DEF Session, Request
<1>4. session' \in [Clients -> Option(Session)]
  BY <1>3 DEF Grant, TypeOK, Option
<1>5. RequestTypes'
  BY GoesFreely DEF Grant, Phases
<1> QED
  BY <1>4, <1>5 DEF Grant, TypeOK, RequestTypes, RequestFits, creds, history

LEMMA LogoutTypes ==
  ASSUME TypeOK, NEW c \in Clients, Logout(c)
  PROVE  TypeOK'
<1>1. session' \in [Clients -> Option(Session)]
  BY DEF Logout, TypeOK, Option
<1> QED
  BY <1>1 DEF Logout, TypeOK, creds, history

LEMMA HangUpTypes ==
  ASSUME TypeOK, NEW c \in Clients, HangUp(c)
  PROVE  TypeOK'
<1>1. doomed' \subseteq Clients
  BY DEF HangUp, TypeOK
<1> QED
  BY <1>1, GoesFreely, LocalTypes DEF HangUp, Phases

LEMMA AddUserTypes ==
  ASSUME TypeOK, NEW c \in Clients, AddUser(c), req[c].user \in Users
  PROVE  TypeOK'
<1>1. RequestTypes'
  BY GoesFreely DEF AddUser, Phases
<1>2. doomed' \subseteq Clients /\ exists' \subseteq Users
  BY CommitTypes DEF AddUser, TypeOK
<1> QED
  BY <1>1, <1>2 DEF AddUser, TypeOK, RequestTypes, RequestFits, history

LEMMA AddTokenTypes ==
  ASSUME TypeOK, NEW c \in Clients, AddToken(c)
  PROVE  TypeOK'
<1>1. minted' \in 4..MaxSecrets /\ minted + 1 \in Secrets
  BY SecretTypes DEF AddToken
<1>2. req[c].user \in Accounts
  BY DEF TypeOK, Request
<1>3. token' \in [Accounts -> Option(Secrets)] /\ stray' \subseteq Accounts
  BY <1>1, <1>2 DEF AddToken, TypeOK, Option
<1>4. RequestTypes'
  BY GoesFreely DEF AddToken, Phases
<1> QED
  BY <1>1, <1>3, <1>4, CommitTypes DEF AddToken, TypeOK, RequestTypes, RequestFits

LEMMA ActTypes ==
  ASSUME TypeOK, acts < MaxActs, acts' = acts + 1
  PROVE  acts' \in 0..MaxActs
  BY AccessAssumption DEF TypeOK

LEMMA DeleteUserTypes ==
  ASSUME TypeOK, NEW c \in Clients, NEW u \in Users, DeleteUser(c, u)
  PROVE  TypeOK'
<1>1. /\ exists' \subseteq Users /\ password' \in [Accounts -> Option(Secrets)]
      /\ totp' \in [Accounts -> Option(Secrets)] /\ invite' \in [Users -> Option(Secrets)]
      /\ token' \in [Accounts -> Option(Secrets)] /\ step' \in [Accounts -> Option(Nat)]
  BY DEF DeleteUser, TypeOK, Option
<1>2. overtaken' \subseteq Clients /\ stray' \subseteq Accounts
  BY DEF DeleteUser, Relying, TypeOK
<1> QED
  BY <1>1, <1>2, ActTypes, CommitTypes DEF DeleteUser, AdminActs, TypeOK

LEMMA InviteUserTypes ==
  ASSUME TypeOK, NEW c \in Clients, NEW u \in Users, InviteUser(c, u)
  PROVE  TypeOK'
<1>1. minted' \in 4..MaxSecrets /\ minted + 1 \in Secrets
  BY SecretTypes DEF InviteUser
<1>2. invite' \in [Users -> Option(Secrets)]
  BY <1>1 DEF InviteUser, TypeOK, Option
<1> QED
  BY <1>1, <1>2, ActTypes, CommitTypes DEF InviteUser, AdminActs, TypeOK

LEMMA RevokeTokenTypes ==
  ASSUME TypeOK, NEW c \in Clients, NEW a \in Accounts, RevokeToken(c, a)
  PROVE  TypeOK'
<1>1. token' \in [Accounts -> Option(Secrets)] /\ stray' \subseteq Accounts
  BY DEF RevokeToken, TypeOK, Option
<1> QED
  BY <1>1, ActTypes, CommitTypes DEF RevokeToken, AdminActs, TypeOK

LEMMA ShellTypes ==
  ASSUME TypeOK, SetPass \/ SetTotp \/ TokenNew
  PROVE  TypeOK'
<1>1. acts' \in 0..MaxActs /\ doomed' \subseteq Clients
  BY ActTypes DEF SetPass, SetTotp, TokenNew, ShellActs, ShellCommits, TypeOK
<1>2. CASE SetPass
  <2>1. minted' \in 4..MaxSecrets /\ minted + 1 \in Secrets
    BY <1>2, SecretTypes DEF SetPass
  <2>2. password' \in [Accounts -> Option(Secrets)] /\ overtaken' \subseteq Clients
    BY <1>2, <2>1 DEF SetPass, Relying, TypeOK, Option
  <2> QED
    BY <1>1, <1>2, <2>1, <2>2 DEF SetPass, ShellActs, TypeOK
<1>3. CASE SetTotp
  <2>1. minted' \in 4..MaxSecrets /\ totp' \in [Accounts -> Option(Secrets)]
    BY <1>3, SecretTypes DEF SetTotp, TypeOK, Option
  <2> QED
    BY <1>1, <1>3, <2>1 DEF SetTotp, ShellActs, TypeOK
<1>4. CASE TokenNew
  <2>1. minted' \in 4..MaxSecrets /\ minted + 1 \in Secrets
    BY <1>4, SecretTypes DEF TokenNew
  <2>2. token' \in [Accounts -> Option(Secrets)]
    BY <1>4, <2>1 DEF TokenNew, TypeOK, Option
  <2> QED
    BY <1>1, <1>4, <2>1, <2>2 DEF TokenNew, ShellActs, TypeOK
<1> QED
  BY <1>2, <1>3, <1>4

-----------------------------------------------------------------------------
(* The inductive invariant. *)

\* Secrets are new when they are made.
Fresh ==
  /\ \A a \in Accounts : totp[a] # None => totp[a] <= minted
  /\ \A u \in Users : invite[u] # None => invite[u] <= minted
  /\ \A u, v \in Users : u # v /\ invite[u] # None => invite[u] # invite[v]

\* Only users are created, only the administrator's account is claimed, and a change
\* of the password goes by the lock: it is neither refused by it nor counted.
OpsFit ==
  \A c \in Clients :
    /\ req[c].op = "create" => req[c].user \in Users
    /\ req[c].op = "setup" => req[c].user = Admin
    /\ req[c].op = "password" => ~At(c, "record") /\ ~At(c, "clear")

\* What was used cannot be used again: the step of an account is at or past the
\* codes used with its key, no user has an invite that was accepted, and the
\* administrator keeps a password.
CodesUsed ==
  \A a \in Accounts, k \in Secrets, n \in Nat :
    <<"code", a, k, n>> \in spent =>
      /\ k <= minted
      /\ totp[a] = k => step[a] # None /\ n <= step[a]
InvitesUsed ==
  \A t \in Secrets :
    <<"invite", None, t, None>> \in spent => t <= minted /\ \A u \in Users : invite[u] # t
ClaimUsed == <<"claim", None, None, None>> \in spent => Enabled

\* A transaction that is not stale would read the same again.
ReadStands ==
  \A c \in Clients : At(c, "commit") /\ c \notin doomed =>
    /\ req[c].op \in {"login", "password"} =>
         step[req[c].user] = None \/ step[req[c].user] < req[c].code
    /\ req[c].op = "setup" => ~Enabled
    /\ req[c].op = "accept" => req[c].typed # None /\ invite[req[c].user] = req[c].typed

\* A request that has proved a password still has the right one.
Proven(r) == \/ r.phase \in {"read", "commit"} /\ r.op \in {"login", "password"}
             \/ r.phase \in {"clear", "store", "grant"}
ProofStands ==
  \A c \in Clients : Proven(req[c]) /\ c \notin overtaken => req[c].typed = password[req[c].user]
SessionsBegan ==
  \A c \in Clients :
    session[c] # None /\ session[c].hash # None =>
      session[c].raced \/ session[c].by = session[c].hash

\* Whoever is past the check of an address that is locked now has been outrun.
LockKnown ==
  \A c \in Clients :
    /\ Locked(req[c].addr) /\ req[c].op # "password"
    /\ req[c].phase \in {"verify", "read", "commit", "record", "clear"}
    => c \in outrun

IInv ==
  /\ TypeOK /\ Fresh /\ OpsFit
  /\ CodesUsed /\ InvitesUsed /\ ClaimUsed /\ UsedOnce /\ ReadStands
  /\ ProofStands /\ SessionsBegan /\ NoTokenLeft
  /\ LockKnown

-----------------------------------------------------------------------------
(* Every step keeps each part. *)

\* Types.
LEMMA TypeStep ==
  ASSUME TypeOK, OpsFit, [Next]_vars
  PROVE  TypeOK'
<1>1. CASE UNCHANGED vars
  BY <1>1 DEF vars, TypeOK, creds, history
<1>2. ASSUME NEW c \in Clients, Asks(c) \/ Served(c) \/ Logout(c) \/ HangUp(c)
      PROVE  TypeOK'
  <2>1. CASE Asks(c)
    BY <2>1, AskStarts, StartTypes
  <2>2. CASE AddUser(c)
    BY <2>2, AddUserTypes DEF AddUser, OpsFit
  <2> QED
    BY <1>2, <2>1, <2>2, CheckLockTypes, VerifyTypes, ReadTypes, CommitFailsTypes,
       CommitCodeTypes, CommitClaimTypes, CommitAcceptTypes, RecordTypes, ClearTypes,
       StoreTypes, GrantTypes, AddTokenTypes, LogoutTypes, HangUpTypes
    DEF Served
<1>3. ASSUME NEW c \in Clients, Administers(c)
      PROVE  TypeOK'
  BY <1>3, DeleteUserTypes, InviteUserTypes, RevokeTokenTypes DEF Administers
<1>4. CASE Tick
  BY <1>4 DEF Tick, TypeOK, creds, history
<1> QED
  BY <1>1, <1>2, <1>3, <1>4, ShellTypes DEF Next

\* What is kept of codes, invites and the claim, and that no secret is made twice.
StoresInv == Fresh /\ CodesUsed /\ InvitesUsed /\ ClaimUsed /\ UsedOnce

LEMMA FreshFacts ==
  ASSUME IInv
  PROVE  /\ minted \in Nat /\ Secrets \subseteq Nat /\ None \notin Nat
         /\ totp \in [Accounts -> Option(Secrets)]
         /\ invite \in [Users -> Option(Secrets)]
         /\ password \in [Accounts -> Option(Secrets)]
         /\ \A a \in Accounts : totp[a] # None => totp[a] \in Nat /\ totp[a] <= minted
         /\ \A u \in Users : invite[u] # None => invite[u] \in Nat /\ invite[u] <= minted
         /\ \A u, v \in Users : u # v /\ invite[u] # None => invite[u] # invite[v]
<1>1. /\ minted \in Nat /\ Secrets \subseteq Nat /\ None \notin Nat
      /\ totp \in [Accounts -> Option(Secrets)]
      /\ invite \in [Users -> Option(Secrets)]
      /\ password \in [Accounts -> Option(Secrets)]
  BY AccessAssumption DEF IInv, TypeOK, Secrets
<1>2. Fresh
  BY DEF IInv
<1>3. ASSUME NEW a \in Accounts, totp[a] # None
      PROVE  totp[a] \in Nat /\ totp[a] <= minted
  BY <1>1, <1>2, <1>3 DEF Option, Fresh
<1>4. ASSUME NEW u \in Users, invite[u] # None
      PROVE  invite[u] \in Nat /\ invite[u] <= minted
  BY <1>1, <1>2, <1>4 DEF Option, Fresh
<1> QED
  BY <1>1, <1>2, <1>3, <1>4 DEF Fresh

LEMMA CodeStores ==
  ASSUME IInv, NEW c \in Clients, CommitCode(c)
  PROVE  StoresInv'
<1> DEFINE a == req[c].user  n == req[c].code  used == <<"code", a, req[c].key, n>>
<1>1. a \in Accounts /\ n \in Nat /\ req[c].key \in Secrets
  BY DEF IInv, TypeOK, CommitCode, At, Request
<1>2. step[a] = None \/ step[a] < n
  BY DEF IInv, ReadStands, CommitCode
<1>3. UNCHANGED <<totp, invite, password, minted>>
  BY DEF CommitCode, creds
<1>4. step' = [step EXCEPT ![a] = n]
  BY DEF CommitCode
<1>5. \A b \in Accounts : step[b] # None => step[b] \in Nat
  BY DEF IInv, TypeOK, Option
<1>6. spent' = spent \/ (spent' = spent \cup {used} /\ totp[a] = req[c].key)
  BY DEF CommitCode, Redeem
<1>7. CodesUsed'
  <2> SUFFICES ASSUME NEW b \in Accounts, NEW k \in Secrets, NEW m \in Nat,
                      <<"code", b, k, m>> \in spent'
               PROVE  k <= minted /\ (totp[b] = k => step'[b] # None /\ m <= step'[b])
    BY <1>3 DEF CodesUsed
  <2>0. None \notin Nat /\ step \in [Accounts -> Option(Nat)]
    BY AccessAssumption DEF IInv, TypeOK
  <2>1. CASE <<"code", b, k, m>> \in spent
    <3>1. k <= minted /\ (totp[b] = k => step[b] # None /\ m <= step[b])
      BY <2>1 DEF IInv, CodesUsed
    <3> QED
      BY <3>1, <1>1, <1>2, <1>4, <1>5, <2>0
  <2>2. CASE <<"code", b, k, m>> = used /\ totp[a] = req[c].key
    <3>1. b = a /\ k = req[c].key /\ m = n
      BY <2>2
    <3>2. k <= minted
      BY <1>1, <2>2, <3>1, AccessAssumption DEF IInv, Fresh, Secrets
    <3> QED
      BY <3>1, <3>2, <1>1, <1>4, <2>0
  <2> QED
    BY <1>6, <2>1, <2>2
<1>8. ~respent'
  <2>1. CASE totp[a] = req[c].key
    <3>1. used \notin spent
      <4> SUFFICES ASSUME used \in spent
                   PROVE  FALSE
        OBVIOUS
      <4>1. step[a] # None /\ n <= step[a]
        BY <1>1, <2>1 DEF IInv, CodesUsed
      <4> QED
        BY <4>1, <1>1, <1>2, <1>5
    <3> QED
      BY <2>1, <3>1 DEF IInv, UsedOnce, CommitCode, Redeem
  <2>2. CASE totp[a] # req[c].key
    BY <2>2 DEF IInv, UsedOnce, CommitCode
  <2> QED
    BY <2>1, <2>2
<1>9. InvitesUsed' /\ ClaimUsed'
  <2>1. \A t : <<"invite", None, t, None>> # used /\ <<"claim", None, None, None>> # used
    OBVIOUS
  <2> QED
    BY <1>3, <1>6, <2>1 DEF IInv, InvitesUsed, ClaimUsed, Enabled
<1>10. Fresh'
  BY <1>3 DEF IInv, Fresh
<1> QED
  BY <1>7, <1>8, <1>9, <1>10 DEF StoresInv, UsedOnce

LEMMA ClaimStores ==
  ASSUME IInv, NEW c \in Clients, CommitClaim(c)
  PROVE  StoresInv'
<1> DEFINE used == <<"claim", None, None, None>>
<1>0. /\ minted \in Nat /\ minted' = minted + 2 /\ minted + 1 \in Secrets
      /\ totp \in [Accounts -> Option(Secrets)] /\ Secrets \subseteq Nat /\ None \notin Nat
      /\ invite \in [Users -> Option(Secrets)] /\ password \in [Accounts -> Option(Secrets)]
  <2>1. NewSecret(2) /\ TypeOK
    BY DEF CommitClaim, IInv
  <2>2. minted' = minted + 2 /\ minted + 1 \in Secrets
    BY <2>1, SecretTypes DEF NewSecret
  <2> QED
    BY <2>2, FreshFacts
<1>1. /\ UNCHANGED <<invite, step>> /\ spent' = spent \cup {used}
      /\ password' = [password EXCEPT ![Admin] = minted + 1]
      /\ \E key \in {totp[Admin], minted + 2} : totp' = [totp EXCEPT ![Admin] = key]
  BY DEF CommitClaim, Redeem
<1>2. \A x, y, z : <<"code", x, y, z>> # used /\ <<"invite", None, y, None>> # used
  OBVIOUS
<1>3. Fresh'
  <2>1. ASSUME NEW a \in Accounts, totp'[a] # None
        PROVE  totp'[a] <= minted'
    BY <2>1, <1>0, <1>1, FreshFacts
  <2> QED
    BY <2>1, <1>0, <1>1, FreshFacts DEF Fresh
<1>4. CodesUsed'
  <2> SUFFICES ASSUME NEW b \in Accounts, NEW k \in Secrets, NEW m \in Nat,
                      <<"code", b, k, m>> \in spent'
               PROVE  k <= minted' /\ (totp'[b] = k => step[b] # None /\ m <= step[b])
    BY <1>1 DEF CodesUsed
  <2>1. k <= minted /\ (totp[b] = k => step[b] # None /\ m <= step[b])
    BY <1>1, <1>2 DEF IInv, CodesUsed
  <2>2. k \in Nat /\ k # minted + 2
    BY <2>1, <1>0
  <2> QED
    BY <2>1, <2>2, <1>0, <1>1
<1>5. InvitesUsed'
  BY <1>0, <1>1, <1>2 DEF IInv, InvitesUsed
<1>6. ClaimUsed'
  BY <1>0, <1>1 DEF ClaimUsed, Enabled, Accounts
<1>7. ~respent'
  <2>1. ~Enabled
    BY DEF IInv, ReadStands, CommitClaim
  <2> QED
    BY <2>1 DEF IInv, ClaimUsed, UsedOnce, CommitClaim, Redeem
<1> QED
  BY <1>3, <1>4, <1>5, <1>6, <1>7 DEF StoresInv, UsedOnce

LEMMA AcceptStores ==
  ASSUME IInv, NEW c \in Clients, CommitAccept(c)
  PROVE  StoresInv'
<1> DEFINE u == req[c].user  t == req[c].typed  used == <<"invite", None, t, None>>
<1>0. /\ minted \in Nat /\ minted' = minted + 1 /\ minted + 1 \in Secrets
      /\ totp \in [Accounts -> Option(Secrets)] /\ Secrets \subseteq Nat /\ None \notin Nat
      /\ invite \in [Users -> Option(Secrets)] /\ password \in [Accounts -> Option(Secrets)]
  <2>1. NewSecret(1) /\ TypeOK
    BY DEF CommitAccept, IInv
  <2>2. minted' = minted + 1 /\ minted + 1 \in Secrets
    BY <2>1, SecretTypes DEF NewSecret
  <2> QED
    BY <2>2, FreshFacts
<1>1. u \in Users /\ t # None /\ invite[u] = t
  BY DEF IInv, TypeOK, ReadStands, CommitAccept, At
<1>2. /\ UNCHANGED <<totp, step>> /\ spent' = spent \cup {used}
      /\ password' = [password EXCEPT ![u] = minted + 1]
      /\ invite' = [invite EXCEPT ![u] = None]
  BY DEF CommitAccept, Redeem
<1>3. \A x, y, z : <<"code", x, y, z>> # used /\ <<"claim", None, None, None>> # used
  OBVIOUS
<1>4. Fresh'
  <2>1. \A a \in Accounts : totp'[a] # None => totp'[a] <= minted'
    BY <1>0, <1>2, FreshFacts
  <2>2. \A v \in Users : invite'[v] # None => invite'[v] <= minted'
    BY <1>0, <1>2, FreshFacts
  <2>3. \A v, w \in Users : v # w /\ invite'[v] # None => invite'[v] # invite'[w]
    BY <1>0, <1>2, FreshFacts
  <2> QED
    BY <2>1, <2>2, <2>3 DEF Fresh
<1>5. CodesUsed'
  BY <1>0, <1>2, <1>3 DEF IInv, CodesUsed
<1>6. InvitesUsed'
  <2> SUFFICES ASSUME NEW s \in Secrets, <<"invite", None, s, None>> \in spent'
               PROVE  s <= minted' /\ \A v \in Users : invite'[v] # s
    BY DEF InvitesUsed
  <2>1. CASE <<"invite", None, s, None>> \in spent
    BY <2>1, <1>0, <1>2 DEF IInv, InvitesUsed
  <2>2. CASE <<"invite", None, s, None>> = used
    <3>1. s = t
      BY <2>2
    <3>2. t <= minted /\ \A v \in Users : v # u => invite[v] # t
      BY <1>1 DEF IInv, Fresh
    <3> QED
      BY <3>1, <3>2, <1>0, <1>2
  <2> QED
    BY <1>2, <2>1, <2>2
<1>7. ClaimUsed'
  BY <1>0, <1>2, <1>3 DEF IInv, ClaimUsed, Enabled
<1>8. ~respent'
  <2>1. used \notin spent
    BY <1>0, <1>1 DEF IInv, InvitesUsed, Option
  <2> QED
    BY <2>1 DEF IInv, UsedOnce, CommitAccept, Redeem
<1> QED
  BY <1>4, <1>5, <1>6, <1>7, <1>8 DEF StoresInv, UsedOnce

\* Steps that use nothing up and leave the claimed account claimed.
LEMMA QuietStores ==
  ASSUME IInv, UNCHANGED <<spent, respent>>, minted' \in Nat, minted <= minted',
         Enabled => Enabled',
         \A a \in Accounts : \/ totp'[a] = totp[a] /\ step'[a] = step[a]
                             \/ totp'[a] = None
                             \/ minted < totp'[a] /\ totp'[a] <= minted',
         \A u \in Users : \/ invite'[u] = invite[u]
                          \/ invite'[u] = None
                          \/ /\ minted < invite'[u] /\ invite'[u] <= minted'
                             /\ \A v \in Users : v # u => invite'[v] = invite[v]
  PROVE  StoresInv'
<1>1. Fresh'
  BY FreshFacts DEF Fresh
<1>2. CodesUsed'
  BY FreshFacts DEF IInv, CodesUsed
<1>3. ASSUME NEW t \in Secrets, <<"invite", None, t, None>> \in spent
      PROVE  t <= minted' /\ \A u \in Users : invite'[u] # t
  <2>1. t <= minted /\ \A u \in Users : invite[u] # t
    BY <1>3 DEF IInv, InvitesUsed
  <2>2. t \in Nat /\ t # None /\ minted \in Nat
    BY FreshFacts
  <2> QED
    BY <2>1, <2>2
<1>4. InvitesUsed'
  BY <1>3 DEF InvitesUsed
<1> QED
  BY <1>1, <1>2, <1>4 DEF IInv, ClaimUsed, UsedOnce, StoresInv

LEMMA StoresStep ==
  ASSUME IInv, TypeOK', [Next]_vars
  PROVE  StoresInv'
<1>0. minted \in Nat /\ minted' \in Nat
  BY DEF IInv, TypeOK
<1>1. CASE UNCHANGED <<minted, creds, step, spent, respent>>
  BY <1>0, <1>1, QuietStores DEF creds, Enabled
<1>2. ASSUME NEW c \in Clients, CommitCode(c) \/ CommitClaim(c) \/ CommitAccept(c)
      PROVE  StoresInv'
  BY <1>2, CodeStores, ClaimStores, AcceptStores
<1>3. ASSUME NEW c \in Clients, Store(c)
      PROVE  StoresInv'
  <2>1. minted + 1 # None
    BY <1>0, AccessAssumption
  <2>2. Enabled => Enabled'
    BY <1>3, <2>1, FreshFacts DEF Store, Enabled, Accounts
  <2> QED
    BY <1>0, <1>3, <2>2, QuietStores DEF Store, NewSecret
<1>4. ASSUME NEW c \in Clients, AddUser(c) \/ AddToken(c)
      PROVE  StoresInv'
  BY <1>0, <1>4, QuietStores DEF AddUser, AddToken, NewSecret, Enabled, history
<1>5. ASSUME NEW c \in Clients, NEW u \in Users, DeleteUser(c, u)
      PROVE  StoresInv'
  <2>1. Enabled => Enabled'
    BY <1>5, AccessAssumption, FreshFacts DEF DeleteUser, Enabled, Accounts
  <2>2. /\ UNCHANGED <<minted, spent, respent>> /\ totp' = [totp EXCEPT ![u] = None]
        /\ invite' = [invite EXCEPT ![u] = None] /\ step' = [step EXCEPT ![u] = None]
    BY <1>5 DEF DeleteUser, AdminActs
  <2>3. /\ totp \in [Accounts -> Option(Secrets)] /\ step \in [Accounts -> Option(Nat)]
        /\ invite \in [Users -> Option(Secrets)]
    BY DEF IInv, TypeOK
  <2> QED
    BY <1>0, <2>1, <2>2, <2>3, QuietStores
<1>6. ASSUME NEW c \in Clients, NEW u \in Users, InviteUser(c, u)
      PROVE  StoresInv'
  <2>1. Enabled => Enabled'
    BY <1>6 DEF InviteUser, Enabled
  <2>2. /\ UNCHANGED <<spent, respent, totp, step>> /\ minted' = minted + 1
        /\ invite' = [invite EXCEPT ![u] = minted + 1]
    BY <1>6 DEF InviteUser, AdminActs, NewSecret
  <2>3. invite \in [Users -> Option(Secrets)]
    BY DEF IInv, TypeOK
  <2> QED
    BY <1>0, <2>1, <2>2, <2>3, QuietStores
<1>7. ASSUME NEW c \in Clients, NEW a \in Accounts, RevokeToken(c, a)
      PROVE  StoresInv'
  BY <1>0, <1>7, QuietStores DEF RevokeToken, AdminActs, Enabled
<1>8. CASE SetPass
  <2>1. minted + 1 # None
    BY <1>0, AccessAssumption
  <2>2. Enabled => Enabled'
    BY <1>8, <2>1, FreshFacts DEF SetPass, Enabled
  <2> QED
    BY <1>0, <1>8, <2>2, QuietStores DEF SetPass, ShellActs, NewSecret
<1>9. CASE SetTotp
  <2>1. /\ UNCHANGED <<spent, respent, invite, step, password>>
        /\ \E key \in {None, minted + 1} :
             totp' = [totp EXCEPT ![Admin] = key] /\ (key # None => minted' = key)
        /\ minted <= minted'
    BY <1>0, <1>9 DEF SetTotp, ShellActs, NewSecret
  <2>2. totp \in [Accounts -> Option(Secrets)]
    BY DEF IInv, TypeOK
  <2>3. \A a \in Accounts : \/ totp'[a] = totp[a] /\ step'[a] = step[a]
                            \/ totp'[a] = None
                            \/ minted < totp'[a] /\ totp'[a] <= minted'
    BY <1>0, <2>1, <2>2, AccessAssumption
  <2>4. Enabled => Enabled'
    BY <2>1 DEF Enabled
  <2> QED
    BY <1>0, <2>1, <2>3, <2>4, QuietStores
<1>10. CASE TokenNew
  BY <1>0, <1>10, QuietStores DEF TokenNew, ShellActs, NewSecret, Enabled
<1>11. CASE UNCHANGED vars \/ Tick
  BY <1>1, <1>11 DEF vars, history, Tick
<1>12. ASSUME NEW c \in Clients, Asks(c)
       PROVE  StoresInv'
  BY <1>1, <1>12, AskStarts DEF Start, IInv
<1>13. ASSUME NEW c \in Clients,
              \/ CheckLock(c) \/ Verify(c) \/ Read(c) \/ CommitFails(c) \/ Record(c)
              \/ Clear(c) \/ Grant(c) \/ Logout(c) \/ HangUp(c)
       PROVE  StoresInv'
  BY <1>1, <1>13
  DEF CheckLock, Verify, Read, CommitFails, Record, Clear, Grant, Logout, HangUp, history
<1> QED
  BY <1>2, <1>3, <1>4, <1>5, <1>6, <1>7, <1>8, <1>9, <1>10, <1>11, <1>12, <1>13
  DEF Next, Served, Administers

-----------------------------------------------------------------------------
(* What a transaction has read. *)

\* After a commit nobody but its maker has a transaction that is not stale.
LEMMA CommitStands ==
  ASSUME TypeOK, NEW c \in Clients, Commits(c), req'[c].phase # "commit",
         \A d \in Clients \ {c} : req'[d] = req[d]
  PROVE  ReadStands'
  BY DEF ReadStands, Commits, At

\* Steps of one handler that change none of what a transaction reads.
LEMMA LocalStands ==
  ASSUME IInv, NEW c \in Clients, UNCHANGED <<step, password, invite>>,
         req'[c].phase # "commit",
         \A d \in Clients \ {c} : req'[d] = req[d] /\ (d \in doomed => d \in doomed')
  PROVE  ReadStands'
  BY DEF IInv, ReadStands, At, Enabled

LEMMA ReadsStand ==
  ASSUME IInv, NEW c \in Clients, Read(c)
  PROVE  ReadStands'
<1>1. req[c] \in Request /\ req \in [Clients -> Request]
  BY DEF IInv, TypeOK
<1>2. UNCHANGED <<step, password, invite>> /\ doomed' = doomed \ {c}
  BY DEF Read, Begins, creds
<1>3. CASE \E phase \in {"idle", "record"} : Goto(c, phase)
  BY <1>1, <1>2, <1>3, LocalStands DEF Goto, Request
<1>4. \A d \in Clients \ {c} : req'[d] = req[d]
  BY <1>1 DEF Read, Goto, Refused
<1>5. \A d \in Clients \ {c} : At(d, "commit")' /\ d \notin doomed' =>
        At(d, "commit") /\ d \notin doomed
  BY <1>2, <1>4 DEF At
<1>6. CASE req[c].op = "setup" /\ ~Enabled /\ Goto(c, "commit")
  <2>1. req'[c].op = "setup"
    BY <1>1, <1>6 DEF Goto, Request
  <2> QED
    BY <1>2, <1>4, <1>5, <1>6, <2>1 DEF IInv, ReadStands, Enabled
<1>7. CASE /\ req[c].op \in {"login", "password"} /\ Goto(c, "commit")
           /\ step[req[c].user] = None \/ ~(req[c].code <= step[req[c].user])
  <2>1. At(c, "read")
    BY DEF Read
  <2>2. req[c].code \in Nat /\ req[c].user \in Accounts
    BY <1>1, <1>7, <2>1 DEF IInv, TypeOK, At, Request
  <2>3. step[req[c].user] \in Option(Nat)
    BY <2>2 DEF IInv, TypeOK
  <2>4. step[req[c].user] = None \/ step[req[c].user] < req[c].code
    BY <1>7, <2>2, <2>3 DEF Option
  <2>5. req'[c].op = req[c].op /\ req'[c].user = req[c].user /\ req'[c].code = req[c].code
    BY <1>1, <1>7 DEF Goto, Request
  <2> QED
    BY <1>2, <1>4, <1>5, <1>7, <2>4, <2>5 DEF IInv, ReadStands, Enabled
<1>8. ASSUME NEW u \in Invited(req[c].typed), req[c].op = "accept",
             req' = [req EXCEPT ![c].phase = "commit", ![c].user = u]
      PROVE  ReadStands'
  <2>1. invite[u] # None /\ invite[u] = req[c].typed
    BY DEF Invited
  <2>2. req'[c].op = "accept" /\ req'[c].user = u /\ req'[c].typed = req[c].typed
    BY <1>1, <1>8 DEF Request
  <2> QED
    BY <1>2, <1>4, <1>5, <2>1, <2>2 DEF IInv, ReadStands, Enabled
<1> QED
  BY <1>3, <1>6, <1>7, <1>8 DEF Read, Refused

LEMMA StandsStep ==
  ASSUME IInv, TypeOK', [Next]_vars
  PROVE  ReadStands'
<1>0. TypeOK /\ req \in [Clients -> Request] /\ req' \in [Clients -> Request]
  BY DEF IInv, TypeOK
<1>1. CASE UNCHANGED vars \/ Tick
  BY <1>1 DEF vars, Tick, creds, IInv, ReadStands, At, Enabled
<1>2. ASSUME NEW c \in Clients, Asks(c)
      PROVE  ReadStands'
  <2>1. PICK r \in Request : Begun(r) /\ Start(c, r)
    BY <1>0, <1>2, AskStarts
  <2> QED
    BY <1>0, <2>1, LocalStands DEF Begun, Start, creds
<1>3. ASSUME NEW c \in Clients, CheckLock(c) \/ Verify(c) \/ CommitFails(c) \/ HangUp(c)
      PROVE  ReadStands'
  <2>1. /\ UNCHANGED <<step, password, invite>> /\ doomed \ {c} \subseteq doomed'
    BY <1>3 DEF CheckLock, Verify, CommitFails, HangUp, creds
  <2>2. req'[c].phase # "commit" /\ \A d \in Clients \ {c} : req'[d] = req[d]
    BY <1>0, <1>3
    DEF CheckLock, Verify, CommitFails, HangUp, Goto, Refused, Proved, Request
  <2> QED
    BY <2>1, <2>2, LocalStands
<1>4. ASSUME NEW c \in Clients, Read(c)
      PROVE  ReadStands'
  BY <1>4, ReadsStand
<1>5. ASSUME NEW c \in Clients,
             \/ CommitCode(c) \/ CommitClaim(c) \/ CommitAccept(c) \/ Record(c) \/ Clear(c)
             \/ AddToken(c)
      PROVE  ReadStands'
  <2>1. Commits(c)
    BY <1>5 DEF CommitCode, CommitClaim, CommitAccept, Record, Clear, AddToken
  <2>2. req'[c].phase # "commit" /\ \A d \in Clients \ {c} : req'[d] = req[d]
    BY <1>0, <1>5
    DEF CommitCode, CommitClaim, CommitAccept, Record, Clear, AddToken, Goto, Proved, Request
  <2> QED
    BY <1>0, <2>1, <2>2, CommitStands
<1>6. ASSUME NEW c \in Clients, Store(c) \/ AddUser(c) \/ Grant(c) \/ Logout(c)
      PROVE  ReadStands'
  <2>1. req'[c].phase # "commit" /\ \A d \in Clients \ {c} : req'[d] = req[d]
    BY <1>0, <1>6 DEF Store, AddUser, Grant, Logout, Goto, Request, At
  <2>2. Commits(c) \/ UNCHANGED <<step, password, invite, doomed>>
    BY <1>6 DEF Store, AddUser, Grant, Logout, creds
  <2> QED
    BY <1>0, <2>1, <2>2, CommitStands, LocalStands
<1>7. ASSUME NEW c \in Clients, Administers(c)
      PROVE  ReadStands'
  <2>1. Commits(c) /\ UNCHANGED req /\ At(c, "idle")
    BY <1>7 DEF Administers, DeleteUser, InviteUser, RevokeToken, AdminActs
  <2> QED
    BY <1>0, <2>1, CommitStands DEF At
<1>8. CASE SetPass \/ SetTotp \/ TokenNew
  <2>1. ShellCommits /\ UNCHANGED req
    BY <1>8 DEF SetPass, SetTotp, TokenNew, ShellActs
  <2> QED
    BY <2>1 DEF ReadStands, ShellCommits, At
<1> QED
  BY <1>1, <1>2, <1>3, <1>4, <1>5, <1>6, <1>7, <1>8 DEF Next, Served

-----------------------------------------------------------------------------
(* What a request has proved. *)

\* The password of one account changes: whoever relied on it is overtaken, but for
\* a handler that knows the new one.
LEMMA SetsPassword ==
  ASSUME IInv, NEW a \in Accounts,
         \A b \in Accounts \ {a} : password'[b] = password[b],
         \A d \in Clients :
           \/ req'[d] = req[d] /\ (d \in overtaken \cup Relying(a) => d \in overtaken')
           \/ Proven(req'[d]) => req'[d].typed = password'[req'[d].user]
  PROVE  ProofStands'
<1>1. password \in [Accounts -> Option(Secrets)] /\ \A d \in Clients : req[d].user \in Accounts
  BY DEF IInv, TypeOK, Request
<1>2. ASSUME NEW d \in Clients, req'[d] = req[d], Proven(req[d]),
             d \notin overtaken \cup Relying(a)
      PROVE  req[d].typed = password'[req[d].user]
  <2>1. req[d].typed = password[req[d].user]
    BY <1>2 DEF IInv, ProofStands
  <2>2. req[d].user # a
    BY <1>2 DEF Relying, Proven
  <2> QED
    BY <1>1, <2>1, <2>2
<1> QED
  BY <1>2 DEF ProofStands

\* A step of one handler that changes no password.
LEMMA LocalProof ==
  ASSUME IInv, NEW c \in Clients, UNCHANGED password, overtaken \ {c} \subseteq overtaken',
         \A d \in Clients \ {c} : req'[d] = req[d],
         c \notin overtaken' /\ Proven(req'[c]) =>
           req'[c].typed = password[req'[c].user]
  PROVE  ProofStands'
  BY DEF IInv, ProofStands

LEMMA ProofStep ==
  ASSUME IInv, TypeOK', [Next]_vars
  PROVE  ProofStands'
<1>0. /\ TypeOK /\ req \in [Clients -> Request] /\ req' \in [Clients -> Request]
      /\ \A c \in Clients : req[c] \in Request
  BY DEF IInv, TypeOK
<1>1. CASE UNCHANGED <<req, password, overtaken>>
  BY <1>1 DEF IInv, ProofStands
<1>2. CASE UNCHANGED vars \/ Tick \/ SetTotp \/ TokenNew
  BY <1>1, <1>2 DEF vars, Tick, SetTotp, TokenNew, ShellActs, creds, history
<1>3. ASSUME NEW c \in Clients, Asks(c)
      PROVE  ProofStands'
  <2>1. PICK r \in Request : Begun(r) /\ Start(c, r)
    BY <1>0, <1>3, AskStarts
  <2> QED
    BY <1>0, <2>1, LocalProof DEF Begun, Start, creds, Proven
<1>4. ASSUME NEW c \in Clients, \/ CheckLock(c) \/ CommitFails(c) \/ Record(c) \/ HangUp(c)
                                \/ AddUser(c) \/ AddToken(c)
      PROVE  ProofStands'
  <2>1. UNCHANGED <<password, overtaken>>
    BY <1>4 DEF CheckLock, CommitFails, Record, HangUp, AddUser, AddToken, creds, history
  <2>2. \E phase \in {"idle", "verify", "record", "read"} :
          Goto(c, phase) /\ (phase = "read" => req[c].op \notin {"login", "password"})
    BY <1>4 DEF CheckLock, CommitFails, Record, HangUp, AddUser, AddToken
  <2> QED
    BY <1>0, <2>1, <2>2, LocalProof DEF Goto, Proven, Request
<1>5. ASSUME NEW c \in Clients, Verify(c)
      PROVE  ProofStands'
  <2>1. UNCHANGED <<password, overtaken>>
    BY <1>5 DEF Verify, creds, history
  <2>2. CASE Goto(c, "idle") \/ Goto(c, "record")
    BY <1>0, <2>1, <2>2, LocalProof DEF Goto, Proven, Request
  <2>3. CASE /\ req[c].typed = password[req[c].user]
             /\ \/ Goto(c, "store") \/ Goto(c, "clear")
                \/ req' = [req EXCEPT ![c].phase = "read", ![c].key = totp[req[c].user]]
    <3>1. req'[c].typed = req[c].typed /\ req'[c].user = req[c].user
      BY <1>0, <2>3 DEF Goto, Request
    <3>2. \A d \in Clients \ {c} : req'[d] = req[d]
      BY <1>0, <2>3 DEF Goto
    <3> QED
      BY <2>1, <2>3, <3>1, <3>2, LocalProof
  <2> QED
    BY <1>5, <2>2, <2>3 DEF Verify, Refused, Proved
<1>6. ASSUME NEW c \in Clients, Read(c)
      PROVE  ProofStands'
  <2>1. UNCHANGED <<password, overtaken>> /\ At(c, "read")
    BY <1>6 DEF Read, creds, history
  <2>2. CASE Goto(c, "idle") \/ Goto(c, "record")
    BY <1>0, <2>1, <2>2, LocalProof DEF Goto, Proven, Request
  <2>3. CASE Goto(c, "commit")
    <3>1. /\ req'[c].typed = req[c].typed /\ req'[c].user = req[c].user
          /\ req'[c].op = req[c].op /\ req'[c].phase = "commit"
      BY <1>0, <2>3 DEF Goto, Request
    <3>2. \A d \in Clients \ {c} : req'[d] = req[d]
      BY <1>0, <2>3 DEF Goto
    <3>3. Proven(req'[c]) => Proven(req[c])
      BY <2>1, <3>1 DEF Proven, At
    <3> QED
      BY <2>1, <3>1, <3>2, <3>3, LocalProof DEF IInv, ProofStands
  <2>4. ASSUME NEW u \in Invited(req[c].typed), req[c].op = "accept",
               req' = [req EXCEPT ![c].phase = "commit", ![c].user = u]
        PROVE  ProofStands'
    <3>1. ~Proven(req'[c])
      BY <1>0, <2>4 DEF Proven, Request
    <3> QED
      BY <1>0, <2>1, <2>4, <3>1, LocalProof
  <2> QED
    BY <1>6, <2>2, <2>3, <2>4 DEF Read, Refused
<1>7. ASSUME NEW c \in Clients, CommitCode(c)
      PROVE  ProofStands'
  <2>1. UNCHANGED <<password, overtaken>> /\ Proven(req[c])
    BY <1>7 DEF CommitCode, creds, Proven, At
  <2>2. /\ req'[c].typed = req[c].typed /\ req'[c].user = req[c].user
        /\ \A d \in Clients \ {c} : req'[d] = req[d]
    BY <1>0, <1>7 DEF CommitCode, Goto, Request
  <2> QED
    BY <2>1, <2>2, LocalProof DEF IInv, ProofStands
<1>8. ASSUME NEW c \in Clients, Clear(c)
      PROVE  ProofStands'
  <2>1. UNCHANGED <<password, overtaken>> /\ Proven(req[c])
    BY <1>8 DEF Clear, creds, history, Proven, At
  <2>2. /\ req'[c].typed = req[c].typed /\ req'[c].user = req[c].user
        /\ \A d \in Clients \ {c} : req'[d] = req[d]
    BY <1>0, <1>8 DEF Clear, Goto, Request
  <2> QED
    BY <2>1, <2>2, LocalProof DEF IInv, ProofStands
<1>9. ASSUME NEW c \in Clients, Grant(c) \/ Logout(c)
      PROVE  ProofStands'
  <2>1. UNCHANGED <<password, overtaken>> /\ \A d \in Clients \ {c} : req'[d] = req[d]
    BY <1>0, <1>9 DEF Grant, Logout, creds, history, Goto
  <2>2. ~Proven(req'[c])
    BY <1>0, <1>9 DEF Grant, Logout, Goto, At, Proven, Request
  <2> QED
    BY <2>1, <2>2, LocalProof
<1>10. ASSUME NEW c \in Clients, NEW a \in Accounts, NEW x,
              password' = [password EXCEPT ![a] = x],
              overtaken' = overtaken \cup (Relying(a) \ {c}), req[c].user = a,
              req' = [req EXCEPT ![c].phase = "grant", ![c].typed = x]
       PROVE  ProofStands'
  <2>1. password' = [b \in Accounts |-> IF b = a THEN x ELSE password[b]]
    BY <1>0, <1>10 DEF TypeOK
  <2>2. req'[c].user = a /\ req'[c].typed = x
    BY <1>0, <1>10 DEF Request
  <2>3. \A d \in Clients \ {c} : req'[d] = req[d]
    BY <1>0, <1>10
  <2>4. \A d \in Clients :
          \/ req'[d] = req[d] /\ (d \in overtaken \cup Relying(a) => d \in overtaken')
          \/ Proven(req'[d]) => req'[d].typed = password'[req'[d].user]
    <3>1. overtaken' = overtaken \cup (Relying(a) \ {c})
      BY <1>10
    <3>2. req'[c].typed = password'[req'[c].user]
      BY <2>1, <2>2
    <3> QED
      BY <2>3, <3>1, <3>2
  <2> QED
    BY <2>1, <2>4, SetsPassword
<1>11. ASSUME NEW c \in Clients, CommitClaim(c)
       PROVE  ProofStands'
  <2>1. req[c].user = Admin /\ Admin \in Accounts
    BY <1>11 DEF CommitClaim, At, IInv, OpsFit, Accounts
  <2> QED
    BY <1>10, <1>11, <2>1 DEF CommitClaim
<1>12. ASSUME NEW c \in Clients, CommitAccept(c) \/ Store(c)
       PROVE  ProofStands'
  <2>1. req[c].user \in Accounts
    BY <1>0 DEF Request
  <2>2. CASE CommitAccept(c)
    BY <1>10, <2>1, <2>2 DEF CommitAccept
  <2>3. CASE Store(c) /\ Known(req[c].user)
    BY <1>10, <2>1, <2>3 DEF Store
  <2>4. CASE Store(c) /\ ~Known(req[c].user)
    BY <1>0, <2>4, LocalProof DEF Store, Goto, Proven, Request
  <2> QED
    BY <1>12, <2>2, <2>3, <2>4
<1>13. ASSUME NEW a \in Accounts, NEW x, UNCHANGED req,
              password' = [password EXCEPT ![a] = x],
              overtaken' = overtaken \cup Relying(a)
       PROVE  ProofStands'
  <2>1. \A b \in Accounts \ {a} : password'[b] = password[b]
    BY <1>0, <1>13 DEF TypeOK
  <2> QED
    BY <1>13, <2>1, SetsPassword
<1>14. ASSUME NEW c \in Clients, Administers(c)
       PROVE  ProofStands'
  <2>1. ASSUME NEW u \in Users, DeleteUser(c, u)
        PROVE  ProofStands'
    BY <1>13, <2>1 DEF DeleteUser, AdminActs, Accounts
  <2>2. CASE \/ \E u \in Users : InviteUser(c, u)
             \/ \E a \in Accounts : RevokeToken(c, a)
    BY <1>1, <2>2 DEF InviteUser, RevokeToken, AdminActs
  <2> QED
    BY <1>14, <2>1, <2>2 DEF Administers
<1>15. CASE SetPass
  BY <1>13, <1>15 DEF SetPass, ShellActs, Accounts
<1> QED
  BY <1>2, <1>3, <1>4, <1>5, <1>6, <1>7, <1>8, <1>9, <1>11, <1>12, <1>14, <1>15
  DEF Next, Served

-----------------------------------------------------------------------------
(* Sessions, tokens, and what requests are for. *)

\* A session that began with a password knows it.
LEMMA SessionStep ==
  ASSUME IInv, [Next]_vars
  PROVE  SessionsBegan'
<1>1. CASE UNCHANGED session
  BY <1>1 DEF IInv, SessionsBegan
<1>2. ASSUME NEW c \in Clients, Logout(c)
      PROVE  SessionsBegan'
  BY <1>2 DEF Logout, IInv, SessionsBegan, TypeOK
<1>3. ASSUME NEW c \in Clients, Grant(c)
      PROVE  SessionsBegan'
  <2> DEFINE s == [user |-> req[c].user, hash |-> AuthHash(req[c].user),
                   by |-> req[c].typed, raced |-> c \in overtaken]
  <2>1. session' = [session EXCEPT ![c] = s] /\ session \in [Clients -> Option(Session)]
    BY <1>3 DEF Grant, IInv, TypeOK
  <2>2. Proven(req[c])
    BY <1>3 DEF Grant, At, Proven
  <2>3. s.hash # None => s.raced \/ s.by = s.hash
    BY <2>2 DEF IInv, ProofStands, AuthHash
  <2> QED
    BY <2>1, <2>3 DEF IInv, SessionsBegan
<1>4. (\E c \in Clients : Logout(c) \/ Grant(c)) \/ UNCHANGED session
  <2>1. ASSUME NEW c \in Clients, Asks(c) \/ Administers(c) \/ HangUp(c)
        PROVE  UNCHANGED session
    BY <2>1, AskStarts
    DEF IInv, Start, Administers, DeleteUser, InviteUser, RevokeToken, AdminActs, HangUp
  <2>2. ASSUME NEW c \in Clients, Served(c), ~Grant(c)
        PROVE  UNCHANGED session
    BY <2>2
    DEF Served, CheckLock, Verify, Read, CommitFails, CommitCode, CommitClaim, CommitAccept,
        Record, Clear, Store, AddUser, AddToken
  <2>3. CASE UNCHANGED vars \/ SetPass \/ SetTotp \/ TokenNew \/ Tick
    BY <2>3 DEF vars, SetPass, SetTotp, TokenNew, ShellActs, Tick
  <2> QED
    BY <2>1, <2>2, <2>3 DEF Next
<1> QED
  BY <1>1, <1>2, <1>3, <1>4

LEMMA TokenStep ==
  ASSUME IInv, TypeOK', [Next]_vars
  PROVE  NoTokenLeft'
<1>0. /\ token \in [Accounts -> Option(Secrets)] /\ exists \subseteq Users
      /\ Users \subseteq Accounts /\ Admin \notin Users
  BY AccessAssumption DEF IInv, TypeOK, Accounts
<1>1. CASE UNCHANGED <<token, exists, stray>>
  BY <1>1 DEF IInv, NoTokenLeft
<1>2. ASSUME NEW c \in Clients, AddUser(c)
      PROVE  NoTokenLeft'
  BY <1>2 DEF AddUser, IInv, NoTokenLeft, history
<1>3. ASSUME NEW c \in Clients, AddToken(c)
      PROVE  NoTokenLeft'
  BY <1>0, <1>3 DEF AddToken, Known, IInv, NoTokenLeft
<1>4. ASSUME NEW c \in Clients, NEW u \in Users, DeleteUser(c, u)
      PROVE  NoTokenLeft'
  BY <1>0, <1>4 DEF DeleteUser, IInv, NoTokenLeft
<1>5. ASSUME NEW c \in Clients, NEW a \in Accounts, RevokeToken(c, a)
      PROVE  NoTokenLeft'
  BY <1>0, <1>5 DEF RevokeToken, IInv, NoTokenLeft
<1>6. CASE TokenNew
  BY <1>0, <1>6 DEF TokenNew, ShellActs, IInv, NoTokenLeft
<1>7. ASSUME NEW c \in Clients, NEW u \in Users, InviteUser(c, u)
      PROVE  NoTokenLeft'
  BY <1>1, <1>7 DEF InviteUser, AdminActs
<1>8. ASSUME NEW c \in Clients, Asks(c) \/ Logout(c) \/ HangUp(c)
      PROVE  NoTokenLeft'
  BY <1>1, <1>8, AskStarts DEF IInv, Start, Logout, HangUp, creds, history
<1>9. ASSUME NEW c \in Clients, Served(c), ~AddUser(c), ~AddToken(c)
      PROVE  NoTokenLeft'
  <2>1. UNCHANGED <<token, exists, stray>>
    BY <1>9
    DEF Served, CheckLock, Verify, Read, CommitFails, CommitCode, CommitClaim, CommitAccept,
        Record, Clear, Store, Grant, creds, history
  <2> QED
    BY <1>1, <2>1
<1>10. CASE UNCHANGED vars \/ SetPass \/ SetTotp \/ Tick
  BY <1>1, <1>10 DEF vars, SetPass, SetTotp, ShellActs, Tick, creds, history
<1> QED
  BY <1>2, <1>3, <1>4, <1>5, <1>6, <1>7, <1>8, <1>9, <1>10 DEF Next, Administers

\* What a handler's step may do to its locals.
Advances(c) ==
  /\ req'[c].op = req[c].op
  /\ req'[c].user = req[c].user \/ req[c].op = "accept"
  /\ req'[c].addr = req[c].addr
  /\ req'[c].phase \in {"record", "clear"} => req[c].op # "password"
  /\ req'[c].phase \in {"verify", "read", "commit", "record", "clear"} =>
       \/ req[c].phase \in {"verify", "read", "commit"}
       \/ req[c].phase = "check" /\ ~Locked(req[c].addr)

LEMMA ServedMoves ==
  ASSUME IInv, NEW c \in Clients, Served(c) \/ HangUp(c)
  PROVE  /\ Advances(c)
         /\ \A d \in Clients \ {c} : req'[d] = req[d]
<1>0. req \in [Clients -> Request] /\ req[c] \in Request
  BY DEF IInv, TypeOK
<1>1. CASE CheckLock(c)
  BY <1>0, <1>1 DEF CheckLock, At, Goto, Advances, Request, IInv, OpsFit
<1>2. CASE Verify(c)
  BY <1>0, <1>2 DEF Verify, Refused, Proved, At, Goto, Advances, Request
<1>3. CASE Read(c)
  BY <1>0, <1>3 DEF Read, Refused, At, Goto, Advances, Request
<1>4. CASE CommitFails(c) \/ CommitCode(c)
  BY <1>0, <1>4 DEF CommitFails, CommitCode, Proved, At, Goto, Advances, Request
<1>5. CASE CommitClaim(c) \/ CommitAccept(c) \/ Store(c)
  BY <1>0, <1>5 DEF CommitClaim, CommitAccept, Store, At, Goto, Advances, Request
<1>6. CASE Record(c) \/ Clear(c) \/ Grant(c) \/ AddUser(c) \/ AddToken(c) \/ HangUp(c)
  BY <1>0, <1>6 DEF Record, Clear, Grant, AddUser, AddToken, HangUp, At, Goto, Advances, Request
<1> QED
  BY <1>1, <1>2, <1>3, <1>4, <1>5, <1>6 DEF Served

\* The steps in which no handler moves.
LEMMA Still ==
  ASSUME \/ UNCHANGED vars \/ Tick \/ SetPass \/ SetTotp \/ TokenNew
         \/ \E c \in Clients : Logout(c) \/ Administers(c)
  PROVE  UNCHANGED <<req, rate, outrun>>
  BY DEF vars, history, Tick, SetPass, SetTotp, TokenNew, ShellActs, Logout, Administers,
         DeleteUser, InviteUser, RevokeToken, AdminActs

LEMMA OpsStep ==
  ASSUME IInv, [Next]_vars
  PROVE  OpsFit'
<1>1. CASE UNCHANGED req
  BY <1>1 DEF IInv, OpsFit, At
<1>2. ASSUME NEW c \in Clients, Asks(c)
      PROVE  OpsFit'
  <2>1. PICK r \in Request : Begun(r) /\ Start(c, r)
    BY <1>2, AskStarts DEF IInv
  <2> QED
    BY <2>1 DEF Begun, Start, IInv, TypeOK, OpsFit, At
<1>3. ASSUME NEW c \in Clients, Served(c) \/ HangUp(c)
      PROVE  OpsFit'
  BY <1>3, ServedMoves DEF Advances, IInv, OpsFit, At
<1> QED
  BY <1>1, <1>2, <1>3, Still DEF Next

-----------------------------------------------------------------------------
(* The lock on an address. *)

\* A failure elsewhere neither sets nor lifts a lock.
LEMMA OthersRow ==
  ASSUME IInv, NEW c \in Clients, Record(c) \/ Clear(c), NEW a \in Addrs, req[c].addr # a
  PROVE  Locked(a)' <=> Locked(a)
<1>1. rate[a] \in Option(Row) /\ now \in Nat /\ rate \in [Addrs -> Option(Row)]
  BY DEF IInv, TypeOK
<1>2. rate'[a] = rate[a] \/ (Lapsed(rate[a]) /\ rate'[a] = None)
  BY <1>1 DEF Record, Clear
<1>3. Lapsed(rate[a]) => ~Locked(a)
  BY <1>1 DEF Lapsed, Locked, Row, Option
<1>4. UNCHANGED now
  BY DEF Record, Clear
<1> QED
  BY <1>2, <1>3, <1>4 DEF Locked

\* Steps that leave the addresses' rows alone.
LEMMA RowsStay ==
  ASSUME IInv, [Next]_vars
  PROVE  UNCHANGED rate \/ \E c \in Clients : Record(c) \/ Clear(c)
<1>1. ASSUME NEW c \in Clients, Asks(c)
      PROVE  UNCHANGED rate
  BY <1>1, AskStarts DEF IInv, Start
<1>2. ASSUME NEW c \in Clients, Served(c) \/ HangUp(c), ~Record(c), ~Clear(c)
      PROVE  UNCHANGED rate
  BY <1>2
  DEF Served, HangUp, CheckLock, Verify, Read, CommitFails, CommitCode, CommitClaim,
      CommitAccept, Store, Grant, AddUser, AddToken
<1> QED
  BY <1>1, <1>2, Still DEF Next

\* Time only goes on.
LEMMA TimeGoesOn ==
  ASSUME IInv, [Next]_vars
  PROVE  now \in Nat /\ (now' = now \/ now' = now + 1)
<1>0. now \in Nat
  BY DEF IInv, TypeOK
<1>1. ASSUME NEW c \in Clients, Asks(c)
      PROVE  UNCHANGED now
  BY <1>1, AskStarts DEF IInv, Start
<1>2. ASSUME NEW c \in Clients, Served(c) \/ HangUp(c) \/ Logout(c) \/ Administers(c)
      PROVE  UNCHANGED now
  BY <1>2
  DEF Served, HangUp, CheckLock, Verify, Read, CommitFails, CommitCode, CommitClaim,
      CommitAccept, Record, Clear, Store, Grant, AddUser, AddToken, Logout, Administers,
      DeleteUser, InviteUser, RevokeToken, AdminActs
<1>3. CASE UNCHANGED vars \/ Tick \/ SetPass \/ SetTotp \/ TokenNew
  BY <1>0, <1>3 DEF vars, Tick, SetPass, SetTotp, TokenNew, ShellActs
<1> QED
  BY <1>0, <1>1, <1>2, <1>3 DEF Next

\* No step but a new request forgets that a handler has been outrun.
LEMMA OutrunStays ==
  ASSUME NEW c \in Clients, Served(c) \/ HangUp(c)
  PROVE  outrun \subseteq outrun'
  BY DEF Served, HangUp, CheckLock, Verify, Read, CommitFails, CommitCode, CommitClaim,
         CommitAccept, Record, Clear, Store, Grant, AddUser, AddToken, history

\* A lock that is not new was there before.
LEMMA NoNewLock ==
  ASSUME IInv, [Next]_vars, NEW a \in Addrs, rate'[a] = rate[a]
  PROVE  Locked(a)' => Locked(a)
<1>1. rate[a] \in Option(Row) /\ now \in Nat /\ (now' = now \/ now' = now + 1)
  BY TimeGoesOn DEF IInv, TypeOK
<1>2. rate[a] # None => rate[a].until \in Nat
  BY <1>1 DEF Option, Row
<1> QED
  BY <1>1, <1>2 DEF Locked

\* Handlers past the check of an address that is locked.
Late(d) == /\ Locked(req[d].addr) /\ req[d].op # "password"
           /\ req[d].phase \in {"verify", "read", "commit", "record", "clear"}

LEMMA LockStep ==
  ASSUME IInv, TypeOK', [Next]_vars
  PROVE  LockKnown'
<1>0. /\ \A d \in Clients : req[d].addr \in Addrs /\ req'[d].addr \in Addrs
      /\ req \in [Clients -> Request] /\ rate \in [Addrs -> Option(Row)]
  BY DEF IInv, TypeOK, Request
<1>1. \A d \in Clients : Late(d) => d \in outrun
  BY DEF IInv, LockKnown, Late
<1> SUFFICES \A d \in Clients : Late(d)' => d \in outrun'
  BY DEF LockKnown, Late
<1>2. CASE UNCHANGED <<req, rate, outrun>>
  BY <1>0, <1>1, <1>2, NoNewLock DEF Late
<1>3. ASSUME NEW c \in Clients, Asks(c)
      PROVE  \A d \in Clients : Late(d)' => d \in outrun'
  <2>1. PICK r \in Request : Begun(r) /\ Start(c, r)
    BY <1>3, AskStarts DEF IInv
  <2>2. UNCHANGED rate /\ outrun' = outrun \ {c} /\ req' = [req EXCEPT ![c] = r]
    BY <2>1 DEF Start
  <2>3. ~Late(c)'
    <3>1. req'[c] = r
      BY <1>0, <2>2
    <3>2. r.phase = "verify" => r.op = "password"
      BY <2>1 DEF Begun
    <3>3. r.phase \in {"check", "verify", "insert"}
      BY <2>1 DEF Begun
    <3> QED
      BY <3>1, <3>2, <3>3 DEF Late
  <2>4. \A d \in Clients \ {c} : Late(d)' => Late(d)
    BY <1>0, <2>2, NoNewLock DEF Late
  <2> QED
    BY <1>1, <2>2, <2>3, <2>4
<1>4. ASSUME NEW c \in Clients, Served(c) \/ HangUp(c), UNCHANGED rate
      PROVE  \A d \in Clients : Late(d)' => d \in outrun'
  <2>1. Advances(c) /\ outrun \subseteq outrun' /\ \A d \in Clients \ {c} : req'[d] = req[d]
    BY <1>4, ServedMoves, OutrunStays
  <2>2. \A d \in Clients \ {c} : Late(d)' => Late(d)
    BY <1>0, <1>4, <2>1, NoNewLock DEF Late
  <2>3. Late(c)' => Late(c)
    BY <1>0, <1>4, <2>1, NoNewLock DEF Late, Advances
  <2> QED
    BY <1>1, <2>1, <2>2, <2>3
<1>5. ASSUME NEW c \in Clients, Record(c)
      PROVE  \A d \in Clients : Late(d)' => d \in outrun'
  <2> DEFINE a == req[c].addr
  <2>1. \A d \in Clients \ {c} : req'[d] = req[d]
    BY <1>5, ServedMoves DEF Served
  <2>2. ~Late(c)'
    BY <1>0, <1>5 DEF Record, Goto, Late, Request
  <2>3. ASSUME NEW d \in Clients \ {c}, Late(d)', req[d].addr = a
        PROVE  d \in outrun'
    <3>1. rate'[a].until > now' /\ now' = now
      BY <1>5, <2>1, <2>3 DEF Record, Late, Locked
    <3>2. d \in Past(a)
      BY <2>1, <2>3 DEF Past, Late
    <3> QED
      BY <1>5, <3>1, <3>2 DEF Record
  <2>4. ASSUME NEW d \in Clients \ {c}, Late(d)', req[d].addr # a
        PROVE  d \in outrun'
    <3>1. \A x \in Addrs : x # a => (Locked(x)' <=> Locked(x))
      BY <1>5, OthersRow
    <3>2. Late(d)
      BY <1>0, <2>1, <2>4, <3>1 DEF Late
    <3> QED
      BY <1>1, <1>5, <3>2, OutrunStays DEF Served
  <2> QED
    BY <2>2, <2>3, <2>4
<1>6. ASSUME NEW c \in Clients, Clear(c)
      PROVE  \A d \in Clients : Late(d)' => d \in outrun'
  <2>1. \A d \in Clients \ {c} : req'[d] = req[d]
    BY <1>6, ServedMoves DEF Served
  <2>2. ~Late(c)'
    BY <1>0, <1>6 DEF Clear, Goto, Late, Request
  <2>3. ASSUME NEW d \in Clients \ {c}, Late(d)'
        PROVE  Late(d)
    <3>1. \A x \in Addrs : x # req[c].addr => (Locked(x)' <=> Locked(x))
      BY <1>6, OthersRow
    <3>2. \A x \in Addrs : x = req[c].addr => ~Locked(x)'
      BY <1>0, <1>6 DEF Clear, Locked
    <3> QED
      BY <1>0, <2>1, <2>3, <3>1, <3>2 DEF Late
  <2> QED
    BY <1>1, <1>6, <2>2, <2>3 DEF Clear, history
<1>7. ASSUME NEW c \in Clients, Served(c) \/ HangUp(c)
      PROVE  Record(c) \/ Clear(c) \/ UNCHANGED rate
  BY <1>7
  DEF Served, HangUp, CheckLock, Verify, Read, CommitFails, CommitCode, CommitClaim,
      CommitAccept, Store, Grant, AddUser, AddToken
<1> QED
  BY <1>2, <1>3, <1>4, <1>5, <1>6, <1>7, Still DEF Next

-----------------------------------------------------------------------------
LEMMA InitInv == Init => IInv
<1> SUFFICES ASSUME Init
             PROVE  IInv
  OBVIOUS
<1>1. TypeOK
  <2>1. minted \in 4..MaxSecrets /\ {1, 2, 3, 4} \subseteq Secrets
    BY AccessAssumption DEF Init, Secrets
  <2>2. PICK imported \in BOOLEAN :
          /\ exists = IF imported THEN Users ELSE {}
          /\ password = [a \in Accounts |-> IF ~imported THEN None ELSE IF a = Admin THEN 1 ELSE 2]
          /\ totp = [a \in Accounts |-> IF imported THEN 3 ELSE None]
          /\ token = [a \in Accounts |-> IF imported THEN 4 ELSE None]
    BY DEF Init
  <2>3. PICK a \in Addrs : req = [c \in Clients |-> IdleRequest(a)]
    BY DEF Init
  <2>4. IdleRequest(a) \in Request
    BY DEF IdleRequest, Request, Accounts, Ops, Phases, Option
  <2>5. /\ exists \subseteq Users /\ password \in [Accounts -> Option(Secrets)]
        /\ totp \in [Accounts -> Option(Secrets)] /\ token \in [Accounts -> Option(Secrets)]
    BY <2>1, <2>2 DEF Option
  <2>6. /\ invite \in [Users -> Option(Secrets)] /\ rate \in [Addrs -> Option(Row)]
        /\ step \in [Accounts -> Option(Nat)] /\ session \in [Clients -> Option(Session)]
    BY DEF Init, Option
  <2>7. /\ req \in [Clients -> Request]
        /\ \A c \in Clients : req[c].phase = "idle"
    BY <2>3, <2>4 DEF IdleRequest
  <2>8. acts \in 0..MaxActs /\ now \in Nat
    BY AccessAssumption DEF Init
  <2> QED
    BY <2>1, <2>5, <2>6, <2>7, <2>8 DEF Init, TypeOK
<1>2. \A c \in Clients : req[c].phase = "idle" /\ req[c].op = "login"
  BY DEF Init, IdleRequest
<1>3. Fresh
  BY DEF Init, Fresh
<1>4. OpsFit /\ ReadStands /\ ProofStands /\ LockKnown
  BY <1>2 DEF OpsFit, ReadStands, ProofStands, Proven, LockKnown, At
<1>5. CodesUsed /\ InvitesUsed /\ ClaimUsed /\ UsedOnce /\ SessionsBegan
  BY DEF Init, CodesUsed, InvitesUsed, ClaimUsed, UsedOnce, SessionsBegan
<1>6. NoTokenLeft
  BY DEF Init, NoTokenLeft, Accounts
<1> QED
  BY <1>1, <1>3, <1>4, <1>5, <1>6 DEF IInv

LEMMA StepInv == IInv /\ [Next]_vars => IInv'
<1> SUFFICES ASSUME IInv, [Next]_vars
             PROVE  IInv'
  OBVIOUS
<1>1. TypeOK'
  BY TypeStep DEF IInv
<1>2. Fresh' /\ CodesUsed' /\ InvitesUsed' /\ ClaimUsed' /\ UsedOnce'
  BY <1>1, StoresStep DEF StoresInv
<1> QED
  BY <1>1, <1>2, OpsStep, StandsStep, ProofStep, SessionStep, TokenStep, LockStep DEF IInv

LEMMA Invariance == Spec => []IInv
  BY InitInv, StepInv, PTL DEF Spec

\* Whatever the requests do to each other, no one-time code, no invite and no first-run
\* claim is accepted twice.
THEOREM AccessUsedOnce == Spec => []UsedOnce
<1>1. IInv => UsedOnce
  BY DEF IInv
<1> QED
  BY <1>1, Invariance, PTL

\* Types; every session was opened with the password its account has now, or its
\* handler was overtaken by the change; no token is left of a deleted user, but for one
\* minted meanwhile.
THEOREM AccessNothingOutlives == Spec => []NothingOutlives
<1>1. IInv => NothingOutlives
  <2> SUFFICES ASSUME IInv
               PROVE  SessionsProven
    BY DEF IInv, NothingOutlives
  <2>1. ASSUME NEW c \in Clients, LoggedIn(c)
        PROVE  session[c].raced \/ session[c].by = password[session[c].user]
    <3>1. session[c] # None /\ session[c].hash = password[session[c].user]
      BY <2>1 DEF LoggedIn, GetUser, AuthHash
    <3>2. session[c].hash # None
      BY <2>1, <3>1 DEF LoggedIn, GetUser
    <3> QED
      BY <3>1, <3>2 DEF IInv, SessionsBegan
  <2> QED
    BY <2>1 DEF SessionsProven
<1> QED
  BY <1>1, Invariance, PTL

\* A locked address stays locked until its time is over, unless a handler that had
\* passed the check before the lock was set finishes later.
THEOREM AccessLockHolds == Spec => LockHolds
<1> DEFINE Holds(a) == Locked(a) /\ now' = now /\ ~Locked(a)' =>
                         \E c \in outrun : req'[c] # req[c]
<1>1. ASSUME IInv, [Next]_vars, NEW a \in Addrs, Locked(a), now' = now, ~Locked(a)'
      PROVE  \E c \in outrun : req'[c] # req[c]
  <2>1. rate' # rate
    BY <1>1 DEF Locked
  <2>2. PICK c \in Clients : Record(c) \/ Clear(c)
    BY <1>1, <2>1, RowsStay
  <2>3. req[c].addr = a
    BY <1>1, <2>2, OthersRow
  <2>4. req[c].op # "password" /\ c \in outrun
    BY <1>1, <2>2, <2>3 DEF IInv, OpsFit, LockKnown, Record, Clear, At
  <2>5. req'[c].phase # req[c].phase
    BY <1>1, <2>2 DEF IInv, TypeOK, Record, Clear, Goto, At, Request
  <2> QED
    BY <2>4, <2>5
<1>2. IInv /\ [Next]_vars => [\A a \in Addrs : Holds(a)]_vars
  BY <1>1
<1> QED
  BY <1>2, Invariance, PTL DEF Spec, LockHolds
-----------------------------------------------------------------------------
(* The accounts' files. *)

\* A file whose collections name accounts of it, and whose Google accounts have tokens.
Resolves(f) ==
  /\ f \in Files!CalDavFile
  /\ \A c \in DOMAIN f.collections : f.collections[c] \in DOMAIN f.accounts
  /\ \A n \in DOMAIN f.accounts : f.accounts[n].auth = "google" => tokens[n] # Nothing

Consent ==
  [at : {"exchange", "list"}, flow : Flows, name : Names, client : OAuthClients \cup {Nothing}]
Save == [at : {"open", "write"}, file : Files!CalDavFile]
Jobs == {Files!Idle} \cup Consent \cup Save \cup [at : {"rename"}]

FileTypes ==
  /\ client \in OAuthClients \cup {Nothing}
  /\ DOMAIN tokens = Names
  /\ job \in [Workers -> Jobs]
  /\ DOMAIN pending \subseteq Flows /\ \A f \in DOMAIN pending : pending[f].account \in Names

\* Wherever a file is on its way, it resolves; and who lists calendars has a token.
FilesResolve ==
  /\ installed \in Files!Damaged \/ Resolves(installed)
  /\ tmp \in Files!Damaged \cup {Nothing} \/ Resolves(tmp)
  /\ \A w \in Workers :
       /\ job[w].at \in {"open", "write"} => Resolves(job[w].file)
       /\ job[w].at = "list" => tokens[job[w].name] # Nothing

FilesInv == FileTypes /\ FilesResolve

-----------------------------------------------------------------------------
(* Changes of a file. *)

LEMMA PartialFacts ==
  ASSUME NEW D, NEW R, NEW f
  PROVE  f \in Files!Partial(D, R) <=>
           DOMAIN f \subseteq D /\ f \in [DOMAIN f -> R]
  BY DEF Files!Partial

LEMMA EnteredType ==
  ASSUME NEW D, NEW R, NEW f \in Files!Partial(D, R), NEW S \in SUBSET D, NEW v \in R
  PROVE  Files!Entered(f, S, v) \in Files!Partial(D, R)
<1> DEFINE g == Files!Entered(f, S, v)
<1>1. DOMAIN f \subseteq D /\ f \in [DOMAIN f -> R]
  BY PartialFacts
<1>2. g \in [S \cup DOMAIN f -> R]
  BY <1>1 DEF Files!Entered
<1>3. DOMAIN g = S \cup DOMAIN f
  BY <1>2
<1> HIDE DEF g
<1>4. DOMAIN g \subseteq D /\ g \in [DOMAIN g -> R]
  BY <1>1, <1>2, <1>3
<1>5. QED BY <1>4, PartialFacts DEF g

LEMMA RestrictType ==
  ASSUME NEW D, NEW R, NEW f \in Files!Partial(D, R), NEW S \in SUBSET DOMAIN f
  PROVE  Files!Restrict(f, S) \in Files!Partial(D, R)
<1> DEFINE g == Files!Restrict(f, S)
<1>1. DOMAIN f \subseteq D /\ f \in [DOMAIN f -> R]
  BY PartialFacts
<1>2. g \in [S -> R]
  BY <1>1 DEF Files!Restrict
<1> HIDE DEF g
<1>3. DOMAIN g \subseteq D /\ g \in [DOMAIN g -> R]
  BY <1>1, <1>2
<1>4. QED BY <1>3, PartialFacts DEF g

LEMMA FileParts ==
  ASSUME NEW f \in Files!CalDavFile
  PROVE  /\ f.accounts \in Files!Partial(Names, Files!Account)
         /\ f.collections \in Files!Partial(Colls, Names)
         /\ DOMAIN f.accounts \subseteq Names /\ DOMAIN f.collections \subseteq Colls
         /\ \A n \in DOMAIN f.accounts : f.accounts[n] \in Files!Account
<1>1. /\ f.accounts \in Files!Partial(Names, Files!Account)
      /\ f.collections \in Files!Partial(Colls, Names)
  BY DEF Files!CalDavFile
<1>2. QED BY <1>1, PartialFacts

\* An account is entered with its collections.
LEMMA EnteredResolves ==
  ASSUME NEW f, Resolves(f), NEW n \in Names, NEW cs \in SUBSET Colls, NEW a \in Files!Account,
         a.auth = "google" => tokens[n] # Nothing
  PROVE  Resolves([accounts |-> Files!Entered(f.accounts, {n}, a),
                   collections |-> Files!Entered(f.collections, cs, n)])
<1> DEFINE A == Files!Entered(f.accounts, {n}, a)
           K == Files!Entered(f.collections, cs, n)
           g == [accounts |-> A, collections |-> K]
<1>1. f \in Files!CalDavFile
  BY DEF Resolves
<1>2. /\ f.accounts \in Files!Partial(Names, Files!Account)
      /\ f.collections \in Files!Partial(Colls, Names)
  BY <1>1, FileParts
<1>3. A \in Files!Partial(Names, Files!Account) /\ K \in Files!Partial(Colls, Names)
  BY <1>2, EnteredType
<1>4. /\ DOMAIN A = {n} \cup DOMAIN f.accounts /\ A[n] = a
      /\ \A x \in DOMAIN f.accounts \ {n} : A[x] = f.accounts[x]
      /\ DOMAIN K = cs \cup DOMAIN f.collections /\ \A c \in cs : K[c] = n
      /\ \A c \in DOMAIN f.collections \ cs : K[c] = f.collections[c]
  <2>1. DOMAIN A = {n} \cup DOMAIN f.accounts /\ \A x \in {n} : A[x] = a
    BY DEF Files!Entered
  <2>2. \A x \in DOMAIN f.accounts \ {n} : A[x] = f.accounts[x]
    BY DEF Files!Entered
  <2>3. DOMAIN K = cs \cup DOMAIN f.collections /\ \A c \in cs : K[c] = n
    BY DEF Files!Entered
  <2>4. \A c \in DOMAIN f.collections \ cs : K[c] = f.collections[c]
    BY DEF Files!Entered
  <2> HIDE DEF A, K
  <2>5. QED BY <2>1, <2>2, <2>3, <2>4
<1> HIDE DEF A, K
<1>5. g \in Files!CalDavFile /\ g.accounts = A /\ g.collections = K
  BY <1>3 DEF Files!CalDavFile
<1> HIDE DEF g
<1>6. \A c \in DOMAIN K : K[c] \in DOMAIN A
  BY <1>4 DEF Resolves
<1>7. \A x \in DOMAIN A : A[x].auth = "google" => tokens[x] # Nothing
  BY <1>4 DEF Resolves
<1>8. Resolves(g)
  BY <1>5, <1>6, <1>7 DEF Resolves
<1>9. QED BY <1>8 DEF g, A, K

\* An account is deleted with its collections.
LEMMA RestrictResolves ==
  ASSUME NEW f, Resolves(f), NEW n \in Names
  PROVE  Resolves([accounts |-> Files!Restrict(f.accounts, DOMAIN f.accounts \ {n}),
                   collections |-> Files!Restrict(f.collections,
                                     {c \in DOMAIN f.collections : f.collections[c] # n})])
<1> DEFINE S == DOMAIN f.accounts \ {n}
           T == {c \in DOMAIN f.collections : f.collections[c] # n}
           A == Files!Restrict(f.accounts, S)
           K == Files!Restrict(f.collections, T)
           g == [accounts |-> A, collections |-> K]
<1>1. f \in Files!CalDavFile
  BY DEF Resolves
<1>2. /\ f.accounts \in Files!Partial(Names, Files!Account)
      /\ f.collections \in Files!Partial(Colls, Names)
  BY <1>1, FileParts
<1>3. A \in Files!Partial(Names, Files!Account) /\ K \in Files!Partial(Colls, Names)
  BY <1>2, RestrictType
<1>4. /\ DOMAIN A = S /\ \A x \in S : A[x] = f.accounts[x]
      /\ DOMAIN K = T /\ \A c \in T : K[c] = f.collections[c]
  BY DEF Files!Restrict
<1> HIDE DEF A, K
<1>5. g \in Files!CalDavFile /\ g.accounts = A /\ g.collections = K
  BY <1>3 DEF Files!CalDavFile
<1> HIDE DEF g
<1>6. \A c \in DOMAIN K : K[c] \in DOMAIN A
  BY <1>4 DEF Resolves
<1>7. \A x \in DOMAIN A : A[x].auth = "google" => tokens[x] # Nothing
  BY <1>4 DEF Resolves
<1>8. Resolves(g)
  BY <1>5, <1>6, <1>7 DEF Resolves
<1>9. QED BY <1>8 DEF g, A, K

-----------------------------------------------------------------------------
(* Steps. *)

\* What a handler does next, while the files stay.
JobFits(r) ==
  /\ r \in Jobs
  /\ r.at \in {"open", "write"} => Resolves(r.file)
  /\ r.at = "list" => tokens[r.name] # Nothing

LEMMA JobFacts ==
  /\ Files!Idle \in Jobs /\ JobFits(Files!Idle)
  /\ \A f \in Files!CalDavFile :
       Files!Saving(f) \in Jobs /\ (Resolves(f) => JobFits(Files!Saving(f)))
  /\ \A r \in Jobs : /\ r.at \in {"exchange", "list"} => r \in Consent
                     /\ r.at \in {"open", "write"} => r \in Save
                     /\ r.at = "rename" => r \in [at : {"rename"}]
<1>1. Files!Idle \in Jobs /\ JobFits(Files!Idle)
  BY DEF Files!Idle, Jobs, JobFits
<1>2. ASSUME NEW f \in Files!CalDavFile
      PROVE  Files!Saving(f) \in Jobs /\ (Resolves(f) => JobFits(Files!Saving(f)))
  <2>1. /\ Files!Saving(f) \in Save /\ Files!Saving(f).at = "open" /\ Files!Saving(f).file = f
    BY DEF Files!Saving, Save
  <2>2. QED BY <2>1 DEF Jobs, JobFits
<1>3. ASSUME NEW r \in Jobs
      PROVE  /\ r.at \in {"exchange", "list"} => r \in Consent
             /\ r.at \in {"open", "write"} => r \in Save
             /\ r.at = "rename" => r \in [at : {"rename"}]
  BY DEF Jobs, Files!Idle, Consent, Save
<1>4. QED BY <1>1, <1>2, <1>3

LEMMA JobUpdate ==
  ASSUME FilesInv, NEW w \in Workers, NEW r, JobFits(r), job' = [job EXCEPT ![w] = r],
         UNCHANGED <<installed, tmp, tokens>>
  PROVE  FilesResolve' /\ job' \in [Workers -> Jobs]
<1>1. job' \in [Workers -> Jobs]
  BY DEF FilesInv, FileTypes, JobFits
<1>2. ASSUME NEW v \in Workers
      PROVE  /\ job'[v].at \in {"open", "write"} => Resolves(job'[v].file)
             /\ job'[v].at = "list" => tokens[job'[v].name] # Nothing
  <2>1. CASE v = w
    <3>1. job'[v] = r
      BY <2>1 DEF FilesInv, FileTypes
    <3>2. QED BY <3>1 DEF JobFits
  <2>2. CASE v # w
    <3>1. job'[v] = job[v]
      BY <2>2 DEF FilesInv, FileTypes
    <3>2. QED BY <3>1 DEF FilesInv, FilesResolve
  <2>3. QED BY <2>1, <2>2
<1>3. FilesResolve'
  BY <1>2 DEF FilesInv, FilesResolve, Resolves
<1>4. QED BY <1>1, <1>3

\* What a handler read of the file resolves.
LEMMA LoadKeeps ==
  ASSUME FilesInv, NEW w \in Workers, NEW r, Files!Load(w, r),
         installed \notin Files!Damaged => JobFits(r),
         UNCHANGED <<installed, tmp, tokens>>
  PROVE  FilesResolve' /\ job' \in [Workers -> Jobs]
<1> DEFINE q == IF installed \in Files!Damaged THEN Files!Idle ELSE r
<1>1. job' = [job EXCEPT ![w] = q] /\ JobFits(q)
  BY JobFacts DEF Files!Load
<1> HIDE DEF q
<1>2. QED BY <1>1, JobUpdate

LEMMA SaveAccountKeeps ==
  ASSUME FilesInv, NEW w \in Workers, Files!SaveAccount(w), UNCHANGED <<installed, tmp, tokens>>
  PROVE  FilesResolve' /\ job' \in [Workers -> Jobs]
<1>1. PICK n \in Names, typed \in Passwords \cup {Nothing}, cs \in SUBSET Colls :
        Files!Load(w, Files!Saving(
          [accounts |-> Files!Entered(installed.accounts, {n},
             [auth |-> "basic",
              secret |-> IF typed = Nothing /\ n \in DOMAIN installed.accounts
                         THEN installed.accounts[n].secret ELSE typed]),
           collections |-> Files!Entered(installed.collections, cs, n)]))
  BY DEF Files!SaveAccount
<1> DEFINE secret == IF typed = Nothing /\ n \in DOMAIN installed.accounts
                     THEN installed.accounts[n].secret ELSE typed
           a == [auth |-> "basic", secret |-> secret]
           f == [accounts |-> Files!Entered(installed.accounts, {n}, a),
                 collections |-> Files!Entered(installed.collections, cs, n)]
<1>2. ASSUME installed \notin Files!Damaged PROVE JobFits(Files!Saving(f))
  <2>1. Resolves(installed)
    BY <1>2 DEF FilesInv, FilesResolve
  <2>2. \A m \in DOMAIN installed.accounts : installed.accounts[m].secret \in Passwords \cup {Nothing}
    BY <2>1, FileParts DEF Resolves, Files!Account
  <2>3. secret \in Passwords \cup {Nothing}
    BY <2>2
  <2> HIDE DEF secret
  <2>4. a \in Files!Account /\ a.auth # "google"
    BY <2>3 DEF Files!Account
  <2> HIDE DEF a
  <2>5. Resolves(f)
    BY <2>1, <2>4, EnteredResolves
  <2> HIDE DEF f
  <2>6. QED BY <2>5, JobFacts DEF Resolves
<1>3. Files!Load(w, Files!Saving(f))
  BY <1>1
<1> HIDE DEF f
<1>4. QED BY <1>2, <1>3, LoadKeeps

LEMMA DeleteAccountKeeps ==
  ASSUME FilesInv, NEW w \in Workers, Files!DeleteAccount(w), UNCHANGED <<installed, tmp, tokens>>
  PROVE  FilesResolve' /\ job' \in [Workers -> Jobs]
<1> DEFINE File(n) ==
             [accounts |-> Files!Restrict(installed.accounts, DOMAIN installed.accounts \ {n}),
              collections |-> Files!Restrict(installed.collections,
                {c \in DOMAIN installed.collections : installed.collections[c] # n})]
           Then(n) == IF n \notin DOMAIN installed.accounts THEN Files!Idle
                      ELSE Files!Saving(File(n))
<1>1. PICK n \in Names : Files!Load(w, Then(n))
  BY DEF Files!DeleteAccount
<1>2. ASSUME installed \notin Files!Damaged PROVE JobFits(Then(n))
  <2>1. Resolves(installed)
    BY <1>2 DEF FilesInv, FilesResolve
  <2>2. Resolves(File(n))
    BY <2>1, RestrictResolves
  <2> HIDE DEF File
  <2>3. QED BY <2>2, JobFacts DEF Resolves
<1> DEFINE r == Then(n)
<1>3. Files!Load(w, r) /\ (installed \notin Files!Damaged => JobFits(r))
  BY <1>1, <1>2
<1> HIDE DEF r
<1>4. QED BY <1>3, LoadKeeps

\* The pending consents stay of accounts.
LEMMA PendingKeeps ==
  ASSUME FileTypes,
         \/ pending' = pending
         \/ \E f \in DOMAIN pending : Files!Take(f)
         \/ \E f \in Flows, n \in Names : Files!OAuthBegin(f, n)
         \/ \E f \in DOMAIN pending : pending' = [pending EXCEPT ![f].old = TRUE]
         \/ pending' = <<>>
  PROVE  DOMAIN pending' \subseteq Flows /\ \A f \in DOMAIN pending' : pending'[f].account \in Names
<1>1. DOMAIN pending \subseteq Flows /\ \A f \in DOMAIN pending : pending[f].account \in Names
  BY DEF FileTypes
<1>2. CASE pending' = pending
  BY <1>1, <1>2
<1>3. ASSUME NEW f \in DOMAIN pending, Files!Take(f)
      PROVE  DOMAIN pending' \subseteq Flows /\ \A g \in DOMAIN pending' : pending'[g].account \in Names
  BY <1>1, <1>3 DEF Files!Take, Files!Restrict
<1>4. ASSUME NEW f \in Flows, NEW n \in Names, Files!OAuthBegin(f, n)
      PROVE  DOMAIN pending' \subseteq Flows /\ \A g \in DOMAIN pending' : pending'[g].account \in Names
  <2> DEFINE old == Files!Restrict(pending, {g \in DOMAIN pending : ~pending[g].old})
             new == [account |-> n, old |-> FALSE]
  <2>1. /\ DOMAIN old \subseteq DOMAIN pending
        /\ \A g \in DOMAIN old : old[g] = pending[g]
    BY DEF Files!Restrict
  <2>2. pending' = Files!Entered(old, {f}, new)
    BY <1>4 DEF Files!OAuthBegin
  <2>3. new.account = n
    OBVIOUS
  <2> HIDE DEF old, new
  <2>4. DOMAIN pending' = {f} \cup DOMAIN old
    BY <2>2 DEF Files!Entered
  <2>5. \A g \in {f} : pending'[g] = new
    BY <2>2 DEF Files!Entered
  <2>6. \A g \in DOMAIN old \ {f} : pending'[g] = old[g]
    BY <2>2 DEF Files!Entered
  <2>7. QED BY <1>1, <2>1, <2>3, <2>4, <2>5, <2>6
<1>5. ASSUME NEW f \in DOMAIN pending, pending' = [pending EXCEPT ![f].old = TRUE]
      PROVE  DOMAIN pending' \subseteq Flows /\ \A g \in DOMAIN pending' : pending'[g].account \in Names
  <2> DEFINE r == [pending[f] EXCEPT !.old = TRUE]
  <2>1. pending' = [pending EXCEPT ![f] = r] /\ r.account = pending[f].account
    BY <1>5
  <2> HIDE DEF r
  <2>2. QED BY <1>1, <2>1
<1>6. CASE pending' = <<>>
  BY <1>6
<1>7. QED BY <1>2, <1>3, <1>4, <1>5, <1>6

\* A request, up to the file as the handler wants it.
LEMMA RequestKeeps ==
  ASSUME FilesInv, NEW w \in Workers, Files!Request(w)
  PROVE  FilesInv'
<1>1. UNCHANGED <<installed, tmp, tokens>>
  BY DEF Files!Request, Files!disk
<1>2. CASE Files!SaveAccount(w) /\ UNCHANGED <<pending, client, began, redeemed>>
  BY <1>1, <1>2, SaveAccountKeeps DEF FilesInv, FileTypes
<1>3. CASE Files!DeleteAccount(w) /\ UNCHANGED <<pending, client, began, redeemed>>
  BY <1>1, <1>3, DeleteAccountKeeps DEF FilesInv, FileTypes
<1>4. CASE Files!Connect
  <2>1. PICK f \in Flows, n \in Names : Files!OAuthBegin(f, n)
    BY <1>4 DEF Files!Connect
  <2>2. job' = job /\ client' = client
    BY <1>4 DEF Files!Connect
  <2>3. DOMAIN pending' \subseteq Flows /\ \A g \in DOMAIN pending' : pending'[g].account \in Names
    BY <2>1, PendingKeeps DEF FilesInv
  <2>4. QED BY <1>1, <2>2, <2>3 DEF FilesInv, FileTypes, FilesResolve, Resolves
<1>5. CASE Files!Callback(w)
  <2>1. PICK f \in DOMAIN began :
          /\ f \in DOMAIN pending /\ Files!Take(f) /\ client' = client
          /\ \/ job' = job
             \/ job' = [job EXCEPT ![w] = [at |-> "exchange", flow |-> f,
                                           name |-> pending[f].account, client |-> client]]
    BY <1>5 DEF Files!Callback
  <2> DEFINE r == [at |-> "exchange", flow |-> f, name |-> pending[f].account, client |-> client]
  <2>2. f \in Flows /\ pending[f].account \in Names /\ client \in OAuthClients \cup {Nothing}
    BY <2>1 DEF FilesInv, FileTypes
  <2>3. r \in Consent /\ r.at = "exchange"
    BY <2>2 DEF Consent
  <2>4. job' = job \/ job' = [job EXCEPT ![w] = r]
    BY <2>1
  <2> HIDE DEF r
  <2>5. JobFits(r)
    BY <2>3 DEF JobFits, Jobs
  <2>6. DOMAIN pending' \subseteq Flows /\ \A g \in DOMAIN pending' : pending'[g].account \in Names
    BY <2>1, PendingKeeps DEF FilesInv
  <2>7. CASE job' = job
    BY <1>1, <2>1, <2>6, <2>7 DEF FilesInv, FileTypes, FilesResolve, Resolves
  <2>8. CASE job' = [job EXCEPT ![w] = r]
    <3>1. FilesResolve' /\ job' \in [Workers -> Jobs]
      BY <1>1, <2>5, <2>8, JobUpdate
    <3>2. QED BY <1>1, <2>1, <2>6, <3>1 DEF FilesInv, FileTypes
  <2>9. QED BY <2>4, <2>7, <2>8
<1>6. CASE Files!SetClient
  <2>1. client' \in OAuthClients /\ UNCHANGED <<job, pending>>
    BY <1>6 DEF Files!SetClient
  <2>2. QED BY <1>1, <2>1 DEF FilesInv, FileTypes, FilesResolve, Resolves
<1>7. QED BY <1>2, <1>3, <1>4, <1>5, <1>6 DEF Files!Request

\* A file that resolves with the tokens there are next.
Stays(f) ==
  /\ f \in Files!CalDavFile
  /\ \A c \in DOMAIN f.collections : f.collections[c] \in DOMAIN f.accounts
  /\ \A n \in DOMAIN f.accounts : f.accounts[n].auth = "google" => tokens'[n] # Nothing

LEMMA ExchangeKeeps ==
  ASSUME Files!Configured, FilesInv, NEW w \in Workers, Files!Exchange(w)
  PROVE  FilesInv'
<1>1. job[w] \in Consent /\ UNCHANGED <<installed, tmp, pending, client>>
  BY JobFacts DEF FilesInv, FileTypes, Files!Exchange, Files!disk
<1>2. CASE job' = [job EXCEPT ![w] = Files!Idle] /\ UNCHANGED tokens
  <2>1. FilesResolve' /\ job' \in [Workers -> Jobs]
    BY <1>1, <1>2, JobFacts, JobUpdate
  <2>2. QED BY <1>1, <1>2, <2>1 DEF FilesInv, FileTypes
<1>3. CASE /\ tokens' = [tokens EXCEPT ![job[w].name] = Files!Issued(w)]
           /\ job' = [job EXCEPT ![w].at = "list"]
  <2> DEFINE n == job[w].name
             r == [job[w] EXCEPT !.at = "list"]
  <2>1. n \in Names /\ r \in Consent /\ r.at = "list" /\ r.name = n
    BY <1>1 DEF Consent
  <2>2. Files!Issued(w) # Nothing
    <3>1. Files!Issued(w) \in [client : OAuthClients \cup {Desktop, Nothing},
                               flow : Flows \cup {Nothing}]
      BY <1>1 DEF Files!Issued, Consent
    <3>2. QED BY <3>1 DEF Files!Configured
  <2>3. /\ DOMAIN tokens' = Names /\ tokens'[n] # Nothing
        /\ \A m \in Names : tokens[m] # Nothing => tokens'[m] # Nothing
    BY <1>3, <2>1, <2>2 DEF FilesInv, FileTypes
  <2>4. job' = [job EXCEPT ![w] = r] /\ job \in [Workers -> Jobs]
    BY <1>3 DEF FilesInv, FileTypes
  <2> HIDE DEF n, r
  <2>5. r \in Jobs
    BY <2>1 DEF Jobs
  <2>6. job' \in [Workers -> Jobs]
    BY <2>4, <2>5
  <2>7. \A f : Resolves(f) => Stays(f)
    BY <2>3, FileParts DEF Resolves, Stays
  <2>8. ASSUME NEW v \in Workers
        PROVE  /\ job'[v].at \in {"open", "write"} => Stays(job'[v].file)
               /\ job'[v].at = "list" => tokens'[job'[v].name] # Nothing
    <3>1. CASE v = w
      BY <2>1, <2>3, <2>4, <3>1
    <3>2. CASE v # w
      <4>1. job'[v] = job[v] /\ job[v] \in Jobs
        BY <2>4, <3>2
      <4>2. job[v].at = "list" => job[v].name \in Names
        BY <4>1, JobFacts DEF Consent
      <4>3. QED BY <2>3, <2>7, <4>1, <4>2 DEF FilesInv, FilesResolve
    <3>3. QED BY <3>1, <3>2
  <2>9. FilesResolve'
    BY <1>1, <2>7, <2>8 DEF FilesInv, FilesResolve, Stays, Resolves
  <2>10. QED BY <1>1, <2>3, <2>6, <2>9 DEF FilesInv, FileTypes
<1>4. QED BY <1>2, <1>3 DEF Files!Exchange

LEMMA ProvisionKeeps ==
  ASSUME FilesInv, NEW w \in Workers, Files!Provision(w)
  PROVE  FilesInv'
<1> DEFINE n == job[w].name
           a == [auth |-> "google", secret |-> Nothing]
           File(cs) == [accounts |-> Files!Entered(installed.accounts, {n}, a),
                        collections |-> Files!Entered(installed.collections, cs, n)]
<1>1. job[w] \in Consent /\ job[w].at = "list" /\ UNCHANGED <<installed, tmp, tokens, pending, client>>
  BY JobFacts DEF FilesInv, FileTypes, Files!Provision, Files!disk
<1>2. n \in Names /\ tokens[n] # Nothing
  BY <1>1 DEF Consent, FilesInv, FilesResolve
<1>3. FilesResolve' /\ job' \in [Workers -> Jobs]
  <2>1. CASE job' = [job EXCEPT ![w] = Files!Idle]
    BY <1>1, <2>1, JobFacts, JobUpdate
  <2>2. ASSUME NEW cs \in SUBSET Colls, Files!Load(w, Files!Saving(File(cs)))
        PROVE  FilesResolve' /\ job' \in [Workers -> Jobs]
    <3> DEFINE f == File(cs)
    <3>1. a \in Files!Account
      BY DEF Files!Account
    <3>2. ASSUME installed \notin Files!Damaged PROVE JobFits(Files!Saving(f))
      <4>1. Resolves(installed)
        BY <3>2 DEF FilesInv, FilesResolve
      <4> HIDE DEF a, n
      <4>2. Resolves(f)
        BY <1>2, <3>1, <4>1, EnteredResolves
      <4> HIDE DEF f
      <4>3. QED BY <4>2, JobFacts DEF Resolves
    <3>3. Files!Load(w, Files!Saving(f))
      BY <2>2
    <3> HIDE DEF f
    <3>4. QED BY <1>1, <3>2, <3>3, LoadKeeps
  <2>3. QED BY <2>1, <2>2 DEF Files!Provision
<1>4. QED BY <1>1, <1>3 DEF FilesInv, FileTypes

\* write_private.
LEMMA WritesKeep ==
  ASSUME FilesInv, NEW w \in Workers, Files!Open(w) \/ Files!Write(w) \/ Files!Rename(w)
  PROVE  FilesInv'
<1>1. UNCHANGED <<tokens, pending, client>>
  BY DEF Files!Open, Files!Write, Files!Rename
<1>2. PICK r : job' = [job EXCEPT ![w] = r] /\ JobFits(r)
  <2>1. CASE Files!Open(w)
    <3> DEFINE r == [job[w] EXCEPT !.at = "write"]
    <3>1. job[w] \in Save /\ job[w].at = "open"
      BY <2>1, JobFacts DEF FilesInv, FileTypes, Files!Open
    <3>2. r \in Save /\ r.file = job[w].file /\ r.at = "write"
      BY <3>1 DEF Save
    <3>3. job' = [job EXCEPT ![w] = r]
      BY <2>1 DEF Files!Open, FilesInv, FileTypes
    <3>4. Resolves(job[w].file)
      BY <3>1 DEF FilesInv, FilesResolve
    <3> HIDE DEF r
    <3>5. JobFits(r)
      BY <3>2, <3>4 DEF JobFits, Jobs
    <3>6. QED BY <3>3, <3>5
  <2>2. CASE Files!Write(w)
    <3> DEFINE r == [at |-> "rename"]
    <3>1. job' = [job EXCEPT ![w] = r]
      BY <2>2 DEF Files!Write
    <3>2. JobFits(r)
      BY DEF JobFits, Jobs
    <3>3. QED BY <3>1, <3>2
  <2>3. CASE Files!Rename(w)
    BY <2>3, JobFacts DEF Files!Rename
  <2>4. QED BY <2>1, <2>2, <2>3
<1>3. /\ installed' \in Files!Damaged \/ Resolves(installed')
      /\ tmp' \in Files!Damaged \cup {Nothing} \/ Resolves(tmp')
  <2>1. CASE Files!Open(w)
    BY <2>1 DEF Files!Open, Files!Damaged, FilesInv, FilesResolve
  <2>2. CASE Files!Write(w)
    <3>1. Resolves(job[w].file)
      BY <2>2 DEF Files!Write, FilesInv, FilesResolve
    <3>2. \/ /\ tmp' \in {job[w].file, Torn} /\ installed' = installed
          \/ /\ installed' \in {job[w].file, Torn} /\ tmp' = tmp
          \/ installed' = installed /\ tmp' = tmp
      BY <2>2 DEF Files!Write, Files!Over
    <3>3. QED BY <3>1, <3>2 DEF Files!Damaged, FilesInv, FilesResolve
  <2>3. CASE Files!Rename(w)
    <3>1. \/ installed' = installed /\ tmp' = tmp
          \/ installed' = tmp /\ tmp' = Nothing /\ tmp # Nothing
      BY <2>3 DEF Files!Rename, Files!disk
    <3>2. QED BY <3>1 DEF FilesInv, FilesResolve
  <2>4. QED BY <2>1, <2>2, <2>3
<1>4. job' \in [Workers -> Jobs]
  BY <1>2 DEF FilesInv, FileTypes, JobFits
<1>5. ASSUME NEW v \in Workers
      PROVE  /\ job'[v].at \in {"open", "write"} => Resolves(job'[v].file)
             /\ job'[v].at = "list" => tokens[job'[v].name] # Nothing
  <2>1. CASE v = w
    BY <1>2, <2>1 DEF FilesInv, FileTypes, JobFits
  <2>2. CASE v # w
    BY <1>2, <2>2 DEF FilesInv, FileTypes, FilesResolve
  <2>3. QED BY <2>1, <2>2
<1>6. QED BY <1>1, <1>3, <1>4, <1>5 DEF FilesInv, FileTypes, FilesResolve, Resolves

LEMMA LoginKeeps ==
  ASSUME Files!Configured, FilesInv, Files!Login
  PROVE  FilesInv'
<1>1. PICK n \in Names : tokens' = [tokens EXCEPT ![n] = Files!LoopbackToken]
  BY DEF Files!Login
<1>2. UNCHANGED <<installed, tmp, pending, job, client>>
  BY DEF Files!Login, Files!disk
<1>3. Files!LoopbackToken # Nothing
  BY DEF Files!LoopbackToken, Files!Configured
<1>4. /\ DOMAIN tokens' = Names
      /\ \A m \in Names : tokens[m] # Nothing => tokens'[m] # Nothing
  BY <1>1, <1>3 DEF FilesInv, FileTypes
<1>5. \A f : Resolves(f) => Stays(f)
  BY <1>4, FileParts DEF Resolves, Stays
<1>6. \A v \in Workers : job[v].at = "list" => job[v].name \in Names
  BY JobFacts DEF FilesInv, FileTypes, Consent
<1>7. FilesResolve'
  BY <1>2, <1>4, <1>5, <1>6 DEF FilesInv, FilesResolve, Stays, Resolves
<1>8. QED BY <1>2, <1>4, <1>7 DEF FilesInv, FileTypes

LEMMA RestartKeeps ==
  ASSUME FilesInv, Files!Restart
  PROVE  FilesInv'
<1>1. /\ UNCHANGED <<installed, client, tokens>> /\ tmp' = Nothing /\ pending' = <<>>
      /\ job' = [w \in Workers |-> Files!Idle]
  BY DEF Files!Restart
<1>2. FilesResolve'
  <2>1. \A w \in Workers : job'[w] = Files!Idle
    BY <1>1
  <2>2. QED BY <1>1, <2>1, JobFacts DEF FilesInv, FilesResolve, Resolves, JobFits, Files!Idle
<1>3. FileTypes'
  BY <1>1, JobFacts DEF FilesInv, FileTypes
<1>4. QED BY <1>2, <1>3 DEF FilesInv

LEMMA RunsOutKeeps ==
  ASSUME FilesInv, Files!RunsOut
  PROVE  FilesInv'
<1>1. /\ UNCHANGED <<installed, tmp, tokens, job, client>>
      /\ \E f \in DOMAIN pending : pending' = [pending EXCEPT ![f].old = TRUE]
  BY DEF Files!RunsOut, Files!disk
<1>2. DOMAIN pending' \subseteq Flows /\ \A g \in DOMAIN pending' : pending'[g].account \in Names
  BY <1>1, PendingKeeps DEF FilesInv
<1>3. QED BY <1>1, <1>2 DEF FilesInv, FileTypes, FilesResolve, Resolves

LEMMA FilesInitially ==
  ASSUME Files!Init
  PROVE  FilesInv
<1>1. Files!Empty \in Files!CalDavFile /\ Files!Empty.accounts = <<>> /\ Files!Empty.collections = <<>>
  <2>1. <<>> \in Files!Partial(Names, Files!Account) /\ <<>> \in Files!Partial(Colls, Names)
    <3>1. DOMAIN <<>> = {} /\ \A R : <<>> \in [{} -> R]
      OBVIOUS
    <3>2. QED BY <3>1, PartialFacts
  <2>2. QED BY <2>1 DEF Files!Empty, Files!CalDavFile
<1>2. Resolves(installed)
  BY <1>1 DEF Files!Init, Resolves
<1>3. \A w \in Workers : job[w] = Files!Idle
  BY DEF Files!Init
<1>4. FilesResolve
  BY <1>2, <1>3, JobFacts DEF Files!Init, FilesResolve, JobFits, Files!Idle
<1>5. FileTypes
  BY JobFacts DEF Files!Init, FileTypes
<1>6. QED BY <1>4, <1>5 DEF FilesInv

LEMMA FilesStep ==
  ASSUME Files!Configured, FilesInv, [Files!Next]_(Files!vars)
  PROVE  FilesInv'
<1>1. ASSUME NEW w \in Workers,
             \/ Files!Request(w) \/ Files!Exchange(w) \/ Files!Provision(w)
             \/ Files!Open(w) \/ Files!Write(w) \/ Files!Rename(w)
      PROVE  FilesInv'
  BY <1>1, RequestKeeps, ExchangeKeeps, ProvisionKeeps, WritesKeep
<1>2. CASE Files!RunsOut \/ Files!Login \/ Files!Restart
  BY <1>2, RunsOutKeeps, LoginKeeps, RestartKeeps
<1>3. CASE UNCHANGED Files!vars
  BY <1>3 DEF Files!vars, FilesInv, FileTypes, FilesResolve, Resolves
<1>4. QED BY <1>1, <1>2, <1>3 DEF Files!Next

-----------------------------------------------------------------------------
LEMMA FilesInvResolves ==
  ASSUME Files!Configured, FilesInv
  PROVE  TargetsResolve
<1>1. SUFFICES ASSUME installed \notin Files!Damaged
               PROVE  /\ \A c \in DOMAIN Files!SyncCollections(installed) :
                           Files!SyncCollections(installed)[c] \in
                             DOMAIN Files!SyncAccounts(installed)
                      /\ \A n \in DOMAIN installed.accounts :
                           installed.accounts[n].auth = "google" => Files!HasToken(n)
  BY DEF TargetsResolve, Files!TargetsResolve
<1>2. Resolves(installed)
  BY <1>1 DEF FilesInv, FilesResolve
<1>3. DOMAIN Files!SyncAccounts(installed) = HandAccounts \cup DOMAIN installed.accounts
  BY DEF Files!SyncAccounts, Files!Entered
<1>4. ASSUME NEW c \in DOMAIN Files!SyncCollections(installed)
      PROVE  Files!SyncCollections(installed)[c] \in DOMAIN Files!SyncAccounts(installed)
  BY <1>2, <1>3 DEF Files!SyncCollections, Files!Configured, Resolves
<1>5. QED BY <1>2, <1>4 DEF Resolves, Files!HasToken

\* Whatever is saved, deleted and connected at once, and wherever a handler fails or
\* the server is restarted: what sync would run with names accounts that are there,
\* and Google accounts that have a token (admin.rs, google_callback and delete_account).
THEOREM SyncTargetsResolve == Files!Spec => []TargetsResolve
<1>1. Files!Init => FilesInv
  BY AdministrationAssumption, FilesInitially
<1>2. FilesInv /\ [Files!Next]_(Files!vars) => FilesInv'
  BY AdministrationAssumption, FilesStep
<1>3. FilesInv => TargetsResolve
  BY AdministrationAssumption, FilesInvResolves
<1>4. QED BY <1>1, <1>2, <1>3, PTL DEF Files!Spec

-----------------------------------------------------------------------------
(* A page of the front end. *)

\* A fetch that has been answered for a session brings what is its user's.
FetchOf(sessions) ==
  {f \in [by : 1..Len(sessions), st : {"asked", "ok", "no", "lost"}, data : Page!Data] :
     IF f.st = "ok" THEN f.data # None /\ f.data.of = sessions[f.by] ELSE f.data = None}

\* A resource, its fetches those of these sessions.
Resource(sessions) ==
  [data : Page!Data, kept : Page!Data, error : BOOLEAN, fetches : Seq(FetchOf(sessions)),
   latest : BOOLEAN, out : BOOLEAN]

\* Its latest fetch is the last session's.
Follows(r, sessions) ==
  r.latest => r.fetches # <<>> /\ r.fetches[Len(r.fetches)].by = Len(sessions)

PageTypes ==
  /\ stored \in [Persons -> Boards]
  /\ signed \in Seq(Persons) /\ Len(signed) \in 1..MaxSessions
  /\ res \in Resource(signed)
  /\ stream \in [at : {"off", "joining", "open", "lost", "refused"},
                 missed : BOOLEAN, timer : BOOLEAN, ping : BOOLEAN]
  /\ moves \in [Moves -> Page!Moving \cup {None}]

\* A broken stream has something to catch up with, and a new one has not.
StreamFits ==
  /\ stream.ping => stream.at = "open"
  /\ stream.at = "lost" => stream.missed
  /\ stream.at = "joining" => ~stream.missed

Current == [of |-> Page!User, board |-> stored[Page!User]]

\* Nothing has been changed that the page has not been told of.
Heard ==
  /\ authed /\ stream.at \in {"open", "joining"}
  /\ ~stream.ping /\ ~stream.timer /\ ~gap

\* What is on its way to a page that has heard it all, or has come, is current.
ComesCurrent ==
  Heard =>
    /\ res.latest /\ res.fetches[Len(res.fetches)].st = "ok" =>
         res.fetches[Len(res.fetches)].data = Current
    /\ ~res.latest /\ ~res.error /\ moves = Page!NoMoves => res.data = Current

\* A signed-out page keeps nothing but what it has asked for since.
KeepsNothing ==
  ~authed => /\ ~strayed => res.kept = None
             /\ res.latest => res.out

PageInv ==
  /\ PageTypes /\ Follows(res, signed) /\ StreamFits
  /\ ComesCurrent /\ KeepsNothing /\ Page!ShowsOwn

-----------------------------------------------------------------------------
(* Resources and their fetches. *)

LEMMA FetchGrows ==
  ASSUME NEW s \in Seq(Persons), NEW u \in Persons
  PROVE  FetchOf(s) \subseteq FetchOf(Append(s, u))
<1>1. Len(Append(s, u)) = Len(s) + 1 /\ \A i \in 1..Len(s) : Append(s, u)[i] = s[i]
  OBVIOUS
<1>2. 1..Len(s) \subseteq 1..Len(Append(s, u))
  BY <1>1
<1>3. QED BY <1>1, <1>2 DEF FetchOf

\* The fetches that are followed, with one more.
LEMMA FetchAdded ==
  ASSUME NEW F, NEW q \in Seq(F), NEW f \in F
  PROVE  LET a == Append(IF Len(q) = MaxFetches THEN Tail(q) ELSE q, f) IN
         Page!NullIsNothing =>
           a \in Seq(F) /\ a # <<>> /\ a[Len(a)] = f
<1> SUFFICES ASSUME Page!NullIsNothing
    PROVE LET a == Append(IF Len(q) = MaxFetches THEN Tail(q) ELSE q, f) IN
          a \in Seq(F) /\ a # <<>> /\ a[Len(a)] = f
  OBVIOUS
<1> DEFINE t == IF Len(q) = MaxFetches THEN Tail(q) ELSE q
<1>1. t \in Seq(F)
  BY DEF Page!NullIsNothing
<1> HIDE DEF t
<1>2. Append(t, f) \in Seq(F) /\ Len(Append(t, f)) = Len(t) + 1 /\ Append(t, f)[Len(t) + 1] = f
  BY <1>1
<1>3. Append(t, f) # <<>>
  BY <1>1, <1>2
<1>4. QED BY <1>2, <1>3 DEF t

\* The fetches that are followed, with one less: the last stays the last.
LEMMA FetchRemoved ==
  ASSUME NEW F, NEW q \in Seq(F), NEW i \in 1..Len(q)
  PROVE  LET a == Page!RemoveAt(q, i) IN
         /\ a \in Seq(F)
         /\ i # Len(q) => a # <<>> /\ a[Len(a)] = q[Len(q)]
<1> DEFINE s1 == SubSeq(q, 1, i - 1)
           s2 == SubSeq(q, i + 1, Len(q))
<1>1. s1 \in Seq(F) /\ Len(s1) = i - 1
  OBVIOUS
<1>2. /\ s2 \in Seq(F)
      /\ Len(s2) = Len(q) - i
      /\ i # Len(q) => s2[Len(q) - i] = q[Len(q)]
  OBVIOUS
<1> HIDE DEF s1, s2
<1>3. /\ s1 \o s2 \in Seq(F)
      /\ Len(s1 \o s2) = Len(q) - 1
  BY <1>1, <1>2
<1>4. i # Len(q) => (s1 \o s2)[Len(q) - 1] = s2[Len(q) - i]
  BY <1>1, <1>2
<1>5. i # Len(q) => s1 \o s2 # <<>>
  BY <1>3
<1>6. QED BY <1>2, <1>3, <1>4, <1>5 DEF Page!RemoveAt, s1, s2

LEMMA RevalidatedFits ==
  ASSUME Page!NullIsNothing, NEW s \in Seq(Persons), Len(s) \in Nat \ {0},
         NEW r \in Resource(s), NEW out \in BOOLEAN
  PROVE  LET v == Page!Revalidated(r, Len(s), out) IN
         /\ v \in Resource(s) /\ Follows(v, s)
         /\ v.latest /\ v.fetches[Len(v.fetches)].st = "asked"
         /\ v.data = r.data /\ v.kept = r.kept /\ v.out = out
<1> DEFINE f == [by |-> Len(s), st |-> "asked", data |-> None]
           a == Append(IF Len(r.fetches) = MaxFetches THEN Tail(r.fetches) ELSE r.fetches, f)
<1>1. f \in FetchOf(s) /\ f.by = Len(s) /\ f.st = "asked"
  BY DEF FetchOf, Page!Data
<1>2. r.fetches \in Seq(FetchOf(s))
  BY DEF Resource
<1>3. a \in Seq(FetchOf(s)) /\ a # <<>> /\ a[Len(a)] = f
  BY <1>1, <1>2, FetchAdded
<1>4. Page!Revalidated(r, Len(s), out) =
        [r EXCEPT !.fetches = a, !.latest = TRUE, !.out = out]
  BY DEF Page!Revalidated
<1> HIDE DEF a, f
<1>5. QED BY <1>1, <1>3, <1>4 DEF Resource, Follows

LEMMA ClearedFits ==
  ASSUME NEW s, NEW r \in Resource(s)
  PROVE  LET v == Page!Cleared(r) IN
         v \in Resource(s) /\ ~v.latest /\ v.data = None /\ v.kept = None
  BY DEF Page!Cleared, Resource, Page!Data

\* A fetch is over: the latest one leaves its value or an error, another nothing.
LEMMA SettledFits ==
  ASSUME NEW s, res \in Resource(s), Follows(res, s),
         NEW i \in 1..Len(res.fetches), NEW value \in Page!Data
  PROVE  LET v == Page!Settled(i, value)
             latest == res.latest /\ i = Len(res.fetches) IN
         /\ v \in Resource(s) /\ Follows(v, s)
         /\ latest /\ value # None => ~v.latest /\ v.data = value /\ v.kept = value
         /\ latest /\ value = None =>
              ~v.latest /\ v.error /\ v.data = res.data /\ v.kept = res.kept
         /\ ~latest =>
              /\ v.data = res.data /\ v.kept = res.kept /\ v.error = res.error
              /\ v.latest = res.latest /\ v.out = res.out
              /\ v.latest => v.fetches[Len(v.fetches)] = res.fetches[Len(res.fetches)]
<1> DEFINE latest == res.latest /\ i = Len(res.fetches)
           a == Page!RemoveAt(res.fetches, i)
           rest == [res EXCEPT !.fetches = a, !.latest = res.latest /\ ~latest,
                               !.out = res.out /\ ~latest]
<1>1. /\ a \in Seq(FetchOf(s))
      /\ i # Len(res.fetches) => a # <<>> /\ a[Len(a)] = res.fetches[Len(res.fetches)]
<2>1. res.fetches \in Seq(FetchOf(s))
  BY DEF Resource
<2>2. QED BY <2>1, FetchRemoved
<1>2. /\ latest /\ value # None =>
           Page!Settled(i, value) =
             [rest EXCEPT !.data = value, !.kept = value, !.error = FALSE]
      /\ latest /\ value = None => Page!Settled(i, value) = [rest EXCEPT !.error = TRUE]
      /\ ~latest => Page!Settled(i, value) = rest
  BY DEF Page!Settled
<1> HIDE DEF a
<1>3. /\ rest \in Resource(s)
      /\ rest.fetches = a /\ rest.latest = (res.latest /\ ~latest)
      /\ rest.out = (res.out /\ ~latest)
      /\ rest.data = res.data /\ rest.kept = res.kept /\ rest.error = res.error
  BY <1>1 DEF Resource
<1> HIDE DEF rest
<1>4. CASE latest /\ value # None
  BY <1>2, <1>3, <1>4 DEF Resource, Follows
<1>5. CASE latest /\ value = None
  BY <1>2, <1>3, <1>5 DEF Resource, Follows
<1>6. CASE ~latest
<2>1. Page!Settled(i, value) = rest
  BY <1>2, <1>6
<2>2. res.latest => i # Len(res.fetches)
  BY <1>6
<2>3. rest.latest = res.latest /\ rest.out = res.out
  BY <1>3, <1>6 DEF Resource
<2>4. res.latest => a # <<>> /\ a[Len(a)] = res.fetches[Len(res.fetches)]
  BY <1>1, <2>2
<2>5. Follows(rest, s)
  BY <1>3, <2>3, <2>4 DEF Follows
<2>6. QED BY <1>3, <1>6, <2>1, <2>3, <2>4, <2>5
<1>7. QED BY <1>4, <1>5, <1>6

-----------------------------------------------------------------------------
(* Every step of the page keeps the invariant. *)

LEMMA PageInitially == Page!NullIsNothing /\ Page!Init => PageInv
<1> SUFFICES ASSUME Page!NullIsNothing, Page!Init PROVE PageInv
  OBVIOUS
<1> DEFINE blank == [data |-> None, kept |-> None, error |-> FALSE, fetches |-> <<>>,
                     latest |-> FALSE, out |-> FALSE]
<1>1. signed \in Seq(Persons) /\ Len(signed) = 1 /\ Len(signed) \in Nat \ {0}
  BY DEF Page!Init
<1>2. blank \in Resource(signed) /\ blank.data = None /\ blank.kept = None
  BY DEF Resource, Page!Data
<1>3. res = Page!Revalidated(blank, Len(signed), FALSE)
  BY <1>1 DEF Page!Init, Page!Opened
<1> HIDE DEF blank
<1>4. /\ res \in Resource(signed) /\ Follows(res, signed)
      /\ res.latest /\ res.fetches[Len(res.fetches)].st = "asked"
      /\ res.data = None /\ res.kept = None
<2>1. LET v == Page!Revalidated(blank, Len(signed), FALSE) IN
      /\ v \in Resource(signed) /\ Follows(v, signed)
      /\ v.latest /\ v.fetches[Len(v.fetches)].st = "asked"
      /\ v.data = blank.data /\ v.kept = blank.kept
  BY <1>1, <1>2, RevalidatedFits
<2>2. QED BY <1>2, <1>3, <2>1
<1>5. PageTypes
<2>1. stored \in [Persons -> Boards]
  BY DEF Page!Init
<2>2. Len(signed) \in 1..MaxSessions
  BY <1>1 DEF Page!NullIsNothing
<2>3. stream = [at |-> "joining", missed |-> FALSE, timer |-> FALSE, ping |-> FALSE]
  BY DEF Page!Init, Page!Joining, Page!NoStream
<2>4. moves \in [Moves -> Page!Moving \cup {None}]
  BY DEF Page!Init, Page!NoMoves
<2>5. QED BY <1>1, <1>4, <2>1, <2>2, <2>3, <2>4 DEF PageTypes
<1>6. StreamFits
  BY DEF StreamFits, Page!Init, Page!Joining, Page!NoStream
<1>7. ComesCurrent /\ KeepsNothing /\ Page!ShowsOwn
  BY <1>4 DEF ComesCurrent, KeepsNothing, Page!ShowsOwn, Page!Init
<1>8. QED BY <1>4, <1>5, <1>6, <1>7 DEF PageInv

\* All that a step leaves alone.
LEMMA PageStutters ==
  ASSUME PageInv, UNCHANGED <<stored, signed, authed, res, stream, moves, gap, undone, strayed>>
  PROVE  PageInv'
<1>1. PageTypes' /\ Follows(res, signed)' /\ StreamFits'
  BY DEF PageInv, PageTypes, Follows, StreamFits, Resource, FetchOf
<1>2. ComesCurrent'
  BY DEF PageInv, ComesCurrent, Heard, Current, Page!User, Page!Session
<1>3. KeepsNothing' /\ Page!ShowsOwn'
  BY DEF PageInv, KeepsNothing, Page!ShowsOwn, Page!User, Page!Session
<1>4. QED BY <1>1, <1>2, <1>3 DEF PageInv

\* A page that has just asked again waits for the answer.
LEMMA AskedComes ==
  ASSUME res'.latest, res'.fetches[Len(res'.fetches)].st = "asked"
  PROVE  ComesCurrent'
  BY DEF ComesCurrent

\* The resource is fetched anew.
LEMMA AskedAnew ==
  ASSUME PageInv, Page!NullIsNothing
  PROVE  LET v == Page!Revalidated(res, Len(signed), ~authed) IN
         /\ v \in Resource(signed) /\ Follows(v, signed)
         /\ v.latest /\ v.fetches[Len(v.fetches)].st = "asked"
         /\ v.data = res.data /\ v.kept = res.kept /\ v.out = ~authed
<1>1. signed \in Seq(Persons) /\ Len(signed) \in Nat \ {0} /\ res \in Resource(signed)
  BY DEF PageInv, PageTypes, Page!NullIsNothing
<1>2. QED BY <1>1, RevalidatedFits

\* What is on the screen is left there, and fetched anew.
LEMMA PageRefetched ==
  ASSUME PageInv, Page!NullIsNothing, Page!Invalidate,
         UNCHANGED <<stored, signed, authed, undone, strayed>>,
         stream' \in [at : {"off", "joining", "open", "lost", "refused"},
                      missed : BOOLEAN, timer : BOOLEAN, ping : BOOLEAN],
         StreamFits', moves' \in [Moves -> Page!Moving \cup {None}]
  PROVE  PageInv'
<1>1. res' = Page!Revalidated(res, Len(signed), ~authed)
  BY DEF Page!Invalidate, Page!Session
<1>2. /\ res' \in Resource(signed) /\ Follows(res', signed)
      /\ res'.latest /\ res'.fetches[Len(res'.fetches)].st = "asked"
      /\ res'.data = res.data /\ res'.kept = res.kept /\ res'.out = ~authed
  BY <1>1, AskedAnew
<1>3. PageTypes' /\ Follows(res, signed)'
<2>1. Resource(signed)' = Resource(signed)
  BY DEF Resource, FetchOf
<2>2. PageTypes'
  BY <1>2, <2>1 DEF PageInv, PageTypes
<2>3. QED BY <1>2, <2>2 DEF Follows
<1>4. ComesCurrent'
  BY <1>2, AskedComes
<1>5. KeepsNothing' /\ Page!ShowsOwn'
  BY <1>2 DEF PageInv, KeepsNothing, Page!ShowsOwn, Page!User, Page!Session
<1>6. QED BY <1>3, <1>4, <1>5 DEF PageInv

LEMMA FocusStep ==
  ASSUME PageInv, Page!NullIsNothing, Page!Focus \/ Page!Poll \/ Page!RefreshNow
  PROVE  PageInv'
<1>1. /\ Page!Invalidate
      /\ UNCHANGED <<stored, signed, authed, moves, undone, strayed>>
  BY DEF Page!Focus, Page!Poll, Page!RefreshNow
<1>2. stream' = stream \/ stream' = [stream EXCEPT !.timer = FALSE]
  BY DEF Page!Focus, Page!Poll, Page!RefreshNow
<1>3. /\ stream' \in [at : {"off", "joining", "open", "lost", "refused"},
                      missed : BOOLEAN, timer : BOOLEAN, ping : BOOLEAN]
      /\ StreamFits'
  BY <1>2 DEF PageInv, PageTypes, StreamFits
<1>4. moves' \in [Moves -> Page!Moving \cup {None}]
  BY <1>1 DEF PageInv, PageTypes
<1>5. QED BY <1>1, <1>3, <1>4, PageRefetched

\* The page leaves for the sign-in, its resource being `r`.
LEMMA PageLeaves ==
  ASSUME PageInv, NEW r \in Resource(signed), Follows(r, signed), NEW foreign,
         ~authed => r.kept = res.kept /\ (r.latest => r.out),
         Page!LeftTo(r, foreign),
         UNCHANGED <<stored, signed>>, moves' \in [Moves -> Page!Moving \cup {None}]
  PROVE  PageInv'
<1>1. authed' = FALSE
  BY DEF Page!LeftTo
<1>2. /\ res' \in Resource(signed) /\ Follows(res', signed)
      /\ res'.kept = IF authed THEN None ELSE res.kept
      /\ res'.latest => res'.out
<2>1. CASE authed
  BY <2>1, ClearedFits DEF Page!LeftTo, Follows
<2>2. CASE ~authed
  BY <2>2 DEF Page!LeftTo
<2>3. QED BY <2>1, <2>2
<1>3. /\ stream' \in [at : {"off", "joining", "open", "lost", "refused"},
                      missed : BOOLEAN, timer : BOOLEAN, ping : BOOLEAN]
      /\ StreamFits'
  BY DEF Page!LeftTo, Page!NoStream, PageInv, PageTypes, StreamFits
<1>4. PageTypes' /\ Follows(res, signed)'
  BY <1>2, <1>3 DEF PageInv, PageTypes, Follows, Resource, FetchOf
<1>5. ComesCurrent' /\ Page!ShowsOwn'
  BY <1>1 DEF ComesCurrent, Heard, Page!ShowsOwn
<1>6. KeepsNothing'
  BY <1>2 DEF Page!LeftTo, PageInv, KeepsNothing
<1>7. QED BY <1>3, <1>4, <1>5, <1>6 DEF PageInv

LEMMA SignOutStep ==
  ASSUME PageInv, Page!SignOut
  PROVE  PageInv'
<1>1. /\ Page!LeftTo(res, undone) /\ UNCHANGED <<stored, signed>> /\ moves' = moves
  BY DEF Page!SignOut
<1>2. /\ res \in Resource(signed) /\ Follows(res, signed)
      /\ moves' \in [Moves -> Page!Moving \cup {None}]
      /\ ~authed => (res.latest => res.out)
  BY <1>1 DEF PageInv, PageTypes, KeepsNothing
<1>3. QED BY <1>1, <1>2, PageLeaves

\* Who signs in next finds nothing kept, but by a page that had signed out.
LEMMA SignInStep ==
  ASSUME PageInv, Page!NullIsNothing, NEW u \in Persons, Page!SignIn(u)
  PROVE  PageInv'
<1> DEFINE s == Append(signed, u)
<1>1. /\ signed \in Seq(Persons) /\ Len(signed) \in Nat \ {0} /\ res \in Resource(signed)
      /\ Len(signed) < MaxSessions /\ MaxSessions \in Nat
  BY DEF PageInv, PageTypes, Page!NullIsNothing, Page!SignIn, Page!Session
<1>2. s \in Seq(Persons) /\ Len(s) = Len(signed) + 1 /\ Len(s) \in Nat \ {0}
  BY <1>1
<1>3. res \in Resource(s)
<2>1. Seq(FetchOf(signed)) \subseteq Seq(FetchOf(s))
  BY <1>1, FetchGrows
<2>2. QED BY <1>1, <2>1 DEF Resource
<1>4. signed' = s /\ res' = Page!Revalidated(res, Len(s), FALSE)
  BY <1>2 DEF Page!SignIn, Page!Session
<1> HIDE DEF s
<1>5. /\ res' \in Resource(s) /\ Follows(res', s)
      /\ res'.latest /\ res'.fetches[Len(res'.fetches)].st = "asked"
      /\ res'.data = res.data /\ res'.kept = res.kept
  BY <1>2, <1>3, <1>4, RevalidatedFits
<1>6. stream' = [at |-> "joining", missed |-> FALSE, timer |-> FALSE, ping |-> FALSE]
  BY DEF Page!SignIn, Page!Joining, Page!NoStream
<1>7. Len(signed') \in 1..MaxSessions
  BY <1>1, <1>2, <1>4
<1>8. PageTypes' /\ Follows(res, signed)' /\ StreamFits'
<2>1. UNCHANGED <<stored, moves>>
  BY DEF Page!SignIn
<2>2. res' \in Resource(signed')
  BY <1>4, <1>5
<2>3. Resource(signed') = Resource(signed)'
  BY DEF Resource, FetchOf
<2>4. PageTypes'
  BY <1>2, <1>4, <1>6, <1>7, <2>1, <2>2, <2>3 DEF PageInv, PageTypes
<2>5. Follows(res, signed)'
  BY <1>4, <1>5 DEF Follows
<2>6. QED BY <1>6, <2>4, <2>5 DEF StreamFits
<1>9. ComesCurrent'
  BY <1>5, AskedComes
<1>10. KeepsNothing' /\ Page!ShowsOwn'
<2>1. authed' = TRUE /\ ~authed /\ strayed' = strayed /\ undone' = (undone \/ res.data # None)
  BY DEF Page!SignIn
<2>2. KeepsNothing'
  BY <2>1 DEF KeepsNothing
<2>3. ~strayed => res.kept = None
  BY <2>1 DEF PageInv, KeepsNothing
<2>4. QED BY <1>5, <2>1, <2>2, <2>3 DEF Page!ShowsOwn
<1>11. QED BY <1>8, <1>9, <1>10 DEF PageInv

LEMMA OpenAgainStep ==
  ASSUME PageInv, Page!NullIsNothing, Page!OpenAgain
  PROVE  PageInv'
<1> DEFINE kept == [data |-> res.kept, kept |-> res.kept, error |-> FALSE,
                    fetches |-> <<>>, latest |-> FALSE, out |-> FALSE]
<1>1. /\ signed \in Seq(Persons) /\ Len(signed) \in Nat \ {0}
      /\ res.kept \in Page!Data
  BY DEF PageInv, PageTypes, Page!NullIsNothing, Resource
<1>2. kept \in Resource(signed) /\ kept.data = res.kept /\ kept.kept = res.kept
  BY <1>1 DEF Resource
<1>3. res' = Page!Revalidated(kept, Len(signed), FALSE)
  BY DEF Page!OpenAgain, Page!Opened, Page!Session
<1> HIDE DEF kept
<1>4. /\ res' \in Resource(signed) /\ Follows(res', signed)
      /\ res'.latest /\ res'.fetches[Len(res'.fetches)].st = "asked"
      /\ res'.data = res.kept /\ res'.kept = res.kept
<2>1. LET v == Page!Revalidated(kept, Len(signed), FALSE) IN
      /\ v \in Resource(signed) /\ Follows(v, signed)
      /\ v.latest /\ v.fetches[Len(v.fetches)].st = "asked"
      /\ v.data = kept.data /\ v.kept = kept.kept
  BY <1>1, <1>2, RevalidatedFits
<2>2. QED BY <1>2, <1>3, <2>1
<1>5. stream' = [at |-> "joining", missed |-> FALSE, timer |-> FALSE, ping |-> FALSE]
  BY DEF Page!OpenAgain, Page!Joining, Page!NoStream
<1>6. moves' \in [Moves -> Page!Moving \cup {None}]
  BY DEF Page!OpenAgain, Page!NoMoves
<1>7. PageTypes' /\ Follows(res, signed)' /\ StreamFits'
  BY <1>4, <1>5, <1>6
     DEF PageInv, PageTypes, Follows, Resource, FetchOf, Page!OpenAgain, StreamFits
<1>8. ComesCurrent'
  BY <1>4, AskedComes
<1>9. KeepsNothing' /\ Page!ShowsOwn'
  BY <1>4 DEF PageInv, KeepsNothing, Page!ShowsOwn, Page!OpenAgain, Page!User, Page!Session
<1>10. QED BY <1>7, <1>8, <1>9 DEF PageInv

\* A fetch becomes `f`: answered or lost.
LEMMA FetchChanges ==
  ASSUME PageInv, NEW i \in 1..Len(res.fetches), NEW f \in FetchOf(signed),
         f.by = res.fetches[i].by,
         f.st = "ok" => f.data = Current \/ ~(f.by = Len(signed)),
         res' = [res EXCEPT !.fetches[i] = f],
         UNCHANGED <<stored, signed, authed, stream, moves, gap, undone, strayed>>
  PROVE  PageInv'
<1> DEFINE q == [res.fetches EXCEPT ![i] = f]
<1>1. res.fetches \in Seq(FetchOf(signed)) /\ res \in Resource(signed)
  BY DEF PageInv, PageTypes, Resource
<1>2. /\ q \in Seq(FetchOf(signed)) /\ Len(q) = Len(res.fetches)
      /\ \A j \in 1..Len(q) : q[j] = IF j = i THEN f ELSE res.fetches[j]
  BY <1>1
<1>3. res' = [res EXCEPT !.fetches = q]
  OBVIOUS
<1>q. q # <<>>
  BY <1>2
<1> HIDE DEF q
<1>4. /\ res' \in Resource(signed) /\ res'.fetches = q
      /\ res'.data = res.data /\ res'.kept = res.kept /\ res'.error = res.error
      /\ res'.latest = res.latest /\ res'.out = res.out
  BY <1>1, <1>2, <1>3 DEF Resource
<1>5. res.latest =>
        /\ q[Len(q)].by = res.fetches[Len(res.fetches)].by
        /\ q[Len(q)].by = Len(signed)
        /\ q[Len(q)] = f \/ q[Len(q)] = res.fetches[Len(res.fetches)]
  BY <1>2, <1>q DEF PageInv, Follows
<1>6. PageTypes' /\ Follows(res, signed)' /\ StreamFits'
  BY <1>4, <1>5, <1>q DEF PageInv, PageTypes, Follows, StreamFits, Resource, FetchOf
<1>7. Heard' = Heard /\ Current' = Current
  BY DEF Heard, Current, Page!User, Page!Session
<1>8. ComesCurrent'
<2>1. (res.latest /\ q[Len(q)].st = "ok" /\ Heard) => q[Len(q)].data = Current
  BY <1>5 DEF PageInv, ComesCurrent
<2>2. moves' = moves
  OBVIOUS
<2>3. QED BY <1>4, <1>7, <2>1, <2>2 DEF PageInv, ComesCurrent, Page!NoMoves
<1>9. KeepsNothing' /\ Page!ShowsOwn'
  BY <1>4 DEF PageInv, KeepsNothing, Page!ShowsOwn, Page!User, Page!Session
<1>10. QED BY <1>6, <1>8, <1>9 DEF PageInv

LEMMA UserBoard ==
  ASSUME PageTypes, Page!NullIsNothing
  PROVE  Current \in Page!Board /\ Current # None /\ Current.of = signed[Len(signed)]
<1>1. Page!User \in Persons /\ stored[Page!User] \in Boards
  BY DEF PageTypes, Page!User, Page!Session
<1>2. Current \in Page!Board /\ Current.of = signed[Len(signed)]
  BY <1>1 DEF Current, Page!Board, Page!User, Page!Session
<1>3. QED BY <1>2 DEF Page!NullIsNothing

LEMMA AnswerFetchStep ==
  ASSUME PageInv, Page!NullIsNothing, NEW i \in 1..Len(res.fetches), Page!AnswerFetch(i)
  PROVE  PageInv'
<1> DEFINE by == res.fetches[i].by
           f == IF Page!Valid(by) THEN [by |-> by, st |-> "ok", data |-> Current]
                ELSE [res.fetches[i] EXCEPT !.st = "no"]
<1>1. res.fetches[i] \in FetchOf(signed) /\ res.fetches[i].st = "asked"
  BY DEF PageInv, PageTypes, Resource, Page!AnswerFetch
<1>2. res' = [res EXCEPT !.fetches[i] = f]
  BY DEF Page!AnswerFetch, Current
<1>3. UNCHANGED <<stored, signed, authed, stream, moves, gap, undone, strayed>>
  BY DEF Page!AnswerFetch
<1>4. CASE Page!Valid(by)
<2>1. by = Len(signed) /\ f = [by |-> by, st |-> "ok", data |-> Current]
  BY <1>4 DEF Page!Valid, Page!Session
<2>2. Current \in Page!Data /\ Current # None /\ Current.of = signed[by]
  BY <2>1, UserBoard DEF PageInv, Page!Data
<2>3. by \in 1..Len(signed)
  BY <1>1 DEF FetchOf
<2> HIDE DEF by
<2>4. f \in FetchOf(signed) /\ f.by = by /\ f.data = Current
  BY <2>1, <2>2, <2>3 DEF FetchOf
<2> HIDE DEF f
<2>5. QED BY <1>2, <1>3, <2>4, FetchChanges DEF by
<1>5. CASE ~Page!Valid(by)
<2>1. f = [res.fetches[i] EXCEPT !.st = "no"]
  BY <1>5
<2>2. f \in FetchOf(signed) /\ f.by = res.fetches[i].by /\ f.st = "no"
  BY <1>1, <2>1 DEF FetchOf
<2> HIDE DEF f
<2>3. QED BY <1>2, <1>3, <2>2, FetchChanges
<1>6. QED BY <1>4, <1>5

LEMMA LoseFetchStep ==
  ASSUME PageInv, NEW i \in 1..Len(res.fetches), Page!LoseFetch(i)
  PROVE  PageInv'
<1> DEFINE f == [res.fetches[i] EXCEPT !.st = "lost", !.data = None]
<1>1. res.fetches[i] \in FetchOf(signed)
  BY DEF PageInv, PageTypes, Resource
<1>2. res' = [res EXCEPT !.fetches[i] = f]
  BY DEF Page!LoseFetch
<1>3. UNCHANGED <<stored, signed, authed, stream, moves, gap, undone, strayed>>
  BY DEF Page!LoseFetch
<1>4. f \in FetchOf(signed) /\ f.by = res.fetches[i].by /\ f.st = "lost"
  BY <1>1 DEF FetchOf, Page!Data
<1> HIDE DEF f
<1>5. QED BY <1>2, <1>3, <1>4, FetchChanges

LEMMA LandFetchStep ==
  ASSUME PageInv, Page!NullIsNothing, NEW i \in 1..Len(res.fetches), Page!LandFetch(i)
  PROVE  PageInv'
<1> DEFINE f == res.fetches[i]
           latest == res.latest /\ i = Len(res.fetches)
<1>1. f \in FetchOf(signed) /\ f.st # "asked" /\ res \in Resource(signed)
      /\ Follows(res, signed)
  BY DEF PageInv, PageTypes, Resource, Page!LandFetch
<1>2. f.data \in Page!Data /\ (f.data # None <=> f.st = "ok")
  BY <1>1 DEF FetchOf
<1>3. CASE f.st = "no"
<2>1. Page!LeftTo(Page!Settled(i, None), undone) /\ UNCHANGED <<stored, signed, moves>>
  BY <1>3 DEF Page!LandFetch
<2>2. None \in Page!Data
  BY DEF Page!Data
<2>3. /\ Page!Settled(i, None) \in Resource(signed)
      /\ Follows(Page!Settled(i, None), signed)
      /\ Page!Settled(i, None).kept = res.kept
      /\ Page!Settled(i, None).latest =>
           res.latest /\ Page!Settled(i, None).out = res.out
  BY <1>1, <2>2, SettledFits
<2>4. moves' \in [Moves -> Page!Moving \cup {None}]
  BY <2>1 DEF PageInv, PageTypes
<2>5. ~authed /\ Page!Settled(i, None).latest => Page!Settled(i, None).out
  BY <2>3 DEF PageInv, KeepsNothing
<2>6. QED BY <2>1, <2>3, <2>4, <2>5, PageLeaves
<1>4. CASE f.st # "no"
<2>1. /\ res' = Page!Settled(i, f.data)
      /\ IF latest /\ f.st = "ok" THEN undone' = FALSE /\ strayed' = res.out
         ELSE undone' = undone /\ strayed' = strayed
      /\ UNCHANGED <<stored, signed, authed, stream, moves, gap>>
  BY <1>4 DEF Page!LandFetch
<2>2. /\ res' \in Resource(signed) /\ Follows(res', signed)
      /\ latest /\ f.st = "ok" => ~res'.latest /\ res'.data = f.data /\ res'.kept = f.data
      /\ latest /\ f.st # "ok" =>
           ~res'.latest /\ res'.error /\ res'.data = res.data /\ res'.kept = res.kept
      /\ ~latest =>
           /\ res'.data = res.data /\ res'.kept = res.kept /\ res'.error = res.error
           /\ res'.latest = res.latest /\ res'.out = res.out
           /\ res'.latest => res'.fetches[Len(res'.fetches)] = res.fetches[Len(res.fetches)]
  BY <1>1, <1>2, <2>1, SettledFits
<2>3. PageTypes' /\ Follows(res, signed)' /\ StreamFits'
  BY <2>1, <2>2 DEF PageInv, PageTypes, Follows, StreamFits, Resource, FetchOf
<2>4. Heard' = Heard /\ Current' = Current
  BY <2>1 DEF Heard, Current, Page!User, Page!Session
<2>5. ComesCurrent'
<3>1. CASE ~latest
  BY <2>1, <2>2, <2>4, <3>1 DEF PageInv, ComesCurrent, Page!NoMoves
<3>2. CASE latest /\ f.st # "ok"
  BY <2>2, <3>2 DEF ComesCurrent
<3>3. CASE latest /\ f.st = "ok"
<4>1. Heard => f.data = Current
  BY <3>3 DEF PageInv, ComesCurrent
<4>2. QED BY <2>2, <2>4, <3>3, <4>1 DEF ComesCurrent
<3>4. QED BY <3>1, <3>2, <3>3
<2>6. KeepsNothing' /\ Page!ShowsOwn'
<3>1. CASE latest /\ f.st = "ok"
<4>1. f.data.of = signed[Len(signed)]
  BY <1>1, <3>1 DEF FetchOf, Follows
<4>2. res'.data = f.data /\ res'.kept = f.data /\ strayed' = res.out /\ signed' = signed
      /\ authed' = authed /\ ~res'.latest
  BY <2>1, <2>2, <3>1
<4>3. QED
  BY <3>1, <4>1, <4>2 DEF PageInv, KeepsNothing, Page!ShowsOwn, Page!User, Page!Session
<3>2. CASE ~(latest /\ f.st = "ok")
<4>1. /\ res'.data = res.data /\ res'.kept = res.kept
      /\ res'.latest => res.latest /\ res'.out = res.out
  BY <2>2, <3>2
<4>2. undone' = undone /\ strayed' = strayed
  BY <2>1, <3>2
<4>3. QED
  BY <2>1, <4>1, <4>2 DEF PageInv, KeepsNothing, Page!ShowsOwn, Page!User, Page!Session
<3>3. QED BY <3>1, <3>2
<2>7. QED BY <2>3, <2>5, <2>6 DEF PageInv
<1>5. QED BY <1>3, <1>4

-----------------------------------------------------------------------------
(* Optimistic mutations. *)

\* What the page shows is the board as it was, but for the card's column.
LEMMA MoveStep ==
  ASSUME PageInv, Page!NullIsNothing, NEW m \in Moves, NEW b \in Boards, Page!Move(m, b)
  PROVE  PageInv'
<1> DEFINE moving == [by |-> Page!Session, to |-> b, prev |-> res.data, st |-> "asked"]
<1>1. /\ authed /\ res \in Resource(signed) /\ res.data \in Page!Board
      /\ Page!Session \in 1..MaxSessions
  BY DEF PageInv, PageTypes, Resource, Page!Data, Page!Move, Page!Session
<1>2. moving \in Page!Moving /\ moving # None
  BY <1>1 DEF Page!Moving, Page!NullIsNothing
<1>3. moves' = [moves EXCEPT ![m] = moving]
  BY DEF Page!Move
<1> HIDE DEF moving
<1>4. moves' \in [Moves -> Page!Moving \cup {None}] /\ moves'[m] # None
  BY <1>2, <1>3 DEF PageInv, PageTypes
<1>5. moves' # Page!NoMoves
  BY <1>4 DEF Page!NoMoves
<1> DEFINE data == [res.data EXCEPT !.board = b]
<1>6. data \in Page!Data /\ data.of = res.data.of /\ res.data # None
  BY <1>1 DEF Page!Board, Page!Data, Page!NullIsNothing
<1>7. res' = [res EXCEPT !.data = data]
  BY DEF Page!Move
<1> HIDE DEF data
<1>8. /\ res' \in Resource(signed) /\ res'.data = data /\ res'.kept = res.kept
      /\ res'.error = res.error /\ res'.latest = res.latest /\ res'.fetches = res.fetches
      /\ res'.out = res.out
  BY <1>1, <1>6, <1>7 DEF Resource
<1>9. UNCHANGED <<stored, signed, authed, stream, gap, undone, strayed>>
  BY DEF Page!Move
<1>10. PageTypes' /\ Follows(res, signed)' /\ StreamFits'
  BY <1>4, <1>8, <1>9 DEF PageInv, PageTypes, Follows, StreamFits, Resource, FetchOf
<1>11. ComesCurrent'
<2>1. Heard' = Heard /\ Current' = Current
  BY <1>9 DEF Heard, Current, Page!User, Page!Session
<2>2. moves' # Page!NoMoves'
  BY <1>5 DEF Page!NoMoves
<2>3. QED BY <1>8, <2>1, <2>2 DEF PageInv, ComesCurrent
<1>12. KeepsNothing' /\ Page!ShowsOwn'
  BY <1>1, <1>6, <1>8, <1>9 DEF PageInv, KeepsNothing, Page!ShowsOwn, Page!User, Page!Session
<1>13. QED BY <1>10, <1>11, <1>12 DEF PageInv

\* A board is changed, and the page told of it if it listens to that vault.
LEMMA PageTold ==
  ASSUME PageInv, NEW u \in Persons, NEW b \in Boards, Page!Stores(u, b),
         UNCHANGED <<signed, authed, res, undone, strayed>>,
         moves' \in [Moves -> Page!Moving \cup {None}],
         u # Page!User => moves' = moves
  PROVE  PageInv'
<1>1. /\ stored' = [stored EXCEPT ![u] = b]
      /\ stored' \in [Persons -> Boards]
  BY DEF PageInv, PageTypes, Page!Stores
<1>2. /\ stream' = [stream EXCEPT !.ping = stream.ping \/ (stream.at = "open" /\ u = Page!User)]
      /\ gap' = (gap \/ (stream.at = "joining" /\ u = Page!User))
  BY DEF Page!Stores
<1>3. /\ stream' \in [at : {"off", "joining", "open", "lost", "refused"},
                      missed : BOOLEAN, timer : BOOLEAN, ping : BOOLEAN]
      /\ stream'.at = stream.at /\ stream'.missed = stream.missed /\ stream'.timer = stream.timer
      /\ stream'.ping <=> (stream.ping \/ (stream.at = "open" /\ u = Page!User))
  BY <1>2 DEF PageInv, PageTypes
<1>4. PageTypes' /\ Follows(res, signed)' /\ StreamFits'
  BY <1>1, <1>3 DEF PageInv, PageTypes, Follows, StreamFits, Resource, FetchOf
<1>5. ComesCurrent'
<2>1. CASE u = Page!User
  BY <1>2, <1>3, <2>1 DEF ComesCurrent, Heard
<2>2. CASE u # Page!User
<3>1. stored'[Page!User] = stored[Page!User] /\ Page!User' = Page!User
  BY <1>1, <2>2 DEF PageInv, PageTypes, Page!User, Page!Session
<3>2. Current' = Current
  BY <3>1 DEF Current
<3>3. Heard' => Heard
  BY <1>2, <1>3, <2>2 DEF Heard
<3>4. QED BY <2>2, <3>2, <3>3 DEF PageInv, ComesCurrent, Page!NoMoves
<2>3. QED BY <2>1, <2>2
<1>6. KeepsNothing' /\ Page!ShowsOwn'
  BY DEF PageInv, KeepsNothing, Page!ShowsOwn, Page!User, Page!Session
<1>7. QED BY <1>4, <1>5, <1>6 DEF PageInv

LEMMA ChangeStep ==
  ASSUME PageInv, NEW u \in Persons, NEW b \in Boards, Page!Change(u, b)
  PROVE  PageInv'
<1>1. Page!Stores(u, b) /\ UNCHANGED <<signed, authed, res, moves, undone, strayed>>
  BY DEF Page!Change
<1>2. moves' \in [Moves -> Page!Moving \cup {None}] /\ moves' = moves
  BY <1>1 DEF PageInv, PageTypes
<1>3. QED BY <1>1, <1>2, PageTold

\* A move goes on: nothing else is changed.
LEMMA MoveGoesOn ==
  ASSUME PageInv, Page!NullIsNothing, NEW m \in Moves, moves[m] # None,
         NEW st \in {"asked", "ok", "no", "lost"},
         moves' = [moves EXCEPT ![m].st = st]
  PROVE  /\ moves' \in [Moves -> Page!Moving \cup {None}]
         /\ moves' # Page!NoMoves /\ moves # Page!NoMoves
<1>1. moves[m] \in Page!Moving /\ moves \in [Moves -> Page!Moving \cup {None}]
  BY DEF PageInv, PageTypes
<1> DEFINE v == [moves[m] EXCEPT !.st = st]
<1>2. v \in Page!Moving
  BY <1>1 DEF Page!Moving
<1>3. v # None
  BY <1>2 DEF Page!NullIsNothing
<1>4. moves' = [moves EXCEPT ![m] = v]
  OBVIOUS
<1> HIDE DEF v
<1>5. QED BY <1>1, <1>2, <1>3, <1>4 DEF Page!NoMoves

LEMMA MoveOnlyGoesOn ==
  ASSUME PageInv, Page!NullIsNothing, NEW m \in Moves, moves[m] # None,
         NEW st \in {"asked", "ok", "no", "lost"},
         moves' = [moves EXCEPT ![m].st = st],
         UNCHANGED <<stored, signed, authed, res, stream, gap, undone, strayed>>
  PROVE  PageInv'
<1>1. /\ moves' \in [Moves -> Page!Moving \cup {None}]
      /\ moves' # Page!NoMoves /\ moves # Page!NoMoves
  BY MoveGoesOn
<1>2. PageTypes' /\ Follows(res, signed)' /\ StreamFits'
  BY <1>1 DEF PageInv, PageTypes, Follows, StreamFits, Resource, FetchOf
<1>3. Heard' = Heard /\ Current' = Current /\ moves' # Page!NoMoves'
  BY <1>1 DEF Heard, Current, Page!User, Page!Session, Page!NoMoves
<1>4. ComesCurrent'
  BY <1>3 DEF PageInv, ComesCurrent
<1>5. KeepsNothing' /\ Page!ShowsOwn'
  BY DEF PageInv, KeepsNothing, Page!ShowsOwn, Page!User, Page!Session
<1>6. QED BY <1>2, <1>4, <1>5 DEF PageInv

LEMMA AnswerMoveStep ==
  ASSUME PageInv, Page!NullIsNothing, NEW m \in Moves, Page!AnswerMove(m)
  PROVE  PageInv'
<1>1. moves[m] # None /\ UNCHANGED <<signed, authed, res, undone, strayed>>
  BY DEF Page!AnswerMove
<1>2. CASE Page!Valid(moves[m].by)
<2>1. Page!Stores(Page!User, moves[m].to) /\ moves' = [moves EXCEPT ![m].st = "ok"]
  BY <1>2 DEF Page!AnswerMove
<2>2. moves' \in [Moves -> Page!Moving \cup {None}]
  BY <1>1, <2>1, MoveGoesOn
<2>3. Page!User \in Persons /\ moves[m].to \in Boards
  BY <1>1 DEF PageInv, PageTypes, Page!User, Page!Session, Page!Moving
<2>4. QED BY <1>1, <2>1, <2>2, <2>3, PageTold
<1>3. CASE ~Page!Valid(moves[m].by)
<2>1. moves' = [moves EXCEPT ![m].st = "no"] /\ UNCHANGED <<stored, stream, gap>>
  BY <1>3 DEF Page!AnswerMove
<2>2. QED BY <1>1, <2>1, MoveOnlyGoesOn
<1>4. QED BY <1>2, <1>3

LEMMA LoseMoveStep ==
  ASSUME PageInv, Page!NullIsNothing, NEW m \in Moves, Page!LoseMove(m)
  PROVE  PageInv'
<1>1. /\ moves[m] # None /\ moves' = [moves EXCEPT ![m].st = "lost"]
      /\ UNCHANGED <<stored, signed, authed, res, stream, gap, undone, strayed>>
  BY DEF Page!LoseMove
<1>2. QED BY <1>1, MoveOnlyGoesOn

\* What the page showed before a move is shown again, and fetched anew.
LEMMA RolledBack ==
  ASSUME PageInv, Page!NullIsNothing, NEW m \in Moves, moves[m] # None
  PROVE  LET v == Page!Revalidated([res EXCEPT !.data = moves[m].prev], Len(signed), ~authed) IN
         /\ moves[m].prev \in Page!Data
         /\ v \in Resource(signed) /\ Follows(v, signed)
         /\ v.latest /\ v.fetches[Len(v.fetches)].st = "asked"
         /\ v.data = moves[m].prev /\ v.kept = res.kept /\ v.out = ~authed
<1> DEFINE back == [res EXCEPT !.data = moves[m].prev]
<1>1. moves[m].prev \in Page!Data
  BY DEF PageInv, PageTypes, Page!Moving, Page!Data
<1>2. back \in Resource(signed) /\ back.data = moves[m].prev /\ back.kept = res.kept
  BY <1>1 DEF PageInv, PageTypes, Resource
<1>3. signed \in Seq(Persons) /\ Len(signed) \in Nat \ {0}
  BY DEF PageInv, PageTypes, Page!NullIsNothing
<1> HIDE DEF back
<1>4. LET v == Page!Revalidated(back, Len(signed), ~authed) IN
      /\ v \in Resource(signed) /\ Follows(v, signed)
      /\ v.latest /\ v.fetches[Len(v.fetches)].st = "asked"
      /\ v.data = back.data /\ v.kept = back.kept /\ v.out = ~authed
  BY <1>2, <1>3, RevalidatedFits
<1>5. QED BY <1>1, <1>2, <1>4 DEF back

LEMMA LandMoveStep ==
  ASSUME PageInv, Page!NullIsNothing, NEW m \in Moves, Page!LandMove(m)
  PROVE  PageInv'
<1> DEFINE rolled == Page!Revalidated([res EXCEPT !.data = moves[m].prev], Len(signed), ~authed)
<1>1. /\ moves[m] # None /\ moves' = [moves EXCEPT ![m] = None]
      /\ UNCHANGED <<stored, signed>>
      /\ moves[m].st \in {"ok", "no", "lost"}
  BY DEF Page!LandMove, PageInv, PageTypes, Page!Moving
<1>2. moves' \in [Moves -> Page!Moving \cup {None}]
  BY <1>1 DEF PageInv, PageTypes
<1>3. /\ moves[m].prev \in Page!Data
      /\ rolled \in Resource(signed) /\ Follows(rolled, signed)
      /\ rolled.latest /\ rolled.fetches[Len(rolled.fetches)].st = "asked"
      /\ rolled.data = moves[m].prev /\ rolled.kept = res.kept /\ rolled.out = ~authed
  BY <1>1, RolledBack
<1>4. CASE moves[m].st = "ok"
<2>1. Page!Invalidate /\ UNCHANGED <<authed, stream, undone, strayed>>
  BY <1>4 DEF Page!LandMove
<2>2. /\ stream' \in [at : {"off", "joining", "open", "lost", "refused"},
                      missed : BOOLEAN, timer : BOOLEAN, ping : BOOLEAN]
      /\ StreamFits'
  BY <2>1 DEF PageInv, PageTypes, StreamFits
<2>3. QED BY <1>1, <1>2, <2>1, <2>2, PageRefetched
<1>5. CASE moves[m].st = "no"
<2>1. \/ Page!LeftTo(rolled, undone \/ ~authed)
      \/ authed /\ Page!LeftAndBack(moves[m].prev)
  BY <1>5 DEF Page!LandMove, Page!Session
<2>2. CASE Page!LeftTo(rolled, undone \/ ~authed)
<3> HIDE DEF rolled
<3>1. QED BY <1>1, <1>2, <1>3, <2>2, PageLeaves
<2>3. CASE authed /\ Page!LeftAndBack(moves[m].prev)
<3> DEFINE clear == [Page!Cleared(res) EXCEPT !.data = moves[m].prev]
<3>1. signed \in Seq(Persons) /\ Len(signed) \in Nat \ {0} /\ res \in Resource(signed)
  BY DEF PageInv, PageTypes, Page!NullIsNothing
<3>2. Page!Cleared(res) \in Resource(signed) /\ Page!Cleared(res).kept = None
  BY <3>1, ClearedFits
<3>3. clear \in Resource(signed) /\ clear.kept = None
  BY <1>3, <3>2 DEF Resource
<3>4. res' = Page!Revalidated(clear, Len(signed), TRUE)
  BY <2>3 DEF Page!LeftAndBack, Page!Session
<3> HIDE DEF clear
<3>5. res' \in Resource(signed) /\ Follows(res', signed) /\ res'.kept = None /\ res'.out
  BY <3>1, <3>3, <3>4, RevalidatedFits
<3>6. authed' = FALSE /\ stream' = [at |-> "off", missed |-> FALSE, timer |-> FALSE, ping |-> FALSE]
  BY <2>3 DEF Page!LeftAndBack, Page!NoStream
<3>7. PageTypes' /\ Follows(res, signed)' /\ StreamFits'
  BY <1>1, <1>2, <3>5, <3>6 DEF PageInv, PageTypes, Follows, StreamFits, Resource, FetchOf
<3>8. ComesCurrent' /\ KeepsNothing' /\ Page!ShowsOwn'
  BY <3>5, <3>6 DEF ComesCurrent, Heard, KeepsNothing, Page!ShowsOwn
<3>9. QED BY <3>7, <3>8 DEF PageInv
<2>4. QED BY <2>1, <2>2, <2>3
<1>6. CASE moves[m].st = "lost"
<2>1. /\ res' = rolled
      /\ undone' = (undone \/ (moves[m].prev.of # Page!User \/ ~authed))
      /\ UNCHANGED <<authed, stream, strayed>>
  BY <1>6 DEF Page!LandMove, Page!Session
<2> HIDE DEF rolled
<2>2. PageTypes' /\ Follows(res, signed)' /\ StreamFits'
  BY <1>1, <1>2, <1>3, <2>1 DEF PageInv, PageTypes, Follows, StreamFits, Resource, FetchOf
<2>3. ComesCurrent'
  BY <1>3, <2>1, AskedComes
<2>4. KeepsNothing' /\ Page!ShowsOwn'
  BY <1>1, <1>3, <2>1 DEF PageInv, KeepsNothing, Page!ShowsOwn, Page!User, Page!Session
<2>5. QED BY <2>2, <2>3, <2>4 DEF PageInv
<1>7. QED BY <1>1, <1>4, <1>5, <1>6

-----------------------------------------------------------------------------
(* The stream. *)

\* A page that hears of a change, or may have missed one, has not heard it all;
\* who joins anew has nothing to catch up with.
LEMMA StreamSteps ==
  ASSUME PageInv,
         \/ Page!Join \/ Page!Ping
         \/ \E at \in {"lost", "refused"} : Page!Break(at)
  PROVE  PageInv'
<1>1. UNCHANGED <<stored, signed, authed, res, moves, gap, undone, strayed>>
  BY DEF Page!Join, Page!Ping, Page!Break
<1>2. /\ stream' \in [at : {"off", "joining", "open", "lost", "refused"},
                      missed : BOOLEAN, timer : BOOLEAN, ping : BOOLEAN]
      /\ StreamFits'
      /\ Heard' => Heard
<2>1. CASE Page!Join
<3>1. /\ stream.at \in {"joining", "lost"}
      /\ stream' = [stream EXCEPT !.at = "open", !.missed = FALSE,
                                !.timer = stream.timer \/ stream.missed]
  BY <2>1 DEF Page!Join
<3>2. /\ stream'.at = "open" /\ stream'.ping = stream.ping /\ ~stream'.missed
      /\ stream'.timer = (stream.timer \/ stream.missed)
      /\ stream' \in [at : {"off", "joining", "open", "lost", "refused"},
                      missed : BOOLEAN, timer : BOOLEAN, ping : BOOLEAN]
  BY <3>1 DEF PageInv, PageTypes
<3>3. StreamFits'
  BY <3>2 DEF StreamFits
<3>4. Heard' => Heard
  BY <1>1, <3>1, <3>2 DEF PageInv, StreamFits, Heard
<3>5. QED BY <3>2, <3>3, <3>4
<2>2. CASE Page!Ping
  BY <1>1, <2>2 DEF Page!Ping, PageInv, PageTypes, StreamFits, Heard
<2>3. ASSUME NEW at \in {"lost", "refused"}, Page!Break(at)
      PROVE  /\ stream' \in [at : {"off", "joining", "open", "lost", "refused"},
                             missed : BOOLEAN, timer : BOOLEAN, ping : BOOLEAN]
             /\ StreamFits'
             /\ Heard' => Heard
  BY <1>1, <2>3 DEF Page!Break, PageInv, PageTypes, StreamFits, Heard
<2>4. QED BY <2>1, <2>2, <2>3
<1>3. PageTypes' /\ Follows(res, signed)'
  BY <1>1, <1>2 DEF PageInv, PageTypes, Follows, Resource, FetchOf
<1>4. ComesCurrent'
  BY <1>1, <1>2 DEF PageInv, ComesCurrent, Current, Page!User, Page!Session, Page!NoMoves
<1>5. KeepsNothing' /\ Page!ShowsOwn'
  BY <1>1 DEF PageInv, KeepsNothing, Page!ShowsOwn, Page!User, Page!Session
<1>6. QED BY <1>2, <1>3, <1>4, <1>5 DEF PageInv

LEMMA PageStep == Page!NullIsNothing /\ PageInv /\ [Page!Next]_(Page!vars) => PageInv'
<1> SUFFICES ASSUME Page!NullIsNothing, PageInv, [Page!Next]_(Page!vars) PROVE PageInv'
  OBVIOUS
<1>1. CASE UNCHANGED Page!vars
  BY <1>1, PageStutters DEF Page!vars
<1>2. CASE Page!SignOut
  BY <1>2, SignOutStep
<1>3. CASE Page!Expire
  BY <1>3, PageStutters DEF Page!Expire
<1>4. CASE \E u \in Persons : Page!SignIn(u)
  BY <1>4, SignInStep
<1>5. CASE Page!OpenAgain
  BY <1>5, OpenAgainStep
<1>6. CASE Page!Focus \/ Page!Poll \/ Page!RefreshNow
  BY <1>6, FocusStep
<1>7. CASE Page!FetchStep
<2>1. DOMAIN res.fetches = 1..Len(res.fetches)
  BY DEF PageInv, PageTypes, Resource
<2>2. QED BY <1>7, <2>1, AnswerFetchStep, LoseFetchStep, LandFetchStep DEF Page!FetchStep
<1>8. CASE Page!MoveStep
  BY <1>8, AnswerMoveStep, LoseMoveStep, LandMoveStep, MoveStep DEF Page!MoveStep
<1>9. CASE \E u \in Persons, b \in Boards : Page!Change(u, b)
  BY <1>9, ChangeStep
<1>10. CASE Page!Join \/ Page!Ping \/ \E at \in {"lost", "refused"} : Page!Break(at)
  BY <1>10, StreamSteps
<1>11. QED
  BY <1>1, <1>2, <1>3, <1>4, <1>5, <1>6, <1>7, <1>8, <1>9, <1>10 DEF Page!Next

LEMMA PageInvSound == PageInv => PagesSound
<1> SUFFICES ASSUME PageInv PROVE Page!ShowsVault /\ Page!ShowsOwn
  BY DEF PagesSound, Page!PagesSound
<1>1. Page!ShowsVault
  BY DEF PageInv, ComesCurrent, Heard, Current, Page!ShowsVault, Page!Quiet
<1>2. QED BY <1>1 DEF PageInv

\* However sign-ins, fetches, moves, other devices' changes and the stream's breaks
\* interleave: a page that waits for nothing shows what the server has, and what it
\* shows and keeps is its user's (cache.ts, stream.ts), but for what the history names.
THEOREM PagesStaySound == Page!Spec => []PagesSound
<1>1. Page!Init => PageInv
  BY AdministrationAssumption, PageInitially
<1>2. PageInv /\ [Page!Next]_(Page!vars) => PageInv'
  BY AdministrationAssumption, PageStep
<1>3. PageInv => PagesSound
  BY PageInvSound
<1>4. QED BY <1>1, <1>2, <1>3, PTL DEF Page!Spec

=============================================================================
