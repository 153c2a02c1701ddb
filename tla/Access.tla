------------------------------- MODULE Access -------------------------------
(***************************************************************************)
(* Logins, accounts and tokens of the web server: CredStore (auth.rs) over *)
(* the SQLite tables of db.rs, the handlers of routes.rs and admin.rs that *)
(* use it, and the shell commands of mgmt-cli web.rs beside them.          *)
(*                                                                         *)
(* A request is served in several database accesses, and the others get in *)
(* between any two of them.  A transaction that reads before it writes is  *)
(* two steps: its write is refused (SQLITE_BUSY_SNAPSHOT) if anybody has   *)
(* committed since its read.  Every secret - a password as it was set, an  *)
(* invite, a token, a TOTP key - is a number used once (salts and random   *)
(* bytes do not repeat).  A one-time code is the time step it is made for, *)
(* and a step is one unit of `now`.  A client is a browser with one cookie *)
(* and one request at a time.                                              *)
(***************************************************************************)
EXTENDS Integers, FiniteSets

CONSTANTS
  Users, Admin,   \* managed users, ADMIN_USER
  Clients, Addrs,
  OpenMode,       \* CredStore.allow_open
  Window, MaxAttempts, Lockout,   \* LOGIN_WINDOW_SECS, _MAX_ATTEMPTS, _LOCKOUT_SECS
  None,           \* Option::None, NULL
  MaxTime, MaxSecrets, MaxActs    \* bounds on the clock, on secrets made, on requests

ASSUME AccessAssumption ==
  /\ Admin \notin Users /\ None \notin Users \cup {Admin}
  /\ OpenMode \in BOOLEAN
  /\ Window \in Nat /\ MaxAttempts \in Nat \ {0} /\ Lockout \in Nat \ {0}
  /\ MaxTime \in Nat /\ MaxSecrets \in Nat /\ MaxSecrets >= 4 /\ MaxActs \in Nat
  /\ None \notin Nat

Option(S) == S \cup {None}
Accounts == Users \cup {Admin}
Secrets == 1..MaxSecrets
\* A row of rate_limit; `until` is 0 for NULL.
Row == [count : Nat, start : Nat, until : Nat]
\* What the session file holds under a cookie; `by` and `raced` are history: the
\* password that was proved, and whether it was replaced before the session began.
Session == [user : Accounts, hash : Option(Secrets), by : Option(Secrets), raced : BOOLEAN]

Ops == {"login", "setup", "accept", "password", "create", "mint"}
Phases == {"idle", "check", "verify", "read", "commit", "record", "clear", "store",
           "grant", "insert"}
\* The locals of a handler: what the client typed (a password or an invite), the
\* step of its code, and the TOTP key that verification found.
Request == [user : Accounts, op : Ops, phase : Phases, addr : Addrs,
            typed : Option(Secrets), code : Option(Nat), key : Option(Secrets)]

VARIABLES
  now, minted, acts,
  exists,     \* the rows of users
  password, totp, invite, token,   \* columns of users and admin, table tokens
  rate, step, \* tables rate_limit and totp_step
  session,    \* the session store
  req,
  doomed,     \* transactions that others' commits have made stale
  outrun, overtaken, stray, spent, respent   \* history, see the properties

creds == <<exists, password, totp, invite, token>>
history == <<outrun, overtaken, stray, spent, respent>>
vars == <<now, minted, acts, creds, rate, step, session, req, doomed, history>>

Enabled == password[Admin] # None
IsOpen == OpenMode /\ ~Enabled
NeedsSetup == ~OpenMode /\ ~Enabled
Known(a) == a = Admin \/ a \in exists

Locked(a) == rate[a] # None /\ rate[a].until > now

\* A mistake: a session that outlives the password it was opened with.
AuthHashFixed(a) == IF Known(a) /\ password[a] # None THEN 1 ELSE None

AuthHash(a) == IF Known(a) THEN password[a] ELSE None

\* A session counts while its user can log in and has the hash it was opened with.
GetUser(a) == Known(a) /\ password[a] # None
LoggedIn(c) ==
  /\ session[c] # None
  /\ GetUser(session[c].user)
  /\ session[c].hash = AuthHash(session[c].user)

\* The principal is the administrator: a session, a bearer token, or open mode.
AsAdmin(c) ==
  /\ ~NeedsSetup
  /\ \/ LoggedIn(c) /\ session[c].user = Admin
     \/ token[Admin] # None
     \/ IsOpen

IdleRequest(a) == [user |-> Admin, op |-> "login", phase |-> "idle", addr |-> a,
                   typed |-> None, code |-> None, key |-> None]

\* A new store, or one that a web-auth.yaml was imported into.
Init ==
  /\ now = 1 /\ minted = 4 /\ acts = 0
  /\ \E imported \in BOOLEAN :
       /\ exists = IF imported THEN Users ELSE {}
       /\ password = [a \in Accounts |-> IF ~imported THEN None ELSE IF a = Admin THEN 1 ELSE 2]
       /\ totp = [a \in Accounts |-> IF imported THEN 3 ELSE None]
       /\ token = [a \in Accounts |-> IF imported THEN 4 ELSE None]
  /\ invite = [u \in Users |-> None]
  /\ rate = [a \in Addrs |-> None]
  /\ step = [a \in Accounts |-> None]
  /\ session = [c \in Clients |-> None]
  /\ \E a \in Addrs : req = [c \in Clients |-> IdleRequest(a)]
  /\ doomed = {} /\ outrun = {} /\ overtaken = {} /\ stray = {}
  /\ spent = {} /\ respent = FALSE

-----------------------------------------------------------------------------
(* Steps of handlers and commits. *)

At(c, phase) == req[c].phase = phase
Goto(c, phase) == req' = [req EXCEPT ![c].phase = phase]

\* A commit makes the transactions stale that have read and not yet written.
Commits(c) == doomed' = (doomed \cup {d \in Clients : At(d, "commit")}) \ {c}
ShellCommits == doomed' = doomed \cup {d \in Clients : At(d, "commit")}

Redeem(x) == spent' = spent \cup {x} /\ respent' = (respent \/ x \in spent)

\* The requests that rely on a password of account a they have seen.
Relying(a) == {d \in Clients : req[d].user = a
                 /\ req[d].phase \in {"read", "commit", "clear", "store", "grant"}}
\* Past the check of the lock, and may still touch the address's row.
Past(a) == {d \in Clients : req[d].addr = a
              /\ req[d].phase \in {"verify", "read", "commit", "record", "clear"}}

NewSecret(n) == minted + n <= MaxSecrets /\ minted' = minted + n

-----------------------------------------------------------------------------
(* What a client asks for: the guard of middleware.rs and the parts of the *)
(* handlers before their first access to the store.                        *)

Start(c, r) ==
  /\ At(c, "idle") /\ acts < MaxActs
  /\ acts' = acts + 1
  /\ req' = [req EXCEPT ![c] = r]
  /\ outrun' = outrun \ {c} /\ overtaken' = overtaken \ {c}
  /\ UNCHANGED <<now, minted, creds, rate, step, session, doomed, stray, spent, respent>>

StartLogin(c, a, u, pw, code) ==
  /\ ~NeedsSetup /\ ~IsOpen
  /\ Start(c, [user |-> u, op |-> "login", phase |-> "check", addr |-> a,
               typed |-> pw, code |-> code, key |-> None])

StartSetup(c, a) ==
  Start(c, [user |-> Admin, op |-> "setup", phase |-> "check", addr |-> a,
            typed |-> None, code |-> None, key |-> None])

StartAccept(c, a, t) ==
  /\ ~NeedsSetup
  /\ Start(c, [user |-> Admin, op |-> "accept", phase |-> "check", addr |-> a,
               typed |-> t, code |-> None, key |-> None])

\* Rotating the password is not behind the lock.
StartPassword(c, a, pw, code) ==
  /\ LoggedIn(c)
  /\ Start(c, [user |-> session[c].user, op |-> "password", phase |-> "verify",
               addr |-> a, typed |-> pw, code |-> code, key |-> None])

\* user_exists is asked first; the row is written later.
StartCreate(c, a, u) ==
  /\ AsAdmin(c) /\ u \notin exists
  /\ Start(c, [user |-> u, op |-> "create", phase |-> "insert", addr |-> a,
               typed |-> None, code |-> None, key |-> None])

StartMint(c, a, u) ==
  /\ AsAdmin(c) /\ Known(u)
  /\ Start(c, [user |-> u, op |-> "mint", phase |-> "insert", addr |-> a,
               typed |-> None, code |-> None, key |-> None])

-----------------------------------------------------------------------------
(* Login, setup, invite and password change. *)

\* A mistake: an invite is redeemed without a look at the lock.
CheckLockAtLogin(c) ==
  /\ At(c, "check")
  /\ \/ Locked(req[c].addr) /\ req[c].op = "login" /\ Goto(c, "idle")
     \/ ~Locked(req[c].addr) /\ req[c].op = "login" /\ Goto(c, "verify")
     \/ req[c].op = "setup" /\ Goto(c, IF Enabled THEN "record" ELSE "read")
     \/ req[c].op = "accept" /\ Goto(c, "read")
  /\ UNCHANGED <<now, minted, acts, creds, rate, step, session, doomed, history>>

CheckLock(c) ==
  /\ At(c, "check")
  /\ \/ Locked(req[c].addr) /\ Goto(c, "idle")
     \/ /\ ~Locked(req[c].addr)
        /\ \/ req[c].op = "login" /\ Goto(c, "verify")
           \/ req[c].op = "setup" /\ Goto(c, IF Enabled THEN "record" ELSE "read")
           \/ req[c].op = "accept" /\ Goto(c, "read")
  /\ UNCHANGED <<now, minted, acts, creds, rate, step, session, doomed, history>>

\* A refused login is recorded; a refused change of the password is not.
Refused(c) == Goto(c, IF req[c].op = "password" THEN "idle" ELSE "record")
Proved(c) == IF req[c].op = "password" THEN "store" ELSE "clear"

\* A mistake: a login without a code passes where one is asked for.
CodeFitsIfGiven(c) == req[c].code # None => req[c].code \in (now - 1)..(now + 1)

CodeFits(c) == req[c].code # None /\ req[c].code \in (now - 1)..(now + 1)

Verify(c) ==
  LET a == req[c].user
      right == Known(a) /\ password[a] # None /\ req[c].typed = password[a]
  IN
  /\ At(c, "verify")
  /\ \/ right /\ totp[a] = None /\ Goto(c, Proved(c))
     \/ /\ right /\ totp[a] # None /\ CodeFits(c)
        /\ req' = [req EXCEPT ![c].phase = "read", ![c].key = totp[a]]
     \/ ~right /\ Refused(c)
     \/ right /\ totp[a] # None /\ ~CodeFits(c) /\ Refused(c)
  /\ UNCHANGED <<now, minted, acts, creds, rate, step, session, doomed, history>>

Invited(t) == {u \in exists : invite[u] # None /\ invite[u] = t}

Begins(c) == doomed' = doomed \ {c}

\* A mistake: a code is good until the next one has been used.
ReadLoosely(c) ==
  LET a == req[c].user
  IN
  /\ At(c, "read")
  /\ \/ /\ req[c].op \in {"login", "password"}
        /\ IF step[a] # None /\ req[c].code < step[a] THEN Refused(c) ELSE Goto(c, "commit")
     \/ req[c].op = "setup" /\ Goto(c, IF Enabled THEN "record" ELSE "commit")
     \/ /\ req[c].op = "accept"
        /\ \/ Invited(req[c].typed) = {} /\ Goto(c, "record")
           \/ \E u \in Invited(req[c].typed) :
                req' = [req EXCEPT ![c].phase = "commit", ![c].user = u]
  /\ Begins(c)
  /\ UNCHANGED <<now, minted, acts, creds, rate, step, session, history>>

\* The SELECT of consume_totp_step, set_admin_password_if_unset, accept_invite.
Read(c) ==
  LET a == req[c].user
  IN
  /\ At(c, "read")
  /\ \/ /\ req[c].op \in {"login", "password"}
        /\ IF step[a] # None /\ req[c].code <= step[a] THEN Refused(c) ELSE Goto(c, "commit")
     \/ req[c].op = "setup" /\ Goto(c, IF Enabled THEN "record" ELSE "commit")
     \/ /\ req[c].op = "accept"
        /\ \/ Invited(req[c].typed) = {} /\ Goto(c, "record")
           \/ \E u \in Invited(req[c].typed) :
                req' = [req EXCEPT ![c].phase = "commit", ![c].user = u]
  /\ Begins(c)
  /\ UNCHANGED <<now, minted, acts, creds, rate, step, session, history>>

\* The write of a transaction that is no longer current fails, and so does
\* the request; setup alone does not count that as a failed attempt.
CommitFails(c) ==
  /\ At(c, "commit") /\ c \in doomed
  /\ IF req[c].op \in {"setup", "password"} THEN Goto(c, "idle") ELSE Goto(c, "record")
  /\ doomed' = doomed \ {c}
  /\ UNCHANGED <<now, minted, acts, creds, rate, step, session, history>>

CommitCode(c) ==
  LET a == req[c].user
  IN
  /\ At(c, "commit") /\ c \notin doomed /\ req[c].op \in {"login", "password"}
  /\ step' = [step EXCEPT ![a] = req[c].code]
  /\ IF totp[a] = req[c].key
     THEN Redeem(<<"code", a, req[c].key, req[c].code>>)
     ELSE UNCHANGED <<spent, respent>>
  /\ Goto(c, Proved(c))
  /\ Commits(c)
  /\ UNCHANGED <<now, minted, acts, creds, rate, session, outrun, overtaken, stray>>

\* The client may enroll a TOTP key as it claims the account.
CommitClaim(c) ==
  /\ At(c, "commit") /\ c \notin doomed /\ req[c].op = "setup"
  /\ NewSecret(2)
  /\ password' = [password EXCEPT ![Admin] = minted + 1]
  /\ \E key \in {totp[Admin], minted + 2} : totp' = [totp EXCEPT ![Admin] = key]
  /\ Redeem(<<"claim", None, None, None>>)
  /\ req' = [req EXCEPT ![c].phase = "grant", ![c].typed = minted + 1]
  /\ overtaken' = overtaken \cup (Relying(Admin) \ {c})
  /\ Commits(c)
  /\ UNCHANGED <<now, acts, exists, invite, token, rate, step, session, outrun, stray>>

\* A mistake: an invite that stays after it was accepted.
CommitAcceptKeeping(c) ==
  LET u == req[c].user
  IN
  /\ At(c, "commit") /\ c \notin doomed /\ req[c].op = "accept"
  /\ NewSecret(1)
  /\ password' = [password EXCEPT ![u] = minted + 1]
  /\ Redeem(<<"invite", None, req[c].typed, None>>)
  /\ req' = [req EXCEPT ![c].phase = "grant", ![c].typed = minted + 1]
  /\ overtaken' = overtaken \cup (Relying(u) \ {c})
  /\ Commits(c)
  /\ UNCHANGED <<now, acts, exists, totp, invite, token, rate, step, session, outrun, stray>>

CommitAccept(c) ==
  LET u == req[c].user
  IN
  /\ At(c, "commit") /\ c \notin doomed /\ req[c].op = "accept"
  /\ NewSecret(1)
  /\ password' = [password EXCEPT ![u] = minted + 1]
  /\ invite' = [invite EXCEPT ![u] = None]
  /\ Redeem(<<"invite", None, req[c].typed, None>>)
  /\ req' = [req EXCEPT ![c].phase = "grant", ![c].typed = minted + 1]
  /\ overtaken' = overtaken \cup (Relying(u) \ {c})
  /\ Commits(c)
  /\ UNCHANGED <<now, acts, exists, totp, token, rate, step, session, outrun, stray>>

\* record_failure: a lapsed row is evicted, a row outside its window starts
\* anew, and the row written replaces whatever lock there was.
Lapsed(r) == r = None \/ (now - r.start > Window /\ r.until <= now)
Failed(r) ==
  LET fresh == Lapsed(r) \/ now - r.start > Window
      count == IF fresh THEN 1 ELSE r.count + 1
  IN
  IF count >= MaxAttempts
  THEN [count |-> 0, start |-> now, until |-> now + Lockout]
  ELSE [count |-> count, start |-> IF fresh THEN now ELSE r.start, until |-> 0]

Record(c) ==
  LET a == req[c].addr
  IN
  /\ At(c, "record")
  /\ rate' = [x \in Addrs |-> IF x = a THEN Failed(rate[x])
                              ELSE IF Lapsed(rate[x]) THEN None ELSE rate[x]]
  /\ outrun' = IF rate'[a].until > now THEN outrun \cup (Past(a) \ {c}) ELSE outrun
  /\ Goto(c, "idle")
  /\ Commits(c)
  /\ UNCHANGED <<now, minted, acts, creds, step, session, overtaken, stray, spent, respent>>

Clear(c) ==
  /\ At(c, "clear")
  /\ rate' = [rate EXCEPT ![req[c].addr] = None]
  /\ Goto(c, "grant")
  /\ Commits(c)
  /\ UNCHANGED <<now, minted, acts, creds, step, session, history>>

Store(c) ==
  LET a == req[c].user
  IN
  /\ At(c, "store")
  /\ \/ /\ ~Known(a) /\ Goto(c, "idle")
        /\ UNCHANGED <<minted, password, overtaken, doomed>>
     \/ /\ Known(a) /\ NewSecret(1)
        /\ password' = [password EXCEPT ![a] = minted + 1]
        /\ req' = [req EXCEPT ![c].phase = "grant", ![c].typed = minted + 1]
        /\ overtaken' = overtaken \cup (Relying(a) \ {c})
        /\ Commits(c)
  /\ UNCHANGED <<now, acts, exists, totp, invite, token, rate, step, session, outrun,
                 stray, spent, respent>>

\* session_user reads the hash as it is by now, and login() stores the session.
Grant(c) ==
  /\ At(c, "grant")
  /\ session' = [session EXCEPT ![c] =
                   [user |-> req[c].user, hash |-> AuthHash(req[c].user),
                    by |-> req[c].typed, raced |-> c \in overtaken]]
  /\ Goto(c, "idle")
  /\ UNCHANGED <<now, minted, acts, creds, rate, step, doomed, history>>

Logout(c) ==
  /\ At(c, "idle") /\ session[c] # None
  /\ session' = [session EXCEPT ![c] = None]
  /\ UNCHANGED <<now, minted, acts, creds, rate, step, req, doomed, history>>

\* The client is gone, or the server stops: the handler ends at its next await.
HangUp(c) ==
  /\ ~At(c, "idle") /\ Goto(c, "idle")
  /\ doomed' = doomed \ {c}
  /\ UNCHANGED <<now, minted, acts, creds, rate, step, session, history>>

-----------------------------------------------------------------------------
(* The administrator, in the browser and in the shell. *)

AddUser(c) ==
  LET u == req[c].user
  IN
  /\ At(c, "insert") /\ req[c].op = "create"
  /\ Goto(c, "idle")
  /\ \/ u \in exists /\ UNCHANGED <<exists, doomed>>
     \/ u \notin exists /\ exists' = exists \cup {u} /\ Commits(c)
  /\ UNCHANGED <<now, minted, acts, password, totp, invite, token, rate, step, session,
                 history>>

AddToken(c) ==
  LET a == req[c].user
  IN
  /\ At(c, "insert") /\ req[c].op = "mint"
  /\ NewSecret(1)
  /\ token' = [token EXCEPT ![a] = minted + 1]
  /\ stray' = IF Known(a) THEN stray ELSE stray \cup {a}
  /\ Goto(c, "idle")
  /\ Commits(c)
  /\ UNCHANGED <<now, acts, exists, password, totp, invite, rate, step, session, outrun,
                 overtaken, spent, respent>>

AdminActs(c) ==
  /\ AsAdmin(c) /\ At(c, "idle") /\ acts < MaxActs
  /\ acts' = acts + 1
  /\ Commits(c)
  /\ UNCHANGED <<now, rate, session, req, outrun, spent, respent>>

\* A mistake: the tokens of a deleted user stay.
DeleteUserRow(c, u) ==
  /\ AdminActs(c) /\ u \in exists
  /\ exists' = exists \ {u}
  /\ password' = [password EXCEPT ![u] = None]
  /\ totp' = [totp EXCEPT ![u] = None]
  /\ invite' = [invite EXCEPT ![u] = None]
  /\ step' = [step EXCEPT ![u] = None]
  /\ overtaken' = overtaken \cup Relying(u)
  /\ UNCHANGED <<minted, token, stray>>

DeleteUser(c, u) ==
  /\ AdminActs(c) /\ u \in exists
  /\ exists' = exists \ {u}
  /\ password' = [password EXCEPT ![u] = None]
  /\ totp' = [totp EXCEPT ![u] = None]
  /\ invite' = [invite EXCEPT ![u] = None]
  /\ token' = [token EXCEPT ![u] = None]
  /\ step' = [step EXCEPT ![u] = None]
  /\ overtaken' = overtaken \cup Relying(u)
  /\ stray' = stray \ {u}
  /\ UNCHANGED minted

InviteUser(c, u) ==
  /\ AdminActs(c) /\ u \in exists /\ NewSecret(1)
  /\ invite' = [invite EXCEPT ![u] = minted + 1]
  /\ UNCHANGED <<exists, password, totp, token, step, overtaken, stray>>

RevokeToken(c, a) ==
  /\ AdminActs(c) /\ token[a] # None
  /\ token' = [token EXCEPT ![a] = None]
  /\ stray' = stray \ {a}
  /\ UNCHANGED <<minted, exists, password, totp, invite, step, overtaken>>

\* mgmt web setpass, totp-enroll, totp-disable and token-new.
ShellActs ==
  /\ acts < MaxActs /\ acts' = acts + 1
  /\ ShellCommits
  /\ UNCHANGED <<now, exists, invite, rate, step, session, req, outrun, stray, spent,
                 respent>>

SetPass ==
  /\ ShellActs /\ NewSecret(1)
  /\ password' = [password EXCEPT ![Admin] = minted + 1]
  /\ overtaken' = overtaken \cup Relying(Admin)
  /\ UNCHANGED <<totp, token>>

SetTotp ==
  /\ ShellActs
  /\ \/ NewSecret(1) /\ totp' = [totp EXCEPT ![Admin] = minted + 1]
     \/ UNCHANGED minted /\ totp' = [totp EXCEPT ![Admin] = None]
  /\ UNCHANGED <<password, token, overtaken>>

TokenNew ==
  /\ ShellActs /\ NewSecret(1)
  /\ token' = [token EXCEPT ![Admin] = minted + 1]
  /\ UNCHANGED <<password, totp, overtaken>>

Tick ==
  /\ now < MaxTime /\ now' = now + 1
  /\ UNCHANGED <<minted, acts, creds, rate, step, session, req, doomed, history>>

-----------------------------------------------------------------------------
\* A password or an invite that is not the right one is represented by None.
Asks(c) ==
  \E a \in Addrs :
    \/ StartSetup(c, a)
    \/ \E t \in {None} \cup {invite[u] : u \in Users} : StartAccept(c, a, t)
    \/ \E u \in Users : StartCreate(c, a, u)
    \/ \E u \in Accounts : StartMint(c, a, u)
    \/ \E u \in Accounts : \E pw \in {None, password[u]}, code \in {None, now} :
         \/ StartLogin(c, a, u, pw, code)
         \/ LoggedIn(c) /\ session[c].user = u /\ StartPassword(c, a, pw, code)

Served(c) ==
  \/ CheckLock(c) \/ Verify(c) \/ Read(c)
  \/ CommitFails(c) \/ CommitCode(c) \/ CommitClaim(c) \/ CommitAccept(c)
  \/ Record(c) \/ Clear(c) \/ Store(c) \/ Grant(c) \/ AddUser(c) \/ AddToken(c)

Administers(c) ==
  \/ \E u \in Users : DeleteUser(c, u) \/ InviteUser(c, u)
  \/ \E a \in Accounts : RevokeToken(c, a)

Next ==
  \/ \E c \in Clients : Asks(c) \/ Served(c) \/ Logout(c) \/ HangUp(c) \/ Administers(c)
  \/ SetPass \/ SetTotp \/ TokenNew
  \/ Tick

Spec == Init /\ [][Next]_vars

-----------------------------------------------------------------------------
TypeOK ==
  /\ now \in Nat /\ minted \in 4..MaxSecrets /\ acts \in 0..MaxActs
  /\ exists \subseteq Users
  /\ password \in [Accounts -> Option(Secrets)]
  /\ totp \in [Accounts -> Option(Secrets)]
  /\ invite \in [Users -> Option(Secrets)]
  /\ token \in [Accounts -> Option(Secrets)]
  /\ rate \in [Addrs -> Option(Row)]
  /\ step \in [Accounts -> Option(Nat)]
  /\ session \in [Clients -> Option(Session)]
  /\ req \in [Clients -> Request]
  /\ \A c \in Clients :
       /\ req[c].phase \in {"read", "commit"} /\ req[c].op \in {"login", "password"} =>
            req[c].code \in Nat /\ req[c].key \in Secrets
       /\ req[c].op = "accept" /\ req[c].phase = "commit" => req[c].user \in Users
  /\ doomed \subseteq Clients /\ outrun \subseteq Clients /\ overtaken \subseteq Clients
  /\ stray \subseteq Accounts /\ respent \in BOOLEAN

\* What can be used once is used once, whoever else tries at the same time: a
\* one-time code ("can't be replayed in the window", auth.rs:223-224), an invite
\* (db.rs:387-406), the first-run claim of the administrator's account
\* ("can only ever succeed once", auth.rs:282).
UsedOnce == ~respent

\* A locked address stays locked until its time is over, unless a request that
\* had passed the check before the lock was set finishes later: it overwrites
\* the row (db.rs:429-455) or, if it succeeds, deletes it (auth_backend.rs:99).
LockHolds ==
  [][\A a \in Addrs : Locked(a) /\ now' = now /\ ~Locked(a)' =>
       \E c \in outrun : req'[c] # req[c]]_vars

\* Whoever is logged in has proved the password the account has now - so a new
\* password ends the other sessions (auth.rs:226-227) - but for a request that
\* was between its check of the old password and its session (auth_backend.rs:98-100).
SessionsProven ==
  \A c \in Clients :
    LoggedIn(c) => session[c].raced \/ session[c].by = password[session[c].user]

\* No token is left of a user who was deleted, but for one that was being minted
\* meanwhile: add_token looks for the user and inserts in two statements
\* (db.rs:350-357).
NoTokenLeft == \A u \in Users : token[u] # None => u \in exists \/ u \in stray

\* No credential outlives what it was given for.
NothingOutlives == TypeOK /\ SessionsProven /\ NoTokenLeft
=============================================================================
