------------------------------ MODULE Accounts ------------------------------
(***************************************************************************)
(* The accounts sync authenticates with: caldav.yaml, which the handlers   *)
(* of admin.rs load, change and save without a lock, the Google tokens     *)
(* beside it, and the two ways of getting one - the web's redirect flow    *)
(* (admin.rs, state.rs) and `mgmt google login` (mgmt-cli main.rs).        *)
(*                                                                         *)
(* Handlers run on several threads of one process, and `write_private`     *)
(* names its temporary file after the process: two saves at a time open    *)
(* the same one.  A thread keeps the file it opened, whatever that file is *)
(* called by the time it writes (`fd`).  A flow is one consent: its state, *)
(* verifier and code are its own.  A secret is one of a few values.        *)
(***************************************************************************)
EXTENDS Integers, FiniteSets, Functions

CONSTANTS
  Names,       \* of accounts
  Colls,       \* of collections
  Passwords,   \* what is typed as a secret
  Flows,       \* consents
  OAuthClients, Desktop,   \* client id and secret: the web's, and the one of the CLI
  Workers,     \* threads that serve a request
  HandAccounts, HandColls, \* config.yaml: its accounts, and the account of its collections
  Nothing,     \* Option::None
  Blank, Torn, \* a file opened and not written yet, and one written over by another
  MaxRequests  \* bound on requests

Partial(D, R) == UNION {[S -> R] : S \in SUBSET D}

\* `f`, and `v` for every member of `S`.
Entered(f, S, v) == [x \in S \cup DOMAIN f |-> IF x \in S THEN v ELSE f[x]]

Account == [auth : {"basic", "google"}, secret : Passwords \cup {Nothing}]
\* `collections` gives each collection its account.
CalDavFile == [accounts : Partial(Names, Account), collections : Partial(Colls, Names)]
Empty == [accounts |-> <<>>, collections |-> <<>>]

\* What a name may hold besides a saved file.
Damaged == {Blank, Torn}
Idle == [at |-> "idle"]

VARIABLES
  installed,  \* caldav.yaml
  tmp,        \* the temporary file
  fd,         \* what each thread's open file is by now: tmp, installed or gone
  pending,    \* oauth_pending
  client,     \* the web's OAuth client
  tokens,     \* <config>/google/<account>-token.json
  job,        \* the request a thread serves
  requests,
  began, redeemed   \* history: what Google was asked by a flow, the flows taken

vars == <<installed, tmp, fd, pending, client, tokens, job, requests, began, redeemed>>
disk == <<installed, tmp, fd>>

Init ==
  /\ installed = Empty /\ tmp = Nothing
  /\ fd = [w \in Workers |-> "gone"]
  /\ pending = <<>> /\ client = Nothing
  /\ tokens = [n \in Names |-> Nothing]
  /\ job = [w \in Workers |-> Idle] /\ requests = 0
  /\ began = <<>> /\ redeemed = {}

\* An unreadable or half-written file ends the request: it does not parse.
Load(w, next) ==
  job' = [job EXCEPT ![w] = IF installed \in Damaged THEN Idle ELSE next]

Saving(file) == [at |-> "open", file |-> file]

-----------------------------------------------------------------------------
\* Requests, up to the file as the handler wants it.

\* A secret left empty keeps the one on file; the collections are taken over
\* from whatever account had them.
SaveAccount(w) ==
  \E n \in Names, typed \in Passwords \cup {Nothing}, cs \in SUBSET Colls :
    LET f == installed
        kept == IF typed = Nothing /\ n \in DOMAIN f.accounts
                THEN f.accounts[n].secret ELSE typed
    IN Load(w, Saving([accounts |-> Entered(f.accounts, {n}, [auth |-> "basic", secret |-> kept]),
                       collections |-> Entered(f.collections, cs, n)]))

\* A mistake: the collections of a deleted account stay.
DeleteAccountOnly(w) ==
  \E n \in Names :
    LET f == installed
    IN Load(w,
      IF n \notin DOMAIN f.accounts THEN Idle
      ELSE Saving([accounts |-> Restrict(f.accounts, DOMAIN f.accounts \ {n}),
                   collections |-> f.collections]))

DeleteAccount(w) ==
  \E n \in Names :
    LET f == installed
    IN Load(w,
      IF n \notin DOMAIN f.accounts THEN Idle
      ELSE Saving(
        [accounts |-> Restrict(f.accounts, DOMAIN f.accounts \ {n}),
         collections |-> Restrict(f.collections,
                           {c \in DOMAIN f.collections : f.collections[c] # n})]))

\* begin_auth: a state and a verifier that nobody had before.
BeginAuth(f, n) ==
  /\ f \notin DOMAIN began
  /\ began' = Entered(began, {f}, [name |-> n, client |-> client])

\* oauth_begin: the states that have run out are swept.
OAuthBegin(f, n) ==
  LET live == {g \in DOMAIN pending : ~pending[g].old}
  IN pending' = Entered(Restrict(pending, live), {f}, [account |-> n, old |-> FALSE])

Connect ==
  /\ client # Nothing
  /\ \E f \in Flows, n \in Names : BeginAuth(f, n) /\ OAuthBegin(f, n)
  /\ UNCHANGED <<job, client, redeemed>>

\* A mistake: the state is looked up, and stays.
TakePeeking(f) == UNCHANGED pending
\* oauth_take, run out or not.
Take(f) == pending' = Restrict(pending, DOMAIN pending \ {f})

\* The browser comes back, with a state of ours or of an earlier flow; it may
\* come back more than once.
Callback(w) ==
  \E f \in DOMAIN began :
    /\ f \in DOMAIN pending
    /\ Take(f)
    /\ IF pending[f].old \/ client = Nothing
       THEN UNCHANGED <<job, redeemed>>
       ELSE /\ redeemed' = redeemed \cup {f}
            /\ job' = [job EXCEPT ![w] = [at |-> "exchange", flow |-> f,
                                           name |-> pending[f].account, client |-> client]]
    /\ UNCHANGED <<client, began>>

SetClient ==
  /\ \E k \in OAuthClients \ {client} : client' = k
  /\ UNCHANGED <<job, pending, began, redeemed>>

Request(w) ==
  /\ requests < MaxRequests /\ requests' = requests + 1
  /\ job[w] = Idle
  /\ \/ SaveAccount(w) /\ UNCHANGED <<pending, client, began, redeemed>>
     \/ DeleteAccount(w) /\ UNCHANGED <<pending, client, began, redeemed>>
     \/ Connect
     \/ Callback(w)
     \/ SetClient
  /\ UNCHANGED <<disk, tokens>>

-----------------------------------------------------------------------------
\* The rest of the callback.

\* A mistake: the account is made before its token is there.
ExchangeLater(w) ==
  /\ job[w].at = "exchange"
  /\ job' = [job EXCEPT ![w].at = "list"]
  /\ UNCHANGED <<disk, tokens, pending, client, requests, began, redeemed>>

\* finish_auth: Google gives a token for a code to the client that asked for it.
Granted(w) == job[w].client = began[job[w].flow].client

\* The GoogleToken that is saved.
Issued(w) == [client |-> job[w].client, flow |-> job[w].flow]

Exchange(w) ==
  /\ job[w].at = "exchange"
  /\ \/ job' = [job EXCEPT ![w] = Idle] /\ UNCHANGED tokens
     \/ /\ Granted(w)
        /\ tokens' = [tokens EXCEPT ![job[w].name] = Issued(w)]
        /\ job' = [job EXCEPT ![w].at = "list"]
  /\ UNCHANGED <<disk, pending, client, requests, began, redeemed>>

\* access_token and list_calendars; then the account, which had better be a
\* Google one, and a collection for every calendar.
Provision(w) ==
  /\ job[w].at = "list"
  /\ LET n == job[w].name
         f == installed
     IN \/ job' = [job EXCEPT ![w] = Idle]
        \/ \E cs \in SUBSET Colls :
             Load(w, Saving([accounts |-> Entered(f.accounts, {n},
                                            [auth |-> "google", secret |-> Nothing]),
                             collections |-> Entered(f.collections, cs, n)]))
  /\ UNCHANGED <<disk, tokens, pending, client, requests, began, redeemed>>

-----------------------------------------------------------------------------
\* write_private: open (and empty) the temporary file, write it, rename it.

Open(w) ==
  /\ job[w].at = "open"
  /\ tmp' = Blank
  /\ fd' = [fd EXCEPT ![w] = "tmp"]
  /\ job' = [job EXCEPT ![w].at = "write"]
  /\ UNCHANGED <<installed, tokens, pending, client, requests, began, redeemed>>

\* Over a longer text, the end of that text remains.
Over(old, new) == IF old = Blank THEN {new} ELSE {new, Torn}

Write(w) ==
  /\ job[w].at = "write"
  /\ \/ fd[w] = "tmp" /\ tmp' \in Over(tmp, job[w].file) /\ UNCHANGED installed
     \/ fd[w] = "installed" /\ installed' \in Over(installed, job[w].file) /\ UNCHANGED tmp
     \/ fd[w] = "gone" /\ UNCHANGED <<installed, tmp>>
  /\ job' = [job EXCEPT ![w] = [at |-> "rename"]]
  /\ UNCHANGED <<fd, tokens, pending, client, requests, began, redeemed>>

\* Whoever is first renames for both; the other's rename finds nothing, which
\* its client is told.
Rename(w) ==
  /\ job[w].at = "rename"
  /\ job' = [job EXCEPT ![w] = Idle]
  /\ IF tmp = Nothing THEN UNCHANGED disk
     ELSE /\ installed' = tmp /\ tmp' = Nothing
          /\ fd' = [v \in Workers |->
                      IF fd[v] = "tmp" /\ v # w THEN "installed" ELSE "gone"]
  /\ UNCHANGED <<tokens, pending, client, requests, began, redeemed>>

-----------------------------------------------------------------------------
\* Ten minutes pass for a flow.
RunsOut ==
  /\ \E f \in DOMAIN pending : ~pending[f].old /\ pending' = [pending EXCEPT ![f].old = TRUE]
  /\ UNCHANGED <<disk, tokens, job, client, requests, began, redeemed>>

\* login_loopback: begin_auth and finish_auth around one request of the browser.
LoopbackToken == [client |-> Desktop, flow |-> Nothing]

\* `mgmt google login`: another process, which writes the token and nothing else.
Login ==
  /\ requests < MaxRequests /\ requests' = requests + 1
  /\ \E n \in Names : tokens' = [tokens EXCEPT ![n] = LoopbackToken]
  /\ UNCHANGED <<disk, pending, job, client, began, redeemed>>

\* The server stops, and starts again under another process id.
Restart ==
  /\ pending # <<>> \/ \E w \in Workers : job[w] # Idle
  /\ tmp' = Nothing /\ fd' = [w \in Workers |-> "gone"]
  /\ job' = [w \in Workers |-> Idle] /\ pending' = <<>>
  /\ UNCHANGED <<installed, client, tokens, requests, began, redeemed>>

Next ==
  \/ \E w \in Workers : \/ Request(w) \/ Exchange(w) \/ Provision(w)
                        \/ Open(w) \/ Write(w) \/ Rename(w)
  \/ RunsOut \/ Login \/ Restart

Spec == Init /\ [][Next]_vars

-----------------------------------------------------------------------------
\* Config::load: what sync runs with; config.yaml wins a name.  And
\* account_auth, which needs a token for a Google account.
SyncAccounts(f) ==
  Entered(f.accounts, HandAccounts, [auth |-> "basic", secret |-> Nothing])
SyncCollections(f) ==
  [c \in DOMAIN HandColls \cup DOMAIN f.collections |->
     IF c \in DOMAIN HandColls THEN HandColls[c] ELSE f.collections[c]]
HasToken(n) == tokens[n] # Nothing

\* The collections of config.yaml are of its own accounts; a token is there or not.
Configured ==
  /\ \A c \in DOMAIN HandColls : HandColls[c] \in HandAccounts
  /\ Nothing \notin [client : OAuthClients \cup {Desktop, Nothing}, flow : Flows \cup {Nothing}]

\* Every collection that sync would run names an account, and a Google account
\* that the web provisioned has a token, whatever was saved, deleted and
\* connected at once and wherever a handler failed (admin.rs:305, 427).
TargetsResolve ==
  installed \notin Damaged =>
    /\ \A c \in DOMAIN SyncCollections(installed) :
         SyncCollections(installed)[c] \in DOMAIN SyncAccounts(installed)
    /\ \A n \in DOMAIN installed.accounts :
         installed.accounts[n].auth = "google" => HasToken(n)

\* A consent is redeemed once, within its ten minutes, and for the account it was
\* asked for (state.rs:159).
RedeemedOnce ==
  [][\A w \in Workers :
       (job[w] = Idle /\ job'[w] # Idle /\ job'[w].at = "exchange") =>
         LET f == job'[w].flow
         IN f \notin redeemed /\ job'[w].name = began[f].name /\ ~pending[f].old]_vars

\* What the comment of write_private says, "atomically": a save leaves the old
\* file or the new one.  Two saves at once do not keep it (see the README).
WholeFile == installed \notin Damaged
=============================================================================
