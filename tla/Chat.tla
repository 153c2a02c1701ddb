--------------------------------- MODULE Chat ---------------------------------
(***************************************************************************)
(* The chat's tool-calling loop (crates/mgmt-web/src/chat/mod.rs).  Every  *)
(* POST /api/chat runs a loop of its own over the caller's vault: ask the  *)
(* model, run the calls it answers with, give it the results, until it     *)
(* answers without a call.  A deletion first has to be approved: the       *)
(* request that proposes it ends with a `confirm`, and a later request     *)
(* repeats the conversation with the id of the call.                       *)
(*                                                                         *)
(* The vault's lock is held while one call runs and while one is           *)
(* described, never in between: other requests and other clients of the    *)
(* same vault act there.  The id of a call is a hash of its name and       *)
(* arguments, so it is modelled by the call.  The loop goes on when the    *)
(* client is gone, so nobody reading is not modelled.                      *)
(***************************************************************************)
EXTENDS ChatTools, Sequences

CONSTANTS
  Requests,
  Answers,     \* what the model may answer with: sequences of calls
  MaxRounds,   \* max_tool_rounds
  MaxEdits,    \* bound on what others do to the vault
  Tasks0, Series0   \* what the vault holds to begin with

ASSUME ChatAssumption ==
  /\ MaxRounds \in Nat /\ MaxEdits \in Nat
  /\ Answers \subseteq Seq(ToolCall)
  /\ Tasks0 \in [Tasks -> Option(Task)] /\ Series0 \in [Uids -> Option(EventSeries)]

VARIABLES
  vault,    \* tasks, series, the calendar of each series, projects
  request,  \* each loop: where it is, what it may delete, what it is to run
  asked,    \* the calls that a confirm has put to the user
  gone,     \* what others took out of the vault, and may bring back
  edits,    \* how often others have changed the vault
  stayed    \* history: for each request, what the vault has held, without a
            \* break, since the model last answered it

vars == <<vault, request, asked, gone, edits, stayed>>

\* "ask" the model, "run" the next call or "dispatch" one that could not be
\* described; or the loop is over.
Over == {"done", "error", "confirm"}
Pcs == {"idle", "ask", "run", "dispatch"} \cup Over

Held(v) == {t \in Tasks : v.tasks[t] # None} \cup {u \in Uids : v.series[u] # None}

Init ==
  /\ vault = [tasks |-> Tasks0, series |-> Series0,
              home |-> [u \in Uids |-> CHOOSE c \in Calendars : Writable(c)],
              projects |-> {}]
  /\ request = [r \in Requests |->
       [pc |-> "idle", approve |-> None, round |-> 0, calls |-> <<>>]]
  /\ asked = {}
  /\ gone = [i \in Tasks \cup Uids |-> None]
  /\ edits = 0
  /\ stayed = [r \in Requests |-> {}]

\* The vault is now `v`.
Becomes(v) ==
  /\ vault' = v
  /\ stayed' = [r \in Requests |-> stayed[r] \cap Held(v)]

-----------------------------------------------------------------------------
(* run_loop. *)

At(r, pc) == request[r].pc = pc

\* The client approves what it was asked about, or nothing.  No round at all
\* when max_tool_rounds is 0: the stream just ends.
Post(r) ==
  /\ At(r, "idle")
  /\ \E approve \in asked \cup {None} :
       request' = [request EXCEPT ![r] =
         [pc |-> IF MaxRounds = 0 THEN "done" ELSE "ask", approve |-> approve,
          round |-> 1, calls |-> <<>>]]
  /\ UNCHANGED <<vault, asked, gone, edits, stayed>>

\* The endpoint cannot be reached or read, times out, or says no.
UpstreamFails(r) ==
  /\ At(r, "ask")
  /\ request' = [request EXCEPT ![r].pc = "error", ![r].calls = <<>>]
  /\ UNCHANGED <<vault, asked, gone, edits, stayed>>

ModelAnswers(r) ==
  /\ At(r, "ask")
  /\ \E calls \in Answers :
       request' = [request EXCEPT ![r].pc = IF calls = <<>> THEN "done" ELSE "run",
                                  ![r].calls = calls]
  /\ stayed' = [stayed EXCEPT ![r] = Held(vault)]
  /\ UNCHANGED <<vault, asked, gone, edits>>

\* A mistake: an approval that covers every deletion of the conversation.
NeedsApprovalOnce(r, c) == c.tool \in Destructive /\ request[r].approve = None

NeedsApproval(r, c) == c.tool \in Destructive /\ request[r].approve # c

\* Under the read lock.  A call whose target is not there is not put to the
\* user but dispatched, "which reports that as an ordinary tool error".
Describe(r) ==
  LET c == Head(request[r].calls) IN
  /\ At(r, "run") /\ NeedsApproval(r, c)
  /\ IF Described(vault, c) # None
     THEN /\ asked' = asked \cup {c}
          /\ request' = [request EXCEPT ![r].pc = "confirm", ![r].calls = <<>>]
     ELSE /\ request' = [request EXCEPT ![r].pc = "dispatch"]
          /\ UNCHANGED asked
  /\ UNCHANGED <<vault, gone, edits, stayed>>

\* A mistake: a loop that never counts its rounds.
NextCallUncounted(q) ==
  [q EXCEPT !.calls = Tail(@), !.pc = IF Len(q.calls) > 1 THEN "run" ELSE "ask"]

\* A mistake: the last call of a round taken for one in the middle.
NextCallRunsOn(q) == [q EXCEPT !.calls = Tail(@), !.pc = "run"]

\* Where the loop goes after a call, the last of its round or not.
NextCall(q) ==
  LET rest == [q EXCEPT !.calls = Tail(@)]
  IN IF rest.calls # <<>> THEN [rest EXCEPT !.pc = "run"]
     ELSE IF q.round = MaxRounds THEN [rest EXCEPT !.pc = "error"]
     ELSE [rest EXCEPT !.pc = "ask", !.round = @ + 1]

\* Under the write lock.
RunCall(r) ==
  LET c == Head(request[r].calls) IN
  /\ At(r, "dispatch") \/ (At(r, "run") /\ ~NeedsApproval(r, c))
  /\ \E outcome \in Outcomes(vault, c) : Becomes(outcome.vault)
  /\ request' = [request EXCEPT ![r] = NextCall(@)]
  /\ UNCHANGED <<asked, gone, edits>>

-----------------------------------------------------------------------------
(* Others: another client, a sync, undo or the trash. *)

Others(v) ==
  /\ edits < MaxEdits /\ edits' = edits + 1
  /\ Becomes(v)
  /\ UNCHANGED <<request, asked>>

RemoveTask(t) ==
  /\ vault.tasks[t] # None
  /\ Others([vault EXCEPT !.tasks[t] = None])
  /\ gone' = [gone EXCEPT ![t] = vault.tasks[t]]

RemoveSeries(u) ==
  /\ vault.series[u] # None
  /\ Others([vault EXCEPT !.series[u] = None])
  /\ gone' = [gone EXCEPT ![u] = vault.series[u]]

BringTaskBack(t) ==
  /\ vault.tasks[t] = None /\ gone[t] # None
  /\ Others([vault EXCEPT !.tasks[t] = gone[t]])
  /\ UNCHANGED gone

BringSeriesBack(u) ==
  /\ vault.series[u] = None /\ gone[u] # None
  /\ Others([vault EXCEPT !.series[u] = gone[u]])
  /\ UNCHANGED gone

Steps(r) == UpstreamFails(r) \/ ModelAnswers(r) \/ Describe(r) \/ RunCall(r)

Next ==
  \/ \E r \in Requests : Post(r) \/ Steps(r)
  \/ \E t \in Tasks : RemoveTask(t) \/ BringTaskBack(t)
  \/ \E u \in Uids : RemoveSeries(u) \/ BringSeriesBack(u)

\* The loop is a task of the runtime, and every call of the model times out.
Spec == Init /\ [][Next]_vars /\ \A r \in Requests : WF_vars(Steps(r))

-----------------------------------------------------------------------------
Turn == [pc : Pcs, approve : Option(ToolCall), round : Nat, calls : Seq(ToolCall)]

TypeOK ==
  /\ vault \in Vault
  /\ request \in [Requests -> Turn]
  /\ \A r \in Requests :
       LET q == request[r] IN
       /\ q.round <= MaxRounds \/ MaxRounds = 0
       /\ q.pc \in {"run", "dispatch"} <=> q.calls # <<>>
       /\ q.pc = "dispatch" => Head(q.calls).tool \in Destructive
       /\ q.approve \in asked \cup {None}
  /\ \A c \in asked : c \in ToolCall /\ c.tool \in Destructive
  /\ DOMAIN gone = Tasks \cup Uids
  /\ \A t \in Tasks : gone[t] \in Option(Task)
  /\ \A u \in Uids : gone[u] \in Option(EventSeries)
  /\ edits \in 0..MaxEdits
  /\ stayed \in [Requests -> SUBSET (Tasks \cup Uids)]

\* The loop ran the first of its calls.
Ran(r) == At(r, "run") \/ At(r, "dispatch")
Removed(i) == i \in Held(vault) /\ i \notin Held(vault')
ByLoop(r) == Ran(r) /\ request'[r] # request[r]
Running(r) == Head(request[r].calls)

\* What was in the vault all the while since the model answered is deleted
\* by the chat only in a request that approves this very call
\* (chat/mod.rs:6-9), whatever other requests and other clients do meanwhile.
Unapproved ==
  [][ \A r \in Requests : ByLoop(r) =>
        \A i \in stayed[r] : Removed(i) => request[r].approve = Running(r) ]_vars

KeepsApproval == []TypeOK /\ Unapproved

\* "the loop only executes that call once a later request repeats the
\* conversation with `approve` set to that id" (chat/mod.rs:8-9).
OnlyApproved ==
  [][ \A r \in Requests : ByLoop(r) =>
        \A i \in Held(vault) : Removed(i) => request[r].approve = Running(r) ]_vars

\* Every request's loop comes to an end: no calls left, an approval to ask
\* for, or an error, the last round's included.
Ends == \A r \in Requests : At(r, "ask") ~> request[r].pc \in Over

Times(s) == IF s = None THEN {} ELSE {[at |-> o.at, start |-> o.start] : o \in Shown(s, 0, 40)}

\* "Change fields of an existing event, or (with 'at') one occurrence of a
\* recurring series" (tools.rs:79): a call that gives no time moves nothing.
KeepsTimes ==
  [][ \A r \in Requests :
        ByLoop(r) /\ Running(r).tool = "update_event" /\ Running(r).start = None
        /\ Running(r).end = None /\ Running(r).scope = "this" =>
          Times(vault.series[Running(r).uid]) = Times(vault'.series[Running(r).uid]) ]_vars
=============================================================================
