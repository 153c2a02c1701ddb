------------------------------ MODULE MCDaemon ------------------------------
(***************************************************************************)
(* mgmt daemon for TLC: Reminders, with alarms before and after an event's *)
(* start, and beside it the passes of NativeSync that the daemon runs,     *)
(* without faults.  A behaviour is one of the loop, of a page or of the    *)
(* passes.                                                                 *)
(***************************************************************************)
EXTENDS Reminders

CONSTANT hub

VARIABLES part, regime, local, earlier, server, saved, pass, edits, losses, held, published

MCAlarms == {-1, 1}

\* A reminder before the item, one long before it, and an alarm after its end.
MCEntries ==
  {[at |-> 1, from |-> 2, to |-> 4], [at |-> 3, from |-> 9, to |-> 10],
   [at |-> 3, from |-> -9, to |-> -8]}

\* Two items of bodies that are stamped 1 and 2, and four edits between passes.
Sync == INSTANCE NativeSync WITH
  Items <- {1, 2}, Bodies <- {11, 21}, Stamp <- [b \in {11, 21} |-> b \div 10], Unparseable <- {},
  None <- Unset, Pairings <- {hub}, Workers <- {"daemon"},
  Regimes <- {[calendar |-> FALSE, workers |-> {"daemon"}, pairings |-> {hub}, edits |-> 4,
               faults |-> 0, midPass |-> FALSE, crashes |-> FALSE, restores |-> FALSE]},
  faults <- losses

syncVars ==
  <<regime, local, earlier, server, saved, pass, edits, losses, held, published>>

\* The other parts start in any one way.
BothInit ==
  /\ Loop!Init /\ Sync!Init /\ Page!Init /\ part \in {"loop", "sync", "page"}
  /\ part # "loop" => due = Unset /\ occurs = {}
  /\ part # "page" => agenda = [i \in Calls |-> Unset]

InLoop(A) == part = "loop" /\ A /\ UNCHANGED <<part, syncVars, pageVars>>
InSync(A) == part = "sync" /\ A /\ UNCHANGED <<part, loopVars, pageVars>>

both == <<part, loopVars, syncVars, pageVars>>

BothNext ==
  \/ InLoop(Loop!Next)
  \/ InSync(Sync!Next)
  \/ part = "page" /\ Page!Next /\ UNCHANGED <<part, loopVars, syncVars>>
  \/ part = "page" /\ minute = Minutes /\ UNCHANGED both  \* the observed time is over

BothSpec ==
  /\ BothInit /\ [][BothNext]_both
  /\ WF_both(InLoop(Loop!Daemon)) /\ WF_both(InLoop(Loop!Tick))
  /\ WF_both(InSync(Sync!PassStep("daemon") /\ UNCHANGED regime))

PhaseEnds == Loop!PhaseEnds
Converges == Sync!Converges
=============================================================================
