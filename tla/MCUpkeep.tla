------------------------------ MODULE MCUpkeep ------------------------------
(***************************************************************************)
(* Upkeep for TLC: a source replaces its event, and the vault has an event *)
(* and a task.  A behaviour is one of Feeds or one of Migrations.          *)
(***************************************************************************)
EXTENDS Upkeep, TLC

VARIABLE focus

MCDocuments == <<{1}, {2}>>

\* The mirror of a subscription may come to the calendars.
MCOrder == <<"event", "mirror", "task", "new">>
MCDir == [x \in {"event", "mirror", "task", "new"} |->
            IF x \in {"event", "mirror"} THEN "calendars" ELSE "tasks"]

BothInit == Init /\ Layout!Init /\ focus \in {"feeds", "layout"}

BothNext ==
  /\ UNCHANGED focus
  /\ \/ focus = "feeds" /\ Next /\ UNCHANGED layoutVars
     \/ focus = "layout" /\ Layout!Next /\ UNCHANGED vars

BothSpec == BothInit /\ [][BothNext]_<<focus, vars, layoutVars>>

MCSymmetry == Permutations(Clients) \cup Permutations(Cals) \cup Permutations(Commands)
=============================================================================
