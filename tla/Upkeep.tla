------------------------------- MODULE Upkeep -------------------------------
(***************************************************************************)
(* Two parts that work on the data root without a lock: Feeds, and beside  *)
(* it Migrations, of the vault's layout.  They share no state.             *)
(***************************************************************************)
EXTENDS Feeds

CONSTANTS
  Order, Dir, Given, ReadOnly,   \* what the vault holds, see Migrations
  Names, Commands, MaxStarts

VARIABLES made, held, registry, projects, marker, work, starts, crashes, cut, excused

Layout == INSTANCE Migrations WITH job <- work, faults <- crashes

layoutVars == <<made, held, registry, projects, marker, work, starts, crashes, cut, excused>>

ASSUME LayoutAssumption ==
  /\ Given \subseteq Layout!Items
  /\ \A x \in Given : Dir[x] \in {"tasks", "calendars"}
  /\ None \notin Nat /\ "server" \notin Commands

ServesAll == Layout!ServesAll
ShiftedOnce == Layout!ShiftedOnce
=============================================================================
