-------------------------------- MODULE Vault --------------------------------
(***************************************************************************)
(* What the data root promises, whatever is backed up and restored: it     *)
(* changes by the edits of single files that programs make, and by         *)
(* restores, each of which puts one of the trees that are kept, whole, in  *)
(* its place in one step.  A snapshot is read file by file while the vault *)
(* is in use (snapshot.rs), so a tree that is kept has, file by file,      *)
(* something that the vault once held, or the lack of it.                  *)
(***************************************************************************)
EXTENDS Naturals

CONSTANTS Files, Contents, None

VARIABLES
  vault,   \* the content of every file, or None
  edits,   \* edits made so far
  past,    \* what each file has held so far
  kept     \* trees that may be brought back

Held == Contents \cup {None}
Tree == [Files -> Held]

Init ==
  /\ vault \in Tree /\ edits = 0
  /\ past = [f \in Files |-> {vault[f], None}]
  /\ kept = {}

Edit(f) ==
  /\ edits' = edits + 1
  /\ \E c \in Held :
       /\ vault' = [vault EXCEPT ![f] = c]
       /\ past' = [past EXCEPT ![f] = @ \cup {c}]
  /\ UNCHANGED kept

\* Trees are kept, or no longer.
Keep ==
  /\ kept' \subseteq Tree
  /\ \A t \in kept' \ kept, f \in Files : t[f] \in past[f]
  /\ UNCHANGED <<vault, edits, past>>

Restore ==
  /\ vault' \in kept /\ kept' \subseteq kept
  /\ UNCHANGED <<edits, past>>

Next == Keep \/ Restore \/ \E f \in Files : Edit(f)

vars == <<vault, edits, past, kept>>
Spec == Init /\ [][Next]_vars
=============================================================================
