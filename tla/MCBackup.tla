------------------------------ MODULE MCBackup ------------------------------
(* An instance of Backup for TLC. *)
EXTENDS Backup, TLC

MCSymmetry == Permutations(Procs) \cup Permutations(Files)

\* The vault begins with one of its files.
MCInit == Init /\ \E f \in Files : \A g \in Files : root[g] # None <=> g = f
MCSpec == MCInit /\ [][Next]_vars
=============================================================================
