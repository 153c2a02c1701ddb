--------------------------- MODULE MCVaultContext ---------------------------
(* The uids of series are interchangeable. *)
EXTENDS VaultContext, TLC

MCSymmetry == Permutations(Series)
=============================================================================
