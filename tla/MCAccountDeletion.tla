--------------------------- MODULE MCAccountDeletion ---------------------------
(* Small instances of AccountDeletion for TLC. *)
EXTENDS AccountDeletion, TLC

Symmetry == Permutations(Attempts) \cup Permutations(Calls) \cup Permutations(Snaps)
===============================================================================
