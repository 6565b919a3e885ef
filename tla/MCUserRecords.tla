----------------------------- MODULE MCUserRecords -----------------------------
(* Small instances of UserRecords for TLC. *)
EXTENDS UserRecords, TLC

CONSTANTS u1, k1, k2

OneOwner == k1 :> u1 @@ k2 :> u1

\* One mix changes the user and the images, the other the rows beside them.
Mixes == {{"profile", "photo", "purge"},
          {"profile", "purge", "settings", "update", "bookmark", "seen", "report"}}

Symmetry ==
  Permutations(Handlers) \cup Permutations(Keys)
    \cup Permutations(Names)
    \cup Permutations(Reasons)
===============================================================================
