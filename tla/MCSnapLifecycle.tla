---------------------------- MODULE MCSnapLifecycle ----------------------------
(* Small instances of SnapLifecycle for TLC. *)
EXTENDS SnapLifecycle, TLC

CONSTANTS u1, u2, k1, k2

\* u1 owns both images, or the only one.
TwoKeys == k1 :> u1 @@ k2 :> u1
OneKey == k1 :> u1

\* KeyOwner gives every key the same owner, so keys may be permuted.
Symmetry == Permutations(Snaps) \cup Permutations(Handlers) \cup Permutations(Keys)
===============================================================================
