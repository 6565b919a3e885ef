----------------------------- MODULE MCCredentials -----------------------------
(* Small instances of Credentials for TLC. *)
EXTENDS Credentials, TLC

Symmetry ==
  Permutations(Users) \cup Permutations(Handlers)
    \cup Permutations(Passwords) \cup Permutations(Tokens)
===============================================================================
