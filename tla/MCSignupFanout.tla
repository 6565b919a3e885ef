---------------------------- MODULE MCSignupFanout ----------------------------
(* Small instances of SignupFanout for TLC: every account signs up with the
   email that the administrator is configured with. *)
EXTENDS SignupFanout

CONSTANT email

OneEmail == [a \in Accounts |-> email]
===============================================================================
