----------------------------- MODULE Provisioning -----------------------------
(***************************************************************************)
(* What a signup promises: its account gets a profile, whatever becomes of *)
(* the event on the way.  No stream, no delivery and no handler is to be   *)
(* seen here: a profile is created in one indivisible step, and the signup *)
(* is done with only when nothing is left to create.  SignupFanout.tla is  *)
(* the detailed system.                                                    *)
(***************************************************************************)
CONSTANTS
  Accounts,  \* ids of accounts
  EmailOf,   \* the email of each
  None       \* no profile

VARIABLES
  cred,     \* the credential row of each account
  profile,  \* the profile of each account
  done      \* accounts whose signup will not be retried

vars == <<cred, profile, done>>

Init ==
  /\ cred = [a \in Accounts |-> "absent"]
  /\ profile = [a \in Accounts |-> None]
  /\ done = {}

Alike(a) == {b \in Accounts : EmailOf[b] = EmailOf[a]}

\* At most one account has an email at a time.
SignUp(a) ==
  /\ cred[a] = "absent"
  /\ \A b \in Alike(a) : cred[b] \in {"absent", "gone"}
  /\ cred' = [cred EXCEPT ![a] = "active"]
  /\ UNCHANGED <<profile, done>>

\* A profile is created for an account that exists, or existed, and where none has
\* its email: never over one that is there.  A signup that was not done when its
\* account was deleted, or a copy of it, can still create one.
Create(a) ==
  /\ cred[a] # "absent"
  /\ \A b \in Alike(a) : profile[b] = None
  /\ profile' = [profile EXCEPT ![a] = "signup"]
  /\ UNCHANGED <<cred, done>>

Edit(a) ==
  /\ profile[a] # None
  /\ profile' = [profile EXCEPT ![a] = "edited"]
  /\ UNCHANGED <<cred, done>>

\* A deletion takes the profile first, and again if it is repeated ...
Purge(a) ==
  /\ cred[a] # "absent"
  /\ cred' = [cred EXCEPT ![a] = IF @ = "active" THEN "leaving" ELSE @]
  /\ profile' = [profile EXCEPT ![a] = None]
  /\ UNCHANGED done

\* ... and then the credentials.
Leave(a) ==
  /\ cred[a] = "leaving"
  /\ cred' = [cred EXCEPT ![a] = "gone"]
  /\ UNCHANGED <<profile, done>>

\* The signup is over: for good, so the account has its profile, or needs none any
\* more, or its email was that of a deleted account, whose late profile passes for
\* its own.
Finish(a) ==
  /\ \/ profile[a] # None
     \/ cred[a] \in {"leaving", "gone"}
     \/ \E b \in Alike(a) \ {a} : cred[b] = "gone"
  /\ done' = done \cup {a}
  /\ UNCHANGED <<cred, profile>>

Next ==
  \E a \in Accounts :
    SignUp(a) \/ Create(a) \/ Edit(a) \/ Purge(a) \/ Leave(a) \/ Finish(a)

Spec == Init /\ [][Next]_vars
===============================================================================
