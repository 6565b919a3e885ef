-------------------------------- MODULE Erasure --------------------------------
(***************************************************************************)
(* What the deletion of an account promises: first the account is          *)
(* disabled, then what its user had by then goes, in any order and as      *)
(* often as something fails, then the row of the account; and only then is *)
(* a deletion confirmed.  What it does not promise is that the account     *)
(* stays as it is meanwhile: whoever has read its row may save it back.    *)
(* AccountDeletion.tla is the detailed system.                             *)
(***************************************************************************)
CONSTANTS
  Data,        \* what can be kept of the user besides the account
  Credential,  \* the row of the account
  Askers,      \* requests to delete the account
  Runs,        \* deletions that can be under way, or left behind, at once
  Keepers,     \* requests that can hold a copy of the row
  None         \* no run, no copy

VARIABLES
  account,  \* "active", "disabled" or "gone"
  closed,   \* has it ever been disabled?
  left,     \* what there is of the data
  copies,   \* what the copy of each keeper says of the account
  owed,     \* what each run found and nobody has deleted since
  told      \* the requests whose last answer is that the account is deleted

vars == <<account, closed, left, copies, owed, told>>

Init ==
  /\ account = "active"
  /\ closed = FALSE
  /\ left \in SUBSET Data
  /\ copies = [k \in Keepers |-> None]
  /\ owed = [r \in Runs |-> None]
  /\ told = {}

Write ==
  /\ left' \in SUBSET Data /\ left \subseteq left'
  /\ UNCHANGED <<account, closed, copies, owed, told>>

\* A keeper reads the row, to save it as it is or disabled.
Read(k) ==
  /\ account # "gone"
  /\ \E status \in {account, "disabled"} : copies' = [copies EXCEPT ![k] = status]
  /\ UNCHANGED <<account, closed, left, owed, told>>

\* It saves its copy, or was late.
Save(k) ==
  /\ copies[k] # None
  /\ account' \in {account, copies[k]}
  /\ closed' = (closed \/ account' # "active")
  /\ copies' = [copies EXCEPT ![k] = None]
  /\ UNCHANGED <<left, owed, told>>

Drop(k) ==
  /\ copies' = [copies EXCEPT ![k] = None]
  /\ UNCHANGED <<account, closed, left, owed, told>>

\* Nothing goes before the account has been disabled.
Ask(r) ==
  /\ closed
  /\ owed[r] = None
  /\ owed' = [owed EXCEPT ![r] = left \cup {x \in {Credential} : account # "gone"}]
  /\ UNCHANGED <<account, closed, left, copies, told>>

Deleted(D) ==
  owed' = [r \in Runs |-> IF owed[r] = None THEN None ELSE owed[r] \ D]

Erase ==
  /\ closed
  /\ \E D \in SUBSET Data : left' = left \ D /\ Deleted(D)
  /\ UNCHANGED <<account, closed, copies, told>>

\* The row, without which a failed deletion could not be tried again, goes when
\* nothing else is left of what the run found.
Remove(r) ==
  /\ owed[r] # None /\ owed[r] \subseteq {Credential}
  /\ account' = "gone"
  /\ Deleted({Credential})
  /\ UNCHANGED <<closed, left, copies, told>>

Confirm(r, a) ==
  /\ owed[r] = {}
  /\ owed' = [owed EXCEPT ![r] = None]
  /\ told' = told \cup {a}
  /\ UNCHANGED <<account, closed, left, copies>>

GiveUp(r) ==
  /\ owed' = [owed EXCEPT ![r] = None]
  /\ UNCHANGED <<account, closed, left, copies, told>>

AskAgain(a) ==
  /\ told' = told \ {a}
  /\ UNCHANGED <<account, closed, left, copies, owed>>

Next ==
  \/ Write \/ Erase
  \/ \E k \in Keepers : Read(k) \/ Save(k) \/ Drop(k)
  \/ \E r \in Runs :
       Ask(r) \/ Remove(r) \/ GiveUp(r) \/ \E a \in Askers : Confirm(r, a)
  \/ \E a \in Askers : AskAgain(a)

Spec == Init /\ [][Next]_vars
===============================================================================
