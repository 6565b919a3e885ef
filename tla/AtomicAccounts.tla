---------------------------- MODULE AtomicAccounts ----------------------------
(***************************************************************************)
(* What the authentication service promises about one credential row,      *)
(* stated without the service's concurrency: every request that is not     *)
(* refused changes the row it names in one indivisible step, computed from *)
(* the row's current contents.  Credentials.tla is the detailed service.   *)
(***************************************************************************)
EXTENDS Integers

CONSTANTS
  Users,            \* ids of credential rows
  Passwords,        \* passwords, standing for their bcrypt hashes
  MaxFailedLogins,  \* MAX_FAILED_LOGIN_ATTEMPTS
  LockoutDuration,  \* LOGIN_LOCKOUT_DURATION_MS, in ticks
  NoRow             \* the credential row does not exist

VARIABLES
  row,  \* the credential row of each user
  now   \* the clock

vars == <<row, now>>

Row == [password : Passwords, isActive : BOOLEAN,
        failedLoginCount : Nat, lockedUntil : Nat]

Init ==
  /\ row \in [Users -> Row]
  /\ \A u \in Users : /\ row[u].isActive
                      /\ row[u].failedLoginCount = 0
                      /\ row[u].lockedUntil = 0
  /\ now = 0

\* Replace the row of u by r, leaving every other row and the clock alone.
Put(u, r) == row' = [row EXCEPT ![u] = r] /\ UNCHANGED now

\* A wrong password on an unlocked account counts once, and the failure that
\* makes the count reach the limit locks the account for LockoutDuration from
\* a moment t at which the account was unlocked.
FailedLogin(u) ==
  \E t \in row[u].lockedUntil .. now :
    LET n == row[u].failedLoginCount + 1
    IN Put(u, [row[u] EXCEPT
                !.failedLoginCount = n,
                !.lockedUntil = IF n >= MaxFailedLogins
                                THEN t + LockoutDuration ELSE @])

\* A right password on an unlocked, active account clears the record.
Login(u) ==
  /\ row[u].isActive
  /\ row[u].lockedUntil <= now
  /\ Put(u, [row[u] EXCEPT !.failedLoginCount = 0, !.lockedUntil = 0])

\* A change or a reset of the password also clears the record.
SetPassword(u) ==
  \E q \in Passwords :
    Put(u, [row[u] EXCEPT !.password = q, !.failedLoginCount = 0,
                          !.lockedUntil = 0])

Deactivate(u) == row[u].isActive /\ Put(u, [row[u] EXCEPT !.isActive = FALSE])

Delete(u) == Put(u, NoRow)

Tick == now' = now + 1 /\ UNCHANGED row

Next ==
  \/ \E u \in Users :
       /\ row[u] # NoRow
       /\ FailedLogin(u) \/ Login(u) \/ SetPassword(u) \/ Deactivate(u)
            \/ Delete(u)
  \/ Tick

Spec == Init /\ [][Next]_vars
===============================================================================
