------------------------------ MODULE Credentials ------------------------------
(***************************************************************************)
(* The authentication service: the rows of credentials and                 *)
(* password_reset_tokens, and the request handlers that read and write     *)
(* them.  A handler is an async function; it is split at every await that  *)
(* touches the database, and the steps of concurrent handlers interleave.  *)
(*                                                                         *)
(* TypeORM's save(entity), external to the repository, is two steps: a     *)
(* SELECT by id, then an INSERT if the row was absent, else an UPDATE of   *)
(* the columns where the entity differs from the row that SELECT returned. *)
(* The local work between two queries (bcrypt, the draft of the new row)   *)
(* is part of the step that issues the later query.                        *)
(***************************************************************************)
EXTENDS Integers

CONSTANTS
  Users,            \* ids of credential rows
  Handlers,         \* requests the service can be working on at once
  Passwords,        \* passwords, standing for their bcrypt hashes
  Tokens,           \* reset tokens that can be generated (a bound)
  MaxFailedLogins,  \* MAX_FAILED_LOGIN_ATTEMPTS
  LockoutDuration,  \* LOGIN_LOCKOUT_DURATION_MS, in ticks
  ResetTtl,         \* PASSWORD_RESET_TTL_MS, in ticks
  MaxTime,          \* bound on the clock
  MaxCount,         \* bound on failedLoginCount
  Overlap,          \* may two requests for one account be in flight at once?
  NoRow,            \* the credential row does not exist
  None              \* an absent field

ASSUME LimitsAssumption ==
  /\ MaxFailedLogins \in Nat \ {0}
  /\ LockoutDuration \in Nat \ {0}
  /\ ResetTtl \in Nat \ {0}
  /\ MaxTime \in Nat
  /\ MaxCount \in Nat
  /\ Overlap \in BOOLEAN

VARIABLES
  row,     \* credentials: the row of each user
  tokens,  \* password_reset_tokens: the row of each token
  pc,      \* where each handler waits
  job,     \* the request each handler serves
  mine,    \* the entity the handler holds: as read, then as handed to save
  base,    \* the row save's SELECT returned
  now      \* the clock

vars == <<row, tokens, pc, job, mine, base, now>>

Row == [password : Passwords, isActive : BOOLEAN,
        failedLoginCount : Nat, lockedUntil : Nat]

ASSUME NoRowAssumption == NoRow \notin Row

\* "fresh" is not generated yet, "pending" is generated and not inserted yet,
\* "live" and "used" are rows with usedAt null and set, "gone" is deleted.
TokenRow == [status : {"fresh", "pending", "live", "used", "gone"},
             userId : Users \cup {None}, expiresAt : Nat]

Ops == {"login", "change", "reset", "forgot", "deactivate", "delete"}

Job == [op : Ops, user : Users, given : Passwords \cup {None},
        chosen : Passwords \cup {None}, token : Tokens \cup {None}]

Stages == {"idle", "found", "writing", "redeemed", "findUser", "purging",
           "issuing", "deletingRow"}

Init ==
  /\ row \in [Users -> [password : Passwords, isActive : {TRUE},
                        failedLoginCount : {0}, lockedUntil : {0}]]
  /\ tokens = [t \in Tokens |->
                 [status |-> "fresh", userId |-> None, expiresAt |-> 0]]
  /\ pc = [h \in Handlers |-> "idle"]
  /\ job = [h \in Handlers |-> None]
  /\ mine = [h \in Handlers |-> NoRow]
  /\ base = [h \in Handlers |-> NoRow]
  /\ now = 0

-------------------------------------------------------------------------------
\* login-lockout.ts and the entities the handlers hand to save.

IsAccountLocked(r) == r.lockedUntil > now

\* Mutant: the limit is taken to be the last failure that does not lock.
LocksOneTooLate(r) ==
  LET n == r.failedLoginCount + 1
  IN [r EXCEPT !.failedLoginCount = n,
               !.lockedUntil = IF n > MaxFailedLogins
                               THEN now + LockoutDuration ELSE @]

WithRecordedFailure(r) ==
  LET n == r.failedLoginCount + 1
  IN [r EXCEPT !.failedLoginCount = n,
               !.lockedUntil = IF n >= MaxFailedLogins
                               THEN now + LockoutDuration ELSE @]

\* Mutant: a login clears the count and forgets the date.
ClearsCountOnly(r) == [r EXCEPT !.failedLoginCount = 0]

WithCleanRecord(r) == [r EXCEPT !.failedLoginCount = 0, !.lockedUntil = 0]

\* Mutant: a new password also re-enables the account.
WithPasswordAndActive(r, q) ==
  [WithCleanRecord(r) EXCEPT !.password = q, !.isActive = TRUE]

WithPassword(r, q) == [WithCleanRecord(r) EXCEPT !.password = q]

-------------------------------------------------------------------------------
\* The handlers' bookkeeping.

Request(op, u, p, q, t) ==
  [op |-> op, user |-> u, given |-> p, chosen |-> q, token |-> t]

\* May a request for u begin?  Always, unless the run serialises accounts.
Free(u) ==
  ~Overlap => \A h \in Handlers : pc[h] # "idle" => job[h].user # u

Begin(h, stage, j) ==
  /\ pc[h] = "idle"
  /\ Free(j.user)
  /\ pc' = [pc EXCEPT ![h] = stage]
  /\ job' = [job EXCEPT ![h] = j]

Goto(h, stage) == pc' = [pc EXCEPT ![h] = stage]

\* The handler has replied: it returned or threw.
End(h) ==
  /\ pc' = [pc EXCEPT ![h] = "idle"]
  /\ job' = [job EXCEPT ![h] = None]
  /\ mine' = [mine EXCEPT ![h] = NoRow]
  /\ base' = [base EXCEPT ![h] = NoRow]

Hold(h, r) == mine' = [mine EXCEPT ![h] = r]

-------------------------------------------------------------------------------
\* TypeORM's save(entity).

\* The SELECT, together with the local step that computed the entity d.
SaveLoad(h, d) ==
  /\ Goto(h, "writing")
  /\ Hold(h, d)
  /\ base' = [base EXCEPT ![h] = row[job[h].user]]
  /\ UNCHANGED <<row, tokens, job, now>>

Column(new, old, current) == IF new # old THEN new ELSE current

\* An UPDATE writes the columns of d that differ from b, and no row at all if
\* the row is gone.  A new hash differs from any other, whatever the password.
Updated(current, d, b, rehashed) ==
  IF current = NoRow THEN NoRow
  ELSE [password |-> IF rehashed THEN d.password
                     ELSE Column(d.password, b.password, current.password),
        isActive |-> Column(d.isActive, b.isActive, current.isActive),
        failedLoginCount |-> Column(d.failedLoginCount, b.failedLoginCount,
                                    current.failedLoginCount),
        lockedUntil |-> Column(d.lockedUntil, b.lockedUntil,
                               current.lockedUntil)]

\* An INSERT fails on the primary key if the row exists again.
Inserted(current, d) == IF current = NoRow THEN d ELSE current

SaveWrite(h) ==
  /\ pc[h] = "writing"
  /\ row' = [row EXCEPT ![job[h].user] =
               IF base[h] = NoRow THEN Inserted(@, mine[h])
               ELSE Updated(@, mine[h], base[h], job[h].op \in {"change", "reset"})]
  /\ End(h)
  /\ UNCHANGED <<tokens, now>>

-------------------------------------------------------------------------------
\* login

\* findOneBy({ email }); an unknown or a locked account is refused at once.
Login(h, u, p) ==
  /\ row[u] # NoRow
  /\ ~IsAccountLocked(row[u])
  /\ Begin(h, "found", Request("login", u, p, None, None))
  /\ Hold(h, row[u])
  /\ UNCHANGED <<row, tokens, base, now>>

LoginVerify(h) ==
  /\ pc[h] = "found"
  /\ job[h].op = "login"
  /\ \/ /\ job[h].given # mine[h].password
        /\ mine[h].failedLoginCount < MaxCount
        /\ SaveLoad(h, WithRecordedFailure(mine[h]))
     \/ /\ job[h].given = mine[h].password
        /\ mine[h].isActive
        /\ SaveLoad(h, WithCleanRecord(mine[h]))
     \/ /\ job[h].given = mine[h].password
        /\ ~mine[h].isActive
        /\ End(h) /\ UNCHANGED <<row, tokens, now>>

-------------------------------------------------------------------------------
\* changePassword

ChangePassword(h, u, p, q) ==
  /\ row[u] # NoRow
  /\ Begin(h, "found", Request("change", u, p, q, None))
  /\ Hold(h, row[u])
  /\ UNCHANGED <<row, tokens, base, now>>

ChangeVerify(h) ==
  /\ pc[h] = "found"
  /\ job[h].op = "change"
  /\ IF job[h].given = mine[h].password /\ mine[h].isActive
     THEN SaveLoad(h, WithPassword(mine[h], job[h].chosen))
     ELSE End(h) /\ UNCHANGED <<row, tokens, now>>

-------------------------------------------------------------------------------
\* forgotPassword and resetPassword

\* The rows of u's tokens, deleted.
Purged(u) ==
  [t \in Tokens |->
     IF tokens[t].userId = u /\ tokens[t].status \in {"live", "used"}
     THEN [tokens[t] EXCEPT !.status = "gone"] ELSE tokens[t]]

\* Mutant: the check that the user exists is missing.
ForgotUnknown(h, u) ==
  /\ Begin(h, "purging", Request("forgot", u, None, None, None))
  /\ UNCHANGED <<row, tokens, mine, base, now>>

ForgotPassword(h, u) ==
  /\ row[u] # NoRow
  /\ Begin(h, "purging", Request("forgot", u, None, None, None))
  /\ UNCHANGED <<row, tokens, mine, base, now>>

\* Generate a token with its expiry, then delete the user's older rows.
ForgotPurge(h) ==
  /\ pc[h] = "purging"
  /\ \E t \in Tokens :
       /\ tokens[t].status = "fresh"
       /\ tokens' = [Purged(job[h].user) EXCEPT ![t] =
                       [status |-> "pending", userId |-> job[h].user,
                        expiresAt |-> now + ResetTtl]]
       /\ job' = [job EXCEPT ![h].token = t]
  /\ Goto(h, "issuing")
  /\ UNCHANGED <<row, mine, base, now>>

\* Insert the token's row; the mail that carries it changes no row.
ForgotIssue(h) ==
  /\ pc[h] = "issuing"
  /\ tokens' = [tokens EXCEPT ![job[h].token].status = "live"]
  /\ End(h)
  /\ UNCHANGED <<row, now>>

\* Mutant: the consuming UPDATE lacks usedAt IS NULL.
ResetUsedToken(h, t, q) ==
  /\ tokens[t].status \in {"live", "used"}
  /\ tokens[t].expiresAt > now
  /\ Begin(h, "redeemed", Request("reset", tokens[t].userId, None, q, t))
  /\ tokens' = [tokens EXCEPT ![t].status = "used"]
  /\ UNCHANGED <<row, mine, base, now>>

\* One UPDATE ... WHERE tokenHash AND usedAt IS NULL AND expiresAt > now.
\* No row affected: the request is refused.  The user is the token row's.
ResetPassword(h, t, q) ==
  /\ tokens[t].status = "live"
  /\ tokens[t].expiresAt > now
  /\ Begin(h, "redeemed", Request("reset", tokens[t].userId, None, q, t))
  /\ tokens' = [tokens EXCEPT ![t].status = "used"]
  /\ UNCHANGED <<row, mine, base, now>>

\* findOneBy({ tokenHash }), which a concurrent purge can have deleted.
ResetFindToken(h) ==
  /\ pc[h] = "redeemed"
  /\ IF tokens[job[h].token].status = "gone"
     THEN End(h)
     ELSE Goto(h, "findUser") /\ UNCHANGED <<job, mine, base>>
  /\ UNCHANGED <<row, tokens, now>>

\* Mutant: the check that the token's user still exists is missing.
ResetAnyUser(h) ==
  /\ pc[h] = "findUser"
  /\ Goto(h, "found")
  /\ Hold(h, row[job[h].user])
  /\ UNCHANGED <<row, tokens, job, base, now>>

ResetFindUser(h) ==
  /\ pc[h] = "findUser"
  /\ IF row[job[h].user] = NoRow
     THEN End(h)
     ELSE /\ Goto(h, "found")
          /\ Hold(h, row[job[h].user])
          /\ UNCHANGED <<job, base>>
  /\ UNCHANGED <<row, tokens, now>>

ResetSave(h) ==
  /\ pc[h] = "found"
  /\ job[h].op = "reset"
  /\ SaveLoad(h, WithPassword(mine[h], job[h].chosen))

-------------------------------------------------------------------------------
\* deactivateUser and deleteCredentials

\* A missing user is reported as a success and changes nothing.
DeactivateUser(h, u, p) ==
  /\ row[u] # NoRow
  /\ Begin(h, "found", Request("deactivate", u, p, None, None))
  /\ Hold(h, row[u])
  /\ UNCHANGED <<row, tokens, base, now>>

DeactivateVerify(h) ==
  /\ pc[h] = "found"
  /\ job[h].op = "deactivate"
  /\ IF job[h].given = mine[h].password /\ mine[h].isActive
     THEN SaveLoad(h, [mine[h] EXCEPT !.isActive = FALSE])
     ELSE End(h) /\ UNCHANGED <<row, tokens, now>>

\* Mutant: the user's reset tokens are left in place.
DeleteCredentialsOnly(h, u) ==
  /\ Begin(h, "deletingRow", Request("delete", u, None, None, None))
  /\ UNCHANGED <<row, tokens, mine, base, now>>

\* Delete the tokens, then the credential row.
DeleteCredentials(h, u) ==
  /\ Begin(h, "deletingRow", Request("delete", u, None, None, None))
  /\ tokens' = Purged(u)
  /\ UNCHANGED <<row, mine, base, now>>

DeleteRow(h) ==
  /\ pc[h] = "deletingRow"
  /\ row' = [row EXCEPT ![job[h].user] = NoRow]
  /\ End(h)
  /\ UNCHANGED <<tokens, now>>

-------------------------------------------------------------------------------
\* A query rejects, or the process restarts: the handler ends where it is.
Abort(h) ==
  /\ pc[h] # "idle"
  /\ End(h)
  /\ UNCHANGED <<row, tokens, now>>

Tick ==
  /\ now < MaxTime
  /\ now' = now + 1
  /\ UNCHANGED <<row, tokens, pc, job, mine, base>>

Arrive(h) ==
  \/ \E u \in Users, p \in Passwords :
       \/ Login(h, u, p)
       \/ DeactivateUser(h, u, p)
       \/ \E q \in Passwords : ChangePassword(h, u, p, q)
  \/ \E u \in Users : ForgotPassword(h, u) \/ DeleteCredentials(h, u)
  \/ \E t \in Tokens, q \in Passwords : ResetPassword(h, t, q)

Continue(h) ==
  \/ LoginVerify(h) \/ ChangeVerify(h) \/ DeactivateVerify(h)
  \/ ForgotPurge(h) \/ ForgotIssue(h)
  \/ ResetFindToken(h) \/ ResetFindUser(h) \/ ResetSave(h)
  \/ SaveWrite(h) \/ DeleteRow(h)

Next ==
  \/ \E h \in Handlers : Arrive(h) \/ Continue(h) \/ Abort(h)
  \/ Tick

Spec == Init /\ [][Next]_vars

-------------------------------------------------------------------------------
\* Properties.

\* What a handler holds at each stage.
StageOK(h) ==
  /\ pc[h] # "idle" =>
       /\ job[h] \in Job
       /\ job[h].op \in {"change", "reset"} => job[h].chosen \in Passwords
  /\ pc[h] \in {"found", "writing"} =>
       mine[h] \in Row /\ job[h].op \in {"login", "change", "reset", "deactivate"}
  /\ pc[h] \in {"redeemed", "findUser"} => job[h].op = "reset"
  /\ pc[h] \in {"purging", "issuing"} => job[h].op = "forgot"
  /\ pc[h] = "issuing" =>
       /\ job[h].token \in Tokens
       /\ tokens[job[h].token].status # "fresh"
       /\ tokens[job[h].token].userId = job[h].user
  /\ pc[h] = "deletingRow" => job[h].op = "delete"

TypeOK ==
  /\ row \in [Users -> Row \cup {NoRow}]
  /\ tokens \in [Tokens -> TokenRow]
  /\ \A t \in Tokens : tokens[t].status # "fresh" => tokens[t].userId \in Users
  /\ pc \in [Handlers -> Stages]
  /\ job \in [Handlers -> Job \cup {None}]
  /\ mine \in [Handlers -> Row \cup {NoRow}]
  /\ base \in [Handlers -> Row \cup {NoRow}]
  /\ now \in Nat
  /\ \A h \in Handlers : StageOK(h)

\* The handler spends token t: its consuming UPDATE affected the row and its
\* reply is still to come.
Redeems(h, t) ==
  /\ pc[h] \in {"redeemed", "findUser", "found", "writing"}
  /\ job[h].op = "reset"
  /\ job[h].token = t

\* However many requests race on a reset token, one of them at most gets past
\* the consuming UPDATE (password-reset.service.ts:93), and none while the
\* token can still be consumed.
TokenSpentOnce ==
  \A t \in Tokens, h \in Handlers :
    Redeems(h, t) =>
      /\ tokens[t].status \in {"used", "gone"}
      /\ \A g \in Handlers : Redeems(g, t) => g = h

\* The handler holds a copy of u's row that says the account is active.
HoldsActive(h, u) ==
  pc[h] \in {"found", "writing"} /\ job[h].user = u /\ mine[h].isActive

Disabled(u) ==
  /\ row[u] # NoRow
  /\ ~row[u].isActive
  /\ \A h \in Handlers : ~HoldsActive(h, u)

\* Once an account is deactivated and every request that read it while it was
\* active has ended, no request ever makes it active again, whatever it does
\* to the password or the lockout.
SettledDeactivationIsFinal ==
  [][\A u \in Users : Disabled(u) => row'[u] = NoRow \/ Disabled(u)']_vars

\* No row, no token that could be consumed, and no request for u other than a
\* repeated delete.
Erased(u) ==
  /\ row[u] = NoRow
  /\ \A t \in Tokens : tokens[t].userId = u => tokens[t].status # "live"
  /\ \A h \in Handlers : pc[h] # "idle" /\ job[h].user = u => job[h].op = "delete"

\* Once the credentials of a user are deleted and the requests that were in
\* flight for that user have ended, nothing brings the row or a usable reset
\* token back: not a login, a reset with an old link, or another delete.
SettledDeletionIsFinal ==
  [][\A u \in Users : Erased(u) => Erased(u)']_vars

\* An account is locked, or was and has not been used since, exactly when its
\* recorded failures have reached the limit; the count and the date are
\* separate columns, written by save only where they changed.
LockTracksFailures ==
  \A u \in Users :
    row[u] # NoRow =>
      (row[u].failedLoginCount >= MaxFailedLogins <=> row[u].lockedUntil > 0)

\* deleteCredentials leaves no reset token of the user behind, although the
\* tokens and the row are deleted by separate statements.
DeletionTakesTokens ==
  \A t \in Tokens :
    tokens[t].status \in {"live", "used"} => row[tokens[t].userId] # NoRow

\* The mapping forgets the requests in flight and the tokens: what is promised is
\* about the rows as the database has them.
Atomic == INSTANCE AtomicAccounts
            WITH row <- row, now <- now, NoRow <- NoRow, Users <- Users,
                 Passwords <- Passwords, MaxFailedLogins <- MaxFailedLogins,
                 LockoutDuration <- LockoutDuration

\* One request per account at a time, the service does what AtomicAccounts
\* says: the read, the local work and the partial UPDATE act as one step.
ImplementsAtomicAccounts == Atomic!Spec

===============================================================================
