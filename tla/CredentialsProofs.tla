--------------------------- MODULE CredentialsProofs ---------------------------
(***************************************************************************)
(* Theorems about the authentication service, for any number of accounts,  *)
(* requests, passwords and tokens, and any limits.                         *)
(***************************************************************************)
EXTENDS Credentials, TLAPS

\* Setting one column of a row to a value of its type leaves a row.
LEMMA ColumnsOfRow ==
  ASSUME NEW r \in Row
  PROVE  /\ \A p \in Passwords : [r EXCEPT !.password = p] \in Row
         /\ \A b \in BOOLEAN : [r EXCEPT !.isActive = b] \in Row
         /\ \A n \in Nat : [r EXCEPT !.failedLoginCount = n] \in Row
         /\ \A n \in Nat : [r EXCEPT !.lockedUntil = n] \in Row
<1>1. \A p \in Passwords : [r EXCEPT !.password = p] \in Row
  BY DEF Row
<1>2. \A b \in BOOLEAN : [r EXCEPT !.isActive = b] \in Row
  BY DEF Row
<1>3. \A n \in Nat : [r EXCEPT !.failedLoginCount = n] \in Row
  BY DEF Row
<1>4. \A n \in Nat : [r EXCEPT !.lockedUntil = n] \in Row
  BY DEF Row
<1> QED
  BY <1>1, <1>2, <1>3, <1>4

\* The entities the handlers hand to save are rows.
LEMMA DraftsAreRows ==
  ASSUME NEW r \in Row, now \in Nat
  PROVE  /\ WithRecordedFailure(r) \in Row
         /\ WithCleanRecord(r) \in Row
         /\ \A q \in Passwords : WithPassword(r, q) \in Row
         /\ [r EXCEPT !.isActive = FALSE] \in Row
<1>1. WithCleanRecord(r) \in Row
  BY ColumnsOfRow DEF WithCleanRecord
<1>2. \A q \in Passwords : WithPassword(r, q) \in Row
  BY <1>1, ColumnsOfRow DEF WithPassword
<1>3. WithRecordedFailure(r) \in Row
  <2> DEFINE n == r.failedLoginCount + 1
             t == IF n >= MaxFailedLogins THEN now + LockoutDuration
                  ELSE r.lockedUntil
             s == [r EXCEPT !.failedLoginCount = n]
  <2>1. n \in Nat /\ t \in Nat /\ s.lockedUntil = r.lockedUntil
    BY LimitsAssumption DEF Row
  <2>2. s \in Row
    BY <2>1, ColumnsOfRow
  <2>3. [s EXCEPT !.lockedUntil = t] \in Row
    BY <2>1, <2>2, ColumnsOfRow
  <2>4. WithRecordedFailure(r) = [s EXCEPT !.lockedUntil = t]
    BY <2>1 DEF WithRecordedFailure
  <2> QED
    BY <2>3, <2>4
<1>4. [r EXCEPT !.isActive = FALSE] \in Row
  BY ColumnsOfRow
<1> QED
  BY <1>1, <1>2, <1>3, <1>4

\* What save writes is a row, or no row.
LEMMA SavedIsRow ==
  ASSUME NEW current \in Row \cup {NoRow}, NEW d \in Row,
         NEW b \in Row \cup {NoRow}, NEW rehashed \in BOOLEAN
  PROVE  /\ Inserted(current, d) \in Row \cup {NoRow}
         /\ b # NoRow => Updated(current, d, b, rehashed) \in Row \cup {NoRow}
  BY NoRowAssumption DEF Row, Inserted, Updated, Column

\* Changing the status of a token row leaves a token row.
LEMMA TokenStatus ==
  ASSUME NEW x \in TokenRow,
         NEW s \in {"fresh", "pending", "live", "used", "gone"}
  PROVE  [x EXCEPT !.status = s] \in TokenRow
  BY DEF TokenRow

\* Deleting the token rows of a user leaves token rows.
LEMMA PurgedType ==
  ASSUME tokens \in [Tokens -> TokenRow], NEW u
  PROVE  Purged(u) \in [Tokens -> TokenRow]
<1>1. \A t \in Tokens : [tokens[t] EXCEPT !.status = "gone"] \in TokenRow
  BY TokenStatus
<1> QED
  BY <1>1 DEF Purged

\* A handler that enters save with a row, or ends, keeps the types.
LEMMA SaveLoadTyped ==
  ASSUME TypeOK, NEW h \in Handlers, pc[h] = "found", NEW d \in Row,
         SaveLoad(h, d)
  PROVE  TypeOK'
<1>1. row' = row /\ tokens' = tokens /\ job' = job /\ now' = now
  BY DEF SaveLoad
<1>2. /\ pc' = [pc EXCEPT ![h] = "writing"]
      /\ mine' = [mine EXCEPT ![h] = d]
      /\ base' = [base EXCEPT ![h] = row[job[h].user]]
  BY DEF SaveLoad, Goto, Hold
<1>3. job[h] \in Job /\ job[h].user \in Users
  BY DEF TypeOK, StageOK, Job
<1> QED
  BY <1>1, <1>2, <1>3 DEF TypeOK, StageOK, Stages

\* A handler that ends, without touching rows, tokens or clock, keeps the types.
LEMMA EndTyped ==
  ASSUME TypeOK, NEW h \in Handlers, End(h), UNCHANGED <<row, tokens, now>>
  PROVE  TypeOK'
  BY DEF TypeOK, StageOK, Stages, End

\* The row a signup stores is a row.
LEMMA FirstRow ==
  ASSUME NEW r \in [password : Passwords, isActive : {TRUE},
                    failedLoginCount : {0}, lockedUntil : {0}]
  PROVE  r \in Row
<1>1. r.failedLoginCount \in {0} /\ r.lockedUntil \in {0}
  OBVIOUS
<1>2. r.isActive \in {TRUE}
  OBVIOUS
<1>3. r.isActive \in BOOLEAN
  BY <1>2, Zenon
<1>4. r.password \in Passwords
  OBVIOUS
<1>5. r = [password |-> r.password, isActive |-> r.isActive,
           failedLoginCount |-> r.failedLoginCount,
           lockedUntil |-> r.lockedUntil]
  OBVIOUS
<1> QED
  BY <1>1, <1>3, <1>4, <1>5 DEF Row

\* The initial rows, tokens and handlers have their types.
LEMMA TypeInit == Init => TypeOK
<1> SUFFICES ASSUME Init PROVE TypeOK
  OBVIOUS
<1>1. row \in [Users -> Row \cup {NoRow}]
  BY FirstRow DEF Init
<1>2. tokens \in [Tokens -> TokenRow]
  BY DEF Init, TokenRow
<1> QED
  BY <1>1, <1>2 DEF Init, TypeOK, StageOK, Stages

\* Every step of every handler keeps the type invariant.
LEMMA TypeStep == TypeOK /\ [Next]_vars => TypeOK'
<1> SUFFICES ASSUME TypeOK, [Next]_vars PROVE TypeOK'
  OBVIOUS
<1> USE DEF TypeOK, StageOK, Stages, Ops
<1>1. ASSUME NEW h \in Handlers, NEW u \in Users, NEW p \in Passwords,
             Login(h, u, p)
      PROVE  TypeOK'
  BY <1>1 DEF Login, Begin, Hold, Request, Job
<1>2. ASSUME NEW h \in Handlers, NEW u \in Users, NEW p \in Passwords,
             DeactivateUser(h, u, p)
      PROVE  TypeOK'
  BY <1>2 DEF DeactivateUser, Begin, Hold, Request, Job
<1>3. ASSUME NEW h \in Handlers, NEW u \in Users, NEW p \in Passwords,
             NEW q \in Passwords, ChangePassword(h, u, p, q)
      PROVE  TypeOK'
  BY <1>3 DEF ChangePassword, Begin, Hold, Request, Job
<1>4. ASSUME NEW h \in Handlers, NEW u \in Users, ForgotPassword(h, u)
      PROVE  TypeOK'
  BY <1>4 DEF ForgotPassword, Begin, Request, Job
<1>5. ASSUME NEW h \in Handlers, NEW u \in Users, DeleteCredentials(h, u)
      PROVE  TypeOK'
  <2>1. /\ pc[h] = "idle"
        /\ pc' = [pc EXCEPT ![h] = "deletingRow"]
        /\ job' = [job EXCEPT ![h] = Request("delete", u, None, None, None)]
        /\ tokens' = Purged(u)
        /\ UNCHANGED <<row, mine, base, now>>
    BY <1>5 DEF DeleteCredentials, Begin
  <2>2. tokens' \in [Tokens -> TokenRow]
    BY <2>1, PurgedType
  <2>3. \A t \in Tokens : tokens'[t].status # "fresh" => tokens'[t].userId \in Users
    BY <2>1 DEF Purged, TokenRow
  <2>4. \A y \in Tokens : tokens[y].status # "fresh" =>
          tokens'[y].status # "fresh" /\ tokens'[y].userId = tokens[y].userId
    BY <2>1 DEF Purged, TokenRow
  <2> QED
    BY <2>1, <2>2, <2>3, <2>4 DEF Request, Job
<1>6. ASSUME NEW h \in Handlers, NEW t \in Tokens, NEW q \in Passwords,
             ResetPassword(h, t, q)
      PROVE  TypeOK'
  <2>1. pc[h] = "idle" /\ tokens[t].status = "live"
    BY <1>6 DEF ResetPassword, Begin
  <2> DEFINE x == [tokens[t] EXCEPT !.status = "used"]
  <2>2. x \in TokenRow
    BY TokenStatus
  <2>3. tokens' = [tokens EXCEPT ![t] = x]
    BY <1>6 DEF ResetPassword
  <2>4. job' = [job EXCEPT ![h] =
                 Request("reset", tokens[t].userId, None, q, t)]
    BY <1>6 DEF ResetPassword, Begin
  <2>5. tokens[t].userId \in Users
    BY <2>1
  <2>6. tokens' \in [Tokens -> TokenRow]
    BY <2>2, <2>3
  <2>7. x.userId = tokens[t].userId /\ x.status = "used"
    BY DEF TokenRow
  <2>8. \A y \in Tokens : tokens[y].status # "fresh" =>
          tokens'[y].status # "fresh" /\ tokens'[y].userId = tokens[y].userId
    BY <2>3, <2>7
  <2> QED
    BY <1>6, <2>3, <2>4, <2>5, <2>6, <2>7, <2>8 DEF ResetPassword, Begin, Request, Job
<1>7. ASSUME NEW h \in Handlers, LoginVerify(h)
      PROVE  TypeOK'
  <2>1. pc[h] = "found" /\ mine[h] \in Row /\ job[h] \in Job
    BY <1>7 DEF LoginVerify
  <2>2. \A d \in Row : SaveLoad(h, d) => TypeOK'
    BY <2>1, SaveLoadTyped
  <2>3. End(h) /\ UNCHANGED <<row, tokens, now>> => TypeOK'
    BY EndTyped
  <2>4. WithRecordedFailure(mine[h]) \in Row /\ WithCleanRecord(mine[h]) \in Row
    BY <2>1, DraftsAreRows
  <2> QED
    BY <1>7, <2>2, <2>3, <2>4 DEF LoginVerify
<1>8. ASSUME NEW h \in Handlers, ChangeVerify(h)
      PROVE  TypeOK'
  <2>1. pc[h] = "found" /\ mine[h] \in Row /\ job[h] \in Job
    BY <1>8 DEF ChangeVerify
  <2>2. \A d \in Row : SaveLoad(h, d) => TypeOK'
    BY <2>1, SaveLoadTyped
  <2>3. End(h) /\ UNCHANGED <<row, tokens, now>> => TypeOK'
    BY EndTyped
  <2>4. WithPassword(mine[h], job[h].chosen) \in Row
    BY <1>8, <2>1, DraftsAreRows DEF ChangeVerify
  <2> QED
    BY <1>8, <2>2, <2>3, <2>4 DEF ChangeVerify
<1>9. ASSUME NEW h \in Handlers, DeactivateVerify(h)
      PROVE  TypeOK'
  <2>1. pc[h] = "found" /\ mine[h] \in Row /\ job[h] \in Job
    BY <1>9 DEF DeactivateVerify
  <2>2. \A d \in Row : SaveLoad(h, d) => TypeOK'
    BY <2>1, SaveLoadTyped
  <2>3. End(h) /\ UNCHANGED <<row, tokens, now>> => TypeOK'
    BY EndTyped
  <2>4. [mine[h] EXCEPT !.isActive = FALSE] \in Row
    BY <2>1, DraftsAreRows
  <2> QED
    BY <1>9, <2>2, <2>3, <2>4 DEF DeactivateVerify
<1>10. ASSUME NEW h \in Handlers, ForgotPurge(h)
       PROVE  TypeOK'
  <2>1. pc[h] = "purging" /\ job[h] \in Job
    BY <1>10 DEF ForgotPurge
  <2>2. PICK t \in Tokens :
          /\ tokens[t].status = "fresh"
          /\ tokens' = [Purged(job[h].user) EXCEPT ![t] =
                          [status |-> "pending", userId |-> job[h].user,
                           expiresAt |-> now + ResetTtl]]
          /\ job' = [job EXCEPT ![h].token = t]
    BY <1>10 DEF ForgotPurge
  <2>3. /\ [job[h] EXCEPT !.token = t] \in Job
        /\ [job[h] EXCEPT !.token = t].op = "forgot"
        /\ [job[h] EXCEPT !.token = t].token = t
    BY <1>10, <2>1 DEF ForgotPurge, Job
  <2>4. job' = [job EXCEPT ![h] = [job[h] EXCEPT !.token = t]]
    BY <2>2
  <2>5. [status |-> "pending", userId |-> job[h].user,
         expiresAt |-> now + ResetTtl] \in TokenRow
    BY <2>1, LimitsAssumption DEF TokenRow, Job
  <2>6. Purged(job[h].user) \in [Tokens -> TokenRow]
    BY PurgedType
  <2>7. tokens' \in [Tokens -> TokenRow]
    BY <2>2, <2>5, <2>6
  <2>8. \A x \in Tokens : tokens'[x].status # "fresh" => tokens'[x].userId \in Users
    BY <2>1, <2>2, <2>6 DEF Purged, Job, TokenRow
  <2>9. \A y \in Tokens : tokens[y].status # "fresh" =>
          tokens'[y].status # "fresh" /\ tokens'[y].userId = tokens[y].userId
    BY <2>2, <2>6 DEF Purged, TokenRow
  <2>10. tokens'[t].status = "pending" /\ tokens'[t].userId = job[h].user
    BY <2>2, <2>6
  <2>11. [job[h] EXCEPT !.token = t].user = job[h].user
    BY <2>1 DEF Job
  <2>12. /\ pc' = [pc EXCEPT ![h] = "issuing"]
         /\ UNCHANGED <<row, mine, base, now>>
    BY <1>10 DEF ForgotPurge, Goto
  <2> HIDE DEF TypeOK, StageOK
  <2>13. \A g \in Handlers : StageOK(g)'
    BY <2>1, <2>3, <2>4, <2>9, <2>10, <2>11, <2>12 DEF TypeOK, StageOK
  <2> QED
    BY <2>3, <2>4, <2>7, <2>8, <2>12, <2>13 DEF TypeOK
<1>11. ASSUME NEW h \in Handlers, ForgotIssue(h)
       PROVE  TypeOK'
  <2> DEFINE t == job[h].token
             x == [tokens[t] EXCEPT !.status = "live"]
  <2>1. t \in Tokens /\ job[h] \in Job
    BY <1>11 DEF ForgotIssue
  <2>2. x \in TokenRow
    BY <2>1, TokenStatus
  <2>3. tokens' = [tokens EXCEPT ![t] = x]
    BY <1>11 DEF ForgotIssue
  <2>4. tokens' \in [Tokens -> TokenRow]
    BY <2>2, <2>3
  <2>5. x.userId = tokens[t].userId /\ x.status = "live"
    BY <2>1 DEF TokenRow
  <2>6. \A y \in Tokens : tokens[y].status # "fresh" =>
          tokens'[y].status # "fresh" /\ tokens'[y].userId = tokens[y].userId
    BY <2>1, <2>3, <2>5
  <2>7. \A y \in Tokens : tokens'[y].status # "fresh" => tokens'[y].userId \in Users
    BY <1>11, <2>1, <2>3, <2>5 DEF ForgotIssue, Job
  <2> HIDE DEF t, x
  <2>8. End(h) /\ UNCHANGED <<row, now>>
    BY <1>11 DEF ForgotIssue
  <2> HIDE DEF TypeOK, StageOK
  <2>9. /\ pc' \in [Handlers -> Stages] /\ job' \in [Handlers -> Job \cup {None}]
        /\ mine' \in [Handlers -> Row \cup {NoRow}]
        /\ base' \in [Handlers -> Row \cup {NoRow}]
    BY <2>8 DEF TypeOK, Stages, End
  <2>10. \A g \in Handlers : StageOK(g)'
    BY <2>6, <2>8 DEF TypeOK, StageOK, End, Job
  <2> QED
    BY <2>4, <2>7, <2>8, <2>9, <2>10 DEF TypeOK
<1>12. ASSUME NEW h \in Handlers, ResetFindToken(h)
       PROVE  TypeOK'
  BY <1>12 DEF ResetFindToken, End, Goto
<1>13. ASSUME NEW h \in Handlers, ResetFindUser(h)
       PROVE  TypeOK'
  <2>1. pc[h] = "findUser" /\ UNCHANGED <<row, tokens, now>>
    BY <1>13 DEF ResetFindUser
  <2>2. CASE End(h)
    BY <2>1, <2>2 DEF End
  <2>3. CASE row[job[h].user] # NoRow /\ Goto(h, "found") /\ Hold(h, row[job[h].user])
               /\ UNCHANGED <<job, base>>
    <3>1. job[h] \in Job /\ job[h].op = "reset" /\ row[job[h].user] \in Row
      BY <2>1, <2>3 DEF Job
    <3> QED
      BY <2>1, <2>3, <3>1 DEF Goto, Hold
  <2> QED
    BY <1>13, <2>2, <2>3 DEF ResetFindUser
<1>14. ASSUME NEW h \in Handlers, ResetSave(h)
       PROVE  TypeOK'
  <2>1. /\ pc[h] = "found" /\ mine[h] \in Row
        /\ WithPassword(mine[h], job[h].chosen) \in Row
    BY <1>14, DraftsAreRows DEF ResetSave
  <2> QED
    BY <1>14, <2>1, SaveLoadTyped DEF ResetSave
<1>15. ASSUME NEW h \in Handlers, SaveWrite(h)
       PROVE  TypeOK'
  <2> DEFINE u == job[h].user
             new == IF base[h] = NoRow THEN Inserted(row[u], mine[h])
                    ELSE Updated(row[u], mine[h], base[h],
                                 job[h].op \in {"change", "reset"})
  <2>1. u \in Users /\ mine[h] \in Row /\ base[h] \in Row \cup {NoRow}
    BY <1>15 DEF SaveWrite, Job
  <2>2. row[u] \in Row \cup {NoRow}
    BY <2>1
  <2>3. (job[h].op \in {"change", "reset"}) \in BOOLEAN
    OBVIOUS
  <2>4. new \in Row \cup {NoRow}
    BY <2>1, <2>2, <2>3, SavedIsRow
  <2>5. row' = [row EXCEPT ![u] = new]
    BY <1>15 DEF SaveWrite
  <2>6. row' \in [Users -> Row \cup {NoRow}]
    BY <2>4, <2>5
  <2>7. /\ pc' = [pc EXCEPT ![h] = "idle"]
        /\ job' = [job EXCEPT ![h] = None]
        /\ mine' = [mine EXCEPT ![h] = NoRow]
        /\ base' = [base EXCEPT ![h] = NoRow]
        /\ UNCHANGED <<tokens, now>>
    BY <1>15 DEF SaveWrite, End
  <2> HIDE DEF new
  <2> QED
    BY <2>6, <2>7
<1>16. ASSUME NEW h \in Handlers, DeleteRow(h)
       PROVE  TypeOK'
  BY <1>16 DEF DeleteRow, End, Job
<1>17. ASSUME NEW h \in Handlers, Abort(h)
       PROVE  TypeOK'
  BY <1>17 DEF Abort, End
<1>18. CASE Tick
  BY <1>18 DEF Tick
<1>19. CASE UNCHANGED vars
  BY <1>19 DEF vars
<1> QED
  BY <1>1, <1>2, <1>3, <1>4, <1>5, <1>6, <1>7, <1>8, <1>9, <1>10, <1>11,
     <1>12, <1>13, <1>14, <1>15, <1>16, <1>17, <1>18, <1>19
  DEF Next, Arrive, Continue

\* The type invariant: every row, token, request and entity in the model has
\* the shape its column or variable has in the code, at every stage.
THEOREM TypeCorrect == Spec => []TypeOK
  BY TypeInit, TypeStep, PTL DEF Spec

-------------------------------------------------------------------------------
\* A token that a forgotPassword request has generated and not inserted yet
\* belongs to that request alone, so no later INSERT can revive a used token.
IssuerAlone ==
  \A h \in Handlers :
    pc[h] = "issuing" =>
      /\ tokens[job[h].token].status = "pending"
      /\ \A g \in Handlers :
           pc[g] = "issuing" /\ job[g].token = job[h].token => g = h

TokenInv == TypeOK /\ IssuerAlone /\ TokenSpentOnce

\* Steps that leave the tokens alone, and in which no handler starts issuing or
\* redeeming a token, keep the invariant.
LEMMA QuietStep ==
  ASSUME TokenInv, TypeOK', tokens' = tokens,
         \A g \in Handlers :
           /\ pc'[g] = "issuing" => pc[g] = "issuing" /\ job'[g] = job[g]
           /\ \A t \in Tokens : Redeems(g, t)' => Redeems(g, t)
  PROVE  TokenInv'
<1>1. IssuerAlone'
  BY DEF TokenInv, IssuerAlone
<1>2. TokenSpentOnce'
  BY DEF TokenInv, TokenSpentOnce
<1> QED
  BY <1>1, <1>2 DEF TokenInv

\* In particular: a handler that ends, or goes from one of its stages to a
\* stage in which it holds no token it did not hold before.
LEMMA QuietHandler ==
  ASSUME TokenInv, TypeOK', tokens' = tokens, NEW h \in Handlers,
         \A g \in Handlers \ {h} : pc'[g] = pc[g] /\ job'[g] = job[g],
         pc'[h] # "issuing",
         \/ pc'[h] \notin {"redeemed", "findUser", "found", "writing"}
         \/ job'[h].op # "reset"
         \/ /\ pc[h] \in {"redeemed", "findUser", "found", "writing"}
            /\ job'[h] = job[h]
  PROVE  TokenInv'
<1>1. ASSUME NEW g \in Handlers, g # h
      PROVE  /\ pc'[g] = "issuing" => pc[g] = "issuing" /\ job'[g] = job[g]
             /\ \A t \in Tokens : Redeems(g, t)' => Redeems(g, t)
  BY <1>1 DEF Redeems
<1>2. /\ pc'[h] = "issuing" => pc[h] = "issuing" /\ job'[h] = job[h]
      /\ \A t \in Tokens : Redeems(h, t)' => Redeems(h, t)
  BY DEF Redeems
<1> QED
  BY <1>1, <1>2, QuietStep

\* Every step keeps the inductive invariant about tokens.
LEMMA TokenInvStep == TokenInv /\ [Next]_vars => TokenInv'
<1> SUFFICES ASSUME TokenInv, [Next]_vars PROVE TokenInv'
  OBVIOUS
<1>0. TypeOK /\ TypeOK'
  BY TypeStep DEF TokenInv
<1>a. pc \in [Handlers -> Stages] /\ job \in [Handlers -> Job \cup {None}]
  BY <1>0 DEF TypeOK
<1>b. \A g \in Handlers : pc[g] = "issuing" => job[g].token \in Tokens
  BY <1>0 DEF TypeOK, StageOK
<1>1. ASSUME NEW h \in Handlers, NEW u \in Users, NEW p \in Passwords,
             Login(h, u, p)
      PROVE  TokenInv'
  BY <1>0, <1>a, <1>1, QuietHandler DEF Login, Begin, Request
<1>2. ASSUME NEW h \in Handlers, NEW u \in Users, NEW p \in Passwords,
             DeactivateUser(h, u, p)
      PROVE  TokenInv'
  BY <1>0, <1>a, <1>2, QuietHandler DEF DeactivateUser, Begin, Request
<1>3. ASSUME NEW h \in Handlers, NEW u \in Users, NEW p \in Passwords,
             NEW q \in Passwords, ChangePassword(h, u, p, q)
      PROVE  TokenInv'
  BY <1>0, <1>a, <1>3, QuietHandler DEF ChangePassword, Begin, Request
<1>4. ASSUME NEW h \in Handlers, NEW u \in Users, ForgotPassword(h, u)
      PROVE  TokenInv'
  BY <1>0, <1>a, <1>4, QuietHandler DEF ForgotPassword, Begin
<1>5. ASSUME NEW h \in Handlers, NEW u \in Users, DeleteCredentials(h, u)
      PROVE  TokenInv'
  <2>1. /\ tokens' = Purged(u)
        /\ pc[h] = "idle" /\ pc' = [pc EXCEPT ![h] = "deletingRow"]
        /\ \A g \in Handlers \ {h} : job'[g] = job[g]
    BY <1>a, <1>5 DEF DeleteCredentials, Begin
  <2>2. \A t \in Tokens :
          /\ tokens[t].status = "pending" => tokens'[t].status = "pending"
          /\ tokens[t].status \in {"used", "gone"} =>
               tokens'[t].status \in {"used", "gone"}
    BY <1>0, <2>1 DEF Purged, TypeOK, TokenRow
  <2>3. IssuerAlone'
    <3>1. \A g \in Handlers : pc'[g] = "issuing" =>
            g # h /\ pc[g] = "issuing" /\ job'[g] = job[g]
      BY <1>a, <2>1
    <3> QED
      BY <1>b, <2>2, <3>1 DEF TokenInv, IssuerAlone
  <2>4. TokenSpentOnce'
    BY <1>a, <2>1, <2>2 DEF TokenInv, TokenSpentOnce, Redeems
  <2> QED
    BY <1>0, <2>3, <2>4 DEF TokenInv
<1>6. ASSUME NEW h \in Handlers, NEW t \in Tokens, NEW q \in Passwords,
             ResetPassword(h, t, q)
      PROVE  TokenInv'
  <2>1. /\ tokens[t].status = "live"
        /\ tokens' = [tokens EXCEPT ![t].status = "used"]
        /\ pc[h] = "idle" /\ pc' = [pc EXCEPT ![h] = "redeemed"]
        /\ job' = [job EXCEPT ![h] =
                     Request("reset", tokens[t].userId, None, q, t)]
    BY <1>6 DEF ResetPassword, Begin
  <2>2. \A x \in Tokens :
          tokens'[x].status = IF x = t THEN "used" ELSE tokens[x].status
    BY <1>0, <2>1 DEF TypeOK, TokenRow
  <2>3. job'[h].token = t
    BY <1>a, <2>1 DEF Request
  <2>4. \A g \in Handlers : ~Redeems(g, t)
    BY <2>1 DEF TokenInv, TokenSpentOnce
  <2>5. IssuerAlone'
    <3>1. \A g \in Handlers : pc'[g] = "issuing" =>
            g # h /\ pc[g] = "issuing" /\ job'[g] = job[g]
      BY <1>a, <2>1
    <3>2. \A x \in Tokens : tokens[x].status = "pending" => tokens'[x].status = "pending"
      BY <2>1, <2>2
    <3> QED
      BY <1>b, <3>1, <3>2 DEF TokenInv, IssuerAlone
  <2>6. TokenSpentOnce'
    <3> SUFFICES ASSUME NEW x \in Tokens, NEW f \in Handlers, Redeems(f, x)'
                 PROVE  /\ tokens'[x].status \in {"used", "gone"}
                        /\ \A g \in Handlers : Redeems(g, x)' => g = f
      BY DEF TokenSpentOnce
    <3>1. \A g \in Handlers \ {h} : Redeems(g, x)' => Redeems(g, x)
      BY <1>a, <2>1 DEF Redeems
    <3>2. Redeems(h, x)' => x = t
      BY <2>3 DEF Redeems
    <3> QED
      BY <2>2, <2>4, <3>1, <3>2 DEF TokenInv, TokenSpentOnce
  <2> QED
    BY <1>0, <2>5, <2>6 DEF TokenInv
<1>7. ASSUME NEW h \in Handlers, LoginVerify(h)
      PROVE  TokenInv'
  BY <1>0, <1>a, <1>7, QuietHandler DEF LoginVerify, SaveLoad, Goto, End
<1>8. ASSUME NEW h \in Handlers, ChangeVerify(h)
      PROVE  TokenInv'
  BY <1>0, <1>a, <1>8, QuietHandler DEF ChangeVerify, SaveLoad, Goto, End
<1>9. ASSUME NEW h \in Handlers, DeactivateVerify(h)
      PROVE  TokenInv'
  BY <1>0, <1>a, <1>9, QuietHandler DEF DeactivateVerify, SaveLoad, Goto, End
<1>10. ASSUME NEW h \in Handlers, ForgotPurge(h)
       PROVE  TokenInv'
  <2>1. PICK t \in Tokens :
          /\ tokens[t].status = "fresh"
          /\ tokens' = [Purged(job[h].user) EXCEPT ![t] =
                          [status |-> "pending", userId |-> job[h].user,
                           expiresAt |-> now + ResetTtl]]
          /\ job' = [job EXCEPT ![h].token = t]
    BY <1>10 DEF ForgotPurge
  <2>2. pc[h] = "purging" /\ pc' = [pc EXCEPT ![h] = "issuing"]
    BY <1>10 DEF ForgotPurge, Goto
  <2>3. tokens'[t].status = "pending" /\ job'[h].token = t
    <3>1. job[h] \in Job
      BY <1>0, <2>2 DEF TypeOK, StageOK
    <3>2. [job[h] EXCEPT !.token = t].token = t
      BY <3>1 DEF Job
    <3>3. job'[h].token = t
      BY <1>a, <2>1, <3>2
    <3> DEFINE x == [status |-> "pending", userId |-> job[h].user,
                     expiresAt |-> now + ResetTtl]
    <3>4. x.status = "pending"
      OBVIOUS
    <3> HIDE DEF x
    <3>5. tokens'[t] = x
      BY <2>1 DEF Purged, x
    <3> QED
      BY <3>3, <3>4, <3>5
  <2>4. \A x \in Tokens :
          /\ tokens[x].status = "pending" => tokens'[x].status = "pending"
          /\ tokens[x].status \in {"used", "gone"} =>
               tokens'[x].status \in {"used", "gone"}
    <3>1. ASSUME NEW x \in Tokens, x # t
          PROVE  /\ tokens[x].status = "pending" => tokens'[x].status = "pending"
                 /\ tokens[x].status \in {"used", "gone"} =>
                      tokens'[x].status \in {"used", "gone"}
      <4>1. tokens[x] \in TokenRow
        BY <1>0 DEF TypeOK
      <4>2. tokens'[x] = Purged(job[h].user)[x]
        BY <2>1, <3>1 DEF Purged
      <4> QED
        BY <4>1, <4>2 DEF Purged, TokenRow
    <3>2. tokens[t].status \notin {"pending", "used", "gone"}
      BY <2>1
    <3> QED
      BY <3>1, <3>2
  <2>5. \A g \in Handlers \ {h} : pc'[g] = pc[g] /\ job'[g] = job[g]
    BY <1>a, <2>1, <2>2
  <2>6. \A g \in Handlers \ {h} : pc[g] = "issuing" => job[g].token # t
    BY <1>0, <2>1 DEF TokenInv, IssuerAlone
  <2>7. IssuerAlone'
    BY <1>b, <2>3, <2>4, <2>5, <2>6 DEF TokenInv, IssuerAlone
  <2>8. TokenSpentOnce'
    BY <1>a, <2>2, <2>4, <2>5 DEF TokenInv, TokenSpentOnce, Redeems
  <2> QED
    BY <1>0, <2>7, <2>8 DEF TokenInv
<1>11. ASSUME NEW h \in Handlers, ForgotIssue(h)
       PROVE  TokenInv'
  <2> DEFINE t == job[h].token
  <2>1. /\ pc[h] = "issuing" /\ pc' = [pc EXCEPT ![h] = "idle"]
        /\ tokens' = [tokens EXCEPT ![t].status = "live"]
        /\ \A g \in Handlers \ {h} : job'[g] = job[g]
    BY <1>a, <1>11 DEF ForgotIssue, End
  <2>2. t \in Tokens /\ tokens[t].status = "pending"
    BY <1>0, <2>1 DEF TokenInv, IssuerAlone, TypeOK, StageOK
  <2>3. \A g \in Handlers : ~Redeems(g, t)
    BY <2>2 DEF TokenInv, TokenSpentOnce
  <2>4. \A x \in Tokens \ {t} : tokens'[x] = tokens[x]
    BY <1>0, <2>1 DEF TypeOK
  <2>5. IssuerAlone'
    <3>1. \A g \in Handlers : pc'[g] = "issuing" =>
            g # h /\ pc[g] = "issuing" /\ job'[g] = job[g]
      BY <1>a, <2>1
    <3> QED
      BY <1>b, <2>1, <2>4, <3>1 DEF TokenInv, IssuerAlone
  <2>6. TokenSpentOnce'
    BY <1>a, <2>1, <2>3, <2>4 DEF TokenInv, TokenSpentOnce, Redeems
  <2> QED
    BY <1>0, <2>5, <2>6 DEF TokenInv
<1>12. ASSUME NEW h \in Handlers, ResetFindToken(h)
       PROVE  TokenInv'
  BY <1>0, <1>a, <1>12, QuietHandler DEF ResetFindToken, Goto, End
<1>13. ASSUME NEW h \in Handlers, ResetFindUser(h)
       PROVE  TokenInv'
  BY <1>0, <1>a, <1>13, QuietHandler DEF ResetFindUser, Goto, End
<1>14. ASSUME NEW h \in Handlers, ResetSave(h)
       PROVE  TokenInv'
  BY <1>0, <1>a, <1>14, QuietHandler DEF ResetSave, SaveLoad, Goto
<1>15. ASSUME NEW h \in Handlers, SaveWrite(h) \/ DeleteRow(h) \/ Abort(h)
       PROVE  TokenInv'
  BY <1>0, <1>a, <1>15, QuietHandler DEF SaveWrite, DeleteRow, Abort, End
<1>16. CASE Tick \/ UNCHANGED vars
  BY <1>0, <1>16, QuietStep DEF Tick, vars, Redeems
<1> QED
  BY <1>1, <1>2, <1>3, <1>4, <1>5, <1>6, <1>7, <1>8, <1>9, <1>10, <1>11,
     <1>12, <1>13, <1>14, <1>15, <1>16
  DEF Next, Arrive, Continue

\* Whatever requests race on a reset token, one of them at most gets past the
\* consuming UPDATE (password-reset.service.ts:93-103).
THEOREM TokenSpentOnceHolds == Spec => []TokenSpentOnce
<1>1. Init => TokenInv
  BY TypeInit DEF Init, TokenInv, IssuerAlone, TokenSpentOnce, Redeems
<1>2. TokenInv => TokenSpentOnce
  BY DEF TokenInv
<1> QED
  BY <1>1, <1>2, TokenInvStep, PTL DEF Spec

-------------------------------------------------------------------------------
\* No entity handed to save is active unless the one it was made from was.
LEMMA DraftsKeepDisabled ==
  ASSUME NEW r \in Row
  PROVE  /\ WithRecordedFailure(r).isActive = r.isActive
         /\ WithCleanRecord(r).isActive = r.isActive
         /\ \A q \in Passwords : WithPassword(r, q).isActive = r.isActive
         /\ [r EXCEPT !.isActive = FALSE].isActive = FALSE
  BY DEF Row, WithRecordedFailure, WithCleanRecord, WithPassword

\* A step that leaves the row of u alone, and in which no handler comes to
\* hold an active copy of it, keeps the account disabled.
LEMMA StaysDisabled ==
  ASSUME NEW u \in Users, Disabled(u), row'[u] = row[u],
         \A g \in Handlers : HoldsActive(g, u)' => HoldsActive(g, u)
  PROVE  Disabled(u)'
  BY DEF Disabled

\* A handler that enters save with an entity no more active than its own
\* keeps the account disabled.
LEMMA SaveLoadDisabled ==
  ASSUME TypeOK, NEW u \in Users, Disabled(u), NEW h \in Handlers,
         pc[h] = "found", NEW d, d.isActive => mine[h].isActive, SaveLoad(h, d)
  PROVE  Disabled(u)'
<1>1. \A g \in Handlers : HoldsActive(g, u)' => HoldsActive(g, u)
  BY DEF SaveLoad, Goto, Hold, HoldsActive, TypeOK
<1>2. row' = row
  BY DEF SaveLoad
<1> QED
  BY <1>1, <1>2, StaysDisabled

\* A handler that ends keeps every account disabled that was.
LEMMA EndDisabled ==
  ASSUME TypeOK, NEW u \in Users, Disabled(u), NEW h \in Handlers, End(h),
         row'[u] = row[u]
  PROVE  Disabled(u)'
<1>1. \A g \in Handlers : HoldsActive(g, u)' => HoldsActive(g, u)
  BY DEF End, HoldsActive, TypeOK
<1> QED
  BY <1>1, StaysDisabled

\* Every step keeps a settled deactivation, or deletes the row.
LEMMA DisabledStep ==
  ASSUME TypeOK, [Next]_vars, NEW u \in Users, Disabled(u)
  PROVE  row'[u] = NoRow \/ Disabled(u)'
<1>a. /\ pc \in [Handlers -> Stages] /\ job \in [Handlers -> Job \cup {None}]
      /\ mine \in [Handlers -> Row \cup {NoRow}]
      /\ row \in [Users -> Row \cup {NoRow}]
  BY DEF TypeOK
<1>b. \A h \in Handlers : pc[h] = "found" => mine[h] \in Row /\ job[h] \in Job
  BY DEF TypeOK, StageOK
<1>c. ~row[u].isActive /\ row[u] # NoRow
  BY DEF Disabled
<1>1. ASSUME NEW h \in Handlers, NEW v \in Users, NEW p \in Passwords,
             Login(h, v, p)
      PROVE  Disabled(u)'
  <2>1. \A g \in Handlers : HoldsActive(g, u)' => HoldsActive(g, u)
    BY <1>a, <1>c, <1>1 DEF Login, Begin, Hold, Request, HoldsActive
  <2> QED
    BY <1>1, <2>1, StaysDisabled DEF Login
<1>2. ASSUME NEW h \in Handlers, NEW v \in Users, NEW p \in Passwords,
             DeactivateUser(h, v, p)
      PROVE  Disabled(u)'
  <2>1. \A g \in Handlers : HoldsActive(g, u)' => HoldsActive(g, u)
    BY <1>a, <1>c, <1>2 DEF DeactivateUser, Begin, Hold, Request, HoldsActive
  <2> QED
    BY <1>2, <2>1, StaysDisabled DEF DeactivateUser
<1>3. ASSUME NEW h \in Handlers, NEW v \in Users, NEW p \in Passwords,
             NEW q \in Passwords, ChangePassword(h, v, p, q)
      PROVE  Disabled(u)'
  <2>1. \A g \in Handlers : HoldsActive(g, u)' => HoldsActive(g, u)
    BY <1>a, <1>c, <1>3 DEF ChangePassword, Begin, Hold, Request, HoldsActive
  <2> QED
    BY <1>3, <2>1, StaysDisabled DEF ChangePassword
<1>4. ASSUME NEW h \in Handlers, NEW v \in Users,
             ForgotPassword(h, v) \/ DeleteCredentials(h, v)
      PROVE  Disabled(u)'
  <2>1. \A g \in Handlers : HoldsActive(g, u)' => HoldsActive(g, u)
    BY <1>a, <1>4 DEF ForgotPassword, DeleteCredentials, Begin, HoldsActive
  <2> QED
    BY <1>4, <2>1, StaysDisabled DEF ForgotPassword, DeleteCredentials
<1>5. ASSUME NEW h \in Handlers, NEW t \in Tokens, NEW q \in Passwords,
             ResetPassword(h, t, q)
      PROVE  Disabled(u)'
  <2>1. \A g \in Handlers : HoldsActive(g, u)' => HoldsActive(g, u)
    BY <1>a, <1>5 DEF ResetPassword, Begin, HoldsActive
  <2> QED
    BY <1>5, <2>1, StaysDisabled DEF ResetPassword
<1>6. ASSUME NEW h \in Handlers, LoginVerify(h)
      PROVE  Disabled(u)'
  <2>1. pc[h] = "found" /\ mine[h] \in Row
    BY <1>b, <1>6 DEF LoginVerify
  <2>2. \/ SaveLoad(h, WithRecordedFailure(mine[h]))
        \/ SaveLoad(h, WithCleanRecord(mine[h]))
        \/ End(h) /\ row' = row
    BY <1>6 DEF LoginVerify
  <2> QED
    BY <2>1, <2>2, DraftsKeepDisabled, SaveLoadDisabled, EndDisabled
<1>7. ASSUME NEW h \in Handlers, ChangeVerify(h) \/ ResetSave(h)
      PROVE  Disabled(u)'
  <2>1. pc[h] = "found" /\ mine[h] \in Row /\ job[h].chosen \in Passwords
    BY <1>b, <1>7 DEF ChangeVerify, ResetSave, TypeOK, StageOK
  <2>2. \/ SaveLoad(h, WithPassword(mine[h], job[h].chosen))
        \/ End(h) /\ row' = row
    BY <1>7 DEF ChangeVerify, ResetSave
  <2>3. WithPassword(mine[h], job[h].chosen).isActive = mine[h].isActive
    BY <2>1, DraftsKeepDisabled
  <2> QED
    BY <2>1, <2>2, <2>3, SaveLoadDisabled, EndDisabled
<1>8. ASSUME NEW h \in Handlers, DeactivateVerify(h)
      PROVE  Disabled(u)'
  <2>1. pc[h] = "found" /\ mine[h] \in Row
    BY <1>b, <1>8 DEF DeactivateVerify
  <2>2. \/ SaveLoad(h, [mine[h] EXCEPT !.isActive = FALSE])
        \/ End(h) /\ row' = row
    BY <1>8 DEF DeactivateVerify
  <2>3. [mine[h] EXCEPT !.isActive = FALSE].isActive => mine[h].isActive
    BY <2>1, DraftsKeepDisabled
  <2> QED
    BY <2>1, <2>2, <2>3, SaveLoadDisabled, EndDisabled
<1>9. ASSUME NEW h \in Handlers, ForgotPurge(h)
      PROVE  Disabled(u)'
  <2>1. \A g \in Handlers : HoldsActive(g, u)' => HoldsActive(g, u)
    BY <1>a, <1>9 DEF ForgotPurge, Goto, HoldsActive
  <2> QED
    BY <1>9, <2>1, StaysDisabled DEF ForgotPurge
<1>10. ASSUME NEW h \in Handlers, ResetFindToken(h)
       PROVE  Disabled(u)'
  <2>1. row' = row
    BY <1>10 DEF ResetFindToken
  <2>2. CASE End(h)
    BY <2>1, <2>2, EndDisabled
  <2>3. CASE Goto(h, "findUser") /\ UNCHANGED <<job, mine, base>>
    <3>1. \A g \in Handlers : HoldsActive(g, u)' => HoldsActive(g, u)
      BY <1>a, <2>3 DEF Goto, HoldsActive
    <3> QED
      BY <2>1, <3>1, StaysDisabled
  <2> QED
    BY <1>10, <2>2, <2>3 DEF ResetFindToken
<1>11. ASSUME NEW h \in Handlers, ResetFindUser(h)
       PROVE  Disabled(u)'
  <2>1. row' = row
    BY <1>11 DEF ResetFindUser
  <2>2. CASE End(h)
    BY <2>1, <2>2, EndDisabled
  <2>3. CASE Goto(h, "found") /\ Hold(h, row[job[h].user]) /\ UNCHANGED <<job, base>>
    <3>1. \A g \in Handlers : HoldsActive(g, u)' => HoldsActive(g, u)
      BY <1>a, <1>c, <2>3 DEF Goto, Hold, HoldsActive
    <3> QED
      BY <2>1, <3>1, StaysDisabled
  <2> QED
    BY <1>11, <2>2, <2>3 DEF ResetFindUser
<1>12. ASSUME NEW h \in Handlers, SaveWrite(h)
       PROVE  row'[u] = NoRow \/ Disabled(u)'
  <2> DEFINE d == mine[h]
             new == IF base[h] = NoRow THEN Inserted(row[u], d)
                    ELSE Updated(row[u], d, base[h],
                                 job[h].op \in {"change", "reset"})
  <2>1. pc[h] = "writing" /\ End(h)
    BY <1>12 DEF SaveWrite
  <2>2. CASE job[h].user # u
    BY <1>a, <1>12, <2>1, <2>2, EndDisabled DEF SaveWrite
  <2>3. CASE job[h].user = u
    <3>1. row'[u] = new
      BY <1>a, <1>12, <2>3 DEF SaveWrite
    <3>2. d \in Row /\ ~d.isActive
      BY <2>1, <2>3 DEF Disabled, HoldsActive, TypeOK, StageOK
    <3>3. ~new.isActive
      <4>1. CASE base[h] = NoRow
        BY <1>c, <4>1 DEF Inserted
      <4>2. CASE base[h] # NoRow
        <5>1. new.isActive = Column(d.isActive, base[h].isActive, row[u].isActive)
          BY <1>c, <4>2 DEF Updated
        <5> QED
          BY <1>c, <3>2, <5>1 DEF Column
      <4> QED
        BY <4>1, <4>2
    <3>4. \A g \in Handlers : ~HoldsActive(g, u)'
      BY <1>a, <2>1 DEF End, HoldsActive, Disabled
    <3> QED
      BY <3>1, <3>3, <3>4 DEF Disabled
  <2> QED
    BY <2>2, <2>3
<1>13. ASSUME NEW h \in Handlers, DeleteRow(h)
       PROVE  row'[u] = NoRow \/ Disabled(u)'
  BY <1>a, <1>13, EndDisabled DEF DeleteRow
<1>14. ASSUME NEW h \in Handlers, ForgotIssue(h) \/ Abort(h)
       PROVE  Disabled(u)'
  BY <1>14, EndDisabled DEF ForgotIssue, Abort
<1>15. CASE Tick \/ UNCHANGED vars
  BY <1>15, StaysDisabled DEF Tick, vars, HoldsActive
<1> QED
  BY <1>1, <1>2, <1>3, <1>4, <1>5, <1>6, <1>7, <1>8, <1>9, <1>10, <1>11,
     <1>12, <1>13, <1>14, <1>15
  DEF Next, Arrive, Continue

\* A deactivation is final once the requests that read the row before it have
\* ended, however the later ones interleave (account-lifecycle.service.ts:19).
THEOREM SettledDeactivationIsFinalHolds == Spec => SettledDeactivationIsFinal
<1>1. TypeOK /\ [Next]_vars =>
        [\A u \in Users : Disabled(u) => row'[u] = NoRow \/ Disabled(u)']_vars
  BY DisabledStep
<1> QED
  BY <1>1, TypeCorrect, PTL DEF Spec, SettledDeactivationIsFinal

-------------------------------------------------------------------------------
\* The request of handler h is not about u, or deletes u.
Harmless(h, u) == pc[h] # "idle" /\ job[h].user = u => job[h].op = "delete"

\* A step that brings neither the row of u nor a usable token of u back, and
\* in which every handler stays harmless to u, keeps u erased.
LEMMA StaysErased ==
  ASSUME NEW u \in Users, Erased(u), row'[u] = row[u],
         \A t \in Tokens : tokens'[t].userId = u /\ tokens'[t].status = "live" =>
                             tokens[t].userId = u /\ tokens[t].status = "live",
         \A g \in Handlers : Harmless(g, u) => Harmless(g, u)'
  PROVE  Erased(u)'
<1>1. row'[u] = NoRow
  BY DEF Erased
<1>2. \A t \in Tokens : tokens'[t].userId = u => tokens'[t].status # "live"
  BY DEF Erased
<1>3. \A g \in Handlers : Harmless(g, u)'
  BY DEF Erased, Harmless
<1> QED
  BY <1>1, <1>2, <1>3 DEF Erased, Harmless

\* A handler that ends, or goes on with the same request, stays harmless.
LEMMA SameRequest ==
  ASSUME TypeOK, NEW u \in Users, NEW h \in Handlers, pc[h] # "idle",
         \/ End(h)
         \/ \E s \in Stages : Goto(h, s) /\ job' = job
  PROVE  \A g \in Handlers : Harmless(g, u) => Harmless(g, u)'
  BY DEF TypeOK, Harmless, End, Goto, Stages

\* A handler that begins a delete, or a request of another user, is harmless.
LEMMA NewRequest ==
  ASSUME TypeOK, NEW u \in Users, NEW h \in Handlers, NEW s, NEW j,
         Begin(h, s, j), j.user # u \/ j.op = "delete"
  PROVE  \A g \in Handlers : Harmless(g, u) => Harmless(g, u)'
  BY DEF TypeOK, Harmless, Begin

\* Every step keeps a user erased whose last request has ended.
LEMMA ErasedStep ==
  ASSUME TypeOK, [Next]_vars, NEW u \in Users, Erased(u)
  PROVE  Erased(u)'
<1>a. \A h \in Handlers : pc[h] # "idle" =>
        /\ job[h] \in Job
        /\ job[h].op # "delete" => job[h].user # u
  BY DEF TypeOK, StageOK, Erased
<1>b. row[u] = NoRow /\ row \in [Users -> Row \cup {NoRow}]
  BY DEF TypeOK, Erased
<1>1. ASSUME NEW h \in Handlers, NEW v \in Users,
             \/ \E p \in Passwords :
                  \/ Login(h, v, p) \/ DeactivateUser(h, v, p)
                  \/ \E q \in Passwords : ChangePassword(h, v, p, q)
             \/ ForgotPassword(h, v)
      PROVE  Erased(u)'
  <2>1. v # u /\ row' = row /\ tokens' = tokens
    BY <1>b, <1>1 DEF Login, DeactivateUser, ChangePassword, ForgotPassword
  <2>2. \E s, j : Begin(h, s, j) /\ j.user = v
    <3>1. \A op, p, q, t : Request(op, v, p, q, t).user = v
      BY DEF Request
    <3> QED
      BY <1>1, <3>1 DEF Login, DeactivateUser, ChangePassword, ForgotPassword
  <2> QED
    BY <2>1, <2>2, NewRequest, StaysErased
<1>2. ASSUME NEW h \in Handlers, NEW v \in Users, DeleteCredentials(h, v)
      PROVE  Erased(u)'
  <2>1. row' = row /\ tokens' = Purged(v)
    BY <1>2 DEF DeleteCredentials
  <2>2. \E s, j : Begin(h, s, j) /\ j.op = "delete"
    BY <1>2 DEF DeleteCredentials, Request
  <2>3. \A t \in Tokens : tokens'[t].userId = u /\ tokens'[t].status = "live" =>
                             tokens[t].userId = u /\ tokens[t].status = "live"
    BY <2>1 DEF Purged, TypeOK, TokenRow
  <2> QED
    BY <2>1, <2>2, <2>3, NewRequest, StaysErased
<1>3. ASSUME NEW h \in Handlers, NEW t \in Tokens, NEW q \in Passwords,
             ResetPassword(h, t, q)
      PROVE  Erased(u)'
  <2>1. row' = row /\ tokens' = [tokens EXCEPT ![t].status = "used"]
    BY <1>3 DEF ResetPassword
  <2>2. tokens[t].userId # u
    BY <1>3 DEF ResetPassword, Erased
  <2>3. \E s, j : Begin(h, s, j) /\ j.user = tokens[t].userId
    BY <1>3 DEF ResetPassword, Request
  <2>4. \A x \in Tokens : tokens'[x].userId = u /\ tokens'[x].status = "live" =>
                             tokens[x].userId = u /\ tokens[x].status = "live"
    BY <2>1 DEF TypeOK, TokenRow
  <2> QED
    BY <2>1, <2>2, <2>3, <2>4, NewRequest, StaysErased
<1>4. ASSUME NEW h \in Handlers,
             \/ LoginVerify(h) \/ ChangeVerify(h) \/ DeactivateVerify(h)
             \/ ResetFindToken(h) \/ ResetFindUser(h) \/ ResetSave(h) \/ Abort(h)
      PROVE  Erased(u)'
  <2>1. row' = row /\ tokens' = tokens /\ pc[h] # "idle"
    BY <1>4 DEF LoginVerify, ChangeVerify, DeactivateVerify, ResetFindToken,
                ResetFindUser, ResetSave, Abort, SaveLoad
  <2>2. End(h) \/ \E s \in Stages : Goto(h, s) /\ job' = job
    BY <1>4 DEF LoginVerify, ChangeVerify, DeactivateVerify, ResetFindToken,
                ResetFindUser, ResetSave, Abort, SaveLoad, Stages
  <2> QED
    BY <2>1, <2>2, SameRequest, StaysErased
<1>5. ASSUME NEW h \in Handlers, ForgotPurge(h)
      PROVE  Erased(u)'
  <2>1. pc[h] = "purging" /\ job[h] \in Job /\ job[h].op = "forgot"
    BY <1>5 DEF ForgotPurge, TypeOK, StageOK
  <2>2. job[h].user # u
    BY <1>a, <2>1
  <2>3. PICK t \in Tokens :
          /\ tokens' = [Purged(job[h].user) EXCEPT ![t] =
                          [status |-> "pending", userId |-> job[h].user,
                           expiresAt |-> now + ResetTtl]]
          /\ job' = [job EXCEPT ![h].token = t]
    BY <1>5 DEF ForgotPurge
  <2>4. \A x \in Tokens : tokens'[x].userId = u /\ tokens'[x].status = "live" =>
                             tokens[x].userId = u /\ tokens[x].status = "live"
    BY <2>3 DEF Purged, TypeOK, TokenRow
  <2>5. \A g \in Handlers : Harmless(g, u) => Harmless(g, u)'
    <3>1. job'[h].user = job[h].user
      BY <2>1, <2>3 DEF TypeOK, Job
    <3>2. \A g \in Handlers \ {h} : pc'[g] = pc[g] /\ job'[g] = job[g]
      BY <1>5, <2>3 DEF ForgotPurge, Goto, TypeOK
    <3> QED
      BY <2>2, <3>1, <3>2 DEF Harmless
  <2> QED
    BY <1>5, <2>4, <2>5, StaysErased DEF ForgotPurge
<1>6. ASSUME NEW h \in Handlers, ForgotIssue(h)
      PROVE  Erased(u)'
  <2> DEFINE t == job[h].token
  <2>1. pc[h] = "issuing" /\ job[h].op = "forgot" /\ t \in Tokens
        /\ tokens[t].userId = job[h].user
    BY <1>6 DEF ForgotIssue, TypeOK, StageOK
  <2>2. tokens[t].userId # u
    BY <1>a, <2>1
  <2>3. \A x \in Tokens : tokens'[x].userId = u /\ tokens'[x].status = "live" =>
                             tokens[x].userId = u /\ tokens[x].status = "live"
    BY <1>6, <2>1, <2>2 DEF ForgotIssue, TypeOK, TokenRow
  <2> QED
    BY <1>6, <2>1, <2>3, SameRequest, StaysErased DEF ForgotIssue
<1>7. ASSUME NEW h \in Handlers, SaveWrite(h)
      PROVE  Erased(u)'
  <2>1. pc[h] = "writing" /\ job[h].op # "delete"
    BY <1>7 DEF SaveWrite, TypeOK, StageOK
  <2>2. job[h].user # u
    BY <1>a, <2>1
  <2> QED
    BY <1>b, <1>7, <2>1, <2>2, SameRequest, StaysErased DEF SaveWrite
<1>8. ASSUME NEW h \in Handlers, DeleteRow(h)
      PROVE  Erased(u)'
  <2>1. row'[u] = row[u] /\ tokens' = tokens /\ pc[h] # "idle" /\ End(h)
    BY <1>b, <1>8 DEF DeleteRow
  <2>2. \A g \in Handlers : Harmless(g, u) => Harmless(g, u)'
    BY <2>1, SameRequest
  <2> QED
    BY <2>1, <2>2, StaysErased
<1>9. CASE Tick \/ UNCHANGED vars
  <2>1. \A g \in Handlers : Harmless(g, u) => Harmless(g, u)'
    BY <1>9 DEF Tick, vars, Harmless
  <2> QED
    BY <1>9, <2>1, StaysErased DEF Tick, vars
<1> QED
  BY <1>1, <1>2, <1>3, <1>4, <1>5, <1>6, <1>7, <1>8, <1>9
  DEF Next, Arrive, Continue

\* A deletion is final once the requests that were in flight for the user have
\* ended: no save inserts the row again, and no old token can be consumed
\* (account-lifecycle.service.ts:43).
THEOREM SettledDeletionIsFinalHolds == Spec => SettledDeletionIsFinal
<1>1. TypeOK /\ [Next]_vars => [\A u \in Users : Erased(u) => Erased(u)']_vars
  BY ErasedStep
<1> QED
  BY <1>1, TypeCorrect, PTL DEF Spec, SettledDeletionIsFinal
===============================================================================
