-------------------------- MODULE SignupFanoutProofs --------------------------
(***************************************************************************)
(* Theorems of SignupFanout, for any number of accounts, emails and        *)
(* deliveries, and but for the last one any number of consumers.           *)
(***************************************************************************)
EXTENDS SignupFanout, TLAPS

-------------------------------------------------------------------------------
\* Types.

\* A handler that goes on to its next stage keeps the message and what it read.
LEMMA GoesOn ==
  ASSUME worker \in [Processes -> Job \cup {None}],
         NEW p \in Processes, worker[p] # None,
         NEW stage \in {"save", "write", "raced", "ack", "nak"}, Goes(p, stage)
  PROVE  /\ worker' \in [Processes -> Job \cup {None}]
         /\ worker[p] \in Job /\ worker'[p] # None
         /\ worker'[p].for = worker[p].for
         /\ worker'[p].base = worker[p].base
         /\ worker'[p].stage = stage
         /\ \A q \in Processes : q # p => worker'[q] = worker[q]
<1> DEFINE job == [for |-> worker[p].for, stage |-> stage, base |-> worker[p].base]
<1>1. worker[p] \in Job
  OBVIOUS
<1>2. job \in Job
  BY <1>1 DEF Job
<1>3. [worker[p] EXCEPT !.stage = stage] = job
  BY <1>1 DEF Job
<1>4. worker' = [worker EXCEPT ![p] = job]
  BY <1>3 DEF Goes
<1>5. job # None
  BY <1>2, NoJobAssumption
<1> QED
  BY <1>1, <1>2, <1>4, <1>5

\* The types are right in every state: no event is delivered more often than
\* max_deliver allows, and a job has one of the stages of createUser.
THEOREM TypeCorrect == Spec => []TypeOK
<1>1. Init => TypeOK
  BY FanoutAssumption DEF Init, TypeOK, Event, CredStates, Requests
<1>2. TypeOK /\ [Next]_vars => TypeOK'
  <2> SUFFICES ASSUME TypeOK, [Next]_vars PROVE TypeOK'
    OBVIOUS
  <2> USE FanoutAssumption
  <2>1. ASSUME NEW a \in Accounts, Signup(a) \/ Seed(a) \/ SeedInsert(a) PROVE TypeOK'
    BY <2>1 DEF TypeOK, Signup, Seed, SeedInsert, Insert, CredStates, Requests
  <2>2. ASSUME NEW a \in Accounts, Publish(a) \/ PublishFails(a) PROVE TypeOK'
    BY <2>2 DEF TypeOK, Publish, PublishFails, Event, Requests
  <2>3. ASSUME NEW a \in Accounts, AckWait(a) \/ AgeOut(a) PROVE TypeOK'
    BY <2>3 DEF TypeOK, AckWait, AgeOut, Event
  <2>4. ASSUME NEW a \in Accounts,
               EditProfile(a) \/ PurgeUser(a) \/ DeleteCredentials(a)
        PROVE TypeOK'
    BY <2>4 DEF TypeOK, EditProfile, PurgeUser, DeleteCredentials, CredStates, Written
  <2>5. ASSUME NEW a \in Accounts, NEW p \in Processes, Deliver(p, a) PROVE TypeOK'
    BY <2>5 DEF TypeOK, Deliver, Event
  <2>6. ASSUME NEW p \in Processes, NEW a \in Accounts, Take(p, a) PROVE TypeOK'
    BY <2>6 DEF TypeOK, Take, Job
  <2>7. ASSUME NEW p \in Processes, SaveSelect(p) PROVE TypeOK'
    <3>1. CASE Goes(p, "raced")
      BY <2>7, <3>1, GoesOn DEF TypeOK, SaveSelect, AtStage
    <3>2. CASE ~Goes(p, "raced")
      <4> DEFINE job == [for |-> worker[p].for, stage |-> "write",
                         base |-> profile[worker[p].for]]
      <4>1. worker[p] \in Job
        BY <2>7 DEF TypeOK, SaveSelect, AtStage
      <4>2. job \in Job
        BY <4>1 DEF TypeOK, Job
      <4>3. worker' = [worker EXCEPT ![p] = job]
        BY <2>7, <3>2, <4>1 DEF SaveSelect, Job
      <4> QED
        BY <2>7, <4>2, <4>3 DEF TypeOK, SaveSelect
    <3> QED
      BY <3>1, <3>2
  <2>8. ASSUME NEW p \in Processes, SaveWrite(p) PROVE TypeOK'
    <3>1. worker[p] \in Job /\ worker[p] # None
      BY <2>8 DEF TypeOK, SaveWrite, AtStage
    <3>2. worker' \in [Processes -> Job \cup {None}]
      <4>1. Goes(p, "ack") \/ Goes(p, "raced")
        BY <2>8 DEF SaveWrite
      <4> QED
        BY <3>1, <4>1, GoesOn DEF TypeOK
    <3>3. profile' \in [Accounts -> Written \cup {None}]
      <4>1. Saved(worker[p].for, worker[p].base) \in [Accounts -> Written \cup {None}]
        BY <3>1 DEF TypeOK, Saved, Job, Written
      <4>2. profile' = profile \/ profile' = Saved(worker[p].for, worker[p].base)
        BY <2>8 DEF SaveWrite
      <4> QED
        BY <4>1, <4>2 DEF TypeOK
    <3> QED
      BY <2>8, <3>2, <3>3 DEF TypeOK, SaveWrite
  <2>9. ASSUME NEW p \in Processes, Raced(p) PROVE TypeOK'
    <3>1. worker[p] # None /\ (Goes(p, "ack") \/ Goes(p, "nak"))
      BY <2>9 DEF Raced, AtStage
    <3> QED
      BY <2>9, <3>1, GoesOn DEF TypeOK, Raced
  <2>10. ASSUME NEW p \in Processes, Settle(p) \/ Restart(p) PROVE TypeOK'
    <3>1. CASE Restart(p)
      BY <3>1 DEF TypeOK, Restart
    <3>2. CASE Settle(p)
      <4>1. worker[p].for \in Accounts
        BY <3>2 DEF TypeOK, Settle, Job
      <4>2. event' \in [Accounts -> Event]
        <5>1. ASSUME NEW state \in {"pending", "acked"}, NEW a \in Accounts
              PROVE  [event EXCEPT ![a].state = state] \in [Accounts -> Event]
          BY DEF TypeOK, Event
        <5> QED
          BY <3>2, <4>1, <5>1 DEF TypeOK, Settle
      <4>3. worker' \in [Processes -> Job \cup {None}]
        BY <3>2 DEF TypeOK, Settle
      <4> QED
        BY <3>2, <4>2, <4>3 DEF TypeOK, Settle
    <3> QED
      BY <2>10, <3>1, <3>2
  <2>11. CASE UNCHANGED vars
    BY <2>11 DEF TypeOK, vars
  <2> QED
    BY <2>1, <2>2, <2>3, <2>4, <2>5, <2>6, <2>7, <2>8, <2>9, <2>10, <2>11
    DEF Next, Handler
<1> QED
  BY <1>1, <1>2, PTL DEF Spec

-------------------------------------------------------------------------------
\* Why an acked event means a profile.

\* The account has its profile, or need not have one any more.
Settled(a) == profile[a] # None \/ cred[a] \in {"leaving", "gone"} \/ Reused(a)

\* Nothing is known of an account before its credential row was inserted.
Known(a) == cred[a] # "absent"

KnownFirst ==
  /\ \A a \in Accounts :
       /\ request[a] \in {"idle", "seed"} <=> ~Known(a)
       /\ event[a].state # "none" => Known(a)
       /\ profile[a] # None => Known(a)
  /\ \A p \in Processes :
       /\ \A a \in Accounts : copies[p][a] > 0 => Known(a)
       /\ worker[p] # None => Known(worker[p].for)

UniqueEmails ==
  \A a, b \in Accounts : HasRow(a) /\ HasRow(b) /\ EmailOf[a] = EmailOf[b] => a = b

\* A handler that is about to ack, or whose save has found the row, has seen that
\* the account is settled.
HasSeen(p) == worker[p] # None /\ (worker[p].stage = "ack" \/ worker[p].base # None)

AckSettled ==
  /\ \A p \in Processes : HasSeen(p) => Settled(worker[p].for)
  /\ \A a \in Accounts : event[a].state = "acked" => Settled(a)

FanoutInv == TypeOK /\ KnownFirst /\ UniqueEmails /\ AckSettled

-------------------------------------------------------------------------------
\* What each step does to the rows.

\* Rows of accounts are inserted once; a profile is written by a handler or by
\* its user, and is taken away only by a deletion.
CredStep(a) ==
  \/ cred'[a] = cred[a]
  \/ cred[a] = "absent" /\ cred'[a] = "active" /\ ~Taken(EmailOf[a])
       /\ \A b \in Accounts : b # a => cred'[b] = cred[b]
  \/ cred[a] = "active" /\ cred'[a] = "leaving"
  \/ cred[a] = "leaving" /\ cred'[a] = "gone"

ProfileStep(a) ==
  \/ profile'[a] = profile[a]
  \/ profile[a] # None /\ profile'[a] # None
  \/ profile'[a] = None /\ cred[a] # "absent" /\ cred'[a] \in {"leaving", "gone"}
  \/ profile'[a] # None /\ \E p \in Processes : AtStage(p, "write") /\ worker[p].for = a

\* The INSERT makes one account active, of an email that is free.
LEMMA InsertStep ==
  ASSUME TypeOK, KnownFirst, NEW a \in Accounts, Insert(a),
         request[a] \in {"idle", "seed"}, NEW b \in Accounts
  PROVE  CredStep(b)
<1>1. cred[a] = "absent"
  BY DEF KnownFirst, Known
<1> QED
  BY <1>1 DEF Insert, CredStep, TypeOK

LEMMA CredSteps ==
  ASSUME TypeOK, KnownFirst, [Next]_vars, NEW b \in Accounts
  PROVE  CredStep(b)
<1>1. ASSUME NEW a \in Accounts, Signup(a) PROVE CredStep(b)
  BY <1>1, InsertStep DEF Signup
<1>2. ASSUME NEW a \in Accounts, SeedInsert(a) PROVE CredStep(b)
  BY <1>2, InsertStep DEF SeedInsert, CredStep
<1>3. ASSUME NEW a \in Accounts, PurgeUser(a) \/ DeleteCredentials(a) PROVE CredStep(b)
  BY <1>3 DEF PurgeUser, DeleteCredentials, CredStep, TypeOK
<1>4. CASE UNCHANGED cred
  BY <1>4 DEF CredStep
<1> QED
  BY <1>1, <1>2, <1>3, <1>4
  DEF Next, vars, Handler, Seed, Publish, PublishFails, AckWait, AgeOut, EditProfile,
      Deliver, Take, SaveSelect, SaveWrite, Raced, Settle, Restart

LEMMA ProfileSteps ==
  ASSUME TypeOK, KnownFirst, [Next]_vars, NEW b \in Accounts
  PROVE  ProfileStep(b)
<1>1. ASSUME NEW p \in Processes, SaveWrite(p) PROVE ProfileStep(b)
  <2>1. worker[p].for \in Accounts /\ AtStage(p, "write")
    BY <1>1 DEF SaveWrite, AtStage, TypeOK, Job
  <2>2. profile' = profile \/ profile' = Saved(worker[p].for, worker[p].base)
    BY <1>1 DEF SaveWrite
  <2>3. "signup" # None
    BY FanoutAssumption DEF Written
  <2> QED
    BY <2>1, <2>2, <2>3 DEF Saved, ProfileStep, TypeOK
<1>2. ASSUME NEW a \in Accounts, EditProfile(a) PROVE ProfileStep(b)
  BY <1>2, FanoutAssumption DEF EditProfile, ProfileStep, TypeOK, Written
<1>3. ASSUME NEW a \in Accounts, PurgeUser(a) PROVE ProfileStep(b)
  BY <1>3 DEF PurgeUser, ProfileStep, TypeOK, CredStates
<1>4. CASE UNCHANGED profile
  BY <1>4 DEF ProfileStep
<1> QED
  BY <1>1, <1>2, <1>3, <1>4
  DEF Next, vars, Handler, Signup, Seed, SeedInsert, Publish, PublishFails, AckWait,
      AgeOut, DeleteCredentials, Deliver, Take, SaveSelect, Raced, Settle, Restart

\* An account that is settled stays so.
LEMMA SettledStays ==
  ASSUME TypeOK, KnownFirst, [Next]_vars, NEW a \in Accounts, Settled(a)
  PROVE  Settled(a)'
<1>1. \A b \in Accounts : CredStep(b) /\ ProfileStep(b)
  BY CredSteps, ProfileSteps
<1>2. CASE profile[a] # None
  BY <1>1, <1>2 DEF ProfileStep, Settled
<1>3. CASE cred[a] \in {"leaving", "gone"}
  BY <1>1, <1>3 DEF CredStep, Settled
<1>4. CASE Reused(a)
  BY <1>1, <1>4 DEF CredStep, Settled, Reused
<1> QED
  BY <1>2, <1>3, <1>4 DEF Settled

\* What createUser finds by id or email settles the account: a row that is not its
\* own is that of a deleted account, for no two accounts have an email at once.
LEMMA FoundSettles ==
  ASSUME TypeOK, KnownFirst, UniqueEmails,
         NEW a \in Accounts, Known(a), NEW b \in Accounts, Matches(b, a)
  PROVE  Settled(a)
<1>1. CASE b = a
  BY <1>1 DEF Matches, Settled
<1>2. CASE b # a
  <2>1. Known(b) /\ EmailOf[b] = EmailOf[a]
    BY <1>2 DEF Matches, KnownFirst
  <2>2. cred[a] = "gone" \/ cred[b] = "gone" \/ cred[a] = "leaving"
    BY <1>2, <2>1 DEF UniqueEmails, HasRow, Known, TypeOK, CredStates
  <2> QED
    BY <1>2, <2>1, <2>2 DEF Settled, Reused
<1> QED
  BY <1>1, <1>2

-------------------------------------------------------------------------------
\* The invariant.

\* The unique index refuses an INSERT for an email that is taken.
LEMMA UniqueStays ==
  ASSUME TypeOK, KnownFirst, UniqueEmails, [Next]_vars
  PROVE  UniqueEmails'
<1>1. \A b \in Accounts : CredStep(b)
  BY CredSteps
<1> SUFFICES ASSUME NEW a \in Accounts, NEW b \in Accounts, a # b,
                    HasRow(a)', HasRow(b)', EmailOf[a] = EmailOf[b]
             PROVE  FALSE
  BY DEF UniqueEmails
<1>2. CASE HasRow(a) /\ HasRow(b)
  BY <1>2 DEF UniqueEmails
<1>3. CASE ~HasRow(a)
  <2>1. ~Taken(EmailOf[a]) /\ cred'[b] = cred[b]
    BY <1>1, <1>3 DEF CredStep, HasRow, TypeOK, CredStates
  <2> QED
    BY <2>1 DEF Taken, HasRow
<1>4. CASE ~HasRow(b)
  <2>1. ~Taken(EmailOf[b]) /\ cred'[a] = cred[a]
    BY <1>1, <1>4 DEF CredStep, HasRow, TypeOK, CredStates
  <2> QED
    BY <2>1 DEF Taken, HasRow
<1> QED
  BY <1>2, <1>3, <1>4

\* Events, deliveries and profiles are those of accounts that were inserted.
LEMMA KnownStays ==
  ASSUME TypeOK, KnownFirst, [Next]_vars
  PROVE  KnownFirst'
<1>1. \A b \in Accounts : CredStep(b) /\ ProfileStep(b)
  BY CredSteps, ProfileSteps
<1>2. \A b \in Accounts : Known(b) => Known(b)'
  BY <1>1 DEF CredStep, Known
<1>3. ASSUME NEW b \in Accounts PROVE (profile[b] # None => Known(b))'
  <2>1. CASE \E p \in Processes : AtStage(p, "write") /\ worker[p].for = b
    BY <2>1, <1>2 DEF KnownFirst, AtStage
  <2>2. CASE profile[b] # None
    BY <2>2, <1>2 DEF KnownFirst
  <2> QED
    BY <1>1, <2>1, <2>2 DEF ProfileStep
<1>4. ASSUME NEW b \in Accounts
      PROVE  (request[b] \in {"idle", "seed"} <=> ~Known(b))'
  <2>1. ASSUME NEW a \in Accounts, Signup(a) \/ Seed(a) \/ SeedInsert(a)
        PROVE  (request[b] \in {"idle", "seed"} <=> ~Known(b))'
    BY <2>1 DEF Signup, Seed, SeedInsert, Insert, KnownFirst, Known, TypeOK
  <2>2. ASSUME NEW a \in Accounts, Publish(a) \/ PublishFails(a)
        PROVE  (request[b] \in {"idle", "seed"} <=> ~Known(b))'
    BY <2>2 DEF Publish, PublishFails, KnownFirst, Known, TypeOK
  <2>3. CASE UNCHANGED request /\ (Known(b)' <=> Known(b))
    BY <2>3 DEF KnownFirst
  <2>4. ASSUME NEW a \in Accounts, PurgeUser(a) \/ DeleteCredentials(a)
        PROVE  UNCHANGED request /\ (Known(b)' <=> Known(b))
    BY <2>4 DEF PurgeUser, DeleteCredentials, Known, TypeOK, CredStates
  <2> QED
    BY <2>1, <2>2, <2>3, <2>4
    DEF Next, vars, Handler, AckWait, AgeOut, EditProfile, Deliver, Take, SaveSelect,
        SaveWrite, Raced, Settle, Restart, Known
<1>5. ASSUME NEW b \in Accounts
      PROVE  (event[b].state # "none" => Known(b))'
  <2>1. CASE event'[b].state = "none"
    BY <2>1
  <2>2. CASE event[b].state # "none"
    BY <2>2, <1>2 DEF KnownFirst
  <2>3. CASE event[b].state = "none" /\ event'[b].state # "none"
    <3>1. ASSUME NEW a \in Accounts, Publish(a) PROVE Known(b)'
      BY <3>1, <2>3, <1>2 DEF Publish, KnownFirst, TypeOK, Event
    <3>2. ASSUME NEW p \in Processes, Settle(p) PROVE FALSE
      BY <3>2, <2>3 DEF Settle, TypeOK, Event, Job
    <3>3. ASSUME NEW a \in Accounts,
                 AckWait(a) \/ AgeOut(a) \/ \E p \in Processes : Deliver(p, a)
          PROVE  FALSE
      BY <3>3, <2>3 DEF AckWait, AgeOut, Deliver, TypeOK, Event
    <3>4. CASE UNCHANGED event
      BY <3>4, <2>3
    <3> QED
      BY <3>1, <3>2, <3>3, <3>4
      DEF Next, vars, Handler, Signup, Seed, SeedInsert, PublishFails, EditProfile,
          PurgeUser, DeleteCredentials, Take, SaveSelect, SaveWrite, Raced, Restart
  <2> QED
    BY <2>1, <2>2, <2>3
<1>6. ASSUME NEW p \in Processes
      PROVE  /\ (\A a \in Accounts : copies[p][a] > 0 => Known(a))'
             /\ (worker[p] # None => Known(worker[p].for))'
  <2> DEFINE Mine == /\ \A a \in Accounts : copies'[p][a] > 0 => Known(a)
                     /\ worker'[p] # None =>
                          \E a \in Accounts : a = worker'[p].for /\ Known(a)
  <2>1. Mine => /\ (\A a \in Accounts : copies[p][a] > 0 => Known(a))'
                /\ (worker[p] # None => Known(worker[p].for))'
    BY <1>2 DEF Known
  <2>2. \A a \in Accounts : copies[p][a] \in Nat
    BY DEF TypeOK
  <2>3. worker[p] # None => worker[p].for \in Accounts
    BY DEF TypeOK, Job
  <2>4. ASSUME NEW q \in Processes, NEW a \in Accounts, Deliver(q, a) PROVE Mine
    BY <2>3, <2>4 DEF Deliver, KnownFirst, TypeOK
  <2>5. ASSUME NEW q \in Processes, NEW a \in Accounts, Take(q, a) PROVE Mine
    <3>1. \A b \in Accounts : copies'[p][b] > 0 => copies[p][b] > 0
      BY <2>2, <2>5 DEF Take, TypeOK
    <3>2. worker'[p] = worker[p] \/ (p = q /\ worker'[p].for = a)
      BY <2>5 DEF Take, TypeOK
    <3> QED
      BY <2>3, <2>5, <3>1, <3>2 DEF Take, KnownFirst
  <2>6. ASSUME NEW q \in Processes, SaveSelect(q) \/ SaveWrite(q) \/ Raced(q) PROVE Mine
    <3>1. copies' = copies /\ worker[q] # None
      BY <2>6 DEF SaveSelect, SaveWrite, Raced, AtStage
    <3>2. worker[p] # None /\ worker'[p] # None => worker'[p].for = worker[p].for
      <4>1. CASE \E stage \in {"write", "raced", "ack", "nak"} : Goes(q, stage)
        BY <3>1, <4>1, GoesOn DEF TypeOK
      <4>2. CASE worker' = [worker EXCEPT ![q].stage = "write",
                                          ![q].base = profile[worker[q].for]]
        BY <3>1, <4>2 DEF TypeOK, Job
      <4> QED
        BY <2>6, <4>1, <4>2 DEF SaveSelect, SaveWrite, Raced
    <3>3. worker'[p] # None => worker[p] # None
      BY <2>6, <3>1 DEF SaveSelect, SaveWrite, Raced, Goes, TypeOK
    <3> QED
      BY <2>3, <3>1, <3>2, <3>3 DEF KnownFirst
  <2>7. ASSUME NEW q \in Processes, Settle(q) \/ Restart(q) PROVE Mine
    BY <2>3, <2>7 DEF Settle, Restart, KnownFirst, TypeOK
  <2>8. ASSUME UNCHANGED <<copies, worker>> PROVE Mine
    BY <2>3, <2>8 DEF KnownFirst
  <2> HIDE DEF Mine
  <2>9. Mine
    BY <2>4, <2>5, <2>6, <2>7, <2>8
    DEF Next, vars, Handler, Signup, Seed, SeedInsert, Publish, PublishFails, AckWait,
        AgeOut, EditProfile, PurgeUser, DeleteCredentials
  <2> QED
    BY <2>1, <2>9
<1> QED
  BY <1>3, <1>4, <1>5, <1>6 DEF KnownFirst

\* A handler that gets to the ack finds the account settled, and it stays so.
LEMMA SeenStays ==
  ASSUME FanoutInv, [Next]_vars, NEW p \in Processes, HasSeen(p)'
  PROVE  Settled(worker[p].for)'
<1> USE DEF FanoutInv
<1> DEFINE Same == HasSeen(p) /\ worker'[p].for = worker[p].for
           Fine == \E a \in Accounts :
                     a = worker'[p].for /\ (Settled(a) \/ Settled(a)')
<1>1. Fine => Settled(worker[p].for)'
  <2>1. ASSUME NEW a \in Accounts, a = worker'[p].for, Settled(a)'
        PROVE  Settled(worker[p].for)'
    BY <2>1 DEF Settled, Reused
  <2> QED
    BY <2>1, SettledStays
<1>2. \A a \in Accounts : Known(a) /\ (\E b \in Accounts : Matches(b, a)) => Settled(a)
  BY FoundSettles
<1>3. Same => Fine
  BY DEF AckSettled, HasSeen, TypeOK, Job
<1>4. ASSUME worker'[p] = worker[p] PROVE Same
  BY <1>4 DEF HasSeen
<1>5. ASSUME NEW a \in Accounts, Take(p, a) PROVE Fine
  <2>1. worker'[p].for = a /\ \E b \in Accounts : Matches(b, a)
    BY <1>5 DEF Take, TypeOK, HasSeen
  <2>2. Known(a)
    BY <1>5 DEF Take, KnownFirst
  <2> QED
    BY <2>1, <2>2, <1>2
<1>6. ASSUME NEW stage \in {"raced", "ack", "nak"}, worker[p] # None, Goes(p, stage),
             stage # "ack"
      PROVE  Same
  BY <1>6, GoesOn DEF HasSeen, TypeOK
<1>7. ASSUME SaveSelect(p), ~Goes(p, "raced") PROVE Fine
  <2> DEFINE a == worker[p].for
  <2>1. a \in Accounts /\ worker[p] # None
    BY <1>7 DEF SaveSelect, AtStage, TypeOK, Job
  <2>2. worker'[p].for = a /\ worker'[p].stage = "write" /\ worker'[p].base = profile[a]
    <3> DEFINE job == [for |-> a, stage |-> "write", base |-> profile[a]]
    <3>1. worker[p] \in Job
      BY <2>1 DEF TypeOK
    <3>2. worker' = [worker EXCEPT ![p] = job]
      BY <1>7, <3>1 DEF SaveSelect, Job
    <3> QED
      BY <3>2 DEF TypeOK
  <2> QED
    BY <2>1, <2>2 DEF HasSeen, Settled
<1>8. ASSUME SaveWrite(p), ~Goes(p, "raced") PROVE Fine
  <2>1. worker[p] # None /\ worker[p].for \in Accounts /\ Goes(p, "ack")
    BY <1>8 DEF SaveWrite, AtStage, TypeOK, Job
  <2>2. worker'[p].for = worker[p].for
    BY <2>1, GoesOn DEF TypeOK
  <2>3. CASE worker[p].base # None
    BY <2>1, <2>2, <2>3 DEF AckSettled, HasSeen
  <2>4. CASE worker[p].base = None
    <3>1. profile'[worker[p].for] = "signup"
      BY <1>8, <2>1, <2>4 DEF SaveWrite, Saved, TypeOK
    <3>2. profile'[worker[p].for] # None
      BY <3>1, FanoutAssumption DEF Written
    <3> QED
      BY <2>1, <2>2, <3>2 DEF Settled
  <2> QED
    BY <2>3, <2>4
<1>9. ASSUME Raced(p), ~Goes(p, "nak") PROVE Fine
  <2>1. /\ worker[p] # None /\ worker[p].for \in Accounts /\ Goes(p, "ack")
        /\ \E b \in Accounts : Matches(b, worker[p].for)
    BY <1>9 DEF Raced, AtStage, TypeOK, Job
  <2>2. worker'[p].for = worker[p].for
    BY <2>1, GoesOn DEF TypeOK
  <2>3. Known(worker[p].for)
    BY <2>1 DEF KnownFirst
  <2> QED
    BY <2>1, <2>2, <2>3, <1>2
<1>10. ~Settle(p) /\ ~Restart(p)
  BY DEF Settle, Restart, HasSeen, TypeOK
<1>11. ASSUME NEW q \in Processes, q # p, Handler(q) \/ Restart(q)
       PROVE  worker'[p] = worker[p]
  <2>1. ASSUME NEW stage \in {"raced", "ack", "nak"}, Goes(q, stage)
        PROVE  worker'[p] = worker[p]
    BY <1>11, <2>1 DEF Goes, TypeOK
  <2>2. CASE (\E a \in Accounts : Take(q, a)) \/ Settle(q) \/ Restart(q)
    BY <1>11, <2>2 DEF Take, Settle, Restart, TypeOK
  <2>3. CASE SaveSelect(q)
    BY <1>11, <2>1, <2>3 DEF SaveSelect, TypeOK
  <2>4. CASE SaveWrite(q) \/ Raced(q)
    BY <2>1, <2>4 DEF SaveWrite, Raced
  <2> QED
    BY <1>11, <2>2, <2>3, <2>4 DEF Handler
<1>12. ASSUME Handler(p) \/ Restart(p) PROVE Same \/ Fine
  <2>1. CASE SaveSelect(p) \/ SaveWrite(p) \/ Raced(p)
    <3>1. worker[p] # None
      BY <2>1 DEF SaveSelect, SaveWrite, Raced, AtStage
    <3> QED
      BY <2>1, <3>1, <1>6, <1>7, <1>8, <1>9
  <2> QED
    BY <2>1, <1>5, <1>10, <1>12 DEF Handler
<1>13. ASSUME UNCHANGED worker PROVE Same
  BY <1>4, <1>13
<1> HIDE DEF Same, Fine
<1>14. Same \/ Fine
  BY <1>4, <1>11, <1>12, <1>13
  DEF Next, vars, Signup, Seed, SeedInsert, Publish, PublishFails, AckWait, AgeOut,
      EditProfile, PurgeUser, DeleteCredentials, Deliver
<1> QED
  BY <1>1, <1>3, <1>14

\* Acks are sent only by such handlers.
LEMMA AckStays ==
  ASSUME FanoutInv, [Next]_vars
  PROVE  AckSettled'
<1> USE DEF FanoutInv
<1>1. ASSUME NEW a \in Accounts, event'[a].state = "acked" PROVE Settled(a)'
  <2>1. CASE event[a].state = "acked"
    BY <2>1, SettledStays DEF AckSettled
  <2>2. CASE event[a].state # "acked"
    <3>1. ASSUME NEW p \in Processes, Settle(p) PROVE Settled(a)
      <4>1. worker[p] # None /\ worker[p].for \in Accounts
        BY <3>1 DEF Settle, TypeOK, Job
      <4>2. ASSUME NEW b \in Accounts, b # a, NEW state,
                   event' = [event EXCEPT ![b].state = state]
            PROVE  FALSE
        BY <1>1, <2>2, <4>2 DEF TypeOK
      <4>3. event' # event
        BY <1>1, <2>2
      <4>4. event' = [event EXCEPT ![a].state = "pending"] => event'[a].state = "pending"
        BY DEF TypeOK, Event
      <4>5. worker[p].for = a /\ worker[p].stage = "ack"
        BY <1>1, <3>1, <4>1, <4>2, <4>3, <4>4 DEF Settle
      <4> QED
        BY <4>1, <4>5 DEF AckSettled, HasSeen
    <3>2. ASSUME NEW b \in Accounts,
                 \/ Publish(b) \/ AckWait(b) \/ AgeOut(b)
                 \/ \E p \in Processes : Deliver(p, b)
          PROVE  FALSE
      BY <1>1, <2>2, <3>2 DEF Publish, AckWait, AgeOut, Deliver, TypeOK, Event
    <3>3. ASSUME UNCHANGED event PROVE FALSE
      BY <3>3, <1>1, <2>2
    <3>4. Settled(a)
      BY <3>1, <3>2, <3>3
      DEF Next, vars, Handler, Signup, Seed, SeedInsert, PublishFails, EditProfile,
          PurgeUser, DeleteCredentials, Take, SaveSelect, SaveWrite, Raced, Restart
    <3> QED
      BY <3>4, SettledStays
  <2> QED
    BY <2>1, <2>2
<1> QED
  BY <1>1, SeenStays DEF AckSettled

\* The invariant holds in every state.
LEMMA FanoutInvHolds == Spec => []FanoutInv
<1>1. Spec => []TypeOK
  BY TypeCorrect
<1>2. Init => KnownFirst /\ UniqueEmails /\ AckSettled
  BY DEF Init, KnownFirst, Known, UniqueEmails, HasRow, AckSettled, HasSeen
<1>3. FanoutInv /\ [Next]_vars => (KnownFirst /\ UniqueEmails /\ AckSettled)'
  BY KnownStays, UniqueStays, AckStays DEF FanoutInv
<1> QED
  BY <1>1, <1>2, <1>3, PTL DEF Spec, FanoutInv

\* An event that was acked belongs to an account that has its profile, is being
\* deleted, or has the email of a deleted one.
THEOREM AckedMeansProfileHolds == Spec => []AckedMeansProfile
<1>1. FanoutInv => AckedMeansProfile
  BY DEF FanoutInv, AckSettled, Settled, AckedMeansProfile
<1> QED
  BY <1>1, FanoutInvHolds, PTL

-------------------------------------------------------------------------------
\* Redelivery to one consumer.

OneConsumer == \A p, q \in Processes : p = q

\* Between createUser's first query and its write nobody else creates the row.
Unwritten ==
  \A p \in Processes :
    AtStage(p, "save") \/ AtStage(p, "write") =>
      profile[worker[p].for] = None /\ worker[p].base = None

\* The only consumer is the only one that creates rows.
LEMMA UnwrittenStays ==
  ASSUME TypeOK, OneConsumer, Unwritten, [Next]_vars
  PROVE  Unwritten'
<1> SUFFICES ASSUME NEW p \in Processes, (AtStage(p, "save") \/ AtStage(p, "write"))'
             PROVE  profile'[worker'[p].for] = None /\ worker'[p].base = None
  BY DEF Unwritten
<1>1. ASSUME NEW a \in Accounts, Take(p, a)
      PROVE  profile'[worker'[p].for] = None /\ worker'[p].base = None
  BY <1>1 DEF Take, Matches, AtStage, TypeOK
<1>2. ASSUME SaveSelect(p)
      PROVE  profile'[worker'[p].for] = None /\ worker'[p].base = None
  BY <1>2 DEF SaveSelect, Unwritten, AtStage, Goes, TypeOK, Job
<1>3. ASSUME SaveWrite(p) \/ Raced(p) \/ Settle(p) \/ Restart(p) PROVE FALSE
  BY <1>3 DEF SaveWrite, Raced, Settle, Restart, AtStage, Goes, TypeOK, Job
<1>4. ASSUME worker' = worker, profile[worker[p].for] = None => profile'[worker[p].for] = None
      PROVE  profile'[worker'[p].for] = None /\ worker'[p].base = None
  BY <1>4 DEF Unwritten, AtStage
<1>5. CASE UNCHANGED <<worker, profile>>
  BY <1>4, <1>5
<1>6. ASSUME NEW a \in Accounts, EditProfile(a) \/ PurgeUser(a)
      PROVE  /\ worker' = worker
             /\ profile[worker[p].for] = None => profile'[worker[p].for] = None
  <2>1. worker' = worker
    BY <1>6 DEF EditProfile, PurgeUser
  <2>2. worker[p].for \in Accounts
    BY <2>1 DEF AtStage, TypeOK, Job
  <2> QED
    BY <1>6, <2>1, <2>2 DEF EditProfile, PurgeUser, TypeOK
<1> QED
  BY <1>1, <1>2, <1>3, <1>4, <1>5, <1>6
  DEF Next, vars, Handler, Signup, Seed, SeedInsert, Publish, PublishFails, AckWait,
      AgeOut, DeleteCredentials, Deliver, OneConsumer

\* So it is in every state.
LEMMA UnwrittenHolds ==
  ASSUME OneConsumer
  PROVE  Spec => []Unwritten
<1>1. Init => Unwritten
  BY DEF Init, Unwritten, AtStage
<1>2. TypeOK /\ Unwritten /\ [Next]_vars => Unwritten'
  BY UnwrittenStays
<1> QED
  BY <1>1, <1>2, TypeCorrect, PTL DEF Spec

\* A write of createUser creates the row, where none has its id or its email, or
\* leaves the table as it is.
LEMMA WriteCreates ==
  ASSUME TypeOK, Unwritten, NEW p \in Processes, SaveWrite(p)
  PROVE  /\ worker[p] # None /\ worker[p].for \in Accounts
         /\ \/ profile' = profile
            \/ /\ profile' = [profile EXCEPT ![worker[p].for] = "signup"]
               /\ \A b \in Accounts : ~Matches(b, worker[p].for)
<1>1. worker[p] # None /\ worker[p].for \in Accounts /\ worker[p].base = None
  BY DEF SaveWrite, AtStage, Unwritten, TypeOK, Job
<1> QED
  BY <1>1 DEF SaveWrite, Saved

\* With one consumer, as deployed, no redelivery of the event, whatever was lost or
\* failed before, overwrites what the user wrote into the profile.
THEOREM EditsSurviveRedeliveryHolds ==
  ASSUME OneConsumer
  PROVE  Spec => EditsSurviveRedelivery
<1>1. Spec => []TypeOK
  BY TypeCorrect
<1>2. Spec => []Unwritten
  BY UnwrittenHolds
<1>3. TypeOK /\ Unwritten /\ [Next]_vars =>
        [\A a \in Accounts : profile[a] = "edited" => profile'[a] # "signup"]_vars
  <2> SUFFICES ASSUME TypeOK, Unwritten, [Next]_vars, NEW a \in Accounts,
                      profile[a] = "edited", profile'[a] = "signup"
               PROVE  FALSE
    OBVIOUS
  <2>1. ASSUME NEW p \in Processes, SaveWrite(p) PROVE FALSE
    <3>1. /\ worker[p].for \in Accounts
          /\ \/ profile' = profile
             \/ /\ profile' = [profile EXCEPT ![worker[p].for] = "signup"]
                /\ \A b \in Accounts : ~Matches(b, worker[p].for)
      BY <2>1, WriteCreates
    <3>2. Matches(a, a)
      BY FanoutAssumption DEF Matches, Written
    <3> QED
      BY <3>1, <3>2, FanoutAssumption DEF TypeOK, Written
  <2>2. ASSUME NEW b \in Accounts, EditProfile(b) \/ PurgeUser(b) PROVE FALSE
    BY <2>2, FanoutAssumption DEF EditProfile, PurgeUser, TypeOK, Written
  <2>3. profile' # profile
    OBVIOUS
  <2> QED
    BY <2>1, <2>2, <2>3
    DEF Next, vars, Handler, Signup, Seed, SeedInsert, Publish, PublishFails, AckWait,
        AgeOut, DeleteCredentials, Deliver, Take, SaveSelect, Raced, Settle, Restart
<1> QED
  BY <1>1, <1>2, <1>3, PTL DEF Spec, EditsSurviveRedelivery

-------------------------------------------------------------------------------
\* What the steps are in Provisioning.

\* Until the request publishes it there is no event.
Unpublished ==
  \A a \in Accounts :
    request[a] \in {"idle", "seed", "publish"} => event[a].state = "none"

LEMMA UnpublishedStays ==
  ASSUME TypeOK, Unpublished, [Next]_vars
  PROVE  Unpublished'
<1> SUFFICES ASSUME NEW a \in Accounts, request'[a] \in {"idle", "seed", "publish"}
             PROVE  event'[a].state = "none"
  BY DEF Unpublished
<1>1. request[a] \in {"idle", "seed", "publish"}
  <2>1. ASSUME NEW b \in Accounts, Signup(b) \/ Seed(b) \/ SeedInsert(b)
        PROVE  request[a] \in {"idle", "seed", "publish"}
    BY <2>1 DEF Signup, Seed, SeedInsert, Insert, TypeOK
  <2>2. ASSUME NEW b \in Accounts, Publish(b) \/ PublishFails(b)
        PROVE  request[a] \in {"idle", "seed", "publish"}
    BY <2>2 DEF Publish, PublishFails, TypeOK
  <2>3. CASE UNCHANGED request
    BY <2>3
  <2> QED
    BY <2>1, <2>2, <2>3
    DEF Next, vars, Handler, AckWait, AgeOut, EditProfile, PurgeUser,
        DeleteCredentials, Deliver, Take, SaveSelect, SaveWrite, Raced, Settle, Restart
<1>2. event[a].state = "none"
  BY <1>1 DEF Unpublished
<1>3. ASSUME NEW b \in Accounts, Publish(b) PROVE event'[a] = event[a]
  BY <1>3 DEF Publish, TypeOK
<1>4. ASSUME NEW b \in Accounts,
             AckWait(b) \/ AgeOut(b) \/ \E p \in Processes : Deliver(p, b)
      PROVE  event'[a] = event[a]
  BY <1>2, <1>4 DEF AckWait, AgeOut, Deliver, TypeOK
<1>5. ASSUME NEW p \in Processes, Settle(p) PROVE event'[a] = event[a]
  BY <1>2, <1>5 DEF Settle, TypeOK
<1>6. CASE UNCHANGED event
  BY <1>2, <1>6
<1> QED
  BY <1>2, <1>3, <1>4, <1>5, <1>6
  DEF Next, vars, Handler, Signup, Seed, SeedInsert, PublishFails, EditProfile,
      PurgeUser, DeleteCredentials, Take, SaveSelect, SaveWrite, Raced, Restart

Acked == {a \in Accounts : event[a].state = "acked"}

\* Only the ack of a handler changes which signups are done.
LEMMA AckedSteps ==
  ASSUME TypeOK, Unpublished, [Next]_vars
  PROVE  \/ Acked' = Acked
         \/ \E p \in Processes :
              /\ Settle(p) /\ HasSeen(p)
              /\ Acked' = Acked \cup {worker[p].for}
<1> DEFINE Same == \A a \in Accounts : event'[a].state = "acked" <=> event[a].state = "acked"
<1>1. Same => Acked' = Acked
  BY DEF Acked
<1>2. ASSUME NEW b \in Accounts, NEW state \in {"pending", "dropped"},
             event' = [event EXCEPT ![b].state = state], event[b].state # "acked"
      PROVE  Same
  BY <1>2 DEF TypeOK, Event
<1>3. ASSUME NEW b \in Accounts, Publish(b) PROVE Same
  <2>1. event[b].state = "none"
    BY <1>3 DEF Publish, Unpublished
  <2> QED
    BY <1>2, <1>3, <2>1 DEF Publish
<1>4. ASSUME NEW b \in Accounts, AckWait(b) \/ AgeOut(b) PROVE Same
  BY <1>2, <1>4 DEF AckWait, AgeOut
<1>5. ASSUME NEW b \in Accounts, NEW p \in Processes, Deliver(p, b) PROVE Same
  BY <1>5 DEF Deliver, TypeOK
<1>6. ASSUME NEW p \in Processes, Settle(p)
      PROVE  Same \/ (HasSeen(p) /\ Acked' = Acked \cup {worker[p].for})
  <2>1. worker[p] # None /\ worker[p].for \in Accounts
    BY <1>6 DEF Settle, TypeOK, Job
  <2>2. CASE worker[p].stage = "ack" /\ event' = [event EXCEPT ![worker[p].for].state = "acked"]
    <3>1. \A a \in Accounts :
            event'[a].state = "acked" <=> a = worker[p].for \/ event[a].state = "acked"
      BY <2>1, <2>2 DEF TypeOK, Event
    <3> QED
      BY <2>1, <2>2, <3>1 DEF Acked, HasSeen
  <2>3. CASE event[worker[p].for].state = "out"
               /\ event' = [event EXCEPT ![worker[p].for].state = "pending"]
    BY <1>2, <2>1, <2>3
  <2> QED
    BY <1>6, <2>1, <2>2, <2>3 DEF Settle
<1>7. ASSUME UNCHANGED event PROVE Same
  BY <1>7
<1> HIDE DEF Same
<1> QED
  BY <1>1, <1>3, <1>4, <1>5, <1>6, <1>7
  DEF Next, vars, Handler, Signup, Seed, SeedInsert, PublishFails, EditProfile,
      PurgeUser, DeleteCredentials, Take, SaveSelect, SaveWrite, Raced, Restart

\* What changes neither the rows nor the acked events cannot be seen there.
LEMMA SameIsStutter ==
  ASSUME UNCHANGED <<cred, profile>>, Acked' = Acked
  PROVE  UNCHANGED Provision!vars
BY DEF Provision!vars, Acked

\* The unique index lets the INSERT in when no account has the email.
LEMMA InsertSignsUp ==
  ASSUME TypeOK, KnownFirst, NEW a \in Accounts, Insert(a),
         request[a] \in {"idle", "seed"}, UNCHANGED <<event, profile>>
  PROVE  Provision!SignUp(a)
<1>1. cred[a] = "absent"
  BY DEF KnownFirst, Known
<1>2. \A b \in Provision!Alike(a) : cred[b] \in {"absent", "gone"}
  BY DEF Insert, Taken, HasRow, TypeOK, CredStates, Provision!Alike
<1> QED
  BY <1>1, <1>2 DEF Insert, Provision!SignUp

\* Of the events only their acks are visible.
LEMMA ProvisionStep ==
  ASSUME FanoutInv, Unwritten, Unpublished, [Next]_vars
  PROVE  [Provision!Next]_(Provision!vars)
<1> USE DEF FanoutInv
<1> DEFINE Goal == (\E a \in Accounts :
                     \/ Provision!SignUp(a) \/ Provision!Create(a)
                     \/ Provision!Edit(a) \/ Provision!Purge(a)
                     \/ Provision!Leave(a) \/ Provision!Finish(a))
                   \/ UNCHANGED Provision!vars
<1>1. Goal => [Provision!Next]_(Provision!vars)
  BY DEF Provision!Next
<1>2. ASSUME NEW a \in Accounts, Signup(a) \/ SeedInsert(a) PROVE Goal
  <2>1. CASE Insert(a)
    BY <1>2, <2>1, InsertSignsUp DEF Signup, SeedInsert
  <2>2. CASE UNCHANGED <<cred, event, profile>>
    BY <2>2 DEF Provision!vars
  <2> QED
    BY <1>2, <2>1, <2>2 DEF Signup, SeedInsert
<1>3. ASSUME UNCHANGED <<cred, profile>>, ~\E p \in Processes : Settle(p) PROVE Goal
  BY <1>3, AckedSteps, SameIsStutter
<1>4. ASSUME NEW p \in Processes, SaveWrite(p) PROVE Goal
  <2>1. UNCHANGED <<cred, event>>
    BY <1>4 DEF SaveWrite
  <2>2. CASE profile' = profile
    BY <2>1, <2>2 DEF Provision!vars
  <2>3. CASE profile' # profile
    <3> DEFINE a == worker[p].for
    <3>1. /\ a \in Accounts /\ worker[p] # None
          /\ profile' = [profile EXCEPT ![a] = "signup"]
          /\ \A b \in Accounts : ~Matches(b, a)
      BY <1>4, <2>3, WriteCreates
    <3>2. cred[a] # "absent"
      BY <3>1 DEF KnownFirst, Known
    <3>3. \A b \in Provision!Alike(a) : profile[b] = None
      BY <3>1 DEF Matches, Provision!Alike
    <3>4. Provision!Create(a)
      BY <2>1, <3>1, <3>2, <3>3 DEF Provision!Create
    <3> QED
      BY <3>1, <3>4
  <2> QED
    BY <2>2, <2>3
<1>5. ASSUME NEW p \in Processes, Settle(p) PROVE Goal
  <2>1. UNCHANGED <<cred, profile>>
    BY <1>5 DEF Settle
  <2>2. CASE Acked' = Acked
    BY <2>1, <2>2, SameIsStutter
  <2>3. ASSUME NEW q \in Processes, Settle(q), HasSeen(q),
               Acked' = Acked \cup {worker[q].for}
        PROVE  Goal
    <3>0. PICK a \in Accounts : a = worker[q].for
      BY <2>3 DEF HasSeen, TypeOK, Job
    <3>1. Settled(a)
      BY <2>3, <3>0 DEF AckSettled
    <3>2. \/ profile[a] # None
          \/ cred[a] \in {"leaving", "gone"}
          \/ \E b \in Provision!Alike(a) \ {a} : cred[b] = "gone"
      BY <3>1 DEF Settled, Reused, Provision!Alike
    <3>3. Provision!Finish(a)
      BY <2>1, <2>3, <3>0, <3>2 DEF Provision!Finish, Acked
    <3> QED
      BY <3>3
  <2> QED
    BY <2>2, <2>3, AckedSteps
<1>6. ASSUME NEW a \in Accounts, EditProfile(a) \/ PurgeUser(a) \/ DeleteCredentials(a)
      PROVE  Provision!Edit(a) \/ Provision!Purge(a) \/ Provision!Leave(a)
  BY <1>6 DEF EditProfile, PurgeUser, DeleteCredentials,
              Provision!Edit, Provision!Purge, Provision!Leave
<1> HIDE DEF Goal
<1>7. Goal
  <2>1. ASSUME NEW a \in Accounts, EditProfile(a) \/ PurgeUser(a) \/ DeleteCredentials(a)
        PROVE  Goal
    BY <1>6, <2>1 DEF Goal
  <2> QED
    BY <1>2, <1>3, <1>4, <1>5, <2>1
    DEF Next, vars, Handler, Seed, Publish, PublishFails, AckWait, AgeOut, Deliver,
        Take, SaveSelect, Raced, Restart
<1> QED
  BY <1>1, <1>7

\* With one consumer the fan-out implements Provisioning: whatever the stream loses
\* or repeats, a profile is created in one step for an account that was inserted,
\* not where one of its email is, and no signup is done with too early.
THEOREM ImplementsProvisioningHolds ==
  ASSUME OneConsumer
  PROVE  Spec => ImplementsProvisioning
<1>1. Init => Provision!Init /\ Unpublished
  BY DEF Init, Provision!Init, Unpublished
<1>2. Spec => []Unwritten
  BY UnwrittenHolds
<1>3. TypeOK /\ Unpublished /\ [Next]_vars => Unpublished'
  BY UnpublishedStays
<1>4. FanoutInv => TypeOK
  BY DEF FanoutInv
<1> QED
  BY <1>1, <1>2, <1>3, <1>4, FanoutInvHolds, ProvisionStep, PTL
  DEF Spec, ImplementsProvisioning, Provision!Spec
===============================================================================
