----------------------------- MODULE SignupFanout -----------------------------
(***************************************************************************)
(* From a credential row to a profile.  The authentication service inserts *)
(* the row and then publishes an event; JetStream stores it and delivers   *)
(* it to the users service, again when it is not acked, but not for ever;  *)
(* there createUser inserts the profile, unless it finds one by id or by   *)
(* email.                                                                  *)
(*                                                                         *)
(* What the user does with the account meanwhile, editing the profile and  *)
(* deleting the account, is one step per row here: AccountDeletion has the *)
(* calls of a deletion.                                                    *)
(***************************************************************************)
EXTENDS Integers

CONSTANTS
  Accounts,    \* ids that the authentication service generates
  EmailOf,     \* the email each of them signs up with
  AdminEmail,  \* ADMIN_EMAIL
  Processes,   \* processes of the users service, two while one replaces another
  MaxDeliver,  \* max_deliver of the consumer
  None         \* no row, or no job

Written == {"signup", "edited"}  \* what a profile holds: the names of the
                                 \* event, or those its user has put there

ASSUME FanoutAssumption ==
  /\ MaxDeliver \in Nat \ {0}
  /\ None \notin Written

VARIABLES
  cred,     \* the credential row of each account
  request,  \* the signup or seedAdmin that makes the account
  event,    \* its event in the stream: its state, and how often it was delivered
  copies,   \* deliveries that a process holds and has not begun to handle
  worker,   \* the delivery that each process handles
  profile   \* the row in users of each account

vars == <<cred, request, event, copies, worker, profile>>

\* "leaving": a deletion of the account has purged its profile.
CredStates == {"absent", "active", "leaving", "gone"}
Requests == {"idle", "seed", "publish", "done", "failed"}

\* "pending": to be delivered; "out": delivered, its ack is awaited;
\* "dropped": older than max_age.
Event == [state : {"none", "pending", "out", "acked", "dropped"},
          count : 0..MaxDeliver]

\* The stage a handler waits in, and what save's SELECT has found.
Job == [for : Accounts, stage : {"save", "write", "raced", "ack", "nak"},
        base : Written \cup {None}]

ASSUME NoJobAssumption == None \notin Job

Init ==
  /\ cred = [a \in Accounts |-> "absent"]
  /\ request = [a \in Accounts |-> "idle"]
  /\ event = [a \in Accounts |-> [state |-> "none", count |-> 0]]
  /\ copies = [p \in Processes |-> [a \in Accounts |-> 0]]
  /\ worker = [p \in Processes |-> None]
  /\ profile = [a \in Accounts |-> None]

HasRow(a) == cred[a] \in {"active", "leaving"}
Taken(email) == \E a \in Accounts : EmailOf[a] = email /\ HasRow(a)

-------------------------------------------------------------------------------
\* The authentication service.

\* The INSERT, which the unique index on the email may refuse.
Insert(a) ==
  /\ ~Taken(EmailOf[a])
  /\ cred' = [cred EXCEPT ![a] = "active"]
  /\ request' = [request EXCEPT ![a] = "publish"]

Signup(a) ==
  /\ request[a] = "idle"
  /\ Insert(a)
  /\ UNCHANGED <<event, copies, worker, profile>>

\* seedAdmin looks for the row when the service starts ...
Seed(a) ==
  /\ request[a] = "idle"
  /\ EmailOf[a] = AdminEmail
  /\ ~Taken(AdminEmail)
  /\ request' = [request EXCEPT ![a] = "seed"]
  /\ UNCHANGED <<cred, event, copies, worker, profile>>

\* ... and inserts it.  Someone may have signed up with the email: the service
\* does not start, and looks again when it is started again.
SeedInsert(a) ==
  /\ request[a] = "seed"
  /\ \/ Insert(a)
     \/ /\ Taken(AdminEmail)
        /\ request' = [request EXCEPT ![a] = "idle"]
        /\ UNCHANGED cred
  /\ UNCHANGED <<event, copies, worker, profile>>

\* The stream stores the event.  Its answer may be lost: the caller is told of an
\* error, and nothing is undone.
Publish(a) ==
  /\ request[a] = "publish"
  /\ event' = [event EXCEPT ![a].state = "pending"]
  /\ \E told \in {"done", "failed"} : request' = [request EXCEPT ![a] = told]
  /\ UNCHANGED <<cred, copies, worker, profile>>

\* The stream does not store it, or the service stops after the INSERT.
PublishFails(a) ==
  /\ request[a] = "publish"
  /\ request' = [request EXCEPT ![a] = "failed"]
  /\ UNCHANGED <<cred, event, copies, worker, profile>>

-------------------------------------------------------------------------------
\* JetStream.

\* Mutant: a delivery counts as acked (no explicit ack policy).
DeliverAcked(p, a) ==
  /\ event[a].state = "pending"
  /\ event[a].count < MaxDeliver
  /\ event' = [event EXCEPT ![a] = [state |-> "acked", count |-> @.count + 1]]
  /\ copies' = [copies EXCEPT ![p][a] = @ + 1]
  /\ UNCHANGED <<cred, request, worker, profile>>

\* Mutant: the consumer has no max_deliver.
DeliverForever(p, a) ==
  /\ event[a].state = "pending"
  /\ event' = [event EXCEPT ![a] = [state |-> "out", count |-> @.count + 1]]
  /\ copies' = [copies EXCEPT ![p][a] = @ + 1]
  /\ UNCHANGED <<cred, request, worker, profile>>

\* A process pulls messages ahead of the one it handles.
Deliver(p, a) ==
  /\ event[a].state = "pending"
  /\ event[a].count < MaxDeliver
  /\ event' = [event EXCEPT ![a] = [state |-> "out", count |-> @.count + 1]]
  /\ copies' = [copies EXCEPT ![p][a] = @ + 1]
  /\ UNCHANGED <<cred, request, worker, profile>>

\* The ack does not come in time (the first backoff is 2 s): the message is due
\* again, also if a process still holds it.
AckWait(a) ==
  /\ event[a].state = "out"
  /\ event[a].count < MaxDeliver
  /\ event' = [event EXCEPT ![a].state = "pending"]
  /\ UNCHANGED <<cred, request, copies, worker, profile>>

\* max_age, seven days.
AgeOut(a) ==
  /\ event[a].state \in {"pending", "out"}
  /\ event' = [event EXCEPT ![a].state = "dropped"]
  /\ UNCHANGED <<cred, request, copies, worker, profile>>

-------------------------------------------------------------------------------
\* The users service: the consumer's loop and createUser.

\* Mutant: neither the query nor an index looks at the email.
MatchesById(b, a) == profile[b] # None /\ b = a

\* Could the row that findByIdOrEmail returns be that of b?
Matches(b, a) == profile[b] # None /\ (b = a \/ EmailOf[b] = EmailOf[a])

Goes(p, stage) == worker' = [worker EXCEPT ![p].stage = stage]

\* Mutant: createUser saves without looking.
TakeBlind(p, a) ==
  /\ worker[p] = None
  /\ copies[p][a] > 0
  /\ copies' = [copies EXCEPT ![p][a] = @ - 1]
  /\ worker' = [worker EXCEPT ![p] = [for |-> a, stage |-> "save", base |-> None]]
  /\ UNCHANGED <<cred, request, event, profile>>

\* The next message, and createUser's first query.
Take(p, a) ==
  /\ worker[p] = None
  /\ copies[p][a] > 0
  /\ copies' = [copies EXCEPT ![p][a] = @ - 1]
  /\ \E stage \in {"ack", "save", "nak"} :
       /\ stage = "ack" => \E b \in Accounts : Matches(b, a)
       /\ stage = "save" => ~\E b \in Accounts : Matches(b, a)
       /\ worker' = [worker EXCEPT ![p] = [for |-> a, stage |-> stage, base |-> None]]
  /\ UNCHANGED <<cred, request, event, profile>>

AtStage(p, stage) == worker[p] # None /\ worker[p].stage = stage

\* save reads the row by its id first; an error is caught.
SaveSelect(p) ==
  /\ AtStage(p, "save")
  /\ \/ worker' = [worker EXCEPT ![p].stage = "write",
                                 ![p].base = profile[worker[p].for]]
     \/ Goes(p, "raced")
  /\ UNCHANGED <<cred, request, event, copies, profile>>

\* It inserts the row, if neither its id nor its email is there, or updates the
\* columns that differ from the one it read, if that is there still.
Saved(a, base) ==
  IF base = None
  THEN [profile EXCEPT ![a] = "signup"]
  ELSE [profile EXCEPT ![a] = IF base = "edited" /\ @ # None THEN "signup" ELSE @]

SaveWrite(p) ==
  LET a == worker[p].for
      base == worker[p].base
      refused == base = None /\ \E b \in Accounts : Matches(b, a)
  IN /\ AtStage(p, "write")
     /\ \/ refused /\ Goes(p, "raced") /\ UNCHANGED profile
        \/ ~refused /\ Goes(p, "ack") /\ profile' = Saved(a, base)
        \* The query fails, or only its answer is lost.
        \/ ~refused /\ Goes(p, "raced") /\ profile' = Saved(a, base)
        \/ Goes(p, "raced") /\ UNCHANGED profile
     /\ UNCHANGED <<cred, request, event, copies>>

\* Mutant: an error of save is taken for a row that is there already.
RacedUnseen(p) ==
  /\ AtStage(p, "raced")
  /\ Goes(p, "ack")
  /\ UNCHANGED <<cred, request, event, copies, profile>>

\* After an error it looks again.
Raced(p) ==
  /\ AtStage(p, "raced")
  /\ \/ (\E b \in Accounts : Matches(b, worker[p].for)) /\ Goes(p, "ack")
     \/ Goes(p, "nak")
  /\ UNCHANGED <<cred, request, event, copies, profile>>

\* ack, and nak, after which the message is due at once.  Either may be lost.
Settle(p) ==
  /\ worker[p] # None
  /\ LET a == worker[p].for
     IN \/ /\ worker[p].stage = "ack"
           /\ event[a].state \in {"pending", "out"}
           /\ event' = [event EXCEPT ![a].state = "acked"]
        \/ /\ worker[p].stage = "nak"
           /\ event[a].state = "out"
           /\ event' = [event EXCEPT ![a].state = "pending"]
        \/ /\ worker[p].stage \in {"ack", "nak"}
           /\ UNCHANGED event
  /\ worker' = [worker EXCEPT ![p] = None]
  /\ UNCHANGED <<cred, request, copies, profile>>

\* The process stops, and is started again or replaced.
Restart(p) ==
  /\ worker' = [worker EXCEPT ![p] = None]
  /\ copies' = [copies EXCEPT ![p] = [a \in Accounts |-> 0]]
  /\ UNCHANGED <<cred, request, event, profile>>

-------------------------------------------------------------------------------
\* The user.

EditProfile(a) ==
  /\ profile[a] # None
  /\ profile' = [profile EXCEPT ![a] = "edited"]
  /\ UNCHANGED <<cred, request, event, copies, worker>>

\* A deletion purges the profile, also one of an account that is gone already ...
PurgeUser(a) ==
  /\ cred[a] # "absent"
  /\ cred' = [cred EXCEPT ![a] = IF @ = "active" THEN "leaving" ELSE @]
  /\ profile' = [profile EXCEPT ![a] = None]
  /\ UNCHANGED <<request, event, copies, worker>>

\* ... and then the credentials, which frees the email.
DeleteCredentials(a) ==
  /\ cred[a] = "leaving"
  /\ cred' = [cred EXCEPT ![a] = "gone"]
  /\ UNCHANGED <<request, event, copies, worker, profile>>

Handler(p) ==
  \/ \E a \in Accounts : Take(p, a)
  \/ SaveSelect(p) \/ SaveWrite(p) \/ Raced(p) \/ Settle(p)

Next ==
  \/ \E a \in Accounts :
       \/ Signup(a) \/ Seed(a) \/ SeedInsert(a) \/ Publish(a) \/ PublishFails(a)
       \/ AckWait(a) \/ AgeOut(a)
       \/ EditProfile(a) \/ PurgeUser(a) \/ DeleteCredentials(a)
       \/ \E p \in Processes : Deliver(p, a)
  \/ \E p \in Processes : Handler(p) \/ Restart(p)

Spec == Init /\ [][Next]_vars

\* A request goes on, JetStream delivers what is due, and the consumer's loop
\* runs.  Nothing is assumed of failures and restarts: deliveries are limited.
Fairness ==
  /\ \A a \in Accounts :
       /\ WF_vars(Publish(a) \/ PublishFails(a))
       /\ WF_vars(AckWait(a))
       /\ WF_vars(\E p \in Processes : Deliver(p, a))
  /\ \A p \in Processes : WF_vars(Handler(p))

FairSpec == Spec /\ Fairness

-------------------------------------------------------------------------------
\* Properties.

TypeOK ==
  /\ cred \in [Accounts -> CredStates]
  /\ request \in [Accounts -> Requests]
  /\ event \in [Accounts -> Event]
  /\ copies \in [Processes -> [Accounts -> Nat]]
  /\ worker \in [Processes -> Job \cup {None}]
  /\ profile \in [Accounts -> Written \cup {None}]

\* Did an account of the same email exist before, and was it deleted?
Reused(a) ==
  \E b \in Accounts : b # a /\ EmailOf[b] = EmailOf[a] /\ cred[b] = "gone"

\* The event is acked only for an account that has its profile, whatever failed
\* or was delivered twice: the ack is the last that is heard of it.  The only
\* accounts left without are those being deleted, and those whose email a
\* deleted account had: its own late event may have left a profile there, which
\* createUser finds by the email and takes for the new account's.
AckedMeansProfile ==
  \A a \in Accounts :
    event[a].state = "acked" =>
      profile[a] # None \/ cred[a] \in {"leaving", "gone"} \/ Reused(a)

\* No redelivery puts the names of the signup back over what the user wrote.
EditsSurviveRedelivery ==
  [][\A a \in Accounts : profile[a] = "edited" => profile'[a] # "signup"]_vars

\* The stream, the redeliveries, the races and the lost answers together do what
\* Provisioning does in single steps: a profile appears once for an account that was
\* inserted, never beside or over another of its email, and an ack is final.
Provision == INSTANCE Provisioning WITH
  done <- {a \in Accounts : event[a].state = "acked"}

ImplementsProvisioning == Provision!Spec

InHand(a) == \E p \in Processes :
  copies[p][a] > 0 \/ (worker[p] # None /\ worker[p].for = a)

\* Ways in which a signup is lost: the event was not published, became too old, or
\* was delivered for the last time and nobody has it.
Lost(a) ==
  \/ request[a] = "failed" /\ event[a].state = "none"
  \/ event[a].state = "dropped"
  \/ event[a].state \in {"pending", "out"} /\ event[a].count = MaxDeliver /\ ~InHand(a)

\* In the end every account has its profile, or its signup was lost in one of
\* these ways: redelivery, prefetching, lost acks and restarts lose no other.
Provisioned ==
  \A a \in Accounts :
    cred[a] = "active" ~>
      (profile[a] # None \/ cred[a] \in {"leaving", "gone"} \/ Reused(a) \/ Lost(a))
===============================================================================
