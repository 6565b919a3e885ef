---------------------------- MODULE AccountDeletion ----------------------------
(***************************************************************************)
(* The deletion of one account: the orchestrator of the gateway calls the  *)
(* authentication, snaps, users and again the authentication service, one  *)
(* RPC after the other.  An RPC whose caller has given up is still         *)
(* executed, a failed deletion can be sent again, and several deletions of *)
(* the account can be under way at once, among the client's other requests *)
(* to the same services.                                                   *)
(*                                                                         *)
(* Of the credential row only isActive is kept (Credentials has the other  *)
(* columns); what a bulk delete does to images is in SnapLifecycle.        *)
(***************************************************************************)
EXTENDS Integers

CONSTANTS
  Attempts,  \* DELETE /users/me requests that can be under way at once
  Calls,     \* RPCs that can be under way at once (a bound)
  Snaps,     \* ids of the user's snaps
  Requests,  \* other requests of the client that can be under way at once
  Writes,    \* what they can write
  Savers,    \* requests that read and save the credential row, at once
  Had,       \* which kinds of rows the user can have at first
  Mixes,     \* what can happen beside the deletions, in one behaviour
  None       \* no call, no request, no row read yet

ASSUME DeletionAssumption ==
  /\ Mixes \subseteq SUBSET {"write", "save", "refresh", "signup"}
  /\ None \notin Calls
  /\ Savers \cap Calls = {}

VARIABLES
  account,  \* the credential row: "active", "disabled" or "gone"
  session,  \* has the client an access token, and is a refresh about to issue one?
  writing,  \* each other request: what it is about to write
  snaps,    \* the user's documents in the snaps collection
  profile,  \* is the row in users there?
  records,  \* the kinds of rows kept under the user's id
  event,    \* is the signup event in the stream, and not acked?
  saving,   \* each saver: the isActive it read, and what the save's SELECT returned
  saga,     \* each attempt: the step it waits in, and for which call
  calls,    \* each RPC: what it is to do and how far it is
  mix,      \* what happens beside the deletions of this behaviour
  closed    \* history: has the account been disabled, be it active again or not?

row == <<account, closed>>
data == <<snaps, profile, records>>
client == <<session, writing, saving, mix>>
vars == <<row, client, data, event, saga, calls>>

\* snap_seen, snap_bookmark, snap_report and settings.  Only the last has a
\* foreign key to users.
Kinds == {"seen", "bookmark", "report", "settings"}

ASSUME WritesAssumption ==
  /\ Writes \subseteq Kinds \cup {"snap", "profile"}
  /\ Had \subseteq SUBSET Kinds

Steps == {"deactivate", "snaps", "purge", "credentials"}
Ended == {"idle", "ok", "refused", "incomplete"}

Statuses == {"active", "disabled", "gone"}

Over == {"done", "failed"}

\* What there is of the user, besides the account and with it.
Left(documents, kinds, there) ==
  ({"snap"} \X documents) \cup ({"row"} \X kinds) \cup {x \in {<<"row", "user">>} : there}

Credential == <<"row", "credential">>

Items == Left(Snaps, Kinds, TRUE) \cup {Credential}

\* A call is sent, goes through the stages of its handler, and is answered.
\* "found" is what its first query found, or whether the password was right; "base"
\* is what the SELECT of its save returned.  History: of what there was when the
\* account was found to be disabled, it or an earlier call of its attempt "owes" what
\* nobody has deleted since.
Call == [op : Steps, stage : {"sent", "save", "write", "files", "seen", "bookmark",
                              "report", "settings", "user", "done", "failed"},
         found : BOOLEAN, base : Statuses \cup {None}, owes : SUBSET Items]

\* A request that is about to save the row.
Copy == [held : {"active", "disabled"}, base : Statuses \cup {None}]

ASSUME NoneAssumption ==
  /\ None \notin Call /\ None \notin Copy /\ None \notin Statuses
  /\ \A D \in SUBSET Items : D # None

Kept == Left(snaps, records, profile) \cup {x \in {Credential} : account # "gone"}

Init ==
  /\ account = "active"
  /\ session = [token |-> TRUE, refresh |-> FALSE]
  /\ writing = [r \in Requests |-> None]
  /\ saving = [s \in Savers |-> None]
  /\ snaps = Snaps
  /\ mix \in Mixes
  /\ event = ("signup" \in mix)
  /\ profile = ~event
  /\ records \in IF event THEN {{}} ELSE Had
  /\ saga = [a \in Attempts |-> [step |-> "idle", call |-> None]]
  /\ calls = [c \in Calls |-> None]
  /\ closed = FALSE

-------------------------------------------------------------------------------
\* The orchestrator and natsRequest.

Free == {c \in Calls : calls[c] = None}

\* Send the call of a step and wait for its answer.
Send(a, c, step, right, owes) ==
  /\ saga' = [saga EXCEPT ![a] = [step |-> step, call |-> c]]
  /\ calls' = [calls EXCEPT ![c] = [op |-> step, stage |-> "sent", found |-> right,
                                   base |-> None, owes |-> owes]]

\* The guard lets in whoever has a valid token, whatever became of the account.
Start(a, right) ==
  /\ session.token
  /\ saga[a].step \in Ended
  /\ \E c \in Free : Send(a, c, "deactivate", right, {})
  /\ UNCHANGED <<row, client, data, event>>

\* Mutant: the credentials go before the profile.
AfterSwapped(step) ==
  CASE step = "deactivate"  -> "snaps"
    [] step = "snaps"       -> "credentials"
    [] step = "credentials" -> "purge"
    [] step = "purge"       -> "ok"

After(step) ==
  CASE step = "deactivate"  -> "snaps"
    [] step = "snaps"       -> "purge"
    [] step = "purge"       -> "credentials"
    [] step = "credentials" -> "ok"

\* How an attempt ends that an error of the step's call reaches.
Failure(step) == IF step = "deactivate" THEN "refused" ELSE "incomplete"

Stop(a, outcome) == saga' = [saga EXCEPT ![a] = [step |-> outcome, call |-> None]]

\* History: what the calls after this one owe.
Owed(c) == IF calls[c].op = "deactivate" THEN Kept ELSE calls[c].owes

GoNext(a) ==
  LET c == saga[a].call
      step == After(saga[a].step)
  IN IF step = "ok"
     THEN Stop(a, "ok") /\ calls' = [calls EXCEPT ![c] = None]
     ELSE Send(a, c, step, TRUE, Owed(c))

\* Mutant: the orchestrator does not look at the answer of deactivateUser.
ReplyUnread(a) ==
  LET c == saga[a].call
  IN /\ c # None
     /\ \/ calls[c].stage = "done"
        \/ calls[c].stage = "failed" /\ saga[a].step = "deactivate"
     /\ GoNext(a)
     /\ UNCHANGED <<row, client, data, event>>

\* The answer arrives: the next call is sent, or the attempt ends.
Reply(a) ==
  LET c == saga[a].call
  IN /\ c # None
     /\ \/ /\ calls[c].stage = "done"
           /\ GoNext(a)
        \/ /\ calls[c].stage = "failed"
           /\ Stop(a, Failure(saga[a].step))
           /\ calls' = [calls EXCEPT ![c] = None]
     /\ UNCHANGED <<row, client, data, event>>

\* Mutant: a call that is late is taken for done.
TimeoutAsDone(a) ==
  LET c == saga[a].call
      step == After(saga[a].step)
  IN /\ c # None
     /\ IF step = "ok"
        THEN Stop(a, "ok") /\ UNCHANGED calls
        ELSE \E d \in Free : Send(a, d, step, TRUE, Owed(c))
     /\ UNCHANGED <<row, client, data, event>>

\* Mutant: the RPC is dropped and its caller is not told.
TimeoutUntold(a) ==
  /\ saga[a].call # None
  /\ calls' = [calls EXCEPT ![saga[a].call] = None]
  /\ UNCHANGED <<row, client, data, event, saga>>

\* The answer does not come in time, or the gateway stops; the call goes on.
Timeout(a) ==
  /\ saga[a].call # None
  /\ Stop(a, Failure(saga[a].step))
  /\ UNCHANGED <<row, client, data, event, calls>>

\* A call that nobody waits for ends without an answer.
Discard(c) ==
  /\ calls[c] # None
  /\ calls[c].stage \in Over
  /\ \A a \in Attempts : saga[a].call # c
  /\ calls' = [calls EXCEPT ![c] = None]
  /\ UNCHANGED <<row, client, data, event, saga>>

-------------------------------------------------------------------------------
\* The handlers of the services.

At(c, op, stage) ==
  /\ calls[c] # None
  /\ calls[c].op = op
  /\ calls[c].stage = stage

\* A call that is over forgets what it read.
Moved(call, stage) ==
  [op |-> call.op, stage |-> stage,
   found |-> IF stage \in Over THEN TRUE ELSE call.found,
   base |-> IF stage \in Over THEN None ELSE call.base,
   owes |-> IF stage = "failed" THEN {} ELSE call.owes]

GoOn(c, stage) == calls' = [calls EXCEPT ![c] = Moved(@, stage)]

\* History: the call deletes D.
Deletes(c, D, stage) ==
  calls' = [x \in Calls |->
              IF calls[x] = None THEN None
              ELSE LET call == [calls[x] EXCEPT !.owes = @ \ D]
                   IN IF x = c THEN Moved(call, stage) ELSE call]

\* No service takes the call, a query or the storage service fails, or the
\* process restarts.
Fail(c) ==
  /\ calls[c] # None
  /\ calls[c].stage \notin Over
  /\ GoOn(c, "failed")
  /\ UNCHANGED <<row, client, data, event, saga>>

SetAccount(status) == account' = status /\ closed' = (closed \/ status # "active")

\* TypeORM's save(entity) of a copy of the row: a SELECT first, which returned base,
\* then an UPDATE of the columns where the copy differs from it, which finds the row or
\* not, or an INSERT of the whole copy, which fails on the primary key if there is a row.
Saved(held, base) ==
  CASE base = "gone" -> IF account = "gone" THEN held ELSE account
    [] base = held   -> account
    [] OTHER         -> IF account = "gone" THEN "gone" ELSE held

\* Mutant: an account that does not exist is an error.
DeactivateKnown(c) ==
  /\ At(c, "deactivate", "sent")
  /\ GoOn(c, CASE account = "gone" \/ ~calls[c].found -> "failed"
               [] account = "disabled" /\ calls[c].found -> "done"
               [] account = "active" /\ calls[c].found -> "save")
  /\ UNCHANGED <<row, client, data, event, saga>>

\* deactivateUser: a missing row, or one that is disabled already, counts as done; a
\* wrong password is refused.
DeactivateFind(c) ==
  /\ At(c, "deactivate", "sent")
  /\ GoOn(c, CASE account = "gone" -> "done"
               [] account # "gone" /\ ~calls[c].found -> "failed"
               [] account = "disabled" /\ calls[c].found -> "done"
               [] account = "active" /\ calls[c].found -> "save")
  /\ UNCHANGED <<row, client, data, event, saga>>

DeactivateSelect(c) ==
  /\ At(c, "deactivate", "save")
  /\ calls' = [calls EXCEPT ![c].base = account, ![c].stage = "write"]
  /\ UNCHANGED <<row, client, data, event, saga>>

DeactivateWrite(c) ==
  /\ At(c, "deactivate", "write")
  /\ SetAccount(Saved("disabled", calls[c].base))
  /\ GoOn(c, IF calls[c].base = "gone" /\ account # "gone" THEN "failed" ELSE "done")
  /\ UNCHANGED <<client, data, event, saga>>

\* deleteByUserId reads the documents and has their images deleted ...
SnapsFiles(c) ==
  /\ At(c, "snaps", "sent")
  /\ GoOn(c, "files")
  /\ UNCHANGED <<row, client, data, event, saga>>

\* ... and deletes every document the user has by then.
SnapsDelete(c) ==
  /\ At(c, "snaps", "files")
  /\ snaps' = {}
  /\ Deletes(c, Left(Snaps, {}, FALSE), "done")
  /\ UNCHANGED <<row, client, profile, records, event, saga>>

\* purgeUser reads the user row and has its image deleted, which is not state
\* here.
PurgeFind(c) ==
  /\ At(c, "purge", "sent")
  /\ calls' = [calls EXCEPT ![c].found = profile, ![c].stage = "seen"]
  /\ UNCHANGED <<row, client, data, event, saga>>

NextKind(kind) ==
  CASE kind = "seen"     -> "bookmark"
    [] kind = "bookmark" -> "report"
    [] kind = "report"   -> "settings"
    [] kind = "settings" -> "user"

\* It deletes the rows of each table in turn.
PurgeRecords(c, kind) ==
  /\ At(c, "purge", kind)
  /\ records' = records \ {kind}
  /\ Deletes(c, Left({}, {kind}, FALSE), NextKind(kind))
  /\ UNCHANGED <<row, client, snaps, profile, event, saga>>

\* It removes the user row, if it was there at first; the settings go with it.
PurgeUser(c) ==
  /\ At(c, "purge", "user")
  /\ IF calls[c].found
     THEN /\ profile' = FALSE /\ records' = records \ {"settings"}
          /\ Deletes(c, Left({}, {"settings"}, TRUE), "done")
     ELSE UNCHANGED <<profile, records>> /\ GoOn(c, "done")
  /\ UNCHANGED <<row, client, snaps, event, saga>>

DeleteCredentials(c) ==
  /\ At(c, "credentials", "sent")
  /\ SetAccount("gone")
  /\ Deletes(c, {Credential}, "done")
  /\ UNCHANGED <<client, data, event, saga>>

Handle(c) ==
  \/ DeactivateFind(c) \/ DeactivateSelect(c) \/ DeactivateWrite(c)
  \/ SnapsFiles(c) \/ SnapsDelete(c) \/ PurgeFind(c)
  \/ \E kind \in Kinds : PurgeRecords(c, kind)
  \/ PurgeUser(c) \/ DeleteCredentials(c)

-------------------------------------------------------------------------------
\* The client's other requests, which need a token when they arrive and no account,
\* and the signup event.

\* A request that changes the profile or the photo has read the row.
Request(r) ==
  /\ "write" \in mix
  /\ session.token
  /\ writing[r] = None
  /\ \E kind \in Writes :
       /\ kind = "profile" => profile
       /\ writing' = [writing EXCEPT ![r] = kind]
  /\ UNCHANGED <<row, session, saving, data, event, saga, calls, mix>>

Written(r) == writing[r] # None /\ writing' = [writing EXCEPT ![r] = None]

PostSnap(r) ==
  /\ writing[r] = "snap"
  /\ \E s \in Snaps : snaps' = snaps \cup {s}
  /\ Written(r)
  /\ UNCHANGED <<row, session, saving, profile, records, event, saga, calls, mix>>

\* Settings need the row in users.
PutRecord(r) ==
  /\ writing[r] \in IF profile THEN Kinds ELSE Kinds \ {"settings"}
  /\ records' = records \cup {writing[r]}
  /\ Written(r)
  /\ UNCHANGED <<row, session, saving, snaps, profile, event, saga, calls, mix>>

\* TypeORM's save inserts the row when it is not there any more.
SaveProfile(r) ==
  /\ writing[r] = "profile"
  /\ profile' = TRUE
  /\ Written(r)
  /\ UNCHANGED <<row, session, saving, snaps, records, event, saga, calls, mix>>

\* A request ends without a write.
EndRequest(r) ==
  /\ Written(r)
  /\ UNCHANGED <<row, session, saving, data, event, saga, calls, mix>>

\* An access token lives for ACCESS_EXP.
Expire ==
  /\ session.token
  /\ session' = [session EXCEPT !.token = FALSE]
  /\ UNCHANGED <<row, writing, saving, data, event, saga, calls, mix>>

\* Mutant: a refresh token is enough, whatever became of the account.
RefreshTokenBlind ==
  /\ "refresh" \in mix
  /\ ~session.refresh
  /\ session' = [session EXCEPT !.refresh = TRUE]
  /\ UNCHANGED <<row, writing, saving, data, event, saga, calls, mix>>

\* The client refreshes its tokens: the account has to be there and active when
\* the row is read, and need not be so when the tokens are signed.
RefreshToken ==
  /\ "refresh" \in mix
  /\ ~session.refresh
  /\ account = "active"
  /\ session' = [session EXCEPT !.refresh = TRUE]
  /\ UNCHANGED <<row, writing, saving, data, event, saga, calls, mix>>

GenerateTokens ==
  /\ session.refresh
  /\ \E answered \in BOOLEAN :
       session' = [token |-> answered \/ session.token, refresh |-> FALSE]
  /\ UNCHANGED <<row, writing, saving, data, event, saga, calls, mix>>

Save(s, copy) ==
  /\ saving' = [saving EXCEPT ![s] = copy]
  /\ UNCHANGED <<session, writing, data, event, saga, calls, mix>>

\* A login, a change of the password or its reset has read the row, and is about to
\* save all of it.  (The tokens of a login are those of RefreshToken.)
ReadCredential(s) ==
  /\ "save" \in mix
  /\ saving[s] = None
  /\ account # "gone"
  /\ Save(s, [held |-> account, base |-> None])
  /\ UNCHANGED row

SelectCredential(s) ==
  /\ saving[s] # None /\ saving[s].base = None
  /\ Save(s, [saving[s] EXCEPT !.base = account])
  /\ UNCHANGED row

WriteCredential(s) ==
  /\ saving[s] # None /\ saving[s].base # None
  /\ SetAccount(Saved(saving[s].held, saving[s].base))
  /\ Save(s, None)

\* It is refused, or fails.
LeaveCredential(s) ==
  /\ saving[s] # None
  /\ Save(s, None)
  /\ UNCHANGED row

\* The users service handles the signup event and creates the row if there is none; as
\* long as no copy of the event is acked it comes again.
DeliverSignup ==
  /\ event
  /\ profile' = TRUE
  /\ UNCHANGED <<row, client, snaps, records, event, saga, calls>>

\* The event is acked, or was delivered max_deliver times.
SignupOver ==
  /\ event
  /\ event' = FALSE
  /\ UNCHANGED <<row, client, data, saga, calls>>

\* What happens beside the deletions.
Outside ==
  \/ \E r \in Requests :
       Request(r) \/ PostSnap(r) \/ PutRecord(r) \/ SaveProfile(r) \/ EndRequest(r)
  \/ \E s \in Savers :
       \/ ReadCredential(s) \/ SelectCredential(s)
       \/ WriteCredential(s) \/ LeaveCredential(s)
  \/ DeliverSignup \/ SignupOver \/ Expire \/ RefreshToken \/ GenerateTokens

Next ==
  \/ \E a \in Attempts :
       Start(a, TRUE) \/ Start(a, FALSE) \/ Reply(a) \/ Timeout(a)
  \/ \E c \in Calls : Handle(c) \/ Fail(c) \/ Discard(c)
  \/ Outside

Spec == Init /\ [][Next]_vars

\* The services work on what they were sent, and answers arrive.  The client
\* goes on with the right password for as long as it is let in.  From some
\* moment no call fails other than by a refusal of its handler, and every answer
\* comes in time.
Fairness ==
  /\ \A a \in Attempts : WF_vars(Reply(a)) /\ SF_vars(Start(a, TRUE))
  /\ \A c \in Calls : WF_vars(Handle(c)) /\ WF_vars(Discard(c))
  /\ \A c \in Calls : <>[][Fail(c) => Handle(c)]_vars
  /\ \A a \in Attempts : <>[][~Timeout(a)]_vars

FairSpec == Spec /\ Fairness

-------------------------------------------------------------------------------
\* Properties.

TypeOK ==
  /\ account \in Statuses /\ closed \in BOOLEAN /\ mix \in Mixes
  /\ session \in [token : BOOLEAN, refresh : BOOLEAN]
  /\ writing \in [Requests -> Writes \cup {None}]
  /\ saving \in [Savers -> Copy \cup {None}]
  /\ snaps \subseteq Snaps
  /\ profile \in BOOLEAN
  /\ records \subseteq Kinds
  /\ event \in BOOLEAN
  /\ saga \in [Attempts -> [step : Steps \cup Ended, call : Calls \cup {None}]]
  /\ calls \in [Calls -> Call \cup {None}]
  /\ \A a \in Attempts :
       saga[a].call # None =>
         calls[saga[a].call] # None /\ calls[saga[a].call].op = saga[a].step

\* No attempt with a wrong password, however it interleaves with others, with late
\* calls and with requests that save the row, destroys anything: as long as no attempt
\* with the right one has disabled the account, all that the user has stays.
NothingLostBeforeClosed ==
  [][~closed => /\ account' # "gone"
                /\ snaps \subseteq snaps'
                /\ records \subseteq records'
                /\ profile => profile']_vars

Told == {a \in Attempts : saga[a].step = "ok"}

\* A deletion that is confirmed has erased everything that there was when its first
\* step found the account disabled or gone, the row of the account last, whatever was
\* disabled, re-enabled, written or deleted meanwhile and by however many others.
ConfirmedMeansErased ==
  [][/\ \A c \in Calls : DeleteCredentials(c) => calls[c].owes \subseteq {Credential}
     /\ \A a \in Told' \ Told : calls[saga[a].call].owes = {}]_vars

\* A deactivation that is going to save what it read.
Deactivating(c) ==
  calls[c] # None /\ calls[c].op = "deactivate" /\ calls[c].stage \in {"save", "write"}

Copies ==
  [k \in Savers \cup Calls |->
     CASE k \in Savers -> IF saving[k] = None THEN None ELSE saving[k].held
       [] OTHER        -> IF Deactivating(k) THEN "disabled" ELSE None]

Owes ==
  [c \in Calls |->
     IF calls[c] = None THEN None
     ELSE IF calls[c].op = "deactivate" \/ calls[c].stage = "failed" THEN None
     ELSE calls[c].owes]

\* A deletion, step by step of four services, with attempts, retries and late calls
\* in any order and among the client's other requests, is one that Erasure allows: the
\* account is disabled first, and its row, which a deletion that failed half way needs
\* to be told from a stranger's, goes when all that the user had is gone
\* (account-delete.orchestrator.ts); a row comes back from a copy alone that was read
\* before.
Abstract == INSTANCE Erasure WITH
  Data <- Left(Snaps, Kinds, TRUE), Askers <- Attempts, Runs <- Calls,
  Keepers <- Savers \cup Calls, left <- Left(snaps, records, profile),
  copies <- Copies, owed <- Owes, told <- Told

ImplementsErasure == Abstract!Spec

Nothing == snaps = {} /\ ~profile /\ records = {}

\* The client has no access token, no refresh that read the account while it was
\* active will issue one, no request that was let in has still to write, and none that
\* read the credential row, be it a deactivation that its caller gave up, has still to
\* save it.
Shut ==
  /\ ~session.token /\ ~session.refresh
  /\ \A r \in Requests : writing[r] = None
  /\ \A s \in Savers : saving[s] = None
  /\ \A c \in Calls : ~Deactivating(c)

\* Whatever the client's requests did during the deletion: once its tokens are gone,
\* its requests are done and the signup event is over, so is every way to write under
\* the id of a deleted account, and what is erased stays erased.
ErasedStaysErased ==
  [][account = "gone" /\ Shut /\ ~event /\ Nothing =>
       account' = "gone" /\ Shut' /\ Nothing']_vars

\* A client that goes on retrying after failures and timeouts is told in the
\* end that its account is deleted, unless its token expires first; after that
\* nothing can complete the deletion.
RetriesConfirmed ==
  account = "disabled" ~> (~session.token \/ \E a \in Attempts : saga[a].step = "ok")
===============================================================================
