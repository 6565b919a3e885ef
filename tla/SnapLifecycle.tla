----------------------------- MODULE SnapLifecycle -----------------------------
(***************************************************************************)
(* The snaps service: the documents of the snaps collection, the image     *)
(* objects in the storage service that they name, and the handlers that    *)
(* create, resolve and delete snaps.  A handler is split at every await    *)
(* on MongoDB or on the storage service.                                   *)
(*                                                                         *)
(* A place is a set of points within one another's allowedPostDistance.    *)
(* Reads that change nothing (findNear, findByTags, ...) are left out.     *)
(***************************************************************************)
EXTENDS Integers, FiniteSets

CONSTANTS
  Users,       \* user ids
  Admins,      \* the users whose role passes isAdminRole
  Snaps,       \* document ids that can be generated (a bound)
  Places,      \* areas a snap can be posted in
  Keys,        \* storage object keys
  KeyOwner,    \* the user in the path of each key
  IdemKeys,    \* idempotency keys
  Lifetimes,   \* snapDisappearDays that settings can give, in ticks
  Requests,    \* kinds of request the clients send
  Handlers,    \* requests the service can be working on at once
  Sweepers,    \* runs of the TTL interval that can be in progress at once
  BatchSize,   \* TTL_BATCH_SIZE
  UrlLasts,    \* how long a PUT to an upload URL can arrive, in ticks
  MaxTime,     \* bound on the clock
  NoSnap,      \* the document does not exist
  None         \* an absent field

\* A snap lasts a day at least, and an upload URL an hour.
ASSUME TimesAssumption ==
  /\ UrlLasts \in Nat \ {0}
  /\ \A days \in Lifetimes : UrlLasts <= days

ASSUME SnapAssumption ==
  /\ Admins \subseteq Users
  /\ KeyOwner \in [Keys -> Users]
  /\ Lifetimes \subseteq Nat \ {0}
  /\ BatchSize \in Nat \ {0}
  /\ MaxTime \in Nat
  /\ Handlers \cap Sweepers = {}
  /\ None \notin Users \cup IdemKeys

VARIABLES
  docs,    \* the snaps collection
  made,    \* document ids generated so far
  url,     \* when the upload URL of each key expires; 0 before it is signed
  stored,  \* the keys under which the bucket has an object
  pc,      \* where each handler and sweep waits
  job,     \* what each handler and sweep is doing
  todo,    \* keys the DELETE_FILES call of a handler has still to delete
  late,    \* keys such a call goes on to delete after its caller gave up
  now,     \* the clock
  again,   \* history: keys PUT since the call of a handler deleted them
  passed   \* history: the snaps there were when the area query of each found none

bucket == <<url, stored>>
vars == <<docs, made, bucket, pc, job, todo, late, now, again, passed>>

Doc == [owner : Users, place : Places, keys : SUBSET Keys,
        idem : IdemKeys \cup {None}, expiresAt : Nat,
        resolution : {"OPEN", "FOUND"}, resolvedBy : Users \cup {None},
        noteBy : Users \cup {None}]  \* who wrote resolutionNote

ASSUME NoSnapAssumption == NoSnap \notin Doc

\* The document a create is about to insert, the ids a delete read, or the
\* snap and the user of a resolution.
CreateJob == [op : {"create"}, doc : Doc, passed : SUBSET Snaps]
DeleteJob == [op : {"deleteOne", "deleteByUser", "deleteAll", "sweep"},
              user : Users \cup {None}, targets : SUBSET Snaps]
ResolveJob == [op : {"found", "foundWithNote", "reopen"}, snap : Snaps,
               user : Users]

Workers == Handlers \cup Sweepers

Init ==
  /\ docs = [s \in Snaps |-> NoSnap]
  /\ made = {}
  /\ url = [k \in Keys |-> 0]
  /\ stored = {}
  /\ pc = [h \in Workers |-> "idle"]
  /\ job = [h \in Workers |-> None]
  /\ todo = [h \in Workers |-> {}]
  /\ late = {}
  /\ now = 0
  /\ again = [h \in Workers |-> {}]
  /\ passed = [s \in Snaps |-> {}]

Present == {s \in Snaps : docs[s] # NoSnap}
Of(u) == {s \in Present : docs[s].owner = u}
Expired(s) == docs[s].expiresAt <= now
KeysOf(S) == UNION {docs[s].keys : s \in S}

-------------------------------------------------------------------------------
Begin(h, stage, j) ==
  /\ pc[h] = "idle"
  /\ pc' = [pc EXCEPT ![h] = stage]
  /\ job' = [job EXCEPT ![h] = j]

Goto(h, stage) == pc' = [pc EXCEPT ![h] = stage]

\* The handler has replied: it returned or threw.
End(h) ==
  /\ pc' = [pc EXCEPT ![h] = "idle"]
  /\ job' = [job EXCEPT ![h] = None]
  /\ todo' = [todo EXCEPT ![h] = {}]
  /\ again' = [again EXCEPT ![h] = {}]

-------------------------------------------------------------------------------
\* create

\* The client asks for the upload URL of a new key.
Presign(k) ==
  /\ url[k] = 0
  /\ url' = [url EXCEPT ![k] = now + UrlLasts]
  /\ UNCHANGED <<docs, made, stored, pc, job, todo, late, now, again, passed>>

\* It PUTs an object there, as often and as late as the URL lets it: before it posts
\* the snap, and after the snap was deleted.
Upload(k) ==
  /\ now < url[k]
  /\ stored' = stored \cup {k}
  /\ again' = [h \in Workers |-> IF pc[h] = "files" /\ k \notin todo[h]
                                 THEN again[h] \cup {k} ELSE again[h]]
  /\ UNCHANGED <<docs, made, url, pc, job, todo, late, now, passed>>

WithKey(u, i) == {s \in Of(u) : docs[s].idem = i}

\* One to MAX_UPLOAD_BATCH image keys, all in the user's own folder; whether the
\* objects exist is not asked, so that a key the client made up is as good as one
\* whose URL it does not use.  A known idempotency key is answered with the snap it
\* made, which changes nothing.
Create(h, u, place, keys, i) ==
  /\ keys # {}
  /\ \A k \in keys : KeyOwner[k] = u /\ url[k] # 0
  /\ i # None => WithKey(u, i) = {}
  /\ Begin(h, "params",
           [op |-> "create", passed |-> {},
            doc |-> [owner |-> u, place |-> place, keys |-> keys,
                     idem |-> i, expiresAt |-> 0, resolution |-> "OPEN",
                     resolvedBy |-> None, noteBy |-> None]])
  /\ UNCHANGED <<docs, made, bucket, todo, late, now, again, passed>>

\* Mutant: the expiry test is the wrong way round.
InAreaExpired(d) == {s \in Of(d.owner) : Expired(s) /\ docs[s].place = d.place}

\* The user's active snaps where d is to be posted.
InArea(d) == {s \in Of(d.owner) : ~Expired(s) /\ docs[s].place = d.place}

\* The create goes on; of the snaps S it knows that none is in its way.
PassArea(h, S) ==
  /\ \E days \in Lifetimes :
       job' = [job EXCEPT ![h].doc.expiresAt = now + days, ![h].passed = S]
  /\ Goto(h, "inserting")
  /\ UNCHANGED <<todo, again>>

\* The settings have been loaded (or defaulted); the area query finds no active
\* snap, or it fails and the create goes on as if it had found none.  A snap in
\* the area ends the request, as a replay if it has the same key.
CreateCheckArea(h) ==
  /\ pc[h] = "params"
  /\ \/ InArea(job[h].doc) = {} /\ PassArea(h, Present)
     \/ PassArea(h, {})
     \/ InArea(job[h].doc) # {} /\ End(h)
  /\ UNCHANGED <<docs, made, bucket, late, now, passed>>

\* Mutant: the index is not unique.
NoIndexConflict(d) == FALSE

\* The unique index on (_userId, idempotencyKey) is sparse and compound: every
\* snap is in it, because it has a _userId, those without a key under null.
IndexConflict(d) == WithKey(d.owner, d.idem) # {}

CreateInsert(h) ==
  /\ pc[h] = "inserting"
  /\ LET d == job[h].doc IN
     \/ /\ ~IndexConflict(d)
        /\ \E s \in Snaps \ made :
             /\ docs' = [docs EXCEPT ![s] = d]
             /\ made' = made \cup {s}
             /\ passed' = [passed EXCEPT ![s] = job[h].passed]
        /\ End(h)
     \/ /\ IndexConflict(d)
        /\ IF d.idem # None
           THEN Goto(h, "replaying") /\ UNCHANGED <<job, todo, again>>
           ELSE End(h)
        /\ UNCHANGED <<docs, made, passed>>
  /\ UNCHANGED <<bucket, late, now>>

\* Look the winner of the race up and answer with it, or 409 if it is gone.
CreateReplay(h) ==
  /\ pc[h] = "replaying"
  /\ End(h)
  /\ UNCHANGED <<docs, made, bucket, late, now, passed>>

-------------------------------------------------------------------------------
\* deleteSnap, deleteByUserId, deleteAll and the TTL sweep: read the documents,
\* have the storage service delete their images, then delete the documents.

BeginDelete(h, op, u, S) ==
  /\ Begin(h, "files", [op |-> op, user |-> u, targets |-> S])
  /\ todo' = [todo EXCEPT ![h] = KeysOf(S)]
  /\ UNCHANGED <<docs, made, bucket, late, now, again, passed>>

DeleteSnap(h, s, actor) ==
  /\ s \in Present
  /\ docs[s].owner = actor \/ actor \in Admins
  /\ BeginDelete(h, "deleteOne", actor, {s})

DeleteByUserId(h, u) == BeginDelete(h, "deleteByUser", u, Of(u))

DeleteAll(h) == BeginDelete(h, "deleteAll", None, Present)

\* Mutant: the query has no condition on expiresAt.
BatchesUnexpired == {S \in SUBSET Present : S # {} /\ Cardinality(S) <= BatchSize}

Batches ==
  LET expired == {s \in Present : Expired(s)}
  IN {S \in SUBSET expired :
        /\ S # {}
        /\ Cardinality(S) <= BatchSize
        /\ Cardinality(S) < BatchSize => S = expired}

SweepExpired(h) == \E S \in Batches : BeginDelete(h, "sweep", None, S)

\* Mutant: a missing object is an error like any other.
StorageDeletesPresent(h, k) ==
  /\ pc[h] = "files"
  /\ k \in todo[h] \cap stored
  /\ stored' = stored \ {k}
  /\ todo' = [todo EXCEPT ![h] = @ \ {k}]
  /\ UNCHANGED <<docs, made, url, pc, job, late, now, again, passed>>

\* The storage service deletes the keys one by one; a missing object counts as
\* deleted.
StorageDeletes(h, k) ==
  /\ pc[h] = "files"
  /\ k \in todo[h]
  /\ stored' = stored \ {k}
  /\ todo' = [todo EXCEPT ![h] = @ \ {k}]
  /\ UNCHANGED <<docs, made, url, pc, job, late, now, again, passed>>

\* What deleteOne({ _id }) and deleteMany(filter) select when they run.
Doomed(j) ==
  CASE j.op = "deleteByUser" -> Of(j.user)
    [] j.op = "deleteAll"    -> Present
    [] OTHER                 -> j.targets

\* Mutant: the documents go first, without waiting for the storage service.
DeleteDocsFirst(h) ==
  /\ pc[h] = "files"
  /\ docs' = [s \in Snaps |-> IF s \in Doomed(job[h]) THEN NoSnap ELSE docs[s]]
  /\ End(h)
  /\ UNCHANGED <<made, bucket, late, now, passed>>

DeleteDocs(h) ==
  /\ pc[h] = "files"
  /\ todo[h] = {}
  /\ docs' = [s \in Snaps |-> IF s \in Doomed(job[h]) THEN NoSnap ELSE docs[s]]
  /\ End(h)
  /\ UNCHANGED <<made, bucket, late, now, passed>>

-------------------------------------------------------------------------------
\* markFound and reopen: read, check, then one atomic findByIdAndUpdate.

Resolve(h, op, s, u) ==
  /\ s \in Present
  /\ ~Expired(s)
  /\ Begin(h, "updating", [op |-> op, snap |-> s, user |-> u])
  /\ UNCHANGED <<docs, made, bucket, todo, late, now, again, passed>>

MarkFound(h, s, u) == Resolve(h, "found", s, u) \/ Resolve(h, "foundWithNote", s, u)

Reopen(h, s, u) ==
  /\ s \in Present
  /\ docs[s].owner = u
  /\ Resolve(h, "reopen", s, u)

\* Mutant: reopen resets the resolution and unsets nothing.
ResolvedKeepingTraces(d, j) ==
  CASE j.op = "found" ->
         [d EXCEPT !.resolution = "FOUND", !.resolvedBy = j.user]
    [] j.op = "foundWithNote" ->
         [d EXCEPT !.resolution = "FOUND", !.resolvedBy = j.user,
                   !.noteBy = j.user]
    [] j.op = "reopen" -> [d EXCEPT !.resolution = "OPEN"]

\* Without a note, markFound leaves the note field as it is.
Resolved(d, j) ==
  CASE j.op = "found" ->
         [d EXCEPT !.resolution = "FOUND", !.resolvedBy = j.user]
    [] j.op = "foundWithNote" ->
         [d EXCEPT !.resolution = "FOUND", !.resolvedBy = j.user,
                   !.noteBy = j.user]
    [] j.op = "reopen" ->
         [d EXCEPT !.resolution = "OPEN", !.resolvedBy = None,
                   !.noteBy = None]

\* Mutant: the update is an upsert, and makes a document of its $set alone.
ResolveUpsert(h) ==
  /\ pc[h] = "updating"
  /\ docs' = [docs EXCEPT ![job[h].snap] =
                IF @ = NoSnap THEN [resolution |-> "FOUND"]
                ELSE Resolved(@, job[h])]
  /\ End(h)
  /\ UNCHANGED <<made, bucket, late, now, passed>>

ResolveUpdate(h) ==
  /\ pc[h] = "updating"
  /\ docs' = [docs EXCEPT ![job[h].snap] =
                IF @ = NoSnap THEN NoSnap ELSE Resolved(@, job[h])]
  /\ End(h)
  /\ UNCHANGED <<made, bucket, late, now, passed>>

-------------------------------------------------------------------------------
\* A query or the storage call fails or times out, or the process restarts.
\* The storage service may go on with the keys it was given.
Abort(h) ==
  /\ pc[h] # "idle"
  /\ End(h)
  /\ late' \in {late, late \cup todo[h]}
  /\ UNCHANGED <<docs, made, bucket, now, passed>>

LateDelete(k) ==
  /\ k \in late
  /\ stored' = stored \ {k}
  /\ late' = late \ {k}
  /\ UNCHANGED <<docs, made, url, pc, job, todo, now, again, passed>>

Tick ==
  /\ now < MaxTime
  /\ now' = now + 1
  /\ UNCHANGED <<docs, made, bucket, pc, job, todo, late, again, passed>>

Arrive(h) ==
  \/ /\ "create" \in Requests
     /\ \E u \in Users, p \in Places, K \in SUBSET Keys, i \in IdemKeys \cup {None} :
          Create(h, u, p, K, i)
  \/ /\ "delete" \in Requests
     /\ \E u \in Users, s \in Snaps : DeleteSnap(h, s, u)
  \/ /\ "bulk" \in Requests
     /\ DeleteAll(h) \/ \E u \in Users : DeleteByUserId(h, u)
  \/ /\ "resolve" \in Requests
     /\ \E u \in Users, s \in Snaps : MarkFound(h, s, u) \/ Reopen(h, s, u)

Next ==
  \/ \E h \in Handlers : Arrive(h) \/ CreateCheckArea(h) \/ CreateInsert(h)
                           \/ CreateReplay(h) \/ ResolveUpdate(h)
  \/ \E w \in Sweepers : SweepExpired(w)
  \/ \E w \in Workers : DeleteDocs(w) \/ Abort(w)
                          \/ \E k \in Keys : StorageDeletes(w, k)
  \/ \E k \in Keys : Presign(k) \/ Upload(k) \/ LateDelete(k)
  \/ Tick

Spec == Init /\ [][Next]_vars

\* The TTL interval keeps firing, and a sweep that can go on does.  An outage of
\* MongoDB or of the storage service ends: from some moment no sweep fails.  (A
\* sweep whose documents are gone by then changes no more than a failure does.)
Fairness ==
  /\ WF_vars(Tick)
  /\ \A w \in Sweepers :
       /\ WF_vars(SweepExpired(w))
       /\ WF_vars(DeleteDocs(w))
       /\ \A k \in Keys : WF_vars(StorageDeletes(w, k))
       /\ <>[][Abort(w) => DeleteDocs(w)]_vars

FairSpec == Spec /\ Fairness

-------------------------------------------------------------------------------
\* Properties.

TypeOK ==
  /\ docs \in [Snaps -> Doc \cup {NoSnap}]
  /\ made \subseteq Snaps
  /\ url \in [Keys -> Nat]
  /\ stored \subseteq Keys
  /\ pc \in [Workers -> {"idle", "params", "inserting", "replaying", "files",
                         "updating"}]
  /\ job \in [Workers -> CreateJob \cup DeleteJob \cup ResolveJob \cup {None}]
  /\ todo \in [Workers -> SUBSET Keys]
  /\ late \subseteq Keys
  /\ now \in Nat
  /\ again \in [Workers -> SUBSET Keys]
  /\ passed \in [Snaps -> SUBSET Snaps]

\* Retries and double submissions of one idempotency key leave one snap,
\* although the replay lookup and the insert are separate queries.
OneSnapPerKey ==
  \A s, t \in Present :
    /\ docs[s].owner = docs[t].owner
    /\ docs[s].idem = docs[t].idem
    /\ docs[s].idem # None
    => s = t

\* A snap that says it was found names who found it, and an open one names
\* nobody and shows no note, whichever of markFound and reopen was the last of
\* a race.
ResolutionConsistent ==
  \A s \in Present :
    /\ docs[s].resolution = "FOUND" <=> docs[s].resolvedBy # None
    /\ docs[s].resolution = "OPEN" => docs[s].noteBy = None

Referenced(k) == \E s \in Present : k \in docs[s].keys

\* An image that is stored loses its last document in two ways only: a bulk delete
\* removes a snap that was created after it read the collection, or the client PUT
\* the image again after the delete had it deleted.  No failed, late or concurrent
\* delete has other orphans, and the TTL sweep has none: the upload URL of an image
\* is dead when a snap that shows it expires.
OnlyRacesOrphan ==
  [][\A k \in Keys :
       Referenced(k) /\ k \in stored /\ ~Referenced(k)' =>
         \E h \in Handlers :
           /\ DeleteDocs(h)
           /\ \/ k \in again[h]
              \/ /\ job[h].op \in {"deleteByUser", "deleteAll"}
                 /\ k \notin KeysOf(job[h].targets \cap Present)]_vars

\* No create, however long it takes and whatever expires, is resolved or is deleted
\* meanwhile, leaves a user two active snaps in one place, but where the other was
\* inserted after its area query, or that query failed.
OneActivePerPlace ==
  \A s, t \in Present :
    s \in passed[t] /\ docs[s].owner = docs[t].owner /\ docs[s].place = docs[t].place
      => Expired(s)

\* The document of every snap that expires is deleted in the end, whatever a client
\* deletes meanwhile and although a batch may be smaller than the backlog.
ExpiredSwept ==
  \A s \in Snaps : (s \in Present /\ Expired(s)) ~> (s \notin Present)

\* The mapping forgets the requests in flight, but for the deletes.
Asked ==
  [h \in Handlers |->
     IF pc[h] # "files" THEN [op |-> "none", users |-> {}, read |-> {}, left |-> {}]
     ELSE [op    |-> IF job[h].op = "deleteOne" THEN "one" ELSE "bulk",
           users |-> IF job[h].op = "deleteAll" THEN Users ELSE {job[h].user},
           read  |-> job[h].targets,
           left  |-> todo[h]]]

Board == INSTANCE SnapBoard
           WITH board <- docs, used <- made, images <- stored, asked <- Asked

\* The service, whose creates, resolutions, deletions, sweeps and failures interleave
\* at every query, does what SnapBoard says in indivisible steps.
ImplementsSnapBoard == Board!Spec

-------------------------------------------------------------------------------
\* What the repository says of the service and its code does not ensure.

\* A snap without an idempotency key does not collide with another: the key
\* is optional (create-snap.dto.ts).
KeylessNeverConflicts ==
  [][\A h \in Handlers :
       CreateInsert(h) /\ job[h].doc.idem = None => docs' # docs]_vars
===============================================================================
