# NowHere backend: a TLA+ verification project

The NowHere backend is five NestJS services behind NATS: users post *snaps*
(short-lived posts with images, at a place), see those near them, mark lost
things found, and delete their accounts. This directory models the services'
state and handlers in TLA+, model-checks them with TLC and proves theorems about
them with TLAPS. Paths below are relative to the repository's root.

## 1. The system

| Component | State | Operations | Interacts with |
|---|---|---|---|
| **Authentication** (`apps/authentication`) | MySQL: `credentials` (email, password hash, isActive, failedLoginCount, lockedUntil), `password_reset_tokens` (hash, userId, expiresAt, usedAt) | login, signup, refresh, changePassword, forgotPassword, resetPassword, deactivateUser, deleteCredentials, seedAdmin | RPCs from the gateway; publishes `auth.user.credentials.created` to JetStream; SMTP |
| **Users** (`apps/users`) | MySQL: `users`, `settings`, `snap_seen`, `snap_bookmark`, `snap_report` | createUser (on the event), updateProfile, setUserPhoto, settings, bookmarks, reports, seen marks, export, purgeUser | RPCs from gateway and snaps; JetStream consumer; RPCs to storage and snaps |
| **Snaps** (`apps/snaps`) | MongoDB: `snaps`; in memory: where each socket is | create, find*, markFound, reopen, deleteSnap, deleteByUserId, deleteAll, TTL sweep every 15 minutes, backfill at start | RPCs from the gateway; RPCs to users (settings, seen marks) and storage (delete, sign); socket broadcast |
| **Storage** (`apps/storage`) | S3 or GCS objects; Redis: cache of signed URLs | presigned uploads, signed downloads, list, delete | RPCs from the others; clients PUT directly to the bucket |
| **Gateway** (`apps/gateway`) | none; the orchestrator's position in a deletion | HTTP to RPC, JWT guard, account-delete orchestrator | RPCs to all |
| **nowhere-common** (`libs/nowhere-common`) | JetStream streams and consumers | `natsRequest` with timeout, error mapping, publisher, consumer with redelivery, object-key rules | used by all |

A handler is an `async` function. Node runs it without interruption between two
`await`s, so what can interleave is exactly what lies between two queries or
calls; several replicas of a service add nothing to that. No handler uses a
database transaction of its own, and none takes a lock.

### What is hard here

* **Entities saved from an old read.** TypeORM's `save(entity)` first SELECTs the
  row again, then writes the columns in which the entity differs *from that
  second read*, or INSERTs the entity when the row is gone. A handler that read
  the row before another request changed it writes the old values back.
* **Checks and effects in separate queries**: the idempotency lookup and the
  insert, the area query and the insert, the deletion of images and of documents.
* **Calls that outlive their caller.** `natsRequest` gives up after a timeout; the
  service goes on. The caller's retry meets its own earlier call.
* **A saga without a log.** The orchestrator makes four calls in a row and
  keeps no record of where it is; completion relies on the client's retries.
* **At-least-once events** that are given up after five deliveries.
* **A clock**: lockouts, token lifetimes, expiry of snaps, access tokens, and a
  cache of URLs that expire themselves.
* **State in memory**: the map of socket locations goes with the process, and a
  starting process serves requests before its hooks have run.

`PROJECT.json` lists each hazard at its line with the properties that cover it.

### What makes each component correct

* Credentials: a reset token works once; a lock comes exactly with the limit of
  failures; a deactivation or a deletion is final once the requests that
  were in flight have ended; each handler acts on a row as if in one step.
* Account deletion: nothing is destroyed before the account has been disabled;
  credentials go last; a confirmation means all is gone that the user had when the
  deletion found the account disabled; a client that retries is told so in the end.
* Snaps: one snap per idempotency key; one active snap of a user per place, but for
  creates that cannot see each other; images lose their documents in the two races
  that are named only; resolutions agree with their traces; expired snaps go in the end.
* Signup: an event is acked only when the account has its profile; no
  redelivery overwrites what the user wrote; every account gets its profile in
  the end, unless its event was not published, too old or given up.
* Users: a purge is final once the saves in flight have ended; the image a
  profile names exists, and one it stopped naming is deleted; the settings and
  the report a user stored stand, although reads create rows and checks precede
  inserts.
* Storage: a key that was handed out for an upload is accepted later by every
  service; the signing route and the deletions reach only what the user uploaded;
  no cached URL has expired.
* Feed: a snap that a user was shown moves from the near list to the seen list; the
  map of locations holds only connected sockets; no socket hears of a snap twice;
  a view that is repeated is answered in the end.

## 2. The modules

| Module | What it is |
|---|---|
| `AtomicAccounts` | What the authentication service promises of one credential row: every request that is not refused is one indivisible step. |
| `Credentials` | The authentication service's handlers, split at their queries. Refines `AtomicAccounts` when requests for one account do not overlap (model-checked). |
| `CredentialsProofs` | TLAPS proofs about `Credentials`. |
| `Erasure` | What the deletion of an account promises: the account is disabled, what the user had by then goes in any order, then the row of the account; only then is a deletion confirmed. Whoever has read the row may save it back. |
| `AccountDeletion` | The orchestrator, its RPCs, and the handlers they reach in authentication, snaps and users. Refines `Erasure`. |
| `AccountDeletionProofs` | TLAPS proofs about `AccountDeletion`. |
| `SnapBoard` | What the snaps service promises of the snaps on the map and their images: each is posted, resolved and deleted in one indivisible step, by those who may. |
| `SnapLifecycle` | The snaps service with the storage objects its documents name, split at its queries. Refines `SnapBoard`. |
| `SnapLifecycleProofs` | TLAPS proofs about `SnapLifecycle`. |
| `Provisioning` | What a signup promises: a profile is created in one step for an account that exists, beside none of its email, and the signup is over only when nothing is left to create. |
| `SignupFanout` | Signup and seedAdmin, the JetStream stream and consumer, and `createUser`. Refines `Provisioning` with one consumer. |
| `SignupFanoutProofs` | TLAPS proofs about `SignupFanout`. |
| `UserRecords` | The users service: rows, profile images, and its handlers query by query. |
| `UserRecordsProofs` | TLAPS proofs about `UserRecords`. |
| `ObjectKeys` | `storage-keys.ts`: building keys and deciding whose they are, over path segments. |
| `StorageUrls` | The storage service, its bucket and its cache, with those who hand out and accept keys. Extends `ObjectKeys`. |
| `StorageUrlsProofs` | TLAPS proofs about `StorageUrls` and `ObjectKeys`. |
| `SnapFeed` | What users see of snaps: views, lists, seen marks, sockets, start-up. |
| `SnapFeedProofs` | TLAPS proofs about `SnapFeed`. |
| `MCCredentials`, `MCAccountDeletion`, `MCSnapLifecycle`, `MCSignupFanout`, `MCUserRecords`, `MCStorageUrls`, `MCSnapFeed` | Small instances for TLC: symmetry sets, the owner of each key, the email of each account, the mixes of requests. |

The modules meet at their edges and are not one product: `AccountDeletion` keeps
`isActive` of the credential row and splits the queries of those who save it,
`Credentials` has the other columns too; `AccountDeletion` takes the
deletion of a user's images as one step of the call, `SnapLifecycle` and
`StorageUrls` take it key by key; `SnapFeed` takes an INSERT of a snap as one step,
`SnapLifecycle` splits the create.

Operators whose comment begins with "Mutant:" are plausible mistakes in the
operator below them; no specification uses them, and each makes one of the
properties fail when it takes the operator's place.

### Credentials

`row` and `tokens` are the two tables. `pc[h]` is the `await` at which handler
`h` waits, `job[h]` its request, `mine[h]` the entity it holds, `base[h]` what
`save`'s SELECT returned. One action per stretch between awaits:

| Handler | Actions |
|---|---|
| `login` | `Login` (find, lock check), `LoginVerify` (bcrypt, draft, `save`'s SELECT), `SaveWrite` |
| `changePassword` | `ChangePassword`, `ChangeVerify`, `SaveWrite` |
| `forgotPassword` | `ForgotPassword`, `ForgotPurge` (generate, delete older rows), `ForgotIssue` |
| `resetPassword` | `ResetPassword` (the consuming UPDATE), `ResetFindToken`, `ResetFindUser`, `ResetSave`, `SaveWrite` |
| `deactivateUser` | `DeactivateUser`, `DeactivateVerify`, `SaveWrite` |
| `deleteCredentials` | `DeleteCredentials` (tokens), `DeleteRow` |

`Abort` ends a handler at any stage: a query that rejects, or a crash. Requests
that are refused at their first query change nothing and are not steps. A
password stands for its hash, except that a new hash always counts as a changed
column. `lastLoginAt`, the pepper and the mail are left out: no property
depends on them. `SaveLoad`, `Column`, `Updated`, `Inserted` and `SaveWrite`
model TypeORM, which is not in the repository, from how the code uses it.

### AccountDeletion

`saga[a]` is the step a `DELETE /users/me` request waits in and the call it
waits for; `calls[c]` is an RPC, with the stage its handler has reached.
`Start`, `Reply` and `Timeout` are the orchestrator. `Timeout` leaves the call
where it is: its handler goes on (`Handle`), or fails (`Fail`), and its late
answer is dropped (`Discard`). A crash of the gateway is a `Timeout` too.

| Handler | Actions |
|---|---|
| `deactivateUser` | `DeactivateFind` (the row, and bcrypt), then `save`: `DeactivateSelect`, `DeactivateWrite` (UPDATE, or INSERT of a row that was deleted) |
| `deleteByUserId` | `SnapsFiles`, `SnapsDelete` |
| `purgeUser` | `PurgeFind`, `PurgeRecords` (once per table), `PurgeUser` |
| `deleteCredentials` | `DeleteCredentials` |
| login, change and reset of the password | `ReadCredential`, `SelectCredential`, `WriteCredential`, `LeaveCredential` (refused, or failed) |
| refresh | `RefreshToken` (the query), `GenerateTokens` (the answer) |
| what the guard lets in | `Request` (while the token lives), then `PostSnap`, `PutRecord`, `SaveProfile` or `EndRequest` |
| the signup event | `DeliverSignup` (handled, any number of times while it is in the stream), `SignupOver` (acked, or given up) |

`Saved` is TypeORM's `save` of a copy of the row: it writes `isActive` when the copy
differs from what `save`'s SELECT returned, and inserts the row when the SELECT found
none. So a save that read the active row enables a disabled account again, and it, or
a deactivation that its caller gave up, brings back a row that `deleteCredentials`
removed. All of these are steps of the model, and no property excludes them. `saving[s]` and the
`base` of a call are such copies. `mix` says which of these happen in a
behaviour, to keep runs small; the theorems hold for the mix of all.

Two histories, which no action's guard reads: `closed`, whether the account was ever
disabled, and in each call `owes`: what there was when its attempt's first step found the
account disabled or gone, and nobody has deleted since. What is written anew
afterwards is not owed.

`Erasure` has the account, what is left of the user, the copies of the row that others hold,
what each deletion owes, and the deletions that are confirmed, and neither services
nor stages. `Save` may set the account to what a copy says, at any time:
that is what the code does not prevent. What it promises is in the guards: `Erase`
needs an account that has been disabled, `Remove` of the row that nothing else is
owed, `Confirm` that nothing at all is. A call that is sent, lost or refused, and a
second delete of what is gone already are not seen there.

### SnapLifecycle

`docs` is the collection, `stored` the bucket, `url[k]` when the upload URL of a key
ends. `Presign` gives out a URL and `Upload` is a PUT to it: before the snap is posted or
after it was deleted, and again, as long as the URL lasts (`UrlLasts`, an hour, which is
less than any snap lasts). `Create`, `CreateCheckArea`, `CreateInsert` and
`CreateReplay` are `create`; its area query may fail, and the create goes on;
`BeginDelete`, `StorageDeletes` (one key of DELETE_FILES, also of an object that is not
there) and `DeleteDocs` are the four deletions; `MarkFound`, `Reopen` and
`ResolveUpdate` the resolutions. `Abort` ends a handler, and the storage service may go
on with its keys (`late`, `LateDelete`). Coordinates are abstracted to places: sets of
points within one another's `allowedPostDistance`. `again[h]` and `passed[s]` are
histories: the images PUT since a delete had them deleted, and the snaps that were
there when the area query of a create found none in its way (none, if it failed).

`SnapBoard` is the same service without handlers. The refinement mapping keeps the
documents, the ids, the objects, the URLs and the clock as they are and forgets the
requests, except that a delete in progress shows as what was asked, of which snaps, and
which images it has still to have deleted (`Asked`): a delete of one snap decides on what
it read, a bulk delete removes what is there when it ends but only the images of what
it read, an image may be PUT again in between, and a board that hid this would promise more
than the code keeps. A create shows when its document is inserted
(with a lifetime that was right at some moment before), a resolution when its update
runs, a sweep when its documents go.

### SignupFanout

`cred` are the credential rows, `request` the signup or `seedAdmin` that makes
each, `event` its message in the stream with the number of its deliveries,
`copies` what a process of the users service has pulled and not begun,
`worker` the delivery it handles, `profile` the rows of `users`.

| Code | Actions |
|---|---|
| `signup`, `seedAdmin` | `Signup`; `Seed`, `SeedInsert`; then `Publish` (whose answer may be lost) or `PublishFails` (also a crash) |
| JetStream, as the consumer configures it | `Deliver`, `AckWait` (the backoff), `AgeOut` (max_age) |
| the consumer's loop and `createUser` | `Take` (the lookup by id or email), `SaveSelect`, `SaveWrite`, `Raced` (the lookup after an error), `Settle` (ack or nak, either may be lost), `Restart` |
| the user | `EditProfile`, `PurgeUser`, `DeleteCredentials` |

Every query may fail, and a write may fail after it was done. The order of
deliveries is left open, because redeliveries overtake. A profile holds the
names of the event or those its user has written; the photo is left out. The
user's actions are one step each here. The 503 answers that the publisher's
client retries store nothing and are not steps.

`Provisioning` has the credentials, the profiles and the set of signups that are over,
which the refinement mapping takes for the acked events: requests, deliveries and
handlers are hidden. The INSERT is seen as `SignUp`, a write of `createUser` that
inserts the row as `Create`, an ack that the stream takes as `Finish`. Nothing else
the stream or a handler does is seen. The abstract `Create` also says what the code
does not prevent: a late event can create the profile of an account that is gone.

### UserRecords

`users`, `settings`, `kept` (bookmarks and seen marks) and `reports` are the
tables; `gone` are the deleted objects. `pc`, `job`, `mine` and `base` are as in
`Credentials`. `fate` and `agreed` are histories for the properties: what happened to
each image; and the values that may stand in the settings because updates asked for them,
with the updates that have been overtaken (another one stored between `save`'s SELECT and
UPDATE).

| Handler | Actions |
|---|---|
| `updateProfile` | `UpdateProfile`, `SaveSelect`, `SaveWrite` |
| `setUserPhoto` | `SetUserPhoto`, `SaveSelect`, `SaveWrite`, `DeletePrevious` (may fail, or be done late: `LateDelete`) |
| `purgeUser` | `PurgeUser` (find), `PurgeImage`, `PurgeKept` (twice), `PurgeReports`, `PurgeFindSettings`, `PurgeSettings`, `PurgeRemoveUser` |
| `getSettings`, `updateSettings` | `GetSettings` or `UpdateSettings` (find), `CreateSettings` (find the owner), `InsertSettings`, `LoadSettings`, `StoreSettings` |
| `addBookmark`, `addSeen`, `removeBookmark` | `AddBookmark` or `AddSeen`, `KeepSelect`, `KeepInsert`; `RemoveBookmark` |
| `createReport` | `CreateReport`, `ReportSelect`, `ReportWrite` |

A write that a unique, primary or foreign key refuses is not enabled, and `Abort`,
which every stage has, is its outcome. The columns that are always written together are
one value (`Names`, `Distances`). `workload` is the mix of requests of a behaviour:
it lets TLC take the requests that touch the same rows together, and leave those
that do not apart. Updates of the settings overlap like all other requests.

### ObjectKeys and StorageUrls

A key is the sequence of its segments; `Empty` is what a leading, trailing or doubled
slash leaves, and `IsPart` skips it as `split('/').filter(Boolean)` does. `Unsafe`
and `Schemes` are the segments the safety check looks for.

| Code | Actions |
|---|---|
| presigned uploads (gateway), the client's PUT | `PresignedUpload`, `PutObject` (also twice, or late) |
| a row takes a key, or gives it up | `Attach` (with the checks of the service), `Detach` |
| `GET /storage/signed`, images of a row | `GetSignedUrl`, `SignImages`, then per key `LookUp`, `Sign`, `Store` |
| `deleteFiles` | `DeleteFiles`, then per key `DeleteObject`, `Uncache` |
| Redis, time | `Tick` |

The providers differ in what a missing object is (`Outcomes`): S3 reports success,
GCS an error that counts as success. `scene` is the instance of a behaviour: the
keys asked for, the handlers, and the bound of the clock. `MaxDelay` bounds how long
a request takes; the RPC timeouts and the clients of the two services keep it far below
the hour that a URL lasts.

### SnapFeed

`docs` is the collection, `marks` the rows of `snap_seen`, `locations` the map in
memory, `socket` the connections, `moving` the location updates under way.
`viewed` and `told` are histories.

| Code | Actions |
|---|---|
| start-up | `Serve` (`startAllMicroservices`), `AfterInit` (the gateway's new map), `Backfill` (`onModuleInit`; then the port opens), `Crash` |
| `findOne` | `FindOne`, `SignImages`, `GetSeen`, `SaveSelect`, `SaveInsert`; `Abort`, `LateMark` (an RPC that outlives its caller) |
| `findNear`, `getSeenSnaps` | `FindNearby`, `LoadParams` (settings or defaults), `FindNear` (or an empty list), `FilterSeen`, `Answer` |
| `create`, deletions | `Create`, `Announce` (`handleNewSnap`), `Delete` |
| sockets | `Connect`, `Move` and `LocationChange` (sent and dispatched), `HandleDisconnect` |

Places and the radii between them are data (`Within`). `mix` plays the part of
`workload`.

## 3. What is checked

Each run finishes within a few minutes.

| Run | Bounds | Shows |
|---|---|---|
| `cred_overlap` | 1 user, 2 handlers, 2 passwords, 1 token, 2 failures, clock to 1 | `TokenSpentOnce`, `SettledDeactivationIsFinal`, `SettledDeletionIsFinal` under every interleaving of two requests for one account |
| `cred_serial` | 2 users, 2 handlers, one request per account at a time | `ImplementsAtomicAccounts`: the detailed service refines the atomic one; `LockTracksFailures`, `DeletionTakesTokens` |
| `delete_retry` | 2 attempts (each repeated without end), 2 calls, 1 snap, reports; beside them 1 request that saves the credential row, or 1 that posts a snap and a late signup event | `ConfirmedMeansErased`, `NothingLostBeforeClosed`; `ImplementsErasure`: every step is one of the abstract deletion, or is not seen there; with failing, late and abandoned calls |
| `delete_confirm` | 1 attempt (repeated without end), 2 calls; beside it token refreshes and 1 request that saves the credential row, or 1 that writes settings or the profile and a late signup event | `ErasedStaysErased`; `RetriesConfirmed` under fairness |
| `snap_images` | 2 users (one an administrator), 2 snaps that may share 1 image, 2 handlers, 1 sweep, clock to 1, which is when URLs end and snaps expire | `OneSnapPerKey`, `OnlyRacesOrphan` |
| `snap_turns` | 1 user, 2 snaps, 1 image, 2 handlers that create, resolve and delete, 1 sweep, clock to 1 | `OneActivePerPlace`, `ResolutionConsistent`; `ImplementsSnapBoard`: every step is one of the board, or is not seen there |
| `snap_sweep` | 2 snaps, 2 images, batches of 1, 1 handler, 1 sweep, clock to 1 | `ExpiredSwept` under fairness |
| `fanout_once` | 2 accounts of one email, 1 consumer, `max_deliver` 2 | `AckedMeansProfile`, `EditsSurviveRedelivery`; `ImplementsProvisioning`: every step is one of the abstract signup, or is not seen there; and `Provisioned` under fairness |
| `users_mixes` | 1 user, 2 images, 2 handlers; profile, photo and purge in one mix, purge and all row requests in the other; 3 ids of settings rows and 3 values | `SettledPurgeIsFinal`, `NamedImageExists`, `ReplacedImageDeleted`, `ConfirmedSettingsStand`, `SettledReportStands` |
| `storage_owned` | 2 users (one an administrator), 1 file, keys a client made up; either many keys and one request, or one key, two requests and the clock to 3; a URL lasts 2 ticks, a cache entry 1, a request at most 1 | `IssuedKeysUsable`, `HandedToUploader`, `RemovedForUploader`, `CachedUrlFresh` |
| `feed` | 1 user, 1 snap, 2 places, 2 sockets, 2 handlers, clock to 1; views, lists and deletions in one mix, creates and sockets in the other | `ViewedGoesToSeen`, `LocationOfConnected`, `AnnouncedOnce`, and `RetriedViewAnswered` under fairness |
| `snap_keyless` | 1 user, 2 snaps, 2 images, 2 handlers, 1 sweep, clock to 1 | expected to be violated: see below |

Why the bounds are enough: each hazard is a race of two requests over one row,
document or token, so two handlers and one (or, where uniqueness is at stake,
two) of the objects reach it; a third handler repeats the shapes. Clocks are
capped (`MaxTime`) one or two ticks past the shortest lifetime, so that both
sides of every expiry occur. `MaxCount` caps failed logins at or above the
limit. Two calls are those of two attempts, or of one and a call that its
caller gave up; the proofs about `AccountDeletion` have any number of each, and all that
happens beside a deletion in one behaviour. Two accounts of one email, of which the second can
exist only when the first is gone, are all that the lookup by email can confuse,
and two deliveries are the first and the last. Three ids are enough for settings
rows: one in the table and one in the hands of each handler. Two URLs of one key, one
of them signed earlier and stored later, are the worst that the cache can see. One
user and one snap are enough for the feed, as each property is about one user, one snap
and the socket that is told of it; the second handler and the second socket are
those that interfere. Symmetry is used for safety runs
only, and never over users with different roles.

### Where the code departs from what the repository says

| Run | What TLC finds |
|---|---|
| `snap_keyless` | The unique index is compound and sparse, so it holds documents without an idempotency key: the second keyless snap of a user is refused. |

### What the code does not promise

The passing properties are stated so that they hold in spite of the following, and
say so where they except it. None of these contradicts a line of the repository.

* **Credentials.** A password change that read the row before `deactivateUser` enables
  the account again. "Settled" deactivations and deletions are those that no request
  in flight can undo. Overlapping failures of login may be counted once.
* **Deletion.** A save of the credential row that read it before the account was disabled
  enables it again, even while the deletion goes on, and one that read it before
  `deleteCredentials` inserts it again, also when it is a deactivation that its caller gave
  up. Hence `NothingLostBeforeClosed` is about an account that has never been disabled, and
  does not say that what is destroyed belongs to a disabled account. The access token
  outlives the account, and admits writes during and
  after a confirmed deletion; `ConfirmedMeansErased` and `Erasure` are about what there was
  when the first step of a deletion found the account disabled, and except what was written
  anew since, by a request, a save or the signup event. `ErasedStaysErased` says from when
  nothing comes back: no token and no refresh is left, no request or late deactivation has
  something to save, and the event is over.
* **Signup.** The consumer's handler throws on the fifth delivery, and the event is never
  delivered again: the account stays without a profile and its email is taken.
  `Provisioned` excepts events that were not published, are too old or were given up;
  `AckedMeansProfile` excepts accounts whose email a deleted account had.
  `EditsSurviveRedelivery` assumes one consumer, as `k8s/apps.yaml` deploys it:
  while a rolling update runs two, a whole edit between two consecutive queries of
  `createUser` could be lost.
* **Snaps.** Two creates of a user whose area queries both come before the other's insert,
  or whose area query fails, leave two active snaps in one place; `OneActivePerPlace` says
  that there is no third way. `OnlyRacesOrphan` names the two ways in which a stored image
  loses its last document: a bulk delete removes a snap created after it collected the
  keys, or the client PUTs an image again between its deletion and that of its document.
  An object that is PUT when its document is gone, or whose snap is never posted, stays.
* **Users.** A profile save that read the row before a photo change names the replaced
  image again, and one that read it before a purge inserts the row again. A photo
  change that overlaps another leaves an image behind. An update of the settings
  whose row a purge took away stores nothing and succeeds; of overlapping updates either
  may stand, column by column, and `ConfirmedSettingsStand` says no more than that.
* **Storage.** `assertSnapImageKeys` does not ask for the fourth segment that
  `isOwnedObjectKey` asks for. A URL stored after the deletion of its object is served
  until the entry expires. An upload URL still works after a deletion.
* **Feed.** That a location which was sent before its socket closed is not stored
  afterwards (`LocationOfConnected`) is socket.io's doing: `locationChange` has no check of
  its own, and `LocationChange` has the library's. A snap whose process stops between insert and announcement is never
  announced. Two views that mark at once make one of them answer 404; the next
  one succeeds (`RetriedViewAnswered`).

### Fairness

* `SnapLifecycle!Fairness`: `@Interval` keeps firing and a sweep that can go on
  does (weak fairness per worker and per key); the clock advances; an outage of
  MongoDB or of the storage service ends (`<>[][Abort(w) => DeleteDocs(w)]_vars`), and from then on
  a batch is deleted within the timeout of its call. Without the
  last, sweeps can fail for ever, and the code has no other remedy.
* `AccountDeletion!Fairness`: services work on what they were sent and answers
  arrive (weak fairness); from some moment no call fails or is late; the client
  sends the request again with the right password for as long as its token lasts
  (strong fairness of `Start`: a busy moment must not excuse it). The last two
  are assumptions about the environment: the code has no retry of its own.
* `SignupFanout!Fairness`: a request goes on after its INSERT, or fails; what is due
  is delivered, an ack that does not come counts as missing, and the
  consumer's loop runs (weak fairness of each). Nothing is assumed of failures and
  restarts, because deliveries are limited.
* `SnapFeed!Fairness`: a request is carried on and a process is started again (weak
  fairness); a client repeats a view that was not answered (strong fairness of `View`,
  because all handlers may be busy now and then). That crashes and failures end is
  the hypothesis of `RetriedViewAnswered`, not a part of the specification.

## 4. What is proved

`CredentialsProofs`, for any numbers of users, handlers, passwords and
tokens and any values of the limits:

* `TypeCorrect`: `Spec => []TypeOK`. `TypeOK` includes what a handler holds at
  each stage (`StageOK`), and is inductive by itself.
* `TokenSpentOnceHolds`: `Spec => []TokenSpentOnce`. The property alone is not
  inductive: the INSERT of a token row could revive a used token. `TokenInv`
  adds `IssuerAlone`: a token that was generated and not inserted belongs to one
  handler alone and is still `pending`.
* `SettledDeactivationIsFinalHolds`, `SettledDeletionIsFinalHolds`, with overlapping
  requests. Each is one step from `TypeOK`: a handler that begins later holds what it
  read, and what it can read no longer has the account active or there.

`LockTracksFailures`, `DeletionTakesTokens` and `ImplementsAtomicAccounts` fail when requests
for one account overlap, which nothing in the code prevents: they are checked for serial
requests (run `cred_serial`), to show that the handlers are right one by one, and no
theorem is made of them.

`AccountDeletionProofs`, for any numbers of attempts, calls, snaps, other requests and savers
of the row, and any mix of them:

* `TypeCorrect`. `TypeInv` says too that no two attempts wait for one
  call; without it an answer taken by one could leave the other waiting for
  nothing.
* `NothingLostBeforeClosedHolds`. `ClosedInv`: an account that was never disabled is active.
  `CallInv` says of each call what must have happened by its stage, among it that a
  deactivation that is done, and every call of a later step, comes after the account was
  disabled. It rests on the orchestrator's waiting for the answer, and survives calls that
  outlive it. The savers cannot break it: a copy says "disabled" only of an account that was.
* `ConfirmedMeansErasedHolds`. `CallInv` says of every call what it may still owe (`Good`): a
  purge owes no snaps, nor the tables it has passed, nor the profile if it found none; the
  deletion of the credentials owes nothing else. What is owed is still there (part of
  `Owing`), so that to delete it pays everybody's debt, and what comes back is owed by
  nobody. `Moves` is the one shape of a handler's step: one call goes on, and all
  calls owe less by what was deleted (`HandlerMoves`, `HandlerOwing`).
* `ImplementsErasureHolds`, the refinement of `Erasure`, from the same invariant: `HandlerErasure`
  maps the handlers (`DeactivateErasure` to `Read`, `Save` and `Drop`, `EraseErasure`,
  `RemoveErasure`), `OutsideErasure` the other requests and the event, `OrchestratorErasure`
  the attempts: the call after a deactivation is `Ask`, the last answer `Confirm`.
* `ErasedStaysErasedHolds`: one step from `TypeInv`, over every action that could write.

`SignupFanoutProofs`, for any numbers of accounts, emails and deliveries:

* `TypeCorrect`.
* `AckedMeansProfileHolds`, for any number of consumers. `FanoutInv` adds three
  facts: whatever exists of an account, its row was inserted (`KnownFirst`);
  no two live accounts have one email (`UniqueEmails`); a handler that is
  about to ack, or whose save has found a row, has seen that the account is
  settled (`AckSettled`). The first two are why a row found by email is the
  account's own or a deleted account's (`FoundSettles`); `SettledStays` is why
  it does not matter how late the ack is.
* `EditsSurviveRedeliveryHolds`, for one consumer (`OneConsumer`). `Unwritten`:
  between the first query of `createUser` and its write the row does not
  appear, because nobody else creates it.
* `ImplementsProvisioningHolds`, the refinement of `Provisioning`, for one consumer: with
  two, a write can put the names of the signup back. `FanoutInv` gives the guards of the
  abstract steps, `Unwritten` that a write creates or changes nothing (`WriteCreates`),
  and `Unpublished` that a publish never takes an ack back.

`SnapLifecycleProofs`, for any numbers of users, snaps, keys, requests and sweeps:

* `TypeCorrect`, `OneSnapPerKeyHolds` and `ResolutionConsistentHolds`, from one invariant,
  `SnapInv`. Its part `FilesInv` says of every deletion in progress that each image of its
  documents is deleted, still on its list, or was PUT again.
* `ImplementsBoard`: the service refines `SnapBoard`, without assumptions about what
  overlaps. `BoardInv` says of each worker that what it checked or computed is still
  good enough: a delete's snaps that are left are still the user's, or an
  administrator asked, and a sweep's are still expired (`DeleteOK`); a create's images are
  its owner's, and its expiry is a lifetime after a moment that is past (`CreateOK`). It is
  kept because snaps go or stay and the clock does not go back (`Onward`). Together
  with `FilesInv`, which says that the images went first, each write of a
  handler is then a step of the board, and every other step leaves the board alone (`Quiet`).
* `OnlyRacesOrphanHolds`, from `SnapInv` and `BoardInv`: `UrlsOK` dates the upload URLs of
  a document before its expiry (`TimesAssumption`), so that no image of what a sweep deletes
  can be PUT again.
* `OneActivePerPlaceHolds`, whatever overlaps and fails. `PlaceInv`: of the snaps that a
  create had before it when its area query found none, those in its place have expired, and
  snaps do not come back to life.

`StorageUrlsProofs`, for any keys, users, cache and requests:

* `OneOwner`, about the functions of `storage-keys.ts` alone: whatever the key, the checks
  that decide whose it is pass for one user at most. It needs no assumption about
  segments: a key has one first, one second and one third part (`OnePart`), and the
  first cannot be `snaps` and `profile` at once.
* `TypeCorrect`, `IssuedKeysUsableHolds`, `HandedToUploaderHolds`,
  `RemovedForUploaderHolds`, `CachedUrlFreshHolds`. Lemmas about the segments of a built key
  (which user is its third or second part) carry the middle three; `IInv` adds to them the
  age of a signed URL at each stage (`JobsOK`) and in the cache (`CacheOK`).
  `TimesAssumption` is what the constants of the code give: the entry and a slow
  request together last less than the URL.

`SnapFeedProofs`, for any numbers of users, snaps, sockets and requests:

* `TypeCorrect`, which includes that documents are dated once sockets can connect;
  `LocationOfConnectedHolds`.
* `ViewedGoesToSeenHolds`. `FeedInv`: whatever a request knew to be viewed when it began
  is marked, and marks stay.
* `AnnouncedOnceHolds`, where creates and deletions are not both in the mix: a snap that
  was deleted may be created again under its key, and is then another snap. The invariant
  says that of all requests at most one is about to announce a snap, and then nobody
  was told of it yet.

`UserRecordsProofs`, for any numbers of users, images, snaps and requests:

* `NamedImageExistsHolds` and `ReplacedImageDeletedHolds`, from `ImagesInv`: the image a
  photo change read is the one the row names or was replaced since (`HandlersInv`), an
  image that was replaced and is named again was restored (`RowsInv`), and only images
  replaced or purged are deleted (`GoneInv`).
* `TypeCorrect`. `RecordsInv` adds what the other requests hold at each stage.
* `ConfirmedSettingsStandHolds`, however updates overlap. `StandInv`: a row about to be inserted
  has an id of its own (`NewIds`), the row that an update selected still has its distance
  unless another update overtook it (`BaseIsRow`), and only an update that stored overtakes
  (`OvertakenByOne`).
* `SettledPurgeIsFinalHolds`, `SettledReportStandsHolds`, by the action that begins a save.

The assumptions on the constants are types (`LimitsAssumption`, `DeletionAssumption`, `WritesAssumption`,
`FanoutAssumption`, `SnapAssumption`, `InputsAssumption`, `ScenesAssumption`), that an absent
value is none of the present ones (`NoRowAssumption`, `NoneAssumption`, `NoJobAssumption`,
`NoSnapAssumption`, `AbsentAssumption`), that ids, dates and file names are safe segments
different from the prefixes' (`SegmentsAssumption`), and the two `TimesAssumption`s: a signed
URL outlives its cache entry, an upload URL no snap.

Proved and not part of a run: `StorageUrls!TypeOK`, which `TypeCorrect` states for every
value of the constants, and `OneOwner`.

Only model-checked: the liveness properties `RetriesConfirmed`, `ExpiredSwept`,
`Provisioned` and `RetriedViewAnswered`, as fairness and ENABLED are out of the
prover's reach; and `LockTracksFailures`, `DeletionTakesTokens` and
`ImplementsAtomicAccounts`, for the reason given above.

## 5. Not modelled

* The SMTP mailer: one dialogue per mail on a socket of its own. It changes no row, and
  `forgotPassword` answers the same whatever becomes of the mail.
* The export of a user's data and the queries `findAll`, `findByTags`, `findByUser`: reads
  that change nothing and promise no snapshot.
* Field validation, status codes and wording of errors, JWT signing, the content of mails,
  coordinates, and the tags of snaps, which no write looks at (`markFound` takes any).
* Contracts (types, message patterns and schemas), configuration, secrets, health checks,
  logging, migrations, seeds and deployment: no protocol of their own. Of the bootstrap,
  the order in which a starting process serves requests and runs its hooks is in `SnapFeed`.
* NATS and JetStream themselves, MySQL, MongoDB, Redis, TypeORM and the bucket are modelled
  from how the code uses them.

## 6. Plan

What would add most next:

1. `SmtpDialog`: one promise, and the reply, error, end and timeout that race to settle it.
2. The lists `findByTags` and `findByUser`, which add the signing of many images to
   what `SnapFeed` has.
3. An abstract profile, with one step for each photo change and purge, that `UserRecords`
   refines where photo changes take turns: its invariants are proved one by one so far.
