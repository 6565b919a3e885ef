------------------------------ MODULE StorageUrls ------------------------------
(***************************************************************************)
(* The storage service and those who ask it: the gateway hands out upload  *)
(* URLs for keys it builds and download URLs for keys a user owns; the     *)
(* users and snaps services accept keys into rows, sign the images of      *)
(* their rows and delete them.  Download URLs are cached in Redis.         *)
(* Requests are split at every await; a tick is a stretch of time.         *)
(***************************************************************************)
EXTENDS ObjectKeys

CONSTANTS
  Users, Admins,
  Files,        \* unique file names (a bound on the keys built)
  Today,        \* the date segment
  ClientKeys,   \* keys a client may send, built or not
  Prefixes,     \* values of prefix a client may send
  Provider,     \* STORAGE_PROVIDER: "s3" or "gcs"
  UrlTtl,       \* expiresIn of a signed URL, in ticks
  CacheTtl,     \* CACHE_TTL, in ticks
  MaxDelay,     \* ticks a request takes at most (a bound)
  MaxRows,      \* bound on the rows that name a key
  Handlers,
  Scenes,       \* instances: the keys asked for, the handlers, a bound on the clock
  NoUrl, None

ASSUME TimesAssumption ==
  /\ UrlTtl \in Nat /\ CacheTtl \in Nat \ {0} /\ MaxDelay \in Nat /\ MaxRows \in Nat
  /\ CacheTtl + MaxDelay <= UrlTtl    \* 86340 ms of cache, 3600 s of URL
  /\ MaxUploadBatch \in Nat \ {0}
  /\ Provider \in {"s3", "gcs"}

\* Ids, file names and dates are segments of their own, and safe ones.
ASSUME SegmentsAssumption ==
  (Users \cup Files \cup {Today, "snaps", "profile"}) \cap (Unsafe \cup {Empty}) = {}

VARIABLES
  objects,   \* keys with an object in the bucket
  issued,    \* <<user, key>>: upload URLs handed out
  attached,  \* <<user, key>>: keys that rows of the user name
  cache,     \* Redis: the URL of a key, and when each of the two expires
  pc, job,   \* where each handler of the storage service waits, and for what
  now,
  scene      \* the instance of this behaviour

vars == <<objects, issued, attached, cache, pc, job, now, scene>>

Built == {BuildOwnedObjectKey(p, u, f, Today) : p \in Prefixes, u \in Users, f \in Files}
Keys  == Built \cup ClientKeys

ASSUME ScenesAssumption ==
  \A s \in Scenes : s.keys \subseteq Keys /\ s.handlers \subseteq Handlers /\ s.maxTime \in Nat

\* A signed URL, by the end of its life, and its entry in the cache.
Url == [url : Nat, until : Nat]

Job == [op : {"route", "row", "delete"}, user : Users, keys : Seq(Keys) \ {<< >>},
        since : Nat, url : Nat \cup {NoUrl}]

ASSUME AbsentAssumption == NoUrl \notin Url \cup Nat /\ None \notin Job

Init ==
  /\ objects = {} /\ issued = {} /\ attached = {}
  /\ cache = [k \in Keys |-> NoUrl]
  /\ pc = [h \in Handlers |-> "idle"]
  /\ job = [h \in Handlers |-> None]
  /\ now = 0
  /\ scene \in Scenes

-------------------------------------------------------------------------------
\* Uploads: at most MaxUploadBatch files, each under a key of its own.

NewFile(f) == \A x \in issued : x[2][Len(x[2])] # f

PresignedUpload(u, prefix, fs) ==
  /\ Cardinality(fs) \in 1..MaxUploadBatch
  /\ \A f \in fs : NewFile(f)
  /\ issued' = issued \cup {<<u, BuildOwnedObjectKey(prefix, u, f, Today)>> : f \in fs}
  /\ UNCHANGED <<objects, attached, cache, pc, job, now, scene>>

\* The client PUTs the bytes, possibly again.
PutObject(k) ==
  /\ objects' = objects \cup {k}
  /\ UNCHANGED <<issued, attached, cache, pc, job, now, scene>>

\* A snap is created with image keys, or a profile photo is set.
Attach(u, k) ==
  /\ Cardinality(attached) < MaxRows
  /\ AssertSnapImageKeys(<<k>>, u) \/ AssertProfileImageKey(k, u)
  /\ attached' = attached \cup {<<u, k>>}
  /\ UNCHANGED <<objects, issued, cache, pc, job, now, scene>>

\* The row is deleted, or names another key.
Detach(x) ==
  /\ attached' = attached \ {x}
  /\ UNCHANGED <<objects, issued, cache, pc, job, now, scene>>

-------------------------------------------------------------------------------
\* Signed download URLs.

Request(op, u, ks) == [op |-> op, user |-> u, keys |-> ks, since |-> now, url |-> NoUrl]
Key(h) == Head(job[h].keys)

Begin(h, stage, j) ==
  /\ h \in scene.handlers
  /\ pc[h] = "idle"
  /\ pc' = [pc EXCEPT ![h] = stage]
  /\ job' = [job EXCEPT ![h] = j]

Goto(h, stage, j) ==
  /\ pc' = [pc EXCEPT ![h] = stage]
  /\ job' = [job EXCEPT ![h] = j]

End(h) == Goto(h, "idle", None)

\* The reply: the key's turn is over, and the next one is looked up.
Served(h) ==
  IF Len(job[h].keys) = 1
  THEN End(h)
  ELSE Goto(h, "lookup", [job[h] EXCEPT !.keys = Tail(@), !.url = NoUrl])

\* GET /storage/signed
GetSignedUrl(h, u, k) ==
  /\ Begin(h, "lookup", Request("route", u, <<k>>))
  /\ AssertOwnedObjectKey(k, u, u \in Admins)
  /\ UNCHANGED <<objects, issued, attached, cache, now, scene>>

\* The images of a row, for whoever reads it.
SignImages(h, u, ks) ==
  /\ Begin(h, "lookup", Request("row", u, ks))
  /\ \A i \in DOMAIN ks : <<u, ks[i]>> \in attached
  /\ UNCHANGED <<objects, issued, attached, cache, now, scene>>

LookUp(h) ==
  /\ pc[h] = "lookup"
  /\ IF cache[Key(h)] # NoUrl
     THEN Served(h)
     ELSE Goto(h, "sign", job[h])
  /\ UNCHANGED <<objects, issued, attached, cache, now, scene>>

\* What both providers sign: a URL for expiresIn from now.
SignedUntil == now + UrlTtl

\* Signing looks at no object: a URL of a missing one is signed as well.
Sign(h) ==
  /\ pc[h] = "sign"
  /\ Goto(h, "store", [job[h] EXCEPT !.url = SignedUntil])
  /\ UNCHANGED <<objects, issued, attached, cache, now, scene>>

\* Mutant: the entry lives as long as the URL.
StoreAsLong(h) ==
  /\ pc[h] = "store"
  /\ cache' = [cache EXCEPT ![Key(h)] = [url |-> job[h].url, until |-> now + UrlTtl]]
  /\ Served(h)
  /\ UNCHANGED <<objects, issued, attached, now, scene>>

Store(h) ==
  /\ pc[h] = "store"
  /\ cache' = [cache EXCEPT ![Key(h)] = [url |-> job[h].url, until |-> now + CacheTtl]]
  /\ Served(h)
  /\ UNCHANGED <<objects, issued, attached, now, scene>>

-------------------------------------------------------------------------------
\* Deletions: key by key, the object and then the cached URL; an object that is
\* missing counts as deleted, any other failure ends the batch.

DeleteFiles(h, u, ks) ==
  /\ Begin(h, "delete", Request("delete", u, ks))
  /\ \A i \in DOMAIN ks : <<u, ks[i]>> \in attached
  /\ UNCHANGED <<objects, issued, attached, cache, now, scene>>

Outcomes(k) ==
  {"error", IF k \notin objects /\ Provider = "gcs" THEN "missing" ELSE "ok"}

IsMissingObjectError(outcome) == outcome = "missing"

DeleteObject(h) ==
  LET k == Key(h)
  IN /\ pc[h] = "delete"
     /\ \E o \in Outcomes(k) :
          IF o = "ok" \/ IsMissingObjectError(o)
          THEN /\ objects' = objects \ {k}
               /\ Goto(h, "uncache", job[h])
          ELSE objects' = objects /\ End(h)
     /\ UNCHANGED <<issued, attached, cache, now, scene>>

Uncache(h) ==
  /\ pc[h] = "uncache"
  /\ cache' = [cache EXCEPT ![Key(h)] = NoUrl]
  /\ IF Len(job[h].keys) = 1
     THEN End(h)
     ELSE Goto(h, "delete", [job[h] EXCEPT !.keys = Tail(@)])
  /\ UNCHANGED <<objects, issued, attached, now, scene>>

-------------------------------------------------------------------------------
\* A call to Redis or to the provider fails, or the process dies.
Abort(h) ==
  /\ pc[h] # "idle"
  /\ End(h)
  /\ UNCHANGED <<objects, issued, attached, cache, now, scene>>

Expired(entry, time) == entry # NoUrl /\ entry.until <= time

\* Redis drops what has expired.
Tick ==
  /\ now < scene.maxTime
  /\ \A h \in Handlers : pc[h] # "idle" => now - job[h].since < MaxDelay
  /\ now' = now + 1
  /\ cache' = [k \in Keys |-> IF Expired(cache[k], now + 1) THEN NoUrl ELSE cache[k]]
  /\ UNCHANGED <<objects, issued, attached, pc, job, scene>>

\* A request names one key or two.
Batches == {<<k>> : k \in scene.keys} \cup {<<j, k>> : j, k \in scene.keys}

Next ==
  \/ \E u \in Users, p \in Prefixes, fs \in (SUBSET Files) \ {{}} : PresignedUpload(u, p, fs)
  \/ \E u \in Users, k \in scene.keys : Attach(u, k)
  \/ \E x \in issued : PutObject(x[2])
  \/ \E x \in attached : Detach(x)
  \/ \E h \in Handlers :
       \/ \E u \in Users, k \in scene.keys : GetSignedUrl(h, u, k)
       \/ \E u \in Users, ks \in Batches : SignImages(h, u, ks) \/ DeleteFiles(h, u, ks)
       \/ LookUp(h) \/ Sign(h) \/ Store(h) \/ DeleteObject(h) \/ Uncache(h) \/ Abort(h)
  \/ Tick

Spec == Init /\ [][Next]_vars

-------------------------------------------------------------------------------
\* The rows, the cache and the requests are well formed, and only objects with
\* an upload URL exist.
TypeOK ==
  /\ objects \subseteq {x[2] : x \in issued}
  /\ issued \subseteq Users \X Built
  /\ attached \subseteq Users \X Keys
  /\ cache \in [Keys -> Url \cup {NoUrl}]
  /\ pc \in [Handlers -> {"idle", "lookup", "sign", "store", "delete", "uncache"}]
  /\ job \in [Handlers -> Job \cup {None}]
  /\ now \in Nat
  /\ scene \in Scenes

\* The key the gateway builds for an upload is one that every later check of
\* another service accepts from that user: the signing route, and the service
\* whose rows the prefix is for.
IssuedKeysUsable ==
  \A x \in issued :
    LET u == x[1] k == x[2]
    IN /\ AssertOwnedObjectKey(k, u, FALSE)
       /\ AssertProfileImageKey(k, u) \/ AssertSnapImageKeys(<<k>>, u)

\* The signing route hands a user who is no administrator URLs of objects that
\* were uploaded by that user only, whatever key is asked for.
HandedToUploader ==
  \A h \in Handlers, y \in issued :
    pc[h] # "idle" /\ job[h].op = "route" /\ y[2] = Key(h) =>
      y[1] = job[h].user \/ job[h].user \in Admins

\* Deleting the images of a row deletes only objects that the user of the row
\* uploaded: what the services accept into their rows is what they may delete.
RemovedForUploader ==
  \A h \in Handlers, y \in issued :
    pc[h] # "idle" /\ job[h].op = "delete" /\ y[2] = Key(h) => y[1] = job[h].user

\* The cache never serves a URL that has expired: an entry goes before its URL,
\* also when a slow request stores a URL that it signed earlier over a newer one.
CachedUrlFresh ==
  \A k \in Keys : cache[k] # NoUrl => cache[k].url > now
===============================================================================
