--------------------------- MODULE StorageUrlsProofs ---------------------------
(***************************************************************************)
(* Theorems of ObjectKeys and StorageUrls, for any users, files, keys that *)
(* clients make up, requests and lengths of time.                          *)
(***************************************************************************)
EXTENDS StorageUrls, FiniteSetTheorems, SequenceTheorems, TLAPS

-------------------------------------------------------------------------------
\* Keys.

\* The parts of a key without empty segments are its segments.
LEMMA FullKey ==
  ASSUME NEW key, NEW n \in Nat, DOMAIN key = 1..n, \A i \in 1..n : key[i] # Empty
  PROVE  /\ Cardinality(Parts(key)) = n
         /\ \A i \in Nat : \A s : IsPart(key, i, s) <=> i \in 1..n /\ key[i] = s
<1>1. Parts(key) = 1..n
  BY DEF Parts
<1>2. ASSUME NEW i \in Nat, i <= n PROVE Cardinality(1..i) = i
  <2>1. Cardinality(1..i) = IF 1 > i THEN 0 ELSE i - 1 + 1
    BY FS_Interval, 1 \in Int, i \in Int
  <2> QED
    BY <2>1
<1>3. ASSUME NEW i \in 1..n PROVE Cardinality({m \in Parts(key) : m <= i}) = i
  <2>1. {m \in Parts(key) : m <= i} = 1..i
    BY <1>1
  <2>2. i \in Nat /\ i <= n
    OBVIOUS
  <2> QED
    BY <1>2, <2>1, <2>2
<1>4. Cardinality(Parts(key)) = n
  BY <1>1, <1>2
<1>5. ASSUME NEW i \in Nat, NEW s
      PROVE  IsPart(key, i, s) <=> i \in 1..n /\ key[i] = s
  BY <1>1, <1>3 DEF IsPart
<1> QED
  BY <1>4, <1>5

\* The two forms of a key that the gateway builds for a user.
Segments(key, n) ==
  /\ DOMAIN key = 1..n /\ Len(key) = n
  /\ \A i \in 1..n : key[i] # Empty /\ key[i] \notin Unsafe

ProfileKey(key, u) == Segments(key, 3) /\ key[1] = "profile" /\ key[2] = u
SnapKey(key, u)    == Segments(key, 4) /\ key[1] = "snaps" /\ key[3] = u

LEMMA BuiltKey ==
  ASSUME NEW u \in Users, NEW f \in Files, NEW prefix
  PROVE  \/ ProfileKey(BuildOwnedObjectKey(prefix, u, f, Today), u)
         \/ SnapKey(BuildOwnedObjectKey(prefix, u, f, Today), u)
<1>1. \A x \in {u, f, Today, "snaps", "profile"} : x # Empty /\ x \notin Unsafe
  BY SegmentsAssumption
<1>2. ProfileKey(<<"profile", u, f>>, u)
  <2> DEFINE key == <<"profile", u, f>>
  <2>1. DOMAIN key = 1..3 /\ Len(key) = 3
    OBVIOUS
  <2>2. key[1] = "profile" /\ key[2] = u /\ key[3] = f
    OBVIOUS
  <2> HIDE DEF key
  <2>3. \A i \in 1..3 : key[i] \in {u, f, "profile"}
    BY <2>2
  <2>4. ProfileKey(key, u)
    BY <1>1, <2>1, <2>2, <2>3 DEF ProfileKey, Segments
  <2> QED
    BY <2>4 DEF key
<1>3. SnapKey(<<"snaps", Today, u, f>>, u)
  <2> DEFINE key == <<"snaps", Today, u, f>>
  <2>1. DOMAIN key = 1..4 /\ Len(key) = 4
    OBVIOUS
  <2>2. key[1] = "snaps" /\ key[2] = Today /\ key[3] = u /\ key[4] = f
    OBVIOUS
  <2> HIDE DEF key
  <2>3. \A i \in 1..4 : key[i] \in {u, f, Today, "snaps"}
    BY <2>2
  <2>4. SnapKey(key, u)
    BY <1>1, <2>1, <2>2, <2>3 DEF SnapKey, Segments
  <2> QED
    BY <2>4 DEF key
<1> QED
  BY <1>2, <1>3 DEF BuildOwnedObjectKey

\* What the checks of such a key come to.
LEMMA ProfileParts ==
  ASSUME NEW key, NEW u, ProfileKey(key, u)
  PROVE  /\ IsPart(key, 1, "profile") /\ ~IsPart(key, 1, "snaps")
         /\ \A v : IsPart(key, 2, v) <=> v = u
         /\ HasParts(key, 2)
<1>1. DOMAIN key = 1..3 /\ \A i \in 1..3 : key[i] # Empty
  BY DEF ProfileKey, Segments
<1>2. Cardinality(Parts(key)) = 3
  BY <1>1, FullKey, 3 \in Nat
<1>3. \A i \in Nat : \A s : IsPart(key, i, s) <=> i \in 1..3 /\ key[i] = s
  BY <1>1, FullKey, 3 \in Nat
<1> QED
  BY <1>2, <1>3 DEF ProfileKey, HasParts

LEMMA SnapParts ==
  ASSUME NEW key, NEW u, SnapKey(key, u)
  PROVE  /\ IsPart(key, 1, "snaps") /\ ~IsPart(key, 1, "profile")
         /\ \A v : IsPart(key, 3, v) <=> v = u
         /\ HasParts(key, 4)
<1>1. DOMAIN key = 1..4 /\ \A i \in 1..4 : key[i] # Empty
  BY DEF SnapKey, Segments
<1>2. Cardinality(Parts(key)) = 4
  BY <1>1, FullKey, 4 \in Nat
<1>3. \A i \in Nat : \A s : IsPart(key, i, s) <=> i \in 1..4 /\ key[i] = s
  BY <1>1, FullKey, 4 \in Nat
<1> QED
  BY <1>2, <1>3 DEF SnapKey, HasParts

LEMMA SegmentsSafe ==
  ASSUME NEW key, NEW n \in Nat, n > 1, Segments(key, n)
  PROVE  AssertSafeObjectKey(key)
<1>1. key \notin {<< >>, <<Empty>>}
  <2>1. Len(<< >>) = 0 /\ Len(<<Empty>>) = 1
    OBVIOUS
  <2> QED
    BY <2>1 DEF Segments
<1>2. \A i \in DOMAIN key : i + 2 <= Len(key) => i + 1 \in 1..n
  BY DEF Segments
<1> QED
  BY <1>1, <1>2 DEF Segments, AssertSafeObjectKey

\* What a service accepts into the rows of a user.
Accepted(u, k) == AssertSnapImageKeys(<<k>>, u) \/ AssertProfileImageKey(k, u)

\* A single key is accepted for a snap when it is safe and in the user's folder.
LEMMA OneSnapKey ==
  ASSUME NEW key, NEW v
  PROVE  AssertSnapImageKeys(<<key>>, v) <=>
           AssertSafeObjectKey(key) /\ IsPart(key, 1, "snaps") /\ IsPart(key, 3, v)
<1> DEFINE keys == <<key>>
<1>1. Len(keys) = 1 /\ DOMAIN keys = {1} /\ keys[1] = key
  OBVIOUS
<1> HIDE DEF keys
<1>2. AssertSnapImageKeys(keys, v) <=>
        AssertSafeObjectKey(key) /\ IsPart(key, 1, "snaps") /\ IsPart(key, 3, v)
  BY <1>1, TimesAssumption DEF AssertSnapImageKeys
<1> QED
  BY <1>2 DEF keys

\* Only its user owns a key that was built, and no other user's rows accept it.
LEMMA BuiltKeyIsOwned ==
  ASSUME NEW u \in Users, NEW f \in Files, NEW prefix, NEW v,
         \/ IsOwnedObjectKey(BuildOwnedObjectKey(prefix, u, f, Today), v)
         \/ Accepted(v, BuildOwnedObjectKey(prefix, u, f, Today))
  PROVE  v = u
<1> DEFINE key == BuildOwnedObjectKey(prefix, u, f, Today)
<1>1. ProfileKey(key, u) \/ SnapKey(key, u)
  BY BuiltKey
<1>2. IsOwnedObjectKey(key, v) \/ Accepted(v, key)
  OBVIOUS
<1> HIDE DEF key
<1> QED
  BY <1>1, <1>2, ProfileParts, SnapParts, OneSnapKey
     DEF IsOwnedObjectKey, Accepted, AssertProfileImageKey, AssertOwnedObjectKey

\* The user of a built key passes every check.
LEMMA BuiltKeyUsable ==
  ASSUME NEW u \in Users, NEW f \in Files, NEW prefix
  PROVE  LET key == BuildOwnedObjectKey(prefix, u, f, Today)
         IN AssertOwnedObjectKey(key, u, FALSE) /\ Accepted(u, key)
<1> DEFINE key == BuildOwnedObjectKey(prefix, u, f, Today)
<1>1. ProfileKey(key, u) \/ SnapKey(key, u)
  BY BuiltKey
<1> HIDE DEF key
<1>2. AssertSafeObjectKey(key)
  BY <1>1, SegmentsSafe DEF ProfileKey, SnapKey
<1>3. AssertOwnedObjectKey(key, u, FALSE) /\ Accepted(u, key)
  BY <1>1, <1>2, ProfileParts, SnapParts, OneSnapKey
     DEF IsOwnedObjectKey, Accepted, AssertProfileImageKey, AssertOwnedObjectKey
<1> QED
  BY <1>3 DEF key

\* Any key, whoever made it up, has one first, one second and one third part.
LEMMA OnePart ==
  ASSUME NEW key, NEW n \in Nat, DOMAIN key = 1..n,
         NEW i, NEW s, NEW t, IsPart(key, i, s), IsPart(key, i, t)
  PROVE  s = t
<1> DEFINE Upto(j) == {m \in Parts(key) : m <= j}
<1>1. Parts(key) \subseteq 1..n
  BY DEF Parts
<1>2. PICK j \in Parts(key) : key[j] = s /\ Cardinality(Upto(j)) = i
  BY DEF IsPart
<1>3. PICK k \in Parts(key) : key[k] = t /\ Cardinality(Upto(k)) = i
  BY DEF IsPart
<1>4. ASSUME NEW a \in Parts(key), NEW b \in Parts(key), a <= b,
             Cardinality(Upto(a)) = Cardinality(Upto(b))
      PROVE  a = b
  <2>1. IsFiniteSet(Upto(b))
    <3>1. IsFiniteSet(1..n)
      BY FS_Interval
    <3>2. Upto(b) \in SUBSET (1..n)
      BY <1>1
    <3> QED
      BY <3>1, <3>2, FS_Subset
  <2>2. Upto(a) \in SUBSET Upto(b)
    BY <1>1, <1>4
  <2>3. Upto(b) = Upto(a)
    BY <1>4, <2>1, <2>2, FS_Subset
  <2>4. b <= a
    BY <1>1, <2>3
  <2> QED
    BY <1>1, <1>4, <2>4
<1>5. j <= k \/ k <= j
  BY <1>1
<1>6. j = k
  BY <1>2, <1>3, <1>4, <1>5
<1> QED
  BY <1>2, <1>3, <1>6

\* No key at all, however odd, reaches two users: of isOwnedObjectKey, which the
\* signing routes ask, and the checks of the keys that go into rows and are deleted
\* with them, none passes for one user if any passes for another.
THEOREM OneOwner ==
  ASSUME NEW key, NEW n \in Nat, DOMAIN key = 1..n,
         NEW u, NEW v,
         IsOwnedObjectKey(key, u) \/ Accepted(u, key),
         IsOwnedObjectKey(key, v) \/ Accepted(v, key)
  PROVE  u = v
<1> DEFINE In(w) == \/ IsPart(key, 1, "snaps") /\ IsPart(key, 3, w)
                    \/ IsPart(key, 1, "profile") /\ IsPart(key, 2, w)
<1>1. ASSUME NEW w, IsOwnedObjectKey(key, w) \/ Accepted(w, key) PROVE In(w)
  BY <1>1, OneSnapKey
     DEF IsOwnedObjectKey, Accepted, AssertProfileImageKey, AssertOwnedObjectKey
<1>2. In(u) /\ In(v)
  BY <1>1
<1>3. ~(IsPart(key, 1, "snaps") /\ IsPart(key, 1, "profile"))
  <2>1. "snaps" # "profile"
    OBVIOUS
  <2> QED
    BY <2>1, OnePart
<1> QED
  BY <1>2, <1>3, OnePart

-------------------------------------------------------------------------------
\* The inductive invariant.

Stages == {"idle", "lookup", "sign", "store", "delete", "uncache"}

\* What a handler that waits at stage for j knows at a time: the request is not
\* older than it may be, its keys passed the check of its operation, and a URL
\* that was signed lasts from when the request came in at least.
JobOK(stage, j, time) ==
  stage # "idle" =>
    /\ j \in Job
    /\ j.since <= time /\ time <= j.since + MaxDelay
    /\ j.op = "route" =>
         \A i \in DOMAIN j.keys : AssertOwnedObjectKey(j.keys[i], j.user, j.user \in Admins)
    /\ j.op = "delete" => \A i \in DOMAIN j.keys : Accepted(j.user, j.keys[i])
    /\ stage = "store" => j.url \in Nat /\ j.url >= j.since + UrlTtl

JobsOK ==
  /\ pc \in [Handlers -> Stages]
  /\ job \in [Handlers -> Job \cup {None}]
  /\ \A h \in Handlers : JobOK(pc[h], job[h], now)

\* An entry lives, and goes before its URL.
EntryOK(e, time) == e \in Url /\ time < e.until /\ e.until <= e.url

CacheOK ==
  /\ cache \in [Keys -> Url \cup {NoUrl}]
  /\ \A k \in Keys : cache[k] # NoUrl => EntryOK(cache[k], now)

RowsOK ==
  /\ objects \subseteq {x[2] : x \in issued}
  /\ issued \subseteq Users \X Built
  /\ \A x \in issued : \E p \in Prefixes, f \in Files :
       x[2] = BuildOwnedObjectKey(p, x[1], f, Today)
  /\ attached \subseteq Users \X Keys
  /\ \A x \in attached : Accepted(x[1], x[2])

IInv == JobsOK /\ CacheOK /\ RowsOK /\ now \in Nat /\ scene \in Scenes

LEMMA IInvInit == Init => IInv
<1> SUFFICES ASSUME Init PROVE IInv
  OBVIOUS
<1>1. JobsOK
  BY DEF Init, JobsOK, JobOK, Stages
<1>2. CacheOK
  BY AbsentAssumption DEF Init, CacheOK
<1>3. RowsOK
  BY DEF Init, RowsOK
<1> QED
  BY <1>1, <1>2, <1>3 DEF Init, IInv

\* A handler that goes to a stage with a request that is right for it.
LEMMA Moves ==
  ASSUME JobsOK, now' = now,
         NEW h \in Handlers, NEW stage \in Stages, NEW j \in Job \cup {None},
         JobOK(stage, j, now),
         pc' = [pc EXCEPT ![h] = stage], job' = [job EXCEPT ![h] = j]
  PROVE  JobsOK'
<1>1. pc' \in [Handlers -> Stages] /\ job' \in [Handlers -> Job \cup {None}]
  BY DEF JobsOK
<1>2. ASSUME NEW g \in Handlers PROVE JobOK(pc'[g], job'[g], now)
  <2>1. CASE g = h
    BY <2>1 DEF JobsOK
  <2>2. CASE g # h
    BY <2>2 DEF JobsOK
  <2> QED
    BY <2>1, <2>2
<1>3. \A g \in Handlers : JobOK(pc'[g], job'[g], now')
  BY <1>2
<1> QED
  BY <1>1, <1>3 DEF JobsOK, JobOK

\* A request at any stage of its handler but the first.
LEMMA Busy ==
  ASSUME JobsOK, NEW h \in Handlers, pc[h] # "idle"
  PROVE  /\ job[h] \in Job /\ JobOK(pc[h], job[h], now)
         /\ job[h].keys \in Seq(Keys) /\ job[h].keys # << >>
         /\ Key(h) \in Keys /\ Key(h) = job[h].keys[1] /\ 1 \in DOMAIN job[h].keys
<1>1. job[h] \in Job /\ JobOK(pc[h], job[h], now)
  BY DEF JobsOK, JobOK
<1>2. job[h].keys \in Seq(Keys) /\ job[h].keys # << >>
  BY <1>1 DEF Job
<1>3. job[h].keys[1] \in Keys /\ 1 \in DOMAIN job[h].keys
  BY <1>2
<1> QED
  BY <1>1, <1>2, <1>3 DEF Key

\* What EXCEPT makes of a request.
LEMMA JobExcept ==
  ASSUME NEW j \in Job, NEW ks, NEW url
  PROVE  /\ [j EXCEPT !.keys = ks] =
              [op |-> j.op, user |-> j.user, keys |-> ks, since |-> j.since, url |-> j.url]
         /\ [j EXCEPT !.keys = ks, !.url = url] =
              [op |-> j.op, user |-> j.user, keys |-> ks, since |-> j.since, url |-> url]
<1> DEFINE k == [j EXCEPT !.keys = ks]
<1>1. k = [op |-> j.op, user |-> j.user, keys |-> ks, since |-> j.since, url |-> j.url]
  BY DEF Job
<1>2. [j EXCEPT !.keys = ks, !.url = url] = [k EXCEPT !.url = url]
  BY DEF Job
<1>3. [j EXCEPT !.keys = ks] =
        [op |-> j.op, user |-> j.user, keys |-> ks, since |-> j.since, url |-> j.url]
  BY <1>1
<1> HIDE DEF k
<1> QED
  BY <1>1, <1>2, <1>3

\* The rest of a batch passes the checks that the batch passed.
LEMMA Rest ==
  ASSUME NEW j \in Job, NEW stage, NEW next \in Stages \ {"store"}, NEW time \in Nat,
         NEW url \in Nat \cup {NoUrl},
         stage # "idle", JobOK(stage, j, time), Len(j.keys) # 1
  PROVE  LET r == [j EXCEPT !.keys = Tail(@), !.url = url]
         IN r \in Job /\ JobOK(next, r, time)
<1> DEFINE r == [op |-> j.op, user |-> j.user, keys |-> Tail(j.keys),
                 since |-> j.since, url |-> url]
<1>1. [j EXCEPT !.keys = Tail(@), !.url = url] = r
  BY JobExcept
<1>2. j.keys \in Seq(Keys) /\ j.keys # << >>
  BY DEF Job
<1>3. Tail(j.keys) \in Seq(Keys) /\ Tail(j.keys) # << >>
  <2>1. Len(j.keys) \in Nat /\ Len(j.keys) > 1
    <3> DEFINE n == Len(j.keys)
    <3>1. n \in Nat \ {0} /\ n # 1
      BY <1>2, EmptySeq
    <3> HIDE DEF n
    <3>2. n \in Nat /\ n > 1
      BY <3>1
    <3> QED
      BY <3>2 DEF n
  <2>2. Len(Tail(j.keys)) = Len(j.keys) - 1
    BY <1>2
  <2>3. Tail(j.keys) \in Seq(Keys)
    BY <1>2
  <2>4. Len(Tail(j.keys)) # 0
    BY <2>1, <2>2
  <2> QED
    BY <2>3, <2>4, EmptySeq
<1>4. \A i \in DOMAIN Tail(j.keys) : i + 1 \in DOMAIN j.keys /\ Tail(j.keys)[i] = j.keys[i + 1]
  BY <1>2
<1>5. r \in Job
  BY <1>3 DEF Job
<1>6. JobOK(next, r, time)
  BY <1>4, <1>5 DEF JobOK
<1> QED
  BY <1>1, <1>5, <1>6

\* The key of a request has been served.
LEMMA ServedMoves ==
  ASSUME JobsOK, now' = now, now \in Nat, NEW h \in Handlers, pc[h] # "idle", Served(h)
  PROVE  JobsOK'
<1>1. CASE Len(job[h].keys) = 1
  <2>1. JobOK("idle", None, now)
    BY DEF JobOK
  <2> QED
    BY <1>1, <2>1, Moves DEF Served, End, Goto, Stages
<1>2. CASE Len(job[h].keys) # 1
  <2> DEFINE r == [job[h] EXCEPT !.keys = Tail(@), !.url = NoUrl]
  <2>1. r \in Job /\ JobOK("lookup", r, now)
    BY <1>2, Busy, Rest DEF Stages
  <2>2. pc' = [pc EXCEPT ![h] = "lookup"] /\ job' = [job EXCEPT ![h] = r]
    BY <1>2 DEF Served, Goto
  <2> QED
    BY <2>1, <2>2, Moves DEF Stages
<1> QED
  BY <1>1, <1>2

-------------------------------------------------------------------------------
\* The steps.

\* A request that comes in: its keys have passed the checks of its operation.
LEMMA BeginMoves ==
  ASSUME JobsOK, now' = now, now \in Nat, NEW h \in Handlers,
         NEW op \in {"route", "row", "delete"}, NEW u \in Users,
         NEW ks \in Seq(Keys) \ {<< >>},
         NEW stage \in {"lookup", "delete"},
         op = "route" => \A i \in DOMAIN ks : AssertOwnedObjectKey(ks[i], u, u \in Admins),
         op = "delete" => \A i \in DOMAIN ks : Accepted(u, ks[i]),
         Begin(h, stage, Request(op, u, ks))
  PROVE  JobsOK'
<1> DEFINE j == Request(op, u, ks)
<1>1. j = [op |-> op, user |-> u, keys |-> ks, since |-> now, url |-> NoUrl]
  BY DEF Request
<1>2. j \in Job
  BY <1>1 DEF Job
<1>3. JobOK(stage, j, now)
  BY <1>1, <1>2, TimesAssumption DEF JobOK
<1>4. pc' = [pc EXCEPT ![h] = stage] /\ job' = [job EXCEPT ![h] = j]
  BY DEF Begin
<1> HIDE DEF j
<1> QED
  BY <1>2, <1>3, <1>4, Moves DEF Stages

\* The batches that can be asked for are sequences of keys.
LEMMA BatchesAreKeys ==
  ASSUME scene \in Scenes, NEW ks \in Batches
  PROVE  ks \in Seq(Keys) \ {<< >>}
<1>1. scene.keys \subseteq Keys
  BY ScenesAssumption
<1>2. \A j, k \in Keys : <<k>> \in Seq(Keys) \ {<< >>} /\ <<j, k>> \in Seq(Keys) \ {<< >>}
  OBVIOUS
<1>3. CASE \E k \in scene.keys : ks = <<k>>
  BY <1>1, <1>2, <1>3
<1>4. CASE \E j, k \in scene.keys : ks = <<j, k>>
  BY <1>1, <1>2, <1>4
<1> QED
  BY <1>3, <1>4 DEF Batches

\* What the clients and the rows do leaves the storage service alone.
LEMMA RowsStep ==
  ASSUME IInv,
         \/ \E u \in Users, p \in Prefixes, fs \in (SUBSET Files) \ {{}} :
              PresignedUpload(u, p, fs)
         \/ \E u \in Users, k \in scene.keys : Attach(u, k)
         \/ \E x \in issued : PutObject(x[2])
         \/ \E x \in attached : Detach(x)
  PROVE  IInv'
<1> USE DEF IInv
<1>1. JobsOK' /\ CacheOK' /\ now' \in Nat /\ scene' \in Scenes
  BY DEF PresignedUpload, Attach, PutObject, Detach, JobsOK, CacheOK, JobOK, EntryOK
<1>2. ASSUME NEW u \in Users, NEW p \in Prefixes, NEW fs \in (SUBSET Files) \ {{}},
             PresignedUpload(u, p, fs)
      PROVE  RowsOK'
  <2> DEFINE new == {<<u, BuildOwnedObjectKey(p, u, f, Today)>> : f \in fs}
  <2>1. issued' = issued \cup new
    BY <1>2 DEF PresignedUpload
  <2>2. \A x \in new : /\ x \in Users \X Built
                       /\ \E q \in Prefixes, f \in Files :
                            x[2] = BuildOwnedObjectKey(q, x[1], f, Today)
    BY DEF Built
  <2> HIDE DEF new
  <2>3. issued' \subseteq Users \X Built
        /\ \A x \in issued' : \E q \in Prefixes, f \in Files :
             x[2] = BuildOwnedObjectKey(q, x[1], f, Today)
    BY <2>1, <2>2 DEF RowsOK
  <2>4. objects' \subseteq {x[2] : x \in issued'}
    BY <1>2, <2>1 DEF RowsOK, PresignedUpload
  <2> QED
    BY <1>2, <2>3, <2>4 DEF RowsOK, PresignedUpload
<1>3. ASSUME NEW u \in Users, NEW k \in scene.keys, Attach(u, k) PROVE RowsOK'
  <2>1. k \in Keys
    BY ScenesAssumption
  <2>2. Accepted(u, k) /\ attached' = attached \cup {<<u, k>>}
    BY <1>3 DEF Attach, Accepted
  <2>3. attached' \subseteq Users \X Keys /\ \A x \in attached' : Accepted(x[1], x[2])
    BY <2>1, <2>2 DEF RowsOK
  <2> QED
    BY <1>3, <2>3 DEF RowsOK, Attach
<1>4. ASSUME NEW x \in issued, PutObject(x[2]) PROVE RowsOK'
  BY <1>4 DEF RowsOK, PutObject
<1>5. ASSUME NEW x \in attached, Detach(x) PROVE RowsOK'
  BY <1>5 DEF RowsOK, Detach
<1> QED
  BY <1>1, <1>2, <1>3, <1>4, <1>5

\* A request arrives.
LEMMA ArrivalStep ==
  ASSUME IInv, NEW h \in Handlers,
         \/ \E u \in Users, k \in scene.keys : GetSignedUrl(h, u, k)
         \/ \E u \in Users, ks \in Batches : SignImages(h, u, ks) \/ DeleteFiles(h, u, ks)
  PROVE  IInv'
<1> USE DEF IInv
<1>1. UNCHANGED <<objects, issued, attached, cache, now, scene>>
  BY DEF GetSignedUrl, SignImages, DeleteFiles
<1>2. RowsOK' /\ CacheOK' /\ now' \in Nat /\ scene' \in Scenes
  BY <1>1 DEF RowsOK, CacheOK, EntryOK
<1>3. ASSUME NEW u \in Users, NEW k \in scene.keys, GetSignedUrl(h, u, k) PROVE JobsOK'
  <2> DEFINE ks == <<k>>
  <2>1. k \in Keys
    BY ScenesAssumption
  <2>2. ks \in Seq(Keys) \ {<< >>} /\ \A i \in DOMAIN ks : ks[i] = k
    BY <2>1
  <2>3. AssertOwnedObjectKey(k, u, u \in Admins) /\ Begin(h, "lookup", Request("route", u, ks))
    BY <1>3 DEF GetSignedUrl
  <2> HIDE DEF ks
  <2> QED
    BY <1>1, <2>2, <2>3, BeginMoves
<1>4. ASSUME NEW u \in Users, NEW ks \in Batches, SignImages(h, u, ks) PROVE JobsOK'
  BY <1>1, <1>4, BatchesAreKeys, BeginMoves DEF SignImages
<1>5. ASSUME NEW u \in Users, NEW ks \in Batches, DeleteFiles(h, u, ks) PROVE JobsOK'
  <2>1. ASSUME NEW i \in DOMAIN ks PROVE Accepted(u, ks[i])
    <3>1. <<u, ks[i]>> \in attached
      BY <1>5, <2>1 DEF DeleteFiles
    <3> QED
      BY <3>1 DEF RowsOK
  <2> QED
    BY <1>1, <1>5, <2>1, BatchesAreKeys, BeginMoves DEF DeleteFiles
<1> QED
  BY <1>2, <1>3, <1>4, <1>5

\* A request ends, answered or not.
LEMMA EndMoves ==
  ASSUME JobsOK, now' = now, NEW h \in Handlers, End(h)
  PROVE  JobsOK'
<1>1. JobOK("idle", None, now)
  BY DEF JobOK
<1> QED
  BY <1>1, Moves DEF End, Goto, Stages

\* A request goes on to another stage with what it was asked for.
LEMMA GoesOn ==
  ASSUME JobsOK, now' = now, NEW h \in Handlers, pc[h] # "idle",
         NEW stage \in Stages \ {"store"}, Goto(h, stage, job[h])
  PROVE  JobsOK'
<1>1. job[h] \in Job /\ JobOK(pc[h], job[h], now)
  BY Busy
<1>2. JobOK(stage, job[h], now)
  BY <1>1 DEF JobOK
<1> QED
  BY <1>1, <1>2, Moves DEF Goto

\* A stage of a signing request.
LEMMA SigningStep ==
  ASSUME IInv, NEW h \in Handlers, LookUp(h) \/ Sign(h) \/ Abort(h)
  PROVE  IInv'
<1> USE DEF IInv
<1>1. UNCHANGED <<objects, issued, attached, cache, now, scene>> /\ pc[h] # "idle"
  BY DEF LookUp, Sign, Abort
<1>2. RowsOK' /\ CacheOK' /\ now' \in Nat /\ scene' \in Scenes
  BY <1>1 DEF RowsOK, CacheOK, EntryOK
<1>3. CASE LookUp(h)
  BY <1>1, <1>2, <1>3, ServedMoves, GoesOn DEF LookUp, Stages
<1>4. CASE Sign(h)
  <2> DEFINE j == job[h]
             signed == [op |-> j.op, user |-> j.user, keys |-> j.keys,
                        since |-> j.since, url |-> now + UrlTtl]
  <2>1. j \in Job /\ JobOK(pc[h], j, now)
    BY <1>1, Busy
  <2> HIDE DEF j
  <2>2. [j EXCEPT !.url = SignedUntil] = signed
    BY <2>1 DEF Job, SignedUntil
  <2>3. now + UrlTtl \in Nat
    BY TimesAssumption
  <2>4. signed \in Job
    BY <2>1, <2>3 DEF Job
  <2>5. j.since \in Nat /\ j.since <= now
    BY <1>1, <2>1 DEF Job, JobOK
  <2>6. now + UrlTtl >= j.since + UrlTtl
    BY <2>5, TimesAssumption
  <2>7. JobOK("store", signed, now)
    BY <1>1, <2>1, <2>3, <2>4, <2>6 DEF JobOK
  <2>8. pc' = [pc EXCEPT ![h] = "store"] /\ job' = [job EXCEPT ![h] = signed]
    BY <1>4, <2>2 DEF Sign, Goto, j
  <2> HIDE DEF signed
  <2> QED
    BY <1>1, <1>2, <2>4, <2>7, <2>8, Moves DEF Stages
<1>5. CASE Abort(h)
  BY <1>1, <1>2, <1>5, EndMoves DEF Abort
<1> QED
  BY <1>3, <1>4, <1>5

\* The URL that a request signed goes into the cache for less time than it lasts,
\* however slow the request was.
LEMMA StoreStep ==
  ASSUME IInv, NEW h \in Handlers, Store(h)
  PROVE  IInv'
<1> USE DEF IInv
<1> DEFINE e == [url |-> job[h].url, until |-> now + CacheTtl]
<1>1. UNCHANGED <<objects, issued, attached, now, scene>> /\ pc[h] = "store" /\ Served(h)
  BY DEF Store
<1>2. RowsOK' /\ now' \in Nat /\ scene' \in Scenes
  BY <1>1 DEF RowsOK
<1>3. JobsOK'
  BY <1>1, ServedMoves
<1>4. Key(h) \in Keys /\ job[h] \in Job /\ JobOK("store", job[h], now)
  BY <1>1, Busy
<1>5. /\ job[h].since \in Nat /\ job[h].url \in Nat
      /\ job[h].url >= job[h].since + UrlTtl /\ now <= job[h].since + MaxDelay
  BY <1>4 DEF JobOK, Job
<1>6. now < now + CacheTtl /\ now + CacheTtl \in Nat /\ now + CacheTtl <= job[h].url
  BY <1>5, TimesAssumption
<1>7. e \in Url /\ EntryOK(e, now)
  BY <1>5, <1>6 DEF Url, EntryOK
<1>8. cache' = [cache EXCEPT ![Key(h)] = e]
  BY DEF Store
<1> HIDE DEF e
<1>9. CacheOK'
  <2>1. cache' \in [Keys -> Url \cup {NoUrl}]
    BY <1>4, <1>7, <1>8 DEF CacheOK
  <2>2. ASSUME NEW k \in Keys, cache'[k] # NoUrl PROVE EntryOK(cache'[k], now)
    BY <1>4, <1>7, <1>8, <2>2 DEF CacheOK
  <2> QED
    BY <1>1, <2>1, <2>2 DEF CacheOK, EntryOK
<1> QED
  BY <1>2, <1>3, <1>9

\* A stage of a deletion.
LEMMA DeletionStep ==
  ASSUME IInv, NEW h \in Handlers, DeleteObject(h) \/ Uncache(h)
  PROVE  IInv'
<1> USE DEF IInv
<1>1. UNCHANGED <<issued, attached, now, scene>> /\ pc[h] # "idle" /\ objects' \subseteq objects
  BY DEF DeleteObject, Uncache
<1>2. RowsOK' /\ now' \in Nat /\ scene' \in Scenes
  BY <1>1 DEF RowsOK
<1>3. CacheOK'
  <2>1. CASE DeleteObject(h)
    BY <1>1, <2>1 DEF DeleteObject, CacheOK, EntryOK
  <2>2. CASE Uncache(h)
    BY <1>1, <2>2 DEF Uncache, CacheOK, EntryOK
  <2> QED
    BY <2>1, <2>2
<1>4. CASE DeleteObject(h)
  <2>1. Goto(h, "uncache", job[h]) \/ End(h)
    BY <1>4 DEF DeleteObject
  <2> QED
    BY <1>1, <1>2, <1>3, <2>1, GoesOn, EndMoves DEF Stages
<1>5. CASE Uncache(h)
  <2> DEFINE r == [job[h] EXCEPT !.keys = Tail(@)]
             same == [job[h] EXCEPT !.keys = Tail(@), !.url = job[h].url]
  <2>1. CASE Len(job[h].keys) = 1
    BY <1>1, <1>2, <1>3, <1>5, <2>1, EndMoves DEF Uncache
  <2>2. CASE Len(job[h].keys) # 1
    <3>1. job[h] \in Job /\ JobOK(pc[h], job[h], now)
      BY <1>1, Busy
    <3>2. job[h].url \in Nat \cup {NoUrl}
      BY <3>1 DEF Job
    <3>3. same \in Job /\ JobOK("delete", same, now)
      BY <1>1, <2>2, <3>1, <3>2, Rest DEF Stages
    <3>4. r = same
      <4>1. same = [op |-> job[h].op, user |-> job[h].user, keys |-> Tail(job[h].keys),
                    since |-> job[h].since, url |-> job[h].url]
        BY <3>1, JobExcept
      <4>2. r = [op |-> job[h].op, user |-> job[h].user, keys |-> Tail(job[h].keys),
                 since |-> job[h].since, url |-> job[h].url]
        BY <3>1, JobExcept
      <4> QED
        BY <4>1, <4>2
    <3>5. pc' = [pc EXCEPT ![h] = "delete"] /\ job' = [job EXCEPT ![h] = r]
      BY <1>5, <2>2 DEF Uncache, Goto
    <3> HIDE DEF r, same
    <3> QED
      BY <1>1, <1>2, <1>3, <3>3, <3>4, <3>5, Moves DEF Stages
  <2> QED
    BY <2>1, <2>2
<1> QED
  BY <1>4, <1>5

\* Time passes: no request is older than it may be, and Redis drops its entries.
LEMMA TickStep == ASSUME IInv, Tick PROVE IInv'
<1> USE DEF IInv
<1>1. /\ UNCHANGED <<objects, issued, attached, pc, job, scene>> /\ now' = now + 1
      /\ \A h \in Handlers : pc[h] # "idle" => now - job[h].since < MaxDelay
      /\ cache' = [k \in Keys |-> IF Expired(cache[k], now + 1) THEN NoUrl ELSE cache[k]]
  BY DEF Tick
<1>2. RowsOK' /\ now' \in Nat /\ scene' \in Scenes
  BY <1>1 DEF RowsOK
<1>3. CacheOK'
  <2>1. cache' \in [Keys -> Url \cup {NoUrl}]
    BY <1>1 DEF CacheOK
  <2>2. ASSUME NEW k \in Keys, cache'[k] # NoUrl PROVE EntryOK(cache'[k], now + 1)
    <3>1. cache'[k] = cache[k] /\ ~Expired(cache[k], now + 1) /\ EntryOK(cache[k], now)
      BY <1>1, <2>2 DEF CacheOK
    <3>2. cache[k] \in Url /\ ~(cache[k].until <= now + 1)
      BY <2>2, <3>1 DEF Expired, EntryOK
    <3>3. now + 1 < cache[k].until
      BY <3>2 DEF Url
    <3> QED
      BY <3>1, <3>3 DEF EntryOK
  <2> QED
    BY <1>1, <2>1, <2>2 DEF CacheOK, EntryOK
<1>4. JobsOK'
  <2>1. ASSUME NEW h \in Handlers PROVE JobOK(pc[h], job[h], now + 1)
    <3>1. CASE pc[h] = "idle"
      BY <3>1 DEF JobOK
    <3>2. CASE pc[h] # "idle"
      <4>1. job[h] \in Job /\ JobOK(pc[h], job[h], now) /\ now - job[h].since < MaxDelay
        BY <1>1, <3>2, Busy
      <4>2. job[h].since \in Nat
        BY <4>1 DEF Job
      <4>3. job[h].since <= now + 1 /\ now + 1 <= job[h].since + MaxDelay
        BY <3>2, <4>1, <4>2, TimesAssumption DEF JobOK
      <4> QED
        BY <4>1, <4>3 DEF JobOK
    <3> QED
      BY <3>1, <3>2
  <2> QED
    BY <1>1, <2>1 DEF JobsOK, JobOK
<1> QED
  BY <1>2, <1>3, <1>4

\* The invariant is inductive.
LEMMA IInvStep == IInv /\ [Next]_vars => IInv'
<1> SUFFICES ASSUME IInv, [Next]_vars PROVE IInv'
  OBVIOUS
<1>1. CASE UNCHANGED vars
  BY <1>1 DEF vars, IInv, JobsOK, JobOK, CacheOK, EntryOK, RowsOK
<1>2. ASSUME NEW h \in Handlers,
             LookUp(h) \/ Sign(h) \/ Store(h) \/ DeleteObject(h) \/ Uncache(h) \/ Abort(h)
      PROVE  IInv'
  BY <1>2, SigningStep, StoreStep, DeletionStep
<1> QED
  BY <1>1, <1>2, RowsStep, ArrivalStep, TickStep DEF Next

-------------------------------------------------------------------------------
\* Theorems.

LEMMA IInvHolds == Spec => []IInv
BY IInvInit, IInvStep, PTL DEF Spec

\* Rows, cache and requests are well formed, and every object was uploaded under
\* a key that the gateway built.
THEOREM TypeCorrect == Spec => []TypeOK
<1>1. IInv => TypeOK
  BY DEF IInv, JobsOK, CacheOK, RowsOK, TypeOK, Stages
<1> QED
  BY <1>1, IInvHolds, PTL

\* A key that the gateway built for a user passes every check that another service
\* makes of that user's keys, whatever prefix was asked for.
THEOREM IssuedKeysUsableHolds == Spec => []IssuedKeysUsable
<1>1. IInv => IssuedKeysUsable
  <2> SUFFICES ASSUME IInv, NEW x \in issued
               PROVE  /\ AssertOwnedObjectKey(x[2], x[1], FALSE)
                      /\ \/ AssertProfileImageKey(x[2], x[1])
                         \/ AssertSnapImageKeys(<<x[2]>>, x[1])
    BY DEF IssuedKeysUsable
  <2>1. PICK p \in Prefixes, f \in Files : x[2] = BuildOwnedObjectKey(p, x[1], f, Today)
    BY DEF IInv, RowsOK
  <2>2. x[1] \in Users
    BY DEF IInv, RowsOK
  <2> QED
    BY <2>1, <2>2, BuiltKeyUsable DEF Accepted
<1> QED
  BY <1>1, IInvHolds, PTL

\* The object that a request is about was uploaded by the user who passed its check.
LEMMA KeyOfUploader ==
  ASSUME IInv, NEW h \in Handlers, pc[h] # "idle", NEW y \in issued, y[2] = Key(h)
  PROVE  /\ job[h].op = "route" => y[1] = job[h].user \/ job[h].user \in Admins
         /\ job[h].op = "delete" => y[1] = job[h].user
<1>1. PICK p \in Prefixes, f \in Files : y[2] = BuildOwnedObjectKey(p, y[1], f, Today)
  BY DEF IInv, RowsOK
<1>2. y[1] \in Users
  BY DEF IInv, RowsOK
<1>3. /\ JobOK(pc[h], job[h], now)
      /\ y[2] = job[h].keys[1] /\ 1 \in DOMAIN job[h].keys
  BY Busy DEF IInv
<1>4. ASSUME job[h].op = "route" PROVE y[1] = job[h].user \/ job[h].user \in Admins
  <2>1. AssertOwnedObjectKey(y[2], job[h].user, job[h].user \in Admins)
    BY <1>3, <1>4 DEF JobOK
  <2> QED
    BY <1>1, <1>2, <2>1, BuiltKeyIsOwned DEF AssertOwnedObjectKey
<1>5. ASSUME job[h].op = "delete" PROVE y[1] = job[h].user
  <2>1. Accepted(job[h].user, y[2])
    BY <1>3, <1>5 DEF JobOK
  <2> QED
    BY <1>1, <1>2, <2>1, BuiltKeyIsOwned
<1> QED
  BY <1>4, <1>5

\* Whatever key a client makes up, the signing route hands out no URL of an
\* object that another user uploaded, except to an administrator.
THEOREM HandedToUploaderHolds == Spec => []HandedToUploader
<1>1. IInv => HandedToUploader
  BY KeyOfUploader DEF HandedToUploader
<1> QED
  BY <1>1, IInvHolds, PTL

\* Whatever key a client makes up, no row gets a key by which it would have an
\* object deleted that another user uploaded.
THEOREM RemovedForUploaderHolds == Spec => []RemovedForUploader
<1>1. IInv => RemovedForUploader
  BY KeyOfUploader DEF RemovedForUploader
<1> QED
  BY <1>1, IInvHolds, PTL

\* A URL outlives its entry in the cache for any lengths of time of which the
\* entry's and the slowest request's together are not more than the URL's.
THEOREM CachedUrlFreshHolds == Spec => []CachedUrlFresh
<1>1. IInv => CachedUrlFresh
  BY DEF IInv, CacheOK, EntryOK, Url, CachedUrlFresh
<1> QED
  BY <1>1, IInvHolds, PTL
===============================================================================
