------------------------------ MODULE ObjectKeys ------------------------------
(***************************************************************************)
(* Object keys: how the gateway builds them and how the services decide    *)
(* whose they are (storage-keys.ts).  A key is a string; here it is the    *)
(* sequence of its segments between slashes, so an empty segment stands    *)
(* for a leading, a trailing or a doubled slash.                           *)
(***************************************************************************)
EXTENDS Integers, Sequences, FiniteSets

CONSTANTS
  MaxUploadBatch,  \* MAX_UPLOAD_BATCH
  Unsafe,          \* segments with "..", a backslash or a NUL
  Schemes          \* segments that end with a colon

\* What a leading, a trailing or a doubled slash leaves.
Empty == ""

NormalizeUploadPrefix(prefix) == IF prefix = "profile" THEN "profile" ELSE "snaps"

\* Mutant: the date comes after the user.
BuildKeyByUser(prefix, userId, file, today) ==
  IF NormalizeUploadPrefix(prefix) = "profile"
  THEN <<"profile", userId, file>>
  ELSE <<"snaps", userId, today, file>>

\* file is the unique name with the sanitized extension, today the date.
BuildOwnedObjectKey(prefix, userId, file, today) ==
  IF NormalizeUploadPrefix(prefix) = "profile"
  THEN <<"profile", userId, file>>
  ELSE <<"snaps", today, userId, file>>

AssertSafeObjectKey(key) ==
  /\ key \notin {<< >>, <<Empty>>}
  /\ \A i \in DOMAIN key : key[i] \notin Unsafe
  /\ key[1] # Empty
  /\ \A i \in DOMAIN key :
       ~(key[i] \in Schemes /\ i + 2 <= Len(key) /\ key[i + 1] = Empty)

\* The segments that key.split('/').filter(Boolean) keeps, by their places.
Parts(key) == {i \in DOMAIN key : key[i] # Empty}

\* parts[i - 1] === s, false when there is no such part
IsPart(key, i, s) ==
  \E j \in Parts(key) : key[j] = s /\ Cardinality({m \in Parts(key) : m <= j}) = i

HasParts(key, n) == Cardinality(Parts(key)) >= n

\* Mutant: any profile image passes.
IsOwnedIfProfile(key, userId) ==
  /\ AssertSafeObjectKey(key)
  /\ \/ IsPart(key, 1, "snaps") /\ HasParts(key, 4) /\ IsPart(key, 3, userId)
     \/ IsPart(key, 1, "profile") /\ HasParts(key, 2)

IsOwnedObjectKey(key, userId) ==
  /\ AssertSafeObjectKey(key)
  /\ \/ IsPart(key, 1, "snaps") /\ HasParts(key, 4) /\ IsPart(key, 3, userId)
     \/ IsPart(key, 1, "profile") /\ HasParts(key, 2) /\ IsPart(key, 2, userId)

AssertOwnedObjectKey(key, userId, isAdmin) ==
  AssertSafeObjectKey(key) /\ (isAdmin \/ IsOwnedObjectKey(key, userId))

AssertProfileImageKey(key, userId) ==
  AssertOwnedObjectKey(key, userId, FALSE) /\ IsPart(key, 1, "profile")

\* Mutant: the keys are checked to be safe, and not whose they are.
AssertSnapImageKeysSafe(keys, userId) ==
  /\ Len(keys) \in 1..MaxUploadBatch
  /\ \A i \in DOMAIN keys : AssertSafeObjectKey(keys[i]) /\ IsPart(keys[i], 1, "snaps")

\* Unlike isOwnedObjectKey this does not ask for a fourth part.
AssertSnapImageKeys(keys, userId) ==
  /\ Len(keys) \in 1..MaxUploadBatch
  /\ \A i \in DOMAIN keys :
       AssertSafeObjectKey(keys[i]) /\ IsPart(keys[i], 1, "snaps") /\ IsPart(keys[i], 3, userId)
===============================================================================
