----------------------------- MODULE MCStorageUrls -----------------------------
(* A small instance of StorageUrls for TLC. *)
EXTENDS StorageUrls, TLC

CONSTANTS u1, u2, f1, day, h1, h2

\* Keys of the three uploads, and keys that were not built: without a file, and
\* with a parent directory.
Uploads == {<<"snaps", day, u1, f1>>, <<"profile", u1, f1>>, <<"profile", u2, f1>>}
Sent == Uploads \cup {<<"snaps", day, u1>>, <<"profile", u1>>, <<"snaps", "..", u1, f1>>}

DotDot == {".."}
HttpScheme == {"http:"}

\* Whose is a key: many keys and one request at a time.  How long does a URL
\* last: one key, two requests and the clock.
WhoseAndHowLong ==
  {[keys |-> Sent, handlers |-> {h1}, maxTime |-> 0],
   [keys |-> {<<"profile", u1, f1>>}, handlers |-> {h1, h2}, maxTime |-> 3]}
===============================================================================
