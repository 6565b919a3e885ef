------------------------------- MODULE SnapBoard -------------------------------
(***************************************************************************)
(* What the snaps service promises about the snaps on the map and their    *)
(* images: every change is one indivisible step, decided by what the board *)
(* holds when it is made.  Of the requests under way only deletes are      *)
(* visible.  SnapLifecycle.tla is the detailed service.                    *)
(***************************************************************************)
EXTENDS Integers

CONSTANTS
  Users,
  Admins,     \* who may delete any snap
  Snaps,      \* ids of snaps
  Places,     \* areas a snap can be posted in
  Keys,       \* keys of images
  KeyOwner,   \* who may show each image
  IdemKeys,   \* idempotency keys
  Lifetimes,  \* how long settings let a snap last, in ticks
  UrlLasts,   \* how long the upload URL of an image lasts
  Handlers,   \* deletes that can be under way at once
  NoSnap,     \* no snap has the id
  None        \* an absent field

VARIABLES
  board,     \* the snap of each id
  used,      \* the ids that snaps have had
  url,       \* when the upload URL of each image expires; 0 before there is one
  images,    \* the images that are stored
  asked,     \* each delete under way: by whom, or of whose snaps, of which, and
             \* the images it has still to have deleted
  now        \* the clock

bucket == <<url, images>>
vars == <<board, used, bucket, asked, now>>

NoDelete == [op |-> "none", users |-> {}, read |-> {}, left |-> {}]

Init ==
  /\ board = [s \in Snaps |-> NoSnap]
  /\ used = {}
  /\ url = [k \in Keys |-> 0]
  /\ images = {}
  /\ asked = [h \in Handlers |-> NoDelete]
  /\ now = 0

Posted == {s \in Snaps : board[s] # NoSnap}

\* The images that a user can show, whether they were stored or not.
Shown(u) == {k \in Keys : KeyOwner[k] = u /\ url[k] # 0}

\* A new snap is open, shows images of its owner, and lasts as long as the owner's
\* settings said at some moment t before it appears.  Its id is new, and a key that
\* one of the owner's snaps has is not used again.
Post(u, i) ==
  /\ i # None => \A s \in Posted : board[s].owner = u => board[s].idem # i
  /\ \E s \in Snaps \ used, p \in Places, K \in (SUBSET Shown(u)) \ {{}},
        t \in 0..now, days \in Lifetimes :
       /\ board' = [board EXCEPT ![s] =
                      [owner |-> u, place |-> p, keys |-> K, idem |-> i,
                       expiresAt |-> t + days, resolution |-> "OPEN",
                       resolvedBy |-> None, noteBy |-> None]]
       /\ used' = used \cup {s}
  /\ UNCHANGED <<bucket, asked, now>>

\* A snap is resolved as it is at that moment: of two users who find it, or one
\* who finds and one who reopens it, the later leaves the traces of both fields.
Put(s, d) == board' = [board EXCEPT ![s] = d] /\ UNCHANGED <<used, bucket, asked, now>>

MarkFound(s, u) ==
  \E noteBy \in {board[s].noteBy, u} :
    Put(s, [board[s] EXCEPT !.resolution = "FOUND", !.resolvedBy = u, !.noteBy = noteBy])

Reopen(s) ==
  Put(s, [board[s] EXCEPT !.resolution = "OPEN", !.resolvedBy = None, !.noteBy = None])

Remove(S) ==
  /\ board' = [s \in Snaps |-> IF s \in S THEN NoSnap ELSE board[s]]
  /\ UNCHANGED <<used, bucket, now>>

\* The TTL sweep takes expired snaps only, and only after their images.
Sweep(S) ==
  /\ \A s \in S : board[s].expiresAt <= now /\ board[s].keys \cap images = {}
  /\ Remove(S)
  /\ UNCHANGED asked

\* A delete names a snap, or is of all the snaps of users S.
Of(S) == {s \in Posted : board[s].owner \in S}

Ask(h, op, S, read) ==
  /\ asked[h] = NoDelete
  /\ asked' = [asked EXCEPT ![h] = [op |-> op, users |-> S, read |-> read,
                                    left |-> UNION {board[s].keys : s \in read}]]
  /\ UNCHANGED <<board, used, bucket, now>>

GiveUp(h) ==
  /\ asked' = [asked EXCEPT ![h] = NoDelete]
  /\ UNCHANGED <<board, used, bucket, now>>

\* The images were deleted, each at some moment since it was asked.
Done(h) ==
  /\ asked[h] # NoDelete /\ asked[h].left = {}
  /\ asked' = [asked EXCEPT ![h] = NoDelete]

\* The snap goes only if it is the user's own, or the user is an administrator.
Delete(h) ==
  /\ Done(h)
  /\ asked[h].op = "one"
  /\ \A s \in asked[h].read \cap Posted :
       \E u \in asked[h].users : u = board[s].owner \/ u \in Admins
  /\ Remove(asked[h].read)

\* A bulk delete removes the snaps that are there when it ends, and the images of
\* those alone that were there when it began.
Clear(h) ==
  /\ Done(h)
  /\ asked[h].op = "bulk"
  /\ Remove(Of(asked[h].users))

Presign(k) ==
  /\ url[k] = 0
  /\ url' = [url EXCEPT ![k] = now + UrlLasts]
  /\ UNCHANGED <<board, used, images, asked, now>>

\* An image can be stored for as long as its URL lasts, again after it was deleted.
Upload(k) ==
  /\ now < url[k]
  /\ images' = images \cup {k}
  /\ UNCHANGED <<board, used, url, asked, now>>

\* An image is deleted, for a delete h or for a sweep.
DeleteImage(k) ==
  /\ images' = images \ {k}
  /\ UNCHANGED <<board, used, url, now>>

DeleteImageFor(k, h) ==
  /\ DeleteImage(k)
  /\ k \in asked[h].left
  /\ asked' = [asked EXCEPT ![h].left = @ \ {k}]

Tick == now' = now + 1 /\ UNCHANGED <<board, used, bucket, asked>>

Next ==
  \/ \E u \in Users, i \in IdemKeys \cup {None} : Post(u, i)
  \/ \E s \in Posted : Reopen(s) \/ \E u \in Users : MarkFound(s, u)
  \/ \E S \in SUBSET Posted : Sweep(S)
  \/ \E h \in Handlers :
       \/ \E u \in Users, s \in Posted : Ask(h, "one", {u}, {s})
       \/ \E S \in {Users} \cup {{u} : u \in Users} : Ask(h, "bulk", S, Of(S))
       \/ GiveUp(h) \/ Delete(h) \/ Clear(h)
  \/ \E k \in Keys :
       \/ Presign(k) \/ Upload(k) \/ (DeleteImage(k) /\ UNCHANGED asked)
       \/ \E h \in Handlers : DeleteImageFor(k, h)
  \/ Tick

Spec == Init /\ [][Next]_vars
===============================================================================
