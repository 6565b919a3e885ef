------------------------------ MODULE UserRecords ------------------------------
(***************************************************************************)
(* The users service: the rows of users, settings, snap_bookmark,          *)
(* snap_seen and snap_report, the profile images they name, and the        *)
(* request handlers, split at every await that touches the database or     *)
(* the storage service.  Requests of one user interleave.                  *)
(*                                                                         *)
(* TypeORM's save(entity), external to the repository, is a SELECT by      *)
(* primary key, then an INSERT if the row was absent, else an UPDATE of    *)
(* the columns where the entity differs from what the SELECT returned.     *)
(***************************************************************************)
EXTENDS FiniteSets

CONSTANTS
  Users,      \* ids of users
  Names,      \* values of firstName, lastName and bio together
  Keys,       \* object keys of profile images, uploaded beforehand
  KeyOwner,   \* the user whose id is a segment of the key
  Distances,  \* values of a settings column; an update sets all three
  DefaultDistance,
  Ids,        \* generated ids of settings rows
  Snaps,
  Reasons,    \* reasons of a report
  Handlers,   \* requests the service can be working on at once
  Workloads,  \* mixes of requests that clients send
  NoRow,
  None

Ops == {"profile", "photo", "purge", "settings", "update", "bookmark", "seen",
        "report"}

ASSUME InputsAssumption ==
  /\ KeyOwner \in [Keys -> Users]
  /\ DefaultDistance \in Distances
  /\ Workloads \subseteq SUBSET Ops

VARIABLES
  users,     \* users: the row of each user
  settings,  \* settings: the row of each user (unique, and cascading, userId)
  kept,      \* snap_bookmark and snap_seen: <<table, user, snap>>
  reports,   \* snap_report: the reason, by user and snap
  gone,      \* keys whose object was deleted
  late,      \* keys whose deletion the service stopped waiting for
  pc, job,   \* where each handler waits, and the request it serves
  mine,      \* the entity the handler holds
  base,      \* the row save's SELECT returned
  workload,  \* the mix of this behaviour
  agreed,    \* history: what updates asked for, and which of them were overtaken
  fate       \* history: what happened to each image

tables == <<users, settings, kept, reports>>
images == <<gone, late, fate>>
local  == <<pc, job, mine, base, workload>>
vars   == <<tables, images, local, agreed>>

User     == [name : Names, image : Keys \cup {None}]
Settings == [id : Ids, distance : Distances]

ASSUME AbsentAssumption == NoRow \notin User \cup Settings /\ None \notin Keys

\* "replaced": a profile stopped naming it; "unread": by a handler that had not
\* read it; "restored": it was named again; "purged": a purge set out to delete
\* it; "failed": its deletion failed, which is only logged.
Fates == {"replaced", "unread", "restored", "purged", "failed"}

\* An update is overtaken when another one stores after its save's SELECT.
Agreed == [asked : SUBSET Distances, overtaken : SUBSET Handlers]

NothingAsked == [asked |-> {}, overtaken |-> {}]

Init ==
  /\ users \in [Users -> [name : Names, image : {None}]]
  /\ settings = [u \in Users |-> NoRow]
  /\ kept = {}
  /\ reports = [x \in Users \X Snaps |-> None]
  /\ gone = {} /\ late = {}
  /\ pc = [h \in Handlers |-> "idle"]
  /\ job = [h \in Handlers |-> None]
  /\ mine = [h \in Handlers |-> NoRow]
  /\ base = [h \in Handlers |-> NoRow]
  /\ workload \in Workloads
  /\ agreed = [u \in Users |-> NothingAsked]
  /\ fate = [k \in Keys |-> {}]

-------------------------------------------------------------------------------
\* Requests.  read is previousKey, or the image of the user that purge found.

Request(op, u, s, x, k) ==
  [op |-> op, user |-> u, snap |-> s, arg |-> x, read |-> k]

\* The gateway's routes: the user is the one of the access token.
Begin(h, stage, j) ==
  /\ j.op \in workload
  /\ pc[h] = "idle"
  /\ pc' = [pc EXCEPT ![h] = stage]
  /\ job' = [job EXCEPT ![h] = j]
  /\ UNCHANGED workload

At(h, op, stage) == pc[h] = stage /\ job[h].op = op
Goto(h, stage) ==
  /\ pc' = [pc EXCEPT ![h] = stage]
  /\ UNCHANGED workload
Hold(h, r) == mine' = [mine EXCEPT ![h] = r]

\* The handler has replied: it returned or threw.
End(h) ==
  /\ pc' = [pc EXCEPT ![h] = "idle"]
  /\ job' = [job EXCEPT ![h] = None]
  /\ mine' = [mine EXCEPT ![h] = NoRow]
  /\ base' = [base EXCEPT ![h] = NoRow]
  /\ UNCHANGED workload

-------------------------------------------------------------------------------
\* Profile and photo: find the user, change the entity, save it.

\* Mutant: the payload is saved without the row it changes.
UpdateProfilePartial(h, u, n) ==
  /\ Begin(h, "select", Request("profile", u, None, n, None))
  /\ Hold(h, [name |-> n])
  /\ UNCHANGED <<tables, images, base, agreed>>

\* Mutant: a user that is not found is taken for a new one.
UpdateProfileBlind(h, u, n) ==
  /\ Begin(h, "select", Request("profile", u, None, n, None))
  /\ Hold(h, [name |-> n, image |-> None])
  /\ UNCHANGED <<tables, images, base, agreed>>

UpdateProfile(h, u, n) ==
  /\ Begin(h, "select", Request("profile", u, None, n, None))
  /\ users[u] # NoRow
  /\ Hold(h, [users[u] EXCEPT !.name = n])
  /\ UNCHANGED <<tables, images, base, agreed>>

SetUserPhoto(h, u, k) ==
  /\ KeyOwner[k] = u
  /\ users[u] # NoRow
  /\ Begin(h, "select", Request("photo", u, None, k, users[u].image))
  /\ Hold(h, [users[u] EXCEPT !.image = k])
  /\ UNCHANGED <<tables, images, base, agreed>>

SaveSelect(h) ==
  /\ pc[h] = "select"
  /\ Goto(h, "write")
  /\ base' = [base EXCEPT ![h] = users[job[h].user]]
  /\ UNCHANGED <<tables, images, job, mine, agreed>>

\* What an UPDATE of the columns that differ from b makes of row r.
Updated(r, e, b) == [c \in DOMAIN r |-> IF e[c] = b[c] THEN r[c] ELSE e[c]]

\* History: h makes the profile name image new instead of old.
Renamed(h, old, new) ==
  [k \in Keys |->
     fate[k]
       \cup (IF k = old /\ k # new
             THEN {"replaced"} \cup (IF k = job[h].read THEN {} ELSE {"unread"})
             ELSE {})
       \cup (IF k = new /\ k # old /\ "replaced" \in fate[k] THEN {"restored"} ELSE {})]

ImageOf(r) == IF r = NoRow THEN None ELSE r.image

\* Mutant: attaching the image that is attached deletes it.
SupersedesItself(h) == job[h].read # None

\* Mutant: the comparison of the keys is the wrong way round.
SupersedesSame(h) == job[h].read # None /\ job[h].read = job[h].arg

\* Is there another image to delete once the new one is saved?
Supersedes(h) == job[h].read \notin {None, job[h].arg}

\* The row that the INSERT or the UPDATE of h leaves.
Saved(h) ==
  LET r == users[job[h].user]
  IN CASE base[h] = NoRow -> mine[h]
       [] base[h] # NoRow /\ r = NoRow -> NoRow
       [] OTHER -> Updated(r, mine[h], base[h])

SaveWrite(h) ==
  LET u == job[h].user
  IN /\ pc[h] = "write"
     /\ ~(base[h] = NoRow /\ users[u] # NoRow)     \* a duplicate key: Abort
     /\ users' = [users EXCEPT ![u] = Saved(h)]
     /\ fate' = Renamed(h, ImageOf(users[u]), ImageOf(Saved(h)))
     /\ IF job[h].op = "photo" /\ Supersedes(h)
        THEN Goto(h, "replace") /\ UNCHANGED <<job, mine, base>>
        ELSE End(h)
     /\ UNCHANGED <<settings, kept, reports, gone, late, agreed>>

\* DELETE_FILES of one key: it is done, it fails, or the caller times out and
\* the storage service may do it later.
DeleteFile(k, ok) ==
  \/ ok /\ gone' = gone \cup {k} /\ late' = late /\ fate' = fate
  \/ ~ok /\ gone' = gone
         /\ \/ late' = late \cup {k} /\ fate' = fate
            \/ late' = late /\ fate' = [fate EXCEPT ![k] = @ \cup {"failed"}]

\* A failure to delete the previous image is logged, and the URL of the new
\* one is signed either way.
DeletePrevious(h) ==
  /\ pc[h] = "replace"
  /\ \E ok \in BOOLEAN : DeleteFile(job[h].read, ok)
  /\ End(h)
  /\ UNCHANGED <<tables, agreed>>

LateDelete(k) ==
  /\ k \in late
  /\ late' = late \ {k}
  /\ gone' = gone \cup {k}
  /\ UNCHANGED <<tables, local, agreed, fate>>

-------------------------------------------------------------------------------
\* Purge: the image, the rows of three tables, the settings, the user.

PurgeUser(h, u) ==
  LET k == ImageOf(users[u])
  IN /\ Begin(h, IF k = None THEN "seen" ELSE "image",
              Request("purge", u, None, None, k))
     /\ base' = [base EXCEPT ![h] = users[u]]
     /\ UNCHANGED <<tables, images, mine, agreed>>

\* A failed deletion of the image fails the purge.
PurgeImage(h) ==
  LET k == job[h].read
  IN /\ pc[h] = "image"
     /\ \/ Goto(h, "seen") /\ gone' = gone \cup {k} /\ late' = late
           /\ UNCHANGED <<job, mine, base>>
        \/ End(h) /\ gone' = gone /\ late' \in {late, late \cup {k}}
     /\ fate' = [fate EXCEPT ![k] = @ \cup {"purged"}]
     /\ UNCHANGED <<tables, agreed>>

PurgeKept(h) ==
  /\ pc[h] \in {"seen", "bookmark"}
  /\ kept' = {r \in kept : ~(r[1] = pc[h] /\ r[2] = job[h].user)}
  /\ Goto(h, IF pc[h] = "seen" THEN "bookmark" ELSE "reports")
  /\ UNCHANGED <<users, settings, reports, images, job, mine, base, agreed>>

PurgeReports(h) ==
  /\ pc[h] = "reports"
  /\ reports' = [x \in DOMAIN reports |->
                   IF x[1] = job[h].user THEN None ELSE reports[x]]
  /\ Goto(h, "settings")
  /\ UNCHANGED <<users, settings, kept, images, job, mine, base, agreed>>

PurgeFindSettings(h) ==
  /\ pc[h] = "settings"
  /\ Hold(h, settings[job[h].user])
  /\ Goto(h, "removing")
  /\ UNCHANGED <<tables, images, job, base, agreed>>

PurgeSettings(h) ==
  LET u == job[h].user
  IN /\ pc[h] = "removing"
     /\ IF settings[u] # NoRow /\ mine[h] # NoRow /\ settings[u].id = mine[h].id
        THEN /\ settings' = [settings EXCEPT ![u] = NoRow]
             /\ agreed' = [agreed EXCEPT ![u] = NothingAsked]
        ELSE UNCHANGED <<settings, agreed>>
     /\ IF base[h] = NoRow
        THEN End(h)
        ELSE Goto(h, "user") /\ UNCHANGED <<job, mine, base>>
     /\ UNCHANGED <<users, kept, reports, images>>

\* The settings row, if there is one again, goes with its user.
PurgeRemoveUser(h) ==
  LET u == job[h].user
  IN /\ pc[h] = "user"
     /\ users' = [users EXCEPT ![u] = NoRow]
     /\ settings' = [settings EXCEPT ![u] = NoRow]
     /\ agreed' = [agreed EXCEPT ![u] = NothingAsked]
     /\ fate' = Renamed(h, ImageOf(users[u]), None)
     /\ End(h)
     /\ UNCHANGED <<kept, reports, gone, late>>

-------------------------------------------------------------------------------
\* Settings: found, or created for a user that exists.

\* A generated id; one that no row and no handler holds any more is as good as
\* one never used before.
Fresh(i) ==
  /\ \A u \in Users : settings[u] # NoRow => settings[u].id # i
  /\ \A h \in Handlers : mine[h] \in Settings => mine[h].id # i

FreshId == CHOOSE i \in Ids : Fresh(i)

GetSettings(h, u) ==
  /\ Begin(h, "owner", Request("settings", u, None, DefaultDistance, None))
  /\ settings[u] = NoRow
  /\ UNCHANGED <<tables, images, mine, base, agreed>>

UpdateSettings(h, u, d) ==
  /\ Begin(h, IF settings[u] = NoRow THEN "owner" ELSE "load",
           Request("update", u, None, d, None))
  /\ IF settings[u] = NoRow
     THEN mine' = mine
     ELSE Hold(h, [settings[u] EXCEPT !.distance = d])
  /\ UNCHANGED <<tables, images, base, agreed>>

CreateSettings(h) ==
  /\ pc[h] = "owner"
  /\ users[job[h].user] # NoRow                \* otherwise NotFound: Abort
  /\ \E i \in Ids : Fresh(i)                   \* Ids is a bound
  /\ Hold(h, [id |-> FreshId, distance |-> DefaultDistance])
  /\ Goto(h, "insert")
  /\ UNCHANGED <<tables, images, job, base, agreed>>

\* Mutant: the column has no unique index, and the later row is the one found.
InsertableTwice(u) == users[u] # NoRow

\* userId is unique and a foreign key: otherwise the INSERT fails.
Insertable(u) == settings[u] = NoRow /\ users[u] # NoRow

InsertSettings(h) ==
  LET u == job[h].user
  IN /\ pc[h] = "insert"
     /\ Insertable(u)
     /\ settings' = [settings EXCEPT ![u] = mine[h]]
     /\ IF job[h].op = "settings"
        THEN End(h)
        ELSE /\ Goto(h, "load")
             /\ Hold(h, [mine[h] EXCEPT !.distance = job[h].arg])
             /\ UNCHANGED <<job, base>>
     /\ UNCHANGED <<users, kept, reports, images, agreed>>

\* save's SELECT, by the id of the row.
LoadSettings(h) ==
  LET u == job[h].user
      r == settings[u]
  IN /\ pc[h] = "load"
     /\ base' = [base EXCEPT ![h] =
                   IF r # NoRow /\ r.id = mine[h].id THEN r ELSE NoRow]
     /\ agreed' = [agreed EXCEPT ![u].overtaken = @ \ {h}]
     /\ Goto(h, "store")
     /\ UNCHANGED <<tables, images, job, mine>>

\* History: h stored what it asked for, or was overtaken and stored what it saw
\* changed; it overtakes the updates that have selected the row.
Asked(h) ==
  LET before == agreed[job[h].user]
  IN [asked |-> {job[h].arg} \cup (IF h \in before.overtaken THEN before.asked ELSE {}),
      overtaken |-> {g \in Handlers \ {h} :
                       pc[g] = "store" /\ job[g].user = job[h].user}]

StoreSettings(h) ==
  LET u == job[h].user
  IN /\ pc[h] = "store"
     /\ IF base[h] = NoRow
        THEN Insertable(u) /\ settings' = [settings EXCEPT ![u] = mine[h]]
        ELSE settings' = [settings EXCEPT ![u] =
               IF @ # NoRow /\ @.id = mine[h].id
               THEN Updated(@, mine[h], base[h]) ELSE @]
     /\ agreed' = [agreed EXCEPT ![u] =
                     IF settings'[u] # NoRow /\ settings'[u].id = mine[h].id
                     THEN Asked(h) ELSE @]
     /\ End(h)
     /\ UNCHANGED <<users, kept, reports, images>>

-------------------------------------------------------------------------------
\* Bookmarks and seen marks: rows without columns of their own.

AddBookmark(h, u, s) ==
  /\ Begin(h, "keepSelect", Request("bookmark", u, s, None, None))
  /\ <<"bookmark", u, s>> \notin kept
  /\ UNCHANGED <<tables, images, mine, base, agreed>>

AddSeen(h, u, s) ==
  /\ Begin(h, "keepSelect", Request("seen", u, s, None, None))
  /\ UNCHANGED <<tables, images, mine, base, agreed>>

Kept(h) == <<job[h].op, job[h].user, job[h].snap>>

KeepSelect(h) ==
  /\ pc[h] = "keepSelect"
  /\ IF Kept(h) \in kept
     THEN End(h)
     ELSE Goto(h, "keepInsert") /\ UNCHANGED <<job, mine, base>>
  /\ UNCHANGED <<tables, images, agreed>>

\* The row may be there by now: addBookmark then looks for it again, addSeen
\* throws.
KeepInsert(h) ==
  /\ pc[h] = "keepInsert"
  /\ kept' = kept \cup {Kept(h)}
  /\ End(h)
  /\ UNCHANGED <<users, settings, reports, images, agreed>>

RemoveBookmark(u, s) ==
  /\ "bookmark" \in workload
  /\ kept' = kept \ {<<"bookmark", u, s>>}
  /\ UNCHANGED <<users, settings, reports, images, local, agreed>>

-------------------------------------------------------------------------------
\* Reports: find, and save a row whose primary key is the user and the snap.

\* Mutant: the earlier report is not looked for.
CreateReportBlind(h, u, s, r) ==
  /\ Begin(h, "reportSelect", Request("report", u, s, r, None))
  /\ UNCHANGED <<tables, images, mine, base, agreed>>

CreateReport(h, u, s, r) ==
  /\ Begin(h, "reportSelect", Request("report", u, s, r, None))
  /\ reports[<<u, s>>] = None                       \* otherwise 409
  /\ UNCHANGED <<tables, images, mine, base, agreed>>

ReportSelect(h) ==
  /\ pc[h] = "reportSelect"
  /\ base' = [base EXCEPT ![h] = reports[<<job[h].user, job[h].snap>>]]
  /\ Goto(h, "reportWrite")
  /\ UNCHANGED <<tables, images, job, mine, agreed>>

ReportWrite(h) ==
  LET x == <<job[h].user, job[h].snap>>
  IN /\ pc[h] = "reportWrite"
     /\ base[h] = None => reports[x] = None     \* a duplicate key, 409: Abort
     /\ reports' = [reports EXCEPT ![x] =
                      IF base[h] # None /\ @ = None THEN None ELSE job[h].arg]
     /\ End(h)
     /\ UNCHANGED <<users, settings, kept, images, agreed>>

-------------------------------------------------------------------------------
\* A query fails, the handler throws, or the process dies.
Abort(h) ==
  /\ pc[h] # "idle"
  /\ fate' = IF pc[h] = "replace"
             THEN [fate EXCEPT ![job[h].read] = @ \cup {"failed"}] ELSE fate
  /\ End(h)
  /\ UNCHANGED <<tables, gone, late, agreed>>

Arrive(h) ==
  \E u \in Users :
    \/ \E n \in Names : UpdateProfile(h, u, n)
    \/ \E k \in Keys : SetUserPhoto(h, u, k)
    \/ PurgeUser(h, u)
    \/ GetSettings(h, u)
    \/ \E d \in Distances : UpdateSettings(h, u, d)
    \/ \E s \in Snaps : AddBookmark(h, u, s) \/ AddSeen(h, u, s)
    \/ \E s \in Snaps, r \in Reasons : CreateReport(h, u, s, r)

Continue(h) ==
  \/ SaveSelect(h) \/ SaveWrite(h) \/ DeletePrevious(h)
  \/ PurgeImage(h) \/ PurgeKept(h) \/ PurgeReports(h)
  \/ PurgeFindSettings(h) \/ PurgeSettings(h) \/ PurgeRemoveUser(h)
  \/ CreateSettings(h)
  \/ InsertSettings(h) \/ LoadSettings(h) \/ StoreSettings(h)
  \/ KeepSelect(h) \/ KeepInsert(h)
  \/ ReportSelect(h) \/ ReportWrite(h)
  \/ Abort(h)

Next ==
  \/ \E h \in Handlers : Arrive(h) \/ Continue(h)
  \/ \E k \in Keys : LateDelete(k)
  \/ \E u \in Users, s \in Snaps : RemoveBookmark(u, s)

Spec == Init /\ [][Next]_vars

-------------------------------------------------------------------------------
Stages ==
  {"idle", "select", "write", "replace", "image", "seen", "bookmark", "reports",
   "settings", "removing", "user", "owner", "insert", "load", "store",
   "keepSelect", "keepInsert", "reportSelect", "reportWrite"}

Args == Names \cup Keys \cup Distances \cup Reasons \cup {None}

Job == [op : Ops, user : Users, snap : Snaps \cup {None}, arg : Args,
        read : Keys \cup {None}]

\* Every row, entity and request is well formed.
TypeOK ==
  /\ users \in [Users -> User \cup {NoRow}]
  /\ settings \in [Users -> Settings \cup {NoRow}]
  /\ kept \subseteq {"bookmark", "seen"} \X Users \X Snaps
  /\ reports \in [Users \X Snaps -> Reasons \cup {None}]
  /\ gone \subseteq Keys /\ late \subseteq Keys
  /\ workload \in Workloads
  /\ pc \in [Handlers -> Stages]
  /\ job \in [Handlers -> Job \cup {None}]
  /\ mine \in [Handlers -> User \cup Settings \cup {NoRow}]
  /\ base \in [Handlers -> User \cup Settings \cup Reasons \cup {NoRow, None}]
  /\ agreed \in [Users -> Agreed]
  /\ fate \in [Keys -> SUBSET Fates]

Names_(k) == \E u \in Users : ImageOf(users[u]) = k

\* A user that was purged stays purged once the saves in flight have ended: a
\* profile or photo change that read the row before the purge inserts it again,
\* one that begins later does not (users-profile.service.ts, users.service.ts).
Purged(u) ==
  /\ users[u] = NoRow
  /\ \A h \in Handlers : pc[h] \in {"select", "write"} => job[h].user # u

SettledPurgeIsFinal ==
  [][\A u \in Users : Purged(u) => Purged(u)']_vars

\* The image a profile names exists, unless a purge of the user went for it or
\* a change that had read an older row named a replaced image again: a photo
\* change deletes the previous image only once the row names another.
NamedImageExists ==
  \A u \in Users :
    LET k == ImageOf(users[u])
    IN k \in gone => fate[k] \cap {"restored", "purged"} # {}

\* No image is left behind silently: one that a profile stopped naming is
\* deleted, or about to be, unless its deletion failed or a change that had not
\* read it overwrote it, as two overlapping photo changes do.
ReplacedImageDeleted ==
  \A k \in Keys :
    "replaced" \in fate[k] =>
      \/ k \in gone \cup late
      \/ Names_(k)
      \/ \E h \in Handlers : pc[h] = "replace" /\ job[h].read = k
      \/ fate[k] \cap {"unread", "failed"} # {}

\* Each column of the settings holds what the last update asked for, or, where
\* updates overlapped in save's SELECT and UPDATE, what one of those did, until the
\* next: reads create the row and two requests may both find none, and whoever comes
\* second does not put the defaults back.  An update whose row a purge took away
\* changes nothing and still succeeds.
ConfirmedSettingsStand ==
  \A u \in Users :
    agreed[u].asked # {} => settings[u] # NoRow /\ settings[u].distance \in agreed[u].asked

\* A report stands once no other report of that user on that snap is in flight:
\* one that begins later is refused, and does not overwrite it; only the purge
\* of its user removes it (reports.service.ts).
Reported(x) ==
  /\ reports[x] # None
  /\ \A h \in Handlers :
       pc[h] \in {"reportSelect", "reportWrite"} => <<job[h].user, job[h].snap>> # x

SettledReportStands ==
  [][\A x \in Users \X Snaps :
       Reported(x) =>
         \/ reports'[x] = reports[x] /\ Reported(x)'
         \/ /\ reports'[x] = None
            /\ \E h \in Handlers : pc[h] = "reports" /\ job[h].user = x[1]]_vars
===============================================================================
