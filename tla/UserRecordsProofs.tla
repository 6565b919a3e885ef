--------------------------- MODULE UserRecordsProofs ---------------------------
(***************************************************************************)
(* Theorems of UserRecords, for any users, keys, snaps and requests at     *)
(* once.                                                                   *)
(***************************************************************************)
EXTENDS UserRecords, TLAPS

\* What save's UPDATE makes of a user's row.
LEMMA UpdatedUser ==
  ASSUME NEW r \in User, NEW e \in User, NEW b \in User
  PROVE  /\ Updated(r, e, b) \in User
         /\ Updated(r, e, b).image = IF e.image = b.image THEN r.image ELSE e.image
<1>1. DOMAIN r = {"name", "image"}
  BY DEF User
<1>2. Updated(r, e, b) = [name  |-> IF e.name = b.name THEN r.name ELSE e.name,
                          image |-> IF e.image = b.image THEN r.image ELSE e.image]
  BY <1>1 DEF Updated
<1>3. /\ r.name \in Names /\ e.name \in Names
      /\ r.image \in Keys \cup {None} /\ e.image \in Keys \cup {None}
  BY DEF User
<1> QED
  BY <1>2, <1>3 DEF User

PurgeStages == {"seen", "bookmark", "reports", "settings", "removing", "user"}

\* A handler that changes the row of its user holds an entity with an image of
\* that user, and the image it read is the one the row names or was replaced; a
\* purge that is past the image has deleted it.  rows, f and g are the rows of
\* users, the fates and the deleted images.
HandlerOK(stage, j, m, b, rows, f, g) ==
  /\ stage # "idle" => j \in Job
  /\ stage \in {"select", "write"} =>
       /\ j.op \in {"profile", "photo"} /\ m \in User
       /\ m.image # None => KeyOwner[m.image] = j.user
       /\ j.op = "profile" => j.read = None
       /\ j.op = "photo" => m.image = j.arg
       /\ j.read # None => ImageOf(rows[j.user]) = j.read \/ "replaced" \in f[j.read]
  /\ stage = "write" =>
       /\ b \in User \cup {NoRow}
       /\ j.read # None /\ ImageOf(b) # j.read => "replaced" \in f[j.read]
  /\ stage = "replace" => j.read \in Keys /\ "replaced" \in f[j.read]
  /\ stage = "image" => j.read \in Keys
  /\ stage \in PurgeStages /\ j.read # None => j.read \in g

HandlersInv ==
  \A h \in Handlers : HandlerOK(pc[h], job[h], mine[h], base[h], users, fate, gone)

Shape ==
  /\ pc \in [Handlers -> Stages]
  /\ job \in [Handlers -> Job \cup {None}]
  /\ mine = [h \in Handlers |-> mine[h]]
  /\ base = [h \in Handlers |-> base[h]]
  /\ users \in [Users -> User \cup {NoRow}]
  /\ reports = [x \in Users \X Snaps |-> reports[x]]
  /\ fate \in [Keys -> SUBSET Fates]
  /\ gone \subseteq Keys /\ late \subseteq Keys

\* A row names an image of its user, and one that was replaced was restored.
RowsInv ==
  \A u \in Users :
    ImageOf(users[u]) \in Keys =>
      /\ KeyOwner[ImageOf(users[u])] = u
      /\ "replaced" \in fate[ImageOf(users[u])] => "restored" \in fate[ImageOf(users[u])]

\* An image is deleted because a row stopped naming it, or by a purge.
GoneInv == \A k \in gone \cup late : fate[k] \cap {"replaced", "purged"} # {}

ImagesInv == Shape /\ HandlersInv /\ RowsInv /\ GoneInv /\ ReplacedImageDeleted

LEMMA ImagesInit == Init => ImagesInv
<1> SUFFICES ASSUME Init PROVE ImagesInv
  OBVIOUS
<1>1. \A u \in Users : users[u] \in User /\ ImageOf(users[u]) = None
  BY AbsentAssumption DEF Init, User, ImageOf
<1>2. Shape
  BY <1>1 DEF Init, Shape, Stages
<1>3. HandlersInv
  BY DEF Init, HandlersInv, HandlerOK, PurgeStages
<1>4. RowsInv
  BY <1>1, AbsentAssumption DEF RowsInv
<1>5. GoneInv /\ ReplacedImageDeleted
  BY DEF Init, GoneInv, ReplacedImageDeleted
<1> QED
  BY <1>2, <1>3, <1>4, <1>5 DEF ImagesInv

-------------------------------------------------------------------------------
\* Fates and deletions only add up, and a row that names another image than
\* before leaves its image replaced.
Onward ==
  /\ \A k \in Keys : fate[k] \subseteq fate'[k]
  /\ gone \subseteq gone'
  /\ \A u \in Users :
       ImageOf(users[u]) \in Keys /\ ImageOf(users'[u]) # ImageOf(users[u])
         => "replaced" \in fate'[ImageOf(users[u])]

LEMMA HandlerKept ==
  ASSUME Onward, NEW stage, NEW j, NEW m, NEW b,
         HandlerOK(stage, j, m, b, users, fate, gone)
  PROVE  HandlerOK(stage, j, m, b, users', fate', gone')
<1>1. stage # "idle" => j.user \in Users /\ j.read \in Keys \cup {None}
  BY DEF HandlerOK, Job
<1>2. stage \in {"select", "write"} /\ j.read # None =>
        ImageOf(users'[j.user]) = j.read \/ "replaced" \in fate'[j.read]
  BY <1>1 DEF HandlerOK, Onward
<1>3. j.read \in Keys /\ "replaced" \in fate[j.read] => "replaced" \in fate'[j.read]
  BY DEF Onward
<1>4. stage = "write" /\ j.read # None /\ ImageOf(b) # j.read => "replaced" \in fate'[j.read]
  BY <1>1, <1>3 DEF HandlerOK
<1>5. stage = "replace" => j.read \in Keys /\ "replaced" \in fate'[j.read]
  BY <1>3 DEF HandlerOK
<1>6. stage \in PurgeStages => (j.read # None => j.read \in gone')
  BY DEF HandlerOK, Onward
<1> QED
  BY <1>2, <1>4, <1>5, <1>6 DEF HandlerOK

\* A step of handler w.
LEMMA HandlersKept ==
  ASSUME HandlersInv, Onward, NEW w \in Handlers,
         \A h \in Handlers \ {w} :
           pc'[h] = pc[h] /\ job'[h] = job[h] /\ mine'[h] = mine[h] /\ base'[h] = base[h],
         HandlerOK(pc'[w], job'[w], mine'[w], base'[w], users', fate', gone')
  PROVE  HandlersInv'
<1>1. ASSUME NEW h \in Handlers
      PROVE  HandlerOK(pc'[h], job'[h], mine'[h], base'[h], users', fate', gone')
  <2>1. CASE h = w
    BY <2>1
  <2>2. CASE h # w
    <3>1. HandlerOK(pc[h], job[h], mine[h], base[h], users, fate, gone)
      BY DEF HandlersInv
    <3>2. HandlerOK(pc[h], job[h], mine[h], base[h], users', fate', gone')
      BY <3>1, HandlerKept
    <3> QED
      BY <2>2, <3>2
  <2> QED
    BY <2>1, <2>2
<1> QED
  BY <1>1 DEF HandlersInv

LEMMA EndKept ==
  ASSUME Shape, HandlersInv, Onward, NEW w \in Handlers, End(w)
  PROVE  /\ HandlersInv'
         /\ pc' \in [Handlers -> Stages] /\ job' \in [Handlers -> Job \cup {None}]
         /\ mine' = [h \in Handlers |-> mine'[h]] /\ base' = [h \in Handlers |-> base'[h]]
         /\ pc'[w] = "idle" /\ \A h \in Handlers \ {w} : pc'[h] = pc[h] /\ job'[h] = job[h]
<1>1. /\ pc' = [pc EXCEPT ![w] = "idle"] /\ job' = [job EXCEPT ![w] = None]
      /\ mine' = [mine EXCEPT ![w] = NoRow] /\ base' = [base EXCEPT ![w] = NoRow]
  BY DEF End
<1>2. /\ pc' \in [Handlers -> Stages] /\ job' \in [Handlers -> Job \cup {None}]
      /\ pc'[w] = "idle" /\ \A h \in Handlers \ {w} : pc'[h] = pc[h] /\ job'[h] = job[h]
  BY <1>1 DEF Shape, Stages
<1>3. /\ mine' = [h \in Handlers |-> IF h = w THEN NoRow ELSE mine[h]]
      /\ base' = [h \in Handlers |-> IF h = w THEN NoRow ELSE base[h]]
  BY <1>1 DEF Shape
<1>4. /\ mine' = [h \in Handlers |-> mine'[h]] /\ base' = [h \in Handlers |-> base'[h]]
      /\ \A h \in Handlers \ {w} : mine'[h] = mine[h] /\ base'[h] = base[h]
  BY <1>3
<1>5. HandlerOK(pc'[w], job'[w], mine'[w], base'[w], users', fate', gone')
  BY <1>2 DEF HandlerOK, PurgeStages
<1> QED
  BY <1>2, <1>4, <1>5, HandlersKept

\* What the rows and the images are is kept when no image and no user changes.
LEMMA ImagesKept ==
  ASSUME ImagesInv, UNCHANGED <<users, gone, late, fate>>,
         \A h \in Handlers : pc[h] = "replace" => pc'[h] = "replace" /\ job'[h] = job[h]
  PROVE  Onward /\ RowsInv' /\ GoneInv' /\ ReplacedImageDeleted'
<1>1. Onward /\ RowsInv' /\ GoneInv'
  BY DEF ImagesInv, Onward, RowsInv, GoneInv
<1>2. ReplacedImageDeleted'
  BY DEF ImagesInv, ReplacedImageDeleted, Names_
<1> QED
  BY <1>1, <1>2

-------------------------------------------------------------------------------
\* Steps that touch neither the users nor the images.

quiet == <<users, gone, late, fate>>
ReportsShape == reports = [x \in Users \X Snaps |-> reports[x]]

LEMMA QuietMoves ==
  ASSUME ImagesInv, UNCHANGED quiet, ReportsShape',
         NEW w \in Handlers, pc[w] # "replace",
         NEW stage \in Stages, NEW j \in Job, NEW m, NEW b,
         HandlerOK(stage, j, m, b, users, fate, gone),
         pc' = [pc EXCEPT ![w] = stage], job' = [job EXCEPT ![w] = j],
         mine' = [mine EXCEPT ![w] = m], base' = [base EXCEPT ![w] = b]
  PROVE  ImagesInv'
<1>1. /\ pc' \in [Handlers -> Stages] /\ job' \in [Handlers -> Job \cup {None}]
      /\ pc'[w] = stage /\ job'[w] = j
      /\ \A h \in Handlers \ {w} : pc'[h] = pc[h] /\ job'[h] = job[h]
  BY DEF ImagesInv, Shape
<1>2. /\ mine' = [h \in Handlers |-> IF h = w THEN m ELSE mine[h]]
      /\ base' = [h \in Handlers |-> IF h = w THEN b ELSE base[h]]
  BY DEF ImagesInv, Shape
<1>3. /\ mine' = [h \in Handlers |-> mine'[h]] /\ base' = [h \in Handlers |-> base'[h]]
      /\ mine'[w] = m /\ base'[w] = b
      /\ \A h \in Handlers \ {w} : mine'[h] = mine[h] /\ base'[h] = base[h]
  BY <1>2
<1>4. Onward /\ RowsInv' /\ GoneInv' /\ ReplacedImageDeleted'
  BY <1>1, ImagesKept DEF quiet
<1>5. Shape'
  BY <1>1, <1>3 DEF ImagesInv, Shape, quiet, ReportsShape
<1>6. HandlerOK(pc'[w], job'[w], mine'[w], base'[w], users', fate', gone')
  BY <1>1, <1>3 DEF quiet
<1>7. HandlersInv'
  BY <1>1, <1>3, <1>4, <1>6, HandlersKept DEF ImagesInv
<1> QED
  BY <1>4, <1>5, <1>7 DEF ImagesInv

LEMMA QuietEnd ==
  ASSUME ImagesInv, UNCHANGED quiet, ReportsShape',
         NEW w \in Handlers, pc[w] # "replace", End(w)
  PROVE  ImagesInv'
<1>1. Onward
  BY DEF quiet, Onward
<1>2. /\ HandlersInv'
      /\ pc' \in [Handlers -> Stages] /\ job' \in [Handlers -> Job \cup {None}]
      /\ mine' = [h \in Handlers |-> mine'[h]] /\ base' = [h \in Handlers |-> base'[h]]
      /\ pc'[w] = "idle" /\ \A h \in Handlers \ {w} : pc'[h] = pc[h] /\ job'[h] = job[h]
  BY <1>1, EndKept DEF ImagesInv
<1>3. RowsInv' /\ GoneInv' /\ ReplacedImageDeleted'
  BY <1>2, ImagesKept DEF quiet
<1> QED
  BY <1>2, <1>3 DEF ImagesInv, Shape, quiet, ReportsShape

\* A handler that is given nothing to hold keeps what it has.
LEMMA Same ==
  ASSUME Shape, NEW w \in Handlers
  PROVE  /\ job = [job EXCEPT ![w] = job[w]]
         /\ mine = [mine EXCEPT ![w] = mine[w]]
         /\ base = [base EXCEPT ![w] = base[w]]
<1>1. job = [job EXCEPT ![w] = job[w]]
  BY DEF Shape
<1>2. mine = [mine EXCEPT ![w] = mine[w]]
  BY DEF Shape
<1>3. base = [base EXCEPT ![w] = base[w]]
  BY DEF Shape
<1> QED
  BY <1>1, <1>2, <1>3

LEMMA JobOf == ASSUME ImagesInv, NEW w \in Handlers, pc[w] # "idle" PROVE job[w] \in Job
BY DEF ImagesInv, HandlersInv, HandlerOK

\* The requests that only go between the rows beside the users.
Beside == {"owner", "insert", "load", "store",
           "keepSelect", "keepInsert", "reportSelect", "reportWrite"}

LEMMA BesideMoves ==
  ASSUME ImagesInv, UNCHANGED quiet, ReportsShape',
         NEW w \in Handlers, pc[w] # "replace", NEW stage \in Beside,
         pc' = [pc EXCEPT ![w] = stage],
         (pc[w] # "idle" /\ job' = job) \/ \E j \in Job : job' = [job EXCEPT ![w] = j],
         mine' = mine \/ \E m : mine' = [mine EXCEPT ![w] = m],
         base' = base \/ \E b : base' = [base EXCEPT ![w] = b]
  PROVE  ImagesInv'
<1>1. PICK j \in Job : job' = [job EXCEPT ![w] = j]
  BY Same, JobOf DEF ImagesInv
<1>2. PICK m : mine' = [mine EXCEPT ![w] = m]
  BY Same DEF ImagesInv
<1>3. PICK b : base' = [base EXCEPT ![w] = b]
  BY Same DEF ImagesInv
<1>4. HandlerOK(stage, j, m, b, users, fate, gone) /\ stage \in Stages
  BY DEF HandlerOK, Beside, PurgeStages, Stages
<1> QED
  BY <1>1, <1>2, <1>3, <1>4, QuietMoves

LEMMA RequestIsJob ==
  ASSUME NEW op \in Ops, NEW u \in Users, NEW s \in Snaps \cup {None}, NEW x \in Args,
         NEW k \in Keys \cup {None}
  PROVE  /\ Request(op, u, s, x, k) \in Job
         /\ Request(op, u, s, x, k).op = op /\ Request(op, u, s, x, k).user = u
         /\ Request(op, u, s, x, k).arg = x /\ Request(op, u, s, x, k).read = k
BY DEF Request, Job

\* Requests about settings, bookmarks, seen marks and reports.
LEMMA BesideStep ==
  ASSUME ImagesInv, NEW w \in Handlers,
         \/ \E u \in Users :
              \/ GetSettings(w, u)
              \/ \E d \in Distances : UpdateSettings(w, u, d)
              \/ \E s \in Snaps : AddBookmark(w, u, s) \/ AddSeen(w, u, s)
              \/ \E s \in Snaps, r \in Reasons : CreateReport(w, u, s, r)
         \/ CreateSettings(w) \/ InsertSettings(w) \/ LoadSettings(w) \/ StoreSettings(w)
         \/ KeepSelect(w) \/ KeepInsert(w) \/ ReportSelect(w) \/ ReportWrite(w)
  PROVE  ImagesInv'
<1> USE DEF tables, images, quiet
<1>1. ReportsShape
  BY DEF ImagesInv, Shape, ReportsShape
<1>2. ASSUME NEW u \in Users, GetSettings(w, u) PROVE ImagesInv'
  <2>1. Request("settings", u, None, DefaultDistance, None) \in Job
    BY RequestIsJob, InputsAssumption DEF Ops, Args
  <2> QED
    BY <1>1, <1>2, <2>1, BesideMoves DEF GetSettings, Begin, Beside, ReportsShape
<1>3. ASSUME NEW u \in Users, NEW d \in Distances, UpdateSettings(w, u, d) PROVE ImagesInv'
  <2>1. Request("update", u, None, d, None) \in Job
    BY RequestIsJob DEF Ops, Args
  <2>2. PICK stage \in {"owner", "load"} :
          /\ pc' = [pc EXCEPT ![w] = stage] /\ pc[w] = "idle"
          /\ job' = [job EXCEPT ![w] = Request("update", u, None, d, None)]
    BY <1>3 DEF UpdateSettings, Begin
  <2>3. UNCHANGED quiet /\ UNCHANGED <<reports, base>>
        /\ (mine' = mine \/ \E m : mine' = [mine EXCEPT ![w] = m])
    BY <1>3 DEF UpdateSettings, Hold
  <2> QED
    BY <1>1, <2>1, <2>2, <2>3, BesideMoves DEF Beside, ReportsShape
<1>4. ASSUME NEW u \in Users, NEW s \in Snaps, AddBookmark(w, u, s) PROVE ImagesInv'
  <2>1. Request("bookmark", u, s, None, None) \in Job
    BY RequestIsJob DEF Ops, Args
  <2> QED
    BY <1>1, <1>4, <2>1, BesideMoves DEF AddBookmark, Begin, Beside, ReportsShape
<1>5. ASSUME NEW u \in Users, NEW s \in Snaps, AddSeen(w, u, s) PROVE ImagesInv'
  <2>1. Request("seen", u, s, None, None) \in Job
    BY RequestIsJob DEF Ops, Args
  <2> QED
    BY <1>1, <1>5, <2>1, BesideMoves DEF AddSeen, Begin, Beside, ReportsShape
<1>6. ASSUME NEW u \in Users, NEW s \in Snaps, NEW r \in Reasons, CreateReport(w, u, s, r)
      PROVE  ImagesInv'
  <2>1. Request("report", u, s, r, None) \in Job
    BY RequestIsJob DEF Ops, Args
  <2> QED
    BY <1>1, <1>6, <2>1, BesideMoves DEF CreateReport, Begin, Beside, ReportsShape
<1>7. CASE CreateSettings(w)
  BY <1>1, <1>7, BesideMoves DEF CreateSettings, Goto, Hold, Beside, ReportsShape
<1>8. CASE InsertSettings(w)
  BY <1>1, <1>8, BesideMoves, QuietEnd DEF InsertSettings, Goto, Hold, Beside, ReportsShape
<1>9. CASE LoadSettings(w)
  BY <1>1, <1>9, BesideMoves DEF LoadSettings, Goto, Beside, ReportsShape
<1>10. CASE StoreSettings(w)
  BY <1>1, <1>10, QuietEnd DEF StoreSettings, ReportsShape
<1>11. CASE KeepSelect(w)
  BY <1>1, <1>11, BesideMoves, QuietEnd DEF KeepSelect, Goto, Beside, ReportsShape
<1>12. CASE KeepInsert(w)
  BY <1>1, <1>12, QuietEnd DEF KeepInsert, ReportsShape
<1>13. CASE ReportSelect(w)
  BY <1>1, <1>13, BesideMoves DEF ReportSelect, Goto, Beside, ReportsShape
<1>14. CASE ReportWrite(w)
  <2>1. ReportsShape'
    BY <1>1, <1>14 DEF ReportWrite, ReportsShape
  <2> QED
    BY <1>14, <2>1, QuietEnd DEF ReportWrite
<1> QED
  BY <1>2, <1>3, <1>4, <1>5, <1>6, <1>7, <1>8, <1>9, <1>10, <1>11, <1>12, <1>13, <1>14

-------------------------------------------------------------------------------
\* Requests that change a user begin, and go on to the save or the rows.

LEMMA UserArrives ==
  ASSUME ImagesInv, NEW w \in Handlers, NEW u \in Users,
         \/ \E n \in Names : UpdateProfile(w, u, n)
         \/ \E k \in Keys : SetUserPhoto(w, u, k)
         \/ PurgeUser(w, u)
  PROVE  ImagesInv'
<1> USE DEF tables, images, quiet
<1>1. ReportsShape /\ users[u] \in User \cup {NoRow}
  BY DEF ImagesInv, Shape, ReportsShape
<1>2. ASSUME users[u] # NoRow
      PROVE  /\ users[u] \in User /\ ImageOf(users[u]) = users[u].image
             /\ users[u].image \in Keys \cup {None}
             /\ users[u].image # None => KeyOwner[users[u].image] = u
  <2>1. users[u] \in User /\ ImageOf(users[u]) = users[u].image
    BY <1>1, <1>2 DEF ImageOf
  <2>2. users[u].image \in Keys \cup {None}
    BY <2>1 DEF User
  <2> QED
    BY <2>1, <2>2 DEF ImagesInv, RowsInv
<1>3. ASSUME NEW n \in Names, UpdateProfile(w, u, n) PROVE ImagesInv'
  <2> DEFINE j == Request("profile", u, None, n, None)
             m == [users[u] EXCEPT !.name = n]
  <2>1. /\ j \in Job /\ j.op = "profile" /\ j.user = u /\ j.read = None
    BY RequestIsJob DEF Ops, Args
  <2>2. m \in User /\ m.image = users[u].image
    BY <1>2, <1>3 DEF UpdateProfile, User
  <2>3. /\ pc[w] = "idle" /\ UNCHANGED <<quiet, reports, base>>
        /\ pc' = [pc EXCEPT ![w] = "select"] /\ job' = [job EXCEPT ![w] = j]
        /\ mine' = [mine EXCEPT ![w] = m]
    BY <1>3 DEF UpdateProfile, Begin, Hold
  <2>4. users[u] # NoRow
    BY <1>3 DEF UpdateProfile
  <2> HIDE DEF j, m
  <2>5. HandlerOK("select", j, m, base[w], users, fate, gone)
    BY <1>2, <2>1, <2>2, <2>4 DEF HandlerOK, PurgeStages
  <2>6. base' = [base EXCEPT ![w] = base[w]]
    BY <2>3, Same DEF ImagesInv
  <2>7. ReportsShape'
    BY <1>1, <2>3 DEF ReportsShape
  <2> QED
    BY <2>1, <2>3, <2>5, <2>6, <2>7, QuietMoves DEF Stages
<1>4. ASSUME NEW k \in Keys, SetUserPhoto(w, u, k) PROVE ImagesInv'
  <2> DEFINE j == Request("photo", u, None, k, users[u].image)
             m == [users[u] EXCEPT !.image = k]
  <2>1. users[u] # NoRow /\ KeyOwner[k] = u
    BY <1>4 DEF SetUserPhoto
  <2>2. /\ j \in Job /\ j.op = "photo" /\ j.user = u /\ j.read = users[u].image /\ j.arg = k
    BY <1>2, <2>1, RequestIsJob DEF Ops, Args
  <2>3. m \in User /\ m.image = k
    BY <1>2, <2>1 DEF User
  <2>4. /\ pc[w] = "idle" /\ UNCHANGED <<quiet, reports, base>>
        /\ pc' = [pc EXCEPT ![w] = "select"] /\ job' = [job EXCEPT ![w] = j]
        /\ mine' = [mine EXCEPT ![w] = m]
    BY <1>4 DEF SetUserPhoto, Begin, Hold
  <2> HIDE DEF j, m
  <2>5. HandlerOK("select", j, m, base[w], users, fate, gone)
    BY <1>2, <2>1, <2>2, <2>3 DEF HandlerOK, PurgeStages
  <2>6. base' = [base EXCEPT ![w] = base[w]]
    BY <2>4, Same DEF ImagesInv
  <2>7. ReportsShape'
    BY <1>1, <2>4 DEF ReportsShape
  <2> QED
    BY <2>2, <2>4, <2>5, <2>6, <2>7, QuietMoves DEF Stages
<1>5. ASSUME PurgeUser(w, u) PROVE ImagesInv'
  <2> DEFINE k == ImageOf(users[u])
             j == Request("purge", u, None, None, k)
             stage == IF k = None THEN "seen" ELSE "image"
  <2>1. k \in Keys \cup {None}
    BY <1>1 DEF ImageOf, User
  <2>2. /\ pc[w] = "idle" /\ UNCHANGED <<quiet, reports, mine>>
        /\ pc' = [pc EXCEPT ![w] = stage] /\ job' = [job EXCEPT ![w] = j]
        /\ base' = [base EXCEPT ![w] = users[u]]
    BY <1>5 DEF PurgeUser, Begin
  <2> HIDE DEF k
  <2>3. j \in Job /\ j.read = k
    <3>1. "purge" \in Ops /\ None \in Args
      BY DEF Ops, Args
    <3> QED
      BY <2>1, <3>1, RequestIsJob
  <2> HIDE DEF j
  <2>4. HandlerOK(stage, j, mine[w], users[u], users, fate, gone) /\ stage \in Stages
    BY <2>1, <2>3 DEF HandlerOK, PurgeStages, Stages
  <2>5. mine' = [mine EXCEPT ![w] = mine[w]]
    BY <2>2, Same DEF ImagesInv
  <2>6. ReportsShape'
    BY <1>1, <2>2 DEF ReportsShape
  <2> HIDE DEF stage
  <2> QED
    BY <2>2, <2>3, <2>4, <2>5, <2>6, QuietMoves
<1> QED
  BY <1>3, <1>4, <1>5

LEMMA SelectStep == ASSUME ImagesInv, NEW w \in Handlers, SaveSelect(w) PROVE ImagesInv'
<1> USE DEF tables, images, quiet
<1> DEFINE b == users[job[w].user]
<1>1. HandlerOK("select", job[w], mine[w], base[w], users, fate, gone) /\ job[w] \in Job
  BY JobOf DEF SaveSelect, ImagesInv, HandlersInv
<1>2. b \in User \cup {NoRow}
  BY <1>1 DEF ImagesInv, Shape, Job
<1>3. HandlerOK("write", job[w], mine[w], b, users, fate, gone)
  BY <1>1, <1>2 DEF HandlerOK, PurgeStages
<1>4. /\ pc' = [pc EXCEPT ![w] = "write"] /\ base' = [base EXCEPT ![w] = b]
      /\ pc[w] = "select" /\ UNCHANGED <<quiet, reports, job, mine>>
  BY DEF SaveSelect, Goto
<1>5. job' = [job EXCEPT ![w] = job[w]] /\ mine' = [mine EXCEPT ![w] = mine[w]]
  BY <1>4, Same DEF ImagesInv
<1>6. ReportsShape'
  BY <1>4 DEF ReportsShape, ImagesInv, Shape
<1> HIDE DEF b
<1> QED
  BY <1>1, <1>3, <1>4, <1>5, <1>6, QuietMoves DEF Stages

\* The rows of a purged user go, before the user.
LEMMA PurgeRowsStep ==
  ASSUME ImagesInv, NEW w \in Handlers,
         PurgeKept(w) \/ PurgeReports(w) \/ PurgeFindSettings(w) \/ PurgeSettings(w)
  PROVE  ImagesInv'
<1> USE DEF images, quiet
<1>1. pc[w] \in PurgeStages /\ UNCHANGED quiet
  BY DEF PurgeKept, PurgeReports, PurgeFindSettings, PurgeSettings, PurgeStages, tables
<1>2. ReportsShape'
  <2>1. reports = [x \in Users \X Snaps |-> reports[x]]
    BY DEF ImagesInv, Shape
  <2>2. DOMAIN reports = Users \X Snaps
    BY <2>1
  <2> QED
    BY <2>1, <2>2
    DEF PurgeKept, PurgeReports, PurgeFindSettings, PurgeSettings, tables, ReportsShape
<1>3. HandlerOK(pc[w], job[w], mine[w], base[w], users, fate, gone)
      /\ job[w] \in Job /\ pc[w] # "replace"
  BY <1>1, JobOf DEF ImagesInv, HandlersInv, PurgeStages
<1>4. ASSUME NEW stage \in PurgeStages, pc' = [pc EXCEPT ![w] = stage], UNCHANGED <<job, base>>,
             mine' = mine \/ \E m : mine' = [mine EXCEPT ![w] = m]
      PROVE  ImagesInv'
  <2>1. PICK m : mine' = [mine EXCEPT ![w] = m]
    BY <1>4, Same DEF ImagesInv
  <2>2. job' = [job EXCEPT ![w] = job[w]] /\ base' = [base EXCEPT ![w] = base[w]]
    BY <1>4, Same DEF ImagesInv
  <2>3. HandlerOK(stage, job[w], m, base[w], users, fate, gone)
    BY <1>1, <1>3 DEF HandlerOK, PurgeStages
  <2>4. stage \in Stages
    BY DEF PurgeStages, Stages
  <2> QED
    BY <1>1, <1>2, <1>3, <1>4, <2>1, <2>2, <2>3, <2>4, QuietMoves
<1>5. CASE PurgeKept(w)
  BY <1>4, <1>5 DEF PurgeKept, Goto, PurgeStages
<1>6. CASE PurgeReports(w)
  BY <1>4, <1>6 DEF PurgeReports, Goto, PurgeStages
<1>7. CASE PurgeFindSettings(w)
  BY <1>4, <1>7 DEF PurgeFindSettings, Goto, Hold, PurgeStages
<1>8. CASE PurgeSettings(w)
  BY <1>1, <1>2, <1>3, <1>4, <1>8, QuietEnd DEF PurgeSettings, Goto, PurgeStages
<1> QED
  BY <1>5, <1>6, <1>7, <1>8

-------------------------------------------------------------------------------
\* A row comes to name another image, or none.

\* Handler w makes r the row of user u.
LEMMA Renames ==
  ASSUME ImagesInv, NEW w \in Handlers, NEW u \in Users, NEW r \in User \cup {NoRow},
         ImageOf(r) \in Keys => KeyOwner[ImageOf(r)] = u,
         users' = [users EXCEPT ![u] = r],
         fate' = Renamed(w, ImageOf(users[u]), ImageOf(r)),
         UNCHANGED <<gone, late>>
  PROVE  /\ Onward /\ RowsInv' /\ GoneInv'
         /\ users' \in [Users -> User \cup {NoRow}] /\ fate' \in [Keys -> SUBSET Fates]
         /\ ImageOf(users'[u]) = ImageOf(r)
         /\ \A k \in Keys :
              IF k = ImageOf(users[u]) /\ k # ImageOf(r)
              THEN k # job[w].read => "unread" \in fate'[k]
              ELSE "replaced" \in fate'[k] => "replaced" \in fate[k]
<1> DEFINE old == ImageOf(users[u])
           new == ImageOf(r)
<1>1. /\ users' \in [Users -> User \cup {NoRow}]
      /\ users'[u] = r /\ \A v \in Users \ {u} : users'[v] = users[v]
  BY DEF ImagesInv, Shape
<1>2. \A k \in Keys : fate'[k] =
        fate[k]
          \cup (IF k = old /\ k # new
                THEN {"replaced"} \cup (IF k = job[w].read THEN {} ELSE {"unread"})
                ELSE {})
          \cup (IF k = new /\ k # old /\ "replaced" \in fate[k] THEN {"restored"} ELSE {})
  BY DEF Renamed
<1>3. fate' \in [Keys -> SUBSET Fates]
  <2>1. \A k \in Keys : fate[k] \in SUBSET Fates
    BY DEF ImagesInv, Shape
  <2> QED
    BY <2>1 DEF Renamed, Fates
<1> HIDE DEF old, new
<1>4. \A k \in Keys : fate[k] \subseteq fate'[k]
  BY <1>2
<1>5. Onward
  <2>1. ASSUME NEW v \in Users, ImageOf(users[v]) \in Keys, ImageOf(users'[v]) # ImageOf(users[v])
        PROVE  "replaced" \in fate'[ImageOf(users[v])]
    <3>1. v = u
      BY <1>1, <2>1
    <3>2. old = ImageOf(users[v]) /\ old \in Keys /\ old # new
      BY <1>1, <2>1, <3>1 DEF old, new
    <3> QED
      BY <1>2, <3>2
  <2> QED
    BY <1>4, <2>1 DEF Onward
<1>6. RowsInv'
  <2>1. ASSUME NEW v \in Users, ImageOf(users'[v]) \in Keys
        PROVE  /\ KeyOwner[ImageOf(users'[v])] = v
               /\ "replaced" \in fate'[ImageOf(users'[v])]
                    => "restored" \in fate'[ImageOf(users'[v])]
    <3> DEFINE k == ImageOf(users'[v])
    <3>1. CASE v = u
      <4>1. k = new /\ KeyOwner[new] = u
        BY <1>1, <2>1, <3>1 DEF new
      <4>2. new = old => ("replaced" \in fate[new] => "restored" \in fate[new])
        BY <2>1, <4>1 DEF ImagesInv, RowsInv, old
      <4> HIDE DEF k
      <4> QED
        BY <1>2, <2>1, <3>1, <4>1, <4>2 DEF k
    <3>2. CASE v # u
      <4>1. k = ImageOf(users[v])
        BY <1>1, <3>2
      <4>2. KeyOwner[k] = v /\ ("replaced" \in fate[k] => "restored" \in fate[k])
        BY <2>1, <4>1 DEF ImagesInv, RowsInv
      <4>3. k # old
        BY <2>1, <3>2, <4>2 DEF ImagesInv, RowsInv, old
      <4> HIDE DEF k
      <4> QED
        BY <1>2, <2>1, <4>2, <4>3 DEF k
    <3> QED
      BY <3>1, <3>2
  <2> QED
    BY <2>1 DEF RowsInv
<1>7. GoneInv'
  BY <1>4 DEF ImagesInv, Shape, GoneInv
<1>8. ImageOf(users'[u]) = new
  BY <1>1 DEF new
<1>9. \A k \in Keys :
        IF k = old /\ k # new
        THEN k # job[w].read => "unread" \in fate'[k]
        ELSE "replaced" \in fate'[k] => "replaced" \in fate[k]
  BY <1>2
<1> QED
  BY <1>1, <1>3, <1>5, <1>6, <1>7, <1>8, <1>9 DEF old, new

\* A replaced image is accounted for after a step of w that renames u's image, if
\* it was before, or is when w is the one that replaced it.
LEMMA ReplacedKept ==
  ASSUME ImagesInv, Onward, NEW w \in Handlers, NEW u \in Users, UNCHANGED <<gone, late>>,
         pc[w] # "replace", NEW new, ImageOf(users'[u]) = new,
         \A v \in Users \ {u} : users'[v] = users[v],
         \A h \in Handlers \ {w} : pc'[h] = pc[h] /\ job'[h] = job[h],
         \A k \in Keys :
           IF k = ImageOf(users[u]) /\ k # new
           THEN k # job[w].read => "unread" \in fate'[k]
           ELSE "replaced" \in fate'[k] => "replaced" \in fate[k],
         \A k \in Keys : k = ImageOf(users[u]) /\ k # new /\ k = job[w].read =>
           k \in gone \/ (pc'[w] = "replace" /\ job'[w].read = k)
  PROVE  ReplacedImageDeleted'
<1>1. ASSUME NEW k \in Keys, "replaced" \in fate'[k]
      PROVE  \/ k \in gone' \cup late'
             \/ \E v \in Users : ImageOf(users'[v]) = k
             \/ \E h \in Handlers : pc'[h] = "replace" /\ job'[h].read = k
             \/ fate'[k] \cap {"unread", "failed"} # {}
  <2>1. CASE k = ImageOf(users[u]) /\ k # new
    BY <2>1
  <2>2. CASE ~(k = ImageOf(users[u]) /\ k # new)
    <3>1. "replaced" \in fate[k]
      BY <1>1, <2>2
    <3>2. \/ k \in gone \cup late
          \/ \E v \in Users : ImageOf(users[v]) = k
          \/ \E h \in Handlers : pc[h] = "replace" /\ job[h].read = k
          \/ fate[k] \cap {"unread", "failed"} # {}
      BY <3>1 DEF ImagesInv, ReplacedImageDeleted, Names_
    <3>3. CASE \E v \in Users : ImageOf(users[v]) = k
      BY <2>2, <3>3
    <3>4. CASE \E h \in Handlers : pc[h] = "replace" /\ job[h].read = k
      BY <3>4
    <3>5. CASE fate[k] \cap {"unread", "failed"} # {}
      BY <3>5 DEF Onward
    <3> QED
      BY <3>2, <3>3, <3>4, <3>5
  <2> QED
    BY <2>1, <2>2
<1> QED
  BY <1>1 DEF ReplacedImageDeleted, Names_

\* What save leaves in the row of handler w's user.
LEMMA SavedRow ==
  ASSUME ImagesInv, NEW w \in Handlers, pc[w] = "write",
         ~(base[w] = NoRow /\ users[job[w].user] # NoRow)
  PROVE  LET r == users[job[w].user]
         IN /\ Saved(w) \in User \cup {NoRow}
            /\ ImageOf(Saved(w)) \in {mine[w].image, ImageOf(r)}
            /\ ImageOf(base[w]) \notin {None, mine[w].image} /\ r # NoRow
                 => ImageOf(Saved(w)) = mine[w].image
<1> DEFINE r == users[job[w].user]
<1>1. HandlerOK("write", job[w], mine[w], base[w], users, fate, gone)
  BY DEF ImagesInv, HandlersInv
<1>2. mine[w] \in User /\ base[w] \in User \cup {NoRow}
  BY <1>1 DEF HandlerOK
<1>3. r \in User \cup {NoRow}
  BY <1>1 DEF HandlerOK, Job, ImagesInv, Shape
<1>4. CASE base[w] = NoRow
  <2>1. Saved(w) = mine[w]
    BY <1>4 DEF Saved
  <2> QED
    BY <1>2, <1>4, <2>1, AbsentAssumption DEF ImageOf
<1>5. CASE base[w] # NoRow /\ r = NoRow
  <2>1. Saved(w) = NoRow
    BY <1>5 DEF Saved
  <2> QED
    BY <1>5, <2>1
<1>6. CASE base[w] # NoRow /\ r # NoRow
  <2>1. Saved(w) = Updated(r, mine[w], base[w])
    BY <1>6 DEF Saved
  <2> HIDE DEF r
  <2>2. /\ Saved(w) \in User
        /\ Saved(w).image = IF mine[w].image = base[w].image THEN r.image ELSE mine[w].image
    BY <1>2, <1>3, <1>6, <2>1, UpdatedUser
  <2>3. ImageOf(Saved(w)) = Saved(w).image /\ ImageOf(r) = r.image /\ ImageOf(base[w]) = base[w].image
    BY <1>6, <2>2, AbsentAssumption DEF ImageOf
  <2> QED
    BY <2>2, <2>3 DEF r
<1> QED
  BY <1>4, <1>5, <1>6

LEMMA WriteStep == ASSUME ImagesInv, NEW w \in Handlers, SaveWrite(w) PROVE ImagesInv'
<1> DEFINE u == job[w].user
           r == Saved(w)
           old == ImageOf(users[u])
           new == ImageOf(r)
           read == job[w].read
<1>1. /\ pc[w] = "write" /\ ~(base[w] = NoRow /\ users[u] # NoRow)
      /\ users' = [users EXCEPT ![u] = r] /\ fate' = Renamed(w, old, new)
      /\ UNCHANGED <<gone, late, reports>>
  BY DEF SaveWrite
<1>2. /\ HandlerOK("write", job[w], mine[w], base[w], users, fate, gone)
      /\ job[w] \in Job /\ u \in Users /\ read \in Keys \cup {None}
  <2>1. job[w] \in Job
    BY <1>1, JobOf
  <2> QED
    BY <1>1, <2>1 DEF ImagesInv, HandlersInv, Job
<1>3. /\ r \in User \cup {NoRow} /\ new \in {mine[w].image, old}
      /\ ImageOf(base[w]) \notin {None, mine[w].image} /\ users[u] # NoRow => new = mine[w].image
  BY <1>1, SavedRow
<1>4. new \in Keys => KeyOwner[new] = u
  BY <1>2, <1>3, AbsentAssumption DEF HandlerOK, ImagesInv, RowsInv
<1>5. read \in Keys => job[w].op = "photo" /\ mine[w].image = job[w].arg
  BY <1>2, AbsentAssumption DEF HandlerOK
<1>6. old # None => users[u] # NoRow
  BY DEF ImageOf
<1> HIDE DEF r
<1>7. /\ Onward /\ RowsInv' /\ GoneInv'
      /\ users' \in [Users -> User \cup {NoRow}] /\ fate' \in [Keys -> SUBSET Fates]
      /\ ImageOf(users'[u]) = new
      /\ \A k \in Keys :
           IF k = old /\ k # new
           THEN k # read => "unread" \in fate'[k]
           ELSE "replaced" \in fate'[k] => "replaced" \in fate[k]
  BY <1>1, <1>2, <1>3, <1>4, Renames
<1>8. \A v \in Users \ {u} : users'[v] = users[v]
  BY <1>1 DEF ImagesInv, Shape
\* The image it read was replaced, by this step or before.
<1>9. ASSUME read \in Keys, read # job[w].arg PROVE "replaced" \in fate'[read]
  <2>1. CASE "replaced" \in fate[read]
    BY <1>7, <1>9, <2>1 DEF Onward
  <2>2. CASE "replaced" \notin fate[read]
    <3>1. old = read /\ ImageOf(base[w]) = read
      BY <1>2, <1>9, <2>2, AbsentAssumption DEF HandlerOK
    <3>2. new # read
      BY <1>3, <1>5, <1>6, <1>9, <3>1, AbsentAssumption
    <3> QED
      BY <1>2, <1>7, <1>9, <3>1, <3>2 DEF Onward
  <2> QED
    BY <2>1, <2>2
<1>10. ASSUME NEW k \in Keys, k = old, k # new, k = read PROVE job[w].op = "photo" /\ Supersedes(w)
  BY <1>3, <1>5, <1>10, AbsentAssumption DEF Supersedes
<1> HIDE DEF u, old, new
<1>11. CASE job[w].op = "photo" /\ Supersedes(w)
  <2>1. pc' = [pc EXCEPT ![w] = "replace"] /\ UNCHANGED <<job, mine, base>>
    BY <1>11 DEF SaveWrite, Goto
  <2>2. /\ pc' \in [Handlers -> Stages] /\ pc'[w] = "replace"
        /\ \A h \in Handlers \ {w} : pc'[h] = pc[h]
    BY <2>1 DEF ImagesInv, Shape, Stages
  <2>3. read \in Keys /\ read # job[w].arg
    BY <1>2, <1>11 DEF Supersedes
  <2>4. HandlerOK(pc'[w], job'[w], mine'[w], base'[w], users', fate', gone')
    BY <1>2, <1>9, <2>1, <2>2, <2>3 DEF HandlerOK, PurgeStages
  <2>5. HandlersInv'
    BY <1>7, <2>1, <2>2, <2>4, HandlersKept DEF ImagesInv
  <2>6. Shape'
    BY <1>1, <1>7, <2>1, <2>2 DEF ImagesInv, Shape
  <2>7. ReplacedImageDeleted'
    BY <1>1, <1>2, <1>7, <1>8, <2>1, <2>2, ReplacedKept DEF old
  <2> QED
    BY <1>7, <2>5, <2>6, <2>7 DEF ImagesInv
<1>12. CASE ~(job[w].op = "photo" /\ Supersedes(w))
  <2>1. End(w)
    BY <1>12 DEF SaveWrite
  <2>2. /\ HandlersInv'
        /\ pc' \in [Handlers -> Stages] /\ job' \in [Handlers -> Job \cup {None}]
        /\ mine' = [h \in Handlers |-> mine'[h]] /\ base' = [h \in Handlers |-> base'[h]]
        /\ \A h \in Handlers \ {w} : pc'[h] = pc[h] /\ job'[h] = job[h]
    BY <1>7, <2>1, EndKept DEF ImagesInv
  <2>3. Shape'
    BY <1>1, <1>7, <2>2 DEF ImagesInv, Shape
  <2>4. ReplacedImageDeleted'
    BY <1>1, <1>2, <1>7, <1>8, <1>10, <1>12, <2>2, ReplacedKept DEF old
  <2> QED
    BY <1>7, <2>2, <2>3, <2>4 DEF ImagesInv
<1> QED
  BY <1>11, <1>12

LEMMA RemoveUserStep ==
  ASSUME ImagesInv, NEW w \in Handlers, PurgeRemoveUser(w) PROVE ImagesInv'
<1> DEFINE u == job[w].user
           old == ImageOf(users[u])
<1>1. /\ pc[w] = "user" /\ users' = [users EXCEPT ![u] = NoRow]
      /\ fate' = Renamed(w, old, None) /\ End(w) /\ UNCHANGED <<gone, late, reports>>
  BY DEF PurgeRemoveUser
<1>2. /\ HandlerOK("user", job[w], mine[w], base[w], users, fate, gone)
      /\ job[w] \in Job /\ u \in Users
  <2>1. job[w] \in Job
    BY <1>1, JobOf
  <2> QED
    BY <1>1, <2>1 DEF ImagesInv, HandlersInv, Job
<1>3. ImageOf(NoRow) = None /\ None \notin Keys
  BY AbsentAssumption DEF ImageOf
<1>4. /\ Onward /\ RowsInv' /\ GoneInv'
      /\ users' \in [Users -> User \cup {NoRow}] /\ fate' \in [Keys -> SUBSET Fates]
      /\ ImageOf(users'[u]) = None
      /\ \A k \in Keys :
           IF k = old /\ k # None
           THEN k # job[w].read => "unread" \in fate'[k]
           ELSE "replaced" \in fate'[k] => "replaced" \in fate[k]
  BY <1>1, <1>2, <1>3, Renames
<1>5. \A v \in Users \ {u} : users'[v] = users[v]
  BY <1>1 DEF ImagesInv, Shape
<1>6. \A k \in Keys : k = job[w].read => k \in gone
  BY <1>2, <1>3 DEF HandlerOK, PurgeStages
<1> HIDE DEF u, old
<1>7. /\ HandlersInv'
      /\ pc' \in [Handlers -> Stages] /\ job' \in [Handlers -> Job \cup {None}]
      /\ mine' = [h \in Handlers |-> mine'[h]] /\ base' = [h \in Handlers |-> base'[h]]
      /\ \A h \in Handlers \ {w} : pc'[h] = pc[h] /\ job'[h] = job[h]
  BY <1>1, <1>4, EndKept DEF ImagesInv
<1>8. Shape'
  BY <1>1, <1>4, <1>7 DEF ImagesInv, Shape
<1>9. ReplacedImageDeleted'
  BY <1>1, <1>2, <1>4, <1>5, <1>6, <1>7, ReplacedKept DEF old
<1> QED
  BY <1>4, <1>7, <1>8, <1>9 DEF ImagesInv

-------------------------------------------------------------------------------
\* Images are deleted, or their deletion fails.

LEMMA FilesMove ==
  ASSUME ImagesInv, UNCHANGED users, NEW w \in Handlers,
         \A k \in Keys : fate[k] \subseteq fate'[k]
                         /\ ("replaced" \in fate'[k] => "replaced" \in fate[k]),
         gone \subseteq gone', gone \cup late \subseteq gone' \cup late',
         gone' \subseteq Keys, late' \subseteq Keys,
         \A k \in gone' \cup late' :
           k \in gone \cup late \/ fate'[k] \cap {"replaced", "purged"} # {},
         \A h \in Handlers \ {w} : pc'[h] = pc[h] /\ job'[h] = job[h],
         pc[w] = "replace" =>
           \/ job[w].read \in gone' \cup late'
           \/ "failed" \in fate'[job[w].read]
  PROVE  Onward /\ RowsInv' /\ GoneInv' /\ ReplacedImageDeleted'
<1>1. Onward
  BY DEF Onward
<1>2. RowsInv'
  BY DEF ImagesInv, RowsInv
<1>3. GoneInv'
  BY DEF ImagesInv, GoneInv, Shape
<1>4. ASSUME NEW k \in Keys, "replaced" \in fate'[k]
      PROVE  \/ k \in gone' \cup late'
             \/ \E v \in Users : ImageOf(users'[v]) = k
             \/ \E h \in Handlers : pc'[h] = "replace" /\ job'[h].read = k
             \/ fate'[k] \cap {"unread", "failed"} # {}
  <2>1. \/ k \in gone \cup late
        \/ \E v \in Users : ImageOf(users[v]) = k
        \/ \E h \in Handlers : pc[h] = "replace" /\ job[h].read = k
        \/ fate[k] \cap {"unread", "failed"} # {}
    BY <1>4 DEF ImagesInv, ReplacedImageDeleted, Names_
  <2>2. CASE \E h \in Handlers : pc[h] = "replace" /\ job[h].read = k
    BY <2>2
  <2>3. CASE fate[k] \cap {"unread", "failed"} # {}
    BY <2>3
  <2> QED
    BY <2>1, <2>2, <2>3
<1> QED
  BY <1>1, <1>2, <1>3, <1>4 DEF ReplacedImageDeleted, Names_

LEMMA PurgeImageStep == ASSUME ImagesInv, NEW w \in Handlers, PurgeImage(w) PROVE ImagesInv'
<1> DEFINE k == job[w].read
<1>1. HandlerOK("image", job[w], mine[w], base[w], users, fate, gone) /\ pc[w] = "image"
  BY DEF PurgeImage, ImagesInv, HandlersInv
<1>2. job[w] \in Job /\ k \in Keys
  BY <1>1 DEF HandlerOK
<1>3. /\ fate' = [fate EXCEPT ![k] = @ \cup {"purged"}] /\ UNCHANGED <<users, reports>>
      /\ gone' \subseteq gone \cup {k} /\ gone \subseteq gone'
      /\ late \subseteq late' /\ late' \subseteq late \cup {k}
  BY DEF PurgeImage, tables
<1>4. /\ fate' \in [Keys -> SUBSET Fates] /\ "purged" \in fate'[k]
      /\ \A x \in Keys : fate[x] \subseteq fate'[x]
                         /\ ("replaced" \in fate'[x] => "replaced" \in fate[x])
  BY <1>2, <1>3 DEF ImagesInv, Shape, Fates
<1>5. gone' \subseteq Keys /\ late' \subseteq Keys
  BY <1>2, <1>3 DEF ImagesInv, Shape
<1>6. CASE End(w)
  <2>1. Onward
    BY <1>3, <1>4 DEF Onward
  <2>2. /\ HandlersInv'
        /\ pc' \in [Handlers -> Stages] /\ job' \in [Handlers -> Job \cup {None}]
        /\ mine' = [h \in Handlers |-> mine'[h]] /\ base' = [h \in Handlers |-> base'[h]]
        /\ \A h \in Handlers \ {w} : pc'[h] = pc[h] /\ job'[h] = job[h]
    BY <1>6, <2>1, EndKept DEF ImagesInv
  <2>3. RowsInv' /\ GoneInv' /\ ReplacedImageDeleted'
    BY <1>1, <1>3, <1>4, <1>5, <2>2, FilesMove
  <2>4. Shape'
    BY <1>3, <1>4, <1>5, <2>2 DEF ImagesInv, Shape
  <2> QED
    BY <2>2, <2>3, <2>4 DEF ImagesInv
<1>7. CASE ~End(w)
  <2>1. /\ pc' = [pc EXCEPT ![w] = "seen"] /\ gone' = gone \cup {k}
        /\ UNCHANGED <<job, mine, base>>
    BY <1>7 DEF PurgeImage, Goto
  <2>2. /\ pc' \in [Handlers -> Stages] /\ pc'[w] = "seen"
        /\ \A h \in Handlers \ {w} : pc'[h] = pc[h]
    BY <2>1 DEF ImagesInv, Shape, Stages
  <2>3. Onward /\ RowsInv' /\ GoneInv' /\ ReplacedImageDeleted'
    BY <1>1, <1>3, <1>4, <1>5, <2>1, <2>2, FilesMove
  <2>4. HandlerOK(pc'[w], job'[w], mine'[w], base'[w], users', fate', gone')
    BY <1>2, <2>1, <2>2 DEF HandlerOK, PurgeStages
  <2>5. HandlersInv'
    BY <2>1, <2>2, <2>3, <2>4, HandlersKept DEF ImagesInv
  <2>6. Shape'
    BY <1>3, <1>4, <1>5, <2>1, <2>2 DEF ImagesInv, Shape
  <2> QED
    BY <2>3, <2>5, <2>6 DEF ImagesInv
<1> QED
  BY <1>6, <1>7

\* A request ends after the deletion of the previous image, or fails.
LEMMA EndStep ==
  ASSUME ImagesInv, NEW w \in Handlers, DeletePrevious(w) \/ Abort(w) PROVE ImagesInv'
<1> DEFINE k == job[w].read
<1>1. /\ End(w) /\ UNCHANGED <<users, reports>>
      /\ pc[w] = "replace" => k \in Keys /\ "replaced" \in fate[k]
  BY DEF DeletePrevious, Abort, tables, ImagesInv, HandlersInv, HandlerOK
<1>2. /\ fate' = fate \/ (pc[w] = "replace" /\ fate' = [fate EXCEPT ![k] = @ \cup {"failed"}])
      /\ gone' \subseteq gone \cup {k} /\ gone \subseteq gone'
      /\ late \subseteq late' /\ late' \subseteq late \cup {k}
      /\ pc[w] # "replace" => UNCHANGED <<gone, late>>
  BY DEF DeletePrevious, DeleteFile, Abort
<1> HIDE DEF k
<1>3. /\ fate' \in [Keys -> SUBSET Fates]
      /\ \A x \in Keys : fate[x] \subseteq fate'[x]
                         /\ ("replaced" \in fate'[x] => "replaced" \in fate[x])
  <2>1. CASE fate' = fate
    BY <2>1 DEF ImagesInv, Shape
  <2>2. CASE pc[w] = "replace" /\ fate' = [fate EXCEPT ![k] = @ \cup {"failed"}]
    BY <1>1, <2>2 DEF ImagesInv, Shape, Fates
  <2> QED
    BY <1>2, <2>1, <2>2
<1>4. gone' \subseteq Keys /\ late' \subseteq Keys
  BY <1>1, <1>2 DEF ImagesInv, Shape
<1>5. \A x \in gone' \cup late' :
        x \in gone \cup late \/ fate'[x] \cap {"replaced", "purged"} # {}
  BY <1>1, <1>2, <1>3
<1>6. pc[w] = "replace" => k \in gone' \cup late' \/ "failed" \in fate'[k]
  <2>1. CASE DeletePrevious(w)
    BY <1>1, <2>1 DEF DeletePrevious, DeleteFile, ImagesInv, Shape, k
  <2>2. CASE Abort(w)
    BY <1>1, <2>2 DEF Abort, ImagesInv, Shape, k
  <2> QED
    BY <2>1, <2>2
<1>7. Onward
  BY <1>1, <1>2, <1>3 DEF Onward
<1>8. /\ HandlersInv'
      /\ pc' \in [Handlers -> Stages] /\ job' \in [Handlers -> Job \cup {None}]
      /\ mine' = [h \in Handlers |-> mine'[h]] /\ base' = [h \in Handlers |-> base'[h]]
      /\ \A h \in Handlers \ {w} : pc'[h] = pc[h] /\ job'[h] = job[h]
  BY <1>1, <1>7, EndKept DEF ImagesInv
<1>9. RowsInv' /\ GoneInv' /\ ReplacedImageDeleted'
  BY <1>1, <1>2, <1>3, <1>4, <1>5, <1>6, <1>8, FilesMove DEF k
<1>10. Shape'
  BY <1>1, <1>3, <1>4, <1>8 DEF ImagesInv, Shape
<1> QED
  BY <1>8, <1>9, <1>10 DEF ImagesInv

LEMMA LateStep == ASSUME ImagesInv, NEW k \in Keys, LateDelete(k) PROVE ImagesInv'
<1>1. /\ k \in late /\ late' = late \ {k} /\ gone' = gone \cup {k}
      /\ UNCHANGED <<tables, local, fate>>
  BY DEF LateDelete
<1>2. Onward
  BY <1>1 DEF Onward, tables
<1>3. HandlersInv'
  <2>1. ASSUME NEW h \in Handlers
        PROVE  HandlerOK(pc[h], job[h], mine[h], base[h], users', fate', gone')
    BY <1>2, HandlerKept DEF ImagesInv, HandlersInv
  <2> QED
    BY <1>1, <2>1 DEF HandlersInv, local
<1>4. Shape'
  BY <1>1 DEF ImagesInv, Shape, tables, local
<1>5. RowsInv' /\ GoneInv' /\ ReplacedImageDeleted'
  BY <1>1 DEF ImagesInv, RowsInv, GoneInv, ReplacedImageDeleted, Names_, tables, local
<1> QED
  BY <1>3, <1>4, <1>5 DEF ImagesInv

LEMMA ImagesStep == ImagesInv /\ [Next]_vars => ImagesInv'
<1> SUFFICES ASSUME ImagesInv, [Next]_vars PROVE ImagesInv'
  OBVIOUS
<1>1. ASSUME UNCHANGED <<users, reports, gone, late, fate, local>> PROVE ImagesInv'
  BY <1>1 DEF local, ImagesInv, Shape, HandlersInv, RowsInv, GoneInv, ReplacedImageDeleted, Names_
<1>2. CASE UNCHANGED vars
  BY <1>1, <1>2 DEF vars, tables, images
<1>3. CASE \E u \in Users, s \in Snaps : RemoveBookmark(u, s)
  BY <1>1, <1>3 DEF RemoveBookmark, images
<1>4. ASSUME NEW w \in Handlers, Arrive(w) PROVE ImagesInv'
  BY <1>4, UserArrives, BesideStep DEF Arrive
<1>5. ASSUME NEW w \in Handlers, Continue(w) PROVE ImagesInv'
  BY <1>5, SelectStep, WriteStep, EndStep, PurgeImageStep, PurgeRowsStep, RemoveUserStep, BesideStep
  DEF Continue
<1> QED
  BY <1>2, <1>3, <1>4, <1>5, LateStep DEF Next

LEMMA ImagesInvHolds == Spec => []ImagesInv
BY ImagesInit, ImagesStep, PTL DEF Spec

\* However profile changes, photo changes and purges of users overlap, fail and
\* time out, an image that a profile names was not deleted, unless by a purge or
\* as one that was replaced and named again by a change with an older row.
THEOREM NamedImageExistsHolds == Spec => []NamedImageExists
<1>1. ImagesInv => NamedImageExists
  <2> SUFFICES ASSUME ImagesInv, NEW u \in Users, ImageOf(users[u]) \in gone
               PROVE  fate[ImageOf(users[u])] \cap {"restored", "purged"} # {}
    BY DEF NamedImageExists
  <2>1. fate[ImageOf(users[u])] \cap {"replaced", "purged"} # {}
    BY DEF ImagesInv, GoneInv
  <2>2. ImageOf(users[u]) \in Keys
    BY DEF ImagesInv, Shape
  <2> QED
    BY <2>1, <2>2 DEF ImagesInv, RowsInv
<1> QED
  BY <1>1, ImagesInvHolds, PTL

\* An image that a profile stopped naming is deleted, about to be, or in the log
\* of failures, unless the change that replaced it had not read it.
THEOREM ReplacedImageDeletedHolds == Spec => []ReplacedImageDeleted
BY ImagesInvHolds, PTL DEF ImagesInv

-------------------------------------------------------------------------------
\* What is settled stays: no request that begins later undoes a purge, or
\* overwrites a report.

\* A step of a handler is of no other; it comes to the save of a user from the
\* row or from the save's SELECT, and to that of a report alike.
LEMMA StepOf ==
  ASSUME Shape, NEW w \in Handlers, Arrive(w) \/ Continue(w)
  PROVE  /\ \A h \in Handlers \ {w} : pc'[h] = pc[h] /\ job'[h] = job[h]
         /\ pc'[w] \in {"select", "write"} =>
              \/ pc[w] = "select" /\ job'[w] = job[w]
              \/ users[job'[w].user] # NoRow
         /\ pc'[w] \in {"reportSelect", "reportWrite"} =>
              \/ pc[w] = "reportSelect" /\ job'[w] = job[w]
              \/ reports[<<job'[w].user, job'[w].snap>>] = None
<1> USE DEF Shape
<1>1. ASSUME NEW stage, NEW op, NEW u, NEW s, NEW x, NEW k, Begin(w, stage, Request(op, u, s, x, k)),
             stage \in {"select", "write"} => users[u] # NoRow,
             stage \in {"reportSelect", "reportWrite"} => reports[<<u, s>>] = None
      PROVE  /\ \A h \in Handlers \ {w} : pc'[h] = pc[h] /\ job'[h] = job[h]
             /\ pc'[w] \in {"select", "write"} => users[job'[w].user] # NoRow
             /\ pc'[w] \in {"reportSelect", "reportWrite"} =>
                  reports[<<job'[w].user, job'[w].snap>>] = None
  <2> DEFINE j == Request(op, u, s, x, k)
  <2>1. j.user = u /\ j.snap = s
    BY DEF Request
  <2>2. pc' = [pc EXCEPT ![w] = stage] /\ job' = [job EXCEPT ![w] = j]
    BY <1>1 DEF Begin
  <2> HIDE DEF j
  <2> QED
    BY <1>1, <2>1, <2>2
<1>2. ASSUME Arrive(w) PROVE
        \E stage, op, u, s, x, k :
          /\ Begin(w, stage, Request(op, u, s, x, k))
          /\ stage \in {"select", "write"} => users[u] # NoRow
          /\ stage \in {"reportSelect", "reportWrite"} => reports[<<u, s>>] = None
  <2> PICK u \in Users :
        \/ \E n \in Names : UpdateProfile(w, u, n)
        \/ \E k \in Keys : SetUserPhoto(w, u, k)
        \/ PurgeUser(w, u)
        \/ GetSettings(w, u)
        \/ \E d \in Distances : UpdateSettings(w, u, d)
        \/ \E s \in Snaps : AddBookmark(w, u, s) \/ AddSeen(w, u, s)
        \/ \E s \in Snaps, r \in Reasons : CreateReport(w, u, s, r)
    BY <1>2 DEF Arrive
  <2>1. CASE \E n \in Names : UpdateProfile(w, u, n)
    BY <2>1 DEF UpdateProfile
  <2>2. CASE \E k \in Keys : SetUserPhoto(w, u, k)
    BY <2>2 DEF SetUserPhoto
  <2>3. CASE PurgeUser(w, u)
    BY <2>3 DEF PurgeUser
  <2>4. CASE GetSettings(w, u)
    BY <2>4 DEF GetSettings
  <2>5. CASE \E d \in Distances : UpdateSettings(w, u, d)
    BY <2>5 DEF UpdateSettings
  <2>6. CASE \E s \in Snaps : AddBookmark(w, u, s) \/ AddSeen(w, u, s)
    BY <2>6 DEF AddBookmark, AddSeen
  <2>7. CASE \E s \in Snaps, r \in Reasons : CreateReport(w, u, s, r)
    BY <2>7 DEF CreateReport
  <2> QED
    BY <2>1, <2>2, <2>3, <2>4, <2>5, <2>6, <2>7
<1>3. CASE Arrive(w)
  BY <1>1, <1>2, <1>3
<1>4. CASE SaveSelect(w)
  BY <1>4 DEF SaveSelect, Goto
<1>5. CASE ReportSelect(w)
  BY <1>5 DEF ReportSelect, Goto
<1>6. ASSUME NEW stage, stage \notin {"select", "write", "reportSelect", "reportWrite"},
             pc' = [pc EXCEPT ![w] = stage],
             job' = job \/ job' = [job EXCEPT ![w] = None]
      PROVE  /\ \A h \in Handlers \ {w} : pc'[h] = pc[h] /\ job'[h] = job[h]
             /\ pc'[w] \notin {"select", "write", "reportSelect", "reportWrite"}
  BY <1>6
<1>7. CASE End(w)
  BY <1>6, <1>7 DEF End
<1>8. CASE SaveWrite(w) \/ DeletePrevious(w) \/ Abort(w) \/ PurgeRemoveUser(w)
  BY <1>6, <1>7, <1>8 DEF SaveWrite, DeletePrevious, Abort, PurgeRemoveUser, Goto
<1>9. CASE PurgeImage(w) \/ PurgeKept(w) \/ PurgeReports(w) \/ PurgeFindSettings(w) \/ PurgeSettings(w)
  BY <1>6, <1>7, <1>9
  DEF PurgeImage, PurgeKept, PurgeReports, PurgeFindSettings, PurgeSettings, Goto
<1>10. CASE CreateSettings(w) \/ InsertSettings(w) \/ LoadSettings(w) \/ StoreSettings(w)
  BY <1>6, <1>7, <1>10 DEF CreateSettings, InsertSettings, LoadSettings, StoreSettings, Goto
<1>11. CASE KeepSelect(w) \/ KeepInsert(w) \/ ReportWrite(w)
  BY <1>6, <1>7, <1>11 DEF KeepSelect, KeepInsert, ReportWrite, Goto
<1> QED
  BY <1>3, <1>4, <1>5, <1>8, <1>9, <1>10, <1>11 DEF Continue

LEMMA PurgedStays ==
  ASSUME ImagesInv, [Next]_vars, NEW u \in Users, Purged(u) PROVE Purged(u)'
<1> USE DEF Purged
<1>1. ASSUME UNCHANGED <<users, local>> PROVE Purged(u)'
  BY <1>1 DEF local
<1>2. CASE UNCHANGED vars \/ (\E k \in Keys : LateDelete(k))
           \/ \E v \in Users, s \in Snaps : RemoveBookmark(v, s)
  BY <1>1, <1>2 DEF vars, tables, LateDelete, RemoveBookmark
<1>3. ASSUME NEW w \in Handlers, Arrive(w) \/ Continue(w) PROVE Purged(u)'
  <2>1. users'[u] = NoRow
    <3>1. CASE SaveWrite(w)
      <4>1. job[w].user # u /\ users' = [users EXCEPT ![job[w].user] = Saved(w)]
        BY <3>1 DEF SaveWrite
      <4> QED
        BY <4>1 DEF ImagesInv, Shape
    <3>2. CASE PurgeRemoveUser(w)
      BY <3>2 DEF PurgeRemoveUser, ImagesInv, Shape
    <3>3. CASE ~SaveWrite(w) /\ ~PurgeRemoveUser(w)
      <4>1. CASE Arrive(w)
        BY <4>1 DEF Arrive, UpdateProfile, SetUserPhoto, PurgeUser, GetSettings, UpdateSettings,
           AddBookmark, AddSeen, CreateReport, tables
      <4>2. CASE Continue(w)
        BY <3>3, <4>2 DEF Continue, SaveSelect, DeletePrevious, PurgeImage, PurgeKept, PurgeReports,
           PurgeFindSettings, PurgeSettings, CreateSettings, InsertSettings, LoadSettings,
           StoreSettings, KeepSelect, KeepInsert, ReportSelect, ReportWrite, Abort, tables
      <4> QED
        BY <1>3, <4>1, <4>2
    <3> QED
      BY <3>1, <3>2, <3>3
  <2>2. ASSUME NEW h \in Handlers, pc'[h] \in {"select", "write"} PROVE job'[h].user # u
    BY <1>3, <2>2, StepOf DEF ImagesInv
  <2> QED
    BY <2>1, <2>2
<1> QED
  BY <1>2, <1>3 DEF Next

\* A purged user stays purged once the saves in flight have ended, whatever
\* begins later.
THEOREM SettledPurgeIsFinalHolds == Spec => SettledPurgeIsFinal
<1>1. ImagesInv /\ [Next]_vars => [\A u \in Users : Purged(u) => Purged(u)']_vars
  BY PurgedStays
<1> QED
  BY <1>1, ImagesInvHolds, PTL DEF Spec, SettledPurgeIsFinal

LEMMA ReportStays ==
  ASSUME ImagesInv, [Next]_vars, NEW x \in Users \X Snaps, Reported(x)
  PROVE  \/ reports'[x] = reports[x] /\ Reported(x)'
         \/ /\ reports'[x] = None
            /\ \E h \in Handlers : pc[h] = "reports" /\ job[h].user = x[1]
<1> USE DEF Reported
<1>1. ASSUME UNCHANGED <<reports, local>> PROVE reports'[x] = reports[x] /\ Reported(x)'
  BY <1>1 DEF local
<1>2. CASE UNCHANGED vars \/ (\E k \in Keys : LateDelete(k))
           \/ \E v \in Users, s \in Snaps : RemoveBookmark(v, s)
  BY <1>1, <1>2 DEF vars, tables, LateDelete, RemoveBookmark
<1>3. ASSUME NEW w \in Handlers, PurgeReports(w), job[w].user = x[1]
      PROVE  reports'[x] = None /\ pc[w] = "reports"
  <2>1. DOMAIN reports = Users \X Snaps
    BY DEF ImagesInv, Shape
  <2> QED
    BY <1>3, <2>1 DEF PurgeReports
<1>4. ASSUME NEW w \in Handlers, Arrive(w) \/ Continue(w), ~(PurgeReports(w) /\ job[w].user = x[1])
      PROVE  reports'[x] = reports[x] /\ Reported(x)'
  <2>1. reports'[x] = reports[x]
    <3>1. reports = [y \in Users \X Snaps |-> reports[y]]
      BY DEF ImagesInv, Shape
    <3>2. DOMAIN reports = Users \X Snaps
      BY <3>1
    <3>3. CASE PurgeReports(w)
      BY <1>4, <3>2, <3>3 DEF PurgeReports
    <3>4. CASE ReportWrite(w)
      <4>1. pc[w] = "reportWrite" /\ <<job[w].user, job[w].snap>> # x
        BY <3>4 DEF ReportWrite
      <4> QED
        BY <3>2, <3>4, <4>1 DEF ReportWrite
    <3>5. CASE ~PurgeReports(w) /\ ~ReportWrite(w)
      <4>1. CASE Arrive(w)
        BY <4>1 DEF Arrive, UpdateProfile, SetUserPhoto, PurgeUser, GetSettings, UpdateSettings,
           AddBookmark, AddSeen, CreateReport, tables
      <4>2. CASE Continue(w)
        BY <3>5, <4>2 DEF Continue, SaveSelect, SaveWrite, DeletePrevious, PurgeImage, PurgeKept,
           PurgeFindSettings, PurgeSettings, PurgeRemoveUser, CreateSettings, InsertSettings,
           LoadSettings, StoreSettings, KeepSelect, KeepInsert, ReportSelect, Abort, tables
      <4> QED
        BY <1>4, <4>1, <4>2
    <3> QED
      BY <3>3, <3>4, <3>5
  <2>2. ASSUME NEW h \in Handlers, pc'[h] \in {"reportSelect", "reportWrite"}
        PROVE  <<job'[h].user, job'[h].snap>> # x
    <3>1. /\ \A g \in Handlers \ {w} : pc'[g] = pc[g] /\ job'[g] = job[g]
          /\ pc'[w] \in {"reportSelect", "reportWrite"} =>
               \/ pc[w] = "reportSelect" /\ job'[w] = job[w]
               \/ reports[<<job'[w].user, job'[w].snap>>] = None
      BY <1>4, StepOf DEF ImagesInv
    <3>2. CASE h # w
      BY <2>2, <3>1, <3>2
    <3>3. CASE h = w /\ pc[w] = "reportSelect" /\ job'[w] = job[w]
      BY <3>3
    <3>4. CASE h = w /\ reports[<<job'[w].user, job'[w].snap>>] = None
      BY <3>4
    <3> QED
      BY <2>2, <3>1, <3>2, <3>3, <3>4
  <2> QED
    BY <2>1, <2>2
<1> QED
  BY <1>2, <1>3, <1>4 DEF Next

\* A report that was settled is never overwritten; only a purge of its user
\* removes it.
THEOREM SettledReportStandsHolds == Spec => SettledReportStands
<1>1. ImagesInv /\ [Next]_vars =>
        [\A x \in Users \X Snaps :
           Reported(x) =>
             \/ reports'[x] = reports[x] /\ Reported(x)'
             \/ /\ reports'[x] = None
                /\ \E h \in Handlers : pc[h] = "reports" /\ job[h].user = x[1]]_vars
  BY ReportStays
<1> QED
  BY <1>1, ImagesInvHolds, PTL DEF Spec, SettledReportStands
-------------------------------------------------------------------------------
\* Type correctness: the rows beside the users, and what their handlers hold.

Bases == User \cup Settings \cup Reasons \cup {NoRow, None}

RecordOK(stage, j, m, b) ==
  /\ stage \in {"idle", "owner"} => m = NoRow
  /\ stage \in {"owner", "insert"} =>
       j.op = "settings" \/ (j.op = "update" /\ j.arg \in Distances)
  /\ stage \in {"insert", "load", "store"} => m \in Settings
  /\ stage \in {"load", "store"} => j.op = "update" /\ m.distance = j.arg
  /\ stage = "store" => b \in Settings \cup {NoRow} /\ (b # NoRow => b.id = m.id)
  /\ stage \in {"keepSelect", "keepInsert"} => j.op \in {"bookmark", "seen"} /\ j.snap \in Snaps
  /\ stage \in {"reportSelect", "reportWrite"} => j.snap \in Snaps /\ j.arg \in Reasons

RowsTyped ==
  /\ settings \in [Users -> Settings \cup {NoRow}]
  /\ kept \subseteq {"bookmark", "seen"} \X Users \X Snaps
  /\ reports \in [Users \X Snaps -> Reasons \cup {None}]
  /\ workload \in Workloads
  /\ agreed \in [Users -> Agreed]

RecordsInv ==
  /\ RowsTyped
  /\ mine \in [Handlers -> User \cup Settings \cup {NoRow}]
  /\ base \in [Handlers -> Bases]
  /\ \A h \in Handlers : RecordOK(pc[h], job[h], mine[h], base[h])

LEMMA NothingIsAgreed == NothingAsked \in Agreed
BY DEF NothingAsked, Agreed

LEMMA RecordsInit == Init => RecordsInv
<1> SUFFICES ASSUME Init PROVE RecordsInv
  OBVIOUS
<1>1. RowsTyped
  BY DEF Init, RowsTyped, Agreed, NothingAsked
<1>2. \A h \in Handlers : pc[h] = "idle" /\ mine[h] = NoRow
  BY DEF Init
<1>3. \A h \in Handlers : RecordOK(pc[h], job[h], mine[h], base[h])
  BY <1>2 DEF RecordOK
<1> QED
  BY <1>1, <1>3 DEF Init, RecordsInv, Bases

\* A step of handler w that leaves it at a stage with what it holds there.
LEMMA RecordsMove ==
  ASSUME Shape, RecordsInv, RowsTyped', NEW w \in Handlers, NEW stage, NEW j, NEW m, NEW b,
         m \in User \cup Settings \cup {NoRow}, b \in Bases, RecordOK(stage, j, m, b),
         pc' = [pc EXCEPT ![w] = stage], job' = [job EXCEPT ![w] = j],
         mine' = [mine EXCEPT ![w] = m], base' = [base EXCEPT ![w] = b]
  PROVE  RecordsInv'
<1>1. /\ pc'[w] = stage /\ job'[w] = j /\ mine'[w] = m /\ base'[w] = b
      /\ \A h \in Handlers \ {w} :
           pc'[h] = pc[h] /\ job'[h] = job[h] /\ mine'[h] = mine[h] /\ base'[h] = base[h]
  BY DEF Shape, RecordsInv
<1>2. \A h \in Handlers : RecordOK(pc'[h], job'[h], mine'[h], base'[h])
  BY <1>1 DEF RecordsInv
<1>3. mine' \in [Handlers -> User \cup Settings \cup {NoRow}] /\ base' \in [Handlers -> Bases]
  BY DEF RecordsInv
<1> QED
  BY <1>2, <1>3 DEF RecordsInv

\* A handler that holds nothing new: with a new request, or with the same.
LEMMA RecordsBegin ==
  ASSUME Shape, RecordsInv, RowsTyped', NEW w \in Handlers, NEW stage, NEW j,
         UNCHANGED <<mine, base>>, RecordOK(stage, j, mine[w], base[w]),
         pc' = [pc EXCEPT ![w] = stage], job' = [job EXCEPT ![w] = j]
  PROVE  RecordsInv'
<1>1. /\ pc'[w] = stage /\ job'[w] = j
      /\ \A h \in Handlers \ {w} : pc'[h] = pc[h] /\ job'[h] = job[h]
  BY DEF Shape
<1>2. \A h \in Handlers : RecordOK(pc'[h], job'[h], mine'[h], base'[h])
  BY <1>1 DEF RecordsInv
<1> QED
  BY <1>2 DEF RecordsInv

LEMMA RecordsKeep ==
  ASSUME Shape, RecordsInv, RowsTyped', NEW w \in Handlers, NEW stage,
         UNCHANGED <<job, mine, base>>, RecordOK(stage, job[w], mine[w], base[w]),
         pc' = [pc EXCEPT ![w] = stage]
  PROVE  RecordsInv'
<1>1. pc'[w] = stage /\ \A h \in Handlers \ {w} : pc'[h] = pc[h]
  BY DEF Shape
<1>2. \A h \in Handlers : RecordOK(pc'[h], job'[h], mine'[h], base'[h])
  BY <1>1 DEF RecordsInv
<1> QED
  BY <1>2 DEF RecordsInv

LEMMA RecordsEnd ==
  ASSUME Shape, RecordsInv, RowsTyped', NEW w \in Handlers, End(w) PROVE RecordsInv'
<1>1. RecordOK("idle", None, NoRow, NoRow)
  BY DEF RecordOK
<1> QED
  BY <1>1, RecordsMove DEF End, Bases

\* A handler at a stage of a profile, photo or purge request.
LEMMA RecordsElse ==
  ASSUME Shape, RecordsInv, RowsTyped', NEW w \in Handlers, NEW stage,
         stage \notin Beside \cup {"idle"}, pc' = [pc EXCEPT ![w] = stage],
         job' = job \/ \E j : job' = [job EXCEPT ![w] = j],
         mine' = mine \/ \E m \in User \cup Settings \cup {NoRow} : mine' = [mine EXCEPT ![w] = m],
         base' = base \/ \E b \in Bases : base' = [base EXCEPT ![w] = b]
  PROVE  RecordsInv'
<1>1. PICK j : job' = [job EXCEPT ![w] = j]
  BY Same
<1>2. PICK m \in User \cup Settings \cup {NoRow} : mine' = [mine EXCEPT ![w] = m]
  BY Same DEF RecordsInv
<1>3. PICK b \in Bases : base' = [base EXCEPT ![w] = b]
  BY Same DEF RecordsInv
<1>4. RecordOK(stage, j, m, b)
  BY DEF RecordOK, Beside
<1> QED
  BY <1>1, <1>2, <1>3, <1>4, RecordsMove

LEMMA RequestOf ==
  ASSUME NEW op, NEW u, NEW s, NEW x, NEW k
  PROVE  /\ Request(op, u, s, x, k).op = op /\ Request(op, u, s, x, k).user = u
         /\ Request(op, u, s, x, k).snap = s /\ Request(op, u, s, x, k).arg = x
BY DEF Request

LEMMA RecordsArrive ==
  ASSUME ImagesInv, RecordsInv, NEW w \in Handlers, Arrive(w) PROVE RecordsInv'
<1>1. Shape /\ \A u \in Users : users[u] \in User \cup {NoRow}
  BY DEF ImagesInv, Shape
<1>2. mine[w] = NoRow \/ pc[w] # "idle"
  BY DEF RecordsInv, RecordOK
<1>3. PICK u \in Users :
        \/ \E n \in Names : UpdateProfile(w, u, n)
        \/ \E k \in Keys : SetUserPhoto(w, u, k)
        \/ PurgeUser(w, u)
        \/ GetSettings(w, u)
        \/ \E d \in Distances : UpdateSettings(w, u, d)
        \/ \E s \in Snaps : AddBookmark(w, u, s) \/ AddSeen(w, u, s)
        \/ \E s \in Snaps, r \in Reasons : CreateReport(w, u, s, r)
  BY DEF Arrive
<1>4. UNCHANGED <<tables, agreed, workload>>
  BY <1>3 DEF UpdateProfile, SetUserPhoto, PurgeUser, GetSettings, UpdateSettings, AddBookmark,
     AddSeen, CreateReport, Begin
<1>5. RowsTyped'
  BY <1>4 DEF RecordsInv, RowsTyped, tables
<1>6. CASE \E n \in Names : UpdateProfile(w, u, n)
  <2>1. PICK n \in Names : UpdateProfile(w, u, n)
    BY <1>6
  <2>2. users[u] \in User
    BY <1>1, <2>1 DEF UpdateProfile
  <2>3. [users[u] EXCEPT !.name = n] \in User
    BY <2>2 DEF User
  <2> QED
    BY <1>1, <1>5, <2>1, <2>3, RecordsElse DEF UpdateProfile, Begin, Hold, Beside
<1>7. CASE \E k \in Keys : SetUserPhoto(w, u, k)
  <2>1. PICK k \in Keys : SetUserPhoto(w, u, k)
    BY <1>7
  <2>2. users[u] \in User
    BY <1>1, <2>1 DEF SetUserPhoto
  <2>3. [users[u] EXCEPT !.image = k] \in User
    BY <2>2 DEF User
  <2> QED
    BY <1>1, <1>5, <2>1, <2>3, RecordsElse DEF SetUserPhoto, Begin, Hold, Beside
<1>8. CASE PurgeUser(w, u)
  <2>1. PICK stage \in {"seen", "image"} :
          pc' = [pc EXCEPT ![w] = stage] /\ \E j : job' = [job EXCEPT ![w] = j]
    BY <1>8 DEF PurgeUser, Begin
  <2>2. mine' = mine /\ base' = [base EXCEPT ![w] = users[u]]
    BY <1>8 DEF PurgeUser
  <2> QED
    BY <1>1, <1>5, <2>1, <2>2, RecordsElse DEF Bases, Beside
<1> DEFINE j == job'[w]
<1>9. job' = [job EXCEPT ![w] = j] /\ mine = [mine EXCEPT ![w] = mine[w]]
        /\ base = [base EXCEPT ![w] = base[w]]
        /\ mine[w] \in User \cup Settings \cup {NoRow} /\ base[w] \in Bases
  <2>1. \E x : job' = [job EXCEPT ![w] = x]
    BY <1>3 DEF UpdateProfile, SetUserPhoto, PurgeUser, GetSettings, UpdateSettings, AddBookmark,
       AddSeen, CreateReport, Begin
  <2> QED
    BY <1>1, <2>1, Same DEF Shape, RecordsInv
<1>10. CASE GetSettings(w, u)
  <2>1. /\ pc' = [pc EXCEPT ![w] = "owner"] /\ pc[w] = "idle" /\ UNCHANGED <<mine, base>>
        /\ j = Request("settings", u, None, DefaultDistance, None)
    BY <1>1, <1>10 DEF GetSettings, Begin, Shape
  <2> HIDE DEF j
  <2>2. RecordOK("owner", j, mine[w], base[w])
    BY <1>2, <2>1, RequestOf DEF RecordOK
  <2>3. job' = [job EXCEPT ![w] = j]
    BY <1>9
  <2> QED
    BY <1>1, <1>5, <2>1, <2>2, <2>3, RecordsBegin
<1>11. CASE \E d \in Distances : UpdateSettings(w, u, d)
  <2>1. PICK d \in Distances : UpdateSettings(w, u, d)
    BY <1>11
  <2>2. pc[w] = "idle" /\ base' = base /\ j = Request("update", u, None, d, None)
    BY <1>1, <2>1 DEF UpdateSettings, Begin, Shape
  <2> HIDE DEF j
  <2>3. j.op = "update" /\ j.arg = d
    BY <2>2, RequestOf
  <2>4. CASE settings[u] = NoRow
    <3>1. pc' = [pc EXCEPT ![w] = "owner"] /\ mine' = mine
      BY <2>1, <2>4 DEF UpdateSettings, Begin
    <3>2. RecordOK("owner", j, mine[w], base[w])
      BY <1>2, <2>2, <2>3 DEF RecordOK
    <3>3. job' = [job EXCEPT ![w] = j]
      BY <1>9
    <3> QED
      BY <1>1, <1>5, <2>2, <3>1, <3>2, <3>3, RecordsBegin
  <2>5. CASE settings[u] # NoRow
    <3> DEFINE m == [settings[u] EXCEPT !.distance = d]
    <3>1. pc' = [pc EXCEPT ![w] = "load"] /\ mine' = [mine EXCEPT ![w] = m]
      BY <2>1, <2>5 DEF UpdateSettings, Begin, Hold
    <3>2. settings[u] \in Settings
      BY <2>5 DEF RecordsInv, RowsTyped
    <3>3. m \in Settings /\ m.distance = d
      BY <3>2 DEF Settings
    <3> HIDE DEF m
    <3>4. RecordOK("load", j, m, base[w])
      BY <2>3, <3>3 DEF RecordOK
    <3> QED
      BY <1>1, <1>5, <1>9, <2>2, <3>1, <3>3, <3>4, RecordsMove
  <2> QED
    BY <2>4, <2>5
<1>12. ASSUME NEW s \in Snaps, AddBookmark(w, u, s) \/ AddSeen(w, u, s) PROVE RecordsInv'
  <2>1. /\ pc' = [pc EXCEPT ![w] = "keepSelect"] /\ UNCHANGED <<mine, base>>
        /\ j = Request("bookmark", u, s, None, None) \/ j = Request("seen", u, s, None, None)
    BY <1>1, <1>12 DEF AddBookmark, AddSeen, Begin, Shape
  <2> HIDE DEF j
  <2>2. RecordOK("keepSelect", j, mine[w], base[w])
    BY <2>1, RequestOf DEF RecordOK
  <2> QED
    BY <1>1, <1>5, <1>9, <2>1, <2>2, RecordsMove
<1>13. ASSUME NEW s \in Snaps, NEW r \in Reasons, CreateReport(w, u, s, r) PROVE RecordsInv'
  <2>1. /\ pc' = [pc EXCEPT ![w] = "reportSelect"] /\ UNCHANGED <<mine, base>>
        /\ j = Request("report", u, s, r, None)
    BY <1>1, <1>13 DEF CreateReport, Begin, Shape
  <2> HIDE DEF j
  <2>2. RecordOK("reportSelect", j, mine[w], base[w])
    BY <2>1, RequestOf DEF RecordOK
  <2> QED
    BY <1>1, <1>5, <1>9, <2>1, <2>2, RecordsMove
<1> QED
  BY <1>3, <1>6, <1>7, <1>8, <1>10, <1>11, <1>12, <1>13

LEMMA UpdatedSettings ==
  ASSUME NEW r \in Settings, NEW e \in Settings, NEW b \in Settings
  PROVE  /\ Updated(r, e, b) \in Settings
         /\ Updated(r, e, b).id = IF e.id = b.id THEN r.id ELSE e.id
         /\ Updated(r, e, b).distance = IF e.distance = b.distance THEN r.distance ELSE e.distance
<1>1. DOMAIN r = {"id", "distance"}
  BY DEF Settings
<1>2. Updated(r, e, b) =
        [id       |-> IF e.id = b.id THEN r.id ELSE e.id,
         distance |-> IF e.distance = b.distance THEN r.distance ELSE e.distance]
  BY <1>1 DEF Updated
<1>3. r.id \in Ids /\ e.id \in Ids /\ r.distance \in Distances /\ e.distance \in Distances
  BY DEF Settings
<1> QED
  BY <1>2, <1>3 DEF Settings

\* What a handler of settings stores: the row that its user has or had, with the
\* distance that was asked for in the columns that differ.
LEMMA Stored ==
  ASSUME ImagesInv, RecordsInv, NEW w \in Handlers, StoreSettings(w)
  PROVE  LET u == job[w].user
             r == settings[u]
         IN /\ u \in Users /\ pc[w] = "store" /\ End(w)
            /\ mine[w] \in Settings /\ mine[w].distance = job[w].arg /\ job[w].arg \in Distances
            /\ base[w] \in Settings \cup {NoRow} /\ (base[w] # NoRow => base[w].id = mine[w].id)
            /\ \A v \in Users \ {u} : settings'[v] = settings[v] /\ agreed'[v] = agreed[v]
            /\ \/ /\ base[w] = NoRow /\ r = NoRow
                  /\ settings'[u] = mine[w] /\ agreed'[u] = Asked(w)
               \/ /\ base[w] # NoRow /\ r # NoRow /\ r.id = mine[w].id
                  /\ settings'[u] = Updated(r, mine[w], base[w])
                  /\ settings'[u] \in Settings /\ settings'[u].id = mine[w].id
                  /\ agreed'[u] = Asked(w)
               \/ settings'[u] = r /\ agreed'[u] = agreed[u]
            /\ Asked(w) \in Agreed /\ agreed[u] \in Agreed
            /\ settings' = [settings EXCEPT ![u] = settings'[u]]
            /\ agreed' = [agreed EXCEPT ![u] = agreed'[u]]
<1> DEFINE u == job[w].user
           r == settings[u]
<1>1. pc[w] = "store" /\ u \in Users /\ End(w) /\ r \in Settings \cup {NoRow}
  BY JobOf DEF StoreSettings, Job, RecordsInv, RowsTyped
<1>2. /\ mine[w] \in Settings /\ mine[w].distance = job[w].arg /\ job[w].arg \in Distances
      /\ base[w] \in Settings \cup {NoRow} /\ (base[w] # NoRow => base[w].id = mine[w].id)
  BY <1>1 DEF RecordsInv, RecordOK, Settings
<1>3. NoRow \notin Settings
  BY AbsentAssumption
<1>4. \E x, y : settings' = [settings EXCEPT ![u] = x] /\ agreed' = [agreed EXCEPT ![u] = y]
  BY DEF StoreSettings
<1>5. /\ settings' = [settings EXCEPT ![u] = settings'[u]]
      /\ agreed' = [agreed EXCEPT ![u] = agreed'[u]]
      /\ \A v \in Users \ {u} : settings'[v] = settings[v] /\ agreed'[v] = agreed[v]
  BY <1>1, <1>4 DEF RecordsInv, RowsTyped
<1>6. agreed'[u] = IF settings'[u] # NoRow /\ settings'[u].id = mine[w].id
                   THEN Asked(w) ELSE agreed[u]
  BY <1>1 DEF StoreSettings, RecordsInv, RowsTyped
<1>10. Asked(w) \in Agreed /\ agreed[u] \in Agreed
  BY <1>1, <1>2 DEF Asked, Agreed, RecordsInv, RowsTyped
<1>7. CASE base[w] = NoRow
  <2>1. r = NoRow /\ settings'[u] = mine[w]
    BY <1>1, <1>7 DEF StoreSettings, Insertable, RecordsInv, RowsTyped
  <2> QED
    BY <1>1, <1>2, <1>3, <1>5, <1>6, <1>7, <1>10, <2>1
<1>8. CASE base[w] # NoRow /\ r # NoRow /\ r.id = mine[w].id
  <2>1. settings'[u] = Updated(r, mine[w], base[w])
    BY <1>1, <1>8 DEF StoreSettings, RecordsInv, RowsTyped
  <2>2. Updated(r, mine[w], base[w]) \in Settings /\ Updated(r, mine[w], base[w]).id = r.id
    BY <1>1, <1>2, <1>8, UpdatedSettings
  <2> QED
    BY <1>1, <1>2, <1>3, <1>5, <1>6, <1>8, <1>10, <2>1, <2>2
<1>9. CASE base[w] # NoRow /\ ~(r # NoRow /\ r.id = mine[w].id)
  <2>1. settings'[u] = r
    BY <1>1, <1>9 DEF StoreSettings, RecordsInv, RowsTyped
  <2> QED
    BY <1>1, <1>2, <1>5, <1>6, <1>9, <1>10, <2>1
<1> QED
  BY <1>7, <1>8, <1>9

\* A handler of settings: it has found the owner, inserts a row, reads it again
\* and stores it.
LEMMA RecordsSettings ==
  ASSUME ImagesInv, RecordsInv, NEW w \in Handlers,
         CreateSettings(w) \/ InsertSettings(w) \/ LoadSettings(w) \/ StoreSettings(w)
  PROVE  RecordsInv'
<1> DEFINE u == job[w].user
<1>1. Shape /\ RecordOK(pc[w], job[w], mine[w], base[w])
      /\ job = [job EXCEPT ![w] = job[w]] /\ mine = [mine EXCEPT ![w] = mine[w]]
      /\ base = [base EXCEPT ![w] = base[w]]
      /\ mine[w] \in User \cup Settings \cup {NoRow} /\ base[w] \in Bases
  BY Same DEF ImagesInv, RecordsInv
<1>2. UNCHANGED <<kept, reports, workload>>
  BY DEF CreateSettings, InsertSettings, LoadSettings, StoreSettings, Goto, End, tables
<1>3. pc[w] # "idle" => u \in Users
  BY JobOf DEF Job
<1>4. CASE CreateSettings(w)
  <2> DEFINE m == [id |-> FreshId, distance |-> DefaultDistance]
  <2>1. FreshId \in Ids
    BY <1>4 DEF CreateSettings, FreshId
  <2>2. m \in Settings
    BY <2>1, InputsAssumption DEF Settings
  <2>3. /\ pc[w] = "owner" /\ pc' = [pc EXCEPT ![w] = "insert"] /\ UNCHANGED <<tables, agreed, job, base>>
        /\ mine' = [mine EXCEPT ![w] = m]
    BY <1>4 DEF CreateSettings, Hold, Goto
  <2> HIDE DEF m
  <2>4. RecordOK("insert", job[w], m, base[w])
    BY <1>1, <2>2, <2>3 DEF RecordOK
  <2>5. RowsTyped'
    BY <1>2, <2>3 DEF RecordsInv, RowsTyped, tables
  <2> QED
    BY <1>1, <2>2, <2>3, <2>4, <2>5, RecordsMove
<1>5. CASE InsertSettings(w)
  <2>1. pc[w] = "insert" /\ settings' = [settings EXCEPT ![u] = mine[w]] /\ UNCHANGED agreed
    BY <1>5 DEF InsertSettings
  <2>2. mine[w] \in Settings
    BY <1>1, <2>1 DEF RecordOK
  <2>3. RowsTyped'
    BY <1>2, <1>3, <2>1, <2>2 DEF RecordsInv, RowsTyped
  <2>4. CASE End(w)
    BY <1>1, <2>3, <2>4, RecordsEnd
  <2>5. CASE job[w].op # "settings"
    <3> DEFINE m == [mine[w] EXCEPT !.distance = job[w].arg]
    <3>1. pc' = [pc EXCEPT ![w] = "load"] /\ mine' = [mine EXCEPT ![w] = m] /\ UNCHANGED <<job, base>>
      BY <1>5, <2>5 DEF InsertSettings, Goto, Hold
    <3>2. job[w].op = "update" /\ job[w].arg \in Distances
      BY <1>1, <2>1, <2>5 DEF RecordOK
    <3>3. m \in Settings /\ m.distance = job[w].arg
      BY <2>2, <3>2 DEF Settings
    <3> HIDE DEF m
    <3>4. RecordOK("load", job[w], m, base[w])
      BY <3>2, <3>3 DEF RecordOK
    <3> QED
      BY <1>1, <2>3, <3>1, <3>3, <3>4, RecordsMove
  <2> QED
    BY <1>5, <2>4, <2>5 DEF InsertSettings
<1>6. CASE LoadSettings(w)
  <2> DEFINE r == settings[u]
             b == IF r # NoRow /\ r.id = mine[w].id THEN r ELSE NoRow
  <2>1. /\ pc[w] = "load" /\ pc' = [pc EXCEPT ![w] = "store"] /\ base' = [base EXCEPT ![w] = b]
        /\ UNCHANGED <<tables, job, mine>>
        /\ agreed' = [agreed EXCEPT ![u].overtaken = @ \ {w}]
    BY <1>6 DEF LoadSettings, Goto
  <2>2. r \in Settings \cup {NoRow}
    BY <1>3, <2>1 DEF RecordsInv, RowsTyped
  <2>3. b \in Bases /\ b \in Settings \cup {NoRow} /\ (b # NoRow => b.id = mine[w].id)
    BY <2>2 DEF Bases
  <2> HIDE DEF b, r
  <2>4. RecordOK("store", job[w], mine[w], b)
    BY <1>1, <2>1, <2>3 DEF RecordOK
  <2>5. agreed' \in [Users -> Agreed]
    BY <1>3, <2>1 DEF RecordsInv, RowsTyped, Agreed
  <2>6. RowsTyped'
    BY <1>2, <2>1, <2>5 DEF RecordsInv, RowsTyped, tables
  <2> QED
    BY <1>1, <2>1, <2>3, <2>4, <2>6, RecordsMove
<1>7. CASE StoreSettings(w)
  <2>1. /\ u \in Users /\ End(w) /\ settings[u] \in Settings \cup {NoRow}
        /\ settings'[u] \in Settings \cup {NoRow} /\ agreed'[u] \in Agreed
        /\ settings' = [settings EXCEPT ![u] = settings'[u]]
        /\ agreed' = [agreed EXCEPT ![u] = agreed'[u]]
    BY <1>7, Stored DEF RecordsInv, RowsTyped
  <2>2. RowsTyped'
    BY <1>2, <2>1 DEF RecordsInv, RowsTyped
  <2> QED
    BY <1>1, <2>1, <2>2, RecordsEnd
<1> QED
  BY <1>4, <1>5, <1>6, <1>7

LEMMA RecordsBeside ==
  ASSUME ImagesInv, RecordsInv, NEW w \in Handlers,
         KeepSelect(w) \/ KeepInsert(w) \/ ReportSelect(w) \/ ReportWrite(w)
  PROVE  RecordsInv'
<1>1. Shape /\ RecordOK(pc[w], job[w], mine[w], base[w])
      /\ job = [job EXCEPT ![w] = job[w]] /\ mine = [mine EXCEPT ![w] = mine[w]]
      /\ base = [base EXCEPT ![w] = base[w]]
      /\ mine[w] \in User \cup Settings \cup {NoRow} /\ base[w] \in Bases
  BY Same DEF ImagesInv, RecordsInv
<1>2. UNCHANGED <<settings, agreed, workload>>
  BY DEF KeepSelect, KeepInsert, ReportSelect, ReportWrite, Goto, End, tables
<1>3. pc[w] # "idle" => job[w].user \in Users
  BY JobOf DEF Job
<1>4. CASE KeepSelect(w)
  <2>1. pc[w] = "keepSelect" /\ UNCHANGED <<kept, reports>>
    BY <1>4 DEF KeepSelect, tables
  <2>2. RowsTyped'
    BY <1>2, <2>1 DEF RecordsInv, RowsTyped
  <2>3. CASE End(w)
    BY <1>1, <2>2, <2>3, RecordsEnd
  <2>4. CASE Goto(w, "keepInsert") /\ UNCHANGED <<job, mine, base>>
    <3>1. RecordOK("keepInsert", job[w], mine[w], base[w])
      BY <1>1, <2>1 DEF RecordOK
    <3>2. pc' = [pc EXCEPT ![w] = "keepInsert"]
      BY <2>4 DEF Goto
    <3> QED
      BY <1>1, <2>2, <2>4, <3>1, <3>2, RecordsKeep DEF ImagesInv
  <2> QED
    BY <1>4, <2>3, <2>4 DEF KeepSelect
<1>5. CASE KeepInsert(w)
  <2>1. pc[w] = "keepInsert" /\ kept' = kept \cup {Kept(w)} /\ UNCHANGED reports /\ End(w)
    BY <1>5 DEF KeepInsert
  <2>2. Kept(w) \in {"bookmark", "seen"} \X Users \X Snaps
    BY <1>1, <1>3, <2>1 DEF RecordOK, Kept
  <2>3. RowsTyped'
    BY <1>2, <2>1, <2>2 DEF RecordsInv, RowsTyped
  <2> QED
    BY <1>1, <2>1, <2>3, RecordsEnd
<1>6. CASE ReportSelect(w)
  <2> DEFINE b == reports[<<job[w].user, job[w].snap>>]
  <2>1. /\ pc[w] = "reportSelect" /\ pc' = [pc EXCEPT ![w] = "reportWrite"]
        /\ base' = [base EXCEPT ![w] = b] /\ UNCHANGED <<tables, job, mine>>
    BY <1>6 DEF ReportSelect, Goto
  <2>2. b \in Bases
    BY <1>1, <1>3, <2>1 DEF RecordOK, RecordsInv, RowsTyped, Bases
  <2> HIDE DEF b
  <2>3. RecordOK("reportWrite", job[w], mine[w], b)
    BY <1>1, <2>1 DEF RecordOK
  <2>4. RowsTyped'
    BY <1>2, <2>1 DEF RecordsInv, RowsTyped, tables
  <2> QED
    BY <1>1, <2>1, <2>2, <2>3, <2>4, RecordsMove
<1>7. CASE ReportWrite(w)
  <2> DEFINE x == <<job[w].user, job[w].snap>>
             r == IF base[w] # None /\ reports[x] = None THEN None ELSE job[w].arg
  <2>1. /\ pc[w] = "reportWrite" /\ UNCHANGED kept /\ End(w)
        /\ reports' = [reports EXCEPT ![x] = r]
    BY <1>7 DEF ReportWrite
  <2>2. r \in Reasons \cup {None}
    BY <1>1, <2>1 DEF RecordOK
  <2> HIDE DEF r, x
  <2>3. RowsTyped'
    BY <1>2, <2>1, <2>2 DEF RecordsInv, RowsTyped
  <2> QED
    BY <1>1, <2>1, <2>3, RecordsEnd
<1> QED
  BY <1>4, <1>5, <1>6, <1>7

\* The requests that change a user's row, and the purge.
LEMMA RecordsUsers ==
  ASSUME ImagesInv, RecordsInv, NEW w \in Handlers,
         \/ SaveSelect(w) \/ SaveWrite(w) \/ DeletePrevious(w)
         \/ PurgeImage(w) \/ PurgeKept(w) \/ PurgeReports(w)
         \/ PurgeFindSettings(w) \/ PurgeSettings(w) \/ PurgeRemoveUser(w) \/ Abort(w)
  PROVE  RecordsInv'
<1>1. Shape /\ (pc[w] # "idle" => job[w].user \in Users)
  BY JobOf DEF ImagesInv, Job
<1>2. ASSUME UNCHANGED <<settings, kept, reports, workload, agreed>> PROVE RowsTyped'
  BY <1>2 DEF RecordsInv, RowsTyped
<1>3. CASE SaveSelect(w)
  <2>1. users[job[w].user] \in Bases
    BY <1>1, <1>3 DEF SaveSelect, Shape, Bases
  <2> QED
    BY <1>1, <1>2, <1>3, <2>1, RecordsElse DEF SaveSelect, Goto, tables, Beside
<1>4. CASE SaveWrite(w)
  BY <1>1, <1>2, <1>4, RecordsElse, RecordsEnd DEF SaveWrite, Goto, End, Beside
<1>5. CASE DeletePrevious(w) \/ Abort(w)
  BY <1>1, <1>2, <1>5, RecordsEnd DEF DeletePrevious, Abort, End, tables
<1>6. CASE PurgeImage(w)
  BY <1>1, <1>2, <1>6, RecordsElse, RecordsEnd DEF PurgeImage, Goto, End, tables, Beside
<1>7. CASE PurgeKept(w)
  <2>1. kept' \subseteq kept /\ UNCHANGED <<settings, reports, workload, agreed, job, mine, base>>
    BY <1>7 DEF PurgeKept, Goto
  <2>2. RowsTyped'
    BY <2>1 DEF RecordsInv, RowsTyped
  <2>3. PICK stage \in {"bookmark", "reports"} : pc' = [pc EXCEPT ![w] = stage]
    BY <1>7 DEF PurgeKept, Goto
  <2> QED
    BY <1>1, <2>1, <2>2, <2>3, RecordsElse DEF Beside
<1>8. CASE PurgeReports(w)
  <2>1. /\ reports' = [x \in DOMAIN reports |-> IF x[1] = job[w].user THEN None ELSE reports[x]]
        /\ pc' = [pc EXCEPT ![w] = "settings"]
        /\ UNCHANGED <<settings, kept, workload, agreed, job, mine, base>>
    BY <1>8 DEF PurgeReports, Goto
  <2>2. reports' \in [Users \X Snaps -> Reasons \cup {None}]
    BY <2>1 DEF RecordsInv, RowsTyped
  <2>3. RowsTyped'
    BY <2>1, <2>2 DEF RecordsInv, RowsTyped
  <2> QED
    BY <1>1, <2>1, <2>3, RecordsElse DEF Beside
<1>9. CASE PurgeFindSettings(w)
  <2>1. settings[job[w].user] \in Settings \cup {NoRow}
    BY <1>1, <1>9 DEF PurgeFindSettings, RecordsInv, RowsTyped
  <2> QED
    BY <1>1, <1>2, <1>9, <2>1, RecordsElse DEF PurgeFindSettings, Hold, Goto, tables, Beside
<1>10. CASE PurgeSettings(w)
  <2>1. /\ settings' \in [Users -> Settings \cup {NoRow}]
        /\ agreed' \in [Users -> Agreed]
        /\ UNCHANGED <<kept, reports, workload>>
    BY <1>10, NothingIsAgreed DEF PurgeSettings, RecordsInv, RowsTyped, Goto, End
  <2>2. RowsTyped'
    BY <2>1 DEF RecordsInv, RowsTyped
  <2> QED
    BY <1>1, <1>10, <2>2, RecordsElse, RecordsEnd DEF PurgeSettings, Goto, Beside
<1>11. CASE PurgeRemoveUser(w)
  <2>1. /\ settings' \in [Users -> Settings \cup {NoRow}]
        /\ agreed' \in [Users -> Agreed]
        /\ UNCHANGED <<kept, reports, workload>> /\ End(w)
    BY <1>11, NothingIsAgreed DEF PurgeRemoveUser, RecordsInv, RowsTyped, End
  <2>2. RowsTyped'
    BY <2>1 DEF RecordsInv, RowsTyped
  <2> QED
    BY <1>1, <2>1, <2>2, RecordsEnd
<1> QED
  BY <1>3, <1>4, <1>5, <1>6, <1>7, <1>8, <1>9, <1>10, <1>11

LEMMA RecordsStep == ImagesInv /\ RecordsInv /\ [Next]_vars => RecordsInv'
<1> SUFFICES ASSUME ImagesInv, RecordsInv, [Next]_vars PROVE RecordsInv'
  OBVIOUS
<1>1. ASSUME UNCHANGED <<settings, reports, agreed, local>>,
             kept' \subseteq kept
      PROVE  RecordsInv'
  BY <1>1 DEF RecordsInv, RowsTyped, local
<1>2. CASE UNCHANGED vars \/ \E k \in Keys : LateDelete(k)
  BY <1>1, <1>2 DEF vars, tables, LateDelete
<1>3. ASSUME NEW u \in Users, NEW s \in Snaps, RemoveBookmark(u, s) PROVE RecordsInv'
  BY <1>1, <1>3 DEF RemoveBookmark
<1>4. ASSUME NEW w \in Handlers, Continue(w) PROVE RecordsInv'
  BY <1>4, RecordsUsers, RecordsSettings, RecordsBeside DEF Continue
<1> QED
  BY <1>2, <1>3, <1>4, RecordsArrive DEF Next

LEMMA RecordsInvHolds == Spec => []RecordsInv
BY RecordsInit, RecordsStep, ImagesInvHolds, PTL DEF Spec

\* Every row, entity and request is well formed, whatever overlaps or fails.
THEOREM TypeCorrect == Spec => []TypeOK
<1>1. ImagesInv /\ RecordsInv => TypeOK
  BY DEF ImagesInv, Shape, RecordsInv, RowsTyped, Bases, TypeOK
<1> QED
  BY <1>1, ImagesInvHolds, RecordsInvHolds, PTL

-------------------------------------------------------------------------------
\* The settings that updates confirmed.

\* A row about to be inserted has an id that no row and no other handler has.
NewIds ==
  \A g \in Handlers :
    pc[g] = "insert" =>
      /\ \A u \in Users : settings[u] # NoRow => settings[u].id # mine[g].id
      /\ \A h \in Handlers \ {g} : mine[h] \in Settings => mine[h].id # mine[g].id

\* The row of the id that an update selected has not changed since, unless it was
\* overtaken.
BaseIsRow ==
  \A h \in Handlers :
    LET r == settings[job[h].user]
    IN /\ pc[h] = "store" /\ base[h] # NoRow /\ r # NoRow /\ r.id = mine[h].id
       /\ h \notin agreed[job[h].user].overtaken
       => r.distance = base[h].distance

\* What overtook an update asked for something.
OvertakenByOne == \A u \in Users : agreed[u].overtaken # {} => agreed[u].asked # {}

StandInv == NewIds /\ BaseIsRow /\ OvertakenByOne /\ ConfirmedSettingsStand

StandNext == NewIds' /\ BaseIsRow' /\ OvertakenByOne' /\ ConfirmedSettingsStand'

LEMMA StandInit == Init => StandInv
BY DEF Init, StandInv, NewIds, BaseIsRow, OvertakenByOne, ConfirmedSettingsStand, NothingAsked

\* Only the handler that takes a step changes what it holds, and a request keeps
\* its job from beginning to end.
LEMMA OneMoves ==
  ASSUME Shape, NEW w \in Handlers, Arrive(w) \/ Continue(w)
  PROVE  /\ \A h \in Handlers \ {w} :
              pc'[h] = pc[h] /\ job'[h] = job[h] /\ mine'[h] = mine[h] /\ base'[h] = base[h]
         /\ pc[w] # "idle" => pc'[w] = "idle" \/ job'[w] = job[w]
<1> USE DEF Shape
<1>1. CASE Arrive(w)
  <2>1. pc[w] = "idle" /\ \E stage, j : pc' = [pc EXCEPT ![w] = stage] /\ job' = [job EXCEPT ![w] = j]
    <3>1. \E stage, j : Begin(w, stage, j)
      BY <1>1, Zenon DEF Arrive, UpdateProfile, SetUserPhoto, PurgeUser, GetSettings,
         UpdateSettings, AddBookmark, AddSeen, CreateReport
    <3> QED
      BY <3>1, Zenon DEF Begin
  <2>2. /\ mine' = mine \/ \E m : mine' = [mine EXCEPT ![w] = m]
        /\ base' = base \/ \E b : base' = [base EXCEPT ![w] = b]
    BY <1>1 DEF Arrive, UpdateProfile, SetUserPhoto, PurgeUser, GetSettings, UpdateSettings,
       AddBookmark, AddSeen, CreateReport, Hold
  <2> QED
    BY <2>1, <2>2
<1>2. CASE End(w)
  BY <1>2 DEF End
<1>3. CASE Continue(w) /\ ~End(w)
  <2>1. (\E stage : Goto(w, stage)) /\ job' = job
    BY <1>3 DEF Continue, SaveSelect, SaveWrite, DeletePrevious, PurgeImage, PurgeKept,
       PurgeReports, PurgeFindSettings, PurgeSettings, PurgeRemoveUser, CreateSettings,
       InsertSettings, LoadSettings, StoreSettings, KeepSelect, KeepInsert, ReportSelect,
       ReportWrite, Abort
  <2>2. /\ mine' = mine \/ \E m : mine' = [mine EXCEPT ![w] = m]
        /\ base' = base \/ \E b : base' = [base EXCEPT ![w] = b]
    BY <1>3 DEF Continue, SaveSelect, SaveWrite, DeletePrevious, PurgeImage, PurgeKept,
       PurgeReports, PurgeFindSettings, PurgeSettings, PurgeRemoveUser, CreateSettings,
       InsertSettings, LoadSettings, StoreSettings, KeepSelect, KeepInsert, ReportSelect,
       ReportWrite, Abort, Hold
  <2> QED
    BY <2>1, <2>2 DEF Goto
<1> QED
  BY <1>1, <1>2, <1>3

\* Nothing is asked for, and w alone may cease to be overtaken.
Agrees(w, u) ==
  /\ agreed'[u].asked = agreed[u].asked
  /\ agreed'[u].overtaken \in {agreed[u].overtaken, agreed[u].overtaken \ {w}}

\* A step that changes no settings but deletes them, and after which its handler
\* holds nothing of a row that was not there.
LEMMA QuietSettings ==
  ASSUME ImagesInv, StandInv, NEW w \in Handlers, Arrive(w) \/ Continue(w),
         pc'[w] # "insert",
         pc'[w] = "store" /\ base'[w] # NoRow => settings'[job'[w].user] = base'[w],
         \/ mine'[w] \notin Settings
         \/ mine'[w] = mine[w]
         \/ \E u \in Users : settings[u] # NoRow /\ mine'[w].id = settings[u].id,
         \A u \in Users : \/ settings'[u] = settings[u] /\ Agrees(w, u)
                          \/ settings'[u] = NoRow /\ agreed'[u] = NothingAsked
  PROVE  StandNext
<1>1. \A h \in Handlers \ {w} :
        pc'[h] = pc[h] /\ job'[h] = job[h] /\ mine'[h] = mine[h] /\ base'[h] = base[h]
  BY OneMoves DEF ImagesInv
<1>2. NewIds'
  <2> SUFFICES ASSUME NEW g \in Handlers, pc'[g] = "insert"
               PROVE  /\ \A u \in Users : settings'[u] # NoRow => settings'[u].id # mine'[g].id
                      /\ \A h \in Handlers \ {g} : mine'[h] \in Settings => mine'[h].id # mine'[g].id
    BY DEF NewIds
  <2>1. g # w /\ pc[g] = "insert" /\ mine'[g] = mine[g]
    BY <1>1
  <2>2. /\ \A u \in Users : settings[u] # NoRow => settings[u].id # mine[g].id
        /\ \A h \in Handlers \ {g} : mine[h] \in Settings => mine[h].id # mine[g].id
    BY <2>1 DEF StandInv, NewIds
  <2> QED
    BY <1>1, <2>1, <2>2
<1>3. BaseIsRow'
  <2> SUFFICES ASSUME NEW h \in Handlers, pc'[h] = "store", base'[h] # NoRow,
                      settings'[job'[h].user] # NoRow, settings'[job'[h].user].id = mine'[h].id,
                      h \notin agreed'[job'[h].user].overtaken
               PROVE  settings'[job'[h].user].distance = base'[h].distance
    BY DEF BaseIsRow
  <2>1. CASE h # w
    <3>1. job[h] \in Job /\ job[h].user \in Users
      BY <1>1, <2>1, JobOf DEF Job
    <3> QED
      BY <1>1, <2>1, <3>1 DEF StandInv, BaseIsRow, Agrees
  <2> QED
    BY <2>1
<1>4. OvertakenByOne' /\ ConfirmedSettingsStand'
  BY DEF StandInv, OvertakenByOne, ConfirmedSettingsStand, Agrees, NothingAsked
<1> QED
  BY <1>2, <1>3, <1>4 DEF StandNext

\* Entities of users and of settings are told apart by their columns.
LEMMA ColumnsDiffer == ASSUME NEW r \in User PROVE r \notin Settings
<1>1. DOMAIN r = {"name", "image"}
  BY DEF User
<1>2. \A s \in Settings : DOMAIN s = {"id", "distance"}
  BY DEF Settings
<1> QED
  BY <1>1, <1>2

LEMMA StandArrive ==
  ASSUME ImagesInv, RecordsInv, StandInv, NEW w \in Handlers, Arrive(w)
  PROVE  StandNext
<1> USE DEF ImagesInv, Shape
<1>1. PICK u \in Users :
        \/ \E n \in Names : UpdateProfile(w, u, n)
        \/ \E k \in Keys : SetUserPhoto(w, u, k)
        \/ PurgeUser(w, u)
        \/ GetSettings(w, u)
        \/ \E d \in Distances : UpdateSettings(w, u, d)
        \/ \E s \in Snaps : AddBookmark(w, u, s) \/ AddSeen(w, u, s)
        \/ \E s \in Snaps, r \in Reasons : CreateReport(w, u, s, r)
  BY DEF Arrive
<1>2. UNCHANGED <<settings, agreed>> /\ pc'[w] \notin {"insert", "store"}
  BY <1>1 DEF UpdateProfile, SetUserPhoto, PurgeUser, GetSettings, UpdateSettings, AddBookmark,
     AddSeen, CreateReport, Begin, tables
<1>3. \/ mine'[w] \notin Settings
      \/ mine'[w] = mine[w]
      \/ settings[u] # NoRow /\ mine'[w].id = settings[u].id
  <2>1. CASE \E n \in Names : UpdateProfile(w, u, n)
    <3>1. PICK n \in Names : users[u] \in User /\ mine'[w] = [users[u] EXCEPT !.name = n]
      BY <2>1 DEF UpdateProfile, Hold
    <3>2. [users[u] EXCEPT !.name = n] \in User
      BY <3>1 DEF User
    <3> QED
      BY <3>1, <3>2, ColumnsDiffer
  <2>2. CASE \E k \in Keys : SetUserPhoto(w, u, k)
    <3>1. PICK k \in Keys : users[u] \in User /\ mine'[w] = [users[u] EXCEPT !.image = k]
      BY <2>2 DEF SetUserPhoto, Hold
    <3>2. [users[u] EXCEPT !.image = k] \in User
      BY <3>1 DEF User
    <3> QED
      BY <3>1, <3>2, ColumnsDiffer
  <2>3. CASE \E d \in Distances : UpdateSettings(w, u, d)
    <3>1. PICK d \in Distances : UpdateSettings(w, u, d)
      BY <2>3
    <3>2. settings[u] \in Settings \cup {NoRow}
      BY DEF RecordsInv, RowsTyped
    <3>3. settings[u] # NoRow => mine'[w] = [settings[u] EXCEPT !.distance = d]
      BY <3>1 DEF UpdateSettings, Hold
    <3>4. settings[u] = NoRow => mine'[w] = mine[w]
      BY <3>1 DEF UpdateSettings
    <3> QED
      BY <3>2, <3>3, <3>4 DEF Settings
  <2>4. CASE mine' = mine
    BY <2>4
  <2> QED
    BY <1>1, <2>1, <2>2, <2>3, <2>4 DEF PurgeUser, GetSettings, AddBookmark, AddSeen, CreateReport
<1> QED
  BY <1>2, <1>3, QuietSettings DEF Agrees

\* The steps of other requests, and those of a purge.
LEMMA StandQuiet ==
  ASSUME ImagesInv, RecordsInv, StandInv, NEW w \in Handlers,
         \/ SaveSelect(w) \/ SaveWrite(w) \/ DeletePrevious(w)
         \/ PurgeImage(w) \/ PurgeKept(w) \/ PurgeReports(w)
         \/ PurgeFindSettings(w) \/ PurgeSettings(w) \/ PurgeRemoveUser(w)
         \/ KeepSelect(w) \/ KeepInsert(w) \/ ReportSelect(w) \/ ReportWrite(w) \/ Abort(w)
  PROVE  StandNext
<1> USE DEF ImagesInv, Shape
<1>1. NoRow \notin Settings
  BY AbsentAssumption
<1>2. Continue(w)
  BY DEF Continue
<1>3. pc'[w] \notin {"insert", "store"}
  BY DEF SaveSelect, SaveWrite, DeletePrevious, PurgeImage, PurgeKept, PurgeReports,
     PurgeFindSettings, PurgeSettings, PurgeRemoveUser, KeepSelect, KeepInsert, ReportSelect,
     ReportWrite, Abort, Goto, End
<1>4. job[w].user \in Users /\ settings[job[w].user] \in Settings \cup {NoRow}
  <2>1. pc[w] # "idle"
    BY DEF SaveSelect, SaveWrite, DeletePrevious, PurgeImage, PurgeKept, PurgeReports,
       PurgeFindSettings, PurgeSettings, PurgeRemoveUser, KeepSelect, KeepInsert, ReportSelect,
       ReportWrite, Abort
  <2> QED
    BY <2>1, JobOf DEF Job, RecordsInv, RowsTyped
<1>5. \/ mine'[w] = NoRow \/ mine'[w] = mine[w]
      \/ mine'[w] = settings[job[w].user] /\ settings[job[w].user] # NoRow
  <2>1. CASE PurgeFindSettings(w)
    BY <2>1 DEF PurgeFindSettings, Hold
  <2>2. CASE End(w) \/ mine' = mine
    BY <2>2 DEF End
  <2> QED
    BY <2>1, <2>2 DEF SaveSelect, SaveWrite, DeletePrevious, PurgeImage, PurgeKept, PurgeReports,
       PurgeSettings, PurgeRemoveUser, KeepSelect, KeepInsert, ReportSelect, ReportWrite, Abort
<1>6. \A u \in Users : \/ settings'[u] = settings[u] /\ agreed'[u] = agreed[u]
                       \/ settings'[u] = NoRow /\ agreed'[u] = NothingAsked
  <2>1. CASE PurgeSettings(w) \/ PurgeRemoveUser(w)
    BY <2>1, <1>4 DEF PurgeSettings, PurgeRemoveUser, RecordsInv, RowsTyped
  <2>2. CASE UNCHANGED <<settings, agreed>>
    BY <2>2
  <2> QED
    BY <2>1, <2>2 DEF SaveSelect, SaveWrite, DeletePrevious, PurgeImage, PurgeKept, PurgeReports,
       PurgeFindSettings, KeepSelect, KeepInsert, ReportSelect, ReportWrite, Abort, tables
<1> QED
  BY <1>1, <1>2, <1>3, <1>4, <1>5, <1>6, QuietSettings DEF Agrees

LEMMA StandCreate ==
  ASSUME ImagesInv, RecordsInv, StandInv, NEW w \in Handlers, CreateSettings(w)
  PROVE  StandNext
<1> USE DEF ImagesInv, Shape
<1>1. \A h \in Handlers \ {w} :
        pc'[h] = pc[h] /\ job'[h] = job[h] /\ mine'[h] = mine[h] /\ base'[h] = base[h]
  BY OneMoves DEF Continue
<1>2. Fresh(FreshId)
  BY DEF CreateSettings, FreshId
<1>3. /\ pc'[w] = "insert" /\ mine'[w].id = FreshId
      /\ UNCHANGED <<settings, agreed, job, base>>
  BY DEF CreateSettings, Goto, Hold, tables
<1>4. \A u \in Users : settings[u] # NoRow => settings[u].id # mine'[w].id
  BY <1>2, <1>3 DEF Fresh
<1>5. \A h \in Handlers : mine[h] \in Settings => mine[h].id # mine'[w].id
  BY <1>2, <1>3 DEF Fresh
<1>6. NewIds'
  <2> SUFFICES ASSUME NEW g \in Handlers, pc'[g] = "insert"
               PROVE  /\ \A u \in Users : settings[u] # NoRow => settings[u].id # mine'[g].id
                      /\ \A h \in Handlers \ {g} : mine'[h] \in Settings => mine'[h].id # mine'[g].id
    BY <1>3 DEF NewIds
  <2>1. CASE g = w
    BY <1>1, <1>4, <1>5, <2>1
  <2>2. CASE g # w
    <3>1. pc[g] = "insert" /\ mine'[g] = mine[g] /\ mine[g] \in Settings
      BY <1>1, <2>2 DEF RecordsInv, RecordOK
    <3> QED
      BY <1>1, <1>5, <2>2, <3>1 DEF StandInv, NewIds
  <2> QED
    BY <2>1, <2>2
<1>7. BaseIsRow'
  BY <1>1, <1>3 DEF StandInv, BaseIsRow
<1>8. OvertakenByOne' /\ ConfirmedSettingsStand'
  BY <1>3 DEF StandInv, OvertakenByOne, ConfirmedSettingsStand
<1> QED
  BY <1>6, <1>7, <1>8 DEF StandNext

LEMMA StandInsert ==
  ASSUME ImagesInv, RecordsInv, StandInv, NEW w \in Handlers, InsertSettings(w)
  PROVE  StandNext
<1> USE DEF ImagesInv, Shape
<1> DEFINE u == job[w].user
<1>1. \A h \in Handlers \ {w} :
        pc'[h] = pc[h] /\ job'[h] = job[h] /\ mine'[h] = mine[h] /\ base'[h] = base[h]
  BY OneMoves DEF Continue
<1>2. pc[w] = "insert" /\ mine[w] \in Settings /\ NoRow \notin Settings
  BY AbsentAssumption DEF InsertSettings, RecordsInv, RecordOK
<1>3. u \in Users /\ settings[u] = NoRow
  BY <1>2, JobOf DEF Job, InsertSettings, Insertable
<1>4. /\ settings'[u] = mine[w] /\ \A v \in Users \ {u} : settings'[v] = settings[v]
      /\ agreed' = agreed /\ pc'[w] \in {"idle", "load"}
  BY <1>3 DEF InsertSettings, RecordsInv, RowsTyped, End, Goto
<1>5. mine'[w] \in Settings => mine'[w].id = mine[w].id
  BY <1>2 DEF InsertSettings, End, Hold, Settings
<1>6. \A h \in Handlers \ {w} : mine[h] \in Settings => mine[h].id # mine[w].id
  BY <1>2 DEF StandInv, NewIds
<1>7. NewIds'
  <2> SUFFICES ASSUME NEW g \in Handlers, pc'[g] = "insert"
               PROVE  /\ \A v \in Users : settings'[v] # NoRow => settings'[v].id # mine'[g].id
                      /\ \A h \in Handlers \ {g} : mine'[h] \in Settings => mine'[h].id # mine'[g].id
    BY DEF NewIds
  <2>1. g # w /\ pc[g] = "insert" /\ mine'[g] = mine[g] /\ mine[g] \in Settings
    BY <1>1, <1>4 DEF RecordsInv, RecordOK
  <2>2. mine[g].id # mine[w].id
    BY <1>6, <2>1
  <2>3. /\ \A v \in Users : settings[v] # NoRow => settings[v].id # mine[g].id
        /\ \A h \in Handlers \ {g} : mine[h] \in Settings => mine[h].id # mine[g].id
    BY <2>1 DEF StandInv, NewIds
  <2> QED
    BY <1>1, <1>4, <1>5, <2>1, <2>2, <2>3
<1>8. BaseIsRow'
  <2> SUFFICES ASSUME NEW h \in Handlers, pc'[h] = "store", base'[h] # NoRow,
                      settings'[job'[h].user] # NoRow, settings'[job'[h].user].id = mine'[h].id,
                      h \notin agreed'[job'[h].user].overtaken
               PROVE  settings'[job'[h].user].distance = base'[h].distance
    BY DEF BaseIsRow
  <2>1. h # w /\ pc[h] = "store" /\ job'[h] = job[h] /\ mine'[h] = mine[h] /\ base'[h] = base[h]
    BY <1>1, <1>4
  <2>2. mine[h] \in Settings /\ job[h].user \in Users
    BY <2>1, JobOf DEF RecordsInv, RecordOK, Job
  <2>3. job[h].user # u
    BY <1>4, <1>6, <2>1, <2>2
  <2> QED
    BY <1>4, <2>1, <2>2, <2>3 DEF StandInv, BaseIsRow
<1>9. OvertakenByOne' /\ ConfirmedSettingsStand'
  BY <1>3, <1>4 DEF StandInv, OvertakenByOne, ConfirmedSettingsStand
<1> QED
  BY <1>7, <1>8, <1>9 DEF StandNext

LEMMA StandLoad ==
  ASSUME ImagesInv, RecordsInv, StandInv, NEW w \in Handlers, LoadSettings(w)
  PROVE  StandNext
<1> USE DEF ImagesInv, Shape
<1>1. Continue(w)
  BY DEF Continue
<1>2. pc'[w] = "store" /\ mine' = mine /\ job' = job /\ UNCHANGED settings
  BY DEF LoadSettings, Goto, tables
<1>4. \A u \in Users : Agrees(w, u)
  BY DEF LoadSettings, RecordsInv, RowsTyped, Agreed, Agrees
<1>3. base'[w] # NoRow => base'[w] = settings[job[w].user]
  BY DEF LoadSettings
<1> QED
  BY <1>1, <1>2, <1>3, <1>4, QuietSettings

\* An update that was not overtaken leaves what it asked for; one that was, that or
\* what there is.
LEMMA StandStore ==
  ASSUME ImagesInv, RecordsInv, StandInv, NEW w \in Handlers, StoreSettings(w)
  PROVE  StandNext
<1> USE DEF ImagesInv, Shape
<1> DEFINE u == job[w].user
           r == settings[u]
<1>1. \A h \in Handlers \ {w} :
        pc'[h] = pc[h] /\ job'[h] = job[h] /\ mine'[h] = mine[h] /\ base'[h] = base[h]
  BY OneMoves DEF Continue
<1>2. NoRow \notin Settings /\ pc'[w] = "idle" /\ mine'[w] = NoRow
  BY Stored, AbsentAssumption DEF End
<1>3. pc[w] = "store" /\ u \in Users /\ mine[w] \in Settings /\ r \in Settings \cup {NoRow}
  BY Stored DEF RecordsInv, RowsTyped
<1>4. \/ settings'[u] = r
      \/ settings'[u] # NoRow /\ settings'[u].id = mine[w].id
  BY <1>2, <1>3, Stored
<1>5. \A v \in Users \ {u} : settings'[v] = settings[v] /\ agreed'[v] = agreed[v]
  BY Stored
<1>6. NewIds'
  <2> SUFFICES ASSUME NEW g \in Handlers, pc'[g] = "insert"
               PROVE  /\ \A v \in Users : settings'[v] # NoRow => settings'[v].id # mine'[g].id
                      /\ \A h \in Handlers \ {g} : mine'[h] \in Settings => mine'[h].id # mine'[g].id
    BY DEF NewIds
  <2>1. g # w /\ pc[g] = "insert" /\ mine'[g] = mine[g]
    BY <1>1, <1>2
  <2>2. /\ \A v \in Users : settings[v] # NoRow => settings[v].id # mine[g].id
        /\ \A h \in Handlers \ {g} : mine[h] \in Settings => mine[h].id # mine[g].id
    BY <2>1 DEF StandInv, NewIds
  <2>3. mine[w].id # mine[g].id
    BY <1>3, <2>1, <2>2
  <2> QED
    BY <1>1, <1>2, <1>4, <1>5, <2>1, <2>2, <2>3
<1>7. BaseIsRow'
  <2> SUFFICES ASSUME NEW h \in Handlers, pc'[h] = "store", base'[h] # NoRow,
                      settings'[job'[h].user] # NoRow, settings'[job'[h].user].id = mine'[h].id,
                      h \notin agreed'[job'[h].user].overtaken
               PROVE  settings'[job'[h].user].distance = base'[h].distance
    BY DEF BaseIsRow
  <2>1. h # w /\ pc[h] = "store" /\ job'[h] = job[h] /\ mine'[h] = mine[h] /\ base'[h] = base[h]
    BY <1>1, <1>2
  <2>2. job[h].user \in Users
    BY <2>1, JobOf DEF Job
  <2>3. CASE job[h].user # u
    BY <1>5, <2>1, <2>2, <2>3 DEF StandInv, BaseIsRow
  <2>4. CASE job[h].user = u
    <3>1. agreed'[u] # Asked(w)
      BY <2>1, <2>4 DEF Asked
    <3>2. settings'[u] = r /\ agreed'[u] = agreed[u]
      BY <3>1, Stored
    <3> QED
      BY <1>3, <2>1, <2>4, <3>2 DEF StandInv, BaseIsRow
  <2> QED
    BY <2>3, <2>4
<1>8. \/ /\ settings'[u] # NoRow /\ agreed'[u] = Asked(w)
         /\ settings'[u].distance \in Asked(w).asked
      \/ settings'[u] = r /\ agreed'[u] = agreed[u]
  <2>1. CASE base[w] = NoRow /\ settings'[u] = mine[w] /\ agreed'[u] = Asked(w)
    BY <1>2, <1>3, <2>1, Stored DEF Asked
  <2>2. CASE /\ base[w] # NoRow /\ r # NoRow /\ r.id = mine[w].id
             /\ settings'[u] = Updated(r, mine[w], base[w]) /\ agreed'[u] = Asked(w)
    <3>1. /\ base[w] \in Settings /\ r \in Settings /\ settings'[u] \in Settings
          /\ mine[w].distance = job[w].arg
      BY <1>3, <2>2, Stored, UpdatedSettings
    <3>2. settings'[u].distance =
            IF mine[w].distance = base[w].distance THEN r.distance ELSE mine[w].distance
      BY <1>3, <2>2, <3>1 DEF Updated, Settings
    <3>3. CASE w \in agreed[u].overtaken
      <4>1. r.distance \in agreed[u].asked
        BY <1>3, <3>3 DEF StandInv, OvertakenByOne, ConfirmedSettingsStand
      <4> QED
        BY <1>2, <2>2, <3>1, <3>2, <3>3, <4>1 DEF Asked
    <3>4. CASE w \notin agreed[u].overtaken
      <4>1. r.distance = base[w].distance
        BY <1>3, <2>2, <3>4 DEF StandInv, BaseIsRow
      <4> QED
        BY <1>2, <2>2, <3>1, <3>2, <4>1 DEF Asked
    <3> QED
      BY <3>3, <3>4
  <2> QED
    BY <2>1, <2>2, Stored
<1>9. OvertakenByOne'
  BY <1>3, <1>5, <1>8 DEF StandInv, OvertakenByOne, Asked
<1>10. ConfirmedSettingsStand'
  BY <1>3, <1>5, <1>8 DEF StandInv, ConfirmedSettingsStand
<1> QED
  BY <1>6, <1>7, <1>9, <1>10 DEF StandNext

LEMMA StandStep ==
  ASSUME ImagesInv, RecordsInv, StandInv, [Next]_vars
  PROVE  StandInv'
<1>1. CASE UNCHANGED <<settings, agreed, local>>
  BY <1>1 DEF StandInv, NewIds, BaseIsRow, OvertakenByOne, ConfirmedSettingsStand, local
<1>2. CASE \/ UNCHANGED vars \/ \E k \in Keys : LateDelete(k)
           \/ \E u \in Users, s \in Snaps : RemoveBookmark(u, s)
  BY <1>1, <1>2 DEF vars, tables, LateDelete, RemoveBookmark
<1>3. ASSUME NEW w \in Handlers, Arrive(w) \/ Continue(w) PROVE StandInv'
  <2>1. StandNext
    BY <1>3, StandArrive, StandQuiet, StandCreate, StandInsert, StandLoad, StandStore DEF Continue
  <2> QED
    BY <2>1 DEF StandInv, StandNext
<1> QED
  BY <1>2, <1>3 DEF Next

\* What updates confirmed stands until the next update, however many overlap with each
\* other, with purges and with reads that find no row and race to create one: no column
\* holds anything that none of the last updates asked for, and the defaults do not come
\* back.
THEOREM ConfirmedSettingsStandHolds == Spec => []ConfirmedSettingsStand
<1>1. ImagesInv /\ RecordsInv /\ StandInv /\ [Next]_vars => StandInv'
  BY StandStep
<1>2. StandInv => ConfirmedSettingsStand
  BY DEF StandInv
<1> QED
  BY <1>1, <1>2, StandInit, ImagesInvHolds, RecordsInvHolds, PTL DEF Spec
===============================================================================
