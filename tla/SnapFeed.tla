------------------------------- MODULE SnapFeed -------------------------------
(***************************************************************************)
(* What users see of snaps: the queries of the snaps service, the marks    *)
(* of seen snaps that the users service keeps for it, and the sockets to   *)
(* which one process of the snaps service announces new snaps.  A request  *)
(* is split at every query and every RPC; how a snap is checked and        *)
(* inserted, resolved and deleted is in SnapLifecycle.                     *)
(***************************************************************************)
EXTENDS Integers, FiniteSets

CONSTANTS
  Users, Snaps, Places,
  Within,     \* by radius, the pairs of places that are within it
  Sockets,    \* connections; a client that reconnects comes as a new one
  Handlers,   \* requests the service can be working on at once
  Lifetime,   \* snapDisappearDays, and the day of the backfill, in ticks
  MaxTime,    \* bound on the clock
  Mixes,      \* mixes of requests
  NoSnap, None

Radii == {"own", "default", "broadcast"}
Ops   == {"view", "near", "seen", "delete", "create", "socket"}

ASSUME InputsAssumption ==
  /\ Within \in [Radii -> SUBSET (Places \X Places)]
  /\ Lifetime \in Nat /\ MaxTime \in Nat
  /\ Mixes \subseteq SUBSET Ops

VARIABLES
  docs,      \* snaps: the document of each snap
  marks,     \* snap_seen: <<user, snap>>
  late,      \* marks that the snaps service stopped waiting for
  phase,     \* how far the process has started
  socket,    \* connections of the process
  locations, \* usersLocationMap: the place of a socket
  moving,    \* a locationChange of the socket that is not dispatched yet
  pc, job,   \* where each request waits, and what it is
  now,
  mix,       \* the requests of this behaviour
  viewed,    \* history: <<user, snap>> answered by findOne
  told       \* history: how often each socket was told of each snap

network == <<socket, locations, moving>>
vars == <<docs, marks, late, phase, network, pc, job, now, mix, viewed, told>>

\* expiresAt is None in documents older than the field.
Doc == [at : Places, expiresAt : Nat \cup {None}]

\* knew is what the user had been shown when the request began, listed what the
\* area query found, found what is left of it.
Job == [op : Ops, user : Users, snap : Snaps \cup {None}, place : Places \cup {None},
        radius : Radii, listed : SUBSET Snaps, found : SUBSET Snaps, knew : SUBSET Snaps]

ASSUME AbsentAssumption == NoSnap \notin Doc /\ None \notin Places \cup Snaps \cup Nat \cup Job

Init ==
  /\ docs \in [Snaps -> {NoSnap} \cup [at : Places, expiresAt : {None}]]
  /\ marks = {} /\ late = {} /\ viewed = {}
  /\ told = [x \in Sockets \X Snaps |-> 0]
  /\ phase = "down"
  /\ socket = [c \in Sockets |-> "new"]
  /\ locations = [c \in Sockets |-> None]
  /\ moving = [c \in Sockets |-> None]
  /\ pc = [h \in Handlers |-> "idle"]
  /\ job = [h \in Handlers |-> None]
  /\ now = 0
  /\ mix \in Mixes

-------------------------------------------------------------------------------
\* The process.

\* Mutant: the filter matches only documents that have the field.
BackfilledNull(d) == d

Backfilled(d) ==
  IF d # NoSnap /\ d.expiresAt = None THEN [d EXCEPT !.expiresAt = Lifetime] ELSE d

\* startAllMicroservices: requests are answered from here on.
Serve ==
  /\ phase = "down"
  /\ phase' = "serving"
  /\ UNCHANGED <<docs, marks, late, network, pc, job, now, mix, viewed, told>>

\* app.listen registers the gateway, whose afterInit makes an empty map, ...
AfterInit ==
  /\ phase = "serving"
  /\ phase' = "mapped"
  /\ locations' = [c \in Sockets |-> None]
  /\ UNCHANGED <<docs, marks, late, socket, moving, pc, job, now, mix, viewed, told>>

\* ... then calls onModuleInit, and opens the port that sockets connect to.  The
\* documents that lack the field are as old as the clock.
Backfill ==
  /\ phase = "mapped"
  /\ phase' = "listening"
  /\ docs' = [s \in Snaps |-> Backfilled(docs[s])]
  /\ UNCHANGED <<marks, late, network, pc, job, now, mix, viewed, told>>

\* Requests, connections and the map go with the process.
Crash ==
  /\ phase # "down"
  /\ phase' = "down"
  /\ pc' = [h \in Handlers |-> "idle"]
  /\ job' = [h \in Handlers |-> None]
  /\ socket' = [c \in Sockets |-> IF socket[c] = "new" THEN "new" ELSE "closed"]
  /\ locations' = [c \in Sockets |-> None]
  /\ UNCHANGED <<docs, marks, late, moving, now, mix, viewed, told>>

-------------------------------------------------------------------------------
\* Requests, and findOne.

Viewed(u) == {s \in Snaps : <<u, s>> \in viewed}

Request(op, u, s, p) ==
  [op |-> op, user |-> u, snap |-> s, place |-> p, radius |-> "own",
   listed |-> {}, found |-> {}, knew |-> Viewed(u)]

Begin(h, stage, j) ==
  /\ phase # "down"
  /\ j.op \in mix
  /\ pc[h] = "idle"
  /\ pc' = [pc EXCEPT ![h] = stage]
  /\ job' = [job EXCEPT ![h] = j]

Goto(h, stage) == pc' = [pc EXCEPT ![h] = stage] /\ job' = job
GotoWith(h, stage, j) == pc' = [pc EXCEPT ![h] = stage] /\ job' = [job EXCEPT ![h] = j]
End(h) == GotoWith(h, "idle", None)

rest == <<phase, network, now, mix>>

\* findOne: the document, its URLs, is it marked, mark it.
FindOne(h, u, s) ==
  /\ docs[s] # NoSnap                                   \* otherwise 404
  /\ Begin(h, "sign", Request("view", u, s, None))
  /\ UNCHANGED <<docs, marks, late, viewed, told, rest>>

SignImages(h) ==
  /\ pc[h] = "sign"
  /\ Goto(h, "getSeen")
  /\ UNCHANGED <<docs, marks, late, viewed, told, rest>>

Mark(h) == <<job[h].user, job[h].snap>>
Shown(h) == viewed' = viewed \cup {Mark(h)}

\* Mutant: the mark is inserted without a look for it.
GetSeenBlind(h) ==
  /\ pc[h] = "getSeen"
  /\ Goto(h, "saveInsert")
  /\ UNCHANGED <<docs, marks, late, viewed, told, rest>>

GetSeen(h) ==
  /\ pc[h] = "getSeen"
  /\ IF Mark(h) \in marks
     THEN Shown(h) /\ End(h)
     ELSE Goto(h, "saveSelect") /\ viewed' = viewed
  /\ UNCHANGED <<docs, marks, late, told, rest>>

\* The users service saves the mark: a SELECT by the primary key, an INSERT.
SaveSelect(h) ==
  /\ pc[h] = "saveSelect"
  /\ IF Mark(h) \in marks
     THEN Shown(h) /\ End(h)
     ELSE Goto(h, "saveInsert") /\ viewed' = viewed
  /\ UNCHANGED <<docs, marks, late, told, rest>>

\* Mutant: the mark is not waited for.
AnsweredUnmarked(h) ==
  /\ pc[h] = "saveInsert"
  /\ Shown(h)
  /\ late' = late \cup {Mark(h)}
  /\ End(h)
  /\ UNCHANGED <<docs, marks, told, rest>>

\* A mark that another view inserted meanwhile is a duplicate key: the view is
\* answered with 404 although the snap is there.
SaveInsert(h) ==
  /\ pc[h] = "saveInsert"
  /\ marks' = marks \cup {Mark(h)}
  /\ IF Mark(h) \in marks
     THEN Goto(h, "thrown") /\ viewed' = viewed
     ELSE Shown(h) /\ End(h)
  /\ UNCHANGED <<docs, late, told, rest>>

\* A query or an RPC fails, and with it the request; a timeout may leave the
\* users service at work on the mark.
Abort(h) ==
  /\ pc[h] \notin {"idle", "answer", "thrown"}
  /\ late' \in {late, late \cup IF pc[h] \in {"saveSelect", "saveInsert"} THEN {Mark(h)} ELSE {}}
  /\ End(h)
  /\ UNCHANGED <<docs, marks, viewed, told, rest>>

LateMark(x) ==
  /\ x \in late
  /\ late' = late \ {x}
  /\ marks' = marks \cup {x}
  /\ UNCHANGED <<docs, viewed, told, pc, job, rest>>

-------------------------------------------------------------------------------
\* The lists of a user's seen and unseen snaps.

FindNearby(h, op, u, p) ==
  /\ op \in {"near", "seen"}
  /\ Begin(h, "params", Request(op, u, None, p))
  /\ UNCHANGED <<docs, marks, late, viewed, told, rest>>

\* Settings that cannot be loaded are replaced by the defaults.
LoadParams(h) ==
  /\ pc[h] = "params"
  /\ \E r \in {"own", "default"} :
       GotoWith(h, "query", [job[h] EXCEPT !.radius = r])
  /\ UNCHANGED <<docs, marks, late, viewed, told, rest>>

Active(s) == docs[s] # NoSnap /\ docs[s].expiresAt # None /\ docs[s].expiresAt > now

Near(s, p, radius) == <<p, docs[s].at>> \in Within[radius]

\* A failure of both geo queries is answered with an empty list.
FindNear(h) ==
  /\ pc[h] = "query"
  /\ \E S \in {{s \in Snaps : Active(s) /\ Near(s, job[h].place, job[h].radius)}, {}} :
       GotoWith(h, IF S = {} THEN "answer" ELSE "filter", [job[h] EXCEPT !.listed = S])
  /\ UNCHANGED <<docs, marks, late, viewed, told, rest>>

\* Mutant: the list of near snaps is not split.
FilterNothing(h) ==
  /\ pc[h] = "filter"
  /\ GotoWith(h, "answer", [job[h] EXCEPT !.found = job[h].listed])
  /\ UNCHANGED <<docs, marks, late, viewed, told, rest>>

FilterSeen(h) ==
  /\ pc[h] = "filter"
  /\ GotoWith(h, "answer", [job[h] EXCEPT !.found =
       {s \in job[h].listed : (job[h].op = "seen") <=> (<<job[h].user, s>> \in marks)}])
  /\ UNCHANGED <<docs, marks, late, viewed, told, rest>>

Answer(h) ==
  /\ pc[h] \in {"answer", "thrown"}
  /\ End(h)
  /\ UNCHANGED <<docs, marks, late, viewed, told, rest>>

-------------------------------------------------------------------------------
\* Snaps come and go, and time passes.

\* Mutant: a replay goes on to the announcement.
CreateReplaying(h, u, s, p) ==
  /\ Begin(h, "announce", Request("create", u, s, p))
  /\ docs' = IF docs[s] # NoSnap THEN docs
             ELSE [docs EXCEPT ![s] = [at |-> p, expiresAt |-> now + Lifetime]]
  /\ UNCHANGED <<marks, late, viewed, told, rest>>

\* The create with the idempotency key of s.  When the snap is there already it
\* is the answer, and nothing changes.
Create(h, u, s, p) ==
  /\ docs[s] = NoSnap
  /\ Begin(h, "announce", Request("create", u, s, p))
  /\ docs' = [docs EXCEPT ![s] = [at |-> p, expiresAt |-> now + Lifetime]]
  /\ UNCHANGED <<marks, late, viewed, told, rest>>

\* findNearbyUsers: there are none before the map is made.
Nearby(p) == {c \in Sockets : locations[c] # None /\ <<p, locations[c]>> \in Within["broadcast"]}

\* handleNewSnap, when the insert has been awaited.
Announce(h) ==
  /\ pc[h] = "announce"
  /\ told' = [x \in Sockets \X Snaps |->
       IF x[2] = job[h].snap /\ x[1] \in Nearby(job[h].place) THEN told[x] + 1 ELSE told[x]]
  /\ End(h)
  /\ UNCHANGED <<docs, marks, late, viewed, rest>>

Delete(s) ==
  /\ "delete" \in mix
  /\ docs[s] # NoSnap
  /\ docs' = [docs EXCEPT ![s] = NoSnap]
  /\ UNCHANGED <<marks, late, phase, network, pc, job, now, mix, viewed, told>>

Tick ==
  /\ now < MaxTime
  /\ now' = now + 1
  /\ UNCHANGED <<docs, marks, late, phase, network, pc, job, mix, viewed, told>>

-------------------------------------------------------------------------------
\* Sockets.

elsewhere == <<docs, marks, late, phase, pc, job, now, mix, viewed, told>>

\* handleConnection closes a connection whose token is missing or invalid.
Connect(c) ==
  /\ "socket" \in mix
  /\ phase = "listening"
  /\ socket[c] = "new"
  /\ socket' = [socket EXCEPT ![c] = "open"] \/ socket' = [socket EXCEPT ![c] = "closed"]
  /\ UNCHANGED <<locations, moving, elsewhere>>

\* The client sends locationChange, ...
Move(c, p) ==
  /\ socket[c] = "open"
  /\ moving[c] = None
  /\ moving' = [moving EXCEPT ![c] = p]
  /\ UNCHANGED <<socket, locations, elsewhere>>

\* ... which is handled unless the connection has closed meanwhile.
LocationChange(c) ==
  /\ moving[c] # None
  /\ moving' = [moving EXCEPT ![c] = None]
  /\ locations' = IF socket[c] = "open"
                  THEN [locations EXCEPT ![c] = moving[c]] ELSE locations
  /\ UNCHANGED <<socket, elsewhere>>

\* Mutant: the entry of the socket is left in the map.
DisconnectKeeping(c) ==
  /\ socket[c] = "open"
  /\ socket' = [socket EXCEPT ![c] = "closed"]
  /\ UNCHANGED <<locations, moving, elsewhere>>

HandleDisconnect(c) ==
  /\ socket[c] = "open"
  /\ socket' = [socket EXCEPT ![c] = "closed"]
  /\ locations' = [locations EXCEPT ![c] = None]
  /\ UNCHANGED <<moving, elsewhere>>

-------------------------------------------------------------------------------
Continue(h) ==
  \/ SignImages(h) \/ GetSeen(h) \/ SaveSelect(h) \/ SaveInsert(h)
  \/ LoadParams(h) \/ FindNear(h) \/ FilterSeen(h) \/ Answer(h) \/ Announce(h)

StartUp == Serve \/ AfterInit \/ Backfill

View(u, s) == \E h \in Handlers : FindOne(h, u, s)

Next ==
  \/ StartUp \/ Crash \/ Tick
  \/ \E h \in Handlers : Continue(h) \/ Abort(h)
  \/ \E u \in Users, s \in Snaps : View(u, s)
  \/ \E h \in Handlers, op \in Ops, u \in Users, p \in Places : FindNearby(h, op, u, p)
  \/ \E h \in Handlers, u \in Users, s \in Snaps, p \in Places : Create(h, u, s, p)
  \/ \E x \in Users \X Snaps : LateMark(x)
  \/ \E s \in Snaps : Delete(s)
  \/ \E c \in Sockets : Connect(c) \/ LocationChange(c) \/ HandleDisconnect(c)
  \/ \E c \in Sockets, p \in Places : Move(c, p)

Spec == Init /\ [][Next]_vars

\* Requests are carried on, the process is started again, and clients repeat a
\* view that was not answered.
Fairness ==
  /\ WF_vars(StartUp)
  /\ \A h \in Handlers : WF_vars(Continue(h))
  /\ \A u \in Users, s \in Snaps : SF_vars(View(u, s))

FairSpec == Spec /\ Fairness

-------------------------------------------------------------------------------
\* Once sockets can connect, every document has its expiresAt: the backfill of
\* onModuleInit has filled it in, and a create always sets it.
TypeOK ==
  /\ docs \in [Snaps -> {NoSnap} \cup Doc]
  /\ phase \in {"down", "serving", "mapped", "listening"}
  /\ phase = "listening" => \A s \in Snaps : docs[s] # NoSnap => docs[s].expiresAt # None
  /\ marks \subseteq Users \X Snaps
  /\ late \subseteq Users \X Snaps
  /\ viewed \subseteq Users \X Snaps
  /\ socket \in [Sockets -> {"new", "open", "closed"}]
  /\ locations \in [Sockets -> Places \cup {None}]
  /\ moving \in [Sockets -> Places \cup {None}]
  /\ told \in [Sockets \X Snaps -> Nat]
  /\ now \in 0..MaxTime
  /\ pc \in [Handlers -> {"idle", "sign", "getSeen", "saveSelect", "saveInsert", "thrown",
                          "params", "query", "filter", "answer", "announce"}]
  /\ job \in [Handlers -> Job \cup {None}]
  /\ \A h \in Handlers : pc[h] = "idle" <=> job[h] = None

\* What a user was shown before a list was asked for is left out of the near
\* list, and moved to the seen list: findOne answers only when the users service
\* has the mark, whatever other views and late marks do meanwhile.
ViewedGoesToSeen ==
  \A h \in Handlers : pc[h] = "answer" =>
    /\ job[h].op = "near" => job[h].found \cap job[h].knew = {}
    /\ job[h].op = "seen" => job[h].listed \cap job[h].knew \subseteq job[h].found

\* The in-memory map holds no socket that has gone: an update of the location
\* that is still on its way when its socket closes does not put it back.
LocationOfConnected ==
  \A c \in Sockets : locations[c] # None => socket[c] = "open" /\ phase = "listening"

\* No socket is told of a snap twice, however often its create is repeated and
\* wherever the process stopped.
AnnouncedOnce == \A x \in Sockets \X Snaps : told[x] <= 1

\* When failures end, a user who repeats the view of a snap is shown it, or it
\* is gone: a mark left by a view that failed never makes the next ones fail.
RetriedViewAnswered ==
  \A u \in Users, s \in Snaps :
    <>[][~Crash /\ \A h \in Handlers : ~Abort(h)]_vars
      => ("view" \in mix /\ docs[s] # NoSnap ~> <<u, s>> \in viewed \/ docs[s] = NoSnap)
===============================================================================
