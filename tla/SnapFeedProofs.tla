---------------------------- MODULE SnapFeedProofs ----------------------------
(***************************************************************************)
(* Theorems of SnapFeed, for any users, snaps, places, sockets and         *)
(* requests at once.                                                       *)
(***************************************************************************)
EXTENDS SnapFeed, TLAPS

ViewStages == {"sign", "getSeen", "saveSelect", "saveInsert", "thrown"}
ListStages == {"params", "query", "filter", "answer"}
Stages     == {"idle", "announce"} \cup ViewStages \cup ListStages

\* What a request at a stage is about.
JobOK(stage, j) ==
  /\ j \in Job \cup {None}
  /\ stage = "idle" <=> j = None
  /\ stage \in ViewStages => j.op = "view" /\ j.snap \in Snaps
  /\ stage \in ListStages => j.op \in {"near", "seen"}
  /\ stage = "announce" => j.op = "create" /\ j.snap \in Snaps /\ j.op \in mix

JobsOK ==
  /\ pc \in [Handlers -> Stages]
  /\ job \in [Handlers -> Job \cup {None}]
  /\ \A h \in Handlers : JobOK(pc[h], job[h])

Dated(s) == docs[s] # NoSnap => docs[s].expiresAt # None

Typed ==
  /\ docs \in [Snaps -> {NoSnap} \cup Doc]
  /\ phase \in {"down", "serving", "mapped", "listening"}
  /\ phase = "listening" => \A s \in Snaps : Dated(s)
  /\ marks \subseteq Users \X Snaps
  /\ late \subseteq Users \X Snaps
  /\ viewed \subseteq Users \X Snaps
  /\ told \in [Sockets \X Snaps -> Nat]
  /\ now \in 0..MaxTime
  /\ mix \in Mixes

NetworkOK ==
  /\ socket \in [Sockets -> {"new", "open", "closed"}]
  /\ locations \in [Sockets -> Places \cup {None}]
  /\ moving \in [Sockets -> Places \cup {None}]
  /\ \A c \in Sockets : socket[c] = "open" => phase = "listening"
  /\ LocationOfConnected

TypeInv == JobsOK /\ Typed /\ NetworkOK

LEMMA TypeInit == Init => TypeInv
<1> SUFFICES ASSUME Init PROVE TypeInv
  OBVIOUS
<1> USE InputsAssumption, AbsentAssumption
<1>1. JobsOK
  BY DEF Init, JobsOK, JobOK, Stages, ViewStages, ListStages
<1>2. Typed
  <2>1. docs \in [Snaps -> {NoSnap} \cup Doc]
    BY DEF Init, Doc
  <2>2. now \in 0..MaxTime
    BY DEF Init
  <2> QED
    BY <2>1, <2>2 DEF Init, Typed
<1>3. NetworkOK
  BY DEF Init, NetworkOK, LocationOfConnected
<1> QED
  BY <1>1, <1>2, <1>3 DEF TypeInv

-------------------------------------------------------------------------------
\* The requests.

\* A handler that goes to a stage with a request that is right for it.
LEMMA Moves ==
  ASSUME JobsOK, mix' = mix,
         NEW h \in Handlers, NEW stage \in Stages, NEW j, JobOK(stage, j),
         pc' = [pc EXCEPT ![h] = stage], job' = [job EXCEPT ![h] = j]
  PROVE  JobsOK'
<1>1. pc' \in [Handlers -> Stages] /\ job' \in [Handlers -> Job \cup {None}]
  BY DEF JobsOK, JobOK
<1>2. ASSUME NEW g \in Handlers PROVE JobOK(pc'[g], job'[g])
  <2>1. CASE g = h
    BY <2>1 DEF JobsOK
  <2>2. CASE g # h
    BY <2>2 DEF JobsOK
  <2> QED
    BY <2>1, <2>2
<1> QED
  BY <1>1, <1>2 DEF JobsOK, JobOK

LEMMA EndMoves ==
  ASSUME JobsOK, mix' = mix, NEW h \in Handlers, End(h) PROVE JobsOK'
<1>1. JobOK("idle", None)
  BY AbsentAssumption DEF JobOK, ViewStages, ListStages
<1> QED
  BY <1>1, Moves DEF End, GotoWith, Stages

\* A request goes on with what it was, from one stage of a view to the next.
LEMMA ViewMoves ==
  ASSUME JobsOK, mix' = mix, NEW h \in Handlers, pc[h] \in ViewStages,
         NEW stage \in ViewStages, Goto(h, stage)
  PROVE  JobsOK'
<1>1. JobOK(pc[h], job[h]) /\ job \in [Handlers -> Job \cup {None}]
  BY DEF JobsOK
<1>2. job[h] # None
  BY <1>1 DEF JobOK, ViewStages
<1>3. JobOK(stage, job[h])
  BY <1>1, <1>2 DEF JobOK, ViewStages, ListStages
<1>4. job' = [job EXCEPT ![h] = job[h]] /\ pc' = [pc EXCEPT ![h] = stage]
  BY <1>1 DEF Goto
<1> QED
  BY <1>3, <1>4, Moves DEF Stages

\* A list goes on with what it found.
LEMMA ListMoves ==
  ASSUME JobsOK, mix' = mix, NEW h \in Handlers,
         NEW stage \in ListStages, NEW j \in Job, j.op \in {"near", "seen"},
         GotoWith(h, stage, j)
  PROVE  JobsOK'
<1>1. JobOK(stage, j)
  BY AbsentAssumption DEF JobOK, ViewStages, ListStages
<1> QED
  BY <1>1, Moves DEF GotoWith, Stages

LEMMA BeginMoves ==
  ASSUME JobsOK, Typed, mix' = mix, NEW h \in Handlers, NEW stage \in Stages \ {"idle"},
         NEW op \in Ops, NEW u \in Users, NEW s \in Snaps \cup {None},
         NEW p \in Places \cup {None},
         stage \in ViewStages => op = "view" /\ s \in Snaps,
         stage \in ListStages => op \in {"near", "seen"},
         stage = "announce" => op = "create" /\ s \in Snaps,
         Begin(h, stage, Request(op, u, s, p))
  PROVE  JobsOK'
<1> DEFINE j == Request(op, u, s, p)
<1>1. /\ j.op = op /\ j.snap = s /\ j \in Job
  BY DEF Request, Job, Viewed, Radii
<1>2. op \in mix
  BY <1>1 DEF Begin
<1> HIDE DEF j
<1>3. JobOK(stage, j)
  BY <1>1, <1>2, AbsentAssumption DEF JobOK
<1> QED
  BY <1>3, Moves DEF Begin, j

\* A stage of a view or of a list, an announcement, or the end of a request.
LEMMA RequestStep ==
  ASSUME TypeInv, NEW h \in Handlers, Continue(h) \/ Abort(h) PROVE TypeInv'
<1> USE DEF TypeInv
<1>1. UNCHANGED rest /\ UNCHANGED docs
  BY DEF Continue, SignImages, GetSeen, SaveSelect, SaveInsert, LoadParams, FindNear,
     FilterSeen, Answer, Announce, Abort
<1>2. NetworkOK' /\ mix' = mix
  BY <1>1 DEF NetworkOK, LocationOfConnected, rest, network
<1>3. JobOK(pc[h], job[h]) /\ pc[h] \in Stages /\ job[h] \in Job \cup {None}
  BY DEF JobsOK
<1>4. ASSUME pc[h] \in {"getSeen", "saveSelect", "saveInsert"} PROVE Mark(h) \in Users \X Snaps
  <2>1. job[h] \in Job /\ job[h].snap \in Snaps
    BY <1>3, <1>4 DEF JobOK, ViewStages
  <2> QED
    BY <2>1 DEF Mark, Job
<1>5. Typed'
  <2> USE <1>1 DEF Typed, Dated, rest
  <2>1. CASE SignImages(h) \/ LoadParams(h) \/ FindNear(h) \/ FilterSeen(h) \/ Answer(h)
    BY <2>1 DEF SignImages, LoadParams, FindNear, FilterSeen, Answer
  <2>2. CASE GetSeen(h) \/ SaveSelect(h) \/ SaveInsert(h)
    <3>1. Mark(h) \in Users \X Snaps
      BY <1>4, <2>2 DEF GetSeen, SaveSelect, SaveInsert
    <3>2. /\ marks' \subseteq marks \cup {Mark(h)} /\ viewed' \subseteq viewed \cup {Mark(h)}
          /\ UNCHANGED <<late, told>>
      BY <2>2 DEF GetSeen, SaveSelect, SaveInsert, Shown
    <3> QED
      BY <3>1, <3>2
  <2>3. CASE Announce(h)
    <3>1. told' \in [Sockets \X Snaps -> Nat] /\ UNCHANGED <<marks, late, viewed>>
      BY <2>3 DEF Announce
    <3> QED
      BY <3>1
  <2>4. CASE Abort(h)
    <3>1. late' \subseteq late \cup (IF pc[h] \in {"saveSelect", "saveInsert"} THEN {Mark(h)} ELSE {})
      BY <2>4 DEF Abort
    <3>2. late' \subseteq Users \X Snaps
      BY <1>4, <3>1
    <3> QED
      BY <2>4, <3>2 DEF Abort
  <2> QED
    BY <2>1, <2>2, <2>3, <2>4 DEF Continue
<1>6. JobsOK'
  <2>1. CASE SignImages(h)
    BY <1>2, <2>1, ViewMoves DEF SignImages, ViewStages
  <2>2. CASE GetSeen(h)
    BY <1>2, <2>2, ViewMoves, EndMoves DEF GetSeen, ViewStages
  <2>3. CASE SaveSelect(h)
    BY <1>2, <2>3, ViewMoves, EndMoves DEF SaveSelect, ViewStages
  <2>4. CASE SaveInsert(h)
    BY <1>2, <2>4, ViewMoves, EndMoves DEF SaveInsert, ViewStages
  <2>5. ASSUME pc[h] \in ListStages PROVE job[h] \in Job /\ job[h].op \in {"near", "seen"}
    BY <1>3, <2>5 DEF JobOK, ListStages
  <2>6. CASE LoadParams(h)
    <3>1. PICK r \in {"own", "default"} : GotoWith(h, "query", [job[h] EXCEPT !.radius = r])
      BY <2>6 DEF LoadParams
    <3>2. job[h] \in Job /\ job[h].op \in {"near", "seen"}
      BY <2>5, <2>6 DEF LoadParams, ListStages
    <3>3. [job[h] EXCEPT !.radius = r] \in Job /\ [job[h] EXCEPT !.radius = r].op = job[h].op
      BY <3>2 DEF Job, Radii
    <3> QED
      BY <1>2, <3>1, <3>2, <3>3, ListMoves DEF ListStages
  <2>7. CASE FindNear(h)
    <3>1. PICK S \in SUBSET Snaps :
            GotoWith(h, IF S = {} THEN "answer" ELSE "filter", [job[h] EXCEPT !.listed = S])
      BY <2>7 DEF FindNear
    <3>2. job[h] \in Job /\ job[h].op \in {"near", "seen"}
      BY <2>5, <2>7 DEF FindNear, ListStages
    <3>3. [job[h] EXCEPT !.listed = S] \in Job /\ [job[h] EXCEPT !.listed = S].op = job[h].op
      BY <3>2 DEF Job
    <3> QED
      BY <1>2, <3>1, <3>2, <3>3, ListMoves DEF ListStages
  <2>8. CASE FilterSeen(h)
    <3> DEFINE S == {s \in job[h].listed : (job[h].op = "seen") <=> (<<job[h].user, s>> \in marks)}
    <3>1. GotoWith(h, "answer", [job[h] EXCEPT !.found = S])
      BY <2>8 DEF FilterSeen
    <3>2. job[h] \in Job /\ job[h].op \in {"near", "seen"}
      BY <2>5, <2>8 DEF FilterSeen, ListStages
    <3>3. S \in SUBSET Snaps
      BY <3>2 DEF Job
    <3> HIDE DEF S
    <3>4. [job[h] EXCEPT !.found = S] \in Job /\ [job[h] EXCEPT !.found = S].op = job[h].op
      BY <3>2, <3>3 DEF Job
    <3> QED
      BY <1>2, <3>1, <3>2, <3>4, ListMoves DEF ListStages
  <2>9. CASE Answer(h) \/ Announce(h) \/ Abort(h)
    BY <1>2, <2>9, EndMoves DEF Answer, Announce, Abort
  <2> QED
    BY <2>1, <2>2, <2>3, <2>4, <2>6, <2>7, <2>8, <2>9 DEF Continue
<1> QED
  BY <1>2, <1>5, <1>6

\* A request arrives.
LEMMA ArrivalStep ==
  ASSUME TypeInv, NEW h \in Handlers, NEW u \in Users,
         \/ \E s \in Snaps : FindOne(h, u, s)
         \/ \E op \in Ops, p \in Places : FindNearby(h, op, u, p)
         \/ \E s \in Snaps, p \in Places : Create(h, u, s, p)
  PROVE  TypeInv'
<1> USE DEF TypeInv
<1>1. UNCHANGED rest /\ UNCHANGED <<marks, late, viewed, told>>
  BY DEF FindOne, FindNearby, Create
<1>2. NetworkOK' /\ mix' = mix
  BY <1>1 DEF NetworkOK, LocationOfConnected, rest, network
<1>3. ASSUME NEW s \in Snaps, FindOne(h, u, s) PROVE TypeInv'
  <2>1. Typed'
    BY <1>1, <1>3 DEF Typed, Dated, FindOne, rest
  <2>2. JobsOK'
    BY <1>2, <1>3, BeginMoves DEF FindOne, Ops, Stages, ViewStages, ListStages
  <2> QED
    BY <1>2, <2>1, <2>2
<1>4. ASSUME NEW op \in Ops, NEW p \in Places, FindNearby(h, op, u, p) PROVE TypeInv'
  <2>1. Typed'
    BY <1>1, <1>4 DEF Typed, Dated, FindNearby, rest
  <2>2. JobsOK'
    BY <1>2, <1>4, BeginMoves DEF FindNearby, Stages, ViewStages, ListStages
  <2> QED
    BY <1>2, <2>1, <2>2
<1>5. ASSUME NEW s \in Snaps, NEW p \in Places, Create(h, u, s, p) PROVE TypeInv'
  <2> DEFINE d == [at |-> p, expiresAt |-> now + Lifetime]
  <2>1. docs' = [docs EXCEPT ![s] = d]
    BY <1>5 DEF Create
  <2>2. now + Lifetime \in Nat
    BY InputsAssumption DEF Typed
  <2>3. d \in Doc /\ d.expiresAt # None
    BY <2>2, AbsentAssumption DEF Doc
  <2> HIDE DEF d
  <2>4. Typed'
    BY <1>1, <2>1, <2>3 DEF Typed, Dated, rest
  <2>5. JobsOK'
    BY <1>2, <1>5, BeginMoves DEF Create, Ops, Stages, ViewStages, ListStages
  <2> QED
    BY <1>2, <2>4, <2>5
<1> QED
  BY <1>3, <1>4, <1>5

\* The process starts, and stops.
LEMMA ProcessStep == ASSUME TypeInv, StartUp \/ Crash PROVE TypeInv'
<1> USE DEF TypeInv
<1>1. CASE Serve
  <2>1. JobsOK' /\ Typed'
    BY <1>1 DEF Serve, JobsOK, JobOK, Typed, Dated
  <2>2. NetworkOK'
    BY <1>1 DEF Serve, network, NetworkOK, LocationOfConnected
  <2> QED
    BY <2>1, <2>2
<1>2. CASE AfterInit
  <2>1. JobsOK' /\ Typed'
    BY <1>2 DEF AfterInit, JobsOK, JobOK, Typed, Dated
  <2>2. NetworkOK'
    BY <1>2 DEF AfterInit, NetworkOK, LocationOfConnected
  <2> QED
    BY <2>1, <2>2
<1>3. CASE Backfill
  <2>1. JobsOK' /\ NetworkOK'
    BY <1>3 DEF Backfill, network, JobsOK, JobOK, NetworkOK, LocationOfConnected
  <2>2. ASSUME NEW s \in Snaps
        PROVE  /\ docs'[s] \in {NoSnap} \cup Doc
               /\ docs'[s] # NoSnap => docs'[s].expiresAt # None
    <3>1. docs'[s] = Backfilled(docs[s]) /\ docs[s] \in {NoSnap} \cup Doc
      BY <1>3 DEF Backfill, Typed
    <3>2. CASE docs[s] # NoSnap /\ docs[s].expiresAt = None
      <4>1. docs'[s] = [docs[s] EXCEPT !.expiresAt = Lifetime]
        BY <3>1, <3>2 DEF Backfilled
      <4>2. docs'[s] \in Doc /\ docs'[s].expiresAt = Lifetime
        BY <3>1, <3>2, <4>1, InputsAssumption DEF Doc
      <4> QED
        BY <4>2, InputsAssumption, AbsentAssumption
    <3>3. CASE ~(docs[s] # NoSnap /\ docs[s].expiresAt = None)
      <4>1. docs'[s] = docs[s]
        BY <3>1, <3>3 DEF Backfilled
      <4> QED
        BY <3>1, <3>3, <4>1
    <3> QED
      BY <3>2, <3>3
  <2>3. docs' \in [Snaps -> {NoSnap} \cup Doc]
    BY <1>3, <2>2 DEF Backfill
  <2>4. Typed'
    BY <1>3, <2>2, <2>3 DEF Backfill, Typed, Dated
  <2> QED
    BY <2>1, <2>4
<1>4. CASE Crash
  <2>1. Typed' /\ NetworkOK'
    BY <1>4 DEF Crash, Typed, Dated, NetworkOK, LocationOfConnected
  <2>2. JobsOK'
    BY <1>4, AbsentAssumption DEF Crash, JobsOK, JobOK, Stages, ViewStages, ListStages
  <2> QED
    BY <2>1, <2>2
<1> QED
  BY <1>1, <1>2, <1>3, <1>4 DEF StartUp

\* Sockets come, move and go.
LEMMA SocketStep ==
  ASSUME TypeInv, NEW c \in Sockets,
         \/ Connect(c) \/ LocationChange(c) \/ HandleDisconnect(c)
         \/ \E p \in Places : Move(c, p)
  PROVE  TypeInv'
<1> USE DEF TypeInv
<1>1. UNCHANGED elsewhere
  BY DEF Connect, LocationChange, HandleDisconnect, Move
<1>2. JobsOK' /\ Typed'
  BY <1>1 DEF elsewhere, JobsOK, JobOK, Typed, Dated
<1>3. CASE Connect(c)
  <2>1. NetworkOK'
    BY <1>1, <1>3 DEF Connect, elsewhere, NetworkOK, LocationOfConnected
  <2> QED
    BY <1>2, <2>1
<1>4. CASE LocationChange(c)
  <2>1. NetworkOK'
    BY <1>1, <1>4 DEF LocationChange, elsewhere, NetworkOK, LocationOfConnected
  <2> QED
    BY <1>2, <2>1
<1>5. CASE HandleDisconnect(c)
  <2>1. NetworkOK'
    BY <1>1, <1>5 DEF HandleDisconnect, elsewhere, NetworkOK, LocationOfConnected
  <2> QED
    BY <1>2, <2>1
<1>6. CASE \E p \in Places : Move(c, p)
  <2>1. NetworkOK'
    BY <1>1, <1>6 DEF Move, elsewhere, NetworkOK, LocationOfConnected
  <2> QED
    BY <1>2, <2>1
<1> QED
  BY <1>3, <1>4, <1>5, <1>6

\* Time passes, a snap is deleted, or a mark arrives late.
LEMMA OtherStep ==
  ASSUME TypeInv,
         Tick \/ (\E s \in Snaps : Delete(s)) \/ \E x \in Users \X Snaps : LateMark(x)
  PROVE  TypeInv'
<1> USE DEF TypeInv
<1>1. UNCHANGED <<network, pc, job, mix, phase>>
  BY DEF Tick, Delete, LateMark, rest
<1>2. JobsOK' /\ NetworkOK'
  BY <1>1 DEF network, JobsOK, JobOK, NetworkOK, LocationOfConnected
<1>3. Typed'
  <2>1. CASE Tick
    <3>1. now' \in 0..MaxTime
      BY <2>1, InputsAssumption DEF Tick, Typed
    <3> QED
      BY <2>1, <3>1 DEF Tick, Typed, Dated
  <2>2. CASE \E s \in Snaps : Delete(s)
    BY <2>2 DEF Delete, Typed, Dated
  <2>3. CASE \E x \in Users \X Snaps : LateMark(x)
    BY <2>3 DEF LateMark, rest, Typed, Dated
  <2> QED
    BY <2>1, <2>2, <2>3
<1> QED
  BY <1>2, <1>3

LEMMA TypeStep == TypeInv /\ [Next]_vars => TypeInv'
<1> SUFFICES ASSUME TypeInv, [Next]_vars PROVE TypeInv'
  OBVIOUS
<1>1. CASE UNCHANGED vars
  BY <1>1 DEF vars, network, TypeInv, JobsOK, JobOK, Typed, Dated, NetworkOK, LocationOfConnected
<1>2. CASE \E u \in Users, s \in Snaps : View(u, s)
  BY <1>2, ArrivalStep DEF View
<1>3. CASE \E h \in Handlers, op \in Ops, u \in Users, p \in Places : FindNearby(h, op, u, p)
  BY <1>3, ArrivalStep
<1>4. CASE \E h \in Handlers, u \in Users, s \in Snaps, p \in Places : Create(h, u, s, p)
  BY <1>4, ArrivalStep
<1>5. CASE \E h \in Handlers : Continue(h) \/ Abort(h)
  BY <1>5, RequestStep
<1>6. CASE \E c \in Sockets : \/ Connect(c) \/ LocationChange(c) \/ HandleDisconnect(c)
                               \/ \E p \in Places : Move(c, p)
  BY <1>6, SocketStep
<1> QED
  BY <1>1, <1>2, <1>3, <1>4, <1>5, <1>6, ProcessStep, OtherStep DEF Next

LEMMA TypeInvHolds == Spec => []TypeInv
BY TypeInit, TypeStep, PTL DEF Spec

\* The types are right in every state, and every document has its expiresAt by
\* the time that sockets can connect.
THEOREM TypeCorrect == Spec => []TypeOK
<1>1. TypeInv => TypeOK
  BY DEF TypeInv, JobsOK, JobOK, Typed, Dated, NetworkOK, TypeOK, Stages, ViewStages, ListStages
<1> QED
  BY <1>1, TypeInvHolds, PTL

\* Wherever the process stops, and in whatever order a location, a close and a
\* connection are handled, the map has only sockets of this process that are open.
THEOREM LocationOfConnectedHolds == Spec => []LocationOfConnected
<1>1. TypeInv => LocationOfConnected
  BY DEF TypeInv, NetworkOK
<1> QED
  BY <1>1, TypeInvHolds, PTL

-------------------------------------------------------------------------------
\* Views and lists.

\* What a request knows is marked, and it has found nothing before the filter.
FeedOK(stage, j, marked) == j # None =>
  /\ \A s \in j.knew : <<j.user, s>> \in marked
  /\ stage \in {"params", "query", "filter"} => j.found = {}
  /\ stage = "answer" =>
       /\ j.op = "near" => j.found \cap j.knew = {}
       /\ j.op = "seen" => j.listed \cap j.knew \subseteq j.found

FeedInv ==
  /\ viewed \subseteq marks
  /\ \A h \in Handlers : FeedOK(pc[h], job[h], marks)

LEMMA FeedMoves ==
  ASSUME TypeInv, FeedInv, marks \subseteq marks', viewed' \subseteq marks',
         NEW h \in Handlers, NEW stage, NEW j, FeedOK(stage, j, marks'),
         pc' = [pc EXCEPT ![h] = stage], job' = [job EXCEPT ![h] = j]
  PROVE  FeedInv'
<1>1. ASSUME NEW g \in Handlers PROVE FeedOK(pc'[g], job'[g], marks')
  <2>1. CASE g = h
    BY <2>1 DEF TypeInv, JobsOK
  <2>2. CASE g # h
    <3>1. pc'[g] = pc[g] /\ job'[g] = job[g] /\ FeedOK(pc[g], job[g], marks)
      BY <2>2 DEF TypeInv, JobsOK, FeedInv
    <3> QED
      BY <3>1 DEF FeedOK
  <2> QED
    BY <2>1, <2>2
<1> QED
  BY <1>1 DEF FeedInv

LEMMA FeedEnds ==
  ASSUME TypeInv, FeedInv, marks \subseteq marks', viewed' \subseteq marks',
         NEW h \in Handlers, End(h)
  PROVE  FeedInv'
<1>1. FeedOK("idle", None, marks')
  BY DEF FeedOK
<1> QED
  BY <1>1, FeedMoves DEF End, GotoWith

\* A view goes on knowing what it knew.
LEMMA FeedViews ==
  ASSUME TypeInv, FeedInv, marks \subseteq marks', viewed' \subseteq marks',
         NEW h \in Handlers, NEW stage \in ViewStages, Goto(h, stage)
  PROVE  FeedInv'
<1>1. FeedOK(stage, job[h], marks')
  BY DEF FeedInv, FeedOK, ViewStages
<1>2. job' = [job EXCEPT ![h] = job[h]] /\ pc' = [pc EXCEPT ![h] = stage]
  BY DEF Goto, TypeInv, JobsOK
<1> QED
  BY <1>1, <1>2, FeedMoves

LEMMA FeedBegins ==
  ASSUME TypeInv, FeedInv, UNCHANGED <<marks, viewed>>,
         NEW h \in Handlers, NEW stage, stage # "answer",
         NEW op, NEW u, NEW s, NEW p, Begin(h, stage, Request(op, u, s, p))
  PROVE  FeedInv'
<1> DEFINE j == Request(op, u, s, p)
<1>1. j.knew = Viewed(u) /\ j.user = u /\ j.found = {}
  BY DEF Request
<1>2. pc' = [pc EXCEPT ![h] = stage] /\ job' = [job EXCEPT ![h] = j]
  BY DEF Begin
<1> HIDE DEF j
<1>3. \A x \in Viewed(u) : <<u, x>> \in marks'
  BY DEF Viewed, FeedInv
<1>4. FeedOK(stage, j, marks')
  BY <1>1, <1>3 DEF FeedOK
<1>5. viewed' \subseteq marks' /\ marks \subseteq marks'
  BY DEF FeedInv
<1> QED
  BY <1>2, <1>4, <1>5, FeedMoves

LEMMA FeedContinues ==
  ASSUME TypeInv, FeedInv, NEW h \in Handlers, Continue(h) \/ Abort(h) PROVE FeedInv'
<1>1. JobOK(pc[h], job[h]) /\ job[h] \in Job \cup {None} /\ FeedOK(pc[h], job[h], marks)
  BY DEF TypeInv, JobsOK, FeedInv
<1>2. viewed \subseteq marks
  BY DEF FeedInv
<1>3. CASE SignImages(h)
  BY <1>2, <1>3, FeedViews DEF SignImages, ViewStages
<1>4. CASE GetSeen(h)
  BY <1>2, <1>4, FeedViews, FeedEnds DEF GetSeen, Shown, ViewStages
<1>5. CASE SaveSelect(h)
  BY <1>2, <1>5, FeedViews, FeedEnds DEF SaveSelect, Shown, ViewStages
<1>6. CASE SaveInsert(h)
  <2>1. marks \subseteq marks' /\ viewed' \subseteq marks'
    BY <1>2, <1>6 DEF SaveInsert, Shown
  <2> QED
    BY <1>6, <2>1, FeedViews, FeedEnds DEF SaveInsert, ViewStages
<1>7. CASE LoadParams(h)
  <2>1. PICK r \in {"own", "default"} : GotoWith(h, "query", [job[h] EXCEPT !.radius = r])
    BY <1>7 DEF LoadParams
  <2>2. pc[h] = "params" /\ UNCHANGED <<marks, viewed>>
    BY <1>7 DEF LoadParams
  <2>3. job[h] \in Job
    BY <1>1, <2>2 DEF JobOK
  <2> DEFINE j == [job[h] EXCEPT !.radius = r]
  <2>4. j.knew = job[h].knew /\ j.user = job[h].user /\ j.found = job[h].found
    BY <2>3 DEF Job
  <2>5. job[h] # None
    BY <2>3, AbsentAssumption
  <2> HIDE DEF j
  <2>6. FeedOK("query", j, marks')
    BY <1>1, <2>2, <2>4, <2>5 DEF FeedOK
  <2> QED
    BY <1>2, <2>1, <2>2, <2>6, FeedMoves DEF GotoWith, j
<1>8. CASE FindNear(h)
  <2>1. PICK S : GotoWith(h, IF S = {} THEN "answer" ELSE "filter", [job[h] EXCEPT !.listed = S])
    BY <1>8 DEF FindNear
  <2>2. pc[h] = "query" /\ UNCHANGED <<marks, viewed>>
    BY <1>8 DEF FindNear
  <2>3. job[h] \in Job /\ job[h] # None
    BY <1>1, <2>2, AbsentAssumption DEF JobOK
  <2> DEFINE j == [job[h] EXCEPT !.listed = S]
             stage == IF S = {} THEN "answer" ELSE "filter"
  <2>4. /\ j.knew = job[h].knew /\ j.user = job[h].user /\ j.found = job[h].found
        /\ j.listed = S
    BY <2>3 DEF Job
  <2> HIDE DEF j
  <2>5. FeedOK(stage, j, marks')
    BY <1>1, <2>2, <2>3, <2>4 DEF FeedOK
  <2> HIDE DEF stage
  <2>6. pc' = [pc EXCEPT ![h] = stage] /\ job' = [job EXCEPT ![h] = j]
    BY <2>1 DEF GotoWith, j, stage
  <2> QED
    BY <1>2, <2>2, <2>5, <2>6, FeedMoves
<1>9. CASE FilterSeen(h)
  <2> DEFINE S == {s \in job[h].listed : (job[h].op = "seen") <=> (<<job[h].user, s>> \in marks)}
             j == [job[h] EXCEPT !.found = S]
  <2>1. pc[h] = "filter" /\ UNCHANGED <<marks, viewed>> /\ GotoWith(h, "answer", j)
    BY <1>9 DEF FilterSeen
  <2>2. job[h] \in Job /\ job[h] # None
    BY <1>1, <2>1, AbsentAssumption DEF JobOK
  <2>3. \A s \in job[h].knew : <<job[h].user, s>> \in marks
    BY <1>1, <2>2 DEF FeedOK
  <2>4. /\ job[h].op = "near" => S \cap job[h].knew = {}
        /\ job[h].op = "seen" => job[h].listed \cap job[h].knew \subseteq S
    BY <2>3
  <2> HIDE DEF S
  <2>5. /\ j.knew = job[h].knew /\ j.user = job[h].user /\ j.listed = job[h].listed
        /\ j.op = job[h].op /\ j.found = S
    BY <2>2 DEF Job
  <2> HIDE DEF j
  <2>6. FeedOK("answer", j, marks')
    BY <2>1, <2>3, <2>4, <2>5 DEF FeedOK
  <2> QED
    BY <1>2, <2>1, <2>6, FeedMoves DEF GotoWith
<1>10. CASE Answer(h) \/ Announce(h) \/ Abort(h)
  <2>1. UNCHANGED <<marks, viewed>> /\ End(h)
    BY <1>10 DEF Answer, Announce, Abort
  <2> QED
    BY <1>2, <2>1, FeedEnds
<1> QED
  BY <1>3, <1>4, <1>5, <1>6, <1>7, <1>8, <1>9, <1>10 DEF Continue

LEMMA FeedStep == TypeInv /\ FeedInv /\ [Next]_vars => FeedInv'
<1> SUFFICES ASSUME TypeInv, FeedInv, [Next]_vars PROVE FeedInv'
  OBVIOUS
<1>1. ASSUME UNCHANGED <<pc, job, viewed>>, marks \subseteq marks' PROVE FeedInv'
  BY <1>1 DEF FeedInv, FeedOK
<1>2. CASE UNCHANGED vars \/ Serve \/ AfterInit \/ Backfill \/ Tick
  BY <1>1, <1>2 DEF vars, Serve, AfterInit, Backfill, Tick
<1>3. CASE Crash
  BY <1>3 DEF Crash, FeedInv, FeedOK
<1>4. CASE \E s \in Snaps : Delete(s)
  BY <1>1, <1>4 DEF Delete
<1>5. CASE \E x \in Users \X Snaps : LateMark(x)
  BY <1>1, <1>5 DEF LateMark
<1>6. CASE \E c \in Sockets : \/ Connect(c) \/ LocationChange(c) \/ HandleDisconnect(c)
                               \/ \E p \in Places : Move(c, p)
  BY <1>1, <1>6 DEF Connect, LocationChange, HandleDisconnect, Move, elsewhere
<1>7. CASE \E h \in Handlers : Continue(h) \/ Abort(h)
  BY <1>7, FeedContinues
<1>8. CASE \E u \in Users, s \in Snaps : View(u, s)
  BY <1>8, FeedBegins DEF View, FindOne
<1>9. CASE \E h \in Handlers, op \in Ops, u \in Users, p \in Places : FindNearby(h, op, u, p)
  BY <1>9, FeedBegins DEF FindNearby
<1>10. CASE \E h \in Handlers, u \in Users, s \in Snaps, p \in Places : Create(h, u, s, p)
  BY <1>10, FeedBegins DEF Create
<1> QED
  BY <1>2, <1>3, <1>4, <1>5, <1>6, <1>7, <1>8, <1>9, <1>10 DEF Next, StartUp

\* Whatever views, late marks, failures and restarts do while a list is made, a
\* user finds what he was shown before among the seen snaps and not the others.
THEOREM ViewedGoesToSeenHolds == Spec => []ViewedGoesToSeen
<1>1. Init => FeedInv
  BY DEF Init, FeedInv, FeedOK
<1>2. TypeInv /\ FeedInv => ViewedGoesToSeen
  BY AbsentAssumption DEF TypeInv, JobsOK, JobOK, FeedInv, FeedOK, ViewedGoesToSeen
<1> QED
  BY <1>1, <1>2, FeedStep, TypeInvHolds, PTL DEF Spec

-------------------------------------------------------------------------------
\* Announcements.

\* A create that has yet to announce its snap is the only one, and nobody was
\* told of the snap; who was told was told once, of a snap that was created.
AnnounceInv ==
  /\ \A h \in Handlers : pc[h] = "announce" =>
       docs[job[h].snap] # NoSnap /\ \A c \in Sockets : told[<<c, job[h].snap>>] = 0
  /\ \A h, g \in Handlers :
       pc[h] = "announce" /\ pc[g] = "announce" /\ job[h].snap = job[g].snap => h = g
  /\ \A x \in Sockets \X Snaps :
       told[x] <= 1 /\ (told[x] = 1 => docs[x[2]] # NoSnap /\ "create" \in mix)

\* A step that begins no announcement, ends none but by telling nobody, and keeps
\* the snaps that there are.
LEMMA NoAnnouncement ==
  ASSUME TypeInv, AnnounceInv, UNCHANGED <<told, mix>>,
         \A s \in Snaps : docs[s] # NoSnap => docs'[s] # NoSnap,
         \A h \in Handlers : pc'[h] = "announce" => pc[h] = "announce" /\ job'[h] = job[h]
  PROVE  AnnounceInv'
<1>1. \A h \in Handlers : pc[h] = "announce" => job[h].snap \in Snaps
  BY DEF TypeInv, JobsOK, JobOK
<1> QED
  BY <1>1 DEF AnnounceInv

LEMMA AnnounceStep ==
  ASSUME \A m \in Mixes : ~({"create", "delete"} \subseteq m),
         TypeInv, AnnounceInv, [Next]_vars
  PROVE  AnnounceInv'
<1>1. ASSUME UNCHANGED <<told, mix, pc, job>>,
             \A s \in Snaps : docs[s] # NoSnap => docs'[s] # NoSnap
      PROVE  AnnounceInv'
  BY <1>1, NoAnnouncement
<1>2. CASE UNCHANGED vars \/ Serve \/ AfterInit \/ Tick
  BY <1>1, <1>2 DEF vars, Serve, AfterInit, Tick
<1>3. CASE Backfill
  <2>1. ASSUME NEW s \in Snaps, docs[s] # NoSnap PROVE docs'[s] # NoSnap
    <3>1. docs'[s] = Backfilled(docs[s]) /\ docs[s] \in Doc
      BY <1>3, <2>1 DEF Backfill, TypeInv, Typed
    <3>2. [docs[s] EXCEPT !.expiresAt = Lifetime] \in Doc
      BY <3>1, InputsAssumption DEF Doc
    <3> QED
      BY <3>1, <3>2, AbsentAssumption DEF Backfilled
  <2> QED
    BY <1>1, <1>3, <2>1 DEF Backfill
<1>4. CASE Crash
  BY <1>4, NoAnnouncement DEF Crash
<1>5. CASE \E s \in Snaps : Delete(s)
  <2>1. "create" \notin mix /\ UNCHANGED <<told, mix, pc, job>>
    BY <1>5 DEF Delete, TypeInv, Typed
  <2>2. \A h \in Handlers : pc[h] # "announce"
    BY <2>1 DEF TypeInv, JobsOK, JobOK
  <2> QED
    BY <2>1, <2>2 DEF AnnounceInv
<1>6. CASE \E x \in Users \X Snaps : LateMark(x)
  BY <1>1, <1>6 DEF LateMark, rest
<1>7. CASE \E c \in Sockets : \/ Connect(c) \/ LocationChange(c) \/ HandleDisconnect(c)
                               \/ \E p \in Places : Move(c, p)
  BY <1>1, <1>7 DEF Connect, LocationChange, HandleDisconnect, Move, elsewhere
<1>8. ASSUME NEW h \in Handlers, NEW stage, NEW j, stage # "announce",
             UNCHANGED <<docs, told, mix>>,
             pc' = [pc EXCEPT ![h] = stage], job' = [job EXCEPT ![h] = j]
      PROVE  AnnounceInv'
  <2>1. \A g \in Handlers : pc'[g] = "announce" => pc[g] = "announce" /\ job'[g] = job[g]
    BY <1>8 DEF TypeInv, JobsOK
  <2> QED
    BY <1>8, <2>1, NoAnnouncement
<1>9. ASSUME NEW h \in Handlers, Announce(h) PROVE AnnounceInv'
  <2> DEFINE s == job[h].snap
  <2>1. pc[h] = "announce" /\ s \in Snaps /\ "create" \in mix
    BY <1>9 DEF Announce, TypeInv, JobsOK, JobOK
  <2>2. docs[s] # NoSnap /\ \A c \in Sockets : told[<<c, s>>] = 0
    BY <2>1 DEF AnnounceInv
  <2>3. UNCHANGED <<docs, mix>> /\ pc' = [pc EXCEPT ![h] = "idle"] /\ job' = [job EXCEPT ![h] = None]
    BY <1>9 DEF Announce, End, GotoWith, rest
  <2>4. \A g \in Handlers : pc'[g] = "announce" => g # h /\ pc[g] = "announce" /\ job'[g] = job[g]
    BY <2>3 DEF TypeInv, JobsOK
  <2>5. \A g \in Handlers : pc'[g] = "announce" => job[g].snap \in Snaps /\ job[g].snap # s
    BY <2>1, <2>4 DEF AnnounceInv, TypeInv, JobsOK, JobOK
  <2>6. ASSUME NEW x \in Sockets \X Snaps
        PROVE  /\ x[2] # s => told'[x] = told[x]
               /\ x[2] = s => told'[x] \in {0, 1}
    <3>1. told'[x] = IF x[2] = s /\ x[1] \in Nearby(job[h].place) THEN told[x] + 1 ELSE told[x]
      BY <1>9 DEF Announce
    <3>2. x[2] = s => told[x] = 0
      BY <2>2
    <3> QED
      BY <3>1, <3>2
  <2> HIDE DEF s
  <2>7. \A x \in Sockets \X Snaps : told'[x] <= 1 /\ (told'[x] = 1 => docs'[x[2]] # NoSnap /\ "create" \in mix')
    BY <2>1, <2>2, <2>3, <2>6 DEF AnnounceInv
  <2>8. ASSUME NEW g \in Handlers, pc'[g] = "announce"
        PROVE  docs'[job'[g].snap] # NoSnap /\ \A c \in Sockets : told'[<<c, job'[g].snap>>] = 0
    BY <2>3, <2>4, <2>5, <2>6, <2>8 DEF AnnounceInv
  <2>9. \A f, g \in Handlers :
          pc'[f] = "announce" /\ pc'[g] = "announce" /\ job'[f].snap = job'[g].snap => f = g
    BY <2>4 DEF AnnounceInv
  <2> QED
    BY <2>7, <2>8, <2>9 DEF AnnounceInv
<1>10. CASE \E h \in Handlers : Continue(h) \/ Abort(h)
  <2> PICK h \in Handlers : Continue(h) \/ Abort(h)
    BY <1>10
  <2>1. CASE Announce(h)
    BY <1>9, <2>1
  <2>2. CASE ~Announce(h)
    <3>1. UNCHANGED <<docs, told, mix>>
      BY <2>2 DEF Continue, SignImages, GetSeen, SaveSelect, SaveInsert, LoadParams, FindNear,
         FilterSeen, Answer, Abort, rest
    <3>2. \E stage, j : /\ stage # "announce"
                        /\ pc' = [pc EXCEPT ![h] = stage] /\ job' = [job EXCEPT ![h] = j]
      <4>1. job = [job EXCEPT ![h] = job[h]]
        BY DEF TypeInv, JobsOK
      <4>2. CASE SignImages(h) \/ GetSeen(h) \/ SaveSelect(h) \/ SaveInsert(h)
        BY <4>1, <4>2 DEF SignImages, GetSeen, SaveSelect, SaveInsert, Goto, End, GotoWith
      <4>3. CASE Answer(h) \/ Abort(h)
        BY <4>3 DEF Answer, Abort, End, GotoWith
      <4>4. CASE LoadParams(h)
        BY <4>4 DEF LoadParams, GotoWith
      <4>5. CASE FindNear(h)
        BY <4>5 DEF FindNear, GotoWith
      <4>6. CASE FilterSeen(h)
        BY <4>6 DEF FilterSeen, GotoWith
      <4> QED
        BY <2>2, <4>2, <4>3, <4>4, <4>5, <4>6 DEF Continue
    <3> QED
      BY <1>8, <3>1, <3>2
  <2> QED
    BY <2>1, <2>2
<1>11. CASE \E u \in Users, s \in Snaps : View(u, s)
  BY <1>8, <1>11 DEF View, FindOne, Begin, rest
<1>12. CASE \E h \in Handlers, op \in Ops, u \in Users, p \in Places : FindNearby(h, op, u, p)
  BY <1>8, <1>12 DEF FindNearby, Begin, rest
<1>13. ASSUME NEW h \in Handlers, NEW u \in Users, NEW s \in Snaps, NEW p \in Places,
              Create(h, u, s, p)
       PROVE  AnnounceInv'
  <2> DEFINE j == Request("create", u, s, p)
             d == [at |-> p, expiresAt |-> now + Lifetime]
  <2>1. j.snap = s /\ d \in Doc
    BY InputsAssumption DEF Request, Doc, TypeInv, Typed
  <2>2. /\ docs[s] = NoSnap /\ docs' = [docs EXCEPT ![s] = d] /\ pc[h] = "idle"
        /\ pc' = [pc EXCEPT ![h] = "announce"] /\ job' = [job EXCEPT ![h] = j]
        /\ UNCHANGED <<told, mix>>
    BY <1>13 DEF Create, Begin, rest
  <2> HIDE DEF j, d
  <2>3. docs'[s] # NoSnap /\ \A t \in Snaps : t # s => docs'[t] = docs[t]
    BY <2>1, <2>2, AbsentAssumption DEF TypeInv, Typed
  <2>4. ASSUME NEW c \in Sockets PROVE told[<<c, s>>] = 0
    <3>1. told[<<c, s>>] \in Nat /\ told[<<c, s>>] <= 1
      BY DEF AnnounceInv, TypeInv, Typed
    <3>2. told[<<c, s>>] # 1
      BY <2>2 DEF AnnounceInv
    <3> QED
      BY <3>1, <3>2
  <2>5. \A g \in Handlers : g # h /\ pc[g] = "announce" => job[g].snap \in Snaps /\ job[g].snap # s
    BY <2>2 DEF AnnounceInv, TypeInv, JobsOK, JobOK
  <2>6. /\ pc'[h] = "announce" /\ job'[h].snap = s
        /\ \A g \in Handlers : g # h => pc'[g] = pc[g] /\ job'[g] = job[g]
    BY <2>1, <2>2 DEF TypeInv, JobsOK
  <2>7. ASSUME NEW g \in Handlers, pc'[g] = "announce"
        PROVE  docs'[job'[g].snap] # NoSnap /\ \A c \in Sockets : told'[<<c, job'[g].snap>>] = 0
    <3>1. CASE g = h
      BY <2>2, <2>3, <2>4, <2>6, <3>1
    <3>2. CASE g # h
      BY <2>2, <2>3, <2>5, <2>6, <2>7, <3>2 DEF AnnounceInv
    <3> QED
      BY <3>1, <3>2
  <2>8. \A f, g \in Handlers :
          pc'[f] = "announce" /\ pc'[g] = "announce" /\ job'[f].snap = job'[g].snap => f = g
    BY <2>5, <2>6 DEF AnnounceInv
  <2>9. ASSUME NEW x \in Sockets \X Snaps
        PROVE  told'[x] <= 1 /\ (told'[x] = 1 => docs'[x[2]] # NoSnap /\ "create" \in mix')
    <3>1. x[2] \in Snaps /\ told'[x] = told[x] /\ mix' = mix
      BY <2>2
    <3>2. told[x] <= 1 /\ (told[x] = 1 => docs[x[2]] # NoSnap /\ "create" \in mix)
      BY DEF AnnounceInv
    <3> QED
      BY <2>2, <2>3, <3>1, <3>2
  <2> QED
    BY <2>7, <2>8, <2>9 DEF AnnounceInv
<1> QED
  BY <1>2, <1>3, <1>4, <1>5, <1>6, <1>7, <1>10, <1>11, <1>12, <1>13 DEF Next, StartUp

\* However often a create is repeated, and wherever the process stops, no socket
\* is told of a snap twice.  A snap is known here by the key of its create, so a
\* key is not used again for a snap that was deleted.
THEOREM AnnouncedOnceHolds ==
  ASSUME \A m \in Mixes : ~({"create", "delete"} \subseteq m)
  PROVE  Spec => []AnnouncedOnce
<1>1. Init => AnnounceInv
  BY DEF Init, AnnounceInv
<1>2. AnnounceInv => AnnouncedOnce
  BY DEF AnnounceInv, AnnouncedOnce
<1>3. TypeInv /\ AnnounceInv /\ [Next]_vars => AnnounceInv'
  BY AnnounceStep
<1> QED
  BY <1>1, <1>2, <1>3, TypeInvHolds, PTL DEF Spec
===============================================================================
