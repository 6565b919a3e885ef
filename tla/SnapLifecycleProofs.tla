-------------------------- MODULE SnapLifecycleProofs --------------------------
(***************************************************************************)
(* Theorems of SnapLifecycle, for any users, snaps, keys and requests at   *)
(* once, sweeps included.                                                  *)
(***************************************************************************)
EXTENDS SnapLifecycle, TLAPS

CreateStages == {"params", "inserting", "replaying"}
Stages == {"idle", "files", "updating"} \cup CreateStages
Jobs == CreateJob \cup DeleteJob \cup ResolveJob

\* What a worker at a stage is doing; the document of a create is an open one.
StageOK(w, stage, j) ==
  /\ stage \in CreateStages => /\ j \in CreateJob
                               /\ j.doc.resolution = "OPEN"
                               /\ j.doc.resolvedBy = None /\ j.doc.noteBy = None
  /\ stage = "files" => j \in DeleteJob /\ (j.op # "sweep" => w \in Handlers)
  /\ stage = "updating" => j \in ResolveJob

JobsOK ==
  /\ pc \in [Workers -> Stages]
  /\ job \in [Workers -> Jobs \cup {None}]
  /\ \A w \in Workers : StageOK(w, pc[w], job[w])

Typed ==
  /\ docs \in [Snaps -> Doc \cup {NoSnap}]
  /\ made \subseteq Snaps /\ Present \subseteq made
  /\ url \in [Keys -> Nat]
  /\ stored \subseteq Keys
  /\ todo \in [Workers -> SUBSET Keys]
  /\ late \subseteq Keys
  /\ now \in Nat
  /\ again \in [Workers -> SUBSET Keys]
  /\ passed \in [Snaps -> SUBSET Snaps]

\* A delete that waits for the storage service read snaps that had been made, and
\* each image of those that are left is still to be deleted for it, or not there, or
\* was PUT again since.
FilesInv ==
  \A w \in Workers : pc[w] = "files" =>
    /\ job[w].targets \subseteq made
    /\ \A s \in job[w].targets, k \in Keys :
         docs[s] # NoSnap /\ k \in docs[s].keys =>
           k \in todo[w] \/ k \notin stored \/ k \in again[w]

SnapInv == JobsOK /\ Typed /\ FilesInv /\ OneSnapPerKey /\ ResolutionConsistent

LEMMA SnapInit == Init => SnapInv
<1> SUFFICES ASSUME Init PROVE SnapInv
  OBVIOUS
<1>1. Present = {}
  BY DEF Init, Present
<1>2. JobsOK /\ Typed /\ FilesInv
  BY <1>1 DEF Init, JobsOK, StageOK, Stages, CreateStages, Typed, FilesInv
<1> QED
  BY <1>1, <1>2 DEF SnapInv, OneSnapPerKey, ResolutionConsistent

-------------------------------------------------------------------------------
\* What a step does to the workers.

LEMMA Moves ==
  ASSUME JobsOK, NEW w \in Workers, NEW stage \in Stages, NEW j \in Jobs \cup {None},
         StageOK(w, stage, j),
         pc' = [pc EXCEPT ![w] = stage], job' = [job EXCEPT ![w] = j]
  PROVE  JobsOK'
<1>1. pc' \in [Workers -> Stages] /\ job' \in [Workers -> Jobs \cup {None}]
  BY DEF JobsOK
<1>2. ASSUME NEW v \in Workers PROVE StageOK(v, pc'[v], job'[v])
  BY DEF JobsOK
<1> QED
  BY <1>1, <1>2 DEF JobsOK

LEMMA EndMoves == ASSUME JobsOK, NEW w \in Workers, End(w) PROVE JobsOK'
<1>1. StageOK(w, "idle", None)
  BY DEF StageOK, CreateStages
<1> QED
  BY <1>1, Moves DEF End, Stages

\* A worker goes on with the job that it has.
LEMMA GotoMoves ==
  ASSUME JobsOK, NEW w \in Workers, NEW stage \in Stages, StageOK(w, stage, job[w]),
         Goto(w, stage), UNCHANGED job
  PROVE  JobsOK'
<1>1. job' = [job EXCEPT ![w] = job[w]] /\ job[w] \in Jobs \cup {None}
  BY DEF JobsOK
<1> QED
  BY <1>1, Moves DEF Goto

\* What the other workers do is left alone.
Others(w) ==
  \A v \in Workers \ {w} : /\ pc'[v] = pc[v] /\ job'[v] = job[v]
                           /\ todo'[v] = todo[v] /\ again'[v] = again[v]

\* A step of worker w that begins no delete keeps what the deletes have to do,
\* when no image comes and the snaps keep their images.
LEMMA FilesKept ==
  ASSUME FilesInv, NEW w \in Workers, Others(w),
         pc'[w] = "files" => /\ pc[w] = "files" /\ job'[w] = job[w] /\ again'[w] = again[w]
                             /\ \A k \in todo[w] : k \in todo'[w] \/ k \notin stored',
         made \subseteq made', stored' \subseteq stored,
         \A s \in made : docs'[s] # NoSnap => docs[s] # NoSnap /\ docs'[s].keys = docs[s].keys
  PROVE  FilesInv'
<1>1. ASSUME NEW v \in Workers, pc'[v] = "files"
      PROVE  /\ pc[v] = "files" /\ job'[v] = job[v] /\ again'[v] = again[v]
             /\ \A k \in todo[v] : k \in todo'[v] \/ k \notin stored'
  BY <1>1 DEF Others
<1> QED
  BY <1>1 DEF FilesInv

LEMMA EndSays ==
  ASSUME JobsOK, Typed, NEW w \in Workers, End(w)
  PROVE  pc'[w] = "idle" /\ Others(w)
BY DEF JobsOK, Typed, End, Others

LEMMA EndKeepsFiles ==
  ASSUME JobsOK, Typed, FilesInv, NEW w \in Workers, End(w),
         made \subseteq made', stored' \subseteq stored,
         \A s \in made : docs'[s] # NoSnap => docs[s] # NoSnap /\ docs'[s].keys = docs[s].keys
  PROVE  FilesInv' /\ todo' \in [Workers -> SUBSET Keys] /\ again' \in [Workers -> SUBSET Keys]
<1>1. todo' \in [Workers -> SUBSET Keys] /\ again' \in [Workers -> SUBSET Keys]
  BY DEF End, Typed
<1>2. pc'[w] = "idle" /\ Others(w)
  BY EndSays
<1> QED
  BY <1>1, <1>2, FilesKept

\* The properties of the documents are kept when the documents are.
LEMMA DocsKept ==
  ASSUME UNCHANGED docs, OneSnapPerKey, ResolutionConsistent
  PROVE  OneSnapPerKey' /\ ResolutionConsistent'
BY DEF OneSnapPerKey, ResolutionConsistent, Present

\* Documents go, the others stay as they are.
LEMMA DocsDeleted ==
  ASSUME Typed, OneSnapPerKey, ResolutionConsistent, NEW S,
         docs' = [s \in Snaps |-> IF s \in S THEN NoSnap ELSE docs[s]]
  PROVE  /\ OneSnapPerKey' /\ ResolutionConsistent'
         /\ docs' \in [Snaps -> Doc \cup {NoSnap}]
         /\ Present' \subseteq Present
         /\ \A s \in Present' : docs'[s] = docs[s]
<1>1. docs' \in [Snaps -> Doc \cup {NoSnap}]
  BY DEF Typed
<1>2. \A s \in Present' : s \in Present /\ docs'[s] = docs[s]
  BY DEF Present
<1>3. OneSnapPerKey'
  BY <1>2 DEF OneSnapPerKey
<1>4. ResolutionConsistent'
  BY <1>2 DEF ResolutionConsistent
<1> QED
  BY <1>1, <1>2, <1>3, <1>4

-------------------------------------------------------------------------------
\* Creates.

LEMMA CreateStep ==
  ASSUME SnapInv, NEW h \in Handlers, NEW u \in Users, NEW p \in Places,
         NEW K \in SUBSET Keys, NEW i \in IdemKeys \cup {None}, Create(h, u, p, K, i)
  PROVE  SnapInv'
<1> USE DEF SnapInv
<1> DEFINE d == [owner |-> u, place |-> p, keys |-> K,
                 idem |-> i, expiresAt |-> 0, resolution |-> "OPEN",
                 resolvedBy |-> None, noteBy |-> None]
           j == [op |-> "create", passed |-> {}, doc |-> d]
<1>1. /\ pc' = [pc EXCEPT ![h] = "params"] /\ job' = [job EXCEPT ![h] = j]
      /\ UNCHANGED <<docs, made, bucket, todo, late, now, again, passed>>
  BY DEF Create, Begin
<1>2. d \in Doc /\ d.resolution = "OPEN" /\ d.resolvedBy = None /\ d.noteBy = None
  BY DEF Doc
<1> HIDE DEF d
<1>3. j \in CreateJob /\ j.doc = d
  BY <1>2 DEF CreateJob
<1> HIDE DEF j
<1>4. h \in Workers
  BY DEF Workers
<1>5. JobsOK'
  BY <1>1, <1>2, <1>3, <1>4, Moves DEF StageOK, Stages, CreateStages, Jobs
<1>6. FilesInv'
  BY <1>1, <1>4, FilesKept DEF JobsOK, Others, bucket
<1> QED
  BY <1>1, <1>5, <1>6, DocsKept DEF Typed, Present, bucket

LEMMA CheckAreaStep ==
  ASSUME SnapInv, NEW h \in Handlers, CreateCheckArea(h) PROVE SnapInv'
<1> USE DEF SnapInv
<1>1. /\ h \in Workers /\ pc[h] = "params"
      /\ UNCHANGED <<docs, made, bucket, late, now, passed>>
  BY DEF CreateCheckArea, Workers
<1>2. StageOK(h, "params", job[h])
  BY <1>1 DEF JobsOK
<1>3. CASE End(h)
  BY <1>1, <1>3, EndMoves, EndKeepsFiles, DocsKept DEF Typed, Present, bucket
<1>4. ASSUME NEW S \in SUBSET Snaps, PassArea(h, S) PROVE SnapInv'
  <2>9. PICK days \in Lifetimes :
          job' = [job EXCEPT ![h].doc.expiresAt = now + days, ![h].passed = S]
    BY <1>4 DEF PassArea
  <2>10. Goto(h, "inserting") /\ UNCHANGED <<todo, again>>
    BY <1>4 DEF PassArea
  <2> DEFINE d == [job[h].doc EXCEPT !.expiresAt = now + days]
             j == [job[h] EXCEPT !.doc = d, !.passed = S]
  <2>1. job[h] \in CreateJob /\ now + days \in Nat
    BY <1>2, SnapAssumption DEF StageOK, CreateStages, Typed
  <2>2. job[h].doc \in Doc
    BY <2>1 DEF CreateJob
  <2>3. /\ d \in Doc /\ d.resolution = job[h].doc.resolution
        /\ d.resolvedBy = job[h].doc.resolvedBy /\ d.noteBy = job[h].doc.noteBy
    BY <2>1, <2>2 DEF Doc
  <2>4. job' = [job EXCEPT ![h] = j]
    BY <2>9
  <2> HIDE DEF d
  <2>5. j \in CreateJob /\ j.doc = d
    BY <2>1, <2>3 DEF CreateJob
  <2> HIDE DEF j
  <2>6. pc' = [pc EXCEPT ![h] = "inserting"]
    BY <2>10 DEF Goto
  <2>7. JobsOK'
    <3>1. StageOK(h, "inserting", j)
      BY <1>2, <2>3, <2>5 DEF StageOK, CreateStages
    <3> QED
      BY <1>1, <2>4, <2>5, <2>6, <3>1, Moves DEF Stages, CreateStages, Jobs
  <2>8. FilesInv'
    BY <1>1, <2>4, <2>6, <2>10, FilesKept DEF JobsOK, Others, bucket
  <2> QED
    BY <1>1, <2>7, <2>8, <2>10, DocsKept DEF Typed, Present, bucket
<1>5. Present \in SUBSET Snaps /\ {} \in SUBSET Snaps
  BY DEF Present
<1> QED
  BY <1>3, <1>4, <1>5 DEF CreateCheckArea

LEMMA InsertStep ==
  ASSUME SnapInv, NEW h \in Handlers, CreateInsert(h) PROVE SnapInv'
<1> USE DEF SnapInv
<1> DEFINE d == job[h].doc
<1>1. h \in Workers /\ pc[h] = "inserting" /\ UNCHANGED <<bucket, late, now>>
  BY DEF CreateInsert, Workers
<1>2. StageOK(h, "inserting", job[h])
  BY <1>1 DEF JobsOK
<1>3. /\ d \in Doc /\ job[h].passed \in SUBSET Snaps
      /\ d.resolution = "OPEN" /\ d.resolvedBy = None /\ d.noteBy = None
  BY <1>2 DEF StageOK, CreateStages, CreateJob
<1>4. ASSUME UNCHANGED <<docs, made, passed>>, End(h) PROVE SnapInv'
  BY <1>1, <1>4, EndMoves, EndKeepsFiles, DocsKept DEF Typed, Present, bucket
<1>5. ASSUME UNCHANGED <<docs, made, passed>>, Goto(h, "replaying"),
             UNCHANGED <<job, todo, again>>
      PROVE  SnapInv'
  <2>1. StageOK(h, "replaying", job[h])
    BY <1>2 DEF StageOK, CreateStages
  <2>2. JobsOK'
    BY <1>1, <1>5, <2>1, GotoMoves DEF Stages, CreateStages
  <2>3. FilesInv'
    BY <1>1, <1>5, FilesKept DEF Goto, JobsOK, Others, bucket
  <2> QED
    BY <1>1, <1>5, <2>2, <2>3, DocsKept DEF Typed, Present, bucket
<1>6. ASSUME NEW s \in Snaps \ made, ~IndexConflict(d),
             docs' = [docs EXCEPT ![s] = d], made' = made \cup {s}, End(h),
             passed' = [passed EXCEPT ![s] = job[h].passed]
      PROVE  SnapInv'
  <2>1. \A t \in Present : docs[t].owner = d.owner => docs[t].idem # d.idem
    BY <1>6 DEF IndexConflict, WithKey, Of
  <2> HIDE DEF d
  <2>2. docs' \in [Snaps -> Doc \cup {NoSnap}]
    BY <1>3, <1>6 DEF Typed
  <2>3. docs'[s] = d /\ \A t \in Snaps \ {s} : docs'[t] = docs[t]
    BY <1>6 DEF Typed
  <2>4. \A t \in Present' : t # s => t \in Present /\ docs'[t] = docs[t]
    BY <2>3 DEF Present
  <2>5. Typed'
    <3>1. made' \subseteq Snaps /\ Present' \subseteq made'
      BY <1>6, <2>4 DEF Typed
    <3>2. todo' \in [Workers -> SUBSET Keys] /\ again' \in [Workers -> SUBSET Keys]
      BY <1>6 DEF End, Typed
    <3>3. passed' \in [Snaps -> SUBSET Snaps]
      BY <1>3, <1>6 DEF Typed
    <3> QED
      BY <1>1, <2>2, <3>1, <3>2, <3>3 DEF Typed, bucket
  <2>6. OneSnapPerKey'
    BY <2>1, <2>3, <2>4 DEF OneSnapPerKey
  <2>7. ResolutionConsistent'
    BY <1>3, <2>3, <2>4 DEF ResolutionConsistent
  <2>8. FilesInv'
    <3>1. \A t \in made : docs'[t] = docs[t]
      BY <1>6, <2>3 DEF Typed
    <3> QED
      BY <1>1, <1>6, <3>1, EndKeepsFiles DEF bucket
  <2> QED
    BY <1>1, <1>6, <2>5, <2>6, <2>7, <2>8, EndMoves
<1> QED
  BY <1>4, <1>5, <1>6 DEF CreateInsert

-------------------------------------------------------------------------------
\* Deletes.

LEMMA BeginDeleteStep ==
  ASSUME SnapInv, NEW w \in Workers, NEW op, NEW u \in Users \cup {None}, NEW S \in SUBSET Present,
         op \in {"deleteOne", "deleteByUser", "deleteAll", "sweep"},
         op # "sweep" => w \in Handlers,
         BeginDelete(w, op, u, S)
  PROVE  SnapInv'
<1> USE DEF SnapInv
<1> DEFINE j == [op |-> op, user |-> u, targets |-> S]
<1>1. /\ pc' = [pc EXCEPT ![w] = "files"] /\ job' = [job EXCEPT ![w] = j]
      /\ todo' = [todo EXCEPT ![w] = KeysOf(S)]
      /\ UNCHANGED <<docs, made, bucket, late, now, again, passed>>
  BY DEF BeginDelete, Begin
<1>2. j \in DeleteJob /\ j.op = op /\ j.targets = S
  BY DEF DeleteJob, Present
<1> HIDE DEF j
<1>3. JobsOK'
  <2>1. StageOK(w, "files", j)
    BY <1>2 DEF StageOK, CreateStages
  <2> QED
    BY <1>1, <1>2, <2>1, Moves DEF Stages, Jobs
<1>4. KeysOf(S) \in SUBSET Keys
  <2>1. \A s \in S : docs[s].keys \subseteq Keys
    BY DEF Typed, Present, Doc
  <2> QED
    BY <2>1 DEF KeysOf
<1>5. FilesInv'
  <2>1. ASSUME NEW v \in Workers, pc'[v] = "files"
        PROVE  /\ job'[v].targets \subseteq made
               /\ \A s \in job'[v].targets, k \in Keys :
                    docs[s] # NoSnap /\ k \in docs[s].keys =>
                      k \in todo'[v] \/ k \notin stored \/ k \in again[v]
    <3>1. CASE v = w
      <4>1. job'[v].targets = S /\ todo'[v] = KeysOf(S)
        BY <1>1, <1>2, <3>1 DEF JobsOK, Typed
      <4>2. \A s \in S : \A k \in docs[s].keys : k \in KeysOf(S)
        BY DEF KeysOf
      <4> QED
        BY <4>1, <4>2 DEF Typed
    <3>2. CASE v # w
      <4>1. pc[v] = "files" /\ job'[v] = job[v] /\ todo'[v] = todo[v]
        BY <1>1, <2>1, <3>2 DEF JobsOK, Typed
      <4> QED
        BY <4>1 DEF FilesInv
    <3> QED
      BY <3>1, <3>2
  <2> QED
    BY <1>1, <2>1 DEF FilesInv, bucket
<1>6. Typed'
  BY <1>1, <1>4 DEF Typed, Present, bucket
<1> QED
  BY <1>1, <1>3, <1>5, <1>6, DocsKept

\* The storage service deletes a key, for a delete that waits or for none.
LEMMA StorageStep ==
  ASSUME SnapInv, NEW k \in Keys, (\E w \in Workers : StorageDeletes(w, k)) \/ LateDelete(k)
  PROVE  SnapInv'
<1> USE DEF SnapInv
<1>1. UNCHANGED <<docs, made, url, pc, job, now, again, passed>> /\ stored' = stored \ {k}
  BY DEF StorageDeletes, LateDelete
<1>2. JobsOK' /\ Present' = Present
  BY <1>1 DEF JobsOK, Present
<1>3. ASSUME NEW w \in Workers, StorageDeletes(w, k) PROVE Typed' /\ FilesInv'
  <2>1. todo' = [todo EXCEPT ![w] = todo[w] \ {k}] /\ UNCHANGED late
    BY <1>3 DEF StorageDeletes, Typed
  <2>2. todo' \in [Workers -> SUBSET Keys]
    BY <2>1 DEF Typed
  <2>3. Typed'
    BY <1>1, <1>2, <2>1, <2>2 DEF Typed
  <2>4. Others(w)
    BY <1>1, <2>1 DEF Typed, Others
  <2>5. \A x \in todo[w] : x \in todo'[w] \/ x \notin stored'
    BY <1>1, <2>1 DEF Typed
  <2> QED
    BY <1>1, <2>3, <2>4, <2>5, FilesKept
<1>4. ASSUME UNCHANGED todo, late' \subseteq late PROVE Typed' /\ FilesInv'
  BY <1>1, <1>2, <1>4 DEF Typed, FilesInv
<1> QED
  BY <1>1, <1>2, <1>3, <1>4, DocsKept DEF LateDelete

\* An object that a delete finds again was PUT since.
LEMMA UploadStep ==
  ASSUME SnapInv, NEW k \in Keys, Presign(k) \/ Upload(k) PROVE SnapInv'
<1> USE DEF SnapInv
<1>1. UNCHANGED <<docs, made, pc, job, todo, late, now, passed>>
  BY DEF Presign, Upload
<1>2. JobsOK' /\ Present' = Present
  BY <1>1 DEF JobsOK, Present
<1>3. CASE Presign(k)
  <2>1. UNCHANGED <<stored, again>> /\ url' = [url EXCEPT ![k] = now + UrlLasts]
    BY <1>3 DEF Presign
  <2>2. url' \in [Keys -> Nat]
    BY <2>1, TimesAssumption DEF Typed
  <2> QED
    BY <1>1, <1>2, <2>1, <2>2, DocsKept DEF Typed, FilesInv
<1>4. CASE Upload(k)
  <2>1. /\ UNCHANGED url /\ stored' = stored \cup {k}
        /\ again' = [h \in Workers |-> IF pc[h] = "files" /\ k \notin todo[h]
                                       THEN again[h] \cup {k} ELSE again[h]]
    BY <1>4 DEF Upload
  <2>2. again' \in [Workers -> SUBSET Keys]
    BY <2>1 DEF Typed
  <2>3. \A w \in Workers, x \in Keys :
          pc[w] = "files" /\ (x \in todo[w] \/ x \notin stored \/ x \in again[w])
            => x \in todo'[w] \/ x \notin stored' \/ x \in again'[w]
    BY <1>1, <2>1
  <2>4. FilesInv'
    BY <1>1, <2>3 DEF FilesInv
  <2> QED
    BY <1>1, <1>2, <2>1, <2>2, <2>4, DocsKept DEF Typed
<1> QED
  BY <1>3, <1>4

LEMMA DeleteDocsStep ==
  ASSUME SnapInv, NEW w \in Workers, DeleteDocs(w) PROVE SnapInv'
<1> USE DEF SnapInv
<1> DEFINE S == Doomed(job[w])
<1>1. /\ docs' = [s \in Snaps |-> IF s \in S THEN NoSnap ELSE docs[s]]
      /\ End(w) /\ UNCHANGED <<made, bucket, late, now, passed>>
  BY DEF DeleteDocs
<1> HIDE DEF S
<1>2. /\ OneSnapPerKey' /\ ResolutionConsistent'
      /\ docs' \in [Snaps -> Doc \cup {NoSnap}]
      /\ Present' \subseteq Present
      /\ \A s \in Present' : docs'[s] = docs[s]
  BY <1>1, DocsDeleted
<1>3. \A s \in made : docs'[s] # NoSnap => docs[s] # NoSnap /\ docs'[s].keys = docs[s].keys
  BY <1>2 DEF Present, Typed
<1>4. FilesInv' /\ todo' \in [Workers -> SUBSET Keys] /\ again' \in [Workers -> SUBSET Keys]
  BY <1>1, <1>3, EndKeepsFiles DEF bucket
<1> QED
  BY <1>1, <1>2, <1>4, EndMoves DEF Typed, bucket

-------------------------------------------------------------------------------
\* Resolutions.

\* A resolution changes nothing that a key or a delete goes by, and keeps the
\* resolution and its traces together.
LEMMA ResolvedDoc ==
  ASSUME NEW d \in Doc, NEW j \in ResolveJob
  PROVE  LET r == Resolved(d, j)
         IN /\ r \in Doc /\ r.owner = d.owner /\ r.idem = d.idem /\ r.keys = d.keys
            /\ r.place = d.place /\ r.expiresAt = d.expiresAt
            /\ ((d.resolution = "FOUND") <=> (d.resolvedBy # None))
                 => ((r.resolution = "FOUND") <=> (r.resolvedBy # None))
            /\ (d.resolution = "OPEN" => d.noteBy = None)
                 => (r.resolution = "OPEN" => r.noteBy = None)
<1>1. j.user \in Users /\ j.user # None
  BY SnapAssumption DEF ResolveJob
<1>2. j.op \in {"found", "foundWithNote", "reopen"}
  BY DEF ResolveJob
<1>3. CASE j.op = "found"
  BY <1>1, <1>3 DEF Resolved, Doc
<1>4. CASE j.op = "foundWithNote"
  BY <1>1, <1>4 DEF Resolved, Doc
<1>5. CASE j.op = "reopen"
  BY <1>1, <1>5 DEF Resolved, Doc
<1> QED
  BY <1>2, <1>3, <1>4, <1>5

LEMMA ResolveStep ==
  ASSUME SnapInv, NEW h \in Handlers, NEW op \in {"found", "foundWithNote", "reopen"},
         NEW s \in Snaps, NEW u \in Users, Resolve(h, op, s, u)
  PROVE  SnapInv'
<1> USE DEF SnapInv
<1> DEFINE j == [op |-> op, snap |-> s, user |-> u]
<1>1. /\ h \in Workers
      /\ pc' = [pc EXCEPT ![h] = "updating"] /\ job' = [job EXCEPT ![h] = j]
      /\ UNCHANGED <<docs, made, bucket, todo, late, now, again, passed>>
  BY DEF Resolve, Begin, Workers
<1>2. j \in ResolveJob
  BY DEF ResolveJob
<1> HIDE DEF j
<1>3. JobsOK'
  BY <1>1, <1>2, Moves DEF StageOK, Stages, CreateStages, Jobs
<1>4. FilesInv'
  BY <1>1, FilesKept DEF JobsOK, Others, bucket
<1> QED
  BY <1>1, <1>3, <1>4, DocsKept DEF Typed, Present, bucket

LEMMA UpdateStep ==
  ASSUME SnapInv, NEW h \in Handlers, ResolveUpdate(h) PROVE SnapInv'
<1> USE DEF SnapInv
<1> DEFINE s == job[h].snap
           r == IF docs[s] = NoSnap THEN NoSnap ELSE Resolved(docs[s], job[h])
<1>1. /\ h \in Workers /\ pc[h] = "updating"
      /\ docs' = [docs EXCEPT ![s] = r] /\ End(h)
      /\ UNCHANGED <<made, bucket, late, now, passed>>
  BY DEF ResolveUpdate, Workers
<1>2. job[h] \in ResolveJob /\ s \in Snaps
  BY <1>1 DEF JobsOK, StageOK, ResolveJob
<1>3. /\ docs[s] = NoSnap => r = NoSnap
      /\ docs[s] # NoSnap =>
           /\ r \in Doc /\ r.owner = docs[s].owner /\ r.idem = docs[s].idem
           /\ r.keys = docs[s].keys
           /\ (r.resolution = "FOUND") <=> (r.resolvedBy # None)
           /\ r.resolution = "OPEN" => r.noteBy = None
  <2>1. docs[s] # NoSnap => docs[s] \in Doc /\ s \in Present
    BY <1>2 DEF Typed, Present
  <2> QED
    BY <1>2, <2>1, ResolvedDoc DEF ResolutionConsistent
<1> HIDE DEF r, s
<1>4. docs'[s] = r /\ \A t \in Snaps \ {s} : docs'[t] = docs[t]
  BY <1>1, <1>2 DEF Typed
<1>5. docs' \in [Snaps -> Doc \cup {NoSnap}]
  BY <1>1, <1>2, <1>3 DEF Typed
<1>6. ASSUME NEW t \in Present'
      PROVE  /\ t \in Present /\ docs'[t].owner = docs[t].owner
             /\ docs'[t].idem = docs[t].idem /\ docs'[t].keys = docs[t].keys
  BY <1>3, <1>4 DEF Present
<1>7. OneSnapPerKey'
  BY <1>6 DEF OneSnapPerKey
<1>8. ResolutionConsistent'
  BY <1>3, <1>4, <1>6 DEF ResolutionConsistent, Present
<1>9. FilesInv' /\ todo' \in [Workers -> SUBSET Keys] /\ again' \in [Workers -> SUBSET Keys]
  <2>1. \A t \in made : docs'[t] # NoSnap => docs[t] # NoSnap /\ docs'[t].keys = docs[t].keys
    BY <1>6 DEF Present, Typed
  <2> QED
    BY <1>1, <2>1, EndKeepsFiles DEF bucket
<1>10. Present' \subseteq made'
  BY <1>1, <1>6 DEF Typed
<1> QED
  BY <1>1, <1>5, <1>7, <1>8, <1>9, <1>10, EndMoves DEF Typed, bucket

-------------------------------------------------------------------------------
LEMMA SnapStep == SnapInv /\ [Next]_vars => SnapInv'
<1> SUFFICES ASSUME SnapInv, [Next]_vars PROVE SnapInv'
  OBVIOUS
<1> USE DEF SnapInv
<1>1. CASE UNCHANGED vars
  BY <1>1, DocsKept DEF vars, bucket, JobsOK, Typed, Present, FilesInv
<1>2. ASSUME NEW h \in Handlers, Arrive(h) PROVE SnapInv'
  <2>1. h \in Workers
    BY DEF Workers
  <2>2. ASSUME NEW u \in Users, NEW p \in Places, NEW K \in SUBSET Keys,
               NEW i \in IdemKeys \cup {None}, Create(h, u, p, K, i)
        PROVE  SnapInv'
    BY <2>2, CreateStep
  <2>3. ASSUME NEW u \in Users, NEW s \in Snaps, DeleteSnap(h, s, u) PROVE SnapInv'
    <3>1. BeginDelete(h, "deleteOne", u, {s}) /\ {s} \in SUBSET Present
      BY <2>3 DEF DeleteSnap
    <3> QED
      BY <2>1, <3>1, BeginDeleteStep
  <2>4. ASSUME DeleteAll(h) PROVE SnapInv'
    BY <2>1, <2>4, BeginDeleteStep DEF DeleteAll
  <2>5. ASSUME NEW u \in Users, DeleteByUserId(h, u) PROVE SnapInv'
    <3>1. Of(u) \in SUBSET Present
      BY DEF Of
    <3> QED
      BY <2>1, <2>5, <3>1, BeginDeleteStep DEF DeleteByUserId
  <2>6. ASSUME NEW u \in Users, NEW s \in Snaps, MarkFound(h, s, u) \/ Reopen(h, s, u)
        PROVE  SnapInv'
    <3>1. \E op \in {"found", "foundWithNote", "reopen"} : Resolve(h, op, s, u)
      BY <2>6 DEF MarkFound, Reopen
    <3> QED
      BY <3>1, ResolveStep
  <2> QED
    BY <1>2, <2>2, <2>3, <2>4, <2>5, <2>6 DEF Arrive
<1>3. ASSUME NEW h \in Handlers,
             CreateCheckArea(h) \/ CreateInsert(h) \/ CreateReplay(h) \/ ResolveUpdate(h)
      PROVE  SnapInv'
  <2>1. CASE CreateReplay(h)
    <3>1. h \in Workers
      BY DEF Workers
    <3> QED
      BY <2>1, <3>1, EndMoves, EndKeepsFiles, DocsKept
         DEF CreateReplay, Typed, Present, bucket
  <2> QED
    BY <1>3, <2>1, CheckAreaStep, InsertStep, UpdateStep
<1>4. ASSUME NEW w \in Sweepers, SweepExpired(w) PROVE SnapInv'
  <2>1. PICK S \in Batches : BeginDelete(w, "sweep", None, S)
    BY <1>4 DEF SweepExpired
  <2>2. S \in SUBSET Present /\ w \in Workers
    BY DEF Batches, Workers
  <2> QED
    BY <2>1, <2>2, BeginDeleteStep
<1>5. ASSUME NEW w \in Workers, Abort(w) PROVE SnapInv'
  <2>1. End(w) /\ UNCHANGED <<docs, made, bucket, now, passed>>
    BY <1>5 DEF Abort
  <2>2. late' \subseteq Keys
    BY <1>5 DEF Abort, Typed
  <2> QED
    BY <2>1, <2>2, EndMoves, EndKeepsFiles, DocsKept DEF Typed, Present, bucket
<1>6. CASE Tick
  BY <1>6, DocsKept DEF Tick, bucket, JobsOK, Typed, Present, FilesInv
<1> QED
  BY <1>1, <1>2, <1>3, <1>4, <1>5, <1>6, DeleteDocsStep, StorageStep, UploadStep
     DEF Next

LEMMA SnapInvHolds == Spec => []SnapInv
BY SnapInit, SnapStep, PTL DEF Spec

\* Every document and every request is well formed, whatever overlaps or fails.
THEOREM TypeCorrect == Spec => []TypeOK
<1>1. SnapInv => TypeOK
  BY DEF SnapInv, JobsOK, Typed, TypeOK, Stages, CreateStages, Jobs
<1> QED
  BY <1>1, SnapInvHolds, PTL

\* However many creates of one user overlap, one idempotency key makes one snap
\* that is there at a time: the unique index decides, not the lookup before it.
THEOREM OneSnapPerKeyHolds == Spec => []OneSnapPerKey
BY SnapInvHolds, PTL DEF SnapInv

\* Whichever of markFound and reopen is the last of a race, the resolution of a
\* snap and its traces agree.
THEOREM ResolutionConsistentHolds == Spec => []ResolutionConsistent
BY SnapInvHolds, PTL DEF SnapInv

-------------------------------------------------------------------------------
\* What the area query saw of the snaps in a create's way.

SamePlace(d, e) == d.owner = e.owner /\ d.place = e.place

\* A create that is about to insert found every snap of its user in its place
\* expired, of those that its query saw; they stay so, because time goes on and no
\* snap comes to one of their ids.
PlaceInv ==
  /\ \A h \in Handlers : pc[h] = "inserting" =>
       /\ job[h].passed \subseteq made
       /\ \A s \in job[h].passed \cap Present :
            SamePlace(docs[s], job[h].doc) => Expired(s)
  /\ \A t \in Snaps : passed[t] \subseteq made
  /\ OneActivePerPlace

\* A step that ends no area query and inserts nothing: snaps go, expire or are
\* resolved.
LEMMA PlaceKept ==
  ASSUME PlaceInv, UNCHANGED <<made, passed>>,
         \A h \in Handlers : pc'[h] = "inserting" => pc[h] = "inserting" /\ job'[h] = job[h],
         \A s \in Present' : /\ s \in Present /\ SamePlace(docs'[s], docs[s])
                             /\ Expired(s) => docs'[s].expiresAt <= now'
  PROVE  PlaceInv'
<1>1. \A s \in Present' : Expired(s) => Expired(s)'
  BY DEF Expired
<1>2. OneActivePerPlace'
  BY <1>1 DEF PlaceInv, OneActivePerPlace, SamePlace
<1>3. ASSUME NEW h \in Handlers, pc'[h] = "inserting"
      PROVE  /\ job'[h].passed \subseteq made'
             /\ \A s \in job'[h].passed \cap Present' :
                  SamePlace(docs'[s], job'[h].doc) => Expired(s)'
  <2>1. pc[h] = "inserting" /\ job'[h] = job[h]
    BY <1>3
  <2>2. ASSUME NEW s \in job[h].passed \cap Present', SamePlace(docs'[s], job[h].doc)
        PROVE  Expired(s)'
    <3>1. s \in Present /\ SamePlace(docs[s], job[h].doc)
      BY <2>2 DEF SamePlace
    <3> QED
      BY <1>1, <2>1, <2>2, <3>1 DEF PlaceInv
  <2> QED
    BY <2>1, <2>2 DEF PlaceInv
<1> QED
  BY <1>2, <1>3 DEF PlaceInv

\* A worker begins, ends or goes on with something other than an insert.
LEMMA PlaceMoves ==
  ASSUME SnapInv, PlaceInv, NEW w \in Workers, Others(w), pc'[w] # "inserting",
         UNCHANGED <<made, passed, now>>,
         \A s \in Present' : /\ s \in Present /\ SamePlace(docs'[s], docs[s])
                             /\ docs'[s].expiresAt = docs[s].expiresAt
  PROVE  PlaceInv'
<1>1. \A h \in Handlers : pc'[h] = "inserting" => pc[h] = "inserting" /\ job'[h] = job[h]
  BY DEF Others, Workers
<1>2. \A s \in Present' : Expired(s) => docs'[s].expiresAt <= now'
  BY DEF Expired
<1> QED
  BY <1>1, <1>2, PlaceKept

LEMMA PlaceStays ==
  ASSUME SnapInv, PlaceInv, NEW w \in Workers, Others(w), pc'[w] # "inserting",
         UNCHANGED <<docs, made, passed, now>>
  PROVE  PlaceInv'
<1>1. \A s \in Present' : s \in Present /\ docs'[s] = docs[s]
  BY DEF Present
<1> QED
  BY <1>1, PlaceMoves DEF SamePlace

LEMMA BeginSays ==
  ASSUME JobsOK, NEW w \in Workers, NEW stage, NEW j, Begin(w, stage, j)
  PROVE  /\ pc[w] = "idle" /\ pc'[w] = stage /\ job'[w] = j
         /\ \A v \in Workers \ {w} : pc'[v] = pc[v] /\ job'[v] = job[v]
BY DEF Begin, JobsOK

LEMMA PlaceCheckArea ==
  ASSUME SnapInv, PlaceInv, NEW h \in Handlers, CreateCheckArea(h)
  PROVE  PlaceInv'
<1>1. UNCHANGED <<docs, made, passed, now>> /\ pc[h] = "params" /\ h \in Workers
  BY DEF CreateCheckArea, Workers
<1>2. Present' = Present /\ \A s \in Present : Expired(s)' <=> Expired(s)
  BY <1>1 DEF Present, Expired
<1>3. CASE End(h)
  BY <1>1, <1>3, EndSays, PlaceStays DEF SnapInv
<1>4. ASSUME NEW S \in SUBSET Snaps, PassArea(h, S), S \subseteq made,
             \A s \in S \cap Present : SamePlace(docs[s], job[h].doc) => Expired(s)
      PROVE  PlaceInv'
  <2>1. PICK days \in Lifetimes :
          job' = [job EXCEPT ![h].doc.expiresAt = now + days, ![h].passed = S]
    BY <1>4 DEF PassArea
  <2>2. job[h] \in CreateJob /\ job[h].doc \in Doc
    BY <1>1 DEF SnapInv, JobsOK, StageOK, CreateStages, CreateJob
  <2>3. job'[h] = [job[h] EXCEPT !.doc.expiresAt = now + days, !.passed = S]
    BY <1>1, <2>1 DEF SnapInv, JobsOK
  <2>4. job'[h].passed = S
    BY <2>2, <2>3 DEF CreateJob
  <2>5. job'[h].doc.owner = job[h].doc.owner /\ job'[h].doc.place = job[h].doc.place
    <3>1. job'[h].doc = [job[h].doc EXCEPT !.expiresAt = now + days]
      BY <2>2, <2>3 DEF CreateJob
    <3> QED
      BY <2>2, <3>1 DEF Doc
  <2>6. \A g \in Handlers \ {h} : pc'[g] = pc[g] /\ job'[g] = job[g]
    BY <1>4, <2>1 DEF PassArea, Goto, SnapInv, JobsOK, Workers
  <2>7. ASSUME NEW g \in Handlers, pc'[g] = "inserting"
        PROVE  /\ job'[g].passed \subseteq made
               /\ \A s \in job'[g].passed \cap Present :
                    SamePlace(docs[s], job'[g].doc) => Expired(s)
    <3>1. CASE g = h
      BY <1>4, <2>4, <2>5, <3>1 DEF SamePlace
    <3>2. CASE g # h
      BY <2>6, <2>7, <3>2 DEF PlaceInv
    <3> QED
      BY <3>1, <3>2
  <2> QED
    BY <1>1, <1>2, <2>7 DEF PlaceInv, OneActivePerPlace
<1>5. Present \in SUBSET Snaps /\ Present \subseteq made
  BY DEF Present, SnapInv, Typed
<1>6. InArea(job[h].doc) = {} =>
        \A s \in Present : SamePlace(docs[s], job[h].doc) => Expired(s)
  BY DEF InArea, Of, SamePlace
<1> QED
  BY <1>3, <1>4, <1>5, <1>6 DEF CreateCheckArea

LEMMA PlaceInsert ==
  ASSUME SnapInv, PlaceInv, NEW h \in Handlers, CreateInsert(h) PROVE PlaceInv'
<1> DEFINE d == job[h].doc
<1>1. h \in Workers /\ pc[h] = "inserting" /\ UNCHANGED now
  BY DEF CreateInsert, Workers
<1>2. ASSUME UNCHANGED <<docs, made, passed>>,
             End(h) \/ (Goto(h, "replaying") /\ UNCHANGED <<job, todo, again>>)
      PROVE  PlaceInv'
  <2>1. CASE End(h)
    BY <1>1, <1>2, <2>1, EndSays, PlaceStays DEF SnapInv
  <2>2. CASE Goto(h, "replaying") /\ UNCHANGED <<job, todo, again>>
    BY <1>1, <1>2, <2>2, PlaceStays DEF Goto, SnapInv, JobsOK, Others
  <2> QED
    BY <1>2, <2>1, <2>2
<1>3. ASSUME NEW s \in Snaps \ made, docs' = [docs EXCEPT ![s] = d], made' = made \cup {s},
             passed' = [passed EXCEPT ![s] = job[h].passed], End(h)
      PROVE  PlaceInv'
  <2>1. docs'[s] = d /\ \A t \in Snaps \ {s} : docs'[t] = docs[t]
    BY <1>3 DEF SnapInv, Typed
  <2>2. \A t \in Present' : t # s => t \in Present /\ docs'[t] = docs[t] /\ (Expired(t)' <=> Expired(t))
    BY <1>1, <2>1 DEF Present, Expired
  <2>3. /\ job[h].passed \subseteq made
        /\ \A t \in job[h].passed \cap Present : SamePlace(docs[t], d) => Expired(t)
    BY <1>1 DEF PlaceInv
  <2>4. pc'[h] = "idle" /\ \A g \in Handlers \ {h} : pc'[g] = pc[g] /\ job'[g] = job[g]
    BY <1>1, <1>3, EndSays DEF SnapInv, Others, Workers
  <2>5. passed'[s] = job[h].passed /\ \A t \in Snaps \ {s} : passed'[t] = passed[t]
    BY <1>3 DEF SnapInv, Typed
  <2> HIDE DEF d
  <2>6. \A t \in Snaps : passed'[t] \subseteq made
    BY <2>3, <2>5 DEF PlaceInv
  <2>7. OneActivePerPlace'
    <3>1. ASSUME NEW x \in Present', NEW t \in Present', x \in passed'[t],
                 docs'[x].owner = docs'[t].owner, docs'[x].place = docs'[t].place
          PROVE  Expired(x)'
      <4>1. t \in Snaps /\ x # s
        BY <1>3, <2>6, <3>1 DEF Present
      <4>2. CASE t = s
        BY <2>1, <2>2, <2>3, <2>5, <3>1, <4>1, <4>2 DEF SamePlace
      <4>3. CASE t # s
        BY <2>2, <2>5, <3>1, <4>1, <4>3 DEF PlaceInv, OneActivePerPlace
      <4> QED
        BY <4>2, <4>3
    <3> QED
      BY <3>1 DEF OneActivePerPlace
  <2>8. ASSUME NEW g \in Handlers, pc'[g] = "inserting"
        PROVE  /\ job'[g].passed \subseteq made'
               /\ \A t \in job'[g].passed \cap Present' :
                    SamePlace(docs'[t], job'[g].doc) => Expired(t)'
    <3>1. g # h /\ pc[g] = "inserting" /\ job'[g] = job[g]
      BY <2>4, <2>8
    <3>2. job[g].passed \subseteq made
      BY <3>1 DEF PlaceInv
    <3>3. \A t \in job[g].passed \cap Present' : t # s
      BY <1>3, <3>2
    <3> QED
      BY <1>3, <2>2, <3>1, <3>2, <3>3 DEF PlaceInv
  <2> QED
    BY <1>3, <2>6, <2>7, <2>8 DEF PlaceInv
<1> QED
  BY <1>2, <1>3 DEF CreateInsert

LEMMA PlaceUpdate ==
  ASSUME SnapInv, PlaceInv, NEW h \in Handlers, ResolveUpdate(h) PROVE PlaceInv'
<1> DEFINE s == job[h].snap
           r == IF docs[s] = NoSnap THEN NoSnap ELSE Resolved(docs[s], job[h])
<1>1. /\ h \in Workers /\ pc[h] = "updating" /\ End(h) /\ docs' = [docs EXCEPT ![s] = r]
      /\ UNCHANGED <<made, passed, now>>
  BY DEF ResolveUpdate, Workers
<1>2. job[h] \in ResolveJob /\ s \in Snaps
  BY <1>1 DEF SnapInv, JobsOK, StageOK, ResolveJob
<1>3. /\ docs[s] = NoSnap => r = NoSnap
      /\ docs[s] # NoSnap => SamePlace(r, docs[s]) /\ r.expiresAt = docs[s].expiresAt
  <2>1. docs[s] # NoSnap => docs[s] \in Doc
    BY <1>2 DEF SnapInv, Typed
  <2> QED
    BY <1>2, <2>1, ResolvedDoc DEF SamePlace
<1> HIDE DEF r, s
<1>4. docs'[s] = r /\ \A t \in Snaps \ {s} : docs'[t] = docs[t]
  BY <1>1, <1>2 DEF SnapInv, Typed
<1>5. \A t \in Present' : /\ t \in Present /\ SamePlace(docs'[t], docs[t])
                          /\ docs'[t].expiresAt = docs[t].expiresAt
  BY <1>3, <1>4 DEF Present, SamePlace
<1> QED
  BY <1>1, <1>5, EndSays, PlaceMoves DEF SnapInv

LEMMA PlaceStep ==
  ASSUME SnapInv, PlaceInv, [Next]_vars PROVE PlaceInv'
<1>1. ASSUME UNCHANGED <<docs, made, passed, pc, job>>, now' >= now, now' \in Nat
      PROVE  PlaceInv'
  <2>1. \A s \in Present' : s \in Present /\ docs[s] \in Doc
    BY <1>1 DEF Present, SnapInv, Typed
  <2>2. \A s \in Present' : Expired(s) => docs'[s].expiresAt <= now'
    BY <1>1, <2>1 DEF Expired, Doc, SnapInv, Typed
  <2> QED
    BY <1>1, <2>1, <2>2, PlaceKept DEF SamePlace
<1>2. ASSUME NEW w \in Workers, NEW stage, NEW j, Begin(w, stage, j), stage # "inserting",
             UNCHANGED <<docs, made, passed, now>>
      PROVE  PlaceInv'
  <2>1. \A h \in Handlers : pc'[h] = "inserting" => pc[h] = "inserting" /\ job'[h] = job[h]
    BY <1>2, BeginSays DEF SnapInv, Workers
  <2>2. \A s \in Present' : s \in Present /\ docs'[s] = docs[s]
    BY <1>2 DEF Present
  <2> QED
    BY <1>2, <2>1, <2>2, PlaceKept DEF SamePlace, Expired
<1>3. ASSUME NEW h \in Handlers, Arrive(h) PROVE PlaceInv'
  <2>1. h \in Workers
    BY DEF Workers
  <2>2. ASSUME NEW u, NEW p, NEW K, NEW i, Create(h, u, p, K, i) PROVE PlaceInv'
    BY <1>2, <2>1, <2>2 DEF Create
  <2>3. ASSUME NEW op, NEW u, NEW S, BeginDelete(h, op, u, S) PROVE PlaceInv'
    BY <1>2, <2>1, <2>3 DEF BeginDelete
  <2>4. ASSUME NEW op, NEW s, NEW u, Resolve(h, op, s, u) PROVE PlaceInv'
    BY <1>2, <2>1, <2>4 DEF Resolve
  <2> QED
    BY <1>3, <2>2, <2>3, <2>4
       DEF Arrive, DeleteSnap, DeleteAll, DeleteByUserId, MarkFound, Reopen
<1>4. ASSUME NEW h \in Handlers,
             CreateCheckArea(h) \/ CreateInsert(h) \/ CreateReplay(h) \/ ResolveUpdate(h)
      PROVE  PlaceInv'
  <2>1. CASE CreateReplay(h)
    <3>1. h \in Workers
      BY DEF Workers
    <3> QED
      BY <2>1, <3>1, EndSays, PlaceStays DEF CreateReplay, SnapInv
  <2> QED
    BY <1>4, <2>1, PlaceCheckArea, PlaceInsert, PlaceUpdate
<1>5. ASSUME NEW w \in Sweepers, SweepExpired(w) PROVE PlaceInv'
  <2>1. w \in Workers
    BY DEF Workers
  <2> QED
    BY <1>2, <1>5, <2>1 DEF SweepExpired, BeginDelete
<1>6. ASSUME NEW w \in Workers, DeleteDocs(w) PROVE PlaceInv'
  <2>1. \A s \in Present' : s \in Present /\ docs'[s] = docs[s]
    BY <1>6 DEF DeleteDocs, Present
  <2> QED
    BY <1>6, <2>1, EndSays, PlaceMoves DEF DeleteDocs, SnapInv, SamePlace
<1>7. ASSUME NEW w \in Workers, Abort(w) PROVE PlaceInv'
  BY <1>7, EndSays, PlaceStays DEF Abort, SnapInv
<1>8. ASSUME NEW k \in Keys,
             Presign(k) \/ Upload(k) \/ LateDelete(k) \/ \E w \in Workers : StorageDeletes(w, k)
      PROVE  PlaceInv'
  <2>1. UNCHANGED <<docs, made, passed, pc, job, now>>
    BY <1>8 DEF Presign, Upload, LateDelete, StorageDeletes
  <2> QED
    BY <1>1, <2>1 DEF SnapInv, Typed
<1>9. CASE Tick \/ UNCHANGED vars
  <2>1. UNCHANGED <<docs, made, passed, pc, job>> /\ now' \in Nat /\ now' >= now
    BY <1>9 DEF Tick, vars, SnapInv, Typed
  <2> QED
    BY <1>1, <2>1
<1> QED
  BY <1>3, <1>4, <1>5, <1>6, <1>7, <1>8, <1>9 DEF Next

\* However many creates of a user overlap with each other, with resolutions, deletes
\* and the clock: an active snap in the same place is one that the area query of the
\* later did not see.
THEOREM OneActivePerPlaceHolds == Spec => []OneActivePerPlace
<1>1. Init => PlaceInv
  BY DEF Init, PlaceInv, OneActivePerPlace, Present, Workers
<1>2. PlaceInv => OneActivePerPlace
  BY DEF PlaceInv
<1>3. SnapInv /\ PlaceInv /\ [Next]_vars => PlaceInv'
  BY PlaceStep
<1> QED
  BY <1>1, <1>2, <1>3, SnapInvHolds, PTL DEF Spec

-------------------------------------------------------------------------------
\* The service implements SnapBoard.

\* The upload URL of an image is dead when a snap that shows it expires.
UrlsOK ==
  /\ \A k \in Keys : url[k] <= now + UrlLasts
  /\ \A s \in Present : \A k \in docs[s].keys : url[k] # 0 /\ url[k] <= docs[s].expiresAt

\* What a delete read is still true of the snaps that are left: a sweep found them
\* expired, so that none of their images comes again, and the user of a single delete
\* may delete them.
DeleteOK(w) ==
  /\ pc[w] # "files" => again[w] = {}
  /\ pc[w] = "files" =>
       /\ job[w].op = "sweep" <=> w \in Sweepers
       /\ \A s \in job[w].targets : docs[s] # NoSnap =>
            /\ job[w].op = "sweep" => Expired(s) /\ docs[s].keys \cap again[w] = {}
            /\ job[w].op = "deleteOne" => docs[s].owner = job[w].user \/ job[w].user \in Admins

\* What a create checked or computed before it inserts.
CreateOK(w) ==
  LET d == job[w].doc
  IN pc[w] \in {"params", "inserting"} =>
       /\ d.keys # {} /\ \A k \in d.keys : KeyOwner[k] = d.owner /\ url[k] # 0
       /\ pc[w] = "inserting" =>
            /\ \E t \in 0..now, days \in Lifetimes : d.expiresAt = t + days
            /\ \A k \in d.keys : url[k] <= d.expiresAt

BoardInv == UrlsOK /\ \A w \in Workers : DeleteOK(w) /\ CreateOK(w)

\* Snaps go, or stay as a delete has read them, a URL that was signed stays as it was,
\* and the clock goes forward.
Onward ==
  /\ now' \in Nat /\ now' >= now
  /\ \A k \in Keys : url[k] # 0 => url'[k] = url[k]
  /\ \A s \in made : docs'[s] # NoSnap =>
       /\ docs[s] # NoSnap /\ docs'[s].keys = docs[s].keys
       /\ docs'[s].owner = docs[s].owner /\ docs'[s].expiresAt = docs[s].expiresAt

LEMMA WorkerKept ==
  ASSUME SnapInv, Onward, NEW w \in Workers, DeleteOK(w), CreateOK(w),
         pc'[w] = pc[w], job'[w] = job[w], again'[w] = again[w]
  PROVE  DeleteOK(w)' /\ CreateOK(w)'
<1> USE DEF SnapInv, Typed
<1>1. now \in Nat /\ now' \in Nat /\ now' >= now
  BY DEF Onward
<1>2. DeleteOK(w)'
  <2>1. ASSUME pc[w] = "files", NEW s \in job[w].targets, docs'[s] # NoSnap
        PROVE  /\ docs[s] # NoSnap /\ docs'[s].owner = docs[s].owner
               /\ docs'[s].keys = docs[s].keys
               /\ Expired(s) => Expired(s)'
    <3>1. s \in made
      BY <2>1 DEF FilesInv
    <3>2. /\ docs[s] # NoSnap /\ docs'[s].owner = docs[s].owner
          /\ docs'[s].keys = docs[s].keys /\ docs'[s].expiresAt = docs[s].expiresAt
      BY <2>1, <3>1 DEF Onward
    <3>3. docs[s].expiresAt \in Nat
      BY <3>1, <3>2 DEF Doc
    <3> QED
      BY <1>1, <3>2, <3>3 DEF Expired
  <2> QED
    BY <2>1 DEF DeleteOK
<1>3. CreateOK(w)'
  <2> SUFFICES ASSUME pc[w] \in {"params", "inserting"}
               PROVE  CreateOK(w)'
    BY DEF CreateOK
  <2>1. \A t \in 0..now : t \in 0..now'
    BY <1>1
  <2>2. job[w].doc.keys \subseteq Keys
    BY DEF JobsOK, StageOK, CreateStages, CreateJob, Doc
  <2>3. \A k \in job[w].doc.keys : url'[k] = url[k]
    BY <2>2 DEF CreateOK, Onward
  <2> QED
    BY <2>1, <2>3 DEF CreateOK
<1> QED
  BY <1>2, <1>3

LEMMA UrlsKept ==
  ASSUME SnapInv, UrlsOK, Onward, UNCHANGED url, Present' \subseteq made
  PROVE  UrlsOK'
<1>1. \A s \in Present' : /\ s \in Present /\ docs'[s].keys = docs[s].keys
                          /\ docs'[s].expiresAt = docs[s].expiresAt
  BY DEF Onward, SnapInv, Typed, Present
<1>2. \A k \in Keys : url[k] <= now' + UrlLasts
  BY TimesAssumption DEF UrlsOK, Onward, SnapInv, Typed
<1> QED
  BY <1>1, <1>2 DEF UrlsOK

\* A step of worker w keeps the invariant when it keeps it for w.
LEMMA BoardKept ==
  ASSUME SnapInv, BoardInv, Onward, UrlsOK', NEW w \in Workers, Others(w),
         DeleteOK(w)', CreateOK(w)'
  PROVE  BoardInv'
BY WorkerKept DEF BoardInv, Others

\* A worker that ends, or waits where nothing was checked for it.
LEMMA BoardMoves ==
  ASSUME SnapInv, BoardInv, Onward, UrlsOK', NEW w \in Workers, Others(w),
         pc'[w] \in {"idle", "updating", "replaying"}, again'[w] = {}
  PROVE  BoardInv'
<1>1. DeleteOK(w)' /\ CreateOK(w)'
  BY DEF DeleteOK, CreateOK
<1> QED
  BY <1>1, BoardKept

LEMMA BoardStays ==
  ASSUME SnapInv, BoardInv, Onward, UrlsOK', UNCHANGED <<pc, job, again>>
  PROVE  BoardInv'
BY WorkerKept DEF BoardInv

LEMMA DocsOnward ==
  ASSUME SnapInv, BoardInv, UNCHANGED <<docs, made, url, now>> PROVE Onward /\ UrlsOK'
<1>1. Onward
  BY DEF Onward, SnapInv, Typed
<1>2. Present' \subseteq made
  BY DEF Present, SnapInv, Typed
<1> QED
  BY <1>1, <1>2, UrlsKept DEF BoardInv

\* Which deletes SnapBoard sees.
LEMMA AskedStays ==
  ASSUME \A h \in Handlers : /\ pc'[h] = "files" <=> pc[h] = "files"
                             /\ pc[h] = "files" => job'[h] = job[h] /\ todo'[h] = todo[h]
  PROVE  Asked' = Asked
BY DEF Asked

LEMMA AskedChanges ==
  ASSUME NEW h \in Handlers, Others(h)
  PROVE  Asked' = [Asked EXCEPT ![h] = Asked'[h]]
<1>1. \A v \in Handlers \ {h} : Asked'[v] = Asked[v]
  BY DEF Asked, Others, Workers
<1>2. Asked = [v \in Handlers |-> Asked[v]] /\ Asked' = [v \in Handlers |-> Asked'[v]]
  BY DEF Asked
<1> QED
  BY <1>1, <1>2

\* A step of the service is one of the board, or nothing happens there.
BoardNext == Board!Next \/ UNCHANGED <<docs, made, url, stored, Asked, now>>

\* A worker that begins or ends no delete is not seen.
LEMMA NotAsked ==
  ASSUME NEW w \in Workers, Others(w), pc[w] # "files" \/ w \notin Handlers,
         pc'[w] # "files" \/ w \notin Handlers
  PROVE  Asked' = Asked
<1>1. \A h \in Handlers : /\ pc'[h] = "files" <=> pc[h] = "files"
                          /\ pc[h] = "files" => job'[h] = job[h] /\ todo'[h] = todo[h]
  BY DEF Others, Workers
<1> QED
  BY <1>1, AskedStays

\* A step of a worker that does no delete and writes nothing is not seen.
LEMMA Quiet ==
  ASSUME SnapInv, BoardInv, NEW w \in Workers, Others(w), pc[w] # "files",
         pc'[w] \in {"idle", "updating", "replaying"}, again'[w] \in {{}, again[w]},
         UNCHANGED <<docs, made, bucket, now>>
  PROVE  BoardInv' /\ BoardNext
<1>1. Asked' = Asked
  BY NotAsked
<1>2. again'[w] = {}
  BY DEF BoardInv, DeleteOK
<1>3. BoardInv'
  BY <1>2, BoardMoves, DocsOnward DEF bucket
<1> QED
  BY <1>1, <1>3 DEF BoardNext, bucket

LEMMA Ended ==
  ASSUME SnapInv, NEW w \in Workers, End(w)
  PROVE  pc'[w] = "idle" /\ again'[w] = {} /\ Others(w)
BY EndSays DEF SnapInv, Typed, End

LEMMA Began ==
  ASSUME SnapInv, NEW w \in Workers, NEW stage, NEW j, Begin(w, stage, j),
         UNCHANGED <<todo, again>>
  PROVE  /\ pc[w] = "idle" /\ pc'[w] = stage /\ job'[w] = j
         /\ again'[w] = again[w] /\ Others(w)
BY BeginSays DEF SnapInv, Others

LEMMA BoardCreate ==
  ASSUME SnapInv, BoardInv, NEW h \in Handlers, NEW u \in Users, NEW p \in Places,
         NEW K \in SUBSET Keys, NEW i \in IdemKeys \cup {None}, Create(h, u, p, K, i)
  PROVE  BoardInv' /\ BoardNext
<1> USE DEF SnapInv
<1> DEFINE j == [op |-> "create", passed |-> {},
                 doc |-> [owner |-> u, place |-> p, keys |-> K,
                          idem |-> i, expiresAt |-> 0, resolution |-> "OPEN",
                          resolvedBy |-> None, noteBy |-> None]]
<1>1. /\ Begin(h, "params", j)
      /\ UNCHANGED <<docs, made, url, stored, todo, late, now, again>>
  BY DEF Create, bucket
<1>2. j.doc.keys # {} /\ \A k \in j.doc.keys : KeyOwner[k] = j.doc.owner /\ url[k] # 0
  BY DEF Create
<1> HIDE DEF j
<1>3. h \in Workers
  BY DEF Workers
<1>4. /\ pc[h] = "idle" /\ pc'[h] = "params" /\ job'[h] = j
      /\ again'[h] = again[h] /\ Others(h)
  BY <1>1, <1>3, Began
<1>5. DeleteOK(h)' /\ CreateOK(h)'
  BY <1>1, <1>2, <1>3, <1>4 DEF DeleteOK, CreateOK, BoardInv
<1>6. BoardInv'
  BY <1>1, <1>3, <1>4, <1>5, BoardKept, DocsOnward
<1>7. Asked' = Asked
  BY <1>3, <1>4, NotAsked
<1> QED
  BY <1>1, <1>6, <1>7 DEF BoardNext

LEMMA BoardCheckArea ==
  ASSUME SnapInv, BoardInv, NEW h \in Handlers, CreateCheckArea(h)
  PROVE  BoardInv' /\ BoardNext
<1> USE DEF SnapInv
<1>1. h \in Workers /\ pc[h] = "params" /\ UNCHANGED <<docs, made, bucket, late, now>>
  BY DEF CreateCheckArea, Workers
<1>2. CASE End(h)
  BY <1>1, <1>2, Ended, Quiet
<1>3. ASSUME NEW S, PassArea(h, S)
      PROVE  BoardInv' /\ BoardNext
  <2>1. PICK days \in Lifetimes :
          job' = [job EXCEPT ![h].doc.expiresAt = now + days, ![h].passed = S]
    BY <1>3 DEF PassArea
  <2>2. job[h] \in CreateJob /\ job[h].doc \in Doc
    BY <1>1 DEF JobsOK, StageOK, CreateStages, CreateJob
  <2>3. job'[h] = [job[h] EXCEPT !.doc.expiresAt = now + days, !.passed = S]
    BY <1>1, <2>1 DEF JobsOK
  <2>4. job'[h].doc = [job[h].doc EXCEPT !.expiresAt = now + days]
    BY <2>2, <2>3 DEF CreateJob
  <2>5. /\ job'[h].doc.keys = job[h].doc.keys /\ job'[h].doc.owner = job[h].doc.owner
        /\ job'[h].doc.expiresAt = now + days /\ job[h].doc.keys \subseteq Keys
    BY <2>2, <2>4 DEF Doc
  <2>6. /\ pc'[h] = "inserting" /\ again'[h] = again[h] /\ Others(h)
    BY <1>1, <1>3, <2>1 DEF PassArea, Goto, JobsOK, Others
  <2>7. now \in 0..now
    BY DEF Typed
  <2>8. CreateOK(h)'
    <3>1. /\ job[h].doc.keys # {}
          /\ \A k \in job[h].doc.keys : KeyOwner[k] = job[h].doc.owner /\ url[k] # 0
      BY <1>1 DEF BoardInv, CreateOK
    <3>2. \A k \in job[h].doc.keys : url[k] <= now + days
      BY <2>5, TimesAssumption, SnapAssumption DEF BoardInv, UrlsOK, Typed
    <3> QED
      BY <1>1, <2>5, <2>6, <2>7, <3>1, <3>2 DEF CreateOK, bucket
  <2>9. DeleteOK(h)'
    BY <1>1, <2>6 DEF DeleteOK, BoardInv
  <2>10. BoardInv'
    BY <1>1, <2>6, <2>8, <2>9, BoardKept, DocsOnward DEF bucket
  <2>11. Asked' = Asked
    BY <1>1, <2>6, NotAsked
  <2> QED
    BY <1>1, <2>10, <2>11 DEF BoardNext, bucket
<1> QED
  BY <1>2, <1>3 DEF CreateCheckArea

\* The insert of a document is the moment at which a snap is posted.
LEMMA BoardInsert ==
  ASSUME SnapInv, BoardInv, NEW h \in Handlers, CreateInsert(h)
  PROVE  BoardInv' /\ BoardNext
<1> USE DEF SnapInv
<1> DEFINE d == job[h].doc
<1>1. h \in Workers /\ pc[h] = "inserting" /\ UNCHANGED <<url, stored, late, now>>
  BY DEF CreateInsert, Workers, bucket
<1>2. CASE UNCHANGED <<docs, made>> /\ End(h)
  BY <1>1, <1>2, Ended, Quiet DEF bucket
<1>3. CASE UNCHANGED <<docs, made>> /\ Goto(h, "replaying") /\ UNCHANGED <<job, todo, again>>
  <2>1. pc'[h] = "replaying" /\ again'[h] = again[h] /\ Others(h)
    BY <1>1, <1>3 DEF Goto, JobsOK, Others
  <2> QED
    BY <1>1, <1>3, <2>1, Quiet DEF bucket
<1>4. ASSUME NEW s \in Snaps \ made, ~IndexConflict(d),
             docs' = [docs EXCEPT ![s] = d], made' = made \cup {s}, End(h)
      PROVE  BoardInv' /\ BoardNext
  <2>1. pc'[h] = "idle" /\ again'[h] = {} /\ Others(h)
    BY <1>1, <1>4, Ended
  <2>2. Asked' = Asked
    BY <1>1, <2>1, NotAsked
  <2>3. docs'[s] = d /\ \A t \in Snaps \ {s} : docs'[t] = docs[t]
    BY <1>4 DEF Typed
  <2>4. Onward
    BY <1>1, <1>4, <2>3 DEF Onward, Typed
  <2>5. /\ d \in Doc /\ d.resolution = "OPEN" /\ d.resolvedBy = None /\ d.noteBy = None
    BY <1>1 DEF JobsOK, StageOK, CreateStages, CreateJob
  <2>6. /\ d.keys # {} /\ \A k \in d.keys : KeyOwner[k] = d.owner /\ url[k] # 0
        /\ \A k \in d.keys : url[k] <= d.expiresAt
        /\ \E t \in 0..now, days \in Lifetimes : d.expiresAt = t + days
    BY <1>1 DEF BoardInv, CreateOK
  <2>7. \A t \in Board!Posted : docs[t].owner = d.owner => docs[t].idem # d.idem
    BY <1>4 DEF IndexConflict, WithKey, Of, Present, Board!Posted
  <2> HIDE DEF d
  <2>8. UrlsOK'
    <3>1. \A t \in Present' : t # s => t \in Present /\ docs'[t] = docs[t]
      BY <2>3 DEF Present
    <3> QED
      BY <1>1, <2>3, <2>6, <3>1 DEF UrlsOK, BoardInv
  <2>9. BoardInv'
    BY <1>1, <2>1, <2>4, <2>8, BoardMoves
  <2>10. PICK t \in 0..now, days \in Lifetimes : d.expiresAt = t + days
    BY <2>6
  <2>11. d = [owner |-> d.owner, place |-> d.place, keys |-> d.keys, idem |-> d.idem,
             expiresAt |-> t + days, resolution |-> "OPEN", resolvedBy |-> None, noteBy |-> None]
    BY <2>5, <2>10 DEF Doc
  <2>12. d.keys \in (SUBSET Board!Shown(d.owner)) \ {{}}
    <3>1. d.keys \subseteq Keys
      BY <2>5 DEF Doc
    <3> QED
      BY <2>6, <3>1 DEF Board!Shown
  <2>13. d.place \in Places /\ d.owner \in Users /\ d.idem \in IdemKeys \cup {None}
    BY <2>5 DEF Doc
  <2>14. Board!Post(d.owner, d.idem)
    <3>1. docs' = [docs EXCEPT ![s] =
                     [owner |-> d.owner, place |-> d.place, keys |-> d.keys, idem |-> d.idem,
                      expiresAt |-> t + days, resolution |-> "OPEN",
                      resolvedBy |-> None, noteBy |-> None]]
      BY <1>4, <2>11
    <3>2. UNCHANGED <<Board!bucket, Asked, now>>
      BY <1>1, <2>2 DEF Board!bucket
    <3>3. d.place \in Places /\ made' = made \cup {s}
      BY <1>4, <2>13
    <3>4. \E x \in Snaps \ made, p \in Places, K \in (SUBSET Board!Shown(d.owner)) \ {{}},
             r \in 0..now, l \in Lifetimes :
            /\ docs' = [docs EXCEPT ![x] =
                          [owner |-> d.owner, place |-> p, keys |-> K, idem |-> d.idem,
                           expiresAt |-> r + l, resolution |-> "OPEN",
                           resolvedBy |-> None, noteBy |-> None]]
            /\ made' = made \cup {x}
      BY <2>12, <3>1, <3>3, Zenon
    <3> QED
      BY <2>7, <3>2, <3>4, Zenon DEF Board!Post
  <2> QED
    BY <2>9, <2>13, <2>14 DEF BoardNext, Board!Next
<1> QED
  BY <1>2, <1>3, <1>4 DEF CreateInsert

-------------------------------------------------------------------------------
\* Deletes on the board.

LEMMA BoardBeginDelete ==
  ASSUME SnapInv, BoardInv, NEW w \in Workers, NEW op, NEW u, NEW S \in SUBSET Present,
         BeginDelete(w, op, u, S), op = "sweep" <=> w \in Sweepers,
         \A s \in S : /\ op = "sweep" => Expired(s)
                      /\ op = "deleteOne" => docs[s].owner = u \/ u \in Admins
  PROVE  /\ BoardInv' /\ pc[w] = "idle" /\ pc'[w] = "files"
         /\ job'[w] = [op |-> op, user |-> u, targets |-> S] /\ todo'[w] = KeysOf(S)
         /\ Others(w) /\ UNCHANGED <<docs, made, bucket, now>>
<1> USE DEF SnapInv
<1> DEFINE j == [op |-> op, user |-> u, targets |-> S]
<1>1. /\ Begin(w, "files", j) /\ todo' = [todo EXCEPT ![w] = KeysOf(S)]
      /\ UNCHANGED <<docs, made, url, stored, now, again>>
  BY DEF BeginDelete, bucket
<1>2. j.op = op /\ j.user = u /\ j.targets = S
  OBVIOUS
<1> HIDE DEF j
<1>3. /\ pc[w] = "idle" /\ pc'[w] = "files" /\ job'[w] = j
      /\ todo'[w] = KeysOf(S) /\ again'[w] = again[w] /\ Others(w)
  BY <1>1, BeginSays DEF Typed, Others
<1>4. again[w] = {}
  BY <1>3 DEF BoardInv, DeleteOK
<1>5. DeleteOK(w)' /\ CreateOK(w)'
  BY <1>1, <1>2, <1>3, <1>4 DEF DeleteOK, CreateOK, Expired
<1>6. BoardInv'
  BY <1>1, <1>3, <1>5, BoardKept, DocsOnward
<1> QED
  BY <1>1, <1>3, <1>6 DEF j, bucket

\* A request to delete is seen from when it has read what it deletes.
LEMMA BoardAsk ==
  ASSUME SnapInv, BoardInv, NEW h \in Handlers, NEW op, NEW u, NEW S \in SUBSET Present,
         op \in {"deleteOne", "deleteByUser", "deleteAll"}, BeginDelete(h, op, u, S),
         op = "deleteOne" => \A s \in S : docs[s].owner = u \/ u \in Admins
  PROVE  BoardInv' /\ Board!Ask(h, IF op = "deleteOne" THEN "one" ELSE "bulk",
                                IF op = "deleteAll" THEN Users ELSE {u}, S)
<1>1. h \in Workers /\ h \notin Sweepers
  BY SnapAssumption DEF Workers
<1>2. /\ BoardInv' /\ pc[h] = "idle" /\ pc'[h] = "files"
      /\ job'[h] = [op |-> op, user |-> u, targets |-> S] /\ todo'[h] = KeysOf(S)
      /\ Others(h) /\ UNCHANGED <<docs, made, bucket, now>>
  BY <1>1, BoardBeginDelete
<1>3. Asked' = [Asked EXCEPT ![h] = Asked'[h]]
  BY <1>2, AskedChanges
<1>4. Asked[h] = Board!NoDelete
  BY <1>2 DEF Asked, Board!NoDelete
<1>5. Asked'[h] = [op    |-> IF op = "deleteOne" THEN "one" ELSE "bulk",
                   users |-> IF op = "deleteAll" THEN Users ELSE {u},
                   read  |-> S,
                   left  |-> KeysOf(S)]
  <2>1. /\ job'[h].op = op /\ job'[h].user = u /\ job'[h].targets = S
    BY <1>2
  <2> QED
    BY <1>2, <2>1 DEF Asked
<1> QED
  BY <1>2, <1>3, <1>4, <1>5 DEF Board!Ask, Board!bucket, bucket, KeysOf

LEMMA BoardDeletes ==
  ASSUME SnapInv, BoardInv, NEW h \in Handlers,
         DeleteAll(h) \/ \E u \in Users : DeleteByUserId(h, u) \/ \E s \in Snaps : DeleteSnap(h, s, u)
  PROVE  BoardInv' /\ BoardNext
<1>1. CASE DeleteAll(h)
  <2>1. BoardInv' /\ Board!Ask(h, "bulk", Users, Present)
    BY <1>1, BoardAsk DEF DeleteAll
  <2>2. Present = Board!Of(Users)
    BY DEF Present, Board!Of, Board!Posted, SnapInv, Typed, Doc
  <2> QED
    BY <2>1, <2>2 DEF BoardNext, Board!Next
<1>2. ASSUME NEW u \in Users, DeleteByUserId(h, u) PROVE BoardInv' /\ BoardNext
  <2>1. Of(u) \in SUBSET Present
    BY DEF Of
  <2>2. BoardInv' /\ Board!Ask(h, "bulk", {u}, Of(u))
    BY <1>2, <2>1, BoardAsk DEF DeleteByUserId
  <2>3. Of(u) = Board!Of({u})
    BY DEF Of, Present, Board!Of, Board!Posted
  <2> QED
    BY <2>2, <2>3 DEF BoardNext, Board!Next
<1>3. ASSUME NEW u \in Users, NEW s \in Snaps, DeleteSnap(h, s, u) PROVE BoardInv' /\ BoardNext
  <2>1. /\ {s} \in SUBSET Present /\ BeginDelete(h, "deleteOne", u, {s})
        /\ \A t \in {s} : docs[t].owner = u \/ u \in Admins
    BY <1>3 DEF DeleteSnap
  <2>2. BoardInv' /\ Board!Ask(h, "one", {u}, {s})
    BY <2>1, BoardAsk
  <2>3. s \in Board!Posted
    BY <2>1 DEF Present, Board!Posted
  <2> QED
    BY <2>2, <2>3 DEF BoardNext, Board!Next
<1> QED
  BY <1>1, <1>2, <1>3

\* The documents that a sweep reads have expired.
LEMMA BoardSweep ==
  ASSUME SnapInv, BoardInv, NEW w \in Sweepers, SweepExpired(w)
  PROVE  BoardInv' /\ BoardNext
<1>1. PICK S \in Batches : BeginDelete(w, "sweep", None, S)
  BY DEF SweepExpired
<1>2. S \in SUBSET Present /\ \A s \in S : Expired(s)
  BY DEF Batches
<1>3. w \in Workers /\ w \notin Handlers
  BY SnapAssumption DEF Workers
<1>4. BoardInv' /\ Others(w) /\ UNCHANGED <<docs, made, bucket, now>>
  <2>1. \A s \in S : /\ "sweep" = "sweep" => Expired(s)
                     /\ "sweep" = "deleteOne" => docs[s].owner = None \/ None \in Admins
    BY <1>2
  <2> QED
    BY <1>1, <1>2, <1>3, <2>1, BoardBeginDelete
<1> QED
  BY <1>3, <1>4, NotAsked DEF BoardNext, bucket

\* The storage service deletes a key; of the deletes, only the one that it is for
\* is any nearer its end.
LEMMA BoardStorage ==
  ASSUME SnapInv, BoardInv, NEW k \in Keys,
         (\E w \in Workers : StorageDeletes(w, k)) \/ LateDelete(k)
  PROVE  BoardInv' /\ BoardNext
<1> USE DEF SnapInv
<1>1. UNCHANGED <<docs, made, url, pc, job, now, again>> /\ stored' = stored \ {k}
  BY DEF StorageDeletes, LateDelete
<1>2. BoardInv'
  BY <1>1, BoardStays, DocsOnward
<1>3. ASSUME Asked' = Asked PROVE BoardNext
  <2>1. Board!DeleteImage(k) /\ UNCHANGED Asked
    BY <1>1, <1>3 DEF Board!DeleteImage
  <2> QED
    BY <2>1 DEF BoardNext, Board!Next
<1>4. CASE LateDelete(k)
  <2>1. Asked' = Asked
    BY <1>4, AskedStays DEF LateDelete
  <2> QED
    BY <1>2, <1>3, <2>1
<1>5. ASSUME NEW w \in Workers, StorageDeletes(w, k) PROVE BoardNext
  <2>1. /\ pc[w] = "files" /\ k \in todo[w] /\ todo' = [todo EXCEPT ![w] = todo[w] \ {k}]
    BY <1>5 DEF StorageDeletes
  <2>2. todo'[w] = todo[w] \ {k} /\ Others(w)
    BY <1>1, <2>1 DEF Typed, Others
  <2>3. CASE w \notin Handlers
    BY <1>3, <2>2, <2>3, NotAsked
  <2>4. CASE w \in Handlers
    <3>1. Asked' = [Asked EXCEPT ![w] = Asked'[w]]
      BY <2>2, <2>4, AskedChanges
    <3>2. k \in Asked[w].left /\ Asked'[w] = [Asked[w] EXCEPT !.left = @ \ {k}]
      <4> DEFINE a == [op    |-> IF job[w].op = "deleteOne" THEN "one" ELSE "bulk",
                       users |-> IF job[w].op = "deleteAll" THEN Users ELSE {job[w].user},
                       read  |-> job[w].targets,
                       left  |-> todo[w]]
      <4>1. Asked[w] = a
        BY <2>1, <2>4 DEF Asked
      <4>2. Asked'[w] = [a EXCEPT !.left = @ \ {k}]
        BY <1>1, <2>1, <2>2, <2>4 DEF Asked
      <4> QED
        BY <2>1, <4>1, <4>2
    <3>3. Asked' = [Asked EXCEPT ![w].left = @ \ {k}]
      BY <3>1, <3>2
    <3>4. Board!DeleteImageFor(k, w)
      BY <1>1, <3>2, <3>3 DEF Board!DeleteImageFor, Board!DeleteImage
    <3> QED
      BY <2>4, <3>4 DEF BoardNext, Board!Next
  <2> QED
    BY <2>3, <2>4
<1> QED
  BY <1>2, <1>4, <1>5

\* No image of a snap that expired can come: its URL has expired before.
LEMMA BoardUpload ==
  ASSUME SnapInv, BoardInv, NEW k \in Keys, Presign(k) \/ Upload(k)
  PROVE  BoardInv' /\ BoardNext
<1> USE DEF SnapInv
<1>1. UNCHANGED <<docs, made, pc, job, todo, now>>
  BY DEF Presign, Upload
<1>2. Asked' = Asked
  BY <1>1, AskedStays
<1>3. Present' = Present /\ Present \subseteq made
  BY <1>1 DEF Present, Typed
<1>4. CASE Presign(k)
  <2>1. url[k] = 0 /\ url' = [url EXCEPT ![k] = now + UrlLasts] /\ UNCHANGED <<stored, again>>
    BY <1>4 DEF Presign
  <2>2. Onward
    BY <1>1, <2>1 DEF Onward, Typed
  <2>3. UrlsOK'
    <3>1. \A s \in Present : docs[s].keys \subseteq Keys
      BY DEF Present, Typed, Doc
    <3>2. \A s \in Present : \A x \in docs[s].keys : x \in Keys /\ x # k
      BY <2>1, <3>1 DEF BoardInv, UrlsOK
    <3>3. \A x \in Keys : url'[x] = IF x = k THEN now + UrlLasts ELSE url[x]
      BY <2>1 DEF Typed
    <3>4. \A x \in Keys : url'[x] <= now + UrlLasts
      BY <3>3, TimesAssumption DEF BoardInv, UrlsOK, Typed
    <3> QED
      BY <1>1, <1>3, <3>2, <3>3, <3>4 DEF BoardInv, UrlsOK
  <2>4. BoardInv'
    BY <1>1, <2>1, <2>2, <2>3, BoardStays
  <2>5. Board!Presign(k)
    BY <1>1, <1>2, <2>1 DEF Board!Presign
  <2> QED
    BY <2>4, <2>5 DEF BoardNext, Board!Next
<1>5. CASE Upload(k)
  <2>1. /\ now < url[k] /\ stored' = stored \cup {k} /\ UNCHANGED url
        /\ again' = [h \in Workers |-> IF pc[h] = "files" /\ k \notin todo[h]
                                       THEN again[h] \cup {k} ELSE again[h]]
    BY <1>5 DEF Upload
  <2>2. Onward /\ UrlsOK'
    BY <1>1, <2>1, DocsOnward
  <2>3. ASSUME NEW s \in Snaps, docs[s] # NoSnap, Expired(s) PROVE k \notin docs[s].keys
    <3>1. docs[s].expiresAt \in Nat /\ s \in Present
      BY <2>3 DEF Typed, Doc, Present
    <3>2. now \in Nat /\ url[k] \in Nat
      BY DEF Typed
    <3>3. k \in docs[s].keys => url[k] <= docs[s].expiresAt
      BY <3>1 DEF BoardInv, UrlsOK
    <3> QED
      BY <2>1, <2>3, <3>1, <3>2, <3>3 DEF Expired
  <2>4. ASSUME NEW w \in Workers PROVE DeleteOK(w)'
    <3>1. again'[w] = IF pc[w] = "files" /\ k \notin todo[w] THEN again[w] \cup {k} ELSE again[w]
      BY <2>1
    <3>2. DeleteOK(w)
      BY DEF BoardInv
    <3>3. CASE pc[w] # "files"
      BY <1>1, <3>1, <3>2, <3>3 DEF DeleteOK
    <3>4. CASE pc[w] = "files"
      <4>1. \A s \in job[w].targets : s \in Snaps
        BY <3>4 DEF FilesInv, Typed
      <4>2. ASSUME NEW s \in job[w].targets, docs[s] # NoSnap, job[w].op = "sweep"
            PROVE  Expired(s) /\ docs[s].keys \cap again'[w] = {}
        <5>1. Expired(s) /\ docs[s].keys \cap again[w] = {}
          BY <3>2, <3>4, <4>2 DEF DeleteOK
        <5>2. k \notin docs[s].keys
          BY <2>3, <4>1, <4>2, <5>1
        <5> QED
          BY <3>1, <5>1, <5>2
      <4> QED
        BY <1>1, <3>2, <3>4, <4>2 DEF DeleteOK, Expired
    <3> QED
      BY <3>3, <3>4
  <2>5. \A w \in Workers : CreateOK(w)'
    BY <1>1, <2>1 DEF BoardInv, CreateOK
  <2>6. BoardInv'
    BY <2>2, <2>4, <2>5 DEF BoardInv
  <2>7. Board!Upload(k)
    BY <1>1, <1>2, <2>1 DEF Board!Upload
  <2> QED
    BY <2>6, <2>7 DEF BoardNext, Board!Next
<1> QED
  BY <1>4, <1>5

\* A delete, or a sweep, ends: the snaps go, after their images.
LEMMA BoardDeleteDocs ==
  ASSUME SnapInv, BoardInv, NEW w \in Workers, DeleteDocs(w)
  PROVE  BoardInv' /\ BoardNext
<1> USE DEF SnapInv
<1> DEFINE j == job[w]
           S == Doomed(j)
<1>1. /\ pc[w] = "files" /\ todo[w] = {} /\ End(w)
      /\ UNCHANGED <<made, url, stored, late, now>>
      /\ docs' = [s \in Snaps |-> IF s \in S THEN NoSnap ELSE docs[s]]
  BY DEF DeleteDocs, bucket
<1>2. pc'[w] = "idle" /\ again'[w] = {} /\ Others(w)
  BY <1>1, Ended
<1>3. j \in DeleteJob /\ (j.op # "sweep" => w \in Handlers)
  BY <1>1 DEF JobsOK, StageOK
<1>4. /\ j.op = "sweep" <=> w \in Sweepers
      /\ \A s \in j.targets : docs[s] # NoSnap =>
           /\ j.op = "sweep" => Expired(s) /\ docs[s].keys \cap again[w] = {}
           /\ j.op = "deleteOne" => docs[s].owner = j.user \/ j.user \in Admins
  BY <1>1 DEF BoardInv, DeleteOK
<1>5. BoardInv'
  <2>1. \A s \in made : docs'[s] # NoSnap => docs[s] # NoSnap /\ docs'[s] = docs[s]
    BY <1>1 DEF Typed
  <2>2. Onward
    BY <1>1, <2>1 DEF Onward, Typed
  <2>3. Present' \subseteq made
    BY <1>1 DEF Present, Typed
  <2> QED
    BY <1>1, <1>2, <2>2, <2>3, UrlsKept, BoardMoves DEF BoardInv
<1>6. CASE w \in Sweepers
  <2>1. Asked' = Asked
    BY <1>2, <1>6, NotAsked, SnapAssumption
  <2> DEFINE T == j.targets \cap Board!Posted
  <2>2. S = j.targets
    BY <1>4, <1>6 DEF Doomed
  <2>3. docs' = [s \in Snaps |-> IF s \in T THEN NoSnap ELSE docs[s]]
    BY <1>1, <2>2 DEF Board!Posted
  <2>4. ASSUME NEW s \in T PROVE docs[s].expiresAt <= now /\ docs[s].keys \cap stored = {}
    <3>1. docs[s] # NoSnap /\ s \in Snaps /\ docs[s].keys \subseteq Keys
      BY DEF Board!Posted, Typed, Doc
    <3>2. Expired(s) /\ docs[s].keys \cap again[w] = {}
      BY <1>4, <1>6, <3>1
    <3>3. \A k \in docs[s].keys : k \notin stored
      BY <1>1, <3>1, <3>2 DEF FilesInv
    <3> QED
      BY <3>2, <3>3 DEF Expired
  <2>5. Board!Sweep(T)
    BY <1>1, <2>1, <2>3, <2>4 DEF Board!Sweep, Board!Remove, Board!bucket
  <2> QED
    BY <1>5, <2>5 DEF BoardNext, Board!Next
<1>7. CASE w \in Handlers
  <2>1. j.op \in {"deleteOne", "deleteByUser", "deleteAll"}
    BY <1>3, <1>4, <1>7, SnapAssumption DEF DeleteJob
  <2> DEFINE a == [op    |-> IF j.op = "deleteOne" THEN "one" ELSE "bulk",
                   users |-> IF j.op = "deleteAll" THEN Users ELSE {j.user},
                   read  |-> j.targets,
                   left  |-> {}]
  <2>2. Asked[w] = a
    BY <1>1, <1>7 DEF Asked
  <2>3. Asked' = [Asked EXCEPT ![w] = Board!NoDelete]
    <3>1. Asked' = [Asked EXCEPT ![w] = Asked'[w]]
      BY <1>2, <1>7, AskedChanges
    <3>2. Asked'[w] = Board!NoDelete
      BY <1>2, <1>7 DEF Asked, Board!NoDelete
    <3> QED
      BY <3>1, <3>2
  <2>4. /\ a.op = IF j.op = "deleteOne" THEN "one" ELSE "bulk"
        /\ a.users = IF j.op = "deleteAll" THEN Users ELSE {j.user}
        /\ a.read = j.targets /\ a.left = {}
    OBVIOUS
  <2> HIDE DEF a
  <2>5. Board!Done(w)
    <3>1. Asked[w] # Board!NoDelete
      BY <2>2, <2>4 DEF Board!NoDelete
    <3> QED
      BY <2>2, <2>3, <2>4, <3>1 DEF Board!Done
  <2>6. CASE j.op = "deleteOne"
    <3>1. S = Asked[w].read
      BY <2>2, <2>4, <2>6 DEF Doomed
    <3>2. \A s \in Asked[w].read \cap Board!Posted :
            \E u \in Asked[w].users : u = docs[s].owner \/ u \in Admins
      BY <1>4, <2>2, <2>4, <2>6 DEF Board!Posted
    <3>3. Board!Remove(Asked[w].read)
      BY <1>1, <3>1 DEF Board!Remove, Board!bucket
    <3>4. Board!Delete(w)
      BY <2>2, <2>4, <2>5, <2>6, <3>2, <3>3 DEF Board!Delete
    <3> QED
      BY <1>5, <1>7, <3>4 DEF BoardNext, Board!Next
  <2>7. CASE j.op \in {"deleteByUser", "deleteAll"}
    <3>1. \A s \in Snaps : docs[s] # NoSnap => docs[s].owner \in Users
      BY DEF Typed, Doc
    <3>2. S = Board!Of(Asked[w].users)
      BY <2>2, <2>4, <2>7, <3>1 DEF Doomed, Of, Present, Board!Of, Board!Posted
    <3>3. Board!Remove(Board!Of(Asked[w].users))
      BY <1>1, <3>2 DEF Board!Remove, Board!bucket
    <3>4. Board!Clear(w)
      BY <2>2, <2>4, <2>5, <2>7, <3>3 DEF Board!Clear
    <3> QED
      BY <1>5, <1>7, <3>4 DEF BoardNext, Board!Next
  <2> QED
    BY <2>1, <2>6, <2>7
<1> QED
  BY <1>6, <1>7 DEF Workers

LEMMA BoardAbort ==
  ASSUME SnapInv, BoardInv, NEW w \in Workers, Abort(w)
  PROVE  BoardInv' /\ BoardNext
<1>1. End(w) /\ UNCHANGED <<docs, made, url, stored, now>>
  BY DEF Abort, bucket
<1>2. pc'[w] = "idle" /\ again'[w] = {} /\ Others(w)
  BY <1>1, Ended
<1>3. BoardInv'
  BY <1>1, <1>2, BoardMoves, DocsOnward
<1>4. CASE pc[w] # "files" \/ w \notin Handlers
  BY <1>1, <1>2, <1>3, <1>4, NotAsked DEF BoardNext
<1>5. CASE w \in Handlers
  <2>1. Asked' = [Asked EXCEPT ![w] = Asked'[w]]
    BY <1>2, <1>5, AskedChanges
  <2>2. Asked'[w] = Board!NoDelete
    BY <1>2, <1>5 DEF Asked, Board!NoDelete
  <2>3. Board!GiveUp(w)
    BY <1>1, <2>1, <2>2 DEF Board!GiveUp, Board!bucket
  <2> QED
    BY <1>3, <1>5, <2>3 DEF BoardNext, Board!Next
<1> QED
  BY <1>4, <1>5

\* The update is the moment at which a snap is found or reopened.
LEMMA BoardUpdate ==
  ASSUME SnapInv, BoardInv, NEW h \in Handlers, ResolveUpdate(h)
  PROVE  BoardInv' /\ BoardNext
<1> USE DEF SnapInv
<1> DEFINE j == job[h]
           s == j.snap
           d == docs[s]
           r == Resolved(d, j)
<1>1. /\ h \in Workers /\ pc[h] = "updating" /\ End(h)
      /\ UNCHANGED <<made, url, stored, late, now>>
      /\ docs' = [docs EXCEPT ![s] = IF d = NoSnap THEN NoSnap ELSE r]
  BY DEF ResolveUpdate, Workers, bucket
<1>2. j \in ResolveJob
  BY <1>1 DEF JobsOK, StageOK
<1>3. s \in Snaps /\ j.user \in Users /\ j.op \in {"found", "foundWithNote", "reopen"}
  BY <1>2 DEF ResolveJob
<1>4. pc'[h] = "idle" /\ again'[h] = {} /\ Others(h)
  BY <1>1, Ended
<1>5. CASE d = NoSnap
  <2>1. docs' = docs
    BY <1>1, <1>5 DEF Typed
  <2> QED
    BY <1>1, <1>4, <2>1, Quiet DEF bucket
<1>6. CASE d # NoSnap
  <2>1. d \in Doc /\ r.owner = d.owner /\ r.keys = d.keys /\ r.expiresAt = d.expiresAt
    <3>1. d \in Doc
      BY <1>3, <1>6 DEF Typed
    <3> QED
      BY <1>2, <3>1, ResolvedDoc
  <2>2. Asked' = Asked
    BY <1>1, <1>4, NotAsked
  <2>3. s \in Board!Posted
    BY <1>3, <1>6 DEF Board!Posted
  <2>4. \/ \E u \in Users : \E noteBy \in {d.noteBy, u} :
             r = [d EXCEPT !.resolution = "FOUND", !.resolvedBy = u, !.noteBy = noteBy]
        \/ r = [d EXCEPT !.resolution = "OPEN", !.resolvedBy = None, !.noteBy = None]
    <3> HIDE DEF d, j, s
    <3>1. CASE j.op = "found"
      <4>1. r = [d EXCEPT !.resolution = "FOUND", !.resolvedBy = j.user, !.noteBy = d.noteBy]
        BY <2>1, <3>1 DEF Resolved, Doc
      <4> QED
        BY <1>3, <4>1
    <3>2. CASE j.op = "foundWithNote"
      BY <1>3, <3>2 DEF Resolved
    <3>3. CASE j.op = "reopen"
      BY <3>3 DEF Resolved
    <3> QED
      BY <1>3, <3>1, <3>2, <3>3
  <2> HIDE DEF r
  <2>5. docs' = [docs EXCEPT ![s] = r]
    BY <1>1, <1>6
  <2>6. BoardInv'
    <3>1. docs'[s] = r /\ \A t \in Snaps \ {s} : docs'[t] = docs[t]
      BY <1>3, <2>5 DEF Typed
    <3>2. Onward
      BY <1>1, <1>6, <2>1, <3>1 DEF Onward, Typed
    <3>3. Present' \subseteq made
      BY <1>3, <1>6, <3>1 DEF Typed, Present
    <3> QED
      BY <1>1, <1>4, <3>2, <3>3, UrlsKept, BoardMoves DEF BoardInv
  <2>7. Board!Reopen(s) \/ \E u \in Users : Board!MarkFound(s, u)
    <3>1. Board!Put(s, r)
      BY <1>1, <2>2, <2>5 DEF Board!Put, Board!bucket
    <3> QED
      BY <2>4, <3>1, Zenon DEF Board!Reopen, Board!MarkFound
  <2> QED
    BY <2>3, <2>6, <2>7 DEF BoardNext, Board!Next
<1> QED
  BY <1>5, <1>6

LEMMA BoardResolve ==
  ASSUME SnapInv, BoardInv, NEW h \in Handlers, NEW op, NEW s, NEW u, Resolve(h, op, s, u)
  PROVE  BoardInv' /\ BoardNext
<1>1. h \in Workers /\ UNCHANGED <<docs, made, bucket, now>>
  BY DEF Resolve, Workers
<1>2. pc[h] = "idle" /\ pc'[h] = "updating" /\ again'[h] = again[h] /\ Others(h)
  BY <1>1, Began DEF Resolve
<1> QED
  BY <1>1, <1>2, Quiet

LEMMA BoardArrive ==
  ASSUME SnapInv, BoardInv, NEW h \in Handlers, Arrive(h)
  PROVE  BoardInv' /\ BoardNext
<1>1. ASSUME NEW u \in Users, NEW p \in Places, NEW K \in SUBSET Keys,
             NEW i \in IdemKeys \cup {None}, Create(h, u, p, K, i)
      PROVE  BoardInv' /\ BoardNext
  BY <1>1, BoardCreate
<1>2. ASSUME NEW u \in Users, NEW s \in Snaps, MarkFound(h, s, u) \/ Reopen(h, s, u)
      PROVE  BoardInv' /\ BoardNext
  BY <1>2, BoardResolve DEF MarkFound, Reopen
<1> QED
  BY <1>1, <1>2, BoardDeletes DEF Arrive

\* Each step of the service is a step of the board, or is not seen there.
LEMMA BoardStep == SnapInv /\ BoardInv /\ [Next]_vars => BoardInv' /\ [Board!Next]_(Board!vars)
<1> SUFFICES ASSUME SnapInv, BoardInv, [Next]_vars PROVE BoardInv' /\ BoardNext
  BY DEF BoardNext, Board!vars, Board!bucket
<1>1. CASE UNCHANGED vars
  <2>1. UNCHANGED <<docs, made, url, stored, pc, job, todo, now, again>>
    BY <1>1 DEF vars, bucket
  <2> QED
    BY <2>1, BoardStays, DocsOnward, AskedStays DEF BoardNext
<1>2. ASSUME NEW h \in Handlers, CreateReplay(h) PROVE BoardInv' /\ BoardNext
  <2>1. /\ h \in Workers /\ pc[h] = "replaying" /\ End(h)
        /\ UNCHANGED <<docs, made, bucket, now>>
    BY <1>2 DEF CreateReplay, Workers
  <2> QED
    BY <2>1, Ended, Quiet
<1>3. CASE Tick
  <2>1. UNCHANGED <<docs, made, url, stored, pc, job, todo, again>> /\ now' = now + 1
    BY <1>3 DEF Tick, bucket
  <2>2. Onward
    BY <2>1 DEF Onward, SnapInv, Typed
  <2>3. Asked' = Asked
    BY <2>1, AskedStays
  <2>4. Present' \subseteq made
    BY <2>1 DEF Present, SnapInv, Typed
  <2>5. BoardInv'
    BY <2>1, <2>2, <2>4, UrlsKept, BoardStays DEF BoardInv
  <2>6. Board!Tick
    BY <2>1, <2>3 DEF Board!Tick, Board!bucket
  <2> QED
    BY <2>5, <2>6 DEF BoardNext, Board!Next
<1> QED
  BY <1>1, <1>2, <1>3, BoardArrive, BoardCheckArea, BoardInsert, BoardUpdate, BoardSweep,
     BoardDeleteDocs, BoardAbort, BoardStorage, BoardUpload DEF Next

LEMMA BoardInit == Init => Board!Init /\ BoardInv
<1> SUFFICES ASSUME Init PROVE Board!Init /\ BoardInv
  OBVIOUS
<1>1. \A w \in Workers : pc[w] = "idle" /\ again[w] = {}
  BY DEF Init
<1>2. BoardInv
  BY <1>1, TimesAssumption DEF BoardInv, UrlsOK, DeleteOK, CreateOK, Init, Present
<1>3. Asked = [h \in Handlers |-> Board!NoDelete]
  BY <1>1 DEF Asked, Workers, Board!NoDelete
<1> QED
  BY <1>2, <1>3 DEF Init, Board!Init

LEMMA BoardInvHolds == Spec => []BoardInv
BY BoardInit, BoardStep, SnapInvHolds, PTL DEF Spec

\* However its handlers, sweeps, uploads and failures interleave, the service does
\* what SnapBoard says: each snap is posted, resolved and deleted in one step, by those
\* who may, after each of its images was deleted, and what a delete read when it began
\* is still enough when it ends.
THEOREM ImplementsBoard == Spec => ImplementsSnapBoard
BY BoardInit, BoardStep, SnapInvHolds, PTL DEF Spec, ImplementsSnapBoard, Board!Spec

\* A stored image loses its last document in two races only: a bulk delete removes a
\* snap it did not read, or the client PUT the image again after a delete of its snap
\* had it deleted.  A failed or late delete, or a sweep, orphans none.
THEOREM OnlyRacesOrphanHolds == Spec => OnlyRacesOrphan
<1> DEFINE Orphans ==
      \A k \in Keys :
       Referenced(k) /\ k \in stored /\ ~Referenced(k)' =>
         \E h \in Handlers :
           /\ DeleteDocs(h)
           /\ \/ k \in again[h]
              \/ /\ job[h].op \in {"deleteByUser", "deleteAll"}
                 /\ k \notin KeysOf(job[h].targets \cap Present)
<1>1. ASSUME SnapInv, BoardInv, [Next]_vars, NEW k \in Keys,
             Referenced(k), k \in stored, ~Referenced(k)'
      PROVE  \E h \in Handlers :
               /\ DeleteDocs(h)
               /\ \/ k \in again[h]
                  \/ /\ job[h].op \in {"deleteByUser", "deleteAll"}
                     /\ k \notin KeysOf(job[h].targets \cap Present)
  <2> USE DEF SnapInv
  <2>1. PICK s \in Present : k \in docs[s].keys
    BY <1>1 DEF Referenced
  <2>2. s \in Snaps /\ docs[s] # NoSnap /\ docs[s] \in Doc /\ s \in made
    BY <1>1, <2>1 DEF Present, Typed
  <2>3. ~(docs'[s] # NoSnap /\ docs'[s].keys = docs[s].keys)
    BY <1>1, <2>1, <2>2 DEF Referenced, Present
  <2>4. PICK w \in Workers : DeleteDocs(w)
    <3>1. docs' # docs
      BY <2>2, <2>3
    <3>2. ASSUME NEW h \in Handlers, CreateInsert(h) PROVE FALSE
      <4>1. PICK t \in Snaps \ made : docs' = [docs EXCEPT ![t] = job[h].doc]
        BY <3>1, <3>2 DEF CreateInsert
      <4>2. docs'[s] = docs[s]
        BY <1>1, <2>2, <4>1 DEF Typed
      <4> QED
        BY <2>2, <2>3, <4>2
    <3>3. ASSUME NEW h \in Handlers, ResolveUpdate(h) PROVE FALSE
      <4>1. h \in Workers /\ job[h] \in ResolveJob /\ job[h].snap \in Snaps
        BY <1>1, <3>3 DEF ResolveUpdate, Workers, JobsOK, StageOK, ResolveJob
      <4> DEFINE t == job[h].snap
      <4>2. docs' = [docs EXCEPT ![t] = IF docs[t] = NoSnap THEN NoSnap ELSE Resolved(docs[t], job[h])]
        BY <3>3 DEF ResolveUpdate
      <4>3. CASE t = s
        <5>1. docs'[s] = Resolved(docs[s], job[h])
          BY <1>1, <2>2, <4>1, <4>2, <4>3 DEF Typed
        <5>2. Resolved(docs[s], job[h]) \in Doc /\ Resolved(docs[s], job[h]).keys = docs[s].keys
          BY <2>2, <4>1, ResolvedDoc
        <5> QED
          BY <2>3, <5>1, <5>2, NoSnapAssumption
      <4>4. CASE t # s
        <5>1. docs'[s] = docs[s]
          BY <1>1, <2>2, <4>1, <4>2, <4>4 DEF Typed
        <5> QED
          BY <2>2, <2>3, <5>1
      <4> QED
        BY <4>3, <4>4
    <3>4. ASSUME NEW h \in Handlers, Arrive(h) \/ CreateCheckArea(h) \/ CreateReplay(h)
          PROVE  UNCHANGED docs
      BY <3>4 DEF Arrive, Create, DeleteSnap, DeleteAll, DeleteByUserId, BeginDelete,
         MarkFound, Reopen, Resolve, CreateCheckArea, CreateReplay
    <3>5. ASSUME NEW x \in Keys,
                 Presign(x) \/ Upload(x) \/ LateDelete(x) \/ \E w \in Workers : StorageDeletes(w, x)
          PROVE  UNCHANGED docs
      BY <3>5 DEF Presign, Upload, LateDelete, StorageDeletes
    <3>6. ASSUME Tick \/ UNCHANGED vars \/ (\E w \in Sweepers : SweepExpired(w))
                 \/ \E w \in Workers : Abort(w)
          PROVE  UNCHANGED docs
      BY <3>6 DEF Tick, vars, SweepExpired, BeginDelete, Abort
    <3> QED
      BY <1>1, <3>1, <3>2, <3>3, <3>4, <3>5, <3>6 DEF Next
  <2>5. pc[w] = "files" /\ todo[w] = {}
    BY <2>4 DEF DeleteDocs
  <2>6. job[w] \in DeleteJob /\ (job[w].op # "sweep" => w \in Handlers)
    BY <1>1, <2>5 DEF JobsOK, StageOK
  <2>7. s \in Doomed(job[w])
    BY <2>2, <2>3, <2>4 DEF DeleteDocs
  <2>8. CASE w \in Handlers /\ k \in again[w]
    BY <2>4, <2>8
  <2>9. CASE k \notin again[w]
    <3>1. k \notin KeysOf(job[w].targets \cap Present)
      BY <1>1, <2>5, <2>9 DEF FilesInv, KeysOf, Present
    <3>2. s \notin job[w].targets
      BY <2>1, <3>1 DEF KeysOf
    <3>3. job[w].op \in {"deleteByUser", "deleteAll"}
      BY <2>6, <2>7, <3>2 DEF Doomed, DeleteJob
    <3> QED
      BY <2>4, <2>6, <3>1, <3>3
  <2>10. CASE w \notin Handlers /\ k \in again[w]
    <3>1. job[w].op = "sweep"
      BY <2>6, <2>10
    <3>2. s \in job[w].targets
      BY <2>7, <3>1 DEF Doomed
    <3>3. docs[s].keys \cap again[w] = {}
      BY <1>1, <2>2, <2>5, <3>1, <3>2 DEF BoardInv, DeleteOK
    <3> QED
      BY <2>1, <2>10, <3>3
  <2> QED
    BY <2>8, <2>9, <2>10
<1>2. SnapInv /\ BoardInv /\ [Next]_vars => [Orphans]_vars
  BY <1>1
<1> QED
  BY <1>2, SnapInvHolds, BoardInvHolds, PTL DEF Spec, OnlyRacesOrphan
================================================================================
