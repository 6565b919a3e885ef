------------------------- MODULE AccountDeletionProofs -------------------------
(***************************************************************************)
(* Theorems of AccountDeletion, for any number of attempts, calls, snaps,  *)
(* other requests of the client and savers of the credential row.          *)
(***************************************************************************)
EXTENDS AccountDeletion, TLAPS

-------------------------------------------------------------------------------
\* Attempts and calls.

\* Every attempt that waits, waits for a call of its own step, and for a call
\* that no other attempt waits for.
Linked ==
  /\ saga \in [Attempts -> [step : Steps \cup Ended, call : Calls \cup {None}]]
  /\ calls \in [Calls -> Call \cup {None}]
  /\ \A a \in Attempts :
       saga[a].call # None =>
         calls[saga[a].call] # None /\ calls[saga[a].call].op = saga[a].step
  /\ \A a, b \in Attempts :
       saga[a].call # None /\ saga[a].call = saga[b].call => a = b

DataTyped ==
  /\ account \in Statuses /\ closed \in BOOLEAN /\ mix \in Mixes
  /\ session \in [token : BOOLEAN, refresh : BOOLEAN]
  /\ writing \in [Requests -> Writes \cup {None}]
  /\ saving \in [Savers -> Copy \cup {None}]
  /\ snaps \subseteq Snaps
  /\ profile \in BOOLEAN
  /\ records \subseteq Kinds
  /\ event \in BOOLEAN

TypeInv == DataTyped /\ Linked

Stages == {"sent", "save", "write", "files", "seen", "bookmark", "report",
           "settings", "user", "done", "failed"}

\* Sending a call that no other attempt waits for keeps the links.
LEMMA SendLinked ==
  ASSUME Linked, NEW a \in Attempts, NEW c \in Calls, NEW step \in Steps,
         NEW right \in BOOLEAN, NEW owes \in SUBSET Items,
         Send(a, c, step, right, owes),
         \A b \in Attempts : b # a => saga[b].call # c
  PROVE  /\ Linked'
         /\ calls'[c] = [op |-> step, stage |-> "sent", found |-> right,
                         base |-> None, owes |-> owes]
         /\ calls'[c] # None /\ calls'[c] \in Call
         /\ \A d \in Calls : d # c => calls'[d] = calls[d]
         /\ saga'[a].step = step
         /\ \A b \in Attempts : b # a => saga'[b] = saga[b]
<1> DEFINE call == [op |-> step, stage |-> "sent", found |-> right,
                    base |-> None, owes |-> owes]
           wait == [step |-> step, call |-> c]
<1>1. call \in Call /\ call.op = step
  BY DEF Call
<1>2. wait \in [step : Steps \cup Ended, call : Calls \cup {None}]
      /\ wait.step = step /\ wait.call = c
  OBVIOUS
<1>3. saga' = [saga EXCEPT ![a] = wait] /\ calls' = [calls EXCEPT ![c] = call]
  BY DEF Send
<1>4. call # None /\ c # None
  BY <1>1, NoneAssumption, DeletionAssumption
<1> SUFFICES /\ Linked' /\ calls'[c] = call
             /\ \A d \in Calls : d # c => calls'[d] = calls[d]
             /\ saga'[a].step = step
             /\ \A b \in Attempts : b # a => saga'[b] = saga[b]
  BY <1>1, <1>4
<1> HIDE DEF call, wait
<1>5. \A b \in Attempts : saga'[b] = IF b = a THEN wait ELSE saga[b]
  BY <1>3 DEF Linked
<1>6. \A d \in Calls : calls'[d] = IF d = c THEN call ELSE calls[d]
  BY <1>3 DEF Linked
<1>7. saga' \in [Attempts -> [step : Steps \cup Ended, call : Calls \cup {None}]]
  BY <1>2, <1>3 DEF Linked
<1>8. calls' \in [Calls -> Call \cup {None}]
  BY <1>1, <1>3 DEF Linked
<1>9. ASSUME NEW b \in Attempts, saga'[b].call # None
      PROVE  /\ calls'[saga'[b].call] # None
             /\ calls'[saga'[b].call].op = saga'[b].step
  <2>1. CASE b = a
    BY <2>1, <1>1, <1>2, <1>4, <1>5, <1>6
  <2>2. CASE b # a
    <3>1. saga'[b] = saga[b] /\ saga[b].call \in Calls /\ saga[b].call # c
      BY <2>2, <1>5, <1>9 DEF Linked
    <3> QED
      BY <3>1, <1>6, <1>9 DEF Linked
  <2> QED
    BY <2>1, <2>2
<1>10. ASSUME NEW b \in Attempts, NEW d \in Attempts,
              saga'[b].call # None, saga'[b].call = saga'[d].call
       PROVE  b = d
  BY <1>2, <1>5, <1>10 DEF Linked
<1>11. Linked'
  BY <1>7, <1>8, <1>9, <1>10 DEF Linked
<1> QED
  BY <1>2, <1>5, <1>6, <1>11

\* What an attempt that stops makes of the attempts.
LEMMA StopSaga ==
  ASSUME Linked, NEW a \in Attempts, NEW outcome \in Ended, Stop(a, outcome)
  PROVE  /\ saga' \in [Attempts -> [step : Steps \cup Ended, call : Calls \cup {None}]]
         /\ saga'[a].step = outcome /\ saga'[a].call = None
         /\ \A b \in Attempts : b # a => saga'[b] = saga[b]
<1> DEFINE wait == [step |-> outcome, call |-> None]
<1>1. wait \in [step : Steps \cup Ended, call : Calls \cup {None}]
      /\ wait.step = outcome /\ wait.call = None
  OBVIOUS
<1>2. saga' = [saga EXCEPT ![a] = wait]
  BY DEF Stop
<1> HIDE DEF wait
<1>3. \A b \in Attempts : saga'[b] = IF b = a THEN wait ELSE saga[b]
  BY <1>2 DEF Linked
<1> QED
  BY <1>1, <1>2, <1>3 DEF Linked

\* An attempt that stops waiting keeps the links of the others.
LEMMA StopLinked ==
  ASSUME Linked, NEW a \in Attempts, NEW outcome \in Ended, Stop(a, outcome),
         UNCHANGED calls
  PROVE  Linked'
BY StopSaga DEF Linked

\* So does one that takes its answer with it.
LEMMA AnswerLinked ==
  ASSUME Linked, NEW a \in Attempts, NEW outcome \in Ended, Stop(a, outcome),
         saga[a].call # None, calls' = [calls EXCEPT ![saga[a].call] = None]
  PROVE  /\ Linked'
         /\ \A d \in Calls : calls'[d] = IF d = saga[a].call THEN None ELSE calls[d]
<1>1. saga[a].call \in Calls
  BY DEF Linked
<1>2. \A d \in Calls : calls'[d] = IF d = saga[a].call THEN None ELSE calls[d]
  BY <1>1 DEF Linked
<1>3. calls' \in [Calls -> Call \cup {None}]
  BY <1>1 DEF Linked
<1>4. ASSUME NEW b \in Attempts, saga'[b].call # None
      PROVE  /\ calls'[saga'[b].call] # None
             /\ calls'[saga'[b].call].op = saga'[b].step
  <2>1. b # a /\ saga'[b] = saga[b]
    BY <1>4, StopSaga
  <2>2. saga[b].call \in Calls /\ saga[b].call # saga[a].call
    BY <2>1, <1>4 DEF Linked
  <2> QED
    BY <2>1, <2>2, <1>2, <1>4 DEF Linked
<1> QED
  BY <1>2, <1>3, <1>4, StopSaga DEF Linked

\* The call an attempt waits for is there and is of the attempt's step.
LEMMA Waiting ==
  ASSUME Linked, NEW a \in Attempts, saga[a].call # None
  PROVE  /\ saga[a].call \in Calls
         /\ calls[saga[a].call] \in Call
         /\ calls[saga[a].call] # None
         /\ calls[saga[a].call].op = saga[a].step
         /\ saga[a].step \in Steps
         /\ \A b \in Attempts : b # a => saga[b].call # saga[a].call
<1>1. saga[a].call \in Calls
  BY DEF Linked
<1>2. calls[saga[a].call] # None /\ calls[saga[a].call].op = saga[a].step
  BY DEF Linked
<1>3. calls[saga[a].call] \in Call
  BY <1>1, <1>2 DEF Linked
<1>4. saga[a].step \in Steps
  BY <1>2, <1>3 DEF Call
<1>5. \A b \in Attempts : b # a => saga[b].call # saga[a].call
  BY DEF Linked
<1> QED
  BY <1>1, <1>2, <1>3, <1>4, <1>5

-------------------------------------------------------------------------------
\* What a step of a handler makes of the calls.

\* A call that only lost some of what it owes.
Thin(t, r, D) ==
  /\ t \in Call /\ t # None
  /\ t.op = r.op /\ t.stage = r.stage /\ t.found = r.found /\ t.base = r.base
  /\ t.owes = r.owes \ D

\* The call goes on to a stage, and deletes D for itself and the others.
Moves(c, stage, D) ==
  /\ calls[c] # None /\ calls[c] \in Call
  /\ calls'[c] # None /\ calls'[c] \in Call
  /\ calls'[c].op = calls[c].op
  /\ calls'[c].stage = stage
  /\ calls'[c].base \in {None, calls[c].base, account}
  /\ calls'[c].owes = IF stage = "failed" THEN {} ELSE calls[c].owes \ D
  /\ \A d \in Calls \ {c} : IF calls[d] = None THEN calls'[d] = None
                            ELSE Thin(calls'[d], calls[d], D)
  /\ calls' \in [Calls -> Call \cup {None}]
  /\ UNCHANGED saga

\* Such a step keeps the links.
LEMMA MovesLinked ==
  ASSUME Linked, NEW c \in Calls, NEW stage, NEW D, Moves(c, stage, D)
  PROVE  Linked'
<1>1. \A d \in Calls : calls[d] # None => calls'[d] # None /\ calls'[d].op = calls[d].op
  BY DEF Moves, Thin
<1>2. \A a \in Attempts : saga[a].call \in Calls \cup {None}
  BY DEF Linked
<1> QED
  BY <1>1, <1>2 DEF Linked, Moves

\* A call that is not touched has lost nothing.
LEMMA Untouched ==
  ASSUME Linked, NEW d \in Calls, calls[d] # None
  PROVE  Thin(calls[d], calls[d], {})
BY DEF Linked, Thin

\* What a call becomes at its next stage.
LEMMA MovedCall ==
  ASSUME NEW r \in Call, NEW stage \in Stages
  PROVE  /\ Moved(r, stage) \in Call
         /\ Moved(r, stage).op = r.op /\ Moved(r, stage).stage = stage
         /\ Moved(r, stage).base \in {None, r.base}
         /\ Moved(r, stage).owes = IF stage = "failed" THEN {} ELSE r.owes
         /\ stage \notin Over => Moved(r, stage).found = r.found
<1>1. /\ r.op \in Steps /\ r.found \in BOOLEAN /\ r.owes \in SUBSET Items
      /\ r.base \in Statuses \cup {None}
  BY DEF Call
<1> QED
  BY <1>1 DEF Moved, Call, Stages, Over

\* Going on.
LEMMA GoOnMoves ==
  ASSUME Linked, NEW c \in Calls, calls[c] # None, NEW stage \in Stages,
         GoOn(c, stage), UNCHANGED saga
  PROVE  /\ Moves(c, stage, {})
         /\ stage \notin Over => calls'[c].found = calls[c].found
<1> DEFINE r == Moved(calls[c], stage)
<1>1. calls[c] \in Call
  BY DEF Linked
<1>2. r \in Call /\ r # None
  BY <1>1, MovedCall, NoneAssumption
<1>3. calls' = [calls EXCEPT ![c] = r]
  BY DEF GoOn
<1>4. /\ r.op = calls[c].op /\ r.stage = stage /\ r.base \in {None, calls[c].base}
      /\ r.owes = IF stage = "failed" THEN {} ELSE calls[c].owes
      /\ stage \notin Over => r.found = calls[c].found
  BY <1>1, MovedCall
<1> HIDE DEF r
<1>5. calls'[c] = r /\ \A d \in Calls \ {c} : calls'[d] = calls[d]
  BY <1>3 DEF Linked
<1>6. calls' \in [Calls -> Call \cup {None}]
  BY <1>2, <1>3 DEF Linked
<1>7. \A d \in Calls \ {c} : IF calls[d] = None THEN calls'[d] = None
                             ELSE Thin(calls'[d], calls[d], {})
  BY <1>5, Untouched
<1> QED
  BY <1>1, <1>2, <1>4, <1>5, <1>6, <1>7 DEF Moves

\* Deleting.
LEMMA DeletesMoves ==
  ASSUME Linked, NEW c \in Calls, calls[c] # None, NEW stage \in Stages \ {"failed"},
         NEW D, Deletes(c, D, stage), UNCHANGED saga
  PROVE  /\ Moves(c, stage, D)
         /\ stage \notin Over => calls'[c].found = calls[c].found
<1> DEFINE less(d) == [calls[d] EXCEPT !.owes = @ \ D]
<1>1. ASSUME NEW d \in Calls, calls[d] # None
      PROVE  Thin(less(d), calls[d], D)
  <2>1. calls[d] \in Call
    BY <1>1 DEF Linked
  <2>2. less(d) \in Call
    BY <2>1 DEF Call
  <2> QED
    BY <2>1, <2>2, NoneAssumption DEF Call, Thin
<1>2. \A d \in Calls : calls'[d] = IF calls[d] = None THEN None
                                   ELSE IF d = c THEN Moved(less(d), stage) ELSE less(d)
  BY DEF Deletes
<1>3. DOMAIN calls' = Calls /\ calls' = [d \in Calls |-> calls'[d]]
  BY DEF Deletes
<1> HIDE DEF less
<1>4. calls'[c] = Moved(less(c), stage) /\ less(c) \in Call /\ Thin(less(c), calls[c], D)
  BY <1>1, <1>2 DEF Thin
<1>5. /\ calls'[c] \in Call
      /\ calls'[c].op = less(c).op /\ calls'[c].stage = stage
      /\ calls'[c].base \in {None, less(c).base}
      /\ calls'[c].owes = less(c).owes
      /\ stage \notin Over => calls'[c].found = less(c).found
  BY <1>4, MovedCall
<1>6. calls'[c] # None /\ calls[c] \in Call
  BY <1>5, NoneAssumption DEF Linked
<1>7. \A d \in Calls \ {c} : IF calls[d] = None THEN calls'[d] = None
                             ELSE Thin(calls'[d], calls[d], D)
  BY <1>1, <1>2
<1>8. \A d \in Calls : calls'[d] \in Call \cup {None}
  BY <1>5, <1>7 DEF Thin
<1>9. calls' \in [Calls -> Call \cup {None}]
  BY <1>3, <1>8
<1> QED
  BY <1>4, <1>5, <1>6, <1>7, <1>9 DEF Moves, Thin

\* Reading.
LEMMA ReadMoves ==
  ASSUME Linked, NEW c \in Calls, calls[c] # None, NEW r \in Call,
         r.op = calls[c].op, r.owes = calls[c].owes, r.stage # "failed",
         r.base \in {calls[c].base, account},
         calls' = [calls EXCEPT ![c] = r], UNCHANGED saga
  PROVE  Moves(c, r.stage, {}) /\ calls'[c] = r
<1>1. calls'[c] = r /\ \A d \in Calls \ {c} : calls'[d] = calls[d]
  BY DEF Linked
<1>2. calls' \in [Calls -> Call \cup {None}]
  BY DEF Linked
<1>3. r # None
  BY NoneAssumption
<1> QED
  BY <1>1, <1>2, <1>3, Untouched DEF Moves, Linked

\* What each handler makes of the calls.
LEMMA FindMoves ==
  ASSUME TypeInv, NEW c \in Calls, DeactivateFind(c)
  PROVE  \E stage \in {"save", "done", "failed"} :
           /\ Moves(c, stage, {})
           /\ stage = "save" => account = "active"
           /\ stage = "done" => account # "active"
<1>1. PICK stage \in {"save", "done", "failed"} :
        /\ GoOn(c, stage)
        /\ stage = "save" => account = "active"
        /\ stage = "done" => account # "active"
  BY DEF DeactivateFind, TypeInv, DataTyped, Statuses
<1>2. Moves(c, stage, {})
  BY <1>1, GoOnMoves DEF DeactivateFind, At, TypeInv, Stages
<1> QED
  BY <1>1, <1>2

LEMMA SelectMoves ==
  ASSUME TypeInv, NEW c \in Calls, DeactivateSelect(c)
  PROVE  Moves(c, "write", {})
<1> DEFINE r == [calls[c] EXCEPT !.base = account, !.stage = "write"]
<1>1. calls[c] # None /\ calls[c] \in Call
  BY DEF DeactivateSelect, At, TypeInv, Linked
<1>2. /\ r \in Call /\ r.op = calls[c].op /\ r.owes = calls[c].owes
      /\ r.stage = "write" /\ r.base = account
  BY <1>1 DEF Call, TypeInv, DataTyped
<1>3. calls' = [calls EXCEPT ![c] = r] /\ UNCHANGED saga
  BY DEF DeactivateSelect
<1> HIDE DEF r
<1> QED
  BY <1>1, <1>2, <1>3, ReadMoves DEF TypeInv

LEMMA WriteMoves ==
  ASSUME TypeInv, NEW c \in Calls, DeactivateWrite(c)
  PROVE  \E stage \in {"done", "failed"} :
           /\ Moves(c, stage, {})
           /\ stage = "done" => calls[c].base # "gone" \/ account = "gone"
<1>1. PICK stage \in {"done", "failed"} :
        /\ GoOn(c, stage)
        /\ stage = "done" => calls[c].base # "gone" \/ account = "gone"
  BY DEF DeactivateWrite
<1>2. Moves(c, stage, {})
  BY <1>1, GoOnMoves DEF DeactivateWrite, At, TypeInv, Stages
<1> QED
  BY <1>1, <1>2

LEMMA SnapsMoves ==
  ASSUME TypeInv, NEW c \in Calls
  PROVE  /\ SnapsFiles(c) => Moves(c, "files", {})
         /\ SnapsDelete(c) => Moves(c, "done", Left(Snaps, {}, FALSE))
<1>1. SnapsFiles(c) => Moves(c, "files", {})
  BY GoOnMoves DEF SnapsFiles, At, TypeInv, Stages
<1>2. SnapsDelete(c) => Moves(c, "done", Left(Snaps, {}, FALSE))
  BY DeletesMoves DEF SnapsDelete, At, TypeInv, Stages
<1> QED
  BY <1>1, <1>2

LEMMA PurgeFindMoves ==
  ASSUME TypeInv, NEW c \in Calls, PurgeFind(c)
  PROVE  Moves(c, "seen", {}) /\ calls'[c].found = profile
<1> DEFINE r == [calls[c] EXCEPT !.found = profile, !.stage = "seen"]
<1>1. calls[c] # None /\ calls[c] \in Call
  BY DEF PurgeFind, At, TypeInv, Linked
<1>2. /\ r \in Call /\ r.op = calls[c].op /\ r.owes = calls[c].owes
      /\ r.stage = "seen" /\ r.base = calls[c].base /\ r.found = profile
  BY <1>1 DEF Call, TypeInv, DataTyped
<1>3. calls' = [calls EXCEPT ![c] = r] /\ UNCHANGED saga
  BY DEF PurgeFind
<1> HIDE DEF r
<1> QED
  BY <1>1, <1>2, <1>3, ReadMoves DEF TypeInv

LEMMA PurgeRecordsMoves ==
  ASSUME TypeInv, NEW c \in Calls, NEW kind \in Kinds, PurgeRecords(c, kind)
  PROVE  /\ Moves(c, NextKind(kind), Left({}, {kind}, FALSE))
         /\ NextKind(kind) \in {"bookmark", "report", "settings", "user"}
         /\ calls'[c].found = calls[c].found
<1>1. NextKind(kind) \in {"bookmark", "report", "settings", "user"}
  BY DEF NextKind, Kinds
<1>2. /\ calls[c] # None /\ UNCHANGED saga
      /\ Deletes(c, Left({}, {kind}, FALSE), NextKind(kind))
  BY DEF PurgeRecords, At
<1>3. NextKind(kind) \in Stages \ {"failed"} /\ NextKind(kind) \notin Over
  BY <1>1 DEF Stages, Over
<1> QED
  BY <1>1, <1>2, <1>3, DeletesMoves DEF TypeInv

LEMMA PurgeUserMoves ==
  ASSUME TypeInv, NEW c \in Calls, PurgeUser(c)
  PROVE  Moves(c, "done", IF calls[c].found THEN Left({}, {"settings"}, TRUE) ELSE {})
<1>1. calls[c] # None /\ UNCHANGED saga
  BY DEF PurgeUser, At
<1>2. CASE calls[c].found
  BY <1>1, <1>2, DeletesMoves DEF PurgeUser, TypeInv, Stages
<1>3. CASE ~calls[c].found
  BY <1>1, <1>3, GoOnMoves DEF PurgeUser, TypeInv, Stages
<1> QED
  BY <1>2, <1>3

LEMMA CredentialsMoves ==
  ASSUME TypeInv, NEW c \in Calls, DeleteCredentials(c)
  PROVE  Moves(c, "done", {Credential})
BY DeletesMoves DEF DeleteCredentials, At, TypeInv, Stages

LEMMA FailMoves ==
  ASSUME TypeInv, NEW c \in Calls, Fail(c)
  PROVE  Moves(c, "failed", {})
BY GoOnMoves DEF Fail, TypeInv, Stages

\* Every handler makes some such step.
LEMMA HandlerMoves ==
  ASSUME TypeInv, NEW c \in Calls, Handle(c) \/ Fail(c)
  PROVE  \E stage, D : Moves(c, stage, D)
<1>1. CASE DeactivateFind(c)
  BY <1>1, FindMoves
<1>2. CASE DeactivateSelect(c)
  BY <1>2, SelectMoves
<1>3. CASE DeactivateWrite(c)
  BY <1>3, WriteMoves
<1>4. CASE SnapsFiles(c) \/ SnapsDelete(c)
  BY <1>4, SnapsMoves
<1>5. CASE PurgeFind(c)
  BY <1>5, PurgeFindMoves
<1>6. CASE \E kind \in Kinds : PurgeRecords(c, kind)
  BY <1>6, PurgeRecordsMoves
<1>7. CASE PurgeUser(c)
  BY <1>7, PurgeUserMoves
<1>8. CASE DeleteCredentials(c)
  BY <1>8, CredentialsMoves
<1>9. CASE Fail(c)
  BY <1>9, FailMoves
<1> QED
  BY <1>1, <1>2, <1>3, <1>4, <1>5, <1>6, <1>7, <1>8, <1>9 DEF Handle

\* A call that is discarded takes nothing with it.
LEMMA DiscardLinked ==
  ASSUME Linked, NEW c \in Calls, Discard(c)
  PROVE  Linked' /\ \A d \in Calls : calls'[d] = IF d = c THEN None ELSE calls[d]
<1>1. /\ \A a \in Attempts : saga[a].call # c
      /\ calls' = [calls EXCEPT ![c] = None] /\ UNCHANGED saga
  BY DEF Discard
<1>2. \A d \in Calls : calls'[d] = IF d = c THEN None ELSE calls[d]
  BY <1>1 DEF Linked
<1>3. calls' \in [Calls -> Call \cup {None}]
  BY <1>1 DEF Linked
<1>4. \A a \in Attempts : saga[a].call \in Calls \cup {None}
  BY DEF Linked
<1> QED
  BY <1>1, <1>2, <1>3, <1>4 DEF Linked

-------------------------------------------------------------------------------
\* What the orchestrator makes of them.

\* What comes after a step is a step or the successful end.
LEMMA AfterStep ==
  ASSUME NEW step \in Steps
  PROVE  /\ After(step) # "ok" => After(step) \in Steps
         /\ After(step) = "ok" <=> step = "credentials"
         /\ Failure(step) \in Ended /\ Failure(step) # "ok"
BY DEF After, Failure, Steps, Ended

\* What there is, and what a call owes of it, are items.
LEMMA KeptItems == DataTyped => Kept \subseteq Items
BY DEF DataTyped, Kept, Items, Left

LEMMA OwedItems ==
  ASSUME TypeInv, NEW c \in Calls, calls[c] # None
  PROVE  Owed(c) \in SUBSET Items
<1>1. calls[c] \in Call
  BY DEF TypeInv, Linked
<1> QED
  BY <1>1, KeptItems DEF Owed, Call, TypeInv

\* A new attempt.
LEMMA Starts ==
  ASSUME TypeInv, NEW a \in Attempts, NEW right \in BOOLEAN, Start(a, right)
  PROVE  /\ Linked'
         /\ \E c \in Calls :
              /\ calls[c] = None /\ calls'[c] \in Call /\ calls'[c] # None
              /\ calls'[c].op = "deactivate" /\ calls'[c].stage = "sent"
              /\ calls'[c].base = None /\ calls'[c].owes = {}
              /\ \A d \in Calls : d # c => calls'[d] = calls[d]
         /\ saga'[a].step = "deactivate"
         /\ \A b \in Attempts : b # a => saga'[b] = saga[b]
<1>1. PICK c \in Free : Send(a, c, "deactivate", right, {})
  BY DEF Start
<1>2. c \in Calls /\ calls[c] = None /\ \A b \in Attempts : saga[b].call # c
  BY <1>1, DeletionAssumption DEF Free, Linked, TypeInv
<1>3. PICK step \in Steps, owes \in SUBSET Items : step = "deactivate" /\ owes = {}
  BY DEF Steps
<1>s. Send(a, c, step, right, owes)
  BY <1>1, <1>3
<1>4. /\ Linked'
      /\ calls'[c] = [op |-> step, stage |-> "sent", found |-> right,
                      base |-> None, owes |-> owes]
      /\ calls'[c] # None /\ calls'[c] \in Call
      /\ \A d \in Calls : d # c => calls'[d] = calls[d]
      /\ saga'[a].step = step
      /\ \A b \in Attempts : b # a => saga'[b] = saga[b]
  BY <1>s, <1>2, SendLinked DEF TypeInv
<1>5. /\ calls'[c].op = "deactivate" /\ calls'[c].stage = "sent"
      /\ calls'[c].base = None /\ calls'[c].owes = {}
  BY <1>3, <1>4
<1> QED
  BY <1>2, <1>3, <1>4, <1>5, Zenon

\* An answer after which the next call is sent ...
Goes(a, c) ==
  /\ calls[c].stage = "done" /\ calls[c].op # "credentials"
  /\ calls'[c] \in Call /\ calls'[c] # None
  /\ calls'[c].op = After(calls[c].op) /\ calls'[c].op \in Steps
  /\ calls'[c].stage = "sent" /\ calls'[c].base = None
  /\ calls'[c].owes = Owed(c)
  /\ \A d \in Calls : d # c => calls'[d] = calls[d]
  /\ saga'[a].step # "ok"

\* ... or the attempt ends.
Ends(a, c) ==
  /\ \/ saga'[a].step # "ok" /\ calls[c].stage = "failed"
     \/ saga'[a].step = "ok" /\ calls[c].op = "credentials" /\ calls[c].stage = "done"
  /\ \A d \in Calls : calls'[d] = IF d = c THEN None ELSE calls[d]

LEMMA Replies ==
  ASSUME TypeInv, NEW a \in Attempts, Reply(a)
  PROVE  /\ Linked'
         /\ \E c \in Calls : /\ c = saga[a].call /\ calls[c] # None
                             /\ Goes(a, c) \/ Ends(a, c)
         /\ \A b \in Attempts : b # a => saga'[b] = saga[b]
         /\ saga[a].step # "ok"
<1>0. saga[a].call # None
  BY DEF Reply
<1>1. PICK c \in Calls : c = saga[a].call
  BY <1>0, Waiting DEF TypeInv
<1>2. /\ calls[c] \in Call /\ calls[c] # None /\ calls[c].op = saga[a].step
      /\ saga[a].step \in Steps /\ saga[a].step # "ok"
      /\ \A b \in Attempts : b # a => saga[b].call # c
  BY <1>0, <1>1, Waiting DEF TypeInv, Steps
<1> DEFINE step == saga[a].step
<1>3. /\ After(step) # "ok" => After(step) \in Steps
      /\ After(step) = "ok" <=> step = "credentials"
      /\ Failure(step) \in Ended /\ Failure(step) # "ok" /\ "ok" \in Ended
  BY <1>2, AfterStep DEF Ended
<1>4. CASE calls[c].stage = "done" /\ step # "credentials"
  <2>1. Send(a, c, After(step), TRUE, Owed(c))
    BY <1>1, <1>3, <1>4 DEF Reply, GoNext
  <2>2. Owed(c) \in SUBSET Items /\ After(step) \in Steps
    BY <1>2, <1>3, <1>4, OwedItems
  <2> HIDE DEF step
  <2>3. /\ Linked'
        /\ calls'[c] = [op |-> After(step), stage |-> "sent", found |-> TRUE,
                        base |-> None, owes |-> Owed(c)]
        /\ calls'[c] # None /\ calls'[c] \in Call
        /\ \A d \in Calls : d # c => calls'[d] = calls[d]
        /\ saga'[a].step = After(step)
        /\ \A b \in Attempts : b # a => saga'[b] = saga[b]
    BY <2>1, <2>2, <1>2, SendLinked DEF TypeInv
  <2>4. /\ calls'[c].op = After(step) /\ calls'[c].stage = "sent"
        /\ calls'[c].base = None /\ calls'[c].owes = Owed(c)
    BY <2>3
  <2> USE DEF step
  <2>5. Goes(a, c)
    BY <1>2, <1>3, <1>4, <2>2, <2>3, <2>4 DEF Goes
  <2> QED
    BY <1>1, <1>2, <2>3, <2>5
<1>5. CASE calls[c].stage = "done" /\ step = "credentials"
  <2>1. Stop(a, "ok") /\ calls' = [calls EXCEPT ![saga[a].call] = None]
    BY <1>1, <1>3, <1>5 DEF Reply, GoNext
  <2>l. Linked' /\ \A d \in Calls : calls'[d] = IF d = c THEN None ELSE calls[d]
    BY <2>1, <1>0, <1>1, <1>3, AnswerLinked DEF TypeInv
  <2>s. saga'[a].step = "ok" /\ \A b \in Attempts : b # a => saga'[b] = saga[b]
    BY <2>1, <1>3, StopSaga DEF TypeInv
  <2>2. /\ Linked' /\ saga'[a].step = "ok"
        /\ \A d \in Calls : calls'[d] = IF d = c THEN None ELSE calls[d]
        /\ \A b \in Attempts : b # a => saga'[b] = saga[b]
    BY <2>l, <2>s
  <2>3. Ends(a, c)
    BY <1>2, <1>5, <2>2 DEF Ends
  <2> QED
    BY <1>1, <1>2, <2>2, <2>3
<1>6. CASE calls[c].stage # "done"
  <2>1. /\ Stop(a, Failure(step)) /\ calls' = [calls EXCEPT ![saga[a].call] = None]
        /\ calls[c].stage = "failed"
    BY <1>1, <1>6 DEF Reply
  <2>l. Linked' /\ \A d \in Calls : calls'[d] = IF d = c THEN None ELSE calls[d]
    BY <2>1, <1>0, <1>1, <1>3, AnswerLinked DEF TypeInv
  <2>s. saga'[a].step # "ok" /\ \A b \in Attempts : b # a => saga'[b] = saga[b]
    BY <2>1, <1>3, StopSaga DEF TypeInv
  <2>2. /\ Linked' /\ saga'[a].step # "ok"
        /\ \A d \in Calls : calls'[d] = IF d = c THEN None ELSE calls[d]
        /\ \A b \in Attempts : b # a => saga'[b] = saga[b]
    BY <2>l, <2>s
  <2>3. Ends(a, c)
    BY <2>1, <2>2 DEF Ends
  <2> QED
    BY <1>1, <1>2, <2>2, <2>3
<1> QED
  BY <1>4, <1>5, <1>6

LEMMA TimesOut ==
  ASSUME TypeInv, NEW a \in Attempts, Timeout(a)
  PROVE  /\ Linked' /\ UNCHANGED calls
         /\ saga[a].step # "ok" /\ saga'[a].step # "ok"
         /\ \A b \in Attempts : b # a => saga'[b] = saga[b]
<1>1. saga[a].call # None /\ Stop(a, Failure(saga[a].step)) /\ UNCHANGED calls
  BY DEF Timeout
<1>2. saga[a].step \in Steps
  BY <1>1, Waiting DEF TypeInv
<1>3. Failure(saga[a].step) \in Ended /\ Failure(saga[a].step) # "ok"
  BY <1>2, AfterStep
<1>4. saga[a].step # "ok"
  BY <1>2 DEF Steps
<1> QED
  BY <1>1, <1>3, <1>4, StopLinked, StopSaga DEF TypeInv

-------------------------------------------------------------------------------
\* The credential row.

\* What a save leaves of it: what there was, or the copy; and it does not make a row go.
LEMMA SavedStatus ==
  ASSUME account \in Statuses, NEW held \in {"active", "disabled"},
         NEW base \in Statuses \cup {None}
  PROVE  /\ Saved(held, base) \in {account, held}
         /\ Saved(held, base) \in Statuses
         /\ Saved(held, base) = "gone" => account = "gone"
         /\ base \in {"active", None} /\ held = "disabled" => Saved(held, base) # "active"
         /\ base = "gone" /\ account = "gone" => Saved(held, base) = held
BY NoneAssumption DEF Saved, Statuses

\* An account that was never disabled is active.
ClosedInv == ~closed => account = "active"

\* No step but a save of the row and the deletion of the credentials touches it.
LEMMA AccountMoves ==
  ASSUME TypeInv, [Next]_vars
  PROVE  \/ UNCHANGED row
         \/ \E c \in Calls : DeactivateWrite(c) \/ DeleteCredentials(c)
         \/ \E s \in Savers : WriteCredential(s)
<1>1. ASSUME NEW a \in Attempts,
             Start(a, TRUE) \/ Start(a, FALSE) \/ Reply(a) \/ Timeout(a)
      PROVE  UNCHANGED row
  BY <1>1 DEF Start, Reply, Timeout
<1>2. ASSUME NEW c \in Calls, Handle(c) \/ Fail(c) \/ Discard(c),
             ~DeactivateWrite(c), ~DeleteCredentials(c)
      PROVE  UNCHANGED row
  BY <1>2 DEF Handle, DeactivateFind, DeactivateSelect, SnapsFiles, SnapsDelete,
     PurgeFind, PurgeRecords, PurgeUser, Fail, Discard
<1>3. ASSUME Outside, ~\E s \in Savers : WriteCredential(s)
      PROVE  UNCHANGED row
  <2>1. ASSUME NEW r \in Requests,
               Request(r) \/ PostSnap(r) \/ PutRecord(r) \/ SaveProfile(r) \/ EndRequest(r)
        PROVE  UNCHANGED row
    BY <2>1 DEF Request, PostSnap, PutRecord, SaveProfile, EndRequest
  <2>2. ASSUME NEW s \in Savers,
               ReadCredential(s) \/ SelectCredential(s) \/ LeaveCredential(s)
        PROVE  UNCHANGED row
    BY <2>2 DEF ReadCredential, SelectCredential, LeaveCredential
  <2>3. CASE DeliverSignup \/ SignupOver \/ Expire \/ RefreshToken \/ GenerateTokens
    BY <2>3 DEF DeliverSignup, SignupOver, Expire, RefreshToken, GenerateTokens
  <2> QED
    BY <1>3, <2>1, <2>2, <2>3 DEF Outside
<1>4. CASE UNCHANGED vars
  BY <1>4 DEF vars
<1> QED
  BY <1>1, <1>2, <1>3, <1>4 DEF Next

\* What they write.
LEMMA RowWrites ==
  ASSUME TypeInv
  PROVE  /\ \A c \in Calls : DeactivateWrite(c) =>
              /\ calls[c].base \in Statuses \cup {None}
              /\ SetAccount(Saved("disabled", calls[c].base))
         /\ \A s \in Savers : WriteCredential(s) =>
              /\ saving[s].held \in {"active", "disabled"}
              /\ saving[s].base \in Statuses \cup {None}
              /\ SetAccount(Saved(saving[s].held, saving[s].base))
         /\ \A c \in Calls : DeleteCredentials(c) => SetAccount("gone")
<1>1. ASSUME NEW c \in Calls, DeactivateWrite(c)
      PROVE  /\ calls[c].base \in Statuses \cup {None}
             /\ SetAccount(Saved("disabled", calls[c].base))
  <2>1. calls[c] \in Call
    BY <1>1 DEF DeactivateWrite, At, TypeInv, Linked
  <2> QED
    BY <1>1, <2>1 DEF DeactivateWrite, Call
<1>2. ASSUME NEW s \in Savers, WriteCredential(s)
      PROVE  /\ saving[s].held \in {"active", "disabled"}
             /\ saving[s].base \in Statuses \cup {None}
             /\ SetAccount(Saved(saving[s].held, saving[s].base))
  <2>1. saving[s] \in Copy
    BY <1>2 DEF WriteCredential, TypeInv, DataTyped
  <2> QED
    BY <1>2, <2>1 DEF WriteCredential, Copy
<1> QED
  BY <1>1, <1>2 DEF DeleteCredentials

\* The row keeps its type and that it is active unless closed; closed stays.
LEMMA RowStep ==
  ASSUME TypeInv, ClosedInv, [Next]_vars
  PROVE  /\ account' \in Statuses /\ closed' \in BOOLEAN
         /\ ClosedInv' /\ (closed => closed')
         /\ account' = "gone" => account = "gone" \/ \E c \in Calls : DeleteCredentials(c)
<1> USE DEF TypeInv, DataTyped
<1>1. CASE UNCHANGED row
  BY <1>1 DEF row, ClosedInv
<1>2. ASSUME NEW status \in Statuses, SetAccount(status)
      PROVE  account' = status /\ closed' \in BOOLEAN /\ ClosedInv' /\ (closed => closed')
  <2>1. account' = status /\ closed' = (closed \/ status # "active")
    BY <1>2 DEF SetAccount
  <2>2. (closed \/ status # "active") \in BOOLEAN
    OBVIOUS
  <2> QED
    BY <2>1, <2>2 DEF ClosedInv
<1>3. ASSUME NEW c \in Calls, DeactivateWrite(c)
      PROVE  /\ account' \in Statuses /\ closed' \in BOOLEAN
             /\ ClosedInv' /\ (closed => closed') /\ (account' = "gone" => account = "gone")
  <2>1. /\ calls[c].base \in Statuses \cup {None}
        /\ SetAccount(Saved("disabled", calls[c].base))
    BY <1>3, RowWrites
  <2>2. /\ Saved("disabled", calls[c].base) \in Statuses
        /\ Saved("disabled", calls[c].base) = "gone" => account = "gone"
    BY <2>1, SavedStatus
  <2> QED
    BY <1>2, <2>1, <2>2
<1>4. ASSUME NEW s \in Savers, WriteCredential(s)
      PROVE  /\ account' \in Statuses /\ closed' \in BOOLEAN
             /\ ClosedInv' /\ (closed => closed') /\ (account' = "gone" => account = "gone")
  <2>1. /\ saving[s].held \in {"active", "disabled"}
        /\ saving[s].base \in Statuses \cup {None}
        /\ SetAccount(Saved(saving[s].held, saving[s].base))
    BY <1>4, RowWrites
  <2>2. /\ Saved(saving[s].held, saving[s].base) \in Statuses
        /\ Saved(saving[s].held, saving[s].base) = "gone" => account = "gone"
    BY <2>1, SavedStatus
  <2> QED
    BY <1>2, <2>1, <2>2
<1>5. ASSUME NEW c \in Calls, DeleteCredentials(c)
      PROVE  /\ account' \in Statuses /\ closed' \in BOOLEAN
             /\ ClosedInv' /\ (closed => closed')
  BY <1>2, <1>5, RowWrites DEF Statuses
<1> QED
  BY <1>1, <1>3, <1>4, <1>5, AccountMoves

-------------------------------------------------------------------------------
\* Type correctness.

\* The initial tables, attempts and calls have their types.
LEMMA TypeInit == Init => TypeInv /\ ClosedInv
<1> SUFFICES ASSUME Init PROVE TypeInv /\ ClosedInv
  OBVIOUS
<1>1. DataTyped
  <2>1. session \in [token : BOOLEAN, refresh : BOOLEAN]
    BY DEF Init
  <2>2. event \in BOOLEAN /\ profile \in BOOLEAN /\ records \subseteq Kinds
    BY WritesAssumption DEF Init
  <2> QED
    BY <2>1, <2>2 DEF Init, DataTyped, Statuses
<1>2. Linked
  <2> DEFINE wait == [step |-> "idle", call |-> None]
  <2>1. wait \in [step : Steps \cup Ended, call : Calls \cup {None}]
        /\ wait.call = None
    BY DEF Ended
  <2>2. saga = [a \in Attempts |-> wait]
    BY DEF Init
  <2> HIDE DEF wait
  <2> QED
    BY <2>1, <2>2 DEF Init, Linked
<1> QED
  BY <1>1, <1>2 DEF TypeInv, Init, ClosedInv

\* The client's tables.
LEMMA ClientStep ==
  ASSUME TypeInv, [Next]_vars
  PROVE  /\ mix' \in Mixes
         /\ session' \in [token : BOOLEAN, refresh : BOOLEAN]
         /\ writing' \in [Requests -> Writes \cup {None}]
         /\ saving' \in [Savers -> Copy \cup {None}]
<1> USE DEF TypeInv, DataTyped
<1> SUFFICES ASSUME ~UNCHANGED client
             PROVE  /\ mix' \in Mixes
                    /\ session' \in [token : BOOLEAN, refresh : BOOLEAN]
                    /\ writing' \in [Requests -> Writes \cup {None}]
                    /\ saving' \in [Savers -> Copy \cup {None}]
  BY DEF client
<1>1. Outside
  <2>1. ASSUME NEW a \in Attempts,
               Start(a, TRUE) \/ Start(a, FALSE) \/ Reply(a) \/ Timeout(a)
        PROVE  UNCHANGED client
    BY <2>1 DEF Start, Reply, Timeout
  <2>2. ASSUME NEW c \in Calls, Handle(c) \/ Fail(c) \/ Discard(c)
        PROVE  UNCHANGED client
    BY <2>2 DEF Handle, DeactivateFind, DeactivateSelect, DeactivateWrite, SnapsFiles,
       SnapsDelete, PurgeFind, PurgeRecords, PurgeUser, DeleteCredentials, Fail, Discard
  <2> QED
    BY <2>1, <2>2 DEF Next, vars
<1>2. ASSUME NEW r \in Requests,
             Request(r) \/ PostSnap(r) \/ PutRecord(r) \/ SaveProfile(r) \/ EndRequest(r)
      PROVE  /\ UNCHANGED <<mix, session, saving>>
             /\ writing' \in [Requests -> Writes \cup {None}]
  <2>1. UNCHANGED <<mix, session, saving>>
    BY <1>2 DEF Request, PostSnap, PutRecord, SaveProfile, EndRequest
  <2>2. CASE Request(r)
    BY <2>2 DEF Request
  <2>3. CASE ~Request(r)
    BY <1>2, <2>3 DEF PostSnap, PutRecord, SaveProfile, EndRequest, Written
  <2> QED
    BY <2>1, <2>2, <2>3
<1>3. ASSUME NEW s \in Savers, \/ ReadCredential(s) \/ SelectCredential(s)
                               \/ WriteCredential(s) \/ LeaveCredential(s)
      PROVE  /\ UNCHANGED <<mix, session, writing>>
             /\ saving' \in [Savers -> Copy \cup {None}]
  <2>1. PICK copy : Save(s, copy) /\ copy \in Copy \cup {None}
    <3>1. CASE ReadCredential(s)
      <4>1. [held |-> account, base |-> None] \in Copy
        BY <3>1 DEF ReadCredential, Copy, Statuses
      <4> QED
        BY <3>1, <4>1 DEF ReadCredential
    <3>2. CASE SelectCredential(s)
      <4>1. saving[s] \in Copy
        BY <3>2 DEF SelectCredential
      <4>2. [saving[s] EXCEPT !.base = account] \in Copy
        BY <4>1 DEF Copy
      <4> QED
        BY <3>2, <4>2 DEF SelectCredential
    <3>3. CASE WriteCredential(s) \/ LeaveCredential(s)
      BY <3>3 DEF WriteCredential, LeaveCredential
    <3> QED
      BY <1>3, <3>1, <3>2, <3>3
  <2> QED
    BY <2>1 DEF Save
<1>4. CASE DeliverSignup \/ SignupOver
  BY <1>4 DEF DeliverSignup, SignupOver
<1>5. CASE Expire \/ RefreshToken \/ GenerateTokens
  <2>1. session' \in [token : BOOLEAN, refresh : BOOLEAN]
    <3>1. CASE Expire
      BY <3>1 DEF Expire
    <3>2. CASE RefreshToken
      BY <3>2 DEF RefreshToken
    <3>3. CASE GenerateTokens
      <4>1. PICK answered \in BOOLEAN :
              session' = [token |-> answered \/ session.token, refresh |-> FALSE]
        BY <3>3 DEF GenerateTokens
      <4>2. (answered \/ session.token) \in BOOLEAN
        OBVIOUS
      <4> QED
        BY <4>1, <4>2
    <3> QED
      BY <1>5, <3>1, <3>2, <3>3
  <2> QED
    BY <1>5, <2>1 DEF Expire, RefreshToken, GenerateTokens
<1> QED
  BY <1>1, <1>2, <1>3, <1>4, <1>5 DEF Outside

\* The data and the event.
LEMMA DataStep ==
  ASSUME TypeInv, [Next]_vars
  PROVE  /\ snaps' \subseteq Snaps /\ profile' \in BOOLEAN
         /\ records' \subseteq Kinds /\ event' \in BOOLEAN
<1> USE DEF TypeInv, DataTyped, data
<1>1. ASSUME NEW a \in Attempts,
             Start(a, TRUE) \/ Start(a, FALSE) \/ Reply(a) \/ Timeout(a)
      PROVE  UNCHANGED <<data, event>>
  BY <1>1 DEF Start, Reply, Timeout
<1>2. ASSUME NEW c \in Calls, Handle(c) \/ Fail(c) \/ Discard(c)
      PROVE  /\ snaps' \subseteq Snaps /\ profile' \in BOOLEAN
             /\ records' \subseteq Kinds /\ event' \in BOOLEAN
  BY <1>2 DEF Handle, DeactivateFind, DeactivateSelect, DeactivateWrite, SnapsFiles,
     SnapsDelete, PurgeFind, PurgeRecords, PurgeUser, DeleteCredentials, Fail, Discard
<1>3. CASE Outside
  <2>1. ASSUME NEW r \in Requests,
               Request(r) \/ PostSnap(r) \/ PutRecord(r) \/ SaveProfile(r) \/ EndRequest(r)
        PROVE  /\ snaps' \subseteq Snaps /\ profile' \in BOOLEAN
               /\ records' \subseteq Kinds /\ event' \in BOOLEAN
    BY <2>1 DEF Request, PostSnap, PutRecord, SaveProfile, EndRequest
  <2>2. ASSUME NEW s \in Savers, \/ ReadCredential(s) \/ SelectCredential(s)
                                 \/ WriteCredential(s) \/ LeaveCredential(s)
        PROVE  UNCHANGED <<data, event>>
    BY <2>2 DEF ReadCredential, SelectCredential, WriteCredential, LeaveCredential, Save
  <2>3. CASE DeliverSignup \/ SignupOver \/ Expire \/ RefreshToken \/ GenerateTokens
    BY <2>3 DEF DeliverSignup, SignupOver, Expire, RefreshToken, GenerateTokens
  <2> QED
    BY <1>3, <2>1, <2>2, <2>3 DEF Outside
<1>4. CASE UNCHANGED vars
  BY <1>4 DEF vars
<1> QED
  BY <1>1, <1>2, <1>3, <1>4 DEF Next

\* What happens beside the deletions leaves their calls alone.
LEMMA OutsideKeeps ==
  ASSUME Outside
  PROVE  UNCHANGED <<saga, calls>>
<1>1. ASSUME NEW r \in Requests,
             Request(r) \/ PostSnap(r) \/ PutRecord(r) \/ SaveProfile(r) \/ EndRequest(r)
      PROVE  UNCHANGED <<saga, calls>>
  BY <1>1 DEF Request, PostSnap, PutRecord, SaveProfile, EndRequest
<1>2. ASSUME NEW s \in Savers, \/ ReadCredential(s) \/ SelectCredential(s)
                               \/ WriteCredential(s) \/ LeaveCredential(s)
      PROVE  UNCHANGED <<saga, calls>>
  BY <1>2 DEF ReadCredential, SelectCredential, WriteCredential, LeaveCredential, Save
<1>3. CASE DeliverSignup \/ SignupOver \/ Expire \/ RefreshToken \/ GenerateTokens
  BY <1>3 DEF DeliverSignup, SignupOver, Expire, RefreshToken, GenerateTokens
<1> QED
  BY <1>1, <1>2, <1>3 DEF Outside

\* Every step keeps the types and the links.
LEMMA TypeStep == TypeInv /\ ClosedInv /\ [Next]_vars => TypeInv' /\ ClosedInv'
<1> SUFFICES ASSUME TypeInv, ClosedInv, [Next]_vars PROVE TypeInv' /\ ClosedInv'
  OBVIOUS
<1>1. DataTyped' /\ ClosedInv'
  BY RowStep, ClientStep, DataStep DEF DataTyped
<1>2. ASSUME NEW a \in Attempts,
             Start(a, TRUE) \/ Start(a, FALSE) \/ Reply(a) \/ Timeout(a)
      PROVE  Linked'
  BY <1>2, Starts, Replies, TimesOut
<1>3. ASSUME NEW c \in Calls, Handle(c) \/ Fail(c)
      PROVE  Linked'
  BY <1>3, HandlerMoves, MovesLinked DEF TypeInv
<1>4. ASSUME NEW c \in Calls, Discard(c)
      PROVE  Linked'
  BY <1>4, DiscardLinked DEF TypeInv
<1>5. ASSUME Outside \/ UNCHANGED vars
      PROVE  Linked'
  <2>1. UNCHANGED <<saga, calls>>
    BY <1>5, OutsideKeeps DEF vars
  <2> QED
    BY <2>1 DEF TypeInv, Linked
<1> QED
  BY <1>1, <1>2, <1>3, <1>4, <1>5 DEF Next, TypeInv

\* The type invariant: tables, attempts and calls have their types, and an
\* attempt waits for a call of its own step.
THEOREM TypeCorrect == Spec => []TypeOK
<1>1. TypeInv => TypeOK
  BY DEF TypeInv, DataTyped, Linked, TypeOK
<1> QED
  BY <1>1, TypeInit, TypeStep, PTL DEF Spec

-------------------------------------------------------------------------------
\* What there is.

\* The data as one set: what is in it.
LEMMA LeftHas ==
  ASSUME NEW s, NEW k, NEW p
  PROVE  /\ \A d : <<"snap", d>> \in Left(s, k, p) <=> d \in s
         /\ \A r : r # "user" => (<<"row", r>> \in Left(s, k, p) <=> r \in k)
         /\ "user" \notin k => (<<"row", "user">> \in Left(s, k, p) <=> p)
<1>1. ASSUME NEW d PROVE <<"snap", d>> \in Left(s, k, p) <=> d \in s
  BY DEF Left
<1>2. ASSUME NEW r, r # "user" PROVE <<"row", r>> \in Left(s, k, p) <=> r \in k
  BY <1>2 DEF Left
<1>3. ASSUME "user" \notin k PROVE <<"row", "user">> \in Left(s, k, p) <=> p
  BY <1>3 DEF Left
<1> QED
  BY <1>1, <1>2, <1>3

There == Left(snaps, records, profile)

\* What the handlers do to it.
LEMMA HandlerData ==
  ASSUME DataTyped, NEW c \in Calls
  PROVE  /\ SnapsDelete(c) => There' = There \ Left(Snaps, {}, FALSE)
         /\ \A kind \in Kinds : PurgeRecords(c, kind) =>
              There' = There \ Left({}, {kind}, FALSE)
         /\ PurgeUser(c) /\ calls[c].found => There' = There \ Left({}, {"settings"}, TRUE)
         /\ PurgeUser(c) /\ ~calls[c].found => There' = There
         /\ \/ DeactivateFind(c) \/ DeactivateSelect(c) \/ DeactivateWrite(c)
            \/ SnapsFiles(c) \/ PurgeFind(c) \/ DeleteCredentials(c)
            \/ Fail(c) \/ Discard(c)
            => There' = There
<1>0. "user" \notin records
  BY DEF DataTyped, Kinds
<1>1. ASSUME SnapsDelete(c) PROVE There' = There \ Left(Snaps, {}, FALSE)
  <2>1. snaps' = {} /\ UNCHANGED <<records, profile>> /\ snaps \subseteq Snaps
    BY <1>1 DEF SnapsDelete, DataTyped
  <2> QED
    BY <2>1 DEF There, Left
<1>2. ASSUME NEW kind \in Kinds, PurgeRecords(c, kind)
      PROVE  There' = There \ Left({}, {kind}, FALSE)
  <2>1. records' = records \ {kind} /\ UNCHANGED <<snaps, profile>> /\ kind # "user"
    BY <1>2 DEF PurgeRecords, Kinds
  <2> QED
    BY <2>1 DEF There, Left
<1>3. ASSUME PurgeUser(c), calls[c].found
      PROVE  There' = There \ Left({}, {"settings"}, TRUE)
  <2>1. profile' = FALSE /\ records' = records \ {"settings"} /\ UNCHANGED snaps
    BY <1>3 DEF PurgeUser
  <2> QED
    BY <1>0, <2>1 DEF There, Left
<1>4. ASSUME PurgeUser(c), ~calls[c].found PROVE There' = There
  BY <1>4 DEF PurgeUser, There
<1>5. ASSUME \/ DeactivateFind(c) \/ DeactivateSelect(c) \/ DeactivateWrite(c)
             \/ SnapsFiles(c) \/ PurgeFind(c) \/ DeleteCredentials(c)
             \/ Fail(c) \/ Discard(c)
      PROVE  There' = There
  BY <1>5 DEF DeactivateFind, DeactivateSelect, DeactivateWrite, SnapsFiles, PurgeFind,
     DeleteCredentials, Fail, Discard, data, There
<1> QED
  BY <1>1, <1>2, <1>3, <1>4, <1>5

\* Beside the deletions nothing is taken.
LEMMA OutsideData ==
  ASSUME Outside
  PROVE  snaps \subseteq snaps' /\ records \subseteq records' /\ (profile => profile')
<1> USE DEF data
<1>1. ASSUME NEW r \in Requests,
             Request(r) \/ PostSnap(r) \/ PutRecord(r) \/ SaveProfile(r) \/ EndRequest(r)
      PROVE  snaps \subseteq snaps' /\ records \subseteq records' /\ (profile => profile')
  <2>1. CASE PostSnap(r)
    BY <2>1 DEF PostSnap
  <2>2. CASE PutRecord(r)
    BY <2>2 DEF PutRecord
  <2>3. CASE SaveProfile(r)
    BY <2>3 DEF SaveProfile
  <2>4. CASE Request(r) \/ EndRequest(r)
    BY <2>4 DEF Request, EndRequest
  <2> QED
    BY <1>1, <2>1, <2>2, <2>3, <2>4
<1>2. ASSUME NEW s \in Savers, \/ ReadCredential(s) \/ SelectCredential(s)
                               \/ WriteCredential(s) \/ LeaveCredential(s)
      PROVE  UNCHANGED data
  BY <1>2 DEF ReadCredential, SelectCredential, WriteCredential, LeaveCredential, Save
<1>3. CASE DeliverSignup \/ SignupOver \/ Expire \/ RefreshToken \/ GenerateTokens
  BY <1>3 DEF DeliverSignup, SignupOver, Expire, RefreshToken, GenerateTokens
<1> QED
  BY <1>1, <1>2, <1>3 DEF Outside

LEMMA OutsideThere ==
  ASSUME Outside
  PROVE  There \subseteq There'
BY OutsideData DEF There, Left

\* What there is after a step is what there was, less what the step deletes.
LEMMA KeptStays ==
  ASSUME NEW D, There \ D \subseteq There',
         account' = "gone" => account = "gone" \/ Credential \in D
  PROVE  Kept \ D \subseteq Kept'
BY DEF Kept, There

\* Of a step of the orchestrator, all stays.
LEMMA OrchestratorKeeps ==
  ASSUME NEW a \in Attempts, Start(a, TRUE) \/ Start(a, FALSE) \/ Reply(a) \/ Timeout(a)
  PROVE  UNCHANGED <<account, closed, There, Kept>>
BY DEF Start, Reply, Timeout, row, data, There, Kept

-------------------------------------------------------------------------------
\* What a call owes.

\* It owes nothing any more of what the step it is in, or an earlier step of its attempt,
\* has deleted.
SnapsGone(r) == \A d : <<"snap", d>> \notin r.owes
RowsGone(kinds, r) == \A k \in kinds : <<"row", k>> \notin r.owes

Good(r) ==
  /\ r.op = "deactivate" => r.owes = {}
  /\ r.op = "snaps" /\ r.stage = "done" => SnapsGone(r)
  /\ r.op \in {"purge", "credentials"} => SnapsGone(r)
  /\ r.op = "purge" =>
       /\ r.stage \in {"bookmark", "report", "settings", "user", "done"} => RowsGone({"seen"}, r)
       /\ r.stage \in {"report", "settings", "user", "done"} => RowsGone({"bookmark"}, r)
       /\ r.stage \in {"settings", "user", "done"} => RowsGone({"report"}, r)
       /\ r.stage \in {"user", "done"} => RowsGone({"settings"}, r)
       /\ r.stage \in {"seen", "bookmark", "report", "settings", "user"} /\ ~r.found =>
            RowsGone({"user"}, r)
       /\ r.stage = "done" => RowsGone({"user"}, r)
  /\ r.op = "credentials" => RowsGone(Kinds \cup {"user"}, r)
  /\ r.op = "credentials" /\ r.stage = "done" => r.owes = {}

\* A call that has been sent after a deactivation, or a deactivation that is done, or has
\* read of the row that it is disabled or gone, finds the account closed.
Follows(r) ==
  r.op # "deactivate" \/ r.stage = "done" \/ r.base \in {"disabled", "gone"} => closed

Owing(r) == Good(r) /\ r.owes \subseteq Kept /\ Follows(r)

CallInv == \A c \in Calls : calls[c] # None => Owing(calls[c])

\* A call that another one deleted for is as good as before.
LEMMA ThinOwing ==
  ASSUME NEW r \in Call, NEW t, NEW D, Thin(t, r, D), Owing(r),
         Kept \ D \subseteq Kept', closed => closed'
  PROVE  Good(t) /\ t.owes \subseteq Kept' /\ (Follows(t))'
<1>1. t.op = r.op /\ t.stage = r.stage /\ t.found = r.found /\ t.base = r.base
      /\ t.owes = r.owes \ D
  BY DEF Thin
<1>2. /\ SnapsGone(r) => SnapsGone(t)
      /\ \A kinds : RowsGone(kinds, r) => RowsGone(kinds, t)
      /\ r.owes = {} => t.owes = {}
  BY <1>1 DEF SnapsGone, RowsGone
<1>3. Good(t)
  BY <1>1, <1>2 DEF Owing, Good
<1>4. t.owes \subseteq Kept'
  BY <1>1 DEF Owing
<1>5. closed => closed'
  OBVIOUS
<1> QED
  BY <1>1, <1>3, <1>4, <1>5 DEF Owing, Follows

\* A step of a handler keeps CallInv, when its own call is good after it.
LEMMA MovesOwing ==
  ASSUME TypeInv, ClosedInv, CallInv, NEW c \in Calls, NEW stage, NEW D,
         Moves(c, stage, D), Kept \ D \subseteq Kept', closed => closed',
         Good(calls'[c]), calls[c].op # "deactivate" \/ stage # "done" \/ closed'
  PROVE  CallInv'
<1>1. ASSUME NEW d \in Calls, d # c, calls'[d] # None
      PROVE  Owing(calls[d])'
  <2>1. calls[d] # None /\ Thin(calls'[d], calls[d], D)
    BY <1>1 DEF Moves
  <2>2. calls[d] \in Call /\ Owing(calls[d])
    BY <2>1 DEF CallInv, TypeInv, Linked
  <2>3. Good(calls'[d]) /\ calls'[d].owes \subseteq Kept' /\ (Follows(calls[d]))'
    <3> DEFINE t == calls'[d]
    <3>1. Thin(t, calls[d], D)
      BY <2>1
    <3>2. t.op = calls[d].op /\ t.stage = calls[d].stage /\ t.base = calls[d].base
      BY <3>1 DEF Thin
    <3>3. Follows(calls[d])
      BY <2>2 DEF Owing
    <3>4. (Follows(calls[d]))'
      BY <3>2, <3>3 DEF Follows
    <3>5. Good(t) /\ t.owes \subseteq Kept'
      BY <2>2, <3>1, ThinOwing
    <3> QED
      BY <3>4, <3>5
  <2> QED
    BY <2>3 DEF Owing
<1>2. Owing(calls[c])'
  <2>0. calls[c] # None /\ Owing(calls[c])
    BY DEF Moves, CallInv
  <2>1. calls'[c].owes \subseteq Kept'
    BY <2>0 DEF Moves, Owing
  <2>2. (Follows(calls[c]))'
    <3>1. account \in {"disabled", "gone"} => closed
      BY DEF ClosedInv
    <3>2. calls'[c].base \in {"disabled", "gone"} => closed
      BY <2>0, <3>1, NoneAssumption DEF Moves, Owing, Follows, Statuses
    <3>3. calls'[c].op # "deactivate" => closed
      BY <2>0 DEF Moves, Owing, Follows
    <3>4. calls'[c].op = calls[c].op /\ calls'[c].stage = stage
      BY DEF Moves
    <3> QED
      BY <3>2, <3>3, <3>4 DEF Follows
  <2> QED
    BY <2>1, <2>2 DEF Owing
<1> QED
  BY <1>1, <1>2 DEF CallInv

\* A deactivation owes nothing, whatever it does.
LEMMA DeactivationGood ==
  ASSUME CallInv, NEW c \in Calls, NEW stage, NEW D, Moves(c, stage, D),
         calls[c].op = "deactivate"
  PROVE  Good(calls'[c])
<1>1. calls[c] # None /\ Good(calls[c])
  BY DEF Moves, CallInv, Owing
<1>2. calls'[c].op = "deactivate" /\ calls'[c].owes = {}
  BY <1>1 DEF Moves, Good
<1> QED
  BY <1>2 DEF Good

LEMMA FailGood ==
  ASSUME NEW c \in Calls, NEW D, Moves(c, "failed", D)
  PROVE  Good(calls'[c])
<1>1. calls'[c].owes = {} /\ calls'[c].stage = "failed"
  BY DEF Moves
<1> QED
  BY <1>1 DEF Good, SnapsGone, RowsGone

LEMMA SnapsGood ==
  ASSUME TypeInv, CallInv, NEW c \in Calls, SnapsFiles(c) \/ SnapsDelete(c)
  PROVE  Good(calls'[c])
<1>0. calls[c].op = "snaps"
  BY DEF SnapsFiles, SnapsDelete, At
<1>1. CASE SnapsFiles(c)
  <2>1. calls'[c].op = "snaps" /\ calls'[c].stage = "files"
    BY <1>0, <1>1, SnapsMoves DEF Moves
  <2> QED
    BY <2>1 DEF Good
<1>2. CASE SnapsDelete(c)
  <2>1. /\ calls'[c].op = "snaps" /\ calls[c] \in Call
        /\ calls'[c].owes = calls[c].owes \ Left(Snaps, {}, FALSE)
    BY <1>0, <1>2, SnapsMoves DEF Moves
  <2>2. calls[c].owes \subseteq Items
    BY <2>1 DEF Call
  <2>3. ASSUME NEW d, <<"snap", d>> \in calls'[c].owes PROVE FALSE
    <3>1. <<"snap", d>> \in Items /\ <<"snap", d>> \notin Left(Snaps, {}, FALSE)
      BY <2>1, <2>2, <2>3
    <3>2. d \notin Snaps
      BY <3>1, LeftHas
    <3>3. <<"snap", d>> \notin Left(Snaps, Kinds, TRUE)
      BY <3>2, LeftHas
    <3> QED
      BY <3>1, <3>3 DEF Items, Credential
  <2>4. SnapsGone(calls'[c])
    BY <2>3 DEF SnapsGone
  <2> QED
    BY <2>1, <2>4 DEF Good
<1> QED
  BY <1>1, <1>2

\* What a call that has got further lost.
LEMMA FewerOwed ==
  ASSUME CallInv, NEW c \in Calls, NEW stage, NEW D, Moves(c, stage, D), stage # "failed"
  PROVE  /\ SnapsGone(calls[c]) => SnapsGone(calls'[c])
         /\ \A kinds : RowsGone(kinds, calls[c]) => RowsGone(kinds, calls'[c])
         /\ Good(calls[c]) /\ calls[c].owes \subseteq Kept
         /\ calls'[c].op = calls[c].op /\ calls'[c].stage = stage
         /\ calls'[c].owes = calls[c].owes \ D
BY DEF Moves, CallInv, Owing, SnapsGone, RowsGone

LEMMA PurgeGood ==
  ASSUME TypeInv, CallInv, NEW c \in Calls,
         PurgeFind(c) \/ PurgeUser(c) \/ \E kind \in Kinds : PurgeRecords(c, kind)
  PROVE  Good(calls'[c])
<1>0. calls[c].op = "purge"
  BY DEF PurgeFind, PurgeUser, PurgeRecords, At
<1>1. CASE PurgeFind(c)
  <2>1. Moves(c, "seen", {}) /\ calls'[c].found = profile
    BY <1>1, PurgeFindMoves
  <2>2. /\ SnapsGone(calls[c]) => SnapsGone(calls'[c])
        /\ Good(calls[c]) /\ calls[c].owes \subseteq Kept
        /\ calls'[c].op = "purge" /\ calls'[c].stage = "seen"
        /\ calls'[c].owes = calls[c].owes \ {}
    BY <1>0, <2>1, FewerOwed
  <2>3. ~profile => RowsGone({"user"}, calls'[c])
    <3>1. ~profile => <<"row", "user">> \notin Kept
      BY LeftHas DEF Kept, TypeInv, DataTyped, Kinds, Credential
    <3> QED
      BY <2>2, <3>1 DEF RowsGone
  <2> QED
    BY <1>0, <2>1, <2>2, <2>3 DEF Good
<1>2. ASSUME NEW kind \in Kinds, PurgeRecords(c, kind)
      PROVE  Good(calls'[c])
  <2>1. /\ Moves(c, NextKind(kind), Left({}, {kind}, FALSE))
        /\ NextKind(kind) # "failed" /\ calls'[c].found = calls[c].found
    BY <1>2, PurgeRecordsMoves
  <2>2. /\ SnapsGone(calls[c]) => SnapsGone(calls'[c])
        /\ \A kinds : RowsGone(kinds, calls[c]) => RowsGone(kinds, calls'[c])
        /\ Good(calls[c])
        /\ calls'[c].op = "purge" /\ calls'[c].stage = NextKind(kind)
        /\ calls'[c].owes = calls[c].owes \ Left({}, {kind}, FALSE)
    BY <1>0, <2>1, FewerOwed
  <2>3. calls[c].stage = kind /\ kind # "user"
    BY <1>2 DEF PurgeRecords, At, Kinds
  <2>4. RowsGone({kind}, calls'[c])
    BY <2>2, <2>3, LeftHas DEF RowsGone
  <2> QED
    BY <1>0, <2>1, <2>2, <2>3, <2>4 DEF Good, NextKind, Kinds
<1>3. CASE PurgeUser(c)
  <2> DEFINE D == IF calls[c].found THEN Left({}, {"settings"}, TRUE) ELSE {}
  <2>1. Moves(c, "done", D)
    BY <1>3, PurgeUserMoves
  <2>2. /\ SnapsGone(calls[c]) => SnapsGone(calls'[c])
        /\ \A kinds : RowsGone(kinds, calls[c]) => RowsGone(kinds, calls'[c])
        /\ Good(calls[c])
        /\ calls'[c].op = "purge" /\ calls'[c].stage = "done"
        /\ calls'[c].owes = calls[c].owes \ D
    BY <1>0, <2>1, FewerOwed
  <2>3. calls[c].stage = "user"
    BY <1>3 DEF PurgeUser, At
  <2>4. RowsGone({"user"}, calls'[c])
    <3>1. CASE calls[c].found
      <4>1. <<"row", "user">> \in D
        BY <3>1, LeftHas
      <4> QED
        BY <2>2, <4>1 DEF RowsGone
    <3>2. CASE ~calls[c].found
      BY <1>0, <2>2, <2>3, <3>2 DEF Good
    <3> QED
      BY <3>1, <3>2
  <2> QED
    BY <1>0, <2>2, <2>3, <2>4 DEF Good
<1> QED
  BY <1>1, <1>2, <1>3

\* A call that owes neither snaps nor rows owes the row of the account at most.
LEMMA OnlyCredential ==
  ASSUME NEW r \in Call, SnapsGone(r), RowsGone(Kinds \cup {"user"}, r)
  PROVE  r.owes \subseteq {Credential}
<1> SUFFICES ASSUME NEW x \in r.owes, x # Credential PROVE FALSE
  OBVIOUS
<1>1. x \in Left(Snaps, Kinds, TRUE)
  BY DEF Call, Items
<1>2. (\E d \in Snaps : x = <<"snap", d>>) \/ \E k \in Kinds \cup {"user"} : x = <<"row", k>>
  <2>1. CASE x \in {"snap"} \X Snaps
    BY <2>1
  <2>2. CASE x \in {"row"} \X Kinds
    BY <2>2
  <2>3. CASE x = <<"row", "user">>
    BY <2>3
  <2> QED
    BY <1>1, <2>1, <2>2, <2>3 DEF Left
<1> QED
  BY <1>2 DEF SnapsGone, RowsGone

LEMMA CredentialsOwe ==
  ASSUME TypeInv, CallInv, NEW c \in Calls, calls[c] # None, calls[c].op = "credentials"
  PROVE  calls[c].owes \subseteq {Credential}
BY OnlyCredential DEF CallInv, Owing, Good, TypeInv, Linked

LEMMA CredentialsGood ==
  ASSUME TypeInv, CallInv, NEW c \in Calls, DeleteCredentials(c)
  PROVE  Good(calls'[c])
<1>1. Moves(c, "done", {Credential}) /\ calls[c] # None /\ calls[c].op = "credentials"
  BY CredentialsMoves DEF DeleteCredentials, At
<1>2. calls'[c].owes = {} /\ calls'[c].op = "credentials"
  BY <1>1, CredentialsOwe, FewerOwed
<1> QED
  BY <1>2 DEF Good, SnapsGone, RowsGone

\* Every handler keeps CallInv.
LEMMA HandlerOwing ==
  ASSUME TypeInv, ClosedInv, CallInv, NEW c \in Calls, Handle(c) \/ Fail(c),
         closed => closed',
         account' = "gone" => account = "gone" \/ \E d \in Calls : DeleteCredentials(d)
  PROVE  CallInv'
<1> DEFINE gone == account' = "gone" => account = "gone"
<1>0. ASSUME ~DeleteCredentials(c) PROVE gone
  <2>1. CASE DeactivateWrite(c)
    <3>1. /\ calls[c].base \in Statuses \cup {None}
          /\ account' = Saved("disabled", calls[c].base)
      BY <2>1, RowWrites DEF SetAccount
    <3> QED
      BY <3>1, SavedStatus DEF TypeInv, DataTyped
  <2>2. CASE ~DeactivateWrite(c)
    BY <1>0, <2>2 DEF Handle, DeactivateFind, DeactivateSelect, SnapsFiles, SnapsDelete,
       PurgeFind, PurgeRecords, PurgeUser, Fail, row
  <2> QED
    BY <2>1, <2>2
<1>k. ASSUME NEW D, There' = There \ D, gone PROVE Kept \ D \subseteq Kept'
  BY <1>k, KeptStays
<1>t. DataTyped
  BY DEF TypeInv
<1>1. CASE DeactivateFind(c)
  <2>1. PICK stage : /\ Moves(c, stage, {}) /\ (stage = "done" => account # "active")
                     /\ calls[c].op = "deactivate"
    BY <1>1, FindMoves DEF DeactivateFind, At
  <2>2. stage # "done" \/ closed'
    BY <2>1 DEF ClosedInv
  <2>3. There' = There /\ gone
    BY <1>0, <1>1, <1>t, HandlerData DEF DeactivateFind, DeleteCredentials, At
  <2> QED
    BY <1>k, <2>1, <2>2, <2>3, DeactivationGood, MovesOwing
<1>2. CASE DeactivateSelect(c)
  <2>1. Moves(c, "write", {}) /\ calls[c].op = "deactivate"
    BY <1>2, SelectMoves DEF DeactivateSelect, At
  <2>2. There' = There /\ gone
    BY <1>0, <1>2, <1>t, HandlerData DEF DeactivateSelect, DeleteCredentials, At
  <2> QED
    BY <1>k, <2>1, <2>2, DeactivationGood, MovesOwing
<1>3. CASE DeactivateWrite(c)
  <2>1. PICK stage : /\ Moves(c, stage, {})
                     /\ (stage = "done" => calls[c].base # "gone" \/ account = "gone")
                     /\ calls[c] # None /\ calls[c].op = "deactivate"
    BY <1>3, WriteMoves DEF DeactivateWrite, At
  <2>2. stage # "done" \/ closed'
    <3>1. /\ calls[c].base \in Statuses \cup {None}
          /\ SetAccount(Saved("disabled", calls[c].base))
      BY <1>3, RowWrites
    <3>2. CASE calls[c].base \in {"disabled", "gone"}
      <4>1. closed
        BY <2>1, <3>2 DEF CallInv, Owing, Follows
      <4> QED
        BY <4>1
    <3>3. CASE calls[c].base \in {"active", None}
      <4>1. Saved("disabled", calls[c].base) # "active"
        BY <3>1, <3>3, SavedStatus DEF TypeInv, DataTyped
      <4> QED
        BY <3>1, <4>1 DEF SetAccount
    <3> QED
      BY <3>1, <3>2, <3>3 DEF Statuses
  <2>3. There' = There /\ gone
    BY <1>0, <1>3, <1>t, HandlerData DEF DeactivateWrite, DeleteCredentials, At
  <2> QED
    BY <1>k, <2>1, <2>2, <2>3, DeactivationGood, MovesOwing
<1>4. CASE SnapsFiles(c)
  <2>1. Moves(c, "files", {})
    BY <1>4, SnapsMoves
  <2>2. There' = There /\ gone
    BY <1>0, <1>4, <1>t, HandlerData DEF SnapsFiles, DeleteCredentials, At
  <2> QED
    BY <1>4, <1>k, <2>1, <2>2, SnapsGood, MovesOwing
<1>5. CASE SnapsDelete(c)
  <2>1. Moves(c, "done", Left(Snaps, {}, FALSE)) /\ calls[c].op # "deactivate"
    BY <1>5, SnapsMoves DEF SnapsDelete, At
  <2>2. There' = There \ Left(Snaps, {}, FALSE) /\ gone
    BY <1>0, <1>5, <1>t, HandlerData DEF SnapsDelete, DeleteCredentials, At
  <2> QED
    BY <1>5, <1>k, <2>1, <2>2, SnapsGood, MovesOwing
<1>6. CASE PurgeFind(c)
  <2>1. Moves(c, "seen", {})
    BY <1>6, PurgeFindMoves
  <2>2. There' = There /\ gone
    BY <1>0, <1>6, <1>t, HandlerData DEF PurgeFind, DeleteCredentials, At
  <2> QED
    BY <1>6, <1>k, <2>1, <2>2, PurgeGood, MovesOwing
<1>7. ASSUME NEW kind \in Kinds, PurgeRecords(c, kind)
      PROVE  CallInv'
  <2>1. Moves(c, NextKind(kind), Left({}, {kind}, FALSE)) /\ calls[c].op # "deactivate"
    BY <1>7, PurgeRecordsMoves DEF PurgeRecords, At
  <2>2. There' = There \ Left({}, {kind}, FALSE) /\ gone
    BY <1>0, <1>7, <1>t, HandlerData DEF PurgeRecords, DeleteCredentials, At
  <2>3. Good(calls'[c])
    BY <1>7, PurgeGood
  <2> QED
    BY <1>k, <2>1, <2>2, <2>3, MovesOwing
<1>8. CASE PurgeUser(c)
  <2> DEFINE D == IF calls[c].found THEN Left({}, {"settings"}, TRUE) ELSE {}
  <2>1. Moves(c, "done", D) /\ calls[c].op # "deactivate"
    BY <1>8, PurgeUserMoves DEF PurgeUser, At
  <2>2. There' = There \ D /\ gone
    BY <1>0, <1>8, <1>t, HandlerData DEF PurgeUser, DeleteCredentials, At
  <2>3. Good(calls'[c])
    BY <1>8, PurgeGood
  <2>4. Kept \ D \subseteq Kept'
    BY <1>k, <2>2
  <2> HIDE DEF D
  <2> QED
    BY <2>1, <2>3, <2>4, MovesOwing
<1>9. CASE DeleteCredentials(c)
  <2>1. Moves(c, "done", {Credential}) /\ calls[c].op # "deactivate"
    BY <1>9, CredentialsMoves DEF DeleteCredentials, At
  <2>2. There' = There
    BY <1>9, <1>t, HandlerData
  <2>3. Kept \ {Credential} \subseteq Kept'
    BY <2>2, KeptStays
  <2> QED
    BY <1>9, <2>1, <2>3, CredentialsGood, MovesOwing
<1>10. CASE Fail(c) /\ ~DeleteCredentials(c)
  <2>1. Moves(c, "failed", {})
    BY <1>10, FailMoves
  <2>2. There' = There /\ gone
    BY <1>0, <1>10, <1>t, HandlerData
  <2> QED
    BY <1>k, <2>1, <2>2, FailGood, MovesOwing
<1> QED
  BY <1>1, <1>2, <1>3, <1>4, <1>5, <1>6, <1>7, <1>8, <1>9, <1>10 DEF Handle

\* What the orchestrator sends next owes what its call owed, or what there is.
LEMMA GoesOwing ==
  ASSUME TypeInv, CallInv, NEW a \in Attempts, NEW c \in Calls, calls[c] # None,
         Goes(a, c), UNCHANGED <<closed, Kept>>
  PROVE  Owing(calls[c])'
<1> DEFINE r == calls[c]
           t == calls'[c]
<1>1. /\ r \in Call /\ r.op \in Steps /\ r.op # "credentials" /\ r.stage = "done"
      /\ Owing(r)
  BY DEF Goes, CallInv, TypeInv, Linked, Call
<1>2. t.op = After(r.op) /\ t.stage = "sent" /\ t.base = None /\ t.owes = Owed(c)
  BY DEF Goes
<1> HIDE DEF t
<1>3. closed
  BY <1>1 DEF Owing, Follows
<1>4. t.owes \subseteq Kept
  BY <1>1, <1>2 DEF Owed, Owing
<1>5. CASE r.op = "deactivate"
  <2>1. t.op = "snaps"
    BY <1>2, <1>5 DEF After
  <2>2. Good(t)
    BY <1>2, <2>1 DEF Good
  <2> QED
    BY <1>3, <1>4, <2>2 DEF Owing, Follows, t
<1>6. CASE r.op = "snaps"
  <2>1. t.op = "purge" /\ t.owes = r.owes /\ SnapsGone(r)
    BY <1>1, <1>2, <1>6 DEF After, Owed, Owing, Good
  <2>2. Good(t)
    BY <1>2, <2>1 DEF Good, SnapsGone
  <2> QED
    BY <1>3, <1>4, <2>2 DEF Owing, Follows, t
<1>7. CASE r.op = "purge"
  <2>1. t.op = "credentials" /\ t.owes = r.owes
    BY <1>1, <1>2, <1>7 DEF After, Owed
  <2>2. SnapsGone(r) /\ RowsGone({"seen"}, r) /\ RowsGone({"bookmark"}, r)
        /\ RowsGone({"report"}, r) /\ RowsGone({"settings"}, r) /\ RowsGone({"user"}, r)
    BY <1>1, <1>7 DEF Owing, Good
  <2>3. SnapsGone(t) /\ RowsGone(Kinds \cup {"user"}, t)
    BY <2>1, <2>2 DEF SnapsGone, RowsGone, Kinds
  <2>4. Good(t)
    BY <1>2, <2>1, <2>3 DEF Good
  <2> QED
    BY <1>3, <1>4, <2>4 DEF Owing, Follows, t
<1> QED
  BY <1>1, <1>5, <1>6, <1>7 DEF Steps

\* A call that stayed as it was owes no more than there is.
LEMMA OwingStays ==
  ASSUME CallInv, Kept \subseteq Kept', closed => closed',
         NEW d \in Calls, calls'[d] = calls[d], calls[d] # None
  PROVE  Owing(calls[d])'
<1>1. Owing(calls[d])
  BY DEF CallInv
<1> QED
  BY <1>1 DEF Owing, Good, SnapsGone, RowsGone, Follows

LEMMA OrchestratorOwing ==
  ASSUME TypeInv, CallInv, NEW a \in Attempts,
         Start(a, TRUE) \/ Start(a, FALSE) \/ Reply(a) \/ Timeout(a)
  PROVE  CallInv'
<1>0. UNCHANGED <<closed, Kept>>
  BY OrchestratorKeeps
<1>1. ASSUME NEW right \in BOOLEAN, Start(a, right)
      PROVE  CallInv'
  <2>1. PICK c \in Calls :
          /\ calls[c] = None /\ calls'[c] \in Call /\ calls'[c] # None
          /\ calls'[c].op = "deactivate" /\ calls'[c].stage = "sent"
          /\ calls'[c].base = None /\ calls'[c].owes = {}
          /\ \A d \in Calls : d # c => calls'[d] = calls[d]
    BY <1>1, Starts
  <2>2. Owing(calls[c])'
    <3>1. Good(calls'[c])
      BY <2>1 DEF Good
    <3> QED
      BY <2>1, <3>1, NoneAssumption DEF Owing, Good, SnapsGone, RowsGone, Follows, Statuses
  <2>3. ASSUME NEW d \in Calls, d # c, calls'[d] # None PROVE Owing(calls[d])'
    BY <1>0, <2>1, <2>3, OwingStays
  <2> QED
    BY <2>2, <2>3 DEF CallInv
<1>2. CASE Reply(a)
  <2>1. PICK c \in Calls : calls[c] # None /\ (Goes(a, c) \/ Ends(a, c))
    BY <1>2, Replies
  <2>2. CASE Goes(a, c)
    <3>1. Owing(calls[c])'
      BY <1>0, <2>1, <2>2, GoesOwing
    <3>2. ASSUME NEW d \in Calls, d # c, calls'[d] # None PROVE Owing(calls[d])'
      BY <1>0, <2>2, <3>2, OwingStays DEF Goes
    <3> QED
      BY <3>1, <3>2 DEF CallInv
  <2>3. CASE Ends(a, c)
    <3>1. ASSUME NEW d \in Calls, calls'[d] # None PROVE Owing(calls[d])'
      BY <1>0, <2>3, <3>1, OwingStays DEF Ends
    <3> QED
      BY <3>1 DEF CallInv
  <2> QED
    BY <2>1, <2>2, <2>3
<1>3. CASE Timeout(a)
  <2>1. UNCHANGED calls
    BY <1>3, TimesOut
  <2>2. ASSUME NEW d \in Calls, calls'[d] # None PROVE Owing(calls[d])'
    BY <1>0, <2>1, <2>2, OwingStays
  <2> QED
    BY <2>2 DEF CallInv
<1> QED
  BY <1>1, <1>2, <1>3

\* Every step keeps CallInv.
LEMMA CallStep ==
  ASSUME TypeInv, ClosedInv, CallInv, [Next]_vars
  PROVE  CallInv'
<1>0. /\ closed => closed'
      /\ account' = "gone" => account = "gone" \/ \E d \in Calls : DeleteCredentials(d)
  BY RowStep
<1>1. ASSUME NEW a \in Attempts,
             Start(a, TRUE) \/ Start(a, FALSE) \/ Reply(a) \/ Timeout(a)
      PROVE  CallInv'
  BY <1>1, OrchestratorOwing
<1>2. ASSUME NEW c \in Calls, Handle(c) \/ Fail(c)
      PROVE  CallInv'
  BY <1>0, <1>2, HandlerOwing
<1>3. ASSUME NEW c \in Calls, Discard(c)
      PROVE  CallInv'
  <2>1. \A d \in Calls : calls'[d] = IF d = c THEN None ELSE calls[d]
    BY <1>3, DiscardLinked DEF TypeInv
  <2>2. Kept' = Kept
    BY <1>3 DEF Discard, row, data, Kept
  <2>3. ASSUME NEW d \in Calls, calls'[d] # None PROVE Owing(calls[d])'
    BY <1>0, <2>1, <2>2, <2>3, OwingStays
  <2> QED
    BY <2>3 DEF CallInv
<1>4. CASE Outside \/ UNCHANGED vars
  <2>1. UNCHANGED calls
    BY <1>4, OutsideKeeps DEF vars
  <2>2. There \subseteq There'
    BY <1>4, OutsideThere DEF vars, data, There
  <2>3. account' = "gone" => account = "gone"
    <3>1. CASE UNCHANGED row
      BY <3>1 DEF row
    <3>2. ASSUME NEW s \in Savers, WriteCredential(s)
          PROVE  account' = "gone" => account = "gone"
      <4>1. /\ saving[s].held \in {"active", "disabled"}
            /\ saving[s].base \in Statuses \cup {None}
            /\ account' = Saved(saving[s].held, saving[s].base)
        BY <3>2, RowWrites DEF SetAccount
      <4> QED
        BY <4>1, SavedStatus DEF TypeInv, DataTyped
    <3>3. ASSUME NEW c \in Calls, DeactivateWrite(c) \/ DeleteCredentials(c)
          PROVE  FALSE
      <4>1. calls' # calls
        <5>1. PICK stage, D : Moves(c, stage, D) /\ stage \in Over
                              /\ calls[c].stage \notin Over
          BY <3>3, WriteMoves, CredentialsMoves DEF DeactivateWrite, DeleteCredentials, At, Over
        <5> QED
          BY <5>1 DEF Moves
      <4> QED
        BY <2>1, <4>1
    <3> QED
      BY <3>1, <3>2, <3>3, AccountMoves
  <2>4. Kept \ {} \subseteq Kept'
    BY <2>2, <2>3, KeptStays
  <2>5. ASSUME NEW d \in Calls, calls'[d] # None PROVE Owing(calls[d])'
    BY <1>0, <2>1, <2>4, <2>5, OwingStays
  <2> QED
    BY <2>5 DEF CallInv
<1> QED
  BY <1>1, <1>2, <1>3, <1>4 DEF Next

\* The inductive invariant.
Inv == TypeInv /\ ClosedInv /\ CallInv

LEMMA InvHolds == Spec => []Inv
<1>1. Init => Inv
  BY TypeInit DEF Init, CallInv, Inv
<1>2. Inv /\ [Next]_vars => Inv'
  BY TypeStep, CallStep DEF Inv
<1> QED
  BY <1>1, <1>2, PTL DEF Spec

-------------------------------------------------------------------------------
\* Nothing is destroyed before the account is disabled.

\* No step takes anything from an account that was never disabled.
LEMMA NothingLostStep ==
  ASSUME Inv, Next, ~closed
  PROVE  /\ account' # "gone"
         /\ snaps \subseteq snaps'
         /\ records \subseteq records'
         /\ profile => profile'
<1> USE DEF Inv
<1>0. \A c \in Calls : calls[c] # None => calls[c].op = "deactivate"
  BY DEF CallInv, Owing, Follows
<1>1. account' # "gone"
  <2>1. ~\E c \in Calls : DeleteCredentials(c)
    BY <1>0 DEF DeleteCredentials, At
  <2> QED
    BY <2>1, RowStep DEF ClosedInv
<1>2. ASSUME NEW a \in Attempts,
             Start(a, TRUE) \/ Start(a, FALSE) \/ Reply(a) \/ Timeout(a)
      PROVE  UNCHANGED data
  BY <1>2 DEF Start, Reply, Timeout
<1>3. ASSUME NEW c \in Calls, Handle(c) \/ Fail(c) \/ Discard(c)
      PROVE  UNCHANGED data
  <2>1. ~SnapsDelete(c) /\ ~PurgeUser(c) /\ \A kind \in Kinds : ~PurgeRecords(c, kind)
    BY <1>0 DEF SnapsDelete, PurgeUser, PurgeRecords, At
  <2> QED
    BY <1>3, <2>1 DEF Handle, DeactivateFind, DeactivateSelect, DeactivateWrite, SnapsFiles,
       PurgeFind, DeleteCredentials, Fail, Discard
<1> QED
  BY <1>1, <1>2, <1>3, OutsideData DEF Next, data

\* However deletions with right and wrong passwords, their late calls, the client's
\* other requests, saves of the row and the signup event interleave, no step takes the
\* account, a snap, a record or the profile before the account has been disabled.
THEOREM NothingLostBeforeClosedHolds == Spec => NothingLostBeforeClosed
<1>1. Inv /\ [Next]_vars =>
        [~closed => /\ account' # "gone"
                    /\ snaps \subseteq snaps'
                    /\ records \subseteq records'
                    /\ profile => profile']_vars
  BY NothingLostStep
<1> QED
  BY <1>1, InvHolds, PTL DEF Spec, NothingLostBeforeClosed

-------------------------------------------------------------------------------
\* A confirmed deletion has erased what there was.

\* An attempt is told "ok" by the answer of a call that owes nothing.
LEMMA ToldOwesNothing ==
  ASSUME Inv, [Next]_vars, NEW a \in Told' \ Told
  PROVE  calls[saga[a].call].owes = {}
<1> USE DEF Inv
<1>0. a \in Attempts /\ saga'[a].step = "ok" /\ saga[a].step # "ok"
  BY DEF Told
<1>1. ASSUME NEW b \in Attempts, Start(b, TRUE) \/ Start(b, FALSE) \/ Timeout(b)
      PROVE  FALSE
  BY <1>0, <1>1, Starts, TimesOut
<1>2. ASSUME NEW b \in Attempts, Reply(b)
      PROVE  calls[saga[a].call].owes = {}
  <2>1. b = a
    BY <1>0, <1>2, Replies
  <2>2. PICK c \in Calls : /\ c = saga[a].call /\ calls[c] # None
                           /\ Goes(a, c) \/ Ends(a, c)
    BY <1>2, <2>1, Replies
  <2>3. calls[c].op = "credentials" /\ calls[c].stage = "done"
    BY <1>0, <2>2 DEF Goes, Ends
  <2> QED
    BY <2>2, <2>3 DEF CallInv, Owing, Good
<1>3. ASSUME NEW c \in Calls, Handle(c) \/ Fail(c) \/ Discard(c)
      PROVE  UNCHANGED saga
  BY <1>3, HandlerMoves DEF Moves, Discard
<1> QED
  BY <1>0, <1>1, <1>2, <1>3, OutsideKeeps DEF Next, vars

\* However many deletions interleave, with each other, with calls whose caller has given
\* up, with the client's other requests, with saves of a stale row and with a late signup
\* event, the row of the account is the last that a deletion takes of what it found, and
\* a deletion is confirmed when nothing that it found has escaped.
THEOREM ConfirmedMeansErasedHolds == Spec => ConfirmedMeansErased
<1>1. Inv /\ [Next]_vars =>
        [/\ \A c \in Calls : DeleteCredentials(c) => calls[c].owes \subseteq {Credential}
         /\ \A a \in Told' \ Told : calls[saga[a].call].owes = {}]_vars
  <2> SUFFICES ASSUME Inv, [Next]_vars
               PROVE  /\ \A c \in Calls :
                           DeleteCredentials(c) => calls[c].owes \subseteq {Credential}
                      /\ \A a \in Told' \ Told : calls[saga[a].call].owes = {}
    OBVIOUS
  <2>1. ASSUME NEW c \in Calls, DeleteCredentials(c)
        PROVE  calls[c].owes \subseteq {Credential}
    BY <2>1, CredentialsOwe DEF Inv, DeleteCredentials, At
  <2> QED
    BY <2>1, ToldOwesNothing
<1> QED
  BY <1>1, InvHolds, PTL DEF Spec, ConfirmedMeansErased

-------------------------------------------------------------------------------
\* The deletion refines Erasure.

CopyOf(k) ==
  CASE k \in Savers -> IF saving[k] = None THEN None ELSE saving[k].held
    [] OTHER        -> IF Deactivating(k) THEN "disabled" ELSE None

OweOf(c) ==
  IF calls[c] = None THEN None
  ELSE IF calls[c].op = "deactivate" \/ calls[c].stage = "failed" THEN None
  ELSE calls[c].owes

LEMMA AsFunctions ==
  /\ Copies = [k \in Savers \cup Calls |-> CopyOf(k)]
  /\ Owes = [c \in Calls |-> OweOf(c)]
BY DEF Copies, Owes, CopyOf, OweOf

LEMMA AsFunctionsNext ==
  /\ Copies' = [k \in Savers \cup Calls |-> (CopyOf(k))']
  /\ Owes' = [c \in Calls |-> (OweOf(c))']
BY DEF Copies, Owes, CopyOf, OweOf

\* The copies and what is owed stay, or one of them changes.
LEMMA CopiesStay ==
  ASSUME \A k \in Savers \cup Calls : (CopyOf(k))' = CopyOf(k)
  PROVE  Copies' = Copies
BY AsFunctions, AsFunctionsNext

LEMMA CopiesChange ==
  ASSUME NEW j \in Savers \cup Calls,
         \A k \in Savers \cup Calls : k # j => (CopyOf(k))' = CopyOf(k)
  PROVE  Copies' = [Copies EXCEPT ![j] = (CopyOf(j))']
BY AsFunctions, AsFunctionsNext

LEMMA OwesStay ==
  ASSUME \A c \in Calls : (OweOf(c))' = OweOf(c)
  PROVE  Owes' = Owes
BY AsFunctions, AsFunctionsNext

LEMMA OwesChange ==
  ASSUME NEW d \in Calls, \A c \in Calls : c # d => (OweOf(c))' = OweOf(c)
  PROVE  Owes' = [Owes EXCEPT ![d] = (OweOf(d))']
BY AsFunctions, AsFunctionsNext

\* What a call owes, if it owes, is not None.
LEMMA OweIsSet ==
  ASSUME TypeInv, NEW c \in Calls, OweOf(c) # None
  PROVE  /\ OweOf(c) = calls[c].owes /\ OweOf(c) \subseteq Items
         /\ calls[c] # None /\ calls[c].op # "deactivate"
BY DEF OweOf, TypeInv, Linked, Call

LEMMA SetIsNotNone == ASSUME NEW D \in SUBSET Items PROVE D # None
BY NoneAssumption

\* A step of a handler, seen from Erasure: the copy of its own call, and what all owe.
LEMMA MovesCopies ==
  ASSUME TypeInv, NEW c \in Calls, NEW stage, NEW D, Moves(c, stage, D), UNCHANGED saving
  PROVE  /\ \A k \in Savers \cup Calls : k # c => (CopyOf(k))' = CopyOf(k)
         /\ CopyOf(c) = IF Deactivating(c) THEN "disabled" ELSE None
         /\ (CopyOf(c))' = IF calls[c].op = "deactivate" /\ stage \in {"save", "write"}
                           THEN "disabled" ELSE None
<1>1. ASSUME NEW k \in Calls, k # c PROVE (CopyOf(k))' = CopyOf(k)
  <2>1. k \notin Savers
    BY DeletionAssumption
  <2>2. Deactivating(k)' <=> Deactivating(k)
    BY <1>1 DEF Moves, Thin, Deactivating
  <2> QED
    BY <2>1, <2>2 DEF CopyOf
<1>2. ASSUME NEW k \in Savers PROVE (CopyOf(k))' = CopyOf(k)
  BY DEF CopyOf
<1>3. c \notin Savers
  BY DeletionAssumption
<1>4. Deactivating(c)' <=> calls[c].op = "deactivate" /\ stage \in {"save", "write"}
  BY DEF Moves, Deactivating
<1> QED
  BY <1>1, <1>2, <1>3, <1>4 DEF CopyOf

LEMMA MovesOwes ==
  ASSUME TypeInv, NEW c \in Calls, NEW stage, NEW D, Moves(c, stage, D)
  PROVE  /\ \A d \in Calls : d # c =>
              (OweOf(d))' = IF OweOf(d) = None THEN None ELSE OweOf(d) \ D
         /\ stage = "failed" => (OweOf(c))' = None
         /\ stage # "failed" /\ calls[c].stage # "failed" =>
              (OweOf(c))' = IF OweOf(c) = None THEN None ELSE OweOf(c) \ D
<1>1. ASSUME NEW d \in Calls, d # c
      PROVE  (OweOf(d))' = IF OweOf(d) = None THEN None ELSE OweOf(d) \ D
  <2>1. CASE calls[d] = None
    BY <1>1, <2>1 DEF Moves, OweOf
  <2>2. CASE calls[d] # None
    <3>1. Thin(calls'[d], calls[d], D) /\ calls[d].owes \in SUBSET Items
      BY <1>1, <2>2 DEF Moves, TypeInv, Linked, Call
    <3>2. /\ calls'[d] # None /\ calls'[d].op = calls[d].op
          /\ calls'[d].stage = calls[d].stage /\ calls'[d].owes = calls[d].owes \ D
      BY <3>1 DEF Thin
    <3>3. calls[d].owes # None
      BY <3>1, SetIsNotNone
    <3> QED
      BY <2>2, <3>2, <3>3 DEF OweOf
  <2> QED
    BY <2>1, <2>2
<1>2. /\ calls[c] # None /\ calls'[c] # None /\ calls'[c].op = calls[c].op
      /\ calls'[c].stage = stage /\ calls[c].owes \in SUBSET Items
      /\ stage # "failed" => calls'[c].owes = calls[c].owes \ D
  BY DEF Moves, Call
<1>3. calls[c].owes # None
  BY <1>2, SetIsNotNone
<1> QED
  BY <1>1, <1>2, <1>3 DEF OweOf

\* When nothing is deleted, and the call does not fail, nobody owes more or less.
LEMMA MovesOweSame ==
  ASSUME TypeInv, NEW c \in Calls, NEW stage, Moves(c, stage, {}),
         stage # "failed" \/ calls[c].op = "deactivate", calls[c].stage # "failed"
  PROVE  Owes' = Owes
<1>1. \A D \in SUBSET Items : D \ {} = D
  OBVIOUS
<1>2. \A d \in Calls : OweOf(d) # None => OweOf(d) \ {} = OweOf(d)
  BY <1>1, OweIsSet
<1>3. ASSUME NEW d \in Calls, d # c PROVE (OweOf(d))' = OweOf(d)
  <2>1. (OweOf(d))' = IF OweOf(d) = None THEN None ELSE OweOf(d) \ {}
    BY <1>3, MovesOwes
  <2>2. OweOf(d) # None => OweOf(d) \ {} = OweOf(d)
    BY <1>2
  <2> QED
    BY <2>1, <2>2
<1>4. (OweOf(c))' = OweOf(c)
  <2>1. CASE stage # "failed"
    BY <1>2, <2>1, MovesOwes
  <2>2. CASE stage = "failed"
    BY <2>2, MovesOwes DEF OweOf
  <2> QED
    BY <2>1, <2>2
<1> QED
  BY <1>3, <1>4, OwesStay

\* When D is deleted, everybody owes D less.
LEMMA MovesOweLess ==
  ASSUME TypeInv, NEW c \in Calls, NEW stage, NEW D, Moves(c, stage, D),
         stage # "failed", calls[c].stage # "failed"
  PROVE  Owes' = [d \in Calls |-> IF Owes[d] = None THEN None ELSE Owes[d] \ D]
<1>1. \A d \in Calls : (OweOf(d))' = IF OweOf(d) = None THEN None ELSE OweOf(d) \ D
  BY MovesOwes
<1> QED
  BY <1>1, AsFunctions, AsFunctionsNext

\* No saga moves with a handler.
LEMMA ToldStays == ASSUME UNCHANGED saga PROVE Told' = Told
BY DEF Told

\* What the handlers leave of the client's tables.
LEMMA HandlerClient ==
  ASSUME NEW c \in Calls, Handle(c) \/ Fail(c) \/ Discard(c)
  PROVE  UNCHANGED <<client, event, saga>>
BY DEF Handle, DeactivateFind, DeactivateSelect, DeactivateWrite, SnapsFiles, SnapsDelete,
   PurgeFind, PurgeRecords, PurgeUser, DeleteCredentials, Fail, Discard

\* The deactivation: it takes a copy, and saves it.
LEMMA DeactivateErasure ==
  ASSUME Inv, NEW c \in Calls,
         DeactivateFind(c) \/ DeactivateSelect(c) \/ DeactivateWrite(c)
  PROVE  Abstract!Next \/ UNCHANGED (Abstract!vars)
<1> USE DEF Inv
<1>0. /\ calls[c] # None /\ calls[c].op = "deactivate"
      /\ calls[c].stage \in {"sent", "save", "write"}
      /\ UNCHANGED saving /\ Told' = Told /\ There' = There
  <2>1. UNCHANGED <<client, saga>>
    BY HandlerClient DEF Handle
  <2>2. There' = There
    BY HandlerData DEF TypeInv
  <2> QED
    BY <2>1, <2>2, ToldStays
    DEF client, DeactivateFind, DeactivateSelect, DeactivateWrite, At
<1>1. CASE DeactivateFind(c)
  <2>1. PICK stage \in {"save", "done", "failed"} :
          Moves(c, stage, {}) /\ (stage = "save" => account = "active")
    BY <1>1, FindMoves
  <2>2. UNCHANGED row /\ calls[c].stage = "sent"
    BY <1>1 DEF DeactivateFind, At
  <2>3. Owes' = Owes
    BY <1>0, <2>1, MovesOweSame
  <2>4. CopyOf(c) = None
    BY <1>0, <2>1, <2>2, MovesCopies DEF Deactivating
  <2>5. CASE stage = "save"
    <3>1. (CopyOf(c))' = "disabled"
      BY <1>0, <2>1, <2>5, MovesCopies
    <3>2. Copies' = [Copies EXCEPT ![c] = "disabled"]
      BY <1>0, <2>1, <3>1, MovesCopies, CopiesChange
    <3>3. Abstract!Read(c)
      BY <1>0, <2>1, <2>2, <2>3, <2>5, <3>2 DEF Abstract!Read, row, There
    <3> QED
      BY <3>3 DEF Abstract!Next
  <2>6. CASE stage # "save"
    <3>1. (CopyOf(c))' = None
      BY <1>0, <2>1, <2>6, MovesCopies
    <3>2. Copies' = Copies
      BY <1>0, <2>1, <2>4, <3>1, MovesCopies, CopiesStay
    <3> QED
      BY <1>0, <2>2, <2>3, <3>2 DEF Abstract!vars, row, There
  <2> QED
    BY <2>5, <2>6
<1>2. CASE DeactivateSelect(c)
  <2>1. Moves(c, "write", {})
    BY <1>2, SelectMoves
  <2>2. UNCHANGED row /\ calls[c].stage = "save"
    BY <1>2 DEF DeactivateSelect, At
  <2>3. Owes' = Owes
    BY <1>0, <2>1, MovesOweSame
  <2>4. Copies' = Copies
    BY <1>0, <2>1, <2>2, MovesCopies, CopiesStay DEF Deactivating
  <2> QED
    BY <1>0, <2>2, <2>3, <2>4 DEF Abstract!vars, row, There
<1>3. CASE DeactivateWrite(c)
  <2>1. PICK stage \in {"done", "failed"} : Moves(c, stage, {})
    BY <1>3, WriteMoves
  <2>2. calls[c].stage = "write"
    BY <1>3 DEF DeactivateWrite, At
  <2>3. Owes' = Owes
    BY <1>0, <2>1, MovesOweSame
  <2>4. CopyOf(c) = "disabled" /\ (CopyOf(c))' = None
    BY <1>0, <2>1, <2>2, MovesCopies DEF Deactivating
  <2>5. Copies' = [Copies EXCEPT ![c] = None]
    BY <1>0, <2>1, <2>4, MovesCopies, CopiesChange
  <2>6. Copies[c] = "disabled" /\ "disabled" # None
    BY <2>4, AsFunctions, NoneAssumption DEF Statuses
  <2>7. /\ account' \in {account, "disabled"}
        /\ closed' = (closed \/ account' # "active")
    BY <1>3, RowWrites, SavedStatus DEF SetAccount, TypeInv, DataTyped
  <2>8. Abstract!Save(c)
    BY <1>0, <2>3, <2>5, <2>6, <2>7 DEF Abstract!Save, There
  <2> QED
    BY <2>8 DEF Abstract!Next
<1> QED
  BY <1>1, <1>2, <1>3

\* The steps that delete nothing.
LEMMA IdleErasure ==
  ASSUME Inv, NEW c \in Calls,
         \/ SnapsFiles(c) \/ PurgeFind(c) \/ (PurgeUser(c) /\ ~calls[c].found)
  PROVE  UNCHANGED (Abstract!vars)
<1> USE DEF Inv
<1>1. PICK stage \in {"files", "seen", "done"} : Moves(c, stage, {})
  BY SnapsMoves, PurgeFindMoves, PurgeUserMoves
<1>2. /\ calls[c].op # "deactivate" /\ calls[c].stage # "failed" /\ UNCHANGED row
  BY DEF SnapsFiles, PurgeFind, PurgeUser, At
<1>3. UNCHANGED <<client, saga>> /\ There' = There
  BY HandlerClient, HandlerData DEF Handle, TypeInv
<1>4. Owes' = Owes
  BY <1>1, <1>2, MovesOweSame
<1>5. Copies' = Copies
  BY <1>1, <1>2, <1>3, MovesCopies, CopiesStay DEF Deactivating, client
<1> QED
  BY <1>2, <1>3, <1>4, <1>5, ToldStays DEF Abstract!vars, row, There

\* The steps that delete data.
LEMMA EraseErasure ==
  ASSUME Inv, NEW c \in Calls, NEW D \in SUBSET Left(Snaps, Kinds, TRUE),
         NEW stage, Moves(c, stage, D), stage # "failed", calls[c].op # "deactivate",
         calls[c].stage # "failed", There' = There \ D, UNCHANGED <<row, saving, saga>>
  PROVE  Abstract!Next
<1> USE DEF Inv
<1>1. closed
  BY DEF Moves, CallInv, Owing, Follows
<1>2. Owes' = [d \in Calls |-> IF Owes[d] = None THEN None ELSE Owes[d] \ D]
  BY MovesOweLess
<1>3. Copies' = Copies
  BY MovesCopies, CopiesStay DEF Deactivating
<1>4. Abstract!Deleted(D)
  BY <1>2 DEF Abstract!Deleted
<1>5. Abstract!Erase
  BY <1>1, <1>3, <1>4, ToldStays DEF Abstract!Erase, There, row
<1> QED
  BY <1>5 DEF Abstract!Next

\* The last step takes the row.
LEMMA RemoveErasure ==
  ASSUME Inv, NEW c \in Calls, DeleteCredentials(c)
  PROVE  Abstract!Next
<1> USE DEF Inv
<1>1. Moves(c, "done", {Credential})
  BY CredentialsMoves
<1>2. /\ calls[c] # None /\ calls[c].op = "credentials" /\ calls[c].stage = "sent"
      /\ SetAccount("gone") /\ UNCHANGED saving /\ UNCHANGED saga
  BY DEF DeleteCredentials, At, client
<1>3. There' = There
  BY HandlerData DEF TypeInv
<1>4. calls[c].owes \subseteq {Credential} /\ closed /\ calls[c].owes \in SUBSET Items
  BY <1>2, CredentialsOwe DEF CallInv, Owing, Follows, TypeInv, Linked, Call
<1>5. Owes[c] = calls[c].owes /\ calls[c].owes # None
  BY <1>2, <1>4, AsFunctions, SetIsNotNone DEF OweOf
<1>6. Owes' = [d \in Calls |-> IF Owes[d] = None THEN None ELSE Owes[d] \ {Credential}]
  BY <1>1, <1>2, MovesOweLess
<1>7. Copies' = Copies
  BY <1>1, <1>2, MovesCopies, CopiesStay DEF Deactivating
<1>8. account' = "gone" /\ closed' = closed
  BY <1>2, <1>4 DEF SetAccount, TypeInv, DataTyped
<1>9. Abstract!Remove(c)
  BY <1>2, <1>3, <1>4, <1>5, <1>6, <1>7, <1>8, ToldStays
  DEF Abstract!Remove, Abstract!Deleted, There
<1> QED
  BY <1>9 DEF Abstract!Next

\* A call that fails, or is forgotten, gives up what it owes, and its copy.
LEMMA GiveUpErasure ==
  ASSUME Inv, NEW c \in Calls, Fail(c) \/ Discard(c)
  PROVE  Abstract!Next \/ UNCHANGED (Abstract!vars)
<1> USE DEF Inv
<1>1. UNCHANGED <<row, client, data, saga>> /\ calls[c] # None
  BY DEF Fail, Discard
<1>2. /\ Told' = Told /\ There' = There /\ UNCHANGED <<account, closed, saving>>
  BY <1>1, ToldStays DEF row, client, data, There
<1>3. CASE Fail(c)
  <2>1. Moves(c, "failed", {}) /\ calls[c].stage # "failed"
    BY <1>3, FailMoves DEF Fail, Over
  <2>2. CASE calls[c].op = "deactivate"
    <3>1. Owes' = Owes
      BY <2>1, <2>2, MovesOweSame
    <3>2. (CopyOf(c))' = None
      BY <1>2, <2>1, MovesCopies
    <3>3. Copies' = [Copies EXCEPT ![c] = None]
      BY <1>2, <2>1, <3>2, MovesCopies, CopiesChange
    <3>4. Abstract!Drop(c)
      BY <1>2, <3>1, <3>3 DEF Abstract!Drop, There
    <3> QED
      BY <3>4 DEF Abstract!Next
  <2>3. CASE calls[c].op # "deactivate"
    <3>1. Copies' = Copies
      BY <1>2, <2>1, <2>3, MovesCopies, CopiesStay DEF Deactivating
    <3>2. (OweOf(c))' = None
      BY <2>1, MovesOwes
    <3>3. \A d \in Calls : d # c => (OweOf(d))' = OweOf(d)
      <4>1. ASSUME NEW d \in Calls, d # c PROVE (OweOf(d))' = OweOf(d)
        <5>1. (OweOf(d))' = IF OweOf(d) = None THEN None ELSE OweOf(d) \ {}
          BY <2>1, <4>1, MovesOwes
        <5>2. OweOf(d) # None => OweOf(d) \ {} = OweOf(d)
          BY OweIsSet
        <5> QED
          BY <5>1, <5>2
      <4> QED
        BY <4>1
    <3>4. Owes' = [Owes EXCEPT ![c] = None]
      BY <3>2, <3>3, OwesChange
    <3>5. Abstract!GiveUp(c)
      BY <1>2, <3>1, <3>4 DEF Abstract!GiveUp, There
    <3> QED
      BY <3>5 DEF Abstract!Next
  <2> QED
    BY <2>2, <2>3
<1>4. CASE Discard(c)
  <2>1. \A d \in Calls : calls'[d] = IF d = c THEN None ELSE calls[d]
    BY <1>4, DiscardLinked DEF TypeInv
  <2>2. calls[c].stage \in Over
    BY <1>4 DEF Discard
  <2>3. Copies' = Copies
    <3>1. ASSUME NEW k \in Calls PROVE Deactivating(k)' <=> Deactivating(k)
      BY <2>1, <2>2 DEF Deactivating, Over
    <3>2. ASSUME NEW k \in Savers \cup Calls PROVE (CopyOf(k))' = CopyOf(k)
      BY <1>2, <3>1 DEF CopyOf
    <3> QED
      BY <3>2, CopiesStay
  <2>4. (OweOf(c))' = None /\ \A d \in Calls : d # c => (OweOf(d))' = OweOf(d)
    BY <2>1 DEF OweOf
  <2>5. Owes' = [Owes EXCEPT ![c] = None]
    BY <2>4, OwesChange
  <2>6. Abstract!GiveUp(c)
    BY <1>2, <2>3, <2>5 DEF Abstract!GiveUp, There
  <2> QED
    BY <2>6 DEF Abstract!Next
<1> QED
  BY <1>3, <1>4

\* Every handler.
LEMMA HandlerErasure ==
  ASSUME Inv, NEW c \in Calls, Handle(c) \/ Fail(c) \/ Discard(c)
  PROVE  Abstract!Next \/ UNCHANGED (Abstract!vars)
<1> USE DEF Inv
<1>0. UNCHANGED <<saving, saga>>
  BY HandlerClient DEF client
<1>1. CASE DeactivateFind(c) \/ DeactivateSelect(c) \/ DeactivateWrite(c)
  BY <1>1, DeactivateErasure
<1>2. CASE \/ SnapsFiles(c) \/ PurgeFind(c) \/ (PurgeUser(c) /\ ~calls[c].found)
  BY <1>2, IdleErasure
<1>3. CASE SnapsDelete(c)
  <2>1. /\ Moves(c, "done", Left(Snaps, {}, FALSE))
        /\ There' = There \ Left(Snaps, {}, FALSE)
    BY <1>3, SnapsMoves, HandlerData DEF TypeInv
  <2>2. UNCHANGED row /\ calls[c].op # "deactivate" /\ calls[c].stage # "failed"
    BY <1>3 DEF SnapsDelete, At
  <2>3. Left(Snaps, {}, FALSE) \in SUBSET Left(Snaps, Kinds, TRUE)
    BY DEF Left
  <2> QED
    BY <1>0, <2>1, <2>2, <2>3, EraseErasure
<1>4. ASSUME NEW kind \in Kinds, PurgeRecords(c, kind)
      PROVE  Abstract!Next
  <2>1. /\ Moves(c, NextKind(kind), Left({}, {kind}, FALSE)) /\ NextKind(kind) # "failed"
        /\ There' = There \ Left({}, {kind}, FALSE)
    BY <1>4, PurgeRecordsMoves, HandlerData DEF TypeInv
  <2>2. UNCHANGED row /\ calls[c].op # "deactivate" /\ calls[c].stage # "failed"
    BY <1>4 DEF PurgeRecords, At, Kinds
  <2>3. Left({}, {kind}, FALSE) \in SUBSET Left(Snaps, Kinds, TRUE)
    BY DEF Left
  <2> QED
    BY <1>0, <2>1, <2>2, <2>3, EraseErasure
<1>5. CASE PurgeUser(c) /\ calls[c].found
  <2>1. /\ Moves(c, "done", Left({}, {"settings"}, TRUE))
        /\ There' = There \ Left({}, {"settings"}, TRUE)
    BY <1>5, PurgeUserMoves, HandlerData DEF TypeInv
  <2>2. UNCHANGED row /\ calls[c].op # "deactivate" /\ calls[c].stage # "failed"
    BY <1>5 DEF PurgeUser, At
  <2>3. Left({}, {"settings"}, TRUE) \in SUBSET Left(Snaps, Kinds, TRUE)
    BY DEF Left, Kinds
  <2> QED
    BY <1>0, <2>1, <2>2, <2>3, EraseErasure
<1>6. CASE DeleteCredentials(c)
  BY <1>6, RemoveErasure
<1>7. CASE Fail(c) \/ Discard(c)
  BY <1>7, GiveUpErasure
<1> QED
  BY <1>1, <1>2, <1>3, <1>4, <1>5, <1>6, <1>7 DEF Handle

\* What another request or a saver of the row does, or an event.
LEMMA OutsideErasure ==
  ASSUME Inv, Outside
  PROVE  Abstract!Next \/ UNCHANGED (Abstract!vars)
<1> USE DEF Inv
<1>0. UNCHANGED <<saga, calls>> /\ Told' = Told /\ There \subseteq There'
  BY OutsideKeeps, OutsideThere, ToldStays
<1>1. Owes' = Owes
  BY <1>0, OwesStay DEF OweOf
<1>2. \A k \in Calls : (CopyOf(k))' = CopyOf(k)
  BY <1>0, DeletionAssumption DEF CopyOf, Deactivating
<1>3. ASSUME NEW s \in Savers, NEW copy, Save(s, copy)
      PROVE  /\ \A k \in Savers \cup Calls : k # s => (CopyOf(k))' = CopyOf(k)
             /\ (CopyOf(s))' = IF copy = None THEN None ELSE copy.held
             /\ There' = There
  <2>1. saving' = [saving EXCEPT ![s] = copy] /\ UNCHANGED data
    BY <1>3 DEF Save
  <2>2. saving'[s] = copy /\ \A k \in Savers : k # s => saving'[k] = saving[k]
    BY <2>1 DEF TypeInv, DataTyped
  <2> QED
    BY <1>2, <2>1, <2>2 DEF CopyOf, There, data
<1>4. ASSUME NEW s \in Savers, ReadCredential(s)
      PROVE  Abstract!Next
  <2> DEFINE copy == [held |-> account, base |-> None]
  <2>1. Save(s, copy) /\ UNCHANGED row /\ account # "gone"
    BY <1>4 DEF ReadCredential
  <2>2. copy # None /\ copy.held = account
    <3>1. copy \in Copy
      BY <2>1 DEF Copy, TypeInv, DataTyped, Statuses
    <3> QED
      BY <3>1, NoneAssumption
  <2> HIDE DEF copy
  <2>3. /\ \A k \in Savers \cup Calls : k # s => (CopyOf(k))' = CopyOf(k)
        /\ (CopyOf(s))' = account /\ There' = There
    BY <1>3, <2>1, <2>2
  <2>4. Copies' = [Copies EXCEPT ![s] = account]
    BY <2>3, CopiesChange
  <2>5. Abstract!Read(s)
    BY <1>0, <1>1, <2>1, <2>3, <2>4 DEF Abstract!Read, row, There
  <2> QED
    BY <2>5 DEF Abstract!Next
<1>5. ASSUME NEW s \in Savers, SelectCredential(s)
      PROVE  UNCHANGED (Abstract!vars)
  <2> DEFINE copy == [saving[s] EXCEPT !.base = account]
  <2>1. Save(s, copy) /\ UNCHANGED row /\ saving[s] # None /\ saving[s] \in Copy
    BY <1>5 DEF SelectCredential, TypeInv, DataTyped
  <2>2. copy # None /\ copy.held = saving[s].held
    <3>1. copy \in Copy
      BY <2>1 DEF Copy, TypeInv, DataTyped, Statuses
    <3> QED
      BY <2>1, <3>1, NoneAssumption DEF Copy
  <2> HIDE DEF copy
  <2>3. /\ \A k \in Savers \cup Calls : k # s => (CopyOf(k))' = CopyOf(k)
        /\ (CopyOf(s))' = saving[s].held /\ There' = There
    BY <1>3, <2>1, <2>2
  <2>4. CopyOf(s) = saving[s].held
    BY <2>1 DEF CopyOf
  <2>5. Copies' = Copies
    BY <2>3, <2>4, CopiesStay
  <2> QED
    BY <1>0, <1>1, <2>1, <2>3, <2>5 DEF Abstract!vars, row, There
<1>6. ASSUME NEW s \in Savers, WriteCredential(s)
      PROVE  Abstract!Next
  <2>1. Save(s, None) /\ saving[s] # None
    BY <1>6 DEF WriteCredential
  <2>2. /\ saving[s].held \in {"active", "disabled"}
        /\ saving[s].base \in Statuses \cup {None}
        /\ SetAccount(Saved(saving[s].held, saving[s].base))
    BY <1>6, RowWrites
  <2>3. Saved(saving[s].held, saving[s].base) \in {account, saving[s].held}
    BY <2>2, SavedStatus DEF TypeInv, DataTyped
  <2>4. /\ account' \in {account, saving[s].held}
        /\ closed' = (closed \/ account' # "active")
    BY <2>2, <2>3 DEF SetAccount
  <2>5. /\ \A k \in Savers \cup Calls : k # s => (CopyOf(k))' = CopyOf(k)
        /\ (CopyOf(s))' = None /\ There' = There
    BY <1>3, <2>1
  <2>6. Copies' = [Copies EXCEPT ![s] = None]
    BY <2>5, CopiesChange
  <2>7. Copies[s] = saving[s].held /\ saving[s].held # None
    BY <2>1, <2>2, AsFunctions, NoneAssumption DEF CopyOf, Statuses
  <2>8. Abstract!Save(s)
    BY <1>0, <1>1, <2>4, <2>5, <2>6, <2>7 DEF Abstract!Save, There
  <2> QED
    BY <2>8 DEF Abstract!Next
<1>7. ASSUME NEW s \in Savers, LeaveCredential(s)
      PROVE  Abstract!Next
  <2>1. Save(s, None) /\ UNCHANGED row
    BY <1>7 DEF LeaveCredential
  <2>2. /\ \A k \in Savers \cup Calls : k # s => (CopyOf(k))' = CopyOf(k)
        /\ (CopyOf(s))' = None /\ There' = There
    BY <1>3, <2>1
  <2>3. Copies' = [Copies EXCEPT ![s] = None]
    BY <2>2, CopiesChange
  <2>4. Abstract!Drop(s)
    BY <1>0, <1>1, <2>1, <2>2, <2>3 DEF Abstract!Drop, row, There
  <2> QED
    BY <2>4 DEF Abstract!Next
<1>8. ASSUME UNCHANGED <<row, saving>>, Next
      PROVE  Abstract!Next
  <2>1. Copies' = Copies
    <3>1. ASSUME NEW k \in Savers PROVE (CopyOf(k))' = CopyOf(k)
      BY <1>8 DEF CopyOf
    <3> QED
      BY <1>2, <3>1, CopiesStay
  <2>2. There' \in SUBSET Left(Snaps, Kinds, TRUE)
    BY <1>8, DataStep DEF There, Left
  <2>3. Abstract!Write
    BY <1>0, <1>1, <1>8, <2>1, <2>2 DEF Abstract!Write, row, There
  <2> QED
    BY <2>3 DEF Abstract!Next
<1>9. CASE ~\E s \in Savers : \/ ReadCredential(s) \/ SelectCredential(s)
                              \/ WriteCredential(s) \/ LeaveCredential(s)
  <2>1. ASSUME NEW r \in Requests,
               Request(r) \/ PostSnap(r) \/ PutRecord(r) \/ SaveProfile(r) \/ EndRequest(r)
        PROVE  UNCHANGED <<row, saving>>
    BY <2>1 DEF Request, PostSnap, PutRecord, SaveProfile, EndRequest
  <2>2. ASSUME DeliverSignup \/ SignupOver \/ Expire \/ RefreshToken \/ GenerateTokens
        PROVE  UNCHANGED <<row, saving>>
    BY <2>2 DEF DeliverSignup, SignupOver, Expire, RefreshToken, GenerateTokens, client
  <2>3. UNCHANGED <<row, saving>>
    BY <1>9, <2>1, <2>2 DEF Outside
  <2> QED
    BY <1>8, <2>3 DEF Next
<1> QED
  BY <1>4, <1>5, <1>6, <1>7, <1>9

\* The orchestrator asks, goes on, and confirms.
LEMMA OrchestratorErasure ==
  ASSUME Inv, NEW a \in Attempts,
         Start(a, TRUE) \/ Start(a, FALSE) \/ Reply(a) \/ Timeout(a)
  PROVE  Abstract!Next \/ UNCHANGED (Abstract!vars)
<1> USE DEF Inv
<1>0. UNCHANGED <<account, closed, There, Kept, saving>>
  BY OrchestratorKeeps DEF Start, Reply, Timeout, client
<1>1. ASSUME \A b \in Attempts : b # a => saga'[b] = saga[b]
      PROVE  /\ saga'[a].step = "ok" => Told' = Told \cup {a}
             /\ saga'[a].step # "ok" => Told' = Told \ {a}
             /\ saga'[a].step # "ok" /\ saga[a].step # "ok" => Told' = Told
  BY <1>1 DEF Told
<1>2. ASSUME \A d \in Calls : Deactivating(d)' <=> Deactivating(d)
      PROVE  Copies' = Copies
  <2>1. \A k \in Savers \cup Calls : (CopyOf(k))' = CopyOf(k)
    BY <1>0, <1>2 DEF CopyOf
  <2> QED
    BY <2>1, CopiesStay
<1>3. ASSUME NEW right \in BOOLEAN, Start(a, right)
      PROVE  Abstract!Next
  <2>1. PICK c \in Calls : /\ calls[c] = None /\ calls'[c] # None
                           /\ calls'[c].op = "deactivate" /\ calls'[c].stage = "sent"
                           /\ \A d \in Calls : d # c => calls'[d] = calls[d]
    BY <1>3, Starts
  <2>2. Copies' = Copies
    BY <1>2, <2>1 DEF Deactivating
  <2>3. Owes' = Owes
    BY <2>1, OwesStay DEF OweOf
  <2>4. Told' = Told \ {a}
    BY <1>1, <1>3, Starts
  <2>5. Abstract!AskAgain(a)
    BY <1>0, <2>2, <2>3, <2>4 DEF Abstract!AskAgain, There
  <2> QED
    BY <2>5 DEF Abstract!Next
<1>4. CASE Reply(a)
  <2>1. PICK c \in Calls : /\ c = saga[a].call /\ calls[c] # None
                           /\ Goes(a, c) \/ Ends(a, c)
    BY <1>4, Replies
  <2>2. /\ saga[a].step # "ok" /\ Owing(calls[c]) /\ calls[c] \in Call
        /\ \A b \in Attempts : b # a => saga'[b] = saga[b]
    BY <1>4, <2>1, Replies DEF CallInv, TypeInv, Linked
  <2>3. CASE Goes(a, c)
    <3>1. /\ calls'[c] # None /\ calls'[c].op # "deactivate" /\ calls'[c].stage = "sent"
          /\ calls'[c].owes = Owed(c) /\ calls[c].stage = "done"
          /\ \A d \in Calls : d # c => calls'[d] = calls[d]
      <4>1. calls[c].op \in Steps
        BY <2>2 DEF Call
      <4>2. After(calls[c].op) # "deactivate"
        BY <4>1 DEF After, Steps
      <4> QED
        BY <2>3, <4>2 DEF Goes
    <3>2. Copies' = Copies
      BY <1>2, <3>1 DEF Deactivating
    <3>3. Told' = Told
      BY <1>1, <2>2, <2>3 DEF Goes
    <3>4. (OweOf(c))' = Owed(c) /\ \A d \in Calls : d # c => (OweOf(d))' = OweOf(d)
      BY <3>1 DEF OweOf
    <3>5. CASE calls[c].op = "deactivate"
      <4>1. closed /\ Owed(c) = Kept /\ OweOf(c) = None
        BY <2>1, <2>2, <3>1, <3>5 DEF Owing, Follows, Owed, OweOf
      <4>2. Owes' = [Owes EXCEPT ![c] = Kept] /\ Owes[c] = None
        BY <3>4, <4>1, OwesChange, AsFunctions
      <4>3. Abstract!Ask(c)
        BY <1>0, <3>2, <3>3, <4>1, <4>2 DEF Abstract!Ask, There, Kept
      <4> QED
        BY <4>3 DEF Abstract!Next
    <3>6. CASE calls[c].op # "deactivate"
      <4>1. Owed(c) = calls[c].owes /\ OweOf(c) = calls[c].owes
        BY <2>1, <3>1, <3>6 DEF Owed, OweOf
      <4>2. Owes' = Owes
        BY <3>4, <4>1, OwesStay
      <4> QED
        BY <1>0, <3>2, <3>3, <4>2 DEF Abstract!vars, There
    <3> QED
      BY <3>5, <3>6
  <2>4. CASE Ends(a, c)
    <3>1. calls[c].stage \in Over /\ \A d \in Calls : calls'[d] = IF d = c THEN None ELSE calls[d]
      BY <2>4 DEF Ends, Over
    <3>2. Copies' = Copies
      BY <1>2, <3>1 DEF Deactivating, Over
    <3>3. (OweOf(c))' = None /\ \A d \in Calls : d # c => (OweOf(d))' = OweOf(d)
      BY <3>1 DEF OweOf
    <3>4. CASE saga'[a].step # "ok"
      <4>1. OweOf(c) = None
        BY <2>1, <2>4, <3>4 DEF Ends, OweOf
      <4>2. Owes' = Owes
        BY <3>3, <4>1, OwesStay
      <4>3. Told' = Told
        BY <1>1, <2>2, <3>4
      <4> QED
        BY <1>0, <3>2, <4>2, <4>3 DEF Abstract!vars, There
    <3>5. CASE saga'[a].step = "ok"
      <4>1. calls[c].op = "credentials" /\ calls[c].stage = "done"
        BY <2>4, <3>5 DEF Ends
      <4>2. OweOf(c) = {}
        BY <2>1, <2>2, <4>1 DEF OweOf, Owing, Good
      <4>3. Owes' = [Owes EXCEPT ![c] = None] /\ Owes[c] = {}
        BY <3>3, <4>2, OwesChange, AsFunctions
      <4>4. Told' = Told \cup {a}
        BY <1>1, <2>2, <3>5
      <4>5. Abstract!Confirm(c, a)
        BY <1>0, <3>2, <4>3, <4>4 DEF Abstract!Confirm, There
      <4> QED
        BY <4>5 DEF Abstract!Next
    <3> QED
      BY <3>4, <3>5
  <2> QED
    BY <2>1, <2>3, <2>4
<1>5. CASE Timeout(a)
  <2>1. UNCHANGED calls /\ Told' = Told
    BY <1>1, <1>5, TimesOut
  <2>2. Copies' = Copies /\ Owes' = Owes
    BY <1>2, <2>1, OwesStay DEF Deactivating, OweOf
  <2> QED
    BY <1>0, <2>1, <2>2 DEF Abstract!vars, There
<1> QED
  BY <1>3, <1>4, <1>5

LEMMA ErasureInit == Init => Abstract!Init
<1> SUFFICES ASSUME Init PROVE Abstract!Init
  OBVIOUS
<1>1. account = "active" /\ closed = FALSE /\ Told = {}
  BY DEF Init, Told
<1>2. Left(snaps, records, profile) \in SUBSET Left(Snaps, Kinds, TRUE)
  BY TypeInit DEF TypeInv, DataTyped, Left
<1>3. Owes = [c \in Calls |-> None]
  BY DEF Init, Owes
<1>4. Copies = [k \in Savers \cup Calls |-> None]
  BY DEF Init, Copies, Deactivating
<1> QED
  BY <1>1, <1>2, <1>3, <1>4 DEF Abstract!Init

\* However many attempts interleave, with failures, retries, calls that outlive their
\* callers, saves of a stale row, the client's other requests and the signup event, the
\* four services and the orchestrator implement Erasure.
THEOREM ImplementsErasureHolds == Spec => ImplementsErasure
<1>1. Inv /\ [Next]_vars => [Abstract!Next]_(Abstract!vars)
  <2> SUFFICES ASSUME Inv, [Next]_vars
               PROVE  Abstract!Next \/ UNCHANGED (Abstract!vars)
    OBVIOUS
  <2>1. CASE UNCHANGED vars
    <3>1. UNCHANGED <<account, closed, There, saving, calls, saga>>
      BY <2>1 DEF vars, row, data, client, There
    <3>2. Copies' = Copies /\ Owes' = Owes
      <4>1. \A k \in Savers \cup Calls : (CopyOf(k))' = CopyOf(k)
        BY <3>1 DEF CopyOf, Deactivating
      <4>2. \A c \in Calls : (OweOf(c))' = OweOf(c)
        BY <3>1 DEF OweOf
      <4> QED
        BY <4>1, <4>2, CopiesStay, OwesStay
    <3> QED
      BY <3>1, <3>2, ToldStays DEF Abstract!vars, There
  <2> QED
    BY <2>1, OrchestratorErasure, HandlerErasure, OutsideErasure DEF Next
<1> QED
  BY <1>1, ErasureInit, InvHolds, PTL DEF Spec, ImplementsErasure, Abstract!Spec

-------------------------------------------------------------------------------
\* What is erased stays erased.

\* A step keeps an account erased that nobody has a way left to write to.
LEMMA ErasedStaysErasedStep ==
  ASSUME TypeInv, [Next]_vars, account = "gone", Shut, ~event, Nothing
  PROVE  account' = "gone" /\ Shut' /\ Nothing'
<1>1. ASSUME NEW a \in Attempts,
             Start(a, TRUE) \/ Start(a, FALSE) \/ Reply(a) \/ Timeout(a)
      PROVE  account' = "gone" /\ Shut' /\ Nothing'
  <2>1. ~Start(a, TRUE) /\ ~Start(a, FALSE)
    BY DEF Start, Shut
  <2>2. UNCHANGED <<row, client, data>>
    BY <1>1 DEF Start, Reply, Timeout
  <2>3. \A c \in Calls : ~Deactivating(c)'
    <3>1. CASE Reply(a)
      <4>1. PICK c \in Calls : calls[c] # None /\ (Goes(a, c) \/ Ends(a, c))
        BY <3>1, Replies
      <4> QED
        BY <4>1 DEF Goes, Ends, Shut, Deactivating
    <3>2. CASE Timeout(a)
      BY <3>2, TimesOut DEF Shut, Deactivating
    <3> QED
      BY <1>1, <2>1, <3>1, <3>2
  <2> QED
    BY <2>2, <2>3 DEF row, client, data, Shut, Nothing
<1>2. ASSUME NEW c \in Calls, Handle(c) \/ Fail(c)
      PROVE  account' = "gone" /\ Shut' /\ Nothing'
  <2>1. ~DeactivateSelect(c) /\ ~DeactivateWrite(c)
    BY DEF DeactivateSelect, DeactivateWrite, At, Shut, Deactivating
  <2>2. \E stage, D : Moves(c, stage, D) /\
                      (stage \in {"save", "write"} => calls[c].op # "deactivate")
    <3>1. CASE DeactivateFind(c)
      BY <3>1, FindMoves
    <3>2. CASE SnapsFiles(c) \/ SnapsDelete(c)
      <4>1. \E stage \in {"files", "done"} : \E D : Moves(c, stage, D)
        BY <3>2, SnapsMoves
      <4> QED
        BY <4>1
    <3>3. CASE PurgeFind(c)
      BY <3>3, PurgeFindMoves
    <3>4. CASE \E kind \in Kinds : PurgeRecords(c, kind)
      <4>1. PICK kind \in Kinds : PurgeRecords(c, kind)
        BY <3>4
      <4> QED
        BY <4>1, PurgeRecordsMoves
    <3>5. CASE PurgeUser(c)
      <4>1. \E D : Moves(c, "done", D)
        BY <3>5, PurgeUserMoves
      <4> QED
        BY <4>1
    <3>6. CASE DeleteCredentials(c)
      BY <3>6, CredentialsMoves
    <3>7. CASE Fail(c)
      BY <3>7, FailMoves
    <3> QED
      BY <1>2, <2>1, <3>1, <3>2, <3>3, <3>4, <3>5, <3>6, <3>7 DEF Handle
  <2>3. ASSUME NEW d \in Calls PROVE ~Deactivating(d)'
    <3>1. PICK stage, D : /\ Moves(c, stage, D)
                          /\ stage \in {"save", "write"} => calls[c].op # "deactivate"
      BY <2>2
    <3>2. CASE d = c
      BY <3>1, <3>2 DEF Moves, Deactivating
    <3>3. CASE d # c
      BY <3>1, <3>3 DEF Moves, Thin, Deactivating, Shut
    <3> QED
      BY <3>2, <3>3
  <2>4. UNCHANGED client
    BY <1>2, HandlerClient
  <2>5. account' = "gone" /\ Nothing'
    <3>1. CASE SnapsDelete(c)
      BY <3>1 DEF SnapsDelete, row, Nothing
    <3>2. ASSUME NEW kind \in Kinds, PurgeRecords(c, kind)
          PROVE  account' = "gone" /\ Nothing'
      BY <3>2 DEF PurgeRecords, row, Nothing
    <3>3. CASE PurgeUser(c)
      BY <3>3 DEF PurgeUser, row, Nothing
    <3>4. CASE DeleteCredentials(c)
      BY <3>4 DEF DeleteCredentials, SetAccount, data, Nothing
    <3>5. CASE DeactivateFind(c) \/ SnapsFiles(c) \/ PurgeFind(c) \/ Fail(c)
      BY <3>5 DEF DeactivateFind, SnapsFiles, PurgeFind, Fail, row, data, Nothing
    <3> QED
      BY <1>2, <2>1, <3>1, <3>2, <3>3, <3>4, <3>5 DEF Handle
  <2> QED
    BY <2>3, <2>4, <2>5 DEF Shut, client
<1>3. ASSUME NEW c \in Calls, Discard(c)
      PROVE  account' = "gone" /\ Shut' /\ Nothing'
  <2>1. UNCHANGED <<row, client, data>>
    BY <1>3 DEF Discard
  <2>2. \A d \in Calls : ~Deactivating(d)'
    BY <1>3, DiscardLinked DEF TypeInv, Shut, Deactivating
  <2> QED
    BY <2>1, <2>2 DEF row, client, data, Shut, Nothing
<1>4. CASE Outside
  <2>1. \A r \in Requests :
          ~(Request(r) \/ PostSnap(r) \/ PutRecord(r) \/ SaveProfile(r) \/ EndRequest(r))
    BY NoneAssumption
    DEF Shut, Request, PostSnap, PutRecord, SaveProfile, EndRequest, Written
  <2>2. \A s \in Savers : \/ ~ReadCredential(s) /\ ~SelectCredential(s)
                             /\ ~WriteCredential(s) /\ ~LeaveCredential(s)
    BY DEF Shut, ReadCredential, SelectCredential, WriteCredential, LeaveCredential
  <2>3. ~(DeliverSignup \/ SignupOver \/ Expire \/ RefreshToken \/ GenerateTokens)
    BY DEF Shut, DeliverSignup, SignupOver, Expire, RefreshToken, GenerateTokens
  <2> QED
    BY <1>4, <2>1, <2>2, <2>3 DEF Outside
<1>5. CASE UNCHANGED vars
  BY <1>5 DEF vars, row, client, data, Shut, Nothing, Deactivating
<1> QED
  BY <1>1, <1>2, <1>3, <1>4, <1>5 DEF Next

\* Once the tokens of a deleted account are gone, and nobody is left who read its row,
\* what is erased stays erased, whatever late calls, refreshes, redelivered events and
\* other requests there were.
THEOREM ErasedStaysErasedHolds == Spec => ErasedStaysErased
<1>1. Inv /\ [Next]_vars =>
        [account = "gone" /\ Shut /\ ~event /\ Nothing =>
           account' = "gone" /\ Shut' /\ Nothing']_vars
  BY ErasedStaysErasedStep DEF Inv
<1> QED
  BY <1>1, InvHolds, PTL DEF Spec, ErasedStaysErased
===============================================================================
