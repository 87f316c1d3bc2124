------------------------ MODULE GearslothStoreProofs ------------------------
(***************************************************************************)
(* The pipeline over a sqlite database implements TaskStore: each of its   *)
(* steps is, for every task whose row id was given to no other task, a     *)
(* move of the abstract adapter.                                           *)
(*                                                                         *)
(* A row is named by its id.  As long as the id of a task's row was given  *)
(* to that task alone, BornInv says that whoever writes or deletes the row *)
(* means this task, and CountInv that whoever disables it has passed it on.*)
(***************************************************************************)
EXTENDS GearslothLossProofs

-----------------------------------------------------------------------------
(* Nothing is inserted that was not submitted.                             *)
SubmittedInv ==
  \A k \in Keys : request[k] = "idle" => \A id \in Ids : <<id, k>> \notin born

(* What a step makes of one task: its request moves, a runner is passed    *)
(* it, somebody executes it, or a statement changes the table.             *)
RequestMoves(k) ==
  /\ UNCHANGED <<table, born, handed, ran>>
  /\ \/ request[k] = "idle" /\ request'[k] = "queued"
     \/ request[k] = "queued" /\ request'[k] = "failed"
     \/ request[k] = "inserted" /\ request'[k] \in {"acked", "queued"}

Inserted(k) ==
  /\ \E id \in Ids : Insert(k, id)
  /\ request[k] = "queued" /\ request'[k] = "inserted" /\ UNCHANGED <<handed, ran>>

Passed(k) ==
  /\ UNCHANGED <<table, born, request, ran>>
  /\ \E r \in Runners : \E s \in leased[r] : s.task.key = k
  /\ handed'[k] >= handed[k] /\ handed'[k] > 0

Executed(k) ==
  /\ UNCHANGED <<table, born, request, handed>>
  /\ \E e \in Execution : executing[e] > 0 /\ e.key = k
  /\ k \in ran'

Elsewhere(k) ==
  /\ request'[k] = request[k] /\ handed'[k] = handed[k] /\ (k \in ran' <=> k \in ran)

LEMMA InjectorCases ==
  ASSUME TypeOK, NEW q \in Keys,
         InjectorDoes(\/ Request(q) \/ Reject(q) \/ Inject(q) \/ Acknowledge(q)
                      \/ InjectError(q) \/ InjectorCrash(q)),
         NEW k \in Keys
  PROVE  RequestMoves(k) \/ Inserted(k) \/ Elsewhere(k)
<1>1. request \in [Keys -> RequestState] /\ UNCHANGED <<handed, ran>>
  BY DEF TypeOK, InjectorTypeOK, InjectorDoes, runnerVars, controllerVars
<1>2. CASE q = k
  <2>1. CASE Inject(q)
    BY <1>1, <1>2, <2>1 DEF Inject, Moves, Inserted
  <2>2. CASE Request(q) \/ Reject(q) \/ Acknowledge(q) \/ InjectError(q) \/ InjectorCrash(q)
    BY <1>1, <1>2, <2>2 DEF Request, Reject, Acknowledge, InjectError, InjectorCrash, Moves,
                            RequestMoves, sqliteVars
  <2>3. QED  BY <2>1, <2>2 DEF InjectorDoes
<1>3. CASE q # k
  <2>1. request'[k] = request[k]
    BY <1>1, <1>3 DEF InjectorDoes, Request, Reject, Inject, Acknowledge, InjectError,
                      InjectorCrash, Moves
  <2>2. QED  BY <1>1, <2>1 DEF Elsewhere
<1>4. QED  BY <1>2, <1>3

LEMMA DeliverCases ==
  ASSUME TypeOK, NEW r \in Runners, NEW s \in leased[r], Deliver(r, s),
         UNCHANGED <<request, controllerVars>>, NEW k \in Keys
  PROVE  Passed(k) \/ Elsewhere(k)
<1>1. /\ handed \in [Keys -> Nat] /\ s \in Snapshot
      /\ UNCHANGED <<table, born, request, ran>>
  BY DEF TypeOK, RunnerTypeOK, SqliteTypeOK, Deliver, controllerVars
<1>2. \/ handed' = handed
      \/ handed' = [handed EXCEPT ![s.task.key] = @ + 1]
  BY DEF Deliver
<1>3. CASE handed'[k] = handed[k]
  BY <1>1, <1>3 DEF Elsewhere
<1>4. CASE handed'[k] # handed[k]
  <2>1. s.task.key = k /\ handed'[k] = handed[k] + 1
    BY <1>1, <1>2, <1>4
  <2>2. handed'[k] >= handed[k] /\ handed'[k] > 0
    BY <1>1, <2>1
  <2>3. QED  BY <1>1, <2>1, <2>2 DEF Passed
<1>5. QED  BY <1>3, <1>4

LEMMA ControllerCases ==
  ASSUME TypeOK, ControllerStep, NEW k \in Keys
  PROVE  Executed(k) \/ Elsewhere(k)
<1>1. UNCHANGED <<table, born, request, handed>>
  BY DEF ControllerStep, ControllerDoes, sqliteVars, runnerVars
<1>2. CASE k \in ran <=> k \in ran'
  BY <1>1, <1>2 DEF Elsewhere
<1>3. ASSUME k \in ran', k \notin ran
      PROVE  \E e \in Execution : executing[e] > 0 /\ e.key = k
  <2>1. ASSUME NEW j \in Job, Receive(j) \/ ReceiveUnconnected(j)  PROVE FALSE
    BY <1>3, <2>1 DEF Receive, ReceiveUnconnected, controllerVars
  <2>2. ASSUME NEW e \in Execution,
               WorkComplete(e) \/ WorkFail(e) \/ WorkFailUnconnected(e) \/ LoseExecution(e)
        PROVE  executing[e] > 0 /\ e.key = k
    BY <1>3, <2>2 DEF WorkComplete, WorkFail, WorkFailUnconnected, LoseExecution
  <2>3. ASSUME ControllerCrash
        PROVE  \E e \in Execution : executing[e] > 0 /\ e.key = k
    BY <1>3, <2>3 DEF ControllerCrash
  <2>4. QED  BY <2>1, <2>2, <2>3 DEF ControllerStep, ControllerDoes
<1>4. ran \subseteq ran'
  BY DEF ControllerStep, ControllerDoes, Receive, ReceiveUnconnected, WorkComplete, WorkFail,
         WorkFailUnconnected, LoseExecution, ControllerCrash, controllerVars
<1>5. QED  BY <1>1, <1>2, <1>3, <1>4 DEF Executed

LEMMA StepCases ==
  ASSUME TypeOK, [Next]_vars, NEW k \in Keys
  PROVE  RequestMoves(k) \/ Inserted(k) \/ Passed(k) \/ Executed(k) \/ Elsewhere(k)
<1>1. CASE UNCHANGED vars
  BY <1>1 DEF vars, runnerVars, controllerVars, Elsewhere
<1>2. CASE InjectorStep
  BY <1>2, InjectorCases DEF InjectorStep
<1>3. CASE RunnerStep
  <2>1. UNCHANGED <<request, controllerVars>>
    BY <1>3 DEF RunnerStep, RunnerDoes
  <2>2. UNCHANGED handed \/ \E r \in Runners : \E s \in leased[r] : Deliver(r, s)
    BY <1>3 DEF RunnerStep, RunnerDoes, runnerVars, Connect, LoseServers, Closed, Poll,
                PollError, LeaseRow, LeaseRowError, DeliverTask, ApplyWrite, WriteError,
                RunnerCrash
  <2>3. CASE UNCHANGED handed
    BY <2>1, <2>3 DEF controllerVars, Elsewhere
  <2>4. QED  BY <2>1, <2>2, <2>3, DeliverCases
<1>4. CASE ControllerStep
  BY <1>4, ControllerCases
<1>5. CASE EjectorStep \/ TimeStep \/ ServerStep
  BY <1>5 DEF EjectorStep, EjectorDoes, TimeStep, TimeDoes, ServerStep, ServerDoes,
              runnerVars, controllerVars, Elsewhere
<1>6. QED  BY <1>1, <1>2, <1>3, <1>4, <1>5 DEF Next

LEMMA SubmittedStep ==
  ASSUME TypeOK, SubmittedInv, [Next]_vars
  PROVE  SubmittedInv'
<1> SUFFICES ASSUME NEW k \in Keys, request'[k] = "idle", NEW id \in Ids
             PROVE  <<id, k>> \notin born'
  BY DEF SubmittedInv
<1>1. request[k] = "idle"
  BY StepCases DEF RequestMoves, Inserted, Passed, Executed, Elsewhere
<1>2. born' = born \/ \E q \in Keys, i \in Ids : /\ born' = born \cup {<<i, q>>}
                                               /\ request'[q] = "inserted"
  <2>1. request \in [Keys -> RequestState]
    BY DEF TypeOK, InjectorTypeOK
  <2>2. QED
    BY <2>1, StepIsStatement
       DEF StatementStep, Insert, Moves, Lease, Update, Disable, Delete, Expire
<1>3. QED  BY <1>1, <1>2 DEF SubmittedInv

LEMMA SubmittedHolds == Spec => []SubmittedInv
<1>1. Init => SubmittedInv
  BY DEF Init, SqliteInit, SubmittedInv
<1>2. TypeOK /\ SubmittedInv /\ [Next]_vars => SubmittedInv'
  BY SubmittedStep
<1>3. QED  BY <1>1, <1>2, TypeCorrect, PTL DEF Spec

-----------------------------------------------------------------------------
(* The rows of a task.                                                     *)
Of(k, row) == row.task.key = k

(* A step leaves them as they are, as far as TaskStore sees them.          *)
SameRows(k) ==
  /\ \A row \in table : Of(k, row) =>
       \E next \in table' : Of(k, next) /\ next.disabled = row.disabled
  /\ \A next \in table' : Of(k, next) =>
       \E row \in table : Of(k, row) /\ next.disabled = row.disabled

Waits(k) == \E row \in table : Of(k, row) /\ ~row.disabled

LEMMA RowOfIs ==
  ASSUME NEW k \in Keys
  PROVE  /\ RowOf(k) = IF Waits(k) THEN "waiting" ELSE IF Stored(k) THEN "retired" ELSE "absent"
         /\ RowOf(k)' = IF Waits(k)' THEN "waiting"
                        ELSE IF Stored(k)' THEN "retired" ELSE "absent"
BY DEF RowOf, Waits, Stored, Of

LEMMA SameRowOf ==
  ASSUME NEW k \in Keys, SameRows(k)
  PROVE  RowOf(k)' = RowOf(k)
<1>1. Stored(k)' <=> Stored(k)
  BY DEF SameRows, Stored, Of
<1>2. Waits(k)' <=> Waits(k)
  BY DEF SameRows, Waits
<1>3. QED  BY <1>1, <1>2, RowOfIs

(* A task whose row id was given to no other task has its rows to itself.  *)
LEMMA OwnRows ==
  ASSUME TypeOK, BornInv, NEW k \in Keys, ~IdReused(k), NEW id \in Ids, NEW q \in Keys,
         <<id, q>> \in born, NEW row \in table, row.id = id
  PROVE  Of(k, row) <=> q = k
<1>1. row.task.key \in Keys /\ <<id, row.task.key>> \in born
  BY DEF TypeOK, SqliteTypeOK, Row, Task, BornInv
<1>2. QED  BY <1>1, NamedTwice DEF Of

LEMMA LeasedSame ==
  ASSUME TypeOK, NEW k \in Keys, NEW r \in Runners, NEW s \in fetched[r], Lease(r, s)
  PROVE  SameRows(k)
<1> DEFINE leasedRow(row) ==
      IF LeaseChanges(s, row) THEN [row EXCEPT !.at = LeaseExpiry] ELSE row
<1>1. \A row \in table : leasedRow(row).task = row.task /\ leasedRow(row).disabled = row.disabled
  BY DEF TypeOK, SqliteTypeOK, Row
<1>2. table' = table \/ table' = {leasedRow(row) : row \in table}
  BY DEF Lease
<1> HIDE DEF leasedRow
<1>3. QED  BY <1>1, <1>2 DEF SameRows, Of

LEMMA ExpiredSame ==
  ASSUME TypeOK, NEW k \in Keys, NEW id \in Ids, Expire(id)
  PROVE  SameRows(k)
<1> DEFINE expired(row) ==
      IF row.id = id /\ row.at = "later" THEN [row EXCEPT !.at = "due"] ELSE row
<1>1. \A row \in table : expired(row).task = row.task /\ expired(row).disabled = row.disabled
  BY DEF TypeOK, SqliteTypeOK, Row
<1>2. table' = {expired(row) : row \in table}
  BY DEF Expire
<1> HIDE DEF expired
<1>3. QED  BY <1>1, <1>2 DEF SameRows, Of

LEMMA UpdatedSame ==
  ASSUME TypeOK, BornInv, NEW k \in Keys, ~IdReused(k), NEW id \in Ids, NEW task \in Task,
         Update(id, task), Issued("update", id, task)
  PROVE  SameRows(k)
<1> DEFINE rewritten(row) ==
      IF row.id = id THEN [row EXCEPT !.task = task, !.at = RunnerRetryAt[task.key]] ELSE row
<1>1. \A row \in table :
        /\ rewritten(row).disabled = row.disabled
        /\ rewritten(row).task = IF row.id = id THEN task ELSE row.task
  BY DEF TypeOK, SqliteTypeOK, Row
<1>2. table' = {rewritten(row) : row \in table}
  BY DEF Update
<1>3. <<id, task.key>> \in born /\ task.key \in Keys
  BY IssuedBorn DEF Task
<1>4. \A row \in table : row.id = id => (Of(k, row) <=> task.key = k)
  BY <1>3, OwnRows
<1> HIDE DEF rewritten
<1>5. \A row \in table : Of(k, rewritten(row)) <=> Of(k, row)
  BY <1>1, <1>4 DEF Of
<1>6. QED  BY <1>1, <1>2, <1>5 DEF SameRows

(* A row that is disabled was passed on.                                   *)
LEMMA DisabledRetires ==
  ASSUME TypeOK, BornInv, CountInv, NEW k \in Keys, ~IdReused(k), NEW id \in Ids,
         NEW task \in Task, Disable(id, task), Issued("disable", id, task)
  PROVE  \/ RowOf(k)' = RowOf(k)
         \/ RowOf(k) = "waiting" /\ RowOf(k)' = "retired" /\ handed[k] > 0
<1> DEFINE rewritten(row) ==
      IF row.id = id THEN [row EXCEPT !.task = task, !.disabled = TRUE] ELSE row
<1>1. \A row \in table :
        /\ rewritten(row).disabled = (row.id = id \/ row.disabled)
        /\ rewritten(row).task = IF row.id = id THEN task ELSE row.task
  BY DEF TypeOK, SqliteTypeOK, Row
<1>2. table' = {rewritten(row) : row \in table}
  BY DEF Disable
<1>3. <<id, task.key>> \in born /\ task.key \in Keys
  BY IssuedBorn DEF Task
<1>4. \A row \in table : row.id = id => (Of(k, row) <=> task.key = k)
  BY <1>3, OwnRows
<1> HIDE DEF rewritten
<1>5. \A row \in table : Of(k, rewritten(row)) <=> Of(k, row)
  BY <1>1, <1>4 DEF Of
<1>6. Stored(k)' <=> Stored(k)
  BY <1>2, <1>5 DEF Stored, Of
<1>7. ASSUME Waits(k)'  PROVE Waits(k)
  <2>1. PICK next \in table' : Of(k, next) /\ ~next.disabled
    BY <1>7 DEF Waits
  <2>2. PICK row \in table : next = rewritten(row)
    BY <1>2, <2>1
  <2>3. Of(k, row) /\ ~row.disabled
    BY <1>1, <1>5, <2>1, <2>2, Zenon
  <2>4. QED  BY <2>3 DEF Waits
<1>8. Waits(k) => Stored(k)
  BY DEF Waits, Stored, Of
<1>9. ASSUME Waits(k), ~Waits(k)'  PROVE handed[k] > 0
  <2>1. PICK row \in table : Of(k, row) /\ ~row.disabled
    BY <1>9 DEF Waits
  <2>2. row.id = id
    <3>1. rewritten(row) \in table' /\ Of(k, rewritten(row))
      BY <1>2, <1>5, <2>1
    <3>2. QED  BY <1>1, <1>9, <2>1, <3>1 DEF Waits
  <2>3. task.key = k /\ RanOut(k)
    BY <1>4, <2>1, <2>2, IssuedCounted
  <2>4. handed[k] \in Nat /\ RunnerRetryCount[k] \in Count
    BY RunnerRetryCountAssumption DEF TypeOK, RunnerTypeOK
  <2>5. QED  BY <2>3, <2>4 DEF RanOut, Count, Unlimited
<1>10. QED  BY <1>6, <1>7, <1>8, <1>9, RowOfIs

(* A row that is deleted belongs to a task that was executed.              *)
LEMMA DeletedRan ==
  ASSUME TypeOK, BornInv, NEW k \in Keys, ~IdReused(k), NEW id \in Ids,
         Delete(id), ReportedDone(id)
  PROVE  \/ RowOf(k)' = RowOf(k)
         \/ k \in ran /\ RowOf(k)' \in {"absent", "retired"}
<1>1. PICK j \in Job : j.fn = "done" /\ j.id = id /\ jobs[j] > 0
  BY DEF ReportedDone
<1>2. <<id, j.key>> \in born /\ j.key \in ran /\ j.key \in Keys
  BY <1>1 DEF BornInv, Job
<1>3. table' = {row \in table : row.id # id}
  BY DEF Delete
<1>4. CASE j.key = k
  <2>1. Waits(k)' => Waits(k)
    BY <1>3 DEF Waits
  <2>2. QED  BY <1>2, <1>4, <2>1, RowOfIs
<1>5. CASE j.key # k
  <2>1. \A row \in table : Of(k, row) => row \in table'
    BY <1>2, <1>3, <1>5, OwnRows
  <2>2. SameRows(k)
    BY <1>3, <2>1 DEF SameRows
  <2>3. QED  BY <2>2, SameRowOf
<1>6. QED  BY <1>4, <1>5

LEMMA RowChanges ==
  ASSUME TypeOK, BornInv, CountInv, [Next]_vars, NEW k \in Keys, ~IdReused(k),
         request'[k] = request[k]
  PROVE  \/ RowOf(k)' = RowOf(k)
         \/ RowOf(k) = "waiting" /\ RowOf(k)' = "retired" /\ handed[k] > 0
         \/ k \in ran /\ RowOf(k)' \in {"absent", "retired"}
<1>1. CASE UNCHANGED <<table, claims, born>>
  BY <1>1 DEF RowOf, Stored
<1>2. ASSUME NEW q \in Keys, NEW id \in Ids, Insert(q, id), Moves(q, "queued", "inserted")
      PROVE  RowOf(k)' = RowOf(k)
  <2> DEFINE new == [id |-> id, task |-> NewTask(q), at |-> At[q], disabled |-> FALSE]
  <2>1. q # k
    BY <1>2 DEF Moves, TypeOK, InjectorTypeOK
  <2>2. ~Of(k, new)
    BY <2>1 DEF Of, NewTask
  <2>3. table' = table \cup {new}
    BY <1>2 DEF Insert
  <2> HIDE DEF new
  <2>4. SameRows(k)
    BY <2>2, <2>3 DEF SameRows
  <2>5. QED  BY <2>4, SameRowOf
<1>3. ASSUME NEW r \in Runners, NEW s \in fetched[r], Lease(r, s)
      PROVE  RowOf(k)' = RowOf(k)
  BY <1>3, LeasedSame, SameRowOf
<1>4. ASSUME NEW id \in Ids, NEW task \in Task, Update(id, task), Issued("update", id, task)
      PROVE  RowOf(k)' = RowOf(k)
  BY <1>4, UpdatedSame, SameRowOf
<1>5. ASSUME NEW id \in Ids, Expire(id)  PROVE RowOf(k)' = RowOf(k)
  BY <1>5, ExpiredSame, SameRowOf
<1>6. QED
  BY <1>1, <1>2, <1>3, <1>4, <1>5, DisabledRetires, DeletedRan, StepIsStatement
     DEF StatementStep

-----------------------------------------------------------------------------
(* The state TaskStore sees of a task.                                     *)
PhaseOf(k) ==
  CASE request[k] = "idle" -> "none"
    [] request[k] \in {"queued", "inserted"} -> "saving"
    [] OTHER -> "over"

AnswerOf(k) ==
  CASE request[k] = "acked" -> "complete"
    [] request[k] = "failed" -> "fail"
    [] OTHER -> "none"

St(k) == [phase |-> PhaseOf(k), answer |-> AnswerOf(k), row |-> RowOf(k),
          passed |-> handed[k] > 0 \/ k \in ran, done |-> k \in ran]

LEMMA StFields ==
  ASSUME NEW k \in Keys, NEW s, s = St(k)
  PROVE  /\ s \in Store!State
         /\ s.phase = PhaseOf(k) /\ s.answer = AnswerOf(k) /\ s.row = RowOf(k)
         /\ s.passed = (handed[k] > 0 \/ k \in ran) /\ s.done = (k \in ran)
<1> DEFINE p == PhaseOf(k)
           a == AnswerOf(k)
           r == RowOf(k)
           x == handed[k] > 0 \/ k \in ran
           y == k \in ran
<1>1. /\ p \in {"none", "saving", "over"} /\ a \in {"none", "complete", "fail"}
      /\ r \in {"absent", "waiting", "retired"} /\ x \in BOOLEAN /\ y \in BOOLEAN
  BY DEF PhaseOf, AnswerOf, RowOf
<1>2. s = [phase |-> p, answer |-> a, row |-> r, passed |-> x, done |-> y]
  BY DEF St
<1> HIDE DEF p, a, r, x, y
<1>3. /\ s \in Store!State /\ s.phase = p /\ s.answer = a /\ s.row = r
      /\ s.passed = x /\ s.done = y
  BY <1>1, <1>2 DEF Store!State
<1>4. QED  BY <1>3 DEF p, a, r, x, y

LEMMA StFieldsNext ==
  ASSUME NEW k \in Keys, NEW n, n = St(k)'
  PROVE  /\ n \in Store!State
         /\ n.phase = PhaseOf(k)' /\ n.answer = AnswerOf(k)' /\ n.row = RowOf(k)'
         /\ n.passed = (handed'[k] > 0 \/ k \in ran') /\ n.done = (k \in ran')
<1> DEFINE p == PhaseOf(k)'
           a == AnswerOf(k)'
           r == RowOf(k)'
           x == handed'[k] > 0 \/ k \in ran'
           y == k \in ran'
<1>1. /\ p \in {"none", "saving", "over"} /\ a \in {"none", "complete", "fail"}
      /\ r \in {"absent", "waiting", "retired"} /\ x \in BOOLEAN /\ y \in BOOLEAN
  BY DEF PhaseOf, AnswerOf, RowOf
<1>2. n = [phase |-> p, answer |-> a, row |-> r, passed |-> x, done |-> y]
  BY DEF St
<1> HIDE DEF p, a, r, x, y
<1>3. /\ n \in Store!State /\ n.phase = p /\ n.answer = a /\ n.row = r
      /\ n.passed = x /\ n.done = y
  BY <1>1, <1>2 DEF Store!State
<1>4. QED  BY <1>3 DEF p, a, r, x, y

(* When a task has moved, told by the parts of its state.                   *)
LEMMA SaveMoves ==
  ASSUME NEW s \in Store!State, NEW n \in Store!State, n.passed = s.passed, n.done = s.done
  PROVE  /\ s.phase = "none" /\ n.phase = "saving" /\ n.answer = s.answer /\ n.row = s.row
            => Store!Call(s, n)
         /\ /\ s.phase = "saving" /\ n.phase = "saving" /\ n.answer = s.answer
            /\ n.row = "waiting"
            => Store!Store(s, n)
         /\ /\ s.phase = "saving" /\ n.phase = "over" /\ s.answer = "none"
            /\ n.answer = "complete" /\ n.row = s.row /\ (s.row # "absent" \/ s.done)
            => Store!Complete(s, n)
         /\ /\ s.phase = "saving" /\ n.phase = "over" /\ s.answer = "none"
            /\ n.answer = "fail" /\ n.row = s.row
            => Store!Fail(s, n)
<1> USE DEF Store!State, Store!Saving, Store!Told
<1>1. ASSUME s.phase = "none", n.phase = "saving", n.answer = s.answer, n.row = s.row
      PROVE  Store!Call(s, n)
  BY <1>1 DEF Store!Call
<1>2. ASSUME s.phase = "saving", n.phase = "saving", n.answer = s.answer, n.row = "waiting"
      PROVE  Store!Store(s, n)
  BY <1>2 DEF Store!Store
<1>3. ASSUME s.phase = "saving", n.phase = "over", s.answer = "none", n.answer = "complete",
             n.row = s.row, s.row # "absent" \/ s.done
      PROVE  Store!Complete(s, n)
  BY <1>3 DEF Store!Complete
<1>4. ASSUME s.phase = "saving", n.phase = "over", s.answer = "none", n.answer = "fail",
             n.row = s.row
      PROVE  Store!Fail(s, n)
  BY <1>4 DEF Store!Fail
<1>5. QED  BY <1>1, <1>2, <1>3, <1>4

LEMMA RowMoves ==
  ASSUME NEW s \in Store!State, NEW n \in Store!State, n.phase = s.phase, n.answer = s.answer
  PROVE  /\ n.row = s.row /\ n.passed = s.passed /\ n.done = s.done => n = s
         /\ s.phase # "none" /\ n.row = s.row /\ n.passed /\ (n.done = s.done \/ n.done)
            => Store!Pass(s, n)
         /\ /\ n.passed = s.passed /\ n.done = s.done
            /\ s.passed /\ s.row = "waiting" /\ n.row = "retired"
            => Store!Retire(s, n)
         /\ /\ n.passed = s.passed /\ n.done = s.done
            /\ s.done /\ n.row \in {"absent", "retired"}
            => Store!Remove(s, n)
<1> USE DEF Store!State
<1>1. ASSUME n.row = s.row, n.passed = s.passed, n.done = s.done  PROVE n = s
  BY <1>1
<1>2. ASSUME s.phase # "none", n.row = s.row, n.passed, n.done = s.done \/ n.done
      PROVE  Store!Pass(s, n)
  BY <1>2 DEF Store!Pass
<1>3. ASSUME n.passed = s.passed, n.done = s.done, s.passed, s.row = "waiting",
             n.row = "retired"
      PROVE  Store!Retire(s, n)
  BY <1>3 DEF Store!Retire
<1>4. ASSUME n.passed = s.passed, n.done = s.done, s.done, n.row \in {"absent", "retired"}
      PROVE  Store!Remove(s, n)
  BY <1>4 DEF Store!Remove
<1>5. QED  BY <1>1, <1>2, <1>3, <1>4

StoreInv == TypeOK /\ BornInv /\ CountInv /\ KeptInv /\ SubmittedInv

(* What somebody holds was submitted.                                      *)
LEMMA HeldIsSubmitted ==
  ASSUME StoreInv, NEW k \in Keys,
         \/ \E r \in Runners : \E s \in leased[r] : s.task.key = k
         \/ \E e \in Execution : executing[e] > 0 /\ e.key = k
  PROVE  request[k] # "idle"
<1>1. \E id \in Ids : <<id, k>> \in born
  <2>1. ASSUME NEW r \in Runners, NEW s \in leased[r], s.task.key = k
        PROVE  s.id \in Ids /\ <<s.id, k>> \in born
    BY <2>1 DEF StoreInv, TypeOK, SqliteTypeOK, Snapshot, BornInv
  <2>2. ASSUME NEW e \in Execution, executing[e] > 0, e.key = k
        PROVE  e.id \in Ids /\ <<e.id, k>> \in born
    BY <2>2 DEF StoreInv, BornInv, Execution
  <2>3. QED  BY <2>1, <2>2
<1>2. QED  BY <1>1 DEF StoreInv, SubmittedInv

LEMMA StoreMoves ==
  ASSUME StoreInv, [Next]_vars, NEW k \in Keys, ~IdReused(k)'
  PROVE  Store!Move(St(k), St(k)')
<1> SUFFICES ASSUME NEW s, s = St(k), NEW n, n = St(k)'  PROVE Store!Move(s, n)
  OBVIOUS
<1> USE DEF Store!Move
<1>1. /\ s \in Store!State
      /\ s.phase = PhaseOf(k) /\ s.answer = AnswerOf(k) /\ s.row = RowOf(k)
      /\ s.passed = (handed[k] > 0 \/ k \in ran) /\ s.done = (k \in ran)
  BY StFields
<1>2. /\ n \in Store!State
      /\ n.phase = PhaseOf(k)' /\ n.answer = AnswerOf(k)' /\ n.row = RowOf(k)'
      /\ n.passed = (handed'[k] > 0 \/ k \in ran') /\ n.done = (k \in ran')
  BY StFieldsNext
<1>3. ~IdReused(k)
  BY ReusedStays DEF StoreInv
<1>4. ASSUME request'[k] = request[k]  PROVE n.phase = s.phase /\ n.answer = s.answer
  BY <1>1, <1>2, <1>4 DEF PhaseOf, AnswerOf
<1>5. ASSUME UNCHANGED table  PROVE n.row = s.row
  BY <1>1, <1>2, <1>5 DEF RowOf, Stored
<1>6. CASE RequestMoves(k)
  <2>1. n.row = s.row /\ n.passed = s.passed /\ n.done = s.done
    BY <1>1, <1>2, <1>5, <1>6 DEF RequestMoves
  <2>2. CASE request[k] = "idle" /\ request'[k] = "queued"
    <3>1. s.phase = "none" /\ n.phase = "saving" /\ n.answer = s.answer
      BY <1>1, <1>2, <2>2 DEF PhaseOf, AnswerOf
    <3>2. QED  BY <1>1, <1>2, <2>1, <3>1, SaveMoves
  <2>3. CASE request[k] = "queued" /\ request'[k] = "failed"
    <3>1. s.phase = "saving" /\ n.phase = "over" /\ s.answer = "none" /\ n.answer = "fail"
      BY <1>1, <1>2, <2>3 DEF PhaseOf, AnswerOf
    <3>2. QED  BY <1>1, <1>2, <2>1, <3>1, SaveMoves
  <2>4. CASE request[k] = "inserted" /\ request'[k] = "acked"
    <3>1. /\ s.phase = "saving" /\ n.phase = "over" /\ s.answer = "none"
          /\ n.answer = "complete"
      BY <1>1, <1>2, <2>4 DEF PhaseOf, AnswerOf
    <3>2. s.row # "absent" \/ s.done
      <4>1. k \in ran \/ Stored(k)
        BY <1>3, <2>4 DEF StoreInv, KeptInv
      <4>2. QED  BY <1>1, <4>1 DEF RowOf
    <3>3. QED  BY <1>1, <1>2, <2>1, <3>1, <3>2, SaveMoves
  <2>5. CASE request[k] = "inserted" /\ request'[k] = "queued"
    <3>1. n.phase = s.phase /\ n.answer = s.answer
      BY <1>1, <1>2, <2>5 DEF PhaseOf, AnswerOf
    <3>2. QED  BY <1>1, <1>2, <2>1, <3>1, RowMoves
  <2>6. QED  BY <1>6, <2>2, <2>3, <2>4, <2>5 DEF RequestMoves
<1>7. CASE Inserted(k)
  <2>1. /\ s.phase = "saving" /\ n.phase = "saving" /\ n.answer = s.answer
        /\ n.passed = s.passed /\ n.done = s.done
    BY <1>1, <1>2, <1>7 DEF Inserted, PhaseOf, AnswerOf
  <2>2. Waits(k)'
    <3>1. PICK id \in Ids : Insert(k, id)
      BY <1>7 DEF Inserted
    <3> DEFINE new == [id |-> id, task |-> NewTask(k), at |-> At[k], disabled |-> FALSE]
    <3>2. new \in table' /\ Of(k, new) /\ ~new.disabled
      BY <3>1 DEF Insert, Of, NewTask
    <3> HIDE DEF new
    <3>3. QED  BY <3>2 DEF Waits, Of
  <2>3. n.row = "waiting"
    BY <1>2, <2>2, RowOfIs
  <2>4. QED  BY <1>1, <1>2, <2>1, <2>3, SaveMoves
<1>8. CASE Passed(k)
  <2>1. n.phase = s.phase /\ n.answer = s.answer /\ n.row = s.row /\ n.passed /\ n.done = s.done
    BY <1>1, <1>2, <1>4, <1>5, <1>8 DEF Passed
  <2>2. s.phase # "none"
    BY <1>1, <1>8, HeldIsSubmitted DEF Passed, PhaseOf
  <2>3. QED  BY <1>1, <1>2, <2>1, <2>2, RowMoves
<1>9. CASE Executed(k)
  <2>1. n.phase = s.phase /\ n.answer = s.answer /\ n.row = s.row /\ n.passed /\ n.done
    BY <1>1, <1>2, <1>4, <1>5, <1>9 DEF Executed
  <2>2. s.phase # "none"
    BY <1>1, <1>9, HeldIsSubmitted DEF Executed, PhaseOf
  <2>3. QED  BY <1>1, <1>2, <2>1, <2>2, RowMoves
<1>10. CASE Elsewhere(k)
  <2>1. n.phase = s.phase /\ n.answer = s.answer
    BY <1>4, <1>10 DEF Elsewhere
  <2>2. n.passed = s.passed /\ n.done = s.done
    BY <1>1, <1>2, <1>10 DEF Elsewhere
  <2>3. \/ n.row = s.row
        \/ s.row = "waiting" /\ n.row = "retired" /\ s.passed
        \/ s.done /\ n.row \in {"absent", "retired"}
    BY <1>1, <1>2, <1>3, <1>10, RowChanges DEF Elsewhere, StoreInv
  <2>4. QED  BY <1>1, <1>2, <2>1, <2>2, <2>3, RowMoves
<1>11. QED  BY <1>6, <1>7, <1>8, <1>9, <1>10, StepCases DEF StoreInv

LEMMA StoreInit == Init => Store!Init
<1> SUFFICES ASSUME Init  PROVE Store!Init
  OBVIOUS
<1>1. ASSUME NEW k \in Keys  PROVE St(k) = Store!New
  <2>1. PhaseOf(k) = "none" /\ RowOf(k) = "absent" /\ AnswerOf(k) = "none"
    BY DEF Init, InjectorInit, SqliteInit, PhaseOf, AnswerOf, RowOf, Stored
  <2>2. (handed[k] > 0 \/ k \in ran) = FALSE /\ (k \in ran) = FALSE
    BY DEF Init, RunnerInit, ControllerInit
  <2>3. QED  BY <2>1, <2>2, Zenon DEF St, Store!New
<1>2. {k \in Keys : IdReused(k)} = {}
  BY DEF Init, SqliteInit, IdReused, Reused
<1>3. QED  BY <1>1, <1>2, Zenon DEF Store!Init, St, PhaseOf, AnswerOf

(* Over a sqlite database the pipeline keeps what TaskStore promises of an *)
(* adapter, of every task whose row id was given to no other task.         *)
THEOREM PipelineImplementsStore == Spec => StoreImplemented
<1>1. StoreInv /\ [Next]_vars => Store!Next
  <2> SUFFICES ASSUME StoreInv, [Next]_vars  PROVE Store!Next
    OBVIOUS
  <2>1. \A k \in Keys : IdReused(k)' \/ Store!Move(St(k), St(k)')
    BY StoreMoves
  <2>2. \A k \in Keys : IdReused(k) => IdReused(k)'
    BY ReusedStays DEF StoreInv
  <2>3. QED  BY <2>1, <2>2 DEF Store!Next, St, PhaseOf, AnswerOf
<1>2. Spec => []StoreInv
  <2>1. Init => KeptInv
    BY DEF Init, InjectorInit, KeptInv
  <2>2. TypeOK /\ BornInv /\ KeptInv /\ [Next]_vars => KeptInv'
    BY KeptInvStep
  <2>3. QED
    BY <2>1, <2>2, TypeCorrect, BornInvHolds, CountInvHolds, SubmittedHolds, PTL
       DEF Spec, StoreInv
<1>3. QED  BY <1>1, <1>2, StoreInit, PTL DEF Spec, StoreImplemented, Store!Spec
=============================================================================
