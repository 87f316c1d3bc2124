--------------------------- MODULE GearslothProofs ---------------------------
(***************************************************************************)
(* Theorems about the pipeline, for all constants: its types, that an      *)
(* expiry is delivered once, and that a disabled task stays disabled.      *)
(***************************************************************************)
EXTENDS Gearsloth, TLAPS

-----------------------------------------------------------------------------
(* Type correctness of what the components do to the database.             *)

LEMMA DecrementedType ==
  ASSUME NEW task \in Task
  PROVE  /\ Decremented(task) \in Task
         /\ Decremented(task).key = task.key
BY DEF Task, Count, Unlimited, Decremented

LEMMA NewTaskType ==
  ASSUME NEW k \in Keys
  PROVE  NewTask(k) \in Task
BY RunnerRetryCountAssumption DEF NewTask, Task

LEMMA InsertType ==
  ASSUME SqliteTypeOK, NEW k \in Keys, NEW id \in Ids, Accepts(k), Insert(k, id)
  PROVE  SqliteTypeOK'
<1>1. [id |-> id, task |-> NewTask(k), at |-> At[k], disabled |-> FALSE] \in Row
  BY NewTaskType, AtAssumption DEF Accepts, Row
<1>2. table' \in SUBSET Row
  BY <1>1 DEF SqliteTypeOK, Insert
<1>3. born' \in SUBSET (Ids \X Keys)
  BY DEF SqliteTypeOK, Insert
<1>4. claims' \in [Ids -> Nat]
  BY DEF SqliteTypeOK, Insert
<1>5. QED  BY <1>2, <1>3, <1>4 DEF SqliteTypeOK, Insert

LEMMA PollType ==
  ASSUME SqliteTypeOK, NEW r \in Runners,
         \/ Listen(r) \/ Halt(r) \/ ForgetPolls(r)
         \/ /\ LiveRound(r) \/ HaltedRound(r)
            /\ Select(r) \/ SelectError(r)
  PROVE  SqliteTypeOK'
<1>1. CASE Listen(r)
  BY <1>1 DEF SqliteTypeOK, Listen
<1>2. CASE Halt(r)
  BY <1>2 DEF SqliteTypeOK, Halt
<1>3. CASE ForgetPolls(r)
  BY <1>3 DEF SqliteTypeOK, ForgetPolls
<1>4. ASSUME LiveRound(r) \/ HaltedRound(r), Select(r) \/ SelectError(r)
      PROVE  SqliteTypeOK'
  <2>1. stopped' \in [Runners -> Nat]
    BY <1>4 DEF SqliteTypeOK, LiveRound, HaltedRound
  <2>2. {[id |-> row.id, task |-> row.task] : row \in {x \in table : Due(x)}}
          \in SUBSET Snapshot
    BY DEF SqliteTypeOK, Row, Snapshot
  <2>3. fetched' \in [Runners -> SUBSET Snapshot]
    BY <1>4, <2>2 DEF SqliteTypeOK, Select, SelectError
  <2>4. QED  BY <1>4, <2>1, <2>3 DEF SqliteTypeOK, Select, SelectError
<1>5. QED  BY <1>1, <1>2, <1>3, <1>4

LEMMA LeaseType ==
  ASSUME SqliteTypeOK, NEW r \in Runners, NEW s \in fetched[r],
         Lease(r, s) \/ LeaseError(r, s)
  PROVE  SqliteTypeOK'
<1>1. s \in Snapshot
  BY DEF SqliteTypeOK
<1>2. CASE Lease(r, s)
  <2>1. table' \in SUBSET Row
    BY <1>2 DEF SqliteTypeOK, Lease, LeaseExpiry, Row, Expiry
  <2>2. fetched' \in [Runners -> SUBSET Snapshot]
    BY <1>2 DEF SqliteTypeOK, Lease
  <2>3. leased' \in [Runners -> SUBSET Snapshot]
    BY <1>1, <1>2 DEF SqliteTypeOK, Lease
  <2>4. claims' \in [Ids -> Nat]
    BY <1>1, <1>2 DEF SqliteTypeOK, Lease, Snapshot
  <2>5. QED  BY <1>2, <2>1, <2>2, <2>3, <2>4 DEF SqliteTypeOK, Lease
<1>3. CASE LeaseError(r, s)
  BY <1>3 DEF SqliteTypeOK, LeaseError
<1>4. QED  BY <1>2, <1>3

LEMMA StatementType ==
  ASSUME SqliteTypeOK, NEW id \in Ids, NEW task \in Task,
         Update(id, task) \/ Disable(id, task) \/ Delete(id) \/ Expire(id)
  PROVE  SqliteTypeOK'
<1>1. CASE Update(id, task)
  <2>1. RunnerRetryAt[task.key] \in Expiry
    BY RunnerRetryAtAssumption DEF Task
  <2>2. table' \in SUBSET Row
    BY ZenonT(60), <1>1, <2>1 DEF SqliteTypeOK, Update, Row
  <2>3. claims' \in [Ids -> Nat]
    BY <1>1 DEF SqliteTypeOK, Update
  <2>4. QED  BY <1>1, <2>2, <2>3 DEF SqliteTypeOK, Update
<1>2. CASE Disable(id, task)
  <2>1. table' \in SUBSET Row
    BY ZenonT(60), <1>2 DEF SqliteTypeOK, Disable, Row
  <2>2. QED  BY <1>2, <2>1 DEF SqliteTypeOK, Disable
<1>3. CASE Delete(id)
  BY <1>3 DEF SqliteTypeOK, Delete
<1>4. CASE Expire(id)
  BY <1>4 DEF SqliteTypeOK, Expire, Row, Expiry
<1>5. QED  BY <1>1, <1>2, <1>3, <1>4

-----------------------------------------------------------------------------
(* Type correctness of the components' steps.                              *)

LEMMA FaultType ==
  ASSUME TasksTypeOK, Fault \/ NoFault
  PROVE  TasksTypeOK'
BY BoundsAssumption DEF TasksTypeOK, Fault, NoFault

LEMMA JobsType ==
  ASSUME GearmanTypeOK, NEW j \in Job, Submit(j) \/ Take(j) \/ TakeUnanswered(j)
  PROVE  GearmanTypeOK'
BY DEF GearmanTypeOK, Submit, Take, TakeUnanswered

LEMMA InjectorType ==
  ASSUME TypeOK, InjectorStep
  PROVE  TypeOK'
<1>1. PICK k \in Keys : InjectorDoes(
        \/ Request(k) \/ Reject(k) \/ Inject(k) \/ Acknowledge(k)
        \/ InjectError(k) \/ InjectorCrash(k))
  BY DEF InjectorStep
<1>2. Fault \/ NoFault
  BY <1>1 DEF InjectorDoes, Request, Reject, Inject, Acknowledge, InjectError,
              InjectorCrash
<1>3. InjectorTypeOK'
  BY <1>1 DEF TypeOK, InjectorTypeOK, RequestState, Moves, InjectorDoes, Request,
              Reject, Inject, Acknowledge, InjectError, InjectorCrash
<1>4. SqliteTypeOK'
  <2>1. CASE Inject(k)
    BY <2>1, InsertType DEF TypeOK, Inject
  <2>2. CASE UNCHANGED sqliteVars
    BY <2>2 DEF TypeOK, SqliteTypeOK, sqliteVars
  <2>3. QED
    BY <1>1, <2>1, <2>2 DEF InjectorDoes, Request, Reject, Acknowledge,
                            InjectError, InjectorCrash
<1>5. QED
  BY <1>1, <1>2, <1>3, <1>4, FaultType
     DEF TypeOK, InjectorDoes, GearmanTypeOK, RunnerTypeOK, ControllerTypeOK,
         runnerVars, controllerVars

LEMMA StatementsType ==
  ASSUME NEW s \in Snapshot
  PROVE  StatementsFor(s) \in Seq(Write)
<1> DEFINE task == Decremented(s.task)
           write(op) == [op |-> op, id |-> s.id, task |-> task]
<1>1. task \in Task
  BY DecrementedType DEF Snapshot
<1>2. write("update") \in Write /\ write("disable") \in Write
  BY <1>1 DEF Write, Snapshot
<1>3. StatementsFor(s) = IF task.left = 0 THEN <<write("disable"), write("update")>>
                                         ELSE <<write("update")>>
  BY DEF StatementsFor
<1> HIDE DEF task, write
<1>4. QED  BY <1>2, <1>3

LEMMA RunnerType ==
  ASSUME TypeOK, RunnerStep
  PROVE  TypeOK'
<1>1. PICK r \in Runners : RunnerDoes(
        \/ Connect(r) \/ LoseServers(r) \/ Closed(r)
        \/ Poll(r) \/ PollError(r)
        \/ LeaseRow(r) \/ LeaseRowError(r) \/ DeliverTask(r)
        \/ ApplyWrite(r) \/ WriteError(r)
        \/ RunnerCrash(r))
  BY DEF RunnerStep
<1>2. UNCHANGED <<request, executing, ran>>
  BY <1>1 DEF RunnerDoes, controllerVars
<1>3. SUFFICES /\ Fault \/ NoFault
               /\ SqliteTypeOK' /\ GearmanTypeOK' /\ RunnerTypeOK'
  BY <1>2, FaultType DEF TypeOK, InjectorTypeOK, ControllerTypeOK
<1>4. /\ SqliteTypeOK /\ GearmanTypeOK /\ RunnerTypeOK
      /\ Len(writes[r]) \in Nat
  BY DEF TypeOK, RunnerTypeOK
<1>5. CASE Connect(r) \/ LoseServers(r) \/ Closed(r)
  <2>1. Fault \/ NoFault
    BY <1>5 DEF Connect, LoseServers, Closed
  <2>2. SqliteTypeOK'
    BY <1>4, <1>5, PollType DEF Connect, LoseServers, Closed
  <2>3. GearmanTypeOK' /\ RunnerTypeOK'
    BY <1>4, <1>5 DEF Connect, LoseServers, Closed, LinkMoves, TimerArmed,
                      GearmanTypeOK, RunnerTypeOK, LinkState
  <2>4. QED  BY <2>1, <2>2, <2>3
<1>6. CASE Poll(r) \/ PollError(r)
  <2>1. Fault \/ NoFault
    BY <1>6 DEF Poll, PollError
  <2>2. SqliteTypeOK'
    BY <1>4, <1>6, PollType DEF Poll, PollError, PollRound
  <2>3. earlier' \in [Runners -> Nat]
    BY <1>4, <1>6 DEF Poll, PollError, PollRound, TimerArmed, RunnerTypeOK
  <2>4. GearmanTypeOK' /\ RunnerTypeOK'
    BY <1>4, <1>6, <2>3 DEF Poll, PollError, DisconnectRunner, GearmanTypeOK,
                            RunnerTypeOK, LinkState
  <2>5. QED  BY <2>1, <2>2, <2>4
<1>7. CASE LeaseRow(r) \/ LeaseRowError(r)
  <2>1. Fault \/ NoFault
    BY <1>7 DEF LeaseRow, LeaseRowError
  <2>2. SqliteTypeOK'
    BY <1>4, <1>7, LeaseType DEF LeaseRow, LeaseRowError
  <2>3. GearmanTypeOK' /\ RunnerTypeOK'
    BY <1>4, <1>7 DEF LeaseRow, LeaseRowError, GearmanTypeOK, runnerVars,
                      RunnerTypeOK
  <2>4. QED  BY <2>1, <2>2, <2>3
<1>8. CASE DeliverTask(r)
  <2>1. PICK s \in leased[r] : Deliver(r, s)
    BY <1>8 DEF DeliverTask
  <2>2. s \in Snapshot
    BY <1>4 DEF SqliteTypeOK
  <2>3. Fault \/ NoFault
    BY <2>1 DEF Deliver
  <2>4. SqliteTypeOK'
    BY <1>4, <2>1 DEF Deliver, SqliteTypeOK
  <2>5. GearmanTypeOK'
    <3> DEFINE j == [fn |-> "controller", id |-> s.id, key |-> s.task.key]
    <3>1. j \in Job
      BY <2>2 DEF Job, Snapshot, Task
    <3>2. Submit(j) \/ UNCHANGED jobs
      BY <2>1 DEF Deliver
    <3> HIDE DEF j
    <3>3. QED  BY <1>4, <3>1, <3>2, JobsType DEF GearmanTypeOK
  <2>6. RunnerTypeOK'
    <3>1. s.task.key \in Keys
      BY <2>2 DEF Snapshot, Task
    <3>2. writes' \in [Runners -> Seq(Write)]
      <4>1. StatementsFor(s) \in Seq(Write)
        BY <2>2, StatementsType
      <4>2. writes[r] \in Seq(Write)
        BY <1>4 DEF RunnerTypeOK
      <4>3. writes[r] \o StatementsFor(s) \in Seq(Write)
        BY <4>1, <4>2
      <4>4. QED  BY <1>4, <2>1, <4>3 DEF Deliver, RunnerTypeOK
    <3>3. handed' \in [Keys -> Nat]
      BY <1>4, <2>1, <3>1 DEF Deliver, RunnerTypeOK
    <3>4. QED  BY <1>4, <2>1, <3>2, <3>3 DEF Deliver, RunnerTypeOK
  <2>7. QED  BY <2>3, <2>4, <2>5, <2>6
<1>9. CASE ApplyWrite(r) \/ WriteError(r)
  <2>1. writes[r] \in Seq(Write) /\ writes[r] # <<>>
    BY <1>4, <1>9 DEF RunnerTypeOK, ApplyWrite, WriteError, WriteTaken
  <2>2. Head(writes[r]) \in Write /\ Tail(writes[r]) \in Seq(Write)
    BY <2>1
  <2>3. Fault \/ NoFault
    BY <1>9 DEF ApplyWrite, WriteError
  <2>4. SqliteTypeOK'
    <3>1. CASE ApplyWrite(r)
      BY <1>4, <2>2, <3>1, StatementType DEF ApplyWrite, Write
    <3>2. CASE WriteError(r)
      BY <1>4, <3>2 DEF WriteError, SqliteTypeOK, sqliteVars
    <3>3. QED  BY <1>9, <3>1, <3>2
  <2>5. writes' \in [Runners -> Seq(Write)]
    BY <1>4, <1>9, <2>2 DEF ApplyWrite, WriteError, WriteTaken, RunnerTypeOK
  <2>6. earlier' \in [Runners -> Nat]
    BY <1>4, <1>9 DEF ApplyWrite, WriteError, WriteTaken, RunnerTypeOK
  <2>7. GearmanTypeOK' /\ RunnerTypeOK'
    BY <1>4, <1>9, <2>5, <2>6 DEF ApplyWrite, WriteError, DisconnectRunner, GearmanTypeOK,
                            RunnerTypeOK, LinkState
  <2>8. QED  BY <2>3, <2>4, <2>7
<1>10. CASE RunnerCrash(r)
  <2>1. SqliteTypeOK'
    BY <1>4, <1>10, PollType DEF RunnerCrash
  <2>2. RunnerTypeOK'
    BY <1>4, <1>10 DEF RunnerCrash, RunnerTypeOK, LinkState
  <2>3. QED  BY <1>4, <1>10, <2>1, <2>2 DEF RunnerCrash, GearmanTypeOK
<1>11. QED
  BY <1>1, <1>5, <1>6, <1>7, <1>8, <1>9, <1>10 DEF RunnerDoes

LEMMA ExecuteRoundType ==
  ASSUME NEW left \in [Execution -> Nat],
         NEW e \in [id: Ids, key: Keys, round: Nat \ {0}],
         ExecuteRound(e, left)
  PROVE  executing' \in [Execution -> Nat]
<1>1. ASSUME InBudget(e)  PROVE e \in Execution
  <2>1. RetryCount[e.key] + 1 <= MaxRounds /\ RetryCount[e.key] \in Nat
    BY BoundsAssumption, RetryCountAssumption
  <2>2. e.round \in 1..MaxRounds
    BY <1>1, <2>1, BoundsAssumption DEF InBudget
  <2>3. QED  BY <2>2 DEF Execution
<1>2. QED  BY <1>1 DEF ExecuteRound

LEMMA AnsweredType ==
  ASSUME ControllerTypeOK, NEW e \in Execution, executing[e] > 0
  PROVE  /\ Without(e) \in [Execution -> Nat]
         /\ DoneJob(e) \in Job
         /\ NextRound(e) \in [id: Ids, key: Keys, round: Nat \ {0}]
<1>1. Without(e) \in [Execution -> Nat]
  BY DEF ControllerTypeOK, Without
<1>2. DoneJob(e) \in Job
  BY DEF DoneJob, Job, Execution
<1>3. NextRound(e) \in [id: Ids, key: Keys, round: Nat \ {0}]
  BY BoundsAssumption DEF NextRound, Execution
<1>4. QED  BY <1>1, <1>2, <1>3

LEMMA ControllerType ==
  ASSUME TypeOK, ControllerStep
  PROVE  TypeOK'
<1>1. UNCHANGED <<sqliteVars, request, runnerVars>>
  BY DEF ControllerStep, ControllerDoes
<1>2. SUFFICES (Fault \/ NoFault) /\ GearmanTypeOK' /\ ControllerTypeOK'
  BY <1>1, FaultType DEF TypeOK, SqliteTypeOK, InjectorTypeOK, RunnerTypeOK,
                         sqliteVars, runnerVars
<1>3. GearmanTypeOK /\ ControllerTypeOK
  BY DEF TypeOK
<1>4. ASSUME NEW j \in Job, Receive(j) \/ ReceiveUnconnected(j)
      PROVE  (Fault \/ NoFault) /\ GearmanTypeOK' /\ ControllerTypeOK'
  <2>1. GearmanTypeOK'
    BY <1>3, <1>4, JobsType DEF Receive, ReceiveUnconnected
  <2>2. FirstRound(j) \in [id: Ids, key: Keys, round: Nat \ {0}]
    BY DEF FirstRound, Job
  <2>3. executing' \in [Execution -> Nat]
    BY <1>3, <1>4, <2>2, ExecuteRoundType
       DEF Receive, ReceiveUnconnected, controllerVars, ControllerTypeOK
  <2>4. QED
    BY <1>3, <1>4, <2>1, <2>3
       DEF Receive, ReceiveUnconnected, controllerVars, ControllerTypeOK
<1>5. ASSUME NEW e \in Execution,
             \/ WorkComplete(e) \/ WorkFail(e)
             \/ WorkFailUnconnected(e) \/ LoseExecution(e)
      PROVE  (Fault \/ NoFault) /\ GearmanTypeOK' /\ ControllerTypeOK'
  <2>1. executing[e] > 0 /\ (Fault \/ NoFault)
    BY <1>5 DEF WorkComplete, WorkFail, WorkFailUnconnected, LoseExecution
  <2>2. GearmanTypeOK'
    BY <1>3, <1>5, <2>1, JobsType, AnsweredType
       DEF WorkComplete, WorkFail, WorkFailUnconnected, LoseExecution, GearmanTypeOK
  <2>3. executing' \in [Execution -> Nat]
    BY <1>3, <1>5, <2>1, AnsweredType, ExecuteRoundType
       DEF WorkComplete, WorkFail, WorkFailUnconnected, LoseExecution
  <2>4. ran' \in SUBSET Keys
    BY <1>3, <1>5 DEF WorkComplete, WorkFail, WorkFailUnconnected, LoseExecution,
                      ControllerTypeOK, Execution
  <2>5. QED  BY <2>1, <2>2, <2>3, <2>4 DEF ControllerTypeOK
<1>6. ASSUME ControllerCrash
      PROVE  (Fault \/ NoFault) /\ GearmanTypeOK' /\ ControllerTypeOK'
  <2>1. {e.key : e \in {x \in Execution : executing[x] > 0}} \in SUBSET Keys
    BY DEF Execution
  <2>2. QED
    BY <1>3, <1>6, <2>1 DEF ControllerCrash, GearmanTypeOK, ControllerTypeOK
<1>7. QED
  BY <1>4, <1>5, <1>6 DEF ControllerStep, ControllerDoes

LEMMA EjectorType ==
  ASSUME TypeOK, EjectorStep
  PROVE  TypeOK'
<1>1. PICK j \in Job : EjectorDoes(Eject(j) \/ EjectError(j))
  BY DEF EjectorStep
<1>2. GearmanTypeOK'
  BY <1>1, JobsType DEF TypeOK, EjectorDoes, Eject, EjectError
<1>3. SqliteTypeOK'
  <2>1. CASE Delete(j.id)
    BY <2>1 DEF Delete, TypeOK, SqliteTypeOK
  <2>2. CASE UNCHANGED sqliteVars
    BY <2>2 DEF TypeOK, SqliteTypeOK, sqliteVars
  <2>3. QED  BY <1>1, <2>1, <2>2 DEF EjectorDoes, Eject, EjectError
<1>4. QED
  BY <1>1, <1>2, <1>3, FaultType
     DEF TypeOK, EjectorDoes, Eject, EjectError, InjectorTypeOK, RunnerTypeOK,
         ControllerTypeOK, runnerVars, controllerVars

LEMMA WorldType ==
  ASSUME TypeOK, TimeStep \/ ServerStep
  PROVE  TypeOK'
<1>1. CASE TimeStep
  <2>1. PICK id \in Ids : TimeDoes(Expire(id))
    BY <1>1 DEF TimeStep
  <2>2. table' \in SUBSET Row
    BY <2>1 DEF TimeDoes, Expire, TypeOK, SqliteTypeOK, Row, Expiry
  <2>3. SqliteTypeOK'
    BY <2>1, <2>2 DEF TimeDoes, Expire, TypeOK, SqliteTypeOK
  <2>4. QED
    BY <2>1, <2>3, FaultType
       DEF TypeOK, TimeDoes, InjectorTypeOK, GearmanTypeOK, RunnerTypeOK,
           ControllerTypeOK, runnerVars, controllerVars
<1>2. CASE ServerStep
  <2>1. PICK j \in Job : ServerDoes(LoseJob(j))
    BY <1>2 DEF ServerStep
  <2>2. GearmanTypeOK'
    BY <2>1, JobsType DEF TypeOK, ServerDoes, LoseJob
  <2>3. QED
    BY <2>1, <2>2, FaultType
       DEF TypeOK, ServerDoes, LoseJob, SqliteTypeOK, InjectorTypeOK, RunnerTypeOK,
           ControllerTypeOK, sqliteVars, runnerVars, controllerVars
<1>3. QED  BY <1>1, <1>2

-----------------------------------------------------------------------------
LEMMA InitType == Init => TypeOK
BY BoundsAssumption
   DEF Init, TasksInit, SqliteInit, GearmanInit, InjectorInit, RunnerInit,
       ControllerInit, TypeOK, TasksTypeOK, SqliteTypeOK, GearmanTypeOK,
       InjectorTypeOK, RunnerTypeOK, ControllerTypeOK, RequestState, LinkState

LEMMA NextType == TypeOK /\ [Next]_vars => TypeOK'
<1> SUFFICES ASSUME TypeOK, [Next]_vars  PROVE TypeOK'
  OBVIOUS
<1>1. CASE UNCHANGED vars
  BY <1>1 DEF vars, sqliteVars, runnerVars, controllerVars, TypeOK, TasksTypeOK,
              SqliteTypeOK, GearmanTypeOK, InjectorTypeOK, RunnerTypeOK,
              ControllerTypeOK
<1>2. QED
  BY <1>1, InjectorType, RunnerType, ControllerType, EjectorType, WorldType DEF Next

(* The variables of every component keep their types: the fault budget is  *)
(* never exceeded, no count of jobs or executions falls below zero, no row *)
(* of the table and no statement in a queue is ever malformed.             *)
THEOREM TypeCorrect == Spec => []TypeOK
BY InitType, NextType, PTL DEF Spec

-----------------------------------------------------------------------------
(* What a step of the system can do to the rows and their leases.          *)

Issued(op, id, task) ==
  \E r \in Runners : /\ writes[r] # <<>>
                     /\ Head(writes[r]) = [op |-> op, id |-> id, task |-> task]

ReportedDone(id) == \E j \in Job : j.fn = "done" /\ j.id = id /\ jobs[j] > 0

StatementStep ==
  \/ UNCHANGED <<table, claims, born>>
  \/ \E k \in Keys, id \in Ids :
       Accepts(k) /\ Insert(k, id) /\ Moves(k, "queued", "inserted")
  \/ \E r \in Runners : \E s \in fetched[r] : Lease(r, s)
  \/ \E id \in Ids, task \in Task :
       \/ Update(id, task) /\ Issued("update", id, task)
       \/ Disable(id, task) /\ Issued("disable", id, task)
  \/ \E id \in Ids : Delete(id) /\ ReportedDone(id)
  \/ \E id \in Ids : Expire(id)

LEMMA StepIsStatement ==
  ASSUME TypeOK, [Next]_vars
  PROVE  StatementStep
<1> USE DEF StatementStep
<1>1. CASE UNCHANGED vars
  BY <1>1 DEF vars, sqliteVars
<1>2. CASE InjectorStep
  BY <1>2 DEF InjectorStep, InjectorDoes, Request, Reject, Inject, Acknowledge,
              InjectError, InjectorCrash, sqliteVars
<1>3. CASE RunnerStep
  <2>1. PICK r \in Runners : RunnerDoes(
          \/ Connect(r) \/ LoseServers(r) \/ Closed(r)
          \/ Poll(r) \/ PollError(r)
          \/ LeaseRow(r) \/ LeaseRowError(r) \/ DeliverTask(r)
          \/ ApplyWrite(r) \/ WriteError(r)
          \/ RunnerCrash(r))
    BY <1>3 DEF RunnerStep
  <2>2. CASE LeaseRow(r)
    BY <2>2 DEF LeaseRow
  <2>3. CASE ApplyWrite(r)
    <3>1. writes[r] \in Seq(Write) /\ writes[r] # <<>>
      BY <2>3 DEF TypeOK, RunnerTypeOK, ApplyWrite, WriteTaken
    <3> DEFINE w == Head(writes[r])
    <3>2. w \in Write
      BY <3>1
    <3>3. /\ w.id \in Ids /\ w.task \in Task
          /\ w = [op |-> w.op, id |-> w.id, task |-> w.task]
          /\ w.op # "disable" => w.op = "update"
      BY <3>2 DEF Write
    <3>4. IF w.op = "disable" THEN Disable(w.id, w.task) ELSE Update(w.id, w.task)
      BY <2>3 DEF ApplyWrite
    <3>5. Issued(w.op, w.id, w.task)
      BY <3>1, <3>3 DEF Issued
    <3> HIDE DEF w
    <3>6. QED  BY <3>3, <3>4, <3>5
  <2>4. CASE \/ Connect(r) \/ LoseServers(r) \/ Closed(r) \/ Poll(r)
             \/ PollError(r) \/ LeaseRowError(r) \/ DeliverTask(r)
             \/ WriteError(r) \/ RunnerCrash(r)
    <3>1. UNCHANGED <<table, claims, born>>
      BY <2>4 DEF Connect, LoseServers, Closed, Poll, PollError, LeaseRowError,
                  DeliverTask, Deliver, WriteError, RunnerCrash, Listen, Halt,
                  Select, SelectError, LeaseError, ForgetPolls, sqliteVars
    <3>2. QED  BY <3>1
  <2>5. QED  BY <2>1, <2>2, <2>3, <2>4 DEF RunnerDoes
<1>4. CASE ControllerStep \/ ServerStep
  BY <1>4 DEF ControllerStep, ControllerDoes, ServerStep, ServerDoes, sqliteVars
<1>5. CASE EjectorStep
  <2>1. PICK j \in Job : Eject(j) \/ EjectError(j)
    BY <1>5 DEF EjectorStep, EjectorDoes
  <2>2. j.id \in Ids
    BY DEF Job
  <2>3. CASE Eject(j)
    <3>1. j.fn = "done" /\ jobs[j] > 0 /\ Delete(j.id)
      BY <2>3 DEF Eject, Take, TakeUnanswered
    <3>2. QED  BY <2>2, <3>1 DEF ReportedDone
  <2>4. CASE EjectError(j)
    BY <2>4 DEF EjectError, sqliteVars
  <2>5. QED  BY <2>1, <2>3, <2>4
<1>6. CASE TimeStep
  BY <1>6 DEF TimeStep, TimeDoes
<1>7. QED  BY <1>1, <1>2, <1>3, <1>4, <1>5, <1>6 DEF Next

(* Where the rows of the new table come from.                              *)

LEMMA UpdatedRows ==
  ASSUME SqliteTypeOK, NEW id \in Ids, NEW task \in Task, Update(id, task),
         NEW row \in table'
  PROVE  \E old \in table :
           /\ row.id = old.id /\ row.disabled = old.disabled
           /\ IF old.id = id
              THEN row.task = task /\ row.at = RunnerRetryAt[task.key]
              ELSE row = old
<1>1. PICK old \in table :
        row = IF old.id = id
              THEN [old EXCEPT !.task = task, !.at = RunnerRetryAt[task.key]]
              ELSE old
  BY DEF Update
<1>2. old \in Row
  BY DEF SqliteTypeOK
<1>3. CASE old.id = id
  <2>1. row = [old EXCEPT !.task = task, !.at = RunnerRetryAt[task.key]]
    BY <1>1, <1>3
  <2>2. /\ row.id = old.id /\ row.disabled = old.disabled
        /\ row.task = task /\ row.at = RunnerRetryAt[task.key]
    BY <1>2, <2>1 DEF Row
  <2>3. QED  BY <1>3, <2>2
<1>4. QED  BY <1>1, <1>3

LEMMA DisabledRows ==
  ASSUME SqliteTypeOK, NEW id \in Ids, NEW task \in Task, Disable(id, task),
         NEW row \in table'
  PROVE  \E old \in table :
           /\ row.id = old.id /\ row.at = old.at
           /\ IF old.id = id THEN row.task = task /\ row.disabled = TRUE
                             ELSE row = old
<1>1. PICK old \in table :
        row = IF old.id = id THEN [old EXCEPT !.task = task, !.disabled = TRUE]
                             ELSE old
  BY DEF Disable
<1>2. old \in Row
  BY DEF SqliteTypeOK
<1>3. CASE old.id = id
  <2>1. row = [old EXCEPT !.task = task, !.disabled = TRUE]
    BY <1>1, <1>3
  <2>2. /\ row.id = old.id /\ row.at = old.at
        /\ row.task = task /\ row.disabled = TRUE
    BY <1>2, <2>1 DEF Row
  <2>3. QED  BY <1>3, <2>2
<1>4. QED  BY <1>1, <1>3

-----------------------------------------------------------------------------
(* Row ids are unique.                                                     *)

LEMMA UniqueIdsStep ==
  ASSUME TypeOK, UniqueIds, StatementStep
  PROVE  UniqueIds'
<1>1. CASE UNCHANGED <<table, claims, born>>
  BY <1>1 DEF UniqueIds
<1>2. ASSUME NEW k \in Keys, NEW id \in Ids, Insert(k, id)  PROVE UniqueIds'
  <2> DEFINE new == [id |-> id, task |-> NewTask(k), at |-> At[k], disabled |-> FALSE]
  <2>1. table' = table \cup {new} /\ \A row \in table : row.id < id
    BY <1>2 DEF Insert, IsNextRowid
  <2>2. \A row \in table : row.id \in Int /\ row.id # id
    BY <2>1 DEF TypeOK, SqliteTypeOK, Row, Ids
  <2>3. new.id = id
    OBVIOUS
  <2> HIDE DEF new
  <2>4. QED  BY <2>1, <2>2, <2>3 DEF UniqueIds
<1>3. ASSUME NEW r \in Runners, NEW s \in fetched[r], Lease(r, s)  PROVE UniqueIds'
  <2>1. \A row \in table : row \in Row
    BY DEF TypeOK, SqliteTypeOK
  <2>2. CASE table' = table
    BY <2>2 DEF UniqueIds
  <2>3. CASE table' = {IF LeaseChanges(s, row) THEN [row EXCEPT !.at = LeaseExpiry]
                       ELSE row : row \in table}
    BY <2>1, <2>3 DEF UniqueIds, Row
  <2>4. QED  BY <1>3, <2>2, <2>3 DEF Lease
<1>4. ASSUME NEW id \in Ids, NEW task \in Task, Update(id, task)
      PROVE  UniqueIds'
  <2> DEFINE rewritten(row) ==
        IF row.id = id THEN [row EXCEPT !.task = task, !.at = RunnerRetryAt[task.key]]
                       ELSE row
  <2>1. \A row \in table : rewritten(row).id = row.id
    BY DEF TypeOK, SqliteTypeOK, Row
  <2>2. table' = {rewritten(row) : row \in table}
    BY <1>4 DEF Update
  <2> HIDE DEF rewritten
  <2>3. QED  BY <2>1, <2>2 DEF UniqueIds
<1>5. ASSUME NEW id \in Ids, NEW task \in Task, Disable(id, task)
      PROVE  UniqueIds'
  <2> DEFINE rewritten(row) ==
        IF row.id = id THEN [row EXCEPT !.task = task, !.disabled = TRUE]
                       ELSE row
  <2>1. \A row \in table : rewritten(row).id = row.id
    BY DEF TypeOK, SqliteTypeOK, Row
  <2>2. table' = {rewritten(row) : row \in table}
    BY <1>5 DEF Disable
  <2> HIDE DEF rewritten
  <2>3. QED  BY <2>1, <2>2 DEF UniqueIds
<1>6. ASSUME NEW id \in Ids, Delete(id) \/ Expire(id)  PROVE UniqueIds'
  <2>1. \A row \in table : row \in Row
    BY DEF TypeOK, SqliteTypeOK
  <2>2. QED  BY <1>6, <2>1 DEF UniqueIds, Delete, Expire, Row
<1>7. QED  BY <1>1, <1>2, <1>3, <1>4, <1>5, <1>6 DEF StatementStep

LEMMA UniqueIdsHold == Spec => []UniqueIds
<1>1. Init => UniqueIds
  BY DEF Init, SqliteInit, UniqueIds
<1>2. TypeOK /\ UniqueIds /\ [Next]_vars => UniqueIds'
  BY StepIsStatement, UniqueIdsStep
<1>3. QED  BY <1>1, <1>2, TypeCorrect, PTL DEF Spec

-----------------------------------------------------------------------------
(* One lease per expiry.  The argument: once leased a row is not due until *)
(* an insert, an update or the time makes it due, and each of these starts *)
(* a new count of leases; a second poller's UPDATE finds nothing to change.*)

LEMMA LeaseInvStep ==
  ASSUME TypeOK, UniqueIds, LeaseInv, StatementStep
  PROVE  LeaseInv'
<1> USE DEF LeaseInv
<1>1. claims \in [Ids -> Nat] /\ \A row \in table : row \in Row
  BY DEF TypeOK, SqliteTypeOK
<1>2. CASE UNCHANGED <<table, claims, born>>
  BY <1>2
<1>3. ASSUME NEW k \in Keys, NEW id \in Ids, Insert(k, id)  PROVE LeaseInv'
  BY <1>1, <1>3 DEF Insert
<1>4. ASSUME NEW r \in Runners, NEW s \in fetched[r], Lease(r, s)  PROVE LeaseInv'
  <2>1. CASE \E row \in table : LeaseChanges(s, row)
    <3>1. PICK due \in table : due.id = s.id /\ Due(due)
      BY <2>1 DEF LeaseChanges
    <3>2. s.id \in Ids /\ claims[s.id] = 0
      BY <1>1, <3>1 DEF Row, Due
    <3>3. claims' = [claims EXCEPT ![s.id] = 1]
      BY <1>1, <1>4, <2>1, <3>2 DEF Lease
    <3>4. ASSUME NEW row \in table', row.id = s.id  PROVE row.at # "due"
      <4>1. PICK old \in table : row = IF LeaseChanges(s, old)
                                       THEN [old EXCEPT !.at = LeaseExpiry] ELSE old
        BY <1>4, <2>1, <3>4 DEF Lease
      <4>2. old.id = s.id
        BY <1>1, <3>4, <4>1 DEF Row
      <4>3. old = due
        BY <3>1, <4>2 DEF UniqueIds
      <4>4. row.at = LeaseExpiry
        BY <1>1, <3>1, <4>1, <4>3 DEF LeaseChanges, Row
      <4>5. QED  BY <4>4 DEF LeaseExpiry
    <3>5. ASSUME NEW row \in table', row.id # s.id  PROVE row \in table
      BY <1>1, <1>4, <2>1, <3>5 DEF Lease, LeaseChanges, Row
    <3>6. QED  BY <1>1, <3>2, <3>3, <3>4, <3>5
  <2>2. CASE ~\E row \in table : LeaseChanges(s, row)
    BY <1>4, <2>2 DEF Lease
  <2>3. QED  BY <2>1, <2>2
<1>5. ASSUME NEW id \in Ids, NEW task \in Task, Update(id, task)  PROVE LeaseInv'
  <2>1. CASE RunnerRetryAt[task.key] = "due"
    <3>1. claims' = [claims EXCEPT ![id] = 0]
      BY <1>5, <2>1 DEF Update
    <3>2. ASSUME NEW row \in table'
          PROVE  row \in table \/ row.id = id
      BY <1>5, UpdatedRows DEF TypeOK
    <3>3. QED  BY <1>1, <3>1, <3>2
  <2>2. CASE RunnerRetryAt[task.key] # "due"
    <3>1. claims' = claims
      BY <1>5, <2>2 DEF Update
    <3>2. ASSUME NEW row \in table'
          PROVE  row \in table \/ row.at # "due"
      BY <1>5, <2>2, UpdatedRows DEF TypeOK
    <3>3. QED  BY <3>1, <3>2
  <2>3. QED  BY <2>1, <2>2
<1>6. ASSUME NEW id \in Ids, NEW task \in Task, Disable(id, task)  PROVE LeaseInv'
  BY <1>1, <1>6 DEF Disable, Row
<1>7. ASSUME NEW id \in Ids, Delete(id)  PROVE LeaseInv'
  BY <1>1, <1>7 DEF Delete
<1>8. ASSUME NEW id \in Ids, Expire(id)  PROVE LeaseInv'
  BY <1>1, <1>8 DEF Expire, Row
<1>9. QED  BY <1>2, <1>3, <1>4, <1>5, <1>6, <1>7, <1>8 DEF StatementStep

LEMMA LeaseInvHolds == Spec => []LeaseInv
<1>1. Init => LeaseInv
  BY DEF Init, SqliteInit, LeaseInv
<1>2. TypeOK /\ UniqueIds /\ LeaseInv /\ [Next]_vars => LeaseInv'
  BY StepIsStatement, LeaseInvStep
<1>3. QED  BY <1>1, <1>2, TypeCorrect, UniqueIdsHold, PTL DEF Spec

(* However many runners poll the table, a row is leased at most once each  *)
(* time it becomes due: the predicate repeated in the UPDATE of            *)
(* sqlite.js:136-138 is enough, without a transaction around the poll.     *)
THEOREM LeasedOnce == Spec => []OneDeliveryPerExpiry
<1>1. LeaseInv => OneDeliveryPerExpiry
  BY DEF LeaseInv, OneDeliveryPerExpiry
<1>2. QED  BY <1>1, LeaseInvHolds, PTL

-----------------------------------------------------------------------------
(* Disabled rows.                                                          *)

(* A row disabled once is never leased and never enabled again, in spite   *)
(* of the updates still in the queues of the runners.                      *)
THEOREM RetiredForGood == Spec => RetiredStaysRetired
<1> DEFINE Stays == \A row \in table : row.disabled =>
             \A next \in table' : next.id = row.id =>
               next.disabled /\ claims'[row.id] <= claims[row.id]
<1>1. ASSUME TypeOK, UniqueIds, [Next]_vars  PROVE Stays
  <2> SUFFICES ASSUME NEW row \in table, row.disabled,
                      NEW next \in table', next.id = row.id
               PROVE  next.disabled /\ claims'[row.id] <= claims[row.id]
    OBVIOUS
  <2>1. /\ claims \in [Ids -> Nat] /\ row.id \in Ids
        /\ \A x \in table : x \in Row
    BY <1>1 DEF TypeOK, SqliteTypeOK, Row
  <2>2. \A x \in table : x.id = row.id => x = row
    BY <1>1 DEF UniqueIds
  <2>3. CASE UNCHANGED <<table, claims, born>>
    BY <2>1, <2>2, <2>3
  <2>4. ASSUME NEW k \in Keys, NEW id \in Ids, Insert(k, id)
        PROVE  next.disabled /\ claims'[row.id] <= claims[row.id]
    <3>1. row.id # id
      BY <2>1, <2>4 DEF Insert, IsNextRowid, Ids
    <3>2. QED  BY <2>1, <2>2, <2>4, <3>1 DEF Insert
  <2>5. ASSUME NEW r \in Runners, NEW s \in fetched[r], Lease(r, s)
        PROVE  next.disabled /\ claims'[row.id] <= claims[row.id]
    <3>1. CASE \E x \in table : LeaseChanges(s, x)
      <4>1. s.id # row.id
        BY <2>2, <3>1 DEF LeaseChanges, Due
      <4>2. claims'[row.id] = claims[row.id]
        BY <2>1, <2>5, <3>1, <4>1 DEF Lease
      <4>3. PICK old \in table : next = IF LeaseChanges(s, old)
                                       THEN [old EXCEPT !.at = LeaseExpiry] ELSE old
        BY <2>5, <3>1 DEF Lease
      <4>4. old = row
        BY <2>1, <2>2, <4>3 DEF Row
      <4>5. next = row
        BY <4>1, <4>3, <4>4 DEF LeaseChanges
      <4>6. QED  BY <2>1, <4>2, <4>5
    <3>2. CASE ~\E x \in table : LeaseChanges(s, x)
      BY <2>1, <2>2, <2>5, <3>2 DEF Lease
    <3>3. QED  BY <3>1, <3>2
  <2>6. ASSUME NEW id \in Ids, NEW task \in Task, Update(id, task)
        PROVE  next.disabled /\ claims'[row.id] <= claims[row.id]
    <3>1. SqliteTypeOK
      BY <1>1 DEF TypeOK
    <3>2. \E old \in table : next.id = old.id /\ next.disabled = old.disabled
      BY <2>6, <3>1, UpdatedRows
    <3>3. PICK old \in table : next.id = old.id /\ next.disabled = old.disabled
      BY <3>2
    <3>4. claims'[row.id] <= claims[row.id]
      <4>1. claims' = claims \/ claims' = [claims EXCEPT ![id] = 0]
        BY <2>6 DEF Update
      <4>2. claims[row.id] \in Nat
        BY <2>1
      <4>3. QED  BY <2>1, <4>1, <4>2
    <3>5. QED  BY <2>2, <3>3, <3>4
  <2>7. ASSUME NEW id \in Ids, NEW task \in Task, Disable(id, task)
        PROVE  next.disabled /\ claims'[row.id] <= claims[row.id]
    <3>1. PICK old \in table : old.id = row.id /\ (next.disabled \/ next = old)
      BY ZenonT(60), <1>1, <2>7, DisabledRows DEF TypeOK
    <3>2. claims' = claims
      BY <2>7 DEF Disable
    <3>3. QED  BY <2>1, <2>2, <3>1, <3>2
  <2>8. ASSUME NEW id \in Ids, Delete(id) \/ Expire(id)
        PROVE  next.disabled /\ claims'[row.id] <= claims[row.id]
    BY <2>1, <2>2, <2>8 DEF Delete, Expire, Row
  <2>9. StatementStep
    BY <1>1, StepIsStatement
  <2>10. QED  BY <2>3, <2>4, <2>5, <2>6, <2>7, <2>8, <2>9 DEF StatementStep
<1>2. TypeOK /\ UniqueIds /\ [Next]_vars => [Stays]_vars
  BY <1>1
<1>3. QED  BY <1>2, TypeCorrect, UniqueIdsHold, PTL DEF Spec, RetiredStaysRetired
=============================================================================
