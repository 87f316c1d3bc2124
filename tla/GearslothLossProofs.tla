------------------------- MODULE GearslothLossProofs -------------------------
(***************************************************************************)
(* What is never lost and never disabled early: the two safety theorems    *)
(* that follow a task through every component of the pipeline.             *)
(***************************************************************************)
EXTENDS GearslothProofs

-----------------------------------------------------------------------------
(* Where what a component holds after a step comes from.                   *)

LEMMA HistoryGrows ==
  ASSUME TypeOK, [Next]_vars
  PROVE  /\ born \subseteq born'
         /\ ran \subseteq ran'
         /\ \A k \in Keys : handed[k] <= handed'[k]
<1>1. born \subseteq born'
  BY StepIsStatement
     DEF StatementStep, Insert, Lease, Update, Disable, Delete, Expire
<1>2. ran \subseteq ran'
  BY DEF Next, vars, controllerVars, InjectorStep, InjectorDoes, RunnerStep, RunnerDoes,
         ControllerStep, ControllerDoes, EjectorStep, EjectorDoes, TimeStep,
         TimeDoes, ServerStep, ServerDoes, Receive, ReceiveUnconnected,
         WorkComplete, WorkFail, WorkFailUnconnected, LoseExecution,
         ControllerCrash
<1>3. handed \in [Keys -> Nat] /\ \A r \in Runners : leased[r] \subseteq Snapshot
  BY DEF TypeOK, RunnerTypeOK, SqliteTypeOK
<1>4. ASSUME NEW k \in Keys  PROVE handed[k] <= handed'[k]
  <2>1. ASSUME NEW r \in Runners, NEW s \in leased[r], Deliver(r, s)
        PROVE  handed[k] <= handed'[k]
    <3>1. \/ handed' = handed
          \/ handed' = [handed EXCEPT ![s.task.key] = @ + 1]
      BY <2>1 DEF Deliver
    <3>2. QED  BY <1>3, <3>1
  <2>2. UNCHANGED handed \/ \E r \in Runners : \E s \in leased[r] : Deliver(r, s)
    BY DEF Next, vars, runnerVars, InjectorStep, InjectorDoes, RunnerStep, RunnerDoes,
           ControllerStep, ControllerDoes, EjectorStep, EjectorDoes, TimeStep,
           TimeDoes, ServerStep, ServerDoes, Connect, LoseServers, Closed, Poll,
           PollError, LeaseRow, LeaseRowError, DeliverTask, ApplyWrite, WriteError,
           RunnerCrash
  <2>3. handed[k] <= handed[k]
    BY <1>3
  <2>4. QED  BY <2>1, <2>2, <2>3
<1>5. QED  BY <1>1, <1>2, <1>4

(* A step changes what a runner knows only as a step of that runner.       *)
LEMMA RunnerMemory ==
  ASSUME TypeOK, [Next]_vars, NEW r \in Runners
  PROVE  \/ UNCHANGED <<fetched, leased, writes>>
         \/ \E q \in Runners :
              \/ Select(q) /\ UNCHANGED writes
              \/ \E s \in fetched[q] : /\ Lease(q, s) \/ LeaseError(q, s)
                                       /\ UNCHANGED writes
              \/ \E s \in leased[q] : Deliver(q, s)
              \/ /\ writes[q] # <<>>
                 /\ writes' = [writes EXCEPT ![q] = Tail(@)]
                 /\ UNCHANGED <<fetched, leased>>
              \/ /\ writes' = [writes EXCEPT ![q] = <<>>]
                 /\ ForgetPolls(q)
<1>1. CASE UNCHANGED vars
  BY <1>1 DEF vars, sqliteVars, runnerVars
<1>2. CASE InjectorStep
  BY <1>2 DEF InjectorStep, InjectorDoes, runnerVars, Request, Reject, Inject, Insert,
              Acknowledge, InjectError, InjectorCrash, sqliteVars
<1>3. CASE RunnerStep
  <2>1. PICK q \in Runners : RunnerDoes(
          \/ Connect(q) \/ LoseServers(q) \/ Closed(q)
          \/ Poll(q) \/ PollError(q)
          \/ LeaseRow(q) \/ LeaseRowError(q) \/ DeliverTask(q)
          \/ ApplyWrite(q) \/ WriteError(q)
          \/ RunnerCrash(q))
    BY <1>3 DEF RunnerStep
  <2>2. CASE Connect(q) \/ LoseServers(q) \/ Closed(q) \/ PollError(q)
    BY <2>2 DEF Connect, LoseServers, Closed, PollError, Listen, Halt, SelectError
  <2>3. CASE Poll(q) \/ LeaseRow(q) \/ LeaseRowError(q) \/ DeliverTask(q)
    BY <2>3 DEF Poll, LeaseRow, LeaseRowError, DeliverTask, runnerVars
  <2>4. CASE ApplyWrite(q) \/ WriteError(q)
    BY <2>4 DEF ApplyWrite, WriteError, WriteTaken, Disable, Update, sqliteVars
  <2>5. CASE RunnerCrash(q)
    BY <2>5 DEF RunnerCrash
  <2>6. QED  BY <2>1, <2>2, <2>3, <2>4, <2>5 DEF RunnerDoes
<1>4. CASE ControllerStep \/ ServerStep
  BY <1>4 DEF ControllerStep, ControllerDoes, ServerStep, ServerDoes, sqliteVars,
              runnerVars
<1>5. CASE EjectorStep
  BY <1>5 DEF EjectorStep, EjectorDoes, runnerVars, Eject, EjectError, Delete,
              sqliteVars
<1>6. CASE TimeStep
  BY <1>6 DEF TimeStep, TimeDoes, runnerVars, Expire
<1>7. QED  BY <1>1, <1>2, <1>3, <1>4, <1>5, <1>6 DEF Next

LEMMA SnapshotsFrom ==
  ASSUME TypeOK, [Next]_vars, NEW r \in Runners, NEW s \in fetched'[r] \cup leased'[r]
  PROVE  \/ s \in fetched[r] \cup leased[r]
         \/ \E row \in table : s = [id |-> row.id, task |-> row.task]
<1>1. fetched \in [Runners -> SUBSET Snapshot] /\ leased \in [Runners -> SUBSET Snapshot]
  BY DEF TypeOK, SqliteTypeOK
<1>2. ASSUME NEW q \in Runners, Select(q)
      PROVE  \/ s \in fetched[r] \cup leased[r]
             \/ \E row \in table : s = [id |-> row.id, task |-> row.task]
  BY <1>1, <1>2 DEF Select
<1>3. ASSUME NEW q \in Runners, NEW x \in fetched[q], Lease(q, x) \/ LeaseError(q, x)
      PROVE  s \in fetched[r] \cup leased[r]
  BY <1>1, <1>3 DEF Lease, LeaseError
<1>4. ASSUME NEW q \in Runners, NEW x \in leased[q], Deliver(q, x)
      PROVE  s \in fetched[r] \cup leased[r]
  BY <1>1, <1>4 DEF Deliver
<1>5. ASSUME NEW q \in Runners, ForgetPolls(q)
      PROVE  s \in fetched[r] \cup leased[r]
  BY <1>1, <1>5 DEF ForgetPolls
<1>6. CASE UNCHANGED <<fetched, leased>>
  BY <1>6
<1>7. QED  BY <1>2, <1>3, <1>4, <1>5, <1>6, RunnerMemory

(* The statements of one delivery.                                         *)
LEMMA StatementsAre ==
  ASSUME NEW s, NEW i \in 1..Len(StatementsFor(s))
  PROVE  LET w == StatementsFor(s)[i]
         IN  /\ w.id = s.id /\ w.task = Decremented(s.task)
             /\ w.op = "disable" => w.task.left = 0
<1> DEFINE update == [op |-> "update", id |-> s.id, task |-> Decremented(s.task)]
           disable == [op |-> "disable", id |-> s.id, task |-> Decremented(s.task)]
<1>1. CASE Decremented(s.task).left = 0
  <2>1. StatementsFor(s) = <<disable, update>>
    BY <1>1 DEF StatementsFor
  <2> HIDE DEF update, disable
  <2>2. StatementsFor(s)[i] = disable \/ StatementsFor(s)[i] = update
    BY <2>1
  <2>3. QED  BY <1>1, <2>2 DEF update, disable
<1>2. CASE Decremented(s.task).left # 0
  <2>1. StatementsFor(s) = <<update>>
    BY <1>2 DEF StatementsFor
  <2> HIDE DEF update
  <2>2. StatementsFor(s)[i] = update
    BY <2>1
  <2>3. QED  BY <2>2 DEF update
<1>3. QED  BY <1>1, <1>2

LEMMA WritesFrom ==
  ASSUME TypeOK, [Next]_vars, NEW r \in Runners, NEW i \in 1..Len(writes'[r])
  PROVE  \/ \E p \in 1..Len(writes[r]) : writes'[r][i] = writes[r][p]
         \/ \E s \in leased[r] : /\ Deliver(r, s)
                                 /\ \E p \in 1..Len(StatementsFor(s)) :
                                      writes'[r][i] = StatementsFor(s)[p]
<1>1. writes \in [Runners -> Seq(Write)]
  BY DEF TypeOK, RunnerTypeOK
<1>2. CASE writes'[r] = writes[r]
  BY <1>2
<1>3. CASE writes'[r] = <<>>
  BY <1>3
<1>4. CASE writes[r] # <<>> /\ writes'[r] = Tail(writes[r])
  <2>1. writes[r] \in Seq(Write)
    BY <1>1
  <2>2. i + 1 \in 1..Len(writes[r]) /\ writes'[r][i] = writes[r][i + 1]
    BY <1>4, <2>1
  <2>3. QED  BY <2>2
<1>5. ASSUME NEW s \in leased[r], Deliver(r, s)
      PROVE  \/ \E p \in 1..Len(writes[r]) : writes'[r][i] = writes[r][p]
             \/ \E p \in 1..Len(StatementsFor(s)) :
                  writes'[r][i] = StatementsFor(s)[p]
  <2>1. writes[r] \in Seq(Write)
    BY <1>1
  <2>2. StatementsFor(s) \in Seq(Write)
    BY StatementsType DEF TypeOK, SqliteTypeOK
  <2>3. writes'[r] = writes[r] \o StatementsFor(s)
    BY <1>1, <1>5 DEF Deliver
  <2>4. CASE i <= Len(writes[r])
    BY <2>1, <2>2, <2>3, <2>4
  <2>5. CASE i > Len(writes[r])
    <3>1. /\ i - Len(writes[r]) \in 1..Len(StatementsFor(s))
          /\ writes'[r][i] = StatementsFor(s)[i - Len(writes[r])]
      BY <2>1, <2>2, <2>3, <2>5
    <3>2. QED  BY <3>1
  <2>6. QED  BY <2>1, <2>4, <2>5
<1>6. \/ writes'[r] = writes[r] \/ writes'[r] = <<>>
      \/ writes[r] # <<>> /\ writes'[r] = Tail(writes[r])
      \/ \E s \in leased[r] : Deliver(r, s)
  <2>1. ASSUME NEW q \in Runners, NEW x \in leased[q], Deliver(q, x), q # r
        PROVE  writes'[r] = writes[r]
    BY <1>1, <2>1 DEF Deliver
  <2>2. QED  BY <1>1, <2>1, RunnerMemory
<1>7. QED  BY <1>2, <1>3, <1>4, <1>5, <1>6

LEMMA JobsFrom ==
  ASSUME TypeOK, [Next]_vars, NEW j \in Job, jobs'[j] > 0
  PROVE  \/ jobs[j] > 0
         \/ /\ j.fn = "controller"
            /\ \E r \in Runners : \E s \in leased[r] :
                 j.id = s.id /\ j.key = s.task.key
         \/ \E e \in Execution : executing[e] > 0 /\ j = DoneJob(e) /\ j.key \in ran'
<1> DEFINE Goal == \/ jobs[j] > 0
                   \/ /\ j.fn = "controller"
                      /\ \E r \in Runners : \E s \in leased[r] :
                           j.id = s.id /\ j.key = s.task.key
                   \/ \E e \in Execution : /\ executing[e] > 0 /\ j = DoneJob(e)
                                           /\ j.key \in ran'
<1>1. jobs \in [Job -> Nat]
  BY DEF TypeOK, GearmanTypeOK
<1>2. ASSUME NEW x \in Job, Take(x) \/ TakeUnanswered(x)  PROVE jobs[j] > 0
  BY <1>1, <1>2 DEF Take, TakeUnanswered
<1>3. CASE UNCHANGED jobs
  BY <1>3
<1>4. ASSUME NEW r \in Runners, NEW s \in leased[r], Deliver(r, s)  PROVE Goal
  <2> DEFINE x == [fn |-> "controller", id |-> s.id, key |-> s.task.key]
  <2>1. CASE j = x
    BY <2>1
  <2>2. CASE j # x
    <3>1. jobs' = [jobs EXCEPT ![x] = @ + 1] \/ jobs' = jobs
      BY <1>4 DEF Deliver, Submit
    <3> HIDE DEF x
    <3>2. QED  BY <1>1, <2>2, <3>1
  <2>3. QED  BY <2>1, <2>2
<1>5. ASSUME NEW e \in Execution, WorkComplete(e)  PROVE Goal
  <2>1. CASE j = DoneJob(e)
    <3>1. j.key \in ran'
      BY <1>5, <2>1 DEF WorkComplete, DoneJob
    <3>2. QED  BY <1>5, <2>1, <3>1 DEF WorkComplete
  <2>2. CASE j # DoneJob(e)
    BY <1>1, <1>5, <2>2 DEF WorkComplete, Submit
  <2>3. QED  BY <2>1, <2>2
<1>6. CASE InjectorStep \/ TimeStep \/ UNCHANGED vars
  BY <1>3, <1>6 DEF InjectorStep, InjectorDoes, TimeStep, TimeDoes, vars
<1>7. CASE RunnerStep
  <2>1. UNCHANGED jobs \/ \E r \in Runners : \E s \in leased[r] : Deliver(r, s)
    BY <1>7 DEF RunnerStep, RunnerDoes, Connect, LoseServers, Closed, Poll,
                PollError, LeaseRow, LeaseRowError, DeliverTask, ApplyWrite,
                WriteError, RunnerCrash
  <2>2. QED  BY <1>3, <1>4, <2>1
<1>8. CASE ControllerStep
  <2>1. ASSUME NEW x \in Job, Receive(x) \/ ReceiveUnconnected(x)  PROVE jobs[j] > 0
    BY <1>2, <2>1 DEF Receive, ReceiveUnconnected
  <2>2. ASSUME NEW e \in Execution,
               WorkFail(e) \/ WorkFailUnconnected(e) \/ LoseExecution(e)
        PROVE  jobs[j] > 0
    BY <2>2 DEF WorkFail, WorkFailUnconnected, LoseExecution
  <2>3. ASSUME ControllerCrash  PROVE jobs[j] > 0
    BY <2>3 DEF ControllerCrash
  <2>4. QED
    BY <1>5, <1>8, <2>1, <2>2, <2>3 DEF ControllerStep, ControllerDoes
<1>9. CASE EjectorStep \/ ServerStep
  BY <1>2, <1>9 DEF EjectorStep, EjectorDoes, Eject, EjectError, ServerStep,
                    ServerDoes, LoseJob
<1>10. QED  BY <1>6, <1>7, <1>8, <1>9 DEF Next

LEMMA ExecutionsFrom ==
  ASSUME TypeOK, [Next]_vars, NEW e \in Execution, executing'[e] > 0
  PROVE  \/ executing[e] > 0
         \/ \E j \in Job : jobs[j] > 0 /\ e.id = j.id /\ e.key = j.key
         \/ \E x \in Execution : executing[x] > 0 /\ e.id = x.id /\ e.key = x.key
<1>1. executing \in [Execution -> Nat]
  BY DEF TypeOK, ControllerTypeOK
<1>2. CASE UNCHANGED executing
  BY <1>2
<1>3. ASSUME NEW x, NEW left \in [Execution -> Nat], ExecuteRound(x, left),
             \A y \in Execution : left[y] <= executing[y]
      PROVE  executing[e] > 0 \/ e = x
  <2>1. executing' = left \/ executing' = [left EXCEPT ![x] = @ + 1]
    BY <1>3 DEF ExecuteRound
  <2>2. e # x => executing'[e] = left[e]
    BY <1>3, <2>1
  <2>3. left[e] \in Nat /\ executing[e] \in Nat /\ left[e] <= executing[e]
    BY <1>1, <1>3
  <2>4. QED  BY <2>2, <2>3
<1>4. ASSUME NEW j \in Job, Receive(j)
      PROVE  executing[e] > 0 \/ (jobs[j] > 0 /\ e.id = j.id /\ e.key = j.key)
  <2>1. executing[e] > 0 \/ e = FirstRound(j)
    BY <1>1, <1>3, <1>4 DEF Receive
  <2>2. jobs[j] > 0
    BY <1>4 DEF Receive, Take, TakeUnanswered
  <2>3. FirstRound(j).id = j.id /\ FirstRound(j).key = j.key
    BY DEF FirstRound
  <2>4. ASSUME e = FirstRound(j)  PROVE e.id = j.id /\ e.key = j.key
    BY <2>3, <2>4
  <2>5. QED  BY <2>1, <2>2, <2>4
<1>5. ASSUME NEW x \in Execution, executing[x] > 0
      PROVE  /\ Without(x) \in [Execution -> Nat]
             /\ \A y \in Execution : Without(x)[y] <= executing[y]
  BY <1>1, <1>5 DEF Without
<1>6. ASSUME NEW x \in Execution, WorkFail(x)
      PROVE  \/ executing[e] > 0
             \/ executing[x] > 0 /\ e.id = x.id /\ e.key = x.key
  <2>1. executing[x] > 0 /\ ExecuteRound(NextRound(x), Without(x))
    BY <1>6 DEF WorkFail
  <2>2. executing[e] > 0 \/ e = NextRound(x)
    BY <1>3, <1>5, <2>1
  <2>3. NextRound(x).id = x.id /\ NextRound(x).key = x.key
    BY DEF NextRound, Execution
  <2>4. QED  BY <2>1, <2>2, <2>3
<1>7. ASSUME NEW x \in Execution,
             WorkComplete(x) \/ WorkFailUnconnected(x) \/ LoseExecution(x)
      PROVE  executing[e] > 0
  <2>1. executing[x] > 0 /\ executing' = Without(x)
    BY <1>7 DEF WorkComplete, WorkFailUnconnected, LoseExecution
  <2>2. executing'[e] <= executing[e] /\ executing'[e] \in Nat
    BY <1>5, <2>1
  <2>3. QED  BY <1>1, <2>2
<1>8. CASE ControllerCrash
  BY <1>8 DEF ControllerCrash
<1>9. CASE ControllerStep
  <2>1. ASSUME NEW j \in Job, ReceiveUnconnected(j)  PROVE executing[e] > 0
    BY <2>1 DEF ReceiveUnconnected, controllerVars
  <2>2. QED
    BY <1>4, <1>6, <1>7, <1>8, <1>9, <2>1 DEF ControllerStep, ControllerDoes
<1>10. QED
  BY <1>2, <1>9 DEF Next, vars, controllerVars, InjectorStep, InjectorDoes,
                    RunnerStep, RunnerDoes, EjectorStep, EjectorDoes, TimeStep,
                    TimeDoes, ServerStep, ServerDoes

-----------------------------------------------------------------------------
(* Everything that names a row names one inserted for its task.            *)

LEMMA IssuedBorn ==
  ASSUME TypeOK, BornInv, NEW op, NEW id \in Ids, NEW task \in Task,
         Issued(op, id, task)
  PROVE  <<id, task.key>> \in born
<1>1. PICK r \in Runners : /\ writes[r] # <<>>
                          /\ Head(writes[r]) = [op |-> op, id |-> id, task |-> task]
  BY DEF Issued
<1>2. writes[r] \in Seq(Write)
  BY DEF TypeOK, RunnerTypeOK
<1>3. 1 \in 1..Len(writes[r]) /\ writes[r][1] = Head(writes[r])
  BY <1>1, <1>2
<1>4. writes[r][1].id = id /\ writes[r][1].task = task
  BY <1>1, <1>3
<1>5. QED  BY <1>3, <1>4 DEF BornInv

LEMMA BornTable ==
  ASSUME TypeOK, BornInv, [Next]_vars, NEW row \in table'
  PROVE  <<row.id, row.task.key>> \in born'
<1>1. SqliteTypeOK /\ born \subseteq born' /\ \A x \in table : x \in Row
  BY HistoryGrows DEF TypeOK, SqliteTypeOK
<1>2. \A x \in table : <<x.id, x.task.key>> \in born'
  BY <1>1 DEF BornInv
<1>3. ASSUME NEW op, NEW id \in Ids, NEW task \in Task, Issued(op, id, task)
      PROVE  <<id, task.key>> \in born'
  BY <1>1, <1>3, IssuedBorn
<1>4. CASE UNCHANGED <<table, claims, born>>
  BY <1>2, <1>4
<1>5. ASSUME NEW k \in Keys, NEW id \in Ids, Insert(k, id)
      PROVE  <<row.id, row.task.key>> \in born'
  BY <1>2, <1>5 DEF Insert, NewTask
<1>6. ASSUME NEW r \in Runners, NEW s \in fetched[r], Lease(r, s)
      PROVE  <<row.id, row.task.key>> \in born'
  <2>1. \E x \in table : row.id = x.id /\ row.task = x.task
    BY <1>1, <1>6 DEF Lease, Row
  <2>2. QED  BY <1>2, <2>1
<1>7. ASSUME NEW id \in Ids, NEW task \in Task, Update(id, task),
             Issued("update", id, task)
      PROVE  <<row.id, row.task.key>> \in born'
  <2>1. \E old \in table : /\ row.id = old.id
                           /\ row = old \/ (old.id = id /\ row.task = task)
    BY <1>1, <1>7, UpdatedRows
  <2>2. <<id, task.key>> \in born'
    BY <1>3, <1>7
  <2>3. QED  BY <1>2, <2>1, <2>2
<1>8. ASSUME NEW id \in Ids, NEW task \in Task, Disable(id, task),
             Issued("disable", id, task)
      PROVE  <<row.id, row.task.key>> \in born'
  <2>1. \E old \in table : /\ row.id = old.id
                           /\ row = old \/ (old.id = id /\ row.task = task)
    <3>1. SqliteTypeOK /\ Disable(id, task)
      BY <1>1, <1>8
    <3>2. PICK old \in table :
            /\ row.id = old.id /\ row.at = old.at
            /\ IF old.id = id THEN row.task = task /\ row.disabled = TRUE
                              ELSE row = old
      BY <3>1, DisabledRows, Zenon
    <3>3. QED  BY <3>2
  <2>2. <<id, task.key>> \in born'
    BY <1>3, <1>8
  <2>3. QED  BY <1>2, <2>1, <2>2
<1>9. ASSUME NEW id \in Ids, Delete(id) \/ Expire(id)
      PROVE  <<row.id, row.task.key>> \in born'
  <2>1. \E x \in table : row.id = x.id /\ row.task = x.task
    BY <1>1, <1>9 DEF Delete, Expire, Row
  <2>2. QED  BY <1>2, <2>1
<1>10. StatementStep
  BY StepIsStatement
<1>11. QED  BY <1>4, <1>5, <1>6, <1>7, <1>8, <1>9, <1>10 DEF StatementStep

LEMMA BornInvStep ==
  ASSUME TypeOK, BornInv, [Next]_vars
  PROVE  BornInv'
<1>1. born \subseteq born' /\ ran \subseteq ran'
  BY HistoryGrows
<1>2. \A row \in table' : <<row.id, row.task.key>> \in born'
  BY BornTable
<1>3. ASSUME NEW r \in Runners, NEW s \in fetched'[r] \cup leased'[r]
      PROVE  <<s.id, s.task.key>> \in born'
  <2>1. CASE s \in fetched[r] \cup leased[r]
    BY <1>1, <2>1 DEF BornInv
  <2>2. CASE \E row \in table : s = [id |-> row.id, task |-> row.task]
    BY <1>1, <2>2 DEF BornInv
  <2>3. QED  BY <2>1, <2>2, SnapshotsFrom
<1>4. ASSUME NEW r \in Runners, NEW i \in 1..Len(writes'[r])
      PROVE  <<writes'[r][i].id, writes'[r][i].task.key>> \in born'
  <2>1. CASE \E p \in 1..Len(writes[r]) : writes'[r][i] = writes[r][p]
    BY <1>1, <2>1 DEF BornInv
  <2>2. ASSUME NEW s \in leased[r], NEW p \in 1..Len(StatementsFor(s)),
               writes'[r][i] = StatementsFor(s)[p]
        PROVE  <<writes'[r][i].id, writes'[r][i].task.key>> \in born'
    <3>1. s.task \in Task
      BY DEF TypeOK, SqliteTypeOK, Snapshot
    <3>2. writes'[r][i].id = s.id /\ writes'[r][i].task.key = s.task.key
      BY <2>2, <3>1, StatementsAre, DecrementedType
    <3>3. QED  BY <1>1, <3>2 DEF BornInv
  <2>3. QED  BY <2>1, <2>2, WritesFrom
<1>5. ASSUME NEW j \in Job, jobs'[j] > 0
      PROVE  <<j.id, j.key>> \in born' /\ (j.fn = "done" => j.key \in ran')
  <2>1. CASE jobs[j] > 0
    BY <1>1, <2>1 DEF BornInv
  <2>2. CASE /\ j.fn = "controller"
             /\ \E r \in Runners : \E s \in leased[r] :
                  j.id = s.id /\ j.key = s.task.key
    BY <1>1, <2>2 DEF BornInv
  <2>3. CASE \E e \in Execution : executing[e] > 0 /\ j = DoneJob(e) /\ j.key \in ran'
    BY <1>1, <2>3 DEF BornInv, DoneJob
  <2>4. QED  BY <1>5, <2>1, <2>2, <2>3, JobsFrom
<1>6. ASSUME NEW e \in Execution, executing'[e] > 0
      PROVE  <<e.id, e.key>> \in born'
  <2>1. CASE executing[e] > 0
    BY <1>1, <2>1 DEF BornInv
  <2>2. CASE \E j \in Job : jobs[j] > 0 /\ e.id = j.id /\ e.key = j.key
    BY <1>1, <2>2 DEF BornInv
  <2>3. CASE \E x \in Execution : executing[x] > 0 /\ e.id = x.id /\ e.key = x.key
    BY <1>1, <2>3 DEF BornInv
  <2>4. QED  BY <1>6, <2>1, <2>2, <2>3, ExecutionsFrom
<1>7. QED  BY <1>2, <1>3, <1>4, <1>5, <1>6 DEF BornInv

LEMMA BornInvHolds == Spec => []BornInv
<1>1. Init => BornInv
  BY DEF Init, SqliteInit, GearmanInit, RunnerInit, ControllerInit, BornInv
<1>2. TypeOK /\ BornInv /\ [Next]_vars => BornInv'
  BY BornInvStep
<1>3. QED  BY <1>1, <1>2, TypeCorrect, PTL DEF Spec

-----------------------------------------------------------------------------
(* Nothing acknowledged is lost, unless a row id is reused.  The argument: *)
(* a row goes away only when a delayedJobDone job names it, or when a late *)
(* statement overwrites it.  By BornInv either names a row inserted for    *)
(* the task it carries: the row's own task, which has then been executed   *)
(* or is still there, or another task that has had the same id.            *)

LEMMA ReusedStays ==
  ASSUME TypeOK, [Next]_vars, NEW k \in Keys, IdReused(k)
  PROVE  IdReused(k)'
BY HistoryGrows DEF IdReused, Reused

LEMMA NamedTwice ==
  ASSUME TypeOK, NEW id \in Ids, NEW k \in Keys, NEW other \in Keys, other # k,
         <<id, k>> \in born, <<id, other>> \in born
  PROVE  IdReused(k)
BY DEF IdReused, Reused

LEMMA StoredStep ==
  ASSUME TypeOK, BornInv, [Next]_vars, NEW k \in Keys, Stored(k)
  PROVE  Stored(k)' \/ IdReused(k)' \/ k \in ran'
<1>1. PICK row \in table : row.task.key = k
  BY DEF Stored
<1>2. row \in Row /\ row.id \in Ids /\ <<row.id, k>> \in born
  BY <1>1 DEF BornInv, TypeOK, SqliteTypeOK, Row
<1>3. ASSUME NEW x \in table', x.task.key = k  PROVE Stored(k)'
  BY <1>3 DEF Stored
<1>4. CASE UNCHANGED <<table, claims, born>>
  BY <1>1, <1>3, <1>4
<1>5. ASSUME NEW other \in Keys, NEW id \in Ids, Insert(other, id)
      PROVE  Stored(k)'
  BY <1>1, <1>3, <1>5 DEF Insert
<1>6. ASSUME NEW r \in Runners, NEW s \in fetched[r], Lease(r, s)
      PROVE  Stored(k)'
  <2>1. CASE table' = table
    BY <1>1, <1>3, <2>1
  <2>2. CASE table' = {IF LeaseChanges(s, x) THEN [x EXCEPT !.at = LeaseExpiry]
                       ELSE x : x \in table}
    <3>1. (IF LeaseChanges(s, row) THEN [row EXCEPT !.at = LeaseExpiry] ELSE row)
            \in table'
      BY <2>2
    <3>2. [row EXCEPT !.at = LeaseExpiry].task = row.task
      BY <1>2 DEF Row
    <3>3. QED  BY <1>1, <1>3, <3>1, <3>2
  <2>3. QED  BY <1>6, <2>1, <2>2 DEF Lease
<1>7. ASSUME NEW id \in Ids, NEW task \in Task, NEW op, Issued(op, id, task),
             Update(id, task) \/ Disable(id, task)
      PROVE  Stored(k)' \/ IdReused(k)'
  <2>1. CASE row.id # id
    <3>1. row \in table'
      BY <1>7, <2>1 DEF Update, Disable
    <3>2. QED  BY <1>1, <1>3, <3>1
  <2>2. CASE row.id = id
    <3>1. <<id, task.key>> \in born /\ task.key \in Keys
      BY <1>7, IssuedBorn DEF Task
    <3>2. CASE task.key = k
      <4>1. \/ [row EXCEPT !.task = task, !.at = RunnerRetryAt[task.key]] \in table'
            \/ [row EXCEPT !.task = task, !.disabled = TRUE] \in table'
        BY <1>7, <2>2 DEF Update, Disable
      <4>2. /\ [row EXCEPT !.task = task, !.at = RunnerRetryAt[task.key]].task = task
            /\ [row EXCEPT !.task = task, !.disabled = TRUE].task = task
        BY <1>2 DEF Row
      <4>3. QED  BY <1>3, <3>2, <4>1, <4>2
    <3>3. CASE task.key # k
      BY <1>2, <2>2, <3>1, <3>3, NamedTwice, ReusedStays
    <3>4. QED  BY <3>2, <3>3
  <2>3. QED  BY <2>1, <2>2
<1>8. ASSUME NEW id \in Ids, Delete(id), ReportedDone(id)
      PROVE  Stored(k)' \/ IdReused(k)' \/ k \in ran'
  <2>1. CASE row.id # id
    BY <1>1, <1>3, <1>8, <2>1 DEF Delete
  <2>2. CASE row.id = id
    <3>1. PICK j \in Job : j.fn = "done" /\ j.id = id /\ jobs[j] > 0
      BY <1>8 DEF ReportedDone
    <3>2. <<id, j.key>> \in born /\ j.key \in ran /\ j.key \in Keys
      BY <3>1 DEF BornInv, Job
    <3>3. CASE j.key = k
      BY <3>2, <3>3, HistoryGrows
    <3>4. CASE j.key # k
      BY <1>2, <2>2, <3>2, <3>4, NamedTwice, ReusedStays
    <3>5. QED  BY <3>3, <3>4
  <2>3. QED  BY <2>1, <2>2
<1>9. ASSUME NEW id \in Ids, Expire(id)
      PROVE  Stored(k)'
  <2>1. (IF row.id = id /\ row.at = "later" THEN [row EXCEPT !.at = "due"] ELSE row)
          \in table'
    BY <1>9 DEF Expire
  <2>2. [row EXCEPT !.at = "due"].task = row.task
    BY <1>2 DEF Row
  <2>3. QED  BY <1>1, <1>3, <2>1, <2>2
<1>10. StatementStep
  BY StepIsStatement
<1>11. QED  BY <1>4, <1>5, <1>6, <1>7, <1>8, <1>9, <1>10 DEF StatementStep

LEMMA RequestStep ==
  ASSUME TypeOK, [Next]_vars, NEW k \in Keys, request'[k] \in {"inserted", "acked"}
  PROVE  request[k] \in {"inserted", "acked"} \/ \E id \in Ids : Insert(k, id)
<1>1. request \in [Keys -> RequestState]
  BY DEF TypeOK, InjectorTypeOK
<1>2. CASE UNCHANGED request
  BY <1>2
<1>3. CASE InjectorStep
  <2>1. PICK x \in Keys : \/ Request(x) \/ Reject(x) \/ Inject(x) \/ Acknowledge(x)
                          \/ InjectError(x) \/ InjectorCrash(x)
    BY <1>3 DEF InjectorStep, InjectorDoes
  <2>2. CASE x = k
    BY <1>1, <2>1, <2>2 DEF Request, Reject, Inject, Acknowledge, InjectError,
                            InjectorCrash, Moves
  <2>3. CASE x # k
    BY <1>1, <2>1, <2>3 DEF Request, Reject, Inject, Acknowledge, InjectError,
                            InjectorCrash, Moves
  <2>4. QED  BY <2>2, <2>3
<1>4. QED
  BY <1>2, <1>3 DEF Next, vars, RunnerStep, RunnerDoes, ControllerStep,
                    ControllerDoes, EjectorStep, EjectorDoes, TimeStep, TimeDoes,
                    ServerStep, ServerDoes

LEMMA KeptInvStep ==
  ASSUME TypeOK, BornInv, KeptInv, [Next]_vars
  PROVE  KeptInv'
<1> SUFFICES ASSUME NEW k \in Keys, request'[k] \in {"inserted", "acked"}
             PROVE  k \in ran' \/ Stored(k)' \/ IdReused(k)'
  BY DEF KeptInv
<1>1. CASE \E id \in Ids : Insert(k, id)
  <2>1. PICK id \in Ids : Insert(k, id)
    BY <1>1
  <2> DEFINE new == [id |-> id, task |-> NewTask(k), at |-> At[k], disabled |-> FALSE]
  <2>2. new \in table'
    BY <2>1 DEF Insert
  <2>3. new.task.key = k
    BY DEF NewTask
  <2> HIDE DEF new
  <2>4. QED  BY <2>2, <2>3 DEF Stored
<1>2. CASE request[k] \in {"inserted", "acked"}
  <2>1. k \in ran \/ Stored(k) \/ IdReused(k)
    BY <1>2 DEF KeptInv
  <2>2. QED  BY <2>1, HistoryGrows, StoredStep, ReusedStays
<1>3. QED  BY <1>1, <1>2, RequestStep

(* Whatever crashes, fails or gets lost, an acknowledged task has run or   *)
(* is in the database, or its row id has been given to another task, too.  *)
THEOREM NothingElseIsLost == Spec => []LostOnlyByIdReuse
<1>1. Init => KeptInv
  BY DEF Init, InjectorInit, KeptInv
<1>2. TypeOK /\ BornInv /\ KeptInv /\ [Next]_vars => KeptInv'
  BY KeptInvStep
<1>3. KeptInv => LostOnlyByIdReuse
  BY DEF KeptInv, LostOnlyByIdReuse
<1>4. QED  BY <1>1, <1>2, <1>3, TypeCorrect, BornInvHolds, PTL DEF Spec

-----------------------------------------------------------------------------
(* No task is disabled early.  The argument: a count was decremented only  *)
(* by a delivery, which the history counts; copies of a row may be stale,  *)
(* but a stale copy has a larger count than its task deserves, never a     *)
(* smaller one.                                                            *)

LEMMA DeliverCounts ==
  ASSUME TypeOK, CountInv, NEW r \in Runners, NEW s \in leased[r], Deliver(r, s)
  PROVE  LET task == Decremented(s.task)
         IN  /\ Counted(task)'
             /\ task.left = 0 => RanOut(task.key)'
<1> DEFINE task == Decremented(s.task)
           k == s.task.key
<1>1. /\ k \in Keys /\ s.task \in Task /\ s.task.left \in Count
      /\ handed \in [Keys -> Nat] /\ RunnerRetryCount[k] \in Count
  BY RunnerRetryCountAssumption
     DEF TypeOK, SqliteTypeOK, RunnerTypeOK, Snapshot, Task
<1>2. task.key = k /\ task.left = IF s.task.left > 0 THEN s.task.left - 1 ELSE Unlimited
  BY <1>1 DEF Decremented, Task
<1>3. s.task.left # Unlimited =>
        /\ s.task.left <= RunnerRetryCount[k]
        /\ handed[k] + s.task.left >= RunnerRetryCount[k]
  BY DEF CountInv, Counted
<1>4. handed'[k] = IF handed[k] < RunnerRetryCount[k] + 1
                   THEN handed[k] + 1 ELSE handed[k]
  BY <1>1 DEF Deliver, HandedBound
<1>5. handed[k] \in Nat
  BY <1>1
<1> HIDE DEF task, k
<1>6. task.left # Unlimited => s.task.left > 0 /\ task.left = s.task.left - 1
  BY <1>2
<1>7. /\ task.left # Unlimited =>
           /\ task.left <= RunnerRetryCount[k]
           /\ handed'[k] + task.left >= RunnerRetryCount[k]
      /\ task.left = 0 => RunnerRetryCount[k] > 0 /\ handed'[k] >= RunnerRetryCount[k]
  BY <1>1, <1>3, <1>4, <1>5, <1>6 DEF Count, Unlimited
<1>8. Counted(task)' /\ (task.left = 0 => RanOut(task.key)')
  BY <1>2, <1>7 DEF Counted, RanOut
<1>9. QED  BY <1>8 DEF task

LEMMA CountedStays ==
  ASSUME TypeOK, [Next]_vars, NEW task \in Task
  PROVE  /\ Counted(task) => Counted(task)'
         /\ RanOut(task.key) => RanOut(task.key)'
<1>1. /\ task.key \in Keys /\ task.left \in Count
      /\ RunnerRetryCount[task.key] \in Count
  BY RunnerRetryCountAssumption DEF Task
<1>2. handed[task.key] \in Nat /\ handed'[task.key] \in Nat
  BY <1>1, NextType DEF TypeOK, RunnerTypeOK
<1>3. handed[task.key] <= handed'[task.key]
  BY <1>1, HistoryGrows
<1>4. QED  BY <1>1, <1>2, <1>3 DEF Counted, RanOut, Count, Unlimited

LEMMA NewTaskCounted ==
  ASSUME TypeOK, NEW k \in Keys
  PROVE  Counted(NewTask(k))
<1>1. handed[k] \in Nat /\ RunnerRetryCount[k] \in Count
  BY RunnerRetryCountAssumption DEF TypeOK, RunnerTypeOK
<1>2. QED  BY <1>1 DEF Counted, NewTask, Count, Unlimited

LEMMA IssuedCounted ==
  ASSUME TypeOK, CountInv, NEW op, NEW id \in Ids, NEW task \in Task,
         Issued(op, id, task)
  PROVE  Counted(task) /\ (op = "disable" => RanOut(task.key))
<1>1. PICK r \in Runners : /\ writes[r] # <<>>
                          /\ Head(writes[r]) = [op |-> op, id |-> id, task |-> task]
  BY DEF Issued
<1>2. writes[r] \in Seq(Write)
  BY DEF TypeOK, RunnerTypeOK
<1>3. 1 \in 1..Len(writes[r]) /\ writes[r][1] = Head(writes[r])
  BY <1>1, <1>2
<1>4. writes[r][1].op = op /\ writes[r][1].task = task
  BY <1>1, <1>3
<1>5. QED  BY <1>3, <1>4 DEF CountInv

(* The task of a row after a step: that of a row before it, a new one, or  *)
(* one a runner has written.                                               *)
LEMMA RowsFrom ==
  ASSUME TypeOK, [Next]_vars, NEW row \in table'
  PROVE  \/ \E k \in Keys : row.task = NewTask(k) /\ row.disabled = FALSE
         \/ \E old \in table : /\ row.id = old.id /\ row.task = old.task
                              /\ row.disabled = old.disabled
         \/ \E old \in table, task \in Task :
              /\ row.id = old.id /\ row.task = task
              /\ \/ Issued("update", row.id, task) /\ row.disabled = old.disabled
                 \/ Issued("disable", row.id, task)
<1> DEFINE New == \E k \in Keys : row.task = NewTask(k) /\ row.disabled = FALSE
           Old == \E old \in table : /\ row.id = old.id /\ row.task = old.task
                                    /\ row.disabled = old.disabled
           Written ==
             \E old \in table, task \in Task :
               /\ row.id = old.id /\ row.task = task
               /\ \/ Issued("update", row.id, task) /\ row.disabled = old.disabled
                  \/ Issued("disable", row.id, task)
<1>1. SqliteTypeOK /\ \A x \in table : x \in Row
  BY DEF TypeOK, SqliteTypeOK
<1>2. CASE row \in table
  BY <1>2
<1>3. ASSUME NEW k \in Keys, NEW id \in Ids, Insert(k, id)  PROVE New \/ Old
  <2>1. \/ row \in table
        \/ row = [id |-> id, task |-> NewTask(k), at |-> At[k], disabled |-> FALSE]
    BY <1>3 DEF Insert
  <2>2. QED  BY <2>1
<1>4. ASSUME NEW r \in Runners, NEW s \in fetched[r], Lease(r, s)  PROVE Old
  BY <1>1, <1>4 DEF Lease, Row
<1>5. ASSUME NEW id \in Ids, NEW task \in Task, Update(id, task),
             Issued("update", id, task)
      PROVE  Old \/ Written
  <2>1. PICK old \in table :
          /\ row.id = old.id /\ row.disabled = old.disabled
          /\ IF old.id = id
             THEN row.task = task /\ row.at = RunnerRetryAt[task.key]
             ELSE row = old
    BY <1>1, <1>5, UpdatedRows, Zenon
  <2>2. CASE old.id = id
    BY <1>5, <2>1, <2>2
  <2>3. CASE old.id # id
    BY <2>1, <2>3
  <2>4. QED  BY <2>2, <2>3
<1>6. ASSUME NEW id \in Ids, NEW task \in Task, Disable(id, task),
             Issued("disable", id, task)
      PROVE  Old \/ Written
  <2>1. PICK old \in table :
          /\ row.id = old.id /\ row.at = old.at
          /\ IF old.id = id THEN row.task = task /\ row.disabled = TRUE
                            ELSE row = old
    BY <1>1, <1>6, DisabledRows, Zenon
  <2>2. CASE old.id = id
    BY <1>6, <2>1, <2>2
  <2>3. CASE old.id # id
    BY <2>1, <2>3
  <2>4. QED  BY <2>2, <2>3
<1>7. ASSUME NEW id \in Ids, Delete(id) \/ Expire(id)  PROVE Old
  BY <1>1, <1>7 DEF Delete, Expire, Row
<1> HIDE DEF New, Old, Written
<1>8. New \/ Old \/ Written
  BY <1>2, <1>3, <1>4, <1>5, <1>6, <1>7, StepIsStatement DEF StatementStep, Old
<1>9. QED  BY <1>8 DEF New, Old, Written

LEMMA CountInvStep ==
  ASSUME TypeOK, CountInv, [Next]_vars
  PROVE  CountInv'
<1>1. ASSUME NEW row \in table'  PROVE Counted(row.task)'
  <2>1. row.task \in Task
    BY NextType DEF TypeOK, SqliteTypeOK, Row
  <2>2. Counted(row.task)
    <3>1. CASE \E k \in Keys : row.task = NewTask(k) /\ row.disabled = FALSE
      BY <3>1, NewTaskCounted
    <3>2. CASE \E old \in table : /\ row.id = old.id /\ row.task = old.task
                                 /\ row.disabled = old.disabled
      BY <3>2 DEF CountInv
    <3>3. CASE \E old \in table, task \in Task :
                 /\ row.id = old.id /\ row.task = task
                 /\ \/ Issued("update", row.id, task) /\ row.disabled = old.disabled
                    \/ Issued("disable", row.id, task)
      <4>1. row.id \in Ids
        BY <3>3 DEF TypeOK, SqliteTypeOK, Row
      <4>2. QED  BY <3>3, <4>1, IssuedCounted
    <3>4. QED  BY <3>1, <3>2, <3>3, RowsFrom
  <2>3. QED  BY <2>1, <2>2, CountedStays
<1>2. ASSUME NEW r \in Runners, NEW s \in fetched'[r] \cup leased'[r]
      PROVE  Counted(s.task)'
  <2>1. s.task \in Task
    BY NextType DEF TypeOK, SqliteTypeOK, Snapshot
  <2>2. Counted(s.task)
    BY SnapshotsFrom DEF CountInv
  <2>3. QED  BY <2>1, <2>2, CountedStays
<1>3. ASSUME NEW r \in Runners, NEW i \in 1..Len(writes'[r])
      PROVE  (/\ Counted(writes[r][i].task)
              /\ writes[r][i].op = "disable" => RanOut(writes[r][i].task.key))'
  <2>1. ASSUME NEW w, w = writes'[r][i]
        PROVE  Counted(w.task)' /\ (w.op = "disable" => RanOut(w.task.key)')
    <3>1. ASSUME NEW p \in 1..Len(writes[r]), writes'[r][i] = writes[r][p]
          PROVE  Counted(w.task)' /\ (w.op = "disable" => RanOut(w.task.key)')
      <4>1. w \in Write /\ w.task \in Task
        <5>1. writes[r] \in Seq(Write)
          BY DEF TypeOK, RunnerTypeOK
        <5>2. w \in Write
          BY <2>1, <3>1, <5>1
        <5>3. QED  BY <5>2 DEF Write
      <4>2. Counted(w.task) /\ (w.op = "disable" => RanOut(w.task.key))
        BY <2>1, <3>1 DEF CountInv
      <4>3. QED  BY <4>1, <4>2, CountedStays
    <3>2. ASSUME NEW s \in leased[r], Deliver(r, s),
                 NEW p \in 1..Len(StatementsFor(s)), writes'[r][i] = StatementsFor(s)[p]
          PROVE  Counted(w.task)' /\ (w.op = "disable" => RanOut(w.task.key)')
      <4> DEFINE task == Decremented(s.task)
      <4>1. w.task = task /\ (w.op = "disable" => w.task.left = 0)
        BY <2>1, <3>2, StatementsAre
      <4>2. Counted(task)' /\ (task.left = 0 => RanOut(task.key)')
        BY <3>2, DeliverCounts
      <4> HIDE DEF task
      <4>3. QED  BY <4>1, <4>2 DEF Counted, RanOut
    <3>3. QED  BY <3>1, <3>2, WritesFrom
  <2>2. QED  BY <2>1
<1>4. QED  BY <1>1, <1>2, <1>3 DEF CountInv

LEMMA CountInvHolds == Spec => []CountInv
<1>1. Init => CountInv
  BY DEF Init, SqliteInit, RunnerInit, CountInv
<1>2. TypeOK /\ CountInv /\ [Next]_vars => CountInv'
  BY CountInvStep
<1>3. QED  BY <1>1, <1>2, TypeCorrect, PTL DEF Spec

LEMMA DisabledStep ==
  ASSUME TypeOK, BornInv, CountInv, NeverDisabledEarly, [Next]_vars
  PROVE  NeverDisabledEarly'
<1> SUFFICES ASSUME NEW row \in table', row.disabled, ~IdReused(row.task.key)'
             PROVE  RanOut(row.task.key)'
  BY DEF NeverDisabledEarly
<1>1. row.task \in Task /\ row.task.key \in Keys /\ row.id \in Ids
  BY NextType DEF TypeOK, SqliteTypeOK, Row, Task
<1>2. ~IdReused(row.task.key)
  BY <1>1, ReusedStays
<1>3. ASSUME RanOut(row.task.key)  PROVE RanOut(row.task.key)'
  BY <1>1, <1>3, CountedStays
<1>4. CASE \E old \in table : /\ row.id = old.id /\ row.task = old.task
                             /\ row.disabled = old.disabled
  BY <1>2, <1>3, <1>4 DEF NeverDisabledEarly
<1>5. ASSUME NEW old \in table, row.id = old.id, Issued("update", row.id, row.task),
             row.disabled = old.disabled
      PROVE  RanOut(row.task.key)
  <2>1. <<row.id, row.task.key>> \in born
    BY <1>1, <1>5, IssuedBorn
  <2>2. <<row.id, old.task.key>> \in born /\ old.task.key \in Keys
    BY <1>5 DEF BornInv, TypeOK, SqliteTypeOK, Row, Task
  <2>3. old.task.key = row.task.key
    BY <1>1, <1>2, <2>1, <2>2, NamedTwice
  <2>4. QED  BY <1>2, <1>5, <2>3 DEF NeverDisabledEarly
<1>6. ASSUME Issued("disable", row.id, row.task)  PROVE RanOut(row.task.key)
  BY <1>1, <1>6, IssuedCounted
<1>7. QED  BY <1>3, <1>4, <1>5, <1>6, RowsFrom

(* A task is disabled only after it was passed to runners as often as its  *)
(* runner_retry_count says, however stale the copies the runners work on.  *)
THEOREM DisabledInTime == Spec => []NeverDisabledEarly
<1>1. Init => NeverDisabledEarly
  BY DEF Init, SqliteInit, NeverDisabledEarly
<1>2. TypeOK /\ BornInv /\ CountInv /\ NeverDisabledEarly /\ [Next]_vars
        => NeverDisabledEarly'
  BY DisabledStep
<1>3. QED  BY <1>1, <1>2, TypeCorrect, BornInvHolds, CountInvHolds, PTL DEF Spec
=============================================================================
