----------------------------- MODULE Gearsloth -----------------------------
(***************************************************************************)
(* The whole pipeline of a delayed task over a sqlite database: clients,   *)
(* an injector, runners, the retry controller, target workers and an       *)
(* ejector, joined by Gearman job servers and the shared table.            *)
(***************************************************************************)
EXTENDS Injector, Runner, RetryController, Ejector

vars == <<faults, sqliteVars, request, jobs, runnerVars, controllerVars>>

Init ==
  /\ TasksInit
  /\ SqliteInit
  /\ GearmanInit
  /\ InjectorInit
  /\ RunnerInit
  /\ ControllerInit

(* A step of one component, of the controller or of the world around them, *)
(* leaves the state of the others alone.                                   *)
InjectorDoes(A) == A /\ UNCHANGED <<jobs, runnerVars, controllerVars>>
RunnerDoes(A) == A /\ UNCHANGED <<request, controllerVars>>
ControllerDoes(A) == A /\ UNCHANGED <<sqliteVars, request, runnerVars>>
EjectorDoes(A) == A /\ UNCHANGED <<request, runnerVars, controllerVars>>
TimeDoes(A) == A /\ NoFault /\ UNCHANGED <<request, jobs, runnerVars, controllerVars>>
ServerDoes(A) == A /\ UNCHANGED <<sqliteVars, request, runnerVars, controllerVars>>

InjectorStep == \E k \in Keys : InjectorDoes(
  \/ Request(k) \/ Reject(k) \/ Inject(k) \/ Acknowledge(k)
  \/ InjectError(k) \/ InjectorCrash(k))

RunnerStep == \E r \in Runners : RunnerDoes(
  \/ Connect(r) \/ LoseServers(r) \/ Closed(r)
  \/ Poll(r) \/ PollError(r)
  \/ LeaseRow(r) \/ LeaseRowError(r) \/ DeliverTask(r)
  \/ ApplyWrite(r) \/ WriteError(r)
  \/ RunnerCrash(r))

ControllerStep == ControllerDoes(
  \/ \E j \in Job : Receive(j) \/ ReceiveUnconnected(j)
  \/ \E e \in Execution : \/ WorkComplete(e) \/ WorkFail(e)
                          \/ WorkFailUnconnected(e) \/ LoseExecution(e)
  \/ ControllerCrash)

EjectorStep == \E j \in Job : EjectorDoes(Eject(j) \/ EjectError(j))

(* From outside: time passes, a job server dies.                           *)
TimeStep == \E id \in Ids : TimeDoes(Expire(id))

ServerStep == \E j \in Job : ServerDoes(LoseJob(j))

Next ==
  \/ InjectorStep \/ RunnerStep \/ ControllerStep
  \/ EjectorStep \/ TimeStep \/ ServerStep

Spec == Init /\ [][Next]_vars

(* Event handlers run when their event is there, timers fire, statements   *)
(* get their turn, dead processes are respawned and reconnect, and servers *)
(* hand out what waits.  Of the target's workers it is assumed that a task *)
(* tried over and over is executed some day; that one never answers is     *)
(* a fault.                                                                *)
Fairness ==
  /\ \A r \in Runners :
       /\ WF_vars(RunnerDoes(Connect(r))) /\ WF_vars(RunnerDoes(Closed(r)))
       /\ WF_vars(RunnerDoes(Poll(r)))
       /\ WF_vars(RunnerDoes(LeaseRow(r)))
       /\ WF_vars(RunnerDoes(DeliverTask(r)))
       /\ WF_vars(RunnerDoes(ApplyWrite(r)))
  /\ \A j \in Job : /\ WF_vars(ControllerDoes(Receive(j)))
                    /\ WF_vars(EjectorDoes(Eject(j)))
  /\ \A e \in Execution :
       /\ WF_vars(ControllerDoes(WorkComplete(e) \/ WorkFail(e)))
       /\ SF_vars(ControllerDoes(WorkComplete(e)))
  /\ \A id \in Ids : WF_vars(TimeDoes(Expire(id)))

FairSpec == Spec /\ Fairness

-----------------------------------------------------------------------------
TypeOK ==
  /\ TasksTypeOK
  /\ SqliteTypeOK
  /\ GearmanTypeOK
  /\ InjectorTypeOK
  /\ RunnerTypeOK
  /\ ControllerTypeOK

(* A row id that two tasks have had: IsNextRowid gives the ids of deleted  *)
(* rows out again, and every statement names its row by id alone.          *)
Reused(id, k) ==
  <<id, k>> \in born /\ \E other \in Keys \ {k} : <<id, other>> \in born

IdReused(k) == \E id \in Ids : Reused(id, k)

Stored(k) == \E row \in table : row.task.key = k

-----------------------------------------------------------------------------
(* "The function will update all result rows, so that no other runner may  *)
(* select and pass the tasks on for duplicate execution" (README.md:341):  *)
(* however many pollers have SELECTed a row, one of them gets it each time *)
(* it becomes due.                                                         *)
OneDeliveryPerExpiry == \A id \in Ids : claims[id] <= 1

(* A task whose submission was acknowledged is executed or still in the    *)
(* database, whatever crashes and whatever is lost in between, unless its  *)
(* row id has been given to another task as well.                          *)
LostOnlyByIdReuse ==
  \A k \in Keys : request[k] = "acked" => k \in ran \/ Stored(k) \/ IdReused(k)

RanOut(k) == RunnerRetryCount[k] > 0 /\ handed[k] >= RunnerRetryCount[k]

(* A task is disabled only after runner_retry_count passes to a runner,    *)
(* and never without a positive count: no crash, stale snapshot or failed  *)
(* statement makes the count run out early.  (A write under a reused id    *)
(* can disable some other task.)                                           *)
NeverDisabledEarly ==
  \A row \in table : row.disabled /\ ~IdReused(row.task.key) =>
    RanOut(row.task.key)

(* A disabled row is never leased nor enabled again, not even by the       *)
(* updates still on their way when it was disabled: it can only be deleted.*)
RetiredStaysRetired ==
  [][\A row \in table : row.disabled =>
       \A next \in table' : next.id = row.id =>
         next.disabled /\ claims'[row.id] <= claims[row.id]]_vars

(* Over a sqlite database the pipeline keeps what an adapter promises, as  *)
(* far as row ids are not given to two tasks.                              *)
RowOf(k) ==
  IF ~Stored(k) THEN "absent"
  ELSE IF \E row \in table : row.task.key = k /\ ~row.disabled
       THEN "waiting" ELSE "retired"

Store == INSTANCE TaskStore WITH
  Tasks <- Keys,
  state <- [k \in Keys |->
    [phase |-> CASE request[k] = "idle" -> "none"
                 [] request[k] \in {"queued", "inserted"} -> "saving"
                 [] OTHER -> "over",
     answer |-> CASE request[k] = "acked" -> "complete"
                  [] request[k] = "failed" -> "fail"
                  [] OTHER -> "none",
     row |-> RowOf(k),
     passed |-> handed[k] > 0 \/ k \in ran,
     done |-> k \in ran]],
  mixed <- {k \in Keys : IdReused(k)}

StoreImplemented == Store!Spec

-----------------------------------------------------------------------------
Settled(k) == \A row \in table : row.task.key = k => row.disabled

(* An acknowledged task does not stay in the database for ever: some day   *)
(* every row of it has been deleted (by then, says LostOnlyByIdReuse, the  *)
(* task has run) or has been disabled, unless every runner has closed its  *)
(* connections after a database error and is left polling for nothing.     *)
Settles ==
  \A k \in Keys : request[k] = "acked" ~>
    Settled(k) \/ \A r \in Runners : link[r] = "closed"

-----------------------------------------------------------------------------
(* The inductive invariants behind the safety properties.                  *)

UniqueIds == \A x, y \in table : x.id = y.id => x = y

(* A leased row is not due.                                                *)
LeaseInv ==
  \A id \in Ids : /\ claims[id] <= 1
                  /\ claims[id] = 1 => \A row \in table : row.id = id => row.at # "due"

(* Whatever names a row names one that was inserted for its task, and only *)
(* what was executed is reported done.                                     *)
BornInv ==
  /\ \A row \in table : <<row.id, row.task.key>> \in born
  /\ \A r \in Runners : \A s \in fetched[r] \cup leased[r] :
       <<s.id, s.task.key>> \in born
  /\ \A r \in Runners : \A i \in 1..Len(writes[r]) :
       <<writes[r][i].id, writes[r][i].task.key>> \in born
  /\ \A j \in Job : jobs[j] > 0 =>
       <<j.id, j.key>> \in born /\ (j.fn = "done" => j.key \in ran)
  /\ \A e \in Execution : executing[e] > 0 => <<e.id, e.key>> \in born

KeptInv ==
  \A k \in Keys : request[k] \in {"inserted", "acked"} =>
    k \in ran \/ Stored(k) \/ IdReused(k)

(* A count that is not unlimited has been decremented no more often than   *)
(* the task was passed to runners.                                         *)
Counted(task) ==
  task.left # Unlimited =>
    /\ task.left <= RunnerRetryCount[task.key]
    /\ handed[task.key] + task.left >= RunnerRetryCount[task.key]

CountInv ==
  /\ \A row \in table : Counted(row.task)
  /\ \A r \in Runners : \A s \in fetched[r] \cup leased[r] : Counted(s.task)
  /\ \A r \in Runners : \A i \in 1..Len(writes[r]) :
       /\ Counted(writes[r][i].task)
       /\ writes[r][i].op = "disable" => RanOut(writes[r][i].task.key)

-----------------------------------------------------------------------------
(* What the documentation says and the code does not keep.                 *)

(* "injector will send gearman WORK_COMPLETE to the caller.  This means    *)
(* that the task *will* be executed" (README.md:70): an acknowledged task  *)
(* that has not run is in the database.                                    *)
AcknowledgedIsKept ==
  \A k \in Keys : request[k] = "acked" => k \in ran \/ Stored(k)

(* "each time the database adapter passes this task to a runner, this      *)
(* field is decreased by one (the database is then updated instantly)"     *)
(* (README.md:250-251): a task is passed to runners no more than           *)
(* runner_retry_count times.                                               *)
PassedAtMostRetryCount ==
  \A k \in Keys : RunnerRetryCount[k] > 0 => handed[k] <= RunnerRetryCount[k]
=============================================================================
