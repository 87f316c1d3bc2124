-------------------------- MODULE RetryController --------------------------
(***************************************************************************)
(* The default controller, src/lib/controllers/retry.js: the worker of     *)
(* retryController, which submits a delivered task to its target function, *)
(* up to retry_count + 1 rounds, and reports success to delayedJobDone.    *)
(*                                                                         *)
(* The target's workers are external: they answer an execution with        *)
(* WORK_COMPLETE or WORK_FAIL, or the answer never arrives.                *)
(***************************************************************************)
EXTENDS Gearman

VARIABLES
  executing,  \* executing[e]: foreground jobs of round e awaiting an answer
  ran         \* history: the tasks some worker has executed successfully

controllerVars == <<executing, ran>>

Execution == [id: Ids, key: Keys, round: 1..MaxRounds]

ControllerTypeOK ==
  /\ executing \in [Execution -> Nat]
  /\ ran \in SUBSET Keys

ControllerInit ==
  /\ executing = [e \in Execution |-> 0]
  /\ ran = {}

DoneJob(e) == [fn |-> "done", id |-> e.id, key |-> e.key]

InBudget(e) == e.round <= RetryCount[e.key] + 1

NextRound(e) == [e EXCEPT !.round = @ + 1]

Without(e) == [executing EXCEPT ![e] = @ - 1]

(* execute_task_for_retry_round with `left` still executing: give up, or   *)
(* submit the job to the target function.                                  *)
ExecuteRound(e, left) ==
  IF InBudget(e)
  THEN /\ left[e] < MaxCopies
       /\ executing' = [left EXCEPT ![e] = @ + 1]
  ELSE executing' = left

-----------------------------------------------------------------------------
(* A job of this controller: it is answered before the task is looked at,  *)
(* so that whatever happens to the task afterwards, only the runner's      *)
(* retry brings it back.                                                   *)
FirstRound(j) == [id |-> j.id, key |-> j.key, round |-> 1]

Receive(j) ==
  /\ j.fn = "controller"
  /\ \/ Take(j) /\ NoFault
     \/ TakeUnanswered(j) /\ Fault
  /\ ExecuteRound(FirstRound(j), executing)
  /\ UNCHANGED ran

(* No job server is connected when the round starts: the controller gives  *)
(* up.                                                                     *)
ReceiveUnconnected(j) ==
  /\ j.fn = "controller"
  /\ Take(j)
  /\ Fault /\ UNCHANGED controllerVars

(* 'complete': the job is reported done, with the task as delivered.       *)
WorkComplete(e) ==
  /\ executing[e] > 0
  /\ executing' = Without(e)
  /\ ran' = ran \cup {e.key}
  /\ Submit(DoneJob(e))
  /\ NoFault

(* 'fail': the next round, if the retry count allows one.                  *)
MutantWorkFail(e) ==
  /\ executing[e] > 0
  /\ ExecuteRound(NextRound(e), Without(e))
  /\ Submit(DoneJob(e))
  /\ NoFault /\ UNCHANGED ran

WorkFail(e) ==
  /\ executing[e] > 0
  /\ ExecuteRound(NextRound(e), Without(e))
  /\ NoFault /\ UNCHANGED <<jobs, ran>>

WorkFailUnconnected(e) ==
  /\ executing[e] > 0
  /\ executing' = Without(e)
  /\ Fault /\ UNCHANGED <<jobs, ran>>

(* The server of a target's job stops: neither event will come, whether or *)
(* not a worker executes the job.                                          *)
LoseExecution(e) ==
  /\ executing[e] > 0
  /\ executing' = Without(e)
  /\ ran' = ran \/ ran' = ran \cup {e.key}
  /\ Fault /\ UNCHANGED jobs

(* The controller stops: the answers to its jobs find nobody, whether or   *)
(* not the workers execute them.                                           *)
ControllerCrash ==
  /\ executing' = [e \in Execution |-> 0]
  /\ \E S \in SUBSET {e.key : e \in {x \in Execution : executing[x] > 0}} :
       ran' = ran \cup S
  /\ Fault /\ UNCHANGED jobs
=============================================================================
