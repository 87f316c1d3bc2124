------------------------------- MODULE Tasks -------------------------------
(***************************************************************************)
(* The delayed task as every gearsloth component sees it, the parameters a *)
(* client puts in it, and the budget of faults the components share.       *)
(*                                                                         *)
(* A task's function name and payload pass through unchanged and are       *)
(* represented by the task's key, one per submission of a client.  Of the  *)
(* fields the system itself rewrites, `at` lives in the database row and   *)
(* `runner_retry_count` is the field `left` below.                         *)
(*                                                                         *)
(* There is no clock.  What the code ever asks of an expiry time is        *)
(* whether it has passed, so an expiry is "due", "later" (it will be due,  *)
(* nobody knows when) or "null" (not a time at all).                       *)
(***************************************************************************)
EXTENDS Integers, Sequences

CONSTANTS
  Keys,              \* the tasks clients submit
  Runners,           \* runner processes
  At,                \* the expiry each task asks for with `at` or `after`
  RunnerRetryCount,  \* its runner_retry_count
  RunnerRetryAt,     \* the expiry its runner_retry_timeout gives
  RetryCount,        \* its retry_count
  MaxId,             \* bound: rowids 1..MaxId
  MaxRounds,         \* bound: rounds of the retry controller
  MaxCopies,         \* bound: equal jobs queued at once
  MaxFaults          \* bound: faults in a behaviour

Ids == 1..MaxId

(* What datetime(...) of the expiry makes of it.  "null" is SQL NULL, the  *)
(* value of datetime('now', '+null seconds') and of a negative `after`.    *)
Expiry == {"due", "later", "null"}

(* The code tests runner_retry_count with isNaN and === 0 only: undefined, *)
(* not a number, and zero or below all count as unlimited.                 *)
Unlimited == -1

Count == Nat \cup {Unlimited}

ASSUME AtAssumption == At \in [Keys -> Expiry \cup {"invalid"}]
ASSUME RunnerRetryCountAssumption == RunnerRetryCount \in [Keys -> Count]
ASSUME RunnerRetryAtAssumption == RunnerRetryAt \in [Keys -> Expiry]
ASSUME RetryCountAssumption == RetryCount \in [Keys -> Nat]
ASSUME BoundsAssumption ==
  /\ MaxId \in Nat /\ MaxRounds \in Nat /\ MaxCopies \in Nat /\ MaxFaults \in Nat
  /\ \A k \in Keys : RetryCount[k] + 1 <= MaxRounds

Task == [key: Keys, left: Count]

NewTask(k) == [key |-> k, left |-> RunnerRetryCount[k]]

(* `if (!isNaN(task.runner_retry_count)) task.runner_retry_count--`: below *)
(* zero the count never reaches zero again.                                *)
Decremented(task) ==
  [task EXCEPT !.left = IF @ > 0 THEN @ - 1 ELSE Unlimited]

-----------------------------------------------------------------------------
VARIABLE faults  \* crashes, lost connections and failed statements so far

TasksTypeOK == faults \in 0..MaxFaults

TasksInit == faults = 0

Fault == faults < MaxFaults /\ faults' = faults + 1

NoFault == UNCHANGED faults
=============================================================================
