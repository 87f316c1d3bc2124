------------------------------ MODULE Gearman ------------------------------
(***************************************************************************)
(* The Gearman job servers between the components: an external system,     *)
(* modelled from how src/lib uses it.  A background job is forgotten by    *)
(* its sender (SUBMIT_JOB_BG), waits in a server's memory and is handed to *)
(* some worker of its function, in no particular order between the         *)
(* servers.  A job the worker has not answered is handed out again when    *)
(* the worker's connection goes away; a server that dies loses its jobs.   *)
(***************************************************************************)
EXTENDS Tasks

VARIABLE jobs  \* jobs[j]: copies of background job j waiting in the servers

(* "controller" is the function of the task's controller, "done" is        *)
(* delayedJobDone.  The payload is the JSON of a delivered task.           *)
Job == [fn: {"controller", "done"}, id: Ids, key: Keys]

GearmanTypeOK == jobs \in [Job -> Nat]

GearmanInit == jobs = [j \in Job |-> 0]

Submit(j) ==
  /\ jobs[j] < MaxCopies
  /\ jobs' = [jobs EXCEPT ![j] = @ + 1]

(* A worker is handed j and answers.                                       *)
Take(j) ==
  /\ jobs[j] > 0
  /\ jobs' = [jobs EXCEPT ![j] = @ - 1]

(* A worker is handed j and does its work, but its answer never arrives.   *)
TakeUnanswered(j) ==
  /\ jobs[j] > 0
  /\ UNCHANGED jobs

(* The server that holds j stops.                                          *)
LoseJob(j) == Take(j) /\ Fault
=============================================================================
