------------------------------ MODULE Ejector ------------------------------
(***************************************************************************)
(* The ejector, src/lib/daemon/ejector.js: the worker of delayedJobDone,   *)
(* which deletes the row of a task reported done, by its row id.           *)
(***************************************************************************)
EXTENDS SqliteAdapter, Gearman

(* completeTask succeeds; an answer lost on the way has the job, and so    *)
(* the DELETE, done again.                                                 *)
Eject(j) ==
  /\ j.fn = "done"
  /\ \/ Take(j) /\ NoFault
     \/ TakeUnanswered(j) /\ Fault
  /\ Delete(j.id)

(* completeTask fails: the job is answered with an error, and nobody tries *)
(* it again.                                                               *)
EjectError(j) ==
  /\ j.fn = "done"
  /\ Take(j)
  /\ Fault /\ UNCHANGED sqliteVars
=============================================================================
