----------------------------- MODULE TaskStore ------------------------------
(***************************************************************************)
(* What a database adapter promises of a task, whichever database it uses: *)
(* the answer of saveTask, the row, and what was passed to the listener,   *)
(* told apart from how the adapter does it.  The sqlite pipeline, the      *)
(* mysql adapter and the composite adapter implement this specification.   *)
(*                                                                         *)
(* A step of an adapter may move several tasks at once (a poll passes on   *)
(* every due one), each of them by one of the moves below.                 *)
(***************************************************************************)
CONSTANT Tasks

VARIABLES
  state,  \* state[t]: where task t stands
  mixed   \* the tasks whose row has had the id of another task's row

State ==
  [phase: {"none", "saving", "over"},       \* the call of saveTask
   answer: {"none", "complete", "fail"},    \* what the client was told
   row: {"absent", "waiting", "retired"},   \* retired: disabled
   passed: BOOLEAN,                         \* a listener was given the task
   done: BOOLEAN]                           \* and it was executed

New == [phase |-> "none", answer |-> "none", row |-> "absent",
        passed |-> FALSE, done |-> FALSE]

(* A step within a save may be its last one.                               *)
Saving(s, n) == s.phase = "saving" /\ n.phase \in {"saving", "over"}

(* Of several answers to a client the first one counts.                    *)
Told(s, how) == IF s.answer = "none" THEN how ELSE s.answer

Call(s, n) == s.phase = "none" /\ n = [s EXCEPT !.phase = "saving"]

(* The row is inserted, and inserted again when the save is repeated.      *)
Store(s, n) ==
  /\ Saving(s, n)
  /\ \E how \in {s.answer, Told(s, "complete")} :
       n = [s EXCEPT !.phase = n.phase, !.answer = how, !.row = "waiting"]

(* A task is acknowledged only if it is in the database, or was executed.  *)
Complete(s, n) ==
  /\ Saving(s, n)
  /\ s.row # "absent" \/ s.done
  /\ n = [s EXCEPT !.phase = n.phase, !.answer = Told(s, "complete")]

(* The save fails or is given up.  What it had inserted may be withdrawn   *)
(* as long as the task is not acknowledged.                                *)
Fail(s, n) ==
  /\ Saving(s, n)
  /\ \E how \in {s.answer, Told(s, "fail")}, row \in {s.row, "absent"} :
       /\ row # s.row => s.answer # "complete"
       /\ n = [s EXCEPT !.phase = n.phase, !.answer = how, !.row = row]

(* It is passed on once or more often, and executed by whoever got it.     *)
Pass(s, n) ==
  /\ s.phase # "none"
  /\ n = [s EXCEPT !.passed = TRUE, !.done = n.done]
  /\ n.done \in {s.done, TRUE}

(* Only what has been passed on is disabled, what was executed deleted.    *)
Retire(s, n) ==
  s.passed /\ s.row = "waiting" /\ n = [s EXCEPT !.row = "retired"]

Remove(s, n) == s.done /\ n.row \in {"absent", "retired"} /\ n = [s EXCEPT !.row = n.row]

Move(s, n) ==
  \/ n = s
  \/ Call(s, n) \/ Store(s, n) \/ Complete(s, n) \/ Fail(s, n)
  \/ Pass(s, n) \/ Retire(s, n) \/ Remove(s, n)

Init == state = [t \in Tasks |-> New] /\ mixed = {}

(* Nothing is promised of a task whose row goes by the id of another's.    *)
Next ==
  /\ mixed \subseteq mixed'
  /\ \A t \in Tasks : t \in mixed' \/ Move(state[t], state'[t])

Spec == Init /\ [][Next]_<<state, mixed>>
=============================================================================
