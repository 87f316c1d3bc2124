---------------------------- MODULE MCTaskFields ----------------------------
(* Every kind of value in every field, a few fields at a time.             *)
EXTENDS TaskFields

V(t, n) == [type |-> t, num |-> n]

MCValues ==
  {V("undefined", NaN), V("null", 0), V("boolean", 0), V("boolean", 1), V("empty", 0),
   V("string", NaN), V("string", -1), V("string", 0), V("string", 2),
   V("number", -1), V("number", 0), V("number", 1), V("number", 2)}

Plain == [plain |-> [in |-> "string", bytes |-> "f"], base64 |-> Absent]
None == V("undefined", NaN)

Basic ==
  [name |-> Plain, at |-> "none", after |-> None, runner_retry_timeout |-> None,
   runner_retry_count |-> None, retry_count |-> None]

MCTasks ==
  {[Basic EXCEPT !.name = n] : n \in Name}
  \cup {[Basic EXCEPT !.at = d, !.after = v, !.runner_retry_timeout = w,
                      !.runner_retry_count = c] :
          d \in Times, v \in MCValues, w \in MCValues, c \in {None, V("number", 2)}}
  \cup {[Basic EXCEPT !.runner_retry_count = v, !.retry_count = w] :
          v \in MCValues, w \in MCValues}
=============================================================================
