-------------------------- MODULE CompositeAdapter --------------------------
(***************************************************************************)
(* The composite adapter, src/lib/adapters/composite.js, in use: injectors *)
(* save over several databases with failover, every runner listens to all  *)
(* of them, and the ids of their tasks carry the database they come from.  *)
(*                                                                         *)
(* The adapters below it are those of SqliteAdapter and MysqlAdapter,      *)
(* reduced to what the composite sees of them: a statement on a database   *)
(* succeeds or fails, a due row is leased and passed to one listener, ids  *)
(* are given once per database (what becomes of ids given twice is a       *)
(* matter of SqliteAdapter).  Jobs are reduced likewise: what was sent to  *)
(* a controller may be executed, and reported done, any number of times.   *)
(***************************************************************************)
EXTENDS Naturals, Sequences

CONSTANTS
  Tasks,      \* the tasks clients submit
  Runners,    \* runner processes
  N,          \* the databases are 1..N, in the order of their keys
  Twice,      \* those whose saveTask calls back twice on an error (sqlite)
  Count,      \* the runner_retry_count of each task, 0 for unlimited
  MaxWrites,  \* bound: statements of a runner waiting in a database
  MaxFaults   \* bound: crashes, lost connections, databases going down

Dbs == 1..N

ASSUME DatabasesAssumption == N \in Nat \ {0} /\ Twice \in SUBSET Dbs
ASSUME CountAssumption == Count \in [Tasks -> Nat]
ASSUME BoundsAssumption == MaxWrites \in Nat /\ MaxFaults \in Nat

VARIABLES
  up,        \* the databases that can be reached
  rows,      \* the rows of all databases
  given,     \* given[d]: the ids d has given so far
  index,     \* _round_robin_index, counted from 1
  asked,     \* the tasks saveTask was called for
  trying,    \* trying[a]: calls a of a database's saveTask not yet back
  answer,    \* answer[t]: the first answer of saveTask to the client
  doubled,   \* history: the tasks one failure of which was called back twice
  copies,    \* history: copies[t]: how often t was inserted
  link,      \* link[r]: r's connection to the job servers, as in Runner
  listening, \* the runners that poll every database
  writes,    \* writes[r][d]: statements of r that d has not run
  sent,      \* the jobs sent to a controller
  executed,  \* those executed successfully
  passed,    \* history: the tasks passed to a runner
  faults     \* the faults so far

databases == <<up, rows, given>>
saves == <<index, asked, trying, answer, doubled, copies>>
runners == <<link, listening, writes>>
jobs == <<sent, executed, passed>>
vars == <<databases, saves, runners, jobs, faults>>

(* The id of a task as listenTask hands it on: { task_id, db_id }.         *)
Name == [db: Dbs, id: Nat]

Row == [name: Name, task: Tasks, at: {"due", "later"}, disabled: BOOLEAN, left: Nat]

Attempt == [task: Tasks, db: Dbs, fails: 0..(N - 1)]

Write == [op: {"update", "disable"}, name: Name, left: Nat]

Job == [name: Name, task: Tasks]

Init ==
  /\ up = Dbs /\ rows = {} /\ given = [d \in Dbs |-> 0]
  /\ index = 0 /\ asked = {} /\ trying = [a \in Attempt |-> 0]
  /\ answer = [t \in Tasks |-> "none"] /\ doubled = {} /\ copies = [t \in Tasks |-> 0]
  /\ link = [r \in Runners |-> "down"] /\ listening = {}
  /\ writes = [r \in Runners |-> [d \in Dbs |-> <<>>]]
  /\ sent = {} /\ executed = {} /\ passed = {}
  /\ faults = 0

Fault == faults < MaxFaults /\ faults' = faults + 1

-----------------------------------------------------------------------------
(* saveTask.  The index is shared by all saves of the process.             *)

(* _pickDb: the k-th pick from now.                                        *)
MutantPick(k) == index + k

Pick(k) == ((index + k - 1) % N) + 1

FirstAttempt(t) == [task |-> t, db |-> Pick(1), fails |-> 0]

Save(t) ==
  /\ t \notin asked /\ asked' = asked \cup {t}
  /\ trying' = [trying EXCEPT ![FirstAttempt(t)] = @ + 1]
  /\ index' = Pick(1)
  /\ UNCHANGED <<databases, answer, doubled, copies, runners, jobs, faults>>

Answers(t, how) ==
  answer' = IF answer[t] = "none" THEN [answer EXCEPT ![t] = how] ELSE answer

(* The INSERT of an attempt, and the callback.                             *)
Inserted(a) ==
  LET id == given[a.db] + 1
      name == [db |-> a.db, id |-> id]
  IN  /\ given' = [given EXCEPT ![a.db] = id]
      /\ rows' = rows \cup {[name |-> name, task |-> a.task, at |-> "later",
                             disabled |-> FALSE, left |-> Count[a.task]]}

AttemptSucceeds(a) ==
  /\ trying[a] > 0 /\ a.db \in up
  /\ trying' = [trying EXCEPT ![a] = @ - 1]
  /\ Inserted(a)
  /\ copies' = [copies EXCEPT ![a.task] = @ + 1]
  /\ Answers(a.task, "complete")
  /\ UNCHANGED <<up, index, asked, doubled, runners, jobs, faults>>

(* Each call of the callback with an error calls saveTask again, and all   *)
(* of them count the same variable; saveTask refuses the task when every   *)
(* database should have had its turn.                                      *)
Callbacks(a) == IF a.db \in Twice THEN {1, 2} ELSE {1}

MutantFailcounter(a, k) == a.fails + k - 1

Failcounter(a, k) == a.fails + k

Again(a) == {k \in Callbacks(a) : Failcounter(a, k) < N}

Retries(a) ==
  {[task |-> a.task, db |-> Pick(k), fails |-> Failcounter(a, k)] : k \in Again(a)}

MutantRefuses(a) == TRUE

Refuses(a) == Again(a) # Callbacks(a)

AttemptFails(a) ==
  /\ trying[a] > 0 /\ a.db \notin up
  /\ LET left == [trying EXCEPT ![a] = @ - 1] IN
     trying' = [x \in Attempt |-> IF x \in Retries(a) THEN left[x] + 1 ELSE left[x]]
  /\ index' = IF 2 \in Again(a) THEN Pick(2) ELSE IF 1 \in Again(a) THEN Pick(1) ELSE index
  /\ IF Refuses(a) THEN Answers(a.task, "fail") ELSE UNCHANGED answer
  /\ doubled' = IF a.db \in Twice THEN doubled \cup {a.task} ELSE doubled
  /\ UNCHANGED <<databases, asked, copies, runners, jobs, faults>>

-----------------------------------------------------------------------------
(* The runner.  'connect': listenTask starts a poll of every database, but *)
(* returns nothing that would stop them.                                   *)
Connect(r) ==
  /\ link[r] = "down" /\ link' = [link EXCEPT ![r] = "up"]
  /\ listening' = listening \cup {r}
  /\ UNCHANGED <<databases, saves, writes, jobs, faults>>

LoseServers(r) ==
  /\ link[r] = "up" /\ link' = [link EXCEPT ![r] = "down"] /\ Fault
  /\ UNCHANGED <<databases, saves, listening, writes, jobs>>

Closed(r) ==
  /\ link[r] = "closing" /\ link' = [link EXCEPT ![r] = "closed"]
  /\ UNCHANGED <<databases, saves, listening, writes, jobs, faults>>

Disconnected(r) ==
  [link EXCEPT ![r] = CASE @ = "up" -> "closing" [] @ = "down" -> "closed" [] OTHER -> @]

(* A due row is leased and passed to the runner with its id wrapped.  The  *)
(* runner calls disableTask, if the count is used up, and updateTask on    *)
(* one and the same task, and the first call unwraps the id in place: for  *)
(* the second there is no database, and the runner disconnects.  Then it   *)
(* submits the task, as it was before, if it still has connections.        *)
MutantLastPass(row) == row.left <= 1

LastPass(row) == row.left = 1

Issued(row) ==
  [op |-> IF LastPass(row) THEN "disable" ELSE "update", name |-> row.name,
   left |-> IF row.left > 0 THEN row.left - 1 ELSE 0]

PassTask(r, row) ==
  /\ r \in listening /\ row \in rows /\ row.name.db \in up
  /\ row.at = "due" /\ ~row.disabled
  /\ Len(writes[r][row.name.db]) < MaxWrites
  /\ rows' = (rows \ {row}) \cup {[row EXCEPT !.at = "later"]}
  /\ writes' = [writes EXCEPT ![r][row.name.db] = Append(@, Issued(row))]
  /\ link' = IF LastPass(row) THEN Disconnected(r) ELSE link
  /\ sent' = IF link'[r] \in {"up", "down"}
             THEN sent \cup {[name |-> row.name, task |-> row.task]} ELSE sent
  /\ passed' = passed \cup {row.task}
  /\ UNCHANGED <<up, given, saves, listening, executed, faults>>

(* One poll fails: the runner disconnects, and every database is without   *)
(* it from then on.                                                        *)
PollError(r, d) ==
  /\ r \in listening /\ d \notin up
  /\ link' = Disconnected(r)
  /\ UNCHANGED <<databases, saves, listening, writes, jobs, faults>>

(* updateTask and disableTask at the database that the id names.           *)
MutantApplied(w) ==
  {IF row.name.id # w.name.id THEN row
   ELSE IF w.op = "disable" THEN [row EXCEPT !.left = w.left, !.disabled = TRUE]
   ELSE [row EXCEPT !.left = w.left, !.at = "later"] : row \in rows}

Applied(w) ==
  {IF row.name # w.name THEN row
   ELSE IF w.op = "disable" THEN [row EXCEPT !.left = w.left, !.disabled = TRUE]
   ELSE [row EXCEPT !.left = w.left, !.at = "later"] : row \in rows}

ApplyWrite(r, d) ==
  /\ writes[r][d] # <<>> /\ d \in up
  /\ rows' = Applied(Head(writes[r][d]))
  /\ writes' = [writes EXCEPT ![r][d] = Tail(@)]
  /\ UNCHANGED <<up, given, saves, link, listening, jobs, faults>>

WriteError(r, d) ==
  /\ writes[r][d] # <<>> /\ d \notin up
  /\ writes' = [writes EXCEPT ![r][d] = Tail(@)]
  /\ link' = Disconnected(r)
  /\ UNCHANGED <<databases, saves, listening, jobs, faults>>

RunnerCrash(r) ==
  /\ Fault
  /\ link' = [link EXCEPT ![r] = "down"] /\ listening' = listening \ {r}
  /\ writes' = [writes EXCEPT ![r] = [d \in Dbs |-> <<>>]]
  /\ UNCHANGED <<databases, saves, jobs>>

-----------------------------------------------------------------------------
(* The ejector: completeTask at the database that the id names.            *)
MutantDeleted(name) == {row \in rows : row.name.id # name.id}

Deleted(name) == {row \in rows : row.name # name}

Execute(j) ==
  /\ j \in sent /\ executed' = executed \cup {j}
  /\ UNCHANGED <<databases, saves, runners, sent, passed, faults>>

Eject(j) ==
  /\ j \in executed /\ j.name.db \in up
  /\ rows' = Deleted(j.name)
  /\ UNCHANGED <<up, given, saves, runners, jobs, faults>>

(* Outside: time passes, databases go down and come back.                  *)
Expire(row) ==
  /\ row \in rows /\ row.at = "later"
  /\ rows' = (rows \ {row}) \cup {[row EXCEPT !.at = "due"]}
  /\ UNCHANGED <<up, given, saves, runners, jobs, faults>>

GoDown(d) ==
  /\ d \in up /\ up' = up \ {d} /\ Fault
  /\ UNCHANGED <<rows, given, saves, runners, jobs>>

ComeUp(d) ==
  /\ d \notin up /\ up' = up \cup {d}
  /\ UNCHANGED <<rows, given, saves, runners, jobs, faults>>

AttemptEnds(a) == AttemptSucceeds(a) \/ AttemptFails(a)

Next ==
  \/ \E t \in Tasks : Save(t)
  \/ \E a \in Attempt : AttemptEnds(a)
  \/ \E r \in Runners :
       \/ Connect(r) \/ LoseServers(r) \/ Closed(r) \/ RunnerCrash(r)
       \/ \E row \in rows : PassTask(r, row)
       \/ \E d \in Dbs : PollError(r, d) \/ ApplyWrite(r, d) \/ WriteError(r, d)
  \/ \E j \in sent : Execute(j) \/ Eject(j)
  \/ \E row \in rows : Expire(row)
  \/ \E d \in Dbs : GoDown(d) \/ ComeUp(d)

Spec == Init /\ [][Next]_vars

(* A statement under way comes back, with an error if the database cannot  *)
(* be reached.                                                             *)
FairSpec == Spec /\ \A a \in Attempt : WF_vars(AttemptEnds(a))
-----------------------------------------------------------------------------
TypeOK ==
  /\ up \in SUBSET Dbs /\ rows \in SUBSET Row /\ given \in [Dbs -> Nat]
  /\ index \in 0..N /\ asked \in SUBSET Tasks /\ trying \in [Attempt -> Nat]
  /\ answer \in [Tasks -> {"none", "complete", "fail"}]
  /\ doubled \in SUBSET Tasks /\ copies \in [Tasks -> Nat]
  /\ link \in [Runners -> {"down", "up", "closing", "closed"}]
  /\ listening \in SUBSET Runners
  /\ writes \in [Runners -> [Dbs -> Seq(Write)]]
  /\ sent \in SUBSET Job /\ executed \in SUBSET Job /\ passed \in SUBSET Tasks
  /\ faults \in 0..MaxFaults

Stored(t) == \E row \in rows : row.task = t

(* An acknowledged task has been executed or is in one of the databases:   *)
(* although two databases give their rows the same ids, no statement of a  *)
(* runner or an ejector hits a row of another task.                        *)
KeptUntilRun ==
  \A t \in Tasks : answer[t] = "complete" =>
    Stored(t) \/ \E j \in executed : j.task = t

(* The failover stores an acknowledged task once and a refused one         *)
(* nowhere, whatever other saves share the round robin, unless a database  *)
(* called back twice.                                                      *)
SavedOnce ==
  \A t \in Tasks \ doubled : answer[t] # "none" =>
    copies[t] = IF answer[t] = "complete" THEN 1 ELSE 0

(* Every save is answered some day, even with no database left to try.     *)
SavesEnd == \A t \in Tasks : t \in asked ~> answer[t] # "none"

-----------------------------------------------------------------------------
(* The composite adapter keeps what an adapter promises.                   *)
Phase(t) ==
  IF t \notin asked THEN "none"
  ELSE IF \E a \in Attempt : a.task = t /\ trying[a] > 0 THEN "saving" ELSE "over"

RowState(t) ==
  IF ~Stored(t) THEN "absent"
  ELSE IF \E row \in rows : row.task = t /\ ~row.disabled THEN "waiting" ELSE "retired"

Store == INSTANCE TaskStore WITH
  state <- [t \in Tasks |-> [phase |-> Phase(t), answer |-> answer[t],
                             row |-> RowState(t), passed |-> t \in passed,
                             done |-> \E j \in executed : j.task = t]],
  mixed <- {}

StoreImplemented == Store!Spec

-----------------------------------------------------------------------------
(* "injector will send gearman WORK_COMPLETE to the caller.  This means    *)
(* that the task *will* be executed" (README.md:70).  An acknowledged task *)
(* that was sent to no controller waits in a database, with one exception: *)
(* it was to be passed on for the last time, and the runner, disconnected  *)
(* by its own updateTask, had it disabled and did not send it.             *)
StrandedOnLastPass ==
  \A t \in Tasks : answer[t] = "complete" /\ ~(\E j \in sent : j.task = t) =>
    \E row \in rows :
      row.task = t /\ (row.disabled => t \in passed /\ Count[t] > 0)
=============================================================================
