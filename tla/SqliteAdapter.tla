--------------------------- MODULE SqliteAdapter ---------------------------
(***************************************************************************)
(* The sqlite database adapter, src/lib/adapters/sqlite.js: one table that *)
(* the injector, the ejector and every runner share, each through its own  *)
(* connection, and the polling loops listenTask starts.                    *)
(*                                                                         *)
(* One SQL statement is one atomic step; whatever happens between two      *)
(* statements, or between a statement and its callback, can interleave     *)
(* with other processes.  poll() is therefore three steps: the SELECT, one *)
(* conditional UPDATE per selected row (Lease), and the callback with the  *)
(* row as it was SELECTed (the runner's Deliver).                          *)
(***************************************************************************)
EXTENDS Tasks

VARIABLES
  table,    \* the rows of DelayedTasks
  cont,     \* cont[r]: r has a polling loop that re-arms itself
  stopped,  \* stopped[r]: halted loops of r whose last timer is still armed
  fetched,  \* fetched[r]: rows r SELECTed and has not yet tried to lease
  leased,   \* leased[r]: rows r leased, the callback not yet run
  born,     \* history: <<id, key>> for every row ever inserted
  claims    \* history: leases of a row since it last became due

sqliteVars == <<table, cont, stopped, fetched, leased, born, claims>>

Row == [id: Ids, task: Task, at: Expiry, disabled: BOOLEAN]

Snapshot == [id: Ids, task: Task]

SqliteTypeOK ==
  /\ table \in SUBSET Row
  /\ cont \in [Runners -> BOOLEAN]
  /\ stopped \in [Runners -> Nat]
  /\ fetched \in [Runners -> SUBSET Snapshot]
  /\ leased \in [Runners -> SUBSET Snapshot]
  /\ born \in SUBSET (Ids \X Keys)
  /\ claims \in [Ids -> Nat]

SqliteInit ==
  /\ table = {}
  /\ cont = [r \in Runners |-> FALSE]
  /\ stopped = [r \in Runners |-> 0]
  /\ fetched = [r \in Runners |-> {}]
  /\ leased = [r \in Runners |-> {}]
  /\ born = {}
  /\ claims = [id \in Ids |-> 0]

(* The predicate of both statements of poll().  A NULL `at` never          *)
(* satisfies it.                                                           *)
Due(row) == row.at = "due" /\ ~row.disabled

(* `id INTEGER PRIMARY KEY` without AUTOINCREMENT: a new row gets one more *)
(* than the largest rowid in the table, so the ids of rows deleted from    *)
(* the end are given out again.                                            *)
IsNextRowid(id) ==
  /\ \A row \in table : row.id < id
  /\ id = 1 \/ \E row \in table : row.id = id - 1

(* The lease lasts dbopt.default_timeout seconds, 1000 by default; a       *)
(* positive one that exceeds pre_poll is assumed.                          *)
MutantLeaseExpiry == "null"
LeaseExpiry == "later"

-----------------------------------------------------------------------------
(* saveTask: INSERT with the expiry of the task.                           *)
Insert(k, id) ==
  /\ IsNextRowid(id)
  /\ table' = table \cup
       {[id |-> id, task |-> NewTask(k), at |-> At[k], disabled |-> FALSE]}
  /\ born' = born \cup {<<id, k>>}
  /\ claims' = [claims EXCEPT ![id] = 0]
  /\ UNCHANGED <<cont, stopped, fetched, leased>>

(* listenTask arms a new loop; the function it returns only clears `cont`, *)
(* and the timer of the halted loop still fires once.                      *)
Listen(r) ==
  /\ cont' = [cont EXCEPT ![r] = TRUE]
  /\ UNCHANGED <<table, stopped, fetched, leased, born, claims>>

Halt(r) ==
  /\ cont' = [cont EXCEPT ![r] = FALSE]
  /\ stopped' = IF cont[r] THEN [stopped EXCEPT ![r] = @ + 1] ELSE stopped
  /\ UNCHANGED <<table, fetched, leased, born, claims>>

(* The timer of a loop fires: of the one that re-arms itself, or of one    *)
(* that was halted.                                                        *)
LiveRound(r) == cont[r] /\ UNCHANGED stopped

MutantHaltedRound(r) == stopped' = [stopped EXCEPT ![r] = @ - 1]

HaltedRound(r) ==
  /\ stopped[r] > 0
  /\ stopped' = [stopped EXCEPT ![r] = @ - 1]

(* A serialized statement, any but a lease, waits until the leases of its  *)
(* connection and their callbacks are over.                                *)
LeasesOver(r) == fetched[r] = {} /\ leased[r] = {}

(* The SELECT of poll().                                                   *)
Select(r) ==
  /\ LeasesOver(r)
  /\ fetched' = [fetched EXCEPT ![r] =
       {[id |-> row.id, task |-> row.task] : row \in {x \in table : Due(x)}}]
  /\ UNCHANGED <<table, cont, leased, born, claims>>

(* The SELECT fails: callback(error), no rows, and a live loop goes on.    *)
SelectError(r) ==
  /\ LeasesOver(r)
  /\ UNCHANGED <<table, cont, fetched, leased, born, claims>>

(* The UPDATE that postpones a selected row if it is still due.  Only if   *)
(* it changed a row is the callback run.                                   *)
MutantLeaseChanges(s, row) == row.id = s.id

LeaseChanges(s, row) == row.id = s.id /\ Due(row)

Lease(r, s) ==
  /\ s \in fetched[r]
  /\ fetched' = [fetched EXCEPT ![r] = @ \ {s}]
  /\ IF \E row \in table : LeaseChanges(s, row)
     THEN /\ table' = {IF LeaseChanges(s, row)
                       THEN [row EXCEPT !.at = LeaseExpiry]
                       ELSE row : row \in table}
          /\ leased' = [leased EXCEPT ![r] = @ \cup {s}]
          /\ claims' = [claims EXCEPT ![s.id] = @ + 1]
     ELSE UNCHANGED <<table, leased, claims>>
  /\ UNCHANGED <<cont, stopped, born>>

(* The same statement failing: `this.changes` is undefined and the row is  *)
(* passed over in silence.                                                 *)
LeaseError(r, s) ==
  /\ s \in fetched[r]
  /\ fetched' = [fetched EXCEPT ![r] = @ \ {s}]
  /\ UNCHANGED <<table, cont, stopped, leased, born, claims>>

-----------------------------------------------------------------------------
(* updateTask: the whole task and its new expiry, by row id alone.         *)
MutantUpdate(id, task) ==
  /\ table' = {IF row.id = id
               THEN [row EXCEPT !.task = task, !.at = RunnerRetryAt[task.key],
                                !.disabled = FALSE]
               ELSE row : row \in table}
  /\ UNCHANGED <<cont, stopped, fetched, leased, born, claims>>

Update(id, task) ==
  /\ table' = {IF row.id = id
               THEN [row EXCEPT !.task = task, !.at = RunnerRetryAt[task.key]]
               ELSE row : row \in table}
  /\ claims' = IF RunnerRetryAt[task.key] = "due"
               THEN [claims EXCEPT ![id] = 0] ELSE claims
  /\ UNCHANGED <<cont, stopped, fetched, leased, born>>

(* disableTask: the task is written and the row marked, its expiry kept.   *)
Disable(id, task) ==
  /\ table' = {IF row.id = id
               THEN [row EXCEPT !.task = task, !.disabled = TRUE]
               ELSE row : row \in table}
  /\ UNCHANGED <<cont, stopped, fetched, leased, born, claims>>

(* completeTask: DELETE by row id alone.                                   *)
Delete(id) ==
  /\ table' = {row \in table : row.id # id}
  /\ UNCHANGED <<cont, stopped, fetched, leased, born, claims>>

(* Time passes the expiry of a row.                                        *)
Expire(id) ==
  /\ \E row \in table : row.id = id /\ row.at = "later"
  /\ table' = {IF row.id = id /\ row.at = "later"
               THEN [row EXCEPT !.at = "due"]
               ELSE row : row \in table}
  /\ claims' = [claims EXCEPT ![id] = 0]
  /\ UNCHANGED <<cont, stopped, fetched, leased, born>>

(* A process that crashes loses everything but the table.                  *)
ForgetPolls(r) ==
  /\ cont' = [cont EXCEPT ![r] = FALSE]
  /\ stopped' = [stopped EXCEPT ![r] = 0]
  /\ fetched' = [fetched EXCEPT ![r] = {}]
  /\ leased' = [leased EXCEPT ![r] = {}]
  /\ UNCHANGED <<table, born, claims>>
=============================================================================
