---------------------------- MODULE MysqlAdapter ----------------------------
(***************************************************************************)
(* The mysql adapter (MySQLMultimaster) in a daemon that runs an injector, *)
(* a runner and an ejector: saveTask, the transaction of the poll,         *)
(* updateTask, disableTask and completeTask, and the connections each of   *)
(* them borrows from the pool of the master or of the slave.               *)
(*                                                                         *)
(* A key of InnoDB is given once, so that a task stands for its row.  The  *)
(* column `state` is left out: nothing reads it.  The databases and the    *)
(* pools are external: a pool hands its Limit connections to those who     *)
(* asked in their order, and a transaction takes effect as a whole.        *)
(***************************************************************************)
EXTENDS Naturals, SequencesExt

CONSTANTS
  Tasks,      \* the requests to store a task
  Once,       \* the tasks the runner disables at their first expiry
  Polls,      \* the polls that may overlap: a bound
  Limit,      \* the connections of each pool (connectionLimit)
  MaxFaults   \* the failed statements and connections and the crashes: a bound

ASSUME TasksAssumption == IsFiniteSet(Tasks)
ASSUME OnceAssumption == Once \in SUBSET Tasks
ASSUME LimitAssumption == Limit \in Nat \ {0}
ASSUME FaultsAssumption == MaxFaults \in Nat

(* What a connection of the master is borrowed for.                        *)
Uses == ({"save", "update", "disable", "complete"} \X Tasks)
        \cup ({"poll"} \X Polls)

VARIABLES
  at,         \* at[t]: the row of t at the master and its expiry
  slave,      \* the rows the slave has
  disabled,   \* the rows of gearsloth_disabled
  line,       \* the uses waiting for a connection of the master
  free,       \* the connections left in its pool
  held,       \* held[u]: the connections in use for u
  slaveLine,  \* the tasks being saved that wait for one of the slave,
  slaveFree,  \* those left in its pool,
  slaveHeld,  \* and the tasks that have one
  phase,      \* phase[t]: how far saveTask(t) is
  answer,     \* answer[t]: what saveTask(t) called back with
  polling,    \* polling[p]: "idle", "open", or "committed"
  taken,      \* taken[p]: the tasks poll p has selected
  listener,   \* "on", "off", or "closed" when the runner gave up
  passedOn,   \* history: the tasks passed to the runner
  faults      \* the faults so far

tables == <<at, slave, disabled>>
masterPool == <<line, free, held>>
slavePool == <<slaveLine, slaveFree, slaveHeld>>
saves == <<phase, answer>>
runner == <<polling, taken, listener, passedOn>>
vars == <<tables, masterPool, slavePool, saves, runner, faults>>

Stored == {t \in Tasks : at[t] # "absent"}

Init ==
  /\ at = [t \in Tasks |-> "absent"] /\ slave = {} /\ disabled = {}
  /\ line = <<>> /\ free = Limit /\ held = [u \in Uses |-> 0]
  /\ slaveLine = <<>> /\ slaveFree = Limit /\ slaveHeld = {}
  /\ phase = [t \in Tasks |-> "none"] /\ answer = [t \in Tasks |-> "none"]
  /\ polling = [p \in Polls |-> "idle"] /\ taken = [p \in Polls |-> {}]
  /\ listener = "on" /\ passedOn = {}
  /\ faults = 0

Fault == faults < MaxFaults /\ faults' = faults + 1

-----------------------------------------------------------------------------
(* The pools: who asks first is served first.                              *)
Borrowed(u) == held[u] > 0

MutantReleased(u) == free' = free + 1 /\ UNCHANGED held

Released(u) == free' = free + 1 /\ held' = [held EXCEPT ![u] = @ - 1]

MutantReleasedSlave(t) == UNCHANGED <<slaveHeld, slaveFree>>

ReleasedSlave(t) == slaveHeld' = slaveHeld \ {t} /\ slaveFree' = slaveFree + 1

(* A use that ends and gives its connection back.                          *)
Ends(u) == Borrowed(u) /\ Released(u) /\ UNCHANGED <<line, slavePool>>

Saving(t) == phase[t] = "connecting"

(* A connection that comes after its save was called off stays borrowed    *)
(* for good: nothing uses it, nothing releases it.                         *)
GrantMaster ==
  /\ line # <<>> /\ free > 0
  /\ line' = Tail(line) /\ free' = free - 1
  /\ LET u == Head(line) IN
     held' = IF u[1] = "save" /\ ~Saving(u[2]) THEN held ELSE [held EXCEPT ![u] = @ + 1]
  /\ UNCHANGED <<tables, slavePool, saves, runner, faults>>

GrantSlave ==
  /\ slaveLine # <<>> /\ slaveFree > 0
  /\ slaveLine' = Tail(slaveLine) /\ slaveFree' = slaveFree - 1
  /\ LET t == Head(slaveLine) IN
     slaveHeld' = IF Saving(t) THEN slaveHeld \cup {t} ELSE slaveHeld
  /\ UNCHANGED <<tables, masterPool, saves, runner, faults>>

-----------------------------------------------------------------------------
(* saveTask.                                                               *)
Save(t) ==
  /\ phase[t] = "none"
  /\ phase' = [phase EXCEPT ![t] = "connecting"]
  /\ line' = Append(line, <<"save", t>>)
  /\ slaveLine' = Append(slaveLine, t)
  /\ UNCHANGED <<tables, free, held, slaveFree, slaveHeld, answer, runner, faults>>

Answer(t, how) ==
  phase' = [phase EXCEPT ![t] = "over"] /\ answer' = [answer EXCEPT ![t] = how]

(* One of the two connections fails: async.auto calls back at once, and    *)
(* the other one is released if it is there.                               *)
SaveWithoutMaster(t) ==
  /\ line # <<>> /\ Head(line) = <<"save", t>> /\ free > 0 /\ Fault
  /\ line' = Tail(line)
  /\ IF Saving(t) THEN Answer(t, "fail") ELSE UNCHANGED saves
  /\ IF t \in slaveHeld THEN ReleasedSlave(t) ELSE UNCHANGED <<slaveHeld, slaveFree>>
  /\ UNCHANGED <<tables, free, held, slaveLine, runner>>

SaveWithoutSlave(t) ==
  /\ slaveLine # <<>> /\ Head(slaveLine) = t /\ slaveFree > 0 /\ Fault
  /\ slaveLine' = Tail(slaveLine)
  /\ IF Saving(t) THEN Answer(t, "fail") ELSE UNCHANGED saves
  /\ IF Borrowed(<<"save", t>>) THEN Released(<<"save", t>>) ELSE UNCHANGED <<held, free>>
  /\ UNCHANGED <<tables, line, slaveFree, slaveHeld, runner>>

(* saveToMaster: due at once or later, as `after` and `at` say.            *)
Insert(t) ==
  /\ Saving(t) /\ Borrowed(<<"save", t>>) /\ t \in slaveHeld
  /\ \E expiry \in {"due", "later"} : at' = [at EXCEPT ![t] = expiry]
  /\ phase' = [phase EXCEPT ![t] = "looking"]
  /\ UNCHANGED <<slave, disabled, masterPool, slavePool, answer, runner, faults>>

InsertError(t) ==
  /\ Saving(t) /\ Borrowed(<<"save", t>>) /\ t \in slaveHeld /\ Fault
  /\ Answer(t, "fail") /\ Released(<<"save", t>>) /\ ReleasedSlave(t)
  /\ UNCHANGED <<tables, line, slaveLine, runner>>

(* savedToSlave looks for the row a number of times, and gives up when the *)
(* last look does not find it or fails.                                    *)
MutantFound(t) == TRUE

Found(t) == t \in slave

Looked(t, outcome) ==
  /\ phase[t] = "looking" /\ phase' = [phase EXCEPT ![t] = outcome]
  /\ Released(<<"save", t>>) /\ ReleasedSlave(t)
  /\ UNCHANGED <<tables, line, slaveLine, answer, runner>>

LookAtSlave(t) ==
  Looked(t, IF Found(t) THEN "enabling" ELSE "removing") /\ UNCHANGED faults

LookError(t) == Looked(t, "removing") /\ Fault

(* enableTask and removeTaskFromMaster run on the connection that was      *)
(* released: their statements are queued before those of its next user.    *)
(* An error of the first is passed on, one of the second is ignored.       *)
Enable(t) ==
  /\ phase[t] = "enabling"
  /\ \/ Answer(t, "complete") /\ UNCHANGED faults
     \/ Answer(t, "fail") /\ Fault
  /\ UNCHANGED <<tables, masterPool, slavePool, runner>>

MutantRemoveFromMaster(t) ==
  /\ phase[t] = "removing" /\ Answer(t, "complete")
  /\ at' = [at EXCEPT ![t] = "absent"]
  /\ UNCHANGED <<slave, disabled, masterPool, slavePool, runner, faults>>

RemoveFromMaster(t) ==
  /\ phase[t] = "removing" /\ Answer(t, "fail")
  /\ \/ at' = [at EXCEPT ![t] = "absent"] /\ UNCHANGED faults
     \/ UNCHANGED at /\ Fault
  /\ UNCHANGED <<slave, disabled, masterPool, slavePool, runner>>

-----------------------------------------------------------------------------
(* listenTask and _poll: an interval starts a poll whether or not the one  *)
(* before has come to its end.                                             *)
Listen ==
  /\ listener = "off" /\ listener' = "on"
  /\ UNCHANGED <<tables, masterPool, slavePool, saves, polling, taken, passedOn, faults>>

(* The runner has lost its servers, a fault.  The interval is cleared; a   *)
(* poll under way will still call the listener it was given.               *)
Stop ==
  /\ listener = "on" /\ listener' = "off" /\ Fault
  /\ UNCHANGED <<tables, masterPool, slavePool, saves, polling, taken, passedOn>>

Tick(p) ==
  /\ listener = "on" /\ polling[p] = "idle"
  /\ polling' = [polling EXCEPT ![p] = "open"]
  /\ line' = Append(line, <<"poll", p>>)
  /\ UNCHANGED <<tables, free, held, slavePool, saves, taken, listener, passedOn, faults>>

(* The transaction: every due row is selected and its old expiry moved by  *)
(* 1000 seconds, so that a row overdue for longer stays due.               *)
PollCommit(p) ==
  /\ polling[p] = "open" /\ Borrowed(<<"poll", p>>)
  /\ polling' = [polling EXCEPT ![p] = "committed"]
  /\ LET due == {t \in Tasks : at[t] = "due"} IN
     /\ taken' = [taken EXCEPT ![p] = due]
     /\ \E overdue \in SUBSET due :
          at' = [t \in Tasks |-> IF t \in due \ overdue THEN "later" ELSE at[t]]
  /\ UNCHANGED <<slave, disabled, masterPool, slavePool, saves, listener, passedOn, faults>>

(* The runner has each task updated, and disabled if this was its last     *)
(* time: the first pass of a task of Once, or a later one for which the    *)
(* row still had the old count.  The rows come in any order.               *)
UsesFor(tasks, last) ==
  {order \in SetToSeqs(({"update"} \X tasks) \cup ({"disable"} \X last)) :
     \A i \in DOMAIN order : order[i][1] = "disable" =>
       i < Len(order) /\ order[i + 1] = <<"update", order[i][2]>>}

PollDone(p) ==
  /\ polling[p] = "committed" /\ Released(<<"poll", p>>)
  /\ \E again \in SUBSET (taken[p] \cap Once \cap passedOn) :
       \E uses \in UsesFor(taken[p], again \cup ((taken[p] \cap Once) \ passedOn)) :
         line' = line \o uses
  /\ passedOn' = passedOn \cup taken[p]
  /\ polling' = [polling EXCEPT ![p] = "idle"] /\ taken' = [taken EXCEPT ![p] = {}]
  /\ UNCHANGED <<tables, slavePool, saves, listener, faults>>

(* Nobody hears of a poll that gets no connection or is rolled back.       *)
PollError(p) ==
  /\ Fault
  /\ \/ /\ line # <<>> /\ Head(line) = <<"poll", p>> /\ free > 0
        /\ line' = Tail(line) /\ UNCHANGED <<free, held, slavePool>>
     \/ polling[p] = "open" /\ Ends(<<"poll", p>>)
  /\ polling' = [polling EXCEPT ![p] = "idle"]
  /\ UNCHANGED <<tables, saves, taken, listener, passedOn>>

-----------------------------------------------------------------------------
(* updateTask writes the row if there is one.                              *)
MutantUpdated(t) == at' = [at EXCEPT ![t] = "later"]

Updated(t) == at' = [at EXCEPT ![t] = IF @ = "absent" THEN @ ELSE "later"]

Update(t) ==
  /\ Ends(<<"update", t>>) /\ Updated(t)
  /\ UNCHANGED <<slave, disabled, saves, runner, faults>>

(* disableTask moves the row to another table.  Once its transaction is    *)
(* committed it keeps its connection.                                      *)
Disable(t) ==
  /\ Borrowed(<<"disable", t>>) /\ held' = [held EXCEPT ![<<"disable", t>>] = @ - 1]
  /\ disabled' = disabled \cup ({t} \cap Stored)
  /\ at' = [at EXCEPT ![t] = "absent"]
  /\ UNCHANGED <<slave, line, free, slavePool, saves, runner, faults>>

(* completeTask, called for every job "done" of the task.                  *)
Eject(t) ==
  /\ t \in passedOn
  /\ ~Borrowed(<<"complete", t>>) /\ <<"complete", t>> \notin ToSet(line)
  /\ line' = Append(line, <<"complete", t>>)
  /\ UNCHANGED <<tables, free, held, slavePool, saves, runner, faults>>

Complete(t) ==
  /\ Ends(<<"complete", t>>) /\ at' = [at EXCEPT ![t] = "absent"]
  /\ UNCHANGED <<slave, disabled, saves, runner, faults>>

(* An error of update or disable makes the runner disconnect; the ejector  *)
(* only reports one of complete.                                           *)
StatementError(u) ==
  /\ Fault
  /\ \/ u[1] \in {"update", "disable", "complete"} /\ Ends(u)
     \/ /\ u[1] = "disable" /\ line # <<>> /\ Head(line) = u /\ free > 0
        /\ line' = Tail(line) /\ UNCHANGED <<free, held, slavePool>>
  /\ listener' = IF u[1] = "complete" THEN listener ELSE "closed"
  /\ UNCHANGED <<tables, saves, polling, taken, passedOn>>

(* The daemon stops and is started again.  That is also what becomes of it *)
(* when updateTask or completeTask gets no connection: they do not look at *)
(* the error.                                                              *)
Crash ==
  /\ Fault
  /\ line' = <<>> /\ free' = Limit /\ held' = [u \in Uses |-> 0]
  /\ slaveLine' = <<>> /\ slaveFree' = Limit /\ slaveHeld' = {}
  /\ phase' = [t \in Tasks |-> IF phase[t] = "none" THEN "none" ELSE "over"]
  /\ polling' = [p \in Polls |-> "idle"] /\ taken' = [p \in Polls |-> {}]
  /\ listener' = "on"
  /\ UNCHANGED <<tables, answer, passedOn>>

-----------------------------------------------------------------------------
(* The slave catches up with a row, and time passes.                       *)
Replicate(t) ==
  /\ (t \in slave) # (t \in Stored)
  /\ slave' = (slave \ {t}) \cup ({t} \cap Stored)
  /\ UNCHANGED <<at, disabled, masterPool, slavePool, saves, runner, faults>>

Expire(t) ==
  /\ at[t] = "later" /\ at' = [at EXCEPT ![t] = "due"]
  /\ UNCHANGED <<slave, disabled, masterPool, slavePool, saves, runner, faults>>

SaveStep(t) == Insert(t) \/ LookAtSlave(t) \/ Enable(t) \/ RemoveFromMaster(t)

PollStep(p) == Tick(p) \/ PollCommit(p) \/ PollDone(p)

Next ==
  \/ GrantMaster \/ GrantSlave \/ Listen \/ Stop \/ Crash
  \/ \E t \in Tasks :
       \/ Save(t) \/ SaveStep(t) \/ InsertError(t) \/ LookError(t)
       \/ SaveWithoutMaster(t) \/ SaveWithoutSlave(t)
       \/ Update(t) \/ Disable(t) \/ Eject(t) \/ Complete(t)
       \/ Replicate(t) \/ Expire(t)
  \/ \E p \in Polls : PollStep(p) \/ PollError(p)
  \/ \E u \in Uses : StatementError(u)

Spec == Init /\ [][Next]_vars

(* The pools, the databases and the timers go on; clients, the ejector and *)
(* faults do as they like.                                                 *)
Fairness ==
  /\ WF_vars(GrantMaster) /\ WF_vars(GrantSlave) /\ WF_vars(Listen)
  /\ \A t \in Tasks :
       /\ WF_vars(SaveStep(t)) /\ WF_vars(Replicate(t)) /\ WF_vars(Expire(t))
       /\ WF_vars(Update(t)) /\ WF_vars(Disable(t)) /\ WF_vars(Complete(t))
  /\ \A p \in Polls : WF_vars(PollStep(p))

FairSpec == Spec /\ Fairness

-----------------------------------------------------------------------------
TypeOK ==
  /\ at \in [Tasks -> {"absent", "later", "due"}]
  /\ slave \in SUBSET Tasks /\ disabled \in SUBSET Tasks
  /\ line \in Seq(Uses) /\ slaveLine \in Seq(Tasks)
  /\ free \in 0..Limit /\ slaveFree \in 0..Limit
  /\ held \in [Uses -> 0..Limit] /\ slaveHeld \in SUBSET Tasks
  /\ phase \in [Tasks -> {"none", "connecting", "looking", "enabling", "removing", "over"}]
  /\ answer \in [Tasks -> {"none", "complete", "fail"}]
  /\ polling \in [Polls -> {"idle", "open", "committed"}]
  /\ taken \in [Polls -> SUBSET Tasks]
  /\ listener \in {"on", "off", "closed"}
  /\ passedOn \in SUBSET Tasks /\ faults \in 0..MaxFaults

(* A task acknowledged to the client is at the master and at the slave     *)
(* until it was passed on, whatever saves and polls overlap with its own.  *)
AcknowledgedIsOnBoth ==
  \A t \in Tasks : answer[t] = "complete" /\ t \notin passedOn => t \in Stored \cap slave

(* A row that was deleted, removed or disabled never comes back, not even  *)
(* by an update computed before.                                           *)
GoneStaysGone ==
  [][\A t \in Tasks : t \notin Stored /\ phase[t] \notin {"none", "connecting"}
                      => t \notin Stored']_vars

(* The mysql adapter keeps what an adapter promises.  Whoever is passed a   *)
(* task may have it deleted.                                               *)
Store == INSTANCE TaskStore WITH
  state <- [t \in Tasks |->
    [phase |-> IF phase[t] \in {"none", "over"} THEN phase[t] ELSE "saving",
     answer |-> answer[t],
     row |-> IF t \in Stored THEN "waiting"
             ELSE IF t \in disabled THEN "retired" ELSE "absent",
     passed |-> t \in passedOn, done |-> t \in passedOn]],
  mixed <- {}

StoreImplemented == Store!Spec

(* A pool all of whose connections went to saves called off and tasks      *)
(* disabled.                                                               *)
MasterDry == free = 0 /\ \A u \in Uses : held[u] = 0
SlaveDry == slaveFree = 0 /\ slaveHeld = {}

(* Saves do not wait for one another for ever although each needs a        *)
(* connection of both pools: each comes to its end, or a pool is dry.      *)
SavesEnd ==
  \A t \in Tasks : phase[t] = "connecting" ~> phase[t] = "over" \/ MasterDry \/ SlaveDry

-----------------------------------------------------------------------------
(* "if the injector fails to insert the task to the persistent storage, it *)
(* will send WORK_WARNING [...] followed by WORK_FAIL to the caller. This  *)
(* always means that the job *will not* be executed" (README.md:76).       *)
RefusedIsNotPassedOn == \A t \in Tasks : answer[t] = "fail" => t \notin passedOn

(* "injector will send gearman WORK_COMPLETE to the caller. This means     *)
(* that the task *will* be executed" (README.md:70).                       *)
AcknowledgedIsPassedOn ==
  \A t \in Tasks : answer[t] = "complete" ~> t \in passedOn
=============================================================================
