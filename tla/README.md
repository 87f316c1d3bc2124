# Gearsloth in TLA+

Gearsloth delays and retries Gearman jobs. A client hands a task to an
*injector*, which stores it in a database; when its time has come a *runner*
takes it from the database and sends it to a *controller*, which has a target
worker execute it and tells an *ejector* to delete it. Until it is deleted (or
disabled, when its `runner_retry_count` is used up) runners keep passing it on.

The specifications in this directory model that pipeline, the connections of
its components to the job servers, the mysql and the composite adapter, the start
of the daemon from its command line, and what becomes of the values of a task's
fields, all from the code in `src/lib`. They check them on small instances with
TLC and prove their safety properties for instances of every size with TLAPS.

## 1. The system

| Component (source) | State it keeps | Operations | Interacts with |
|---|---|---|---|
| sqlite adapter (`adapters/sqlite.js`) | one table of rows (id, task, `at`, disabled) in a file that all processes share; per listener a flag `cont` and an armed timer | `saveTask`, `listenTask` (a `poll()` that re-arms itself: SELECT due rows, one conditional UPDATE per row, callback), the stop function, `updateTask`, `disableTask`, `completeTask` | called by injector, runner, ejector; calls the runner's listener |
| injector (`daemon/injector.js`) | none beyond the request it is answering | validate, save, answer the client with complete or fail | foreground jobs of `submitJobDelayed`; the adapter |
| runner (`daemon/runner.js`, `component.js`) | connection state, the stop function of its listener, statements it has issued and not awaited | connect, disconnect, the listener: `updateTask` then `sendToController`, disconnect after a database error | adapter, background jobs to the controller |
| retry controller (`controllers/retry.js`) | the round of every execution in progress | receive a task and answer at once, up to `retry_count` + 1 rounds, report success | foreground jobs to the target function, background jobs to `delayedJobDone` |
| ejector (`daemon/ejector.js`) | none | delete the row of a task reported done | background jobs of `delayedJobDone`; the adapter |
| Gearman job servers (external) | queued jobs, in memory | hand a job to some worker, hand it out again if the worker goes away, forget it if the server dies | everything above but the adapter |
| connections (`gearman/multiserver*.js`, `component.js`) | connected servers counted by events, a round-robin index | `connect` and `disconnect` at the edges 0/1, the choice of a connected client | all components |
| daemon (`daemon/index.js`, `bin/gearslothd`) | its components, and which of them are connected | read the configuration, open the databases, start the components, log the edges of "all connected" | configuration, adapters, component events |
| mysql adapter (`adapters/mysql.js`) | tables on a master with a slave, a connection pool, the listener | save on the master and wait for the slave, poll in a transaction, move disabled rows to another table | as the sqlite adapter |
| composite adapter (`adapters/composite.js`) | databases by id, a round-robin index shared by all saves | open every database, failover in `saveTask`, ids wrapped with the database's id and unwrapped again in place | other adapters, as one more of them |
| configuration (`config/*.js`, `merge.js`) | while it parses: the index of the next argument, what the options and `--conf` say | walk over the command line, find and read the file, merge, validate, add the defaults | called by gearslothd |
| task encoding (`gearsloth.js`) | none | encode and decode the binary fields of a task | clients, the retry controller, custom controllers |

**What makes it hard.** Every component may run in several processes; the only
shared state is the table and the queued jobs. A poll is a SELECT, an UPDATE
per row and a callback with other processes' statements in between, and the
task it passes on is the row of the SELECT. The runner awaits none of its
statements. Background jobs have no answer and are lost with their server; jobs
whose answer is lost are done twice. A process may stop between any two steps,
and then only the lease in the table brings the task back. A runner that met a
database error disconnects and never comes back while its process lives.

**What makes each component correct.**

- adapter: a due row is leased by one poller however many have SELECTed it; a
  disabled row is out of circulation; a stopped listener polls no more.
- injector: an acknowledged task is in the database and its time can come.
- runner: a task is passed on as often as its count says, then disabled, and
  not sooner; whatever fails after the lease, the task comes back.
- controller and ejector: a row is deleted only after its task has been
  executed.
- pipeline: an acknowledged task is executed or still there; and some day it is
  gone or disabled.
- connections: what a component and the daemon say of them is so; a job goes to a
  live connection, and no server is left out for ever.
- mysql adapter: an acknowledged task is at master and slave; a row that was
  deleted stays deleted; whoever waits for a pooled connection gets one.
- composite adapter: a task is saved in one database or, if refused, in none;
  what comes back for a task reaches the database the task came from.
- every adapter: what `TaskStore` says of the answer of `saveTask`, the row and
  the passes of a task.
- configuration and daemon: the daemon runs the modes and settings it was told, by
  whoever ranks highest, with all its databases, or the process ends.
- task fields: a task that is written as documented is stored, its time comes, and the
  function it names is called as often as its counts say.

`PROJECT.json` lists the hazards of the code at the line where each one bites,
with the properties that cover it; four have none and say why.

## 2. The modules and the code

    Tasks ──┬── SqliteAdapter ──┬── Injector ───────────┐
            │                   ├── Runner ─────────────┤
            └── Gearman ────────┼── RetryController ────┼── Gearsloth ── MC*
                                └── Ejector ────────────┘       │
                                                        GearslothProofs
                                                      GearslothLossProofs
                                                     GearslothStoreProofs

    ComponentLink ── Connections ──┬── MCConnections
                                   └── ConnectionsProofs

    TaskStore ──┬── Gearsloth
                ├── MysqlAdapter ───── MysqlProofs
                └── CompositeAdapter ─┬─ MCComposite
                                      └─ CompositeProofs

    Configuration ── Startup ──┬── MCStartup
                               └── StartupProofs

    TaskFields ──┬── MCTaskFields
                 └── TaskFieldsProofs

- **Tasks**: parameters, the task as the database holds it, the fault budget. A
  task is its *key*, one per submission, and `left`, its `runner_retry_count`;
  its function and payload pass through unchanged. The code tests the count
  with `isNaN` and `=== 0` after a decrement, so that undefined, non-numbers,
  zero and negative counts are one value, `Unlimited`, and a count below zero
  never becomes zero again. An expiry is "due", "later" or "null" (SQL's NULL,
  which is what `datetime('now', '+null seconds')` yields and which no poll
  ever selects). The parameter `At` may also be "invalid".
- **SqliteAdapter**: one step per SQL statement, because sqlite makes a
  statement atomic and nothing else. `Select`, `Lease` (with its predicate
  repeated) and the callback (`Deliver` in Runner) are the three parts of
  `poll()`; a loop's timer fires in `LiveRound` or `HaltedRound`. `Listen` and
  `Halt` are `listenTask` and the function it returns: halting clears `cont` but
  leaves the timer armed, so `stopped` counts halted loops with one round to go.
  `IsNextRowid` is sqlite's rule for `INTEGER PRIMARY
  KEY` without AUTOINCREMENT: one more than the largest id in the table.
  `Expire` is time passing. `born` and `claims` are history.
- **Gearman**: background jobs as a bag (`jobs`), external. Handing out and
  answering is one step (`Take`), or the answer is lost and the job stays
  (`TakeUnanswered`); `LoseJob` is a dead server.
- **Injector**: `Request`, `Reject`, `Inject`, `Acknowledge`, `InjectError`,
  `InjectorCrash`. INSERT and answer are two steps with a possible crash between.
- **Runner**: its link to the servers, and its statements in the order issued
  (`writes`: `database.serialize` keeps them in order, nothing keeps another
  process's statements out). A serialized statement waits for the leases of its
  connection and for the statements issued before it; the timer of the next
  round may fire while leases still run, so that its SELECT overtakes the
  updates of this round. `earlier` counts the statements it may not overtake.
  `Deliver` is the whole listener. `ApplyWrite` and `WriteError` are what
  becomes of a statement. A database error calls `disconnect()`; the event comes
  later (`Closed`) and nothing connects the runner again. A runner without a
  server lets the client library buffer the job.
- **RetryController**: `executing` counts the target jobs of each round. The
  controller answers its own job before it looks at the task, so `Receive` takes
  the job and starts round 1 in one step; a round that finds no server is given
  up. The target's workers answer with success or failure; a dead server loses
  the job and with it the answer (`LoseExecution`), and an answer that finds the
  controller gone is lost too (`ControllerCrash`).
- **Ejector**: `Eject` and `EjectError`.
- **Gearsloth**: the composition. Every action of a component is conjoined with
  the UNCHANGED of the others in `InjectorDoes`, `RunnerDoes` and so on. It
  holds the specification, the fairness and all properties.
- **TaskStore**: the abstract specification of a database adapter in use. Of each
  task it has the call of `saveTask`, the answer, the row (absent, waiting,
  retired) and whether it was passed to a listener and executed; `Move` lists the
  steps one task may make: an acknowledgement needs a row or an execution, only
  what was passed on is disabled, only what was executed deleted, and what a
  failing save withdraws was not acknowledged. `Gearsloth`, `MysqlAdapter` and
  `CompositeAdapter` implement it, each under the mapping beside its `Store`. The
  tasks in `mixed` are promised nothing: in sqlite, those whose row has shared its
  id with another task's.
- **MCPipeline, MCRunners, MCLiveness**: instances for TLC.
- **Connections**: any number of components, each with a client half, a worker
  half or both (`Roles`), and `N` servers. `live` is the truth, which nobody in
  the code sees: `count` and `connected` are a Multiserver's own fields,
  `announced` and `logged` what the daemon makes of the events of its components.
  `Opened` and `Lost` are one event of a connection with everything it sets off
  in the same turn of the event loop: counter, flag, forwarding by the component
  (`Emit`), `setConnected`. `Send` is `submitJob` or `submitJobBg`, with the loop
  of `_pickConnectedClient` in `Picks`. `passed` is history. The connection with
  its reconnecter (gearman-coffee) is external; assumed of it is what the code
  relies on: 'connect' when a connection comes up, 'disconnect' without an error
  when a live one is lost, and nothing after the 'disconnect' that follows
  `disconnect()`. ('disconnect' with an error is a failed attempt, which the code
  skips.)
- **ComponentLink**: what a component promises of its events, as an abstract
  specification: "up" and "down" in turn, and after `disconnect()` "closing", if
  it was up, and "closed" for good. `Connections` implements it under the mapping
  that `Link` states, and the `link` of Runner in the pipeline is of this kind.
- **MysqlAdapter**: one daemon with an injector, a runner and an ejector on one
  adapter. A row is its task, for InnoDB gives an id once. `line` and `slaveLine`
  are those waiting for a pooled connection, `held` and `free` who has one and
  what is left; that a save gives up while it waits for one connection and then
  gets it (`GrantMaster`, `GrantSlave` when the save is over), and that `Disable`
  gives none back, is part of the code. `LookAtSlave` is the last look of
  `savedToSlave`: the looks before it only wait for the slave. A poll is
  `Tick`, `PollCommit` (the transaction) and `PollDone`, which calls the listener
  and thereby asks for the updates, of the rows in any order, the disabling of
  each directly before its update (`UsesFor`). The runner's count is reduced to `Once`, the
  tasks whose first pass is their last. The code is written for the async library
  of its time (0.9), as the order of the parameters of `savedToSlave` shows, and
  is modelled so; `package.json` asks for any version.
- **CompositeAdapter**: injectors, runners and ejectors over a composite of `N`
  databases, which may go down and come back. `trying` counts the calls of a
  database's `saveTask` that are not back; `AttemptFails` is the callback with an
  error, which calls the composite's `saveTask` again with the same `failcounter`,
  twice if the database is one of `Twice` (sqlite calls back twice). `index` is
  `_round_robin_index`, one for all. A `Name` is the wrapped id. `Connect` is
  `listenTask`, which returns no stop function, so that nothing but a crash takes a
  runner out of `listening`. `PassTask` is the whole listener, with what the
  unwrapping in place makes of the two calls of a last pass (`LastPass`). The
  databases below are reduced to what the composite sees of them: a statement
  works or fails; composites are not nested.
- **Configuration**: `parseCommandLineOptions` argument by argument and, within a
  group like `-rve`, letter by letter (`Letter`, `FileLetter`); the long options;
  `--conf`; then `initialize` in `Configure`: the named file or the first of the
  usual ones, the merging and the validation. A configuration is a function from
  the fields it has, so that "not there" and "false" differ as they do in the code.
- **Startup**: gearslothd from there on: `Resolve` checks the controller and the
  entries of a composite, `Opened` and `OpenError` are the databases coming up in
  any order, `Run` adds the components. A wrong entry is reported and no `return`
  follows (composite.js:165-167), but the callback it is reported to throws
  (config/index.js:103-105), which is `ResolveError`.
- **TaskFields**: one task with any JavaScript value in every field, as
  `{type, number}`, through `encodeTask` or plain JSON, the injector's checks, the
  expiry that sqlite or mysql makes of `at` and `after`, the runner's arithmetic on
  `runner_retry_count` and the controller's on `retry_count`. `IsNaN`, `Truthy`,
  `ParseInt` and `Plus1` are JavaScript's; a number is an integer. A pass writes count,
  `after` and expiry in one statement (`WriteBack`), which fails as a whole
  (`WriteError`). `AtPasses` and `Expire` are apart, for an `after` that supersedes `at`
  may come before or after it; a row that goes by `at` waits for it, as it does with
  `pre_poll` 0, the default. `AsDocumented` says what README and tests take for a task,
  and owes nothing to the injector's checks.
- Operators named `Mutant...` are plausible bugs in the definition below them;
  nothing uses them. They serve to see that a property would notice.

Deployment assumed: each component in a process of its own with its own
connection to one sqlite file, as `src/debian` and `src/test/docker` do it.
`dbopt.default_timeout`, the length of a lease, is assumed to be longer than
`dbopt.pre_poll`, how early a row counts as due: otherwise a leased row would
still be due and no lease would exist at all (the defaults are 1000 and 0).

## 3. The runs

| Run | Instance | What it shows |
|---|---|---|
| `pipeline` (MCPipeline.cfg) | 1 runner, 2 tasks (`a` due and retried at once, `b` never due) and a request that is refused, 2 rowids, 1 fault anywhere; 0.47 million states | `TypeOK`; `LostOnlyByIdReuse`: an acknowledged task has run or is stored, except where its rowid was given to another task too; `StoreImplemented`: the whole pipeline implements `TaskStore` |
| `runners` (MCRunners.cfg) | 2 runners, 1 task retried twice and at once, 1 fault anywhere; 0.9 million states (up to symmetry of the runners) | `OneDeliveryPerExpiry`, `NeverDisabledEarly`, `RetiredStaysRetired` |
| `liveness` (MCLiveness.cfg) | 2 runners, 1 task retried for ever, 2 controller rounds, 1 fault anywhere; 0.2 million states | `Settles`: an acknowledged task is some day deleted or disabled, or every runner has closed its connections after a database error |
| `id_reuse` | the pipeline without faults | README.md:70 promises that an acknowledged task *will* be executed; refuted: a statement left over from a deleted row hits a new task with its id |
| `stale_count` | the runners without faults and with leases that do not run out (`PromptSpec`) | README.md:248-251 on `runner_retry_count`; refuted: a runner leases a row another runner has updated since, and writes back the count of its old copy |
| `connections` (MCConnections.cfg) | an injector (worker) and a controller (client and worker), 3 servers; 52,000 states | `TypeOK`; `DaemonTellsTheTruth`; `NoServerStarves`; `SentToLive`; `LinkImplemented`: the events are those of `ComponentLink`, its fairness included |
| `mysql` (Mysql.cfg) | 2 tasks, one of them disabled at its first pass, pools of 1 connection, 1 fault anywhere; 0.34 million states | `TypeOK`, `AcknowledgedIsOnBoth`, `GoneStaysGone`, `StoreImplemented`, and `SavesEnd`: every save ends unless a pool has run dry |
| `composite` (MCComposite.cfg) | 2 databases, one of which calls back twice on an error, 1 runner, 2 tasks (one disabled at its second pass, one retried for ever), 2 faults anywhere; 86,930 states | `KeptUntilRun`: no statement hits a task of another database; `SavedOnce`: failover saves once or nowhere; `StrandedOnLastPass`: a task that is never sent was disabled by a last pass; `StoreImplemented`; `SavesEnd` |
| `startup` (MCStartup.cfg) | 9,222 combinations of a command line of up to four arguments and files; 82,788 states | `Usable`, `ModesAsTold`, `SettingsAsTold` (who ranks highest, found without walking over the arguments), `DatabasesAsTold`, `AlwaysAdvances` (no step leads back), and `Ends`: the daemon runs or the process ends |
| `fields` (MCTaskFields.cfg) | 13 values of every type in each field, with both adapters; 26,338 states | `ComesBack`: which values make a task wait for ever; `PassedAsTold`, `TriedAsTold`, `CalledAsNamed`; `StoredHasName` and `DocumentedIsStored`: what is stored can be called and what is documented is stored, with one exception each |
| `mysql_refused` | the same without faults | README.md:76 promises that a refused task *will not* be executed; refuted: a poll passes the row on before it is removed from the master |
| `mysql_pool` | the same without faults | README.md:70; refuted: a disabled task has taken the last connection, and nothing is polled any more |

The bounds: `MaxId` rowids, `MaxRounds` controller rounds (at least `RetryCount`
+ 1, so that it never cuts a round off), `MaxCopies` equal jobs in the queues
and equal executions, `MaxFaults` faults in a behaviour. Two tasks and two ids
are what the reuse of an id needs (one task leaves, another gets its id); two
runners are what a race for a row needs; one fault at any point meets every
single crash, loss, or failed statement at every point of the protocol. The
controller goes to its second round in `liveness`. With one copy of each job a
second equal job waits to be sent until the first has been taken, which delays a
step and hides none of the states these properties speak of; the proofs below
hold for every bound. `handed` stops one above the retry count: no property
looks further.

Connections are finite without a bound: the round robin and the counters repeat.
Two servers meet every way a counter can go up and down past the edge; three give
the round robin live and dead servers on both sides of its index. In `mysql`, two
saves over pools of one connection are the smallest case in which saves could
block one another; a pool of ten runs dry after ten disabled tasks as that of one
does after one. `Polls` bounds how many polls overlap.

In `pipeline` a request that will be refused is refused before anything else is
asked for (`RefusedFirst`, a constraint on the instance): it leaves nothing
behind, and to have it wait beside every other state shows nothing more.

In `composite`, `MaxWrites` bounds the statements of one runner that wait in one
database. Two databases are enough for equal ids, for a failover, and for a
callback that comes twice in the middle of one; one runner suffices as its loops
and the ejector already meet in every order, and two runners differ only in races
for a row that `runners` has. Two faults let both databases be down at once. In
`startup`, an argument of every kind meets every other, `-f` in the middle of a
group and twice in one included; the file system has no file, one, or two at the
usual places. In `fields`, `MaxPasses` and `MaxRounds` are one more than
the largest count that is tried, so that a task passed on once too often would show.


Deadlock is not checked where a behaviour can really end: once every task is
deleted or disabled and the runners that met an error are closed nothing is left
to happen, and the bounds (a rowid or a copy that is not there) can end a
behaviour that in the code would go on.

### Fairness

`Settles` is checked under weak fairness of what the event loop, the timers and
the job servers do by themselves: connecting, a timer's round, each statement's
turn, each callback, a waiting job handed out, a target's answer, time passing.
Strong fairness is assumed of one thing outside the system: a task that
is tried over and over is executed successfully some day; without it no retry
strategy would help. Faults (lost jobs, crashes, failed statements, lost
connections) are never fair, and are finitely many. Nothing is assumed of the
injector: a submission that stays queued promises nothing.

`LinkImplemented` needs that a connection told to close goes away. `SavesEnd` and
`mysql_pool` assume weak fairness of the pools (who asks first is served first),
of the statements under way, the replication, the interval of the poll and time;
lost servers and failures are faults, finitely many. In `composite`, `SavesEnd`
assumes only that a database that was called calls back, with an error if it is
down. `Ends` assumes that the one thread of the start goes on and that the opening
of a database ends or fails.

## 4. The proofs

`GearslothProofs`, `GearslothLossProofs` and `GearslothStoreProofs` prove, for any
sets of tasks and runners, any parameters and bounds that satisfy the assumptions
in `Tasks`:

| Theorem | Statement | Argument |
|---|---|---|
| `TypeCorrect` | `Spec => []TypeOK` | inductive by itself, one lemma per component; the hard conjunct is that `stopped` is a natural number |
| `LeasedOnce` | `Spec => []OneDeliveryPerExpiry` | `LeaseInv`: a row leased since it became due is not due now. A lease needs a due row, and whatever makes it due clears `claims`. `UniqueIds` is needed, for an UPDATE names its row by id |
| `RetiredForGood` | `Spec => RetiredStaysRetired` | every step is at most one statement (`StepIsStatement`), no statement clears `disabled`, and `Due` keeps disabled rows out of leases |
| `NothingElseIsLost` | `Spec => []LostOnlyByIdReuse` | `BornInv`: whatever names a row (a row, a snapshot, a pending statement, a job, an execution) names an id and a task that were once inserted together, and a job "done" is only there for a task that has run. So a DELETE under the id of a stored task is for that task, which then has run, or the id had two tasks |
| `DisabledInTime` | `Spec => []NeverDisabledEarly` | `CountInv`: every copy of a task, however stale, has a count no smaller than its retry count minus the passes so far, so a copy that reaches zero has been passed on often enough |
| `PipelineImplementsStore` | `Spec => StoreImplemented` | while the id of a task's row was given to that task alone, `BornInv` says that whoever writes or deletes the row means this task, and `CountInv` that whoever disables it has passed it on; `SubmittedInv`: nothing is inserted that was not submitted |

`ConnectionsProofs` proves, for any components, roles and number of servers:

| Theorem | Statement | Argument |
|---|---|---|
| `ConnectionTypes` | `Spec => []TypeOK` | needs `CountInv`: only because a counter counts live connections does it stay between 0 and `N` |
| `TruthTold` | `Spec => []DaemonTellsTheTruth` | `CountInv`: a counter is the number of live connections of its half, the flags say which are not zero, and what the daemon holds of a component is that all its halves are connected, whether or not the last event was forwarded |
| `NoneStarves` | `Spec => []NoServerStarves` | `TurnInv`: the jobs sent past a live server and its distance from the index add up to at most `N`, for every pick moves the index at least one on and never past the server |
| `LiveIsPicked` | `Spec => SentToLive` | from `CountInv` (a client with a live connection knows it) and the fact that a round of `N` steps visits every server |
| `LinkKept` | `Spec => Link!LinkSafety` | step simulation: every step of the connections is a move of one link or none |

`MysqlProofs` proves, for any finite set of tasks and any polls, pools and faults:

| Theorem | Statement | Argument |
|---|---|---|
| `GoneForGood` | `Spec => GoneStaysGone` | only `Insert` makes a row of nothing, and a save inserts once, in the phase "connecting" |
| `AcknowledgedOnBoth` | `Spec => []AcknowledgedIsOnBoth` | `UseInv`: a "disable" or "complete", waiting or with its connection, is for a task that was passed on; `SaveInv` says what each phase of a save knows of the row, and `Change` lists all that a step can do to one task |
| `MysqlImplementsStore` | `Spec => StoreImplemented` | every `Change` of a task is a `Move` of `TaskStore` |
| `MysqlTyped` | `Spec => []TypeOK` | the bound of a pool is a sum over its users, stated as the cardinality of the set of connections in use (`Tokens`); that a release never adds one too many needs `MasterPlace` and `SlavePlace`: a save waits for each connection once, not for one it has, and holds both while it looks |

`CompositeProofs` proves, for any tasks, runners, databases, counts and bounds:

| Theorem | Statement | Argument |
|---|---|---|
| `CompositeTyped` | `Spec => []TypeOK` | inductive by itself; the counts of calls are natural numbers for a callback needs a call, and `PickInDbs` keeps the round robin in the list |
| `FailoverSavesOnce` | `Spec => []SavedOnce` | `TryInv`: no call is under way for a task nobody asked to save, and a task none of whose failures was called back twice has at most one attempt under way, and then neither an answer nor a copy |
| `CompositeKeepsTasks` | `Spec => []KeptUntilRun` | the id and the database together name one task for ever (`given` grows only), so that whatever names a row, a statement, a job, an execution, names the task's own |
| `OnlyLastPassStrands` | `Spec => []StrandedOnLastPass` | a "disable", waiting or done, comes from a last pass, which needs a count above zero, and a deletion from a job that was sent |
| `CompositeImplementsStore` | `Spec => StoreImplemented` | each action is, for each task, a `Move` of `TaskStore` (`MoveOf` tells moves by the parts of the state) |

`StartupProofs` proves, for any command lines, files, controllers and adapters:

| Theorem | Statement | Argument |
|---|---|---|
| `AlwaysUsable` | `Spec => []Usable` | what passed validation is usable once cleaned, and merging keeps that; the options count from the end of the parser on, `--conf` from the moment it is read |
| `EveryEntryOpened` | `Spec => []DatabasesAsTold` | `OpenInv`: an entry that is not being opened any more has its id among the databases, and what goes by an id is an entry of that id |
| `StartupTyped` | `Spec => []TypeOK` | the parser takes an argument only where there is one |
| `ModesAlwaysAsTold` | `Spec => []ModesAsTold` | `ToldInv`, see below |
| `SettingsAlwaysAsTold` | `Spec => []SettingsAsTold` | `ToldInv` |
| `StartAdvances` | `Spec => AlwaysAdvances` | every step goes on to a later phase, argument or letter, or leaves one database less to open; that a letter is taken from a sequence is part of `At` |

`ModesAsTold` and `SettingsAsTold` compare what a parser makes of a command line, step
by step, with what the command line says, which is defined without a parser: the
options are the least set of arguments that has the first and, with each option, the
one after its paths (`Options`). The proof joins the two without induction over the
arguments. An item is an option, or one letter of a group; `At(k, j)` says that the
parser is before the item `<<k, j>>`: with what is left of a group in `letters`, and as
many paths taken already as `f`s precede the letter (`Count`). Every step of the parser
takes the next item (`WholeStep`, `LetterStep`) and no option lies between two that
follow one another, for the arguments without those in between would be a smaller set
of options (`NoneBetween`). `Read(R)` says what `conf`, `jsonconf` and `file` hold once the
items `R` are read, in terms of the last of them to say something, and each action does
to `Read` what its item asks (`Takes`, `ReadNext`). At the end all options are read
(`AllRead`), that is `Told`; and from `Told`, what is merged of the options, `--conf`, the
file and the defaults is what was said last by whoever ranks highest
(`ModesConfigured`, `SettingsConfigured`). `-h` counts as the injector's mode
too (index.js:220-223); the modes are therefore those of the options only when no help
was asked for, and then no configuration is made.

`TaskFieldsProofs` proves the seven properties of the run `fields` for values of any
kind, any integers and any bounds: `FieldsTyped`, `OnlyUnreadableNeverComes`,
`CountIsObeyed`, `RoundsAreObeyed`, `NamedFunctionIsCalled`, `StoredCanBeCalled`,
`DocumentedTasksAreStored`. The invariant says, phase by phase, what is left of the
client's values: before the row all of them, after the first pass the timeout in place
of `after`, and a count that is the client's less the passes, or still the client's
where mysql can write no update of it (`CountKept`).

The inductive invariants of the pipeline and of the connections are in `Gearsloth`
and `Connections` beside the properties, the others with their proofs. Apart
from some of the types, none of the properties is inductive alone: `OneDeliveryPerExpiry` says nothing of whether the
row is due, `LostOnlyByIdReuse` nothing of what the statements and jobs on their
way name, `NeverDisabledEarly` nothing of the copies in the runners,
`AcknowledgedIsOnBoth` nothing of the statements in the pool's line.

Assumed in the proofs are only the named ASSUMEs on constants; that the tasks of
the mysql adapter are finitely many is used to queue the updates of one poll and to
count the connections of the slave; that `Junk` is not the name of a default, to
say that the defaults can be used; and of a command line that each argument is of one
kind and a group of short options a sequence of letters, as it is in any process.

Only model-checked: `Settles`, the two `SavesEnd`, `Ends` and the fairness part of
`LinkImplemented`: liveness under fairness is beyond the prover
(that no step of the start leads back, `StartAdvances`, is what `Ends` rests on and
needs none). Every other property of
a passing run is a theorem; the refuted claims need none.

## 5. Disagreements met that have no run

The runs above refute what README and comments promise in four places
(`PROJECT.json`, "findings"). The following were met while modelling; the model has
the code's behaviour, and the properties are stated so that they say it.

- `after: null`, `true`, `''` or a negative number passes the injector
  (injector.js:39 asks `isNaN`), sqlite stores NULL (sqlite.js:86), and the task
  that was acknowledged never comes due, against README.md:70 (`ComesBack`).
- A stopped listener polls once more (sqlite.js:164), against the comment at
  sqlite.js:122-123.
- A controller emits 'disconnect' while its other half still has a server
  (component.js:46), against README.md:57-60.
- On the last pass of a task the composite unwraps its id twice (composite.js:107,
  135): the second call finds no database, the runner disconnects, and the task it
  has just disabled is not sent (runner.js:64-89), against README.md:70
  (`StrandedOnLastPass`).
- `encodeTask` moves a `func_name` in a Buffer to `func_name_base64`
  (gearsloth.js:79-81), and a client may give that field alone; the tests take both
  for tasks (gearsloth-test.js:32-34, retry-controller-test.js:123-142), and the
  injector refuses both for want of a `func_name` (injector.js:43). It is the exception
  of `DocumentedIsStored`.
- A `func_name` that is no string, a number or an object, passes the injector, which
  asks only whether there is one, is acknowledged, and is then dropped by the controller
  (retry.js:43-45), against README.md:70. It is the exception of `StoredHasName`.
- A `runner_retry_timeout` of `true` makes an update that mysql cannot execute
  (mysql.js:203-204: `parseInt(true)` is NaN). `at` and the task, which holds
  `runner_retry_count`, are written by that one statement (mysql.js:267-272), so that the
  count stays what it was, each pass ends with a runner that disconnects
  (runner.js:78-83), and the task is passed on for ever, against README.md:248-251; only a
  count of 1 is obeyed, because the row is disabled by a statement of its own
  (runner.js:64-65). It is the exception of `PassedAsTold`, `Unwritable`.
- A request whose JSON is `null`, a number or another primitive throws in the injector
  outside its `try` (injector.js:27-32), and the job, unanswered, ends the process
  instead of being refused, against README.md:76. The model has no such request.
- An `after` of 0 does not supersede `at` in mysql (mysql.js:202), against
  README.md:262; in sqlite it does.
- A default server is promised (README.md:194-195, validate.js:7-9), but
  `mergeDefaults` calls `servers()` without any, which throws (validate.js:143-144):
  a daemon needs a server from its command line or file (`Complete`).
- A `retry_count` of "3" allows 31 attempts, for "3" + 1 is "31" (retry.js:64;
  `TriedAsTold` excludes strings).
- retry.js:26 calls `_err`, which is not defined, and runner.js:43 `log`, which is
  not required: these paths end the process, which the models have as a crash.

## 6. What is not modelled

- Logging, the wording of errors and of the help text; a path is a model value.
- The contents of payloads and JSON: a task that does not parse is "invalid", and one
  that parses is an object (section 5 says what becomes of `null`). A
  `_base64` field that is no string, in JSON a client writes itself, is left out of
  `TaskFields`.
- The creation of tables when a database is opened: `OpenError` is its failure.
- Nested composites, and a database below a composite that fails a save after having
  stored the task (mysql.js:122, which `MysqlAdapter` has).
- The lease of mysql in seconds (mysql.js:228 adds 1000 to the old expiry):
  `PollCommit` has its consequence, that an overdue row stays due.
- Examples, packaging, tests.

What would come next: the poll of the mysql adapter with a clock, to say how long an
overdue row goes on being delivered.
