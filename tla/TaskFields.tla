----------------------------- MODULE TaskFields -----------------------------
(***************************************************************************)
(* What becomes of the values a client puts in the fields of a task: from  *)
(* lib/gearsloth.js, which encodes it, through the injector and an adapter *)
(* to the runner, which writes it back for the next time, and to the retry *)
(* controller.  Nobody validates the values: each place reads them as      *)
(* JavaScript does.  Module Tasks has the outcome as its parameters.       *)
(*                                                                         *)
(* A value is its type and the number that JavaScript makes of it, "empty" *)
(* being the type of the empty string; numbers are integers, and strings   *)
(* their decimal digits or no numbers at all.  A function name is its      *)
(* bytes, in a string or a Buffer; payloads are treated as names are.  The *)
(* task is never executed successfully, so all the retries happen.         *)
(***************************************************************************)
EXTENDS Integers

CONSTANTS
  Tasks,     \* the tasks of the clients
  Bytes,     \* function names
  Absent,    \* a field that is not there
  NaN,       \* the number of what is not one
  MaxPasses, \* bound: how often the task is passed on
  MaxRounds  \* bound: the rounds of the controller

Types == {"undefined", "null", "boolean", "empty", "string", "number"}

WellFormed(v) ==
  /\ v \in [type: Types, num: Int \cup {NaN}]
  /\ v.type = "undefined" => v.num = NaN
  /\ v.type \in {"null", "empty"} => v.num = 0
  /\ v.type = "boolean" => v.num \in {0, 1}
  /\ v.type = "number" => v.num # NaN

Content == [in: {"string", "Buffer", "other"}, bytes: Bytes]

ASSUME BoundsAssumption == MaxPasses \in Nat /\ MaxRounds \in Nat

(* A name and its _base64 field.                                           *)
Name == [plain: Content \cup {Absent}, base64: Content \cup {Absent}]

Times == {"none", "past", "future", "invalid"}

ASSUME MarksAssumption == NaN \notin Int /\ Absent \notin Content
ASSUME TasksAssumption ==
  \A t \in Tasks : 
    /\ t.name \in Name /\ t.at \in Times
    /\ WellFormed(t.after) /\ WellFormed(t.runner_retry_timeout)
    /\ WellFormed(t.runner_retry_count) /\ WellFormed(t.retry_count)

VARIABLES
  adapter,  \* the adapter in use
  task,     \* the task as the client made it
  name,     \* its function name as it travels
  phase,    \* where the task is
  at,       \* whether its `at` has passed
  after,    \* what decided on the expiry of its row
  expiry,   \* the expiry of the row, "never" being SQL NULL
  count,    \* runner_retry_count in the row
  disabled, \* the row is disabled
  passes,   \* history: how often it was passed to a runner
  rounds,   \* how often the controller has submitted it in one execution
  called    \* the function it was submitted to

row == <<at, after, expiry, count, disabled>>
vars == <<adapter, task, name, phase, row, passes, rounds, called>>

-----------------------------------------------------------------------------
(* isNaN(v), !!v, parseInt(v) and v + 1.                                   *)
IsNaN(v) == v.num = NaN

Truthy(v) ==
  v.type = "string" \/ (v.type \in {"boolean", "number"} /\ v.num # 0)

ParseInt(v) == IF v.type \in {"string", "number"} THEN v.num ELSE NaN

Plus1(v) ==
  IF IsNaN(v) THEN NaN
  ELSE IF v.type # "string" THEN v.num + 1
  ELSE IF v.num < 0 THEN 10 * v.num - 1 ELSE 10 * v.num + 1

Number(n) == [type |-> "number", num |-> n]

(* lib/gearsloth.js.                                                       *)
In(kind, c) == c # Absent /\ c.in = kind

Missing(n) == n.plain = Absent /\ n.base64 = Absent

EncodeError(n) == Missing(n) \/ (n.base64 # Absent /\ ~In("string", n.base64))

MutantEncoded(n) == n

Encoded(n) ==
  IF n.base64 = Absent /\ In("Buffer", n.plain)
  THEN [plain |-> Absent, base64 |-> [n.plain EXCEPT !.in = "string"]] ELSE n

MutantDecoded(n) ==
  IF n.plain = Absent THEN [n EXCEPT !.plain = [n.base64 EXCEPT !.in = "Buffer"]] ELSE n

Decoded(n) ==
  IF In("string", n.base64) THEN [n EXCEPT !.plain = [n.base64 EXCEPT !.in = "Buffer"]] ELSE n

(* The expiry: getExpiryTime of sqlite, whose database makes NULL of       *)
(* '+null seconds', '+true seconds', '+ seconds' and '+-1 seconds' ...     *)
MutantDate(d) == IF d = "past" THEN "due" ELSE IF d = "future" THEN "later" ELSE d

Date(d) == IF d = "future" THEN "later" ELSE "due"

Seconds(n) == IF n > 0 THEN "later" ELSE "due"

MutantSqliteExpiry(v, d) == IF Truthy(v) THEN Seconds(v.num) ELSE Date(d)

SqliteExpiry(v, d) ==
  IF IsNaN(v) THEN Date(d)
  ELSE IF v.type \in {"string", "number"} /\ v.num >= 0 THEN Seconds(v.num)
  ELSE "never"

(* ... and getAtFromTask of mysql, where NaN makes a statement that fails. *)
MysqlExpiry(v, d) ==
  IF ~Truthy(v) THEN Date(d)
  ELSE IF ParseInt(v) = NaN THEN "error" ELSE Seconds(ParseInt(v))

Expiry(v, d) == IF adapter = "sqlite" THEN SqliteExpiry(v, d) ELSE MysqlExpiry(v, d)

-----------------------------------------------------------------------------
Init ==
  /\ adapter \in {"sqlite", "mysql"} /\ task \in Tasks
  /\ name = task.name /\ phase = "client"
  /\ at = task.at /\ after = task.after /\ expiry = "later"
  /\ count = task.runner_retry_count /\ disabled = FALSE
  /\ passes = 0 /\ rounds = 0 /\ called = Absent

(* encodeTask.                                                             *)
Encode ==
  /\ phase = "client"
  /\ phase' = IF EncodeError(name) THEN "refused" ELSE "injector"
  /\ name' = IF EncodeError(name) THEN name ELSE Encoded(name)
  /\ UNCHANGED <<adapter, task, row, passes, rounds, called>>

(* A client may write the JSON itself, which has no Buffers; what a _base64 *)
(* that is no string would do to the controller is left out.               *)
Send ==
  /\ phase = "client" /\ phase' = "injector"
  /\ ~In("Buffer", name.plain) /\ (name.base64 # Absent => In("string", name.base64))
  /\ UNCHANGED <<adapter, task, name, row, passes, rounds, called>>

(* The checks of the injector.                                             *)
MutantAccepts == at # "invalid" /\ ~IsNaN(after) /\ name.plain # Absent

Accepts ==
  /\ at # "invalid" /\ (after.type # "undefined" => ~IsNaN(after))
  /\ name.plain # Absent

Inject ==
  /\ phase = "injector"
  /\ IF Accepts /\ Expiry(after, at) # "error"
     THEN phase' = "row" /\ expiry' = Expiry(after, at)
     ELSE phase' = "refused" /\ UNCHANGED expiry
  /\ UNCHANGED <<adapter, task, name, at, after, count, disabled, passes, rounds, called>>

(* Time passes.  Of an `at` and an `after` either may come first, and only *)
(* a row that has its expiry from `at` waits for it.  (pre_poll is 0.)     *)
Dated == IF adapter = "sqlite" THEN IsNaN(after) ELSE ~Truthy(after)

AtPasses ==
  /\ phase = "row" /\ at = "future" /\ at' = "past"
  /\ UNCHANGED <<adapter, task, name, phase, after, expiry, count, disabled,
                 passes, rounds, called>>

Expire ==
  /\ phase = "row" /\ expiry = "later" /\ (Dated => at # "future") /\ expiry' = "due"
  /\ UNCHANGED <<adapter, task, name, phase, at, after, count, disabled,
                 passes, rounds, called>>

(* A runner is passed the task and writes it back.                         *)
Timeout ==
  IF IsNaN(task.runner_retry_timeout) THEN Number(1000) ELSE task.runner_retry_timeout

MutantDecremented(v) == IF v.type = "number" THEN Number(v.num - 1) ELSE v

Decremented(v) == IF IsNaN(v) THEN v ELSE Number(v.num - 1)

(* The task, with its count and its next `after`, and its expiry are       *)
(* written by one statement: one that fails leaves the row as the lease    *)
(* has it.  The row is disabled by a statement of its own, whatever        *)
(* becomes of the other.                                                   *)
WriteBack ==
  /\ count' = Decremented(count) /\ after' = Timeout /\ expiry' = Expiry(Timeout, at)

WriteError == expiry' = "later" /\ UNCHANGED <<count, after>>

Pass ==
  /\ phase = "row" /\ expiry = "due" /\ ~disabled
  /\ passes < MaxPasses /\ passes' = passes + 1
  /\ disabled' = (Decremented(count) = Number(0))
  /\ IF Expiry(Timeout, at) = "error" THEN WriteError ELSE WriteBack
  /\ UNCHANGED <<adapter, task, name, phase, at, rounds, called>>

(* The retry controller.  A retry_count that is no number has no end.      *)
MutantRoundLimit == Plus1(task.retry_count)

RoundLimit == IF Truthy(task.retry_count) THEN Plus1(task.retry_count) ELSE 1

GivesUp(round) == RoundLimit # NaN /\ round > RoundLimit

Executable == name.base64 # Absent \/ In("string", name.plain)

Try ==
  /\ passes > 0 /\ Executable
  /\ ~GivesUp(rounds + 1) /\ rounds < MaxRounds /\ rounds' = rounds + 1
  /\ called' = Decoded(name).plain
  /\ UNCHANGED <<adapter, task, name, phase, row, passes>>

Next == Encode \/ Send \/ Inject \/ AtPasses \/ Expire \/ Pass \/ Try

Spec == Init /\ [][Next]_vars
-----------------------------------------------------------------------------
TypeOK ==
  /\ adapter \in {"sqlite", "mysql"} /\ name \in Name
  /\ phase \in {"client", "injector", "row", "refused"}
  /\ at \in Times
  /\ WellFormed(after) /\ WellFormed(count)
  /\ expiry \in {"later", "due", "never"} /\ disabled \in BOOLEAN
  /\ passes \in 0..MaxPasses /\ rounds \in 0..MaxRounds
  /\ called \in Content \cup {Absent}

(* The only values with which a task waits for a time that never comes: in *)
(* sqlite, and none of "any string that is parseable into an integer"      *)
(* (README.md:262) unless it is negative.                                  *)
Unreadable(v) == v.type \in {"null", "boolean", "empty"} \/ (~IsNaN(v) /\ v.num < 0)

ComesBack ==
  phase = "row" =>
    (expiry = "never" <=> adapter = "sqlite" /\ Unreadable(after))

(* The one value that the runner writes back and mysql cannot store.       *)
Unwritable ==
  adapter = "mysql" /\ task.runner_retry_timeout = [type |-> "boolean", num |-> 1]

(* Whatever the types of its fields, the task is passed on as often as the *)
(* number of its runner_retry_count says and then disabled; with a number  *)
(* that is not positive, or none, it never is.  Nor is it, against         *)
(* README.md:248-251, if the update fails that has the count: only a count *)
(* of 1 is still obeyed, for the row is disabled all the same.             *)
PassedAsTold ==
  LET told == task.runner_retry_count IN
  IF ~IsNaN(told) /\ told.num > 0 /\ (Unwritable => told.num = 1)
  THEN passes <= told.num /\ (disabled <=> passes = told.num)
  ELSE ~disabled

(* An execution has at most retry_count rounds after the first one, if     *)
(* retry_count is a number.  (A string is not: "3" + 1 is "31".)           *)
TriedAsTold ==
  task.retry_count.type # "string" =>
    rounds <= 1 + (IF IsNaN(task.retry_count) \/ task.retry_count.num < 0
                   THEN 0 ELSE task.retry_count.num)

(* The function that is called is the one the client named, the _base64     *)
(* field "overrides func_name" (README.md:237), in whichever of the two it *)
(* travelled.                                                              *)
CalledAsNamed ==
  called # Absent =>
    called.bytes = IF task.name.base64 # Absent THEN task.name.base64.bytes
                   ELSE task.name.plain.bytes

(* A task that is acknowledged has a name the controller can call, in      *)
(* whichever form the client gave it to whichever encoder.  Only a         *)
(* func_name that is neither a string nor a Buffer is taken by the         *)
(* injector, and dropped with its task by the controller, against          *)
(* README.md:70.                                                           *)
StoredHasName == phase = "row" => Executable \/ In("other", task.name.plain)

(* A task as README.md:237-262 and the tests have it: a name, which is a   *)
(* string, a Buffer that encodeTask is given (gearsloth-test.js:32-34), or *)
(* a base64 string that overrides func_name; a date that is one; and       *)
(* seconds that are a number.                                              *)
AsDocumented(t) ==
  /\ IF t.name.base64 # Absent THEN In("string", t.name.base64)
     ELSE In("string", t.name.plain) \/ In("Buffer", t.name.plain)
  /\ t.at # "invalid"
  /\ \/ t.after.type = "undefined"
     \/ t.after.type \in {"string", "number"} /\ ~IsNaN(t.after)

(* None of these is refused on its way, by either adapter, unless its name *)
(* comes to the injector in base64 alone: of a Buffer encodeTask makes     *)
(* that, and retry-controller-test.js:123-142 executes it, but the         *)
(* injector wants a func_name.                                             *)
DocumentedIsStored == phase = "refused" /\ AsDocumented(task) => name.plain = Absent
=============================================================================
