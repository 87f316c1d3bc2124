-------------------------- MODULE TaskFieldsProofs --------------------------
(***************************************************************************)
(* What TaskFields says of the fields of a task, for all integers, all     *)
(* names and any number of passes and rounds.                              *)
(*                                                                         *)
(* A value changes its type on the way (the count is written back as a     *)
(* number, a name moves to the other field), so the invariant says for     *)
(* every phase what is left of the value the client gave.                  *)
(***************************************************************************)
EXTENDS TaskFields, TLAPS

(* What the client asked for has not been touched before it is inserted.   *)
Untouched ==
  phase \in {"client", "injector"} => at = task.at /\ after = task.after /\ passes = 0

(* The name a task arrives with at the injector is the client's, encoded   *)
(* or fit for JSON.                                                        *)
Sent ==
  \/ ~EncodeError(task.name) /\ name = Encoded(task.name)
  \/ /\ name = task.name /\ ~In("Buffer", name.plain)
     /\ name.base64 # Absent => In("string", name.base64)

NameKept ==
  /\ phase = "client" => name = task.name
  /\ phase \in {"injector", "row"} => Sent
  /\ phase # "row" => passes = 0

(* The count is what is left of the told one, of whatever type it was, or  *)
(* still the told one if no update of it can be written.                   *)
CountKept ==
  LET told == task.runner_retry_count IN
  IF IsNaN(told) THEN count = told /\ ~disabled
  ELSE IF Unwritable
  THEN /\ count = told
       /\ disabled <=> passes > 0 /\ told.num = 1
       /\ told.num = 1 => passes <= 1
  ELSE /\ count.num = told.num - passes
       /\ disabled <=> passes > 0 /\ passes = told.num
       /\ told.num > 0 => passes <= told.num

TypeInv == TypeOK /\ task \in Tasks

IInv ==
  /\ TypeInv /\ Untouched /\ NameKept /\ CountKept
  /\ ComesBack /\ TriedAsTold /\ CalledAsNamed /\ StoredHasName /\ DocumentedIsStored

-----------------------------------------------------------------------------
(* The tasks and the number-like values are what the constants say.        *)
LEMMA TaskFacts ==
  ASSUME NEW t \in Tasks
  PROVE  /\ t.name \in Name /\ t.at \in Times
         /\ WellFormed(t.after) /\ WellFormed(t.runner_retry_timeout)
         /\ WellFormed(t.runner_retry_count) /\ WellFormed(t.retry_count)
  BY TasksAssumption

LEMMA TimeoutWellFormed ==
  ASSUME TypeInv PROVE WellFormed(Timeout)
  <1>1. WellFormed(task.runner_retry_timeout)  BY TaskFacts DEF TypeInv
  <1> QED  BY <1>1, MarksAssumption DEF Timeout, WellFormed, Number, Types

LEMMA DecrementedWellFormed ==
  ASSUME NEW v, WellFormed(v)
  PROVE  /\ WellFormed(Decremented(v))
         /\ ~IsNaN(v) => Decremented(v) = Number(v.num - 1)
         /\ IsNaN(v) => Decremented(v) = v
         /\ ~IsNaN(v) => v.num \in Int
  BY MarksAssumption DEF Decremented, WellFormed, IsNaN, Number, Types

(* Encoding moves a name from one field to the other and keeps its bytes.  *)
LEMMA EncodedName ==
  ASSUME NEW n \in Name
  PROVE  /\ Encoded(n) \in Name
         /\ n.base64 # Absent => Encoded(n) = n
         /\ n.base64 = Absent /\ In("Buffer", n.plain) =>
              /\ Encoded(n).plain = Absent /\ In("string", Encoded(n).base64)
              /\ Encoded(n).base64.bytes = n.plain.bytes
         /\ ~In("Buffer", n.plain) => Encoded(n) = n
  BY MarksAssumption DEF Encoded, Name, Content, In

LEMMA DecodedName ==
  ASSUME NEW n \in Name
  PROVE  /\ Decoded(n).plain \in Content \cup {Absent}
         /\ In("string", n.base64) => Decoded(n).plain.bytes = n.base64.bytes
         /\ ~In("string", n.base64) => Decoded(n) = n
  BY MarksAssumption DEF Decoded, Name, Content, In

(* What an adapter makes of a value: an expiry, but for the one that never *)
(* comes in sqlite and the one that mysql cannot write.                    *)
LEMMA ExpiryOf ==
  ASSUME adapter \in {"sqlite", "mysql"}, NEW v, WellFormed(v), NEW d
  PROVE  /\ Expiry(v, d) \in {"later", "due", "never", "error"}
         /\ Expiry(v, d) = "never" <=> adapter = "sqlite" /\ Unreadable(v)
         /\ Expiry(v, d) = "error" <=>
              /\ adapter = "mysql"
              /\ \/ v.type = "string" /\ IsNaN(v)
                 \/ v.type = "boolean" /\ v.num = 1
  BY MarksAssumption
     DEF Expiry, SqliteExpiry, MysqlExpiry, Unreadable, WellFormed, IsNaN, Truthy,
         ParseInt, Date, Seconds, Types

LEMMA ErrorOf ==
  ASSUME TypeInv, NEW d
  PROVE  Expiry(Timeout, d) = "error" <=> Unwritable
  <1> DEFINE v == task.runner_retry_timeout
  <1>1. WellFormed(v)
    BY TaskFacts DEF TypeInv
  <1>2. WellFormed(Timeout) /\ adapter \in {"sqlite", "mysql"}
    BY TimeoutWellFormed DEF TypeInv, TypeOK
  <1>3. Expiry(Timeout, d) = "error" <=>
          /\ adapter = "mysql"
          /\ \/ Timeout.type = "string" /\ IsNaN(Timeout)
             \/ Timeout.type = "boolean" /\ Timeout.num = 1
    BY <1>2, ExpiryOf
  <1>4. v = [type |-> "boolean", num |-> 1] <=> v.type = "boolean" /\ v.num = 1
    BY <1>1 DEF WellFormed
  <1> QED  BY <1>1, <1>3, <1>4, MarksAssumption DEF Timeout, Number, IsNaN, WellFormed, Unwritable

(* A retry_count that is no string limits the rounds to one more than it.  *)
LEMMA LimitOf ==
  ASSUME TypeInv, task.retry_count.type # "string", NEW r \in Nat, ~GivesUp(r + 1)
  PROVE  r + 1 <= 1 + (IF IsNaN(task.retry_count) \/ task.retry_count.num < 0
                       THEN 0 ELSE task.retry_count.num)
  <1> DEFINE v == task.retry_count
  <1>1. WellFormed(v)  BY TaskFacts DEF TypeInv
  <1>2. CASE Truthy(v)
    <2>1. v.num \in Int /\ v.num # NaN
      BY <1>1, <1>2, MarksAssumption DEF Truthy, WellFormed, Types
    <2>2. RoundLimit = v.num + 1
      BY <1>2, <2>1 DEF RoundLimit, Plus1, IsNaN
    <2>3. r + 1 <= v.num + 1
      BY <2>1, <2>2, MarksAssumption DEF GivesUp
    <2> QED  BY <2>1, <2>3 DEF IsNaN
  <1>3. CASE ~Truthy(v)
    <2>1. r = 0
      BY <1>3, MarksAssumption DEF GivesUp, RoundLimit
    <2>2. ~IsNaN(v) => v.num \in Int
      BY <1>1 DEF IsNaN, WellFormed
    <2> QED  BY <2>1, <2>2
  <1> QED  BY <1>2, <1>3

-----------------------------------------------------------------------------
LEMMA TypeInvInit == Init => TypeInv
  <1> SUFFICES ASSUME Init PROVE TypeInv
    OBVIOUS
  <1>1. task \in Tasks /\ name = task.name /\ at = task.at /\ after = task.after
        /\ count = task.runner_retry_count
    BY DEF Init
  <1>2. name \in Name /\ at \in Times /\ WellFormed(after) /\ WellFormed(count)
    BY <1>1, TaskFacts
  <1>3. passes \in 0..MaxPasses /\ rounds \in 0..MaxRounds
    BY BoundsAssumption DEF Init
  <1> QED  BY <1>1, <1>2, <1>3 DEF Init, TypeInv, TypeOK

LEMMA TypeInvStep == TypeInv /\ [Next]_vars => TypeInv'
  <1> SUFFICES ASSUME TypeInv, [Next]_vars PROVE TypeInv'
    OBVIOUS
  <1> USE DEF TypeInv, TypeOK
  <1>1. CASE Encode
    BY <1>1, EncodedName DEF Encode, row
  <1>2. CASE Send
    BY <1>2 DEF Send, row
  <1>3. CASE Inject
    BY <1>3, ExpiryOf DEF Inject
  <1>4. CASE Expire
    BY <1>4 DEF Expire
  <1>5. CASE Pass
    <2>1. WellFormed(after') /\ WellFormed(count')
      BY <1>5, TimeoutWellFormed, DecrementedWellFormed DEF Pass, WriteBack, WriteError
    <2>2. expiry' \in {"later", "due", "never"}
      BY <1>5, ExpiryOf, TimeoutWellFormed DEF Pass, WriteBack, WriteError
    <2> QED  BY <1>5, <2>1, <2>2, BoundsAssumption DEF Pass
  <1>6. CASE Try
    BY <1>6, DecodedName, BoundsAssumption DEF Try, row
  <1>7. CASE UNCHANGED vars
    BY <1>7 DEF vars, row
  <1>8. CASE AtPasses
    BY <1>8 DEF AtPasses, Times
  <1> QED  BY <1>1, <1>2, <1>3, <1>4, <1>5, <1>6, <1>7, <1>8 DEF Next

-----------------------------------------------------------------------------
LEMMA IInvInit == Init => IInv
  <1> SUFFICES ASSUME Init PROVE IInv
    OBVIOUS
  <1>1. TypeInv
    BY TypeInvInit
  <1>2. WellFormed(task.runner_retry_count) /\ WellFormed(task.retry_count)
    BY <1>1, TaskFacts DEF TypeInv
  <1>3. /\ Untouched /\ NameKept /\ CalledAsNamed /\ ComesBack
        /\ StoredHasName /\ DocumentedIsStored
    BY DEF Init, Untouched, NameKept, CalledAsNamed, ComesBack, StoredHasName, DocumentedIsStored
  <1>4. CountKept
    BY <1>2, MarksAssumption DEF Init, CountKept, IsNaN, WellFormed
  <1>5. TriedAsTold
    BY <1>2, MarksAssumption DEF Init, TriedAsTold, IsNaN, WellFormed
  <1> QED  BY <1>1, <1>3, <1>4, <1>5 DEF IInv

(* The parts that say where the client's values have gone.                 *)
LEMMA NameStep ==
  ASSUME IInv, Next PROVE Untouched' /\ NameKept' /\ CalledAsNamed'
  <1> USE DEF IInv, TypeInv, TypeOK, Untouched, NameKept, CalledAsNamed, Sent
  <1>1. CASE Encode
    BY <1>1 DEF Encode, row
  <1>2. CASE Send
    BY <1>2 DEF Send, row
  <1>3. CASE Inject
    BY <1>3 DEF Inject
  <1>4. CASE AtPasses \/ Expire
    BY <1>4 DEF AtPasses, Expire
  <1>5. CASE Pass
    BY <1>5 DEF Pass
  <1>6. CASE Try
    <2>1. phase = "row" /\ Sent /\ task.name \in Name /\ called' = Decoded(name).plain
      BY <1>6, TaskFacts DEF Try
    <2>2. CalledAsNamed'
      <3>1. CASE ~EncodeError(task.name) /\ name = Encoded(task.name)
        <4>1. CASE task.name.base64 # Absent
          BY <1>6, <2>1, <3>1, <4>1, EncodedName, DecodedName
          DEF Try, EncodeError
        <4>2. CASE task.name.base64 = Absent /\ In("Buffer", task.name.plain)
          BY <1>6, <2>1, <3>1, <4>2, EncodedName, DecodedName DEF Try
        <4>3. CASE task.name.base64 = Absent /\ ~In("Buffer", task.name.plain)
          <5>1. name = task.name /\ ~In("string", name.base64)
            BY <3>1, <4>3, <2>1, EncodedName DEF In
          <5> QED  BY <1>6, <2>1, <4>3, <5>1, DecodedName DEF Try
        <4> QED  BY <4>1, <4>2, <4>3
      <3>2. CASE name = task.name /\ (name.base64 # Absent => In("string", name.base64))
        BY <1>6, <2>1, <3>2, DecodedName DEF Try, In
      <3> QED  BY <2>1, <3>1, <3>2
    <2> QED  BY <1>6, <2>2 DEF Try, row
  <1> QED  BY <1>1, <1>2, <1>3, <1>4, <1>5, <1>6 DEF Next

(* A pass takes one from the count, of whatever type the count was, unless *)
(* its update fails.                                                       *)
LEMMA CountStep == ASSUME IInv, Next PROVE CountKept'
  <1> DEFINE told == task.runner_retry_count
  <1>0. WellFormed(told) /\ (~IsNaN(told) => told.num \in Int)
    BY TaskFacts, MarksAssumption DEF IInv, TypeInv, WellFormed, IsNaN
  <1>1. CASE Pass
    <2>1. /\ ~disabled /\ passes \in Nat /\ passes' = passes + 1 /\ UNCHANGED <<task, adapter>>
          /\ disabled' = (Decremented(count) = Number(0))
      BY <1>1, BoundsAssumption DEF Pass, IInv, TypeInv, TypeOK
    <2>2. count' = IF Unwritable THEN count ELSE Decremented(count)
      BY <1>1, ErrorOf DEF Pass, WriteBack, WriteError, IInv
    <2>3. Unwritable' = Unwritable /\ (\A m, n : Number(m) = Number(n) <=> m = n)
      BY <2>1 DEF Unwritable, Number
    <2>4. CASE IsNaN(told)
      <3>1. count = told /\ Decremented(count) = count
        BY <2>4, <1>0, DecrementedWellFormed DEF IInv, CountKept
      <3>2. Decremented(count) # Number(0)
        BY <3>1, <2>4, MarksAssumption DEF IsNaN, Number
      <3> QED  BY <2>1, <2>2, <2>4, <3>1, <3>2 DEF CountKept, IsNaN
    <2>5. CASE ~IsNaN(told) /\ Unwritable
      <3>1. count = told /\ ~(passes > 0 /\ told.num = 1) /\ (told.num = 1 => passes <= 1)
        BY <2>1, <2>5 DEF IInv, CountKept
      <3>2. Decremented(count) = Number(told.num - 1)
        BY <1>0, <2>5, <3>1, DecrementedWellFormed
      <3>3. disabled' <=> told.num = 1
        <4>1. Number(told.num - 1) = Number(0) <=> told.num - 1 = 0
          BY ONLY <2>3
        <4>2. told.num - 1 = 0 <=> told.num = 1
          BY <1>0, <2>5
        <4> QED  BY ONLY <2>1, <3>2, <4>1, <4>2
      <3> QED  BY <2>1, <2>2, <2>3, <2>5, <3>1, <3>3 DEF CountKept, IsNaN
    <2>6. CASE ~IsNaN(told) /\ ~Unwritable
      <3>1. /\ count.num = told.num - passes
            /\ ~(passes > 0 /\ passes = told.num)
            /\ told.num > 0 => passes <= told.num
        BY <2>1, <2>6 DEF IInv, CountKept
      <3>2. Decremented(count) = Number(told.num - passes - 1)
        <4>1. WellFormed(count) /\ ~IsNaN(count)
          BY <1>0, <2>1, <2>6, <3>1, MarksAssumption DEF IInv, TypeInv, TypeOK, IsNaN
        <4> QED  BY <3>1, <4>1, DecrementedWellFormed
      <3>3. disabled' <=> told.num - passes - 1 = 0
        BY <2>1, <2>3, <3>2
      <3>4. told.num \in Int /\ IsNaN(task.runner_retry_count)' = FALSE
        BY <1>0, <2>1, <2>6 DEF IsNaN
      <3>5. count'.num = told.num - passes'
        BY <2>1, <2>2, <2>6, <3>2, <3>4 DEF Number
      <3> QED  BY <2>1, <2>3, <2>6, <3>1, <3>3, <3>4, <3>5 DEF CountKept
    <2> QED  BY <2>4, <2>5, <2>6
  <1>2. CASE Encode \/ Send \/ Inject \/ AtPasses \/ Expire \/ Try
    <2>1. UNCHANGED <<adapter, task, count, disabled, passes>>
      BY <1>2 DEF Encode, Send, Inject, AtPasses, Expire, Try, row
    <2> QED  BY <2>1 DEF IInv, CountKept, IsNaN, Unwritable
  <1> QED  BY <1>1, <1>2 DEF Next

(* The expiry of a row says what decided on it.                            *)
LEMMA ExpiryStep == ASSUME IInv, Next PROVE ComesBack'
  <1> USE DEF IInv, TypeInv, TypeOK, ComesBack
  <1>1. CASE Inject
    BY <1>1, ExpiryOf DEF Inject, Unreadable, IsNaN
  <1>2. CASE Pass /\ Expiry(Timeout, at) # "error"
    <2>1. /\ WellFormed(Timeout) /\ adapter' = adapter /\ phase = "row" /\ after' = Timeout
          /\ expiry' = Expiry(Timeout, at)
      BY <1>2, TimeoutWellFormed DEF Pass, WriteBack
    <2>2. Expiry(Timeout, at) = "never" <=> adapter = "sqlite" /\ Unreadable(Timeout)
      BY <2>1, ExpiryOf
    <2>3. Unreadable(after)' = Unreadable(after')
      BY DEF Unreadable, IsNaN
    <2>4. Unreadable(after)' = Unreadable(Timeout)
      BY <2>1, <2>3
    <2> QED  BY <2>1, <2>2, <2>4
  <1>3. CASE Pass /\ Expiry(Timeout, at) = "error"
    <2>1. adapter' = "mysql" /\ expiry' = "later"
      BY <1>3, ErrorOf DEF Pass, WriteError, Unwritable
    <2> QED  BY <2>1
  <1>4. CASE Expire
    BY <1>4 DEF Expire, Unreadable, IsNaN
  <1>5. CASE Encode \/ Send \/ AtPasses \/ Try
    <2>1. UNCHANGED <<adapter, after, expiry>> /\ (phase' = "row" => phase = "row")
      BY <1>5 DEF Encode, Send, AtPasses, Try, row
    <2> QED  BY <2>1 DEF Unreadable, IsNaN
  <1> QED  BY <1>1, <1>2, <1>3, <1>4, <1>5 DEF Next

(* The rounds of the controller.                                           *)
LEMMA RoundsStep == ASSUME IInv, Next PROVE TriedAsTold'
  <1>1. CASE Try
    BY <1>1, LimitOf, BoundsAssumption DEF Try, IInv, TypeInv, TypeOK, TriedAsTold, IsNaN
  <1>2. CASE Encode \/ Send \/ Inject \/ AtPasses \/ Expire \/ Pass
    <2>1. UNCHANGED <<task, rounds>>
      BY <1>2 DEF Encode, Send, Inject, AtPasses, Expire, Pass
    <2> QED  BY <2>1 DEF IInv, TriedAsTold, IsNaN
  <1> QED  BY <1>1, <1>2 DEF Next

(* Whoever encoded the name, what passes the injector can be called; and   *)
(* what is refused has a field that nobody documents, or no func_name.     *)
LEMMA RefusalStep == ASSUME IInv, Next PROVE StoredHasName' /\ DocumentedIsStored'
  <1> USE DEF IInv, TypeInv, TypeOK, StoredHasName, DocumentedIsStored
  <1>0. /\ task \in Tasks /\ task.name \in Name /\ WellFormed(task.after)
    BY TaskFacts
  <1>1. CASE Encode
    <2>1. name = task.name /\ phase' \in {"refused", "injector"}
          /\ (phase' = "refused" => EncodeError(task.name)) /\ UNCHANGED task
      BY <1>1 DEF Encode, NameKept
    <2>2. EncodeError(task.name) => ~AsDocumented(task)
      BY DEF EncodeError, Missing, AsDocumented, In
    <2> QED  BY <2>1, <2>2 DEF AsDocumented
  <1>2. CASE Inject
    <2>1. /\ at = task.at /\ after = task.after /\ Sent /\ UNCHANGED <<task, name>>
          /\ phase' = IF Accepts /\ Expiry(after, at) # "error" THEN "row" ELSE "refused"
      BY <1>2 DEF Inject, Untouched, NameKept
    <2>2. StoredHasName'
      <3>1. Accepts => Executable \/ In("other", task.name.plain)
        <4>1. CASE ~EncodeError(task.name) /\ name = Encoded(task.name)
          BY <1>0, <4>1, EncodedName
          DEF Accepts, Executable, Name, Content, In
        <4>2. CASE name = task.name /\ ~In("Buffer", name.plain)
          BY <1>0, <4>2 DEF Accepts, Executable, Name, Content, In
        <4> QED  BY <2>1, <4>1, <4>2 DEF Sent
      <3> QED  BY <2>1, <3>1 DEF Executable
    <2>3. DocumentedIsStored'
      <3>1. Expiry(after, at) = "error" <=>
              /\ adapter = "mysql"
              /\ \/ task.after.type = "string" /\ IsNaN(task.after)
                 \/ task.after.type = "boolean" /\ task.after.num = 1
        BY <1>0, <2>1, ExpiryOf
      <3>2. AsDocumented(task) /\ name.plain # Absent => Accepts /\ Expiry(after, at) # "error"
        BY <2>1, <3>1 DEF AsDocumented, Accepts
      <3> QED  BY <2>1, <3>2 DEF AsDocumented
    <2> QED  BY <2>2, <2>3
  <1>3. CASE Send \/ AtPasses \/ Expire \/ Pass \/ Try
    <2>1. UNCHANGED <<task, name>> /\ (phase' = phase \/ phase' = "injector")
      BY <1>3 DEF Send, AtPasses, Expire, Pass, Try, row
    <2> QED  BY <2>1 DEF AsDocumented, Executable
  <1> QED  BY <1>1, <1>2, <1>3 DEF Next

-----------------------------------------------------------------------------
LEMMA IInvStep == IInv /\ [Next]_vars => IInv'
  <1> SUFFICES ASSUME IInv, [Next]_vars PROVE IInv'
    OBVIOUS
  <1>1. CASE Next
    <2>1. TypeInv'  BY <1>1, TypeInvStep DEF IInv
    <2> QED
      BY <1>1, <2>1, NameStep, CountStep, ExpiryStep, RoundsStep, RefusalStep DEF IInv
  <1>2. CASE UNCHANGED vars
    BY <1>2
    DEF vars, row, IInv, TypeInv, TypeOK, Untouched, NameKept, Sent, CountKept, ComesBack,
        TriedAsTold, CalledAsNamed, StoredHasName, Executable, DocumentedIsStored, AsDocumented,
        Unwritable, Unreadable, IsNaN
  <1> QED  BY <1>1, <1>2

(* The fields keep to what TypeOK says they can be.                        *)
THEOREM FieldsTyped == Spec => []TypeOK
  <1>1. TypeInv => TypeOK  BY DEF TypeInv
  <1> QED  BY <1>1, TypeInvInit, TypeInvStep, PTL DEF Spec

LEMMA FieldsInv == Spec => []IInv
  BY IInvInit, IInvStep, PTL DEF Spec

(* A task waits for ever only in sqlite, and only for one of the values    *)
(* that strftime makes NULL of.                                            *)
THEOREM OnlyUnreadableNeverComes == Spec => []ComesBack
  <1>1. IInv => ComesBack  BY DEF IInv
  <1> QED  BY <1>1, FieldsInv, PTL

(* However runner_retry_count was written, the task is passed on that      *)
(* often and then disabled, or never disabled: also if mysql cannot write  *)
(* what is left of the count, unless the first pass is the last.           *)
THEOREM CountIsObeyed == Spec => []PassedAsTold
  <1>1. IInv => PassedAsTold
    <2> SUFFICES ASSUME IInv PROVE PassedAsTold
      OBVIOUS
    <2>1. passes \in Nat /\ WellFormed(task.runner_retry_count)
      BY TaskFacts, BoundsAssumption DEF IInv, TypeInv, TypeOK
    <2> QED
      BY <2>1, MarksAssumption DEF IInv, CountKept, PassedAsTold, IsNaN, WellFormed
  <1> QED  BY <1>1, FieldsInv, PTL

(* Of a retry_count that is a number the controller makes at most that     *)
(* many rounds more than one, of none at most one.                         *)
THEOREM RoundsAreObeyed == Spec => []TriedAsTold
  <1>1. IInv => TriedAsTold  BY DEF IInv
  <1> QED  BY <1>1, FieldsInv, PTL

(* The function called is the one named, in whichever field it travelled.  *)
THEOREM NamedFunctionIsCalled == Spec => []CalledAsNamed
  <1>1. IInv => CalledAsNamed  BY DEF IInv
  <1> QED  BY <1>1, FieldsInv, PTL

(* What is acknowledged can be called, in whichever form the name came,    *)
(* but for a func_name that was neither a string nor a Buffer.             *)
THEOREM StoredCanBeCalled == Spec => []StoredHasName
  <1>1. IInv => StoredHasName  BY DEF IInv
  <1> QED  BY <1>1, FieldsInv, PTL

(* Nothing documented is refused unless its name is in base64 alone.       *)
THEOREM DocumentedTasksAreStored == Spec => []DocumentedIsStored
  <1>1. IInv => DocumentedIsStored  BY DEF IInv
  <1> QED  BY <1>1, FieldsInv, PTL
=============================================================================
