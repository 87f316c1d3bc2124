---------------------------- MODULE MysqlProofs ----------------------------
(***************************************************************************)
(* Proofs about the mysql adapter, for any number of tasks, overlapping    *)
(* polls and connections: no statement, however late it comes, brings a    *)
(* deleted row back; an acknowledged task is in both databases until it    *)
(* was passed on; the adapter implements TaskStore; and every state is of  *)
(* its type, so that no pool has more connections than it was given.       *)
(*                                                                         *)
(* The second and the third rest on who may delete a row: a use "disable"  *)
(* or "complete", waiting or with its connection, belongs to a task that   *)
(* was passed on, and saveTask removes only what it has not acknowledged.  *)
(* The last rests on who may give a connection back: who has it.           *)
(***************************************************************************)
EXTENDS MysqlAdapter, Integers, FiniteSetTheorems, FunctionTheorems, TLAPS

(* Every row has an expiry or is absent, and every save is in some phase.  *)
RowInv ==
  /\ at \in [Tasks -> {"absent", "later", "due"}]
  /\ phase \in [Tasks -> {"none", "connecting", "looking", "enabling", "removing", "over"}]

(* The steps that touch neither rows nor saves.                            *)
Quiet == UNCHANGED <<at, phase>>

LEMMA QuietSteps ==
  /\ GrantMaster \/ GrantSlave \/ Listen \/ Stop => Quiet
  /\ \A t \in Tasks : Eject(t) \/ Replicate(t) => Quiet
  /\ \A p \in Polls : Tick(p) \/ PollDone(p) \/ PollError(p) => Quiet
  /\ \A u \in Uses : StatementError(u) => Quiet
<1>1. GrantMaster \/ GrantSlave \/ Listen \/ Stop => Quiet
  BY DEF GrantMaster, GrantSlave, Listen, Stop, tables, saves, Quiet
<1>2. \A t \in Tasks : Eject(t) \/ Replicate(t) => Quiet
  BY DEF Eject, Replicate, tables, saves, Quiet
<1>3. \A p \in Polls : Tick(p) \/ PollDone(p) \/ PollError(p) => Quiet
  BY DEF Tick, PollDone, PollError, tables, saves, Quiet
<1>4. \A u \in Uses : StatementError(u) => Quiet
  BY DEF StatementError, tables, saves, Quiet
<1>5. QED  BY <1>1, <1>2, <1>3, <1>4

(* What a step may make of the rows and the saves of the tasks: it writes  *)
(* the row of one task, or a poll leases the due ones.                     *)
LEMMA StepTouches ==
  ASSUME RowInv, [Next]_vars
  PROVE  /\ RowInv'
         /\ \A t \in Tasks : t \notin Stored /\ phase[t] \notin {"none", "connecting"}
                             => t \notin Stored'
<1> USE DEF RowInv, Stored
<1>1. CASE Quiet
  BY <1>1 DEF Quiet
<1>2. ASSUME NEW t \in Tasks, Save(t) \/ SaveWithoutMaster(t) \/ SaveWithoutSlave(t)
                              \/ InsertError(t) \/ LookError(t) \/ LookAtSlave(t) \/ Enable(t)
      PROVE  RowInv' /\ UNCHANGED at
  <2>1. UNCHANGED at
    BY <1>2 DEF Save, SaveWithoutMaster, SaveWithoutSlave, InsertError, LookError,
                LookAtSlave, Looked, Enable, tables
  <2>2. phase' = phase \/ \E w \in {"connecting", "enabling", "removing", "over"} :
                            phase' = [phase EXCEPT ![t] = w]
    BY <1>2 DEF Save, SaveWithoutMaster, SaveWithoutSlave, InsertError, LookError,
                LookAtSlave, Looked, Enable, Answer, saves
  <2>3. QED  BY <2>1, <2>2
<1>3. ASSUME NEW t \in Tasks, Insert(t)
      PROVE  /\ RowInv' /\ phase[t] = "connecting"
             /\ \A s \in Tasks \ {t} : at'[s] = at[s]
  BY <1>3 DEF Insert, Saving
<1>4. ASSUME NEW t \in Tasks,
             RemoveFromMaster(t) \/ Update(t) \/ Disable(t) \/ Complete(t)
      PROVE  RowInv' /\ (\A s \in Tasks : at[s] = "absent" => at'[s] = "absent")
  <2>1. phase' = phase \/ phase' = [phase EXCEPT ![t] = "over"]
    BY <1>4 DEF RemoveFromMaster, Update, Disable, Complete, Answer, saves
  <2>2. \/ at' = at \/ at' = [at EXCEPT ![t] = "absent"]
        \/ at' = [at EXCEPT ![t] = IF @ = "absent" THEN @ ELSE "later"]
    BY <1>4 DEF RemoveFromMaster, Update, Updated, Disable, Complete
  <2>3. QED  BY <2>1, <2>2
<1>5. ASSUME NEW t \in Tasks, Expire(t)
      PROVE  RowInv' /\ (\A s \in Tasks : at[s] = "absent" => at'[s] = "absent")
  BY <1>5 DEF Expire, saves
<1>6. ASSUME NEW p \in Polls, PollCommit(p)
      PROVE  RowInv' /\ (\A s \in Tasks : at[s] = "absent" => at'[s] = "absent")
  BY <1>6 DEF PollCommit, saves
<1>7. ASSUME Crash
      PROVE  RowInv' /\ UNCHANGED at
  BY <1>7 DEF Crash, tables
<1>8. UNCHANGED vars => Quiet
  BY DEF vars, tables, saves, Quiet
<1>9. CASE Next
  BY <1>1, <1>2, <1>3, <1>4, <1>5, <1>6, <1>7, <1>9, QuietSteps
     DEF Next, SaveStep, PollStep
<1>10. QED  BY <1>1, <1>8, <1>9

LEMMA RowInvariant == Spec => []RowInv
<1>1. Init => RowInv
  BY DEF Init, RowInv
<1>2. RowInv /\ [Next]_vars => RowInv'
  BY StepTouches
<1>3. QED  BY <1>1, <1>2, PTL DEF Spec

(* A row that was deleted, removed or disabled never comes back, for any   *)
(* tasks, polls, pools and number of faults (updateTask writes rows that   *)
(* are there, saveTask inserts once).                                      *)
THEOREM GoneForGood == Spec => GoneStaysGone
<1>1. RowInv /\ [Next]_vars
      => [\A t \in Tasks : t \notin Stored /\ phase[t] \notin {"none", "connecting"}
                           => t \notin Stored']_vars
  BY StepTouches
<1>2. QED  BY <1>1, RowInvariant, PTL DEF Spec, GoneStaysGone

-----------------------------------------------------------------------------
(* The types of what deletes rows.                                         *)
UseTypes ==
  /\ line \in Seq(Uses) /\ held \in [Uses -> Int]
  /\ taken \in [Polls -> SUBSET Tasks] /\ passedOn \in SUBSET Tasks

Deletions == {"disable", "complete"} \X Tasks

(* A deletion is only under way for a task that was passed on.             *)
DeletionInv ==
  \A u \in Deletions : Borrowed(u) \/ u \in ToSet(line) => u[2] \in passedOn

UseInv == UseTypes /\ DeletionInv

LEMMA DeletionsAreUses == Deletions \subseteq Uses
  BY DEF Deletions, Uses

LEMMA ToSetFacts ==
  ASSUME NEW s \in Seq(Uses)
  PROVE  /\ \A u \in Uses : Append(s, u) \in Seq(Uses) /\ ToSet(Append(s, u)) \subseteq ToSet(s) \cup {u}
         /\ s # <<>> => /\ Head(s) \in Uses /\ Head(s) \in ToSet(s)
                       /\ Tail(s) \in Seq(Uses) /\ ToSet(Tail(s)) \subseteq ToSet(s)
         /\ \A x \in Seq(Uses) : s \o x \in Seq(Uses) /\ ToSet(s \o x) \subseteq ToSet(s) \cup ToSet(x)
  BY DEF ToSet

(* What a poll asks for is an update or a disabling of what it took.       *)
LEMMA UsesForFacts ==
  ASSUME NEW S \in SUBSET Tasks, NEW last \in SUBSET S, NEW uses \in UsesFor(S, last)
  PROVE  /\ uses \in Seq(Uses) /\ \A u \in ToSet(uses) \cap Deletions : u[2] \in S
         /\ \A u \in ToSet(uses) : u[1] # "save"
  <1> DEFINE all == ({"update"} \X S) \cup ({"disable"} \X last)
  <1>1. IsFiniteSet({"update", "disable"} \X Tasks)
    <2>1. IsFiniteSet({"update", "disable"})
      <3>1. {"update", "disable"} = {"update"} \cup {"disable"}
        OBVIOUS
      <3>2. IsFiniteSet({"update"}) /\ IsFiniteSet({"disable"})
        BY FS_Singleton
      <3>3. IsFiniteSet({"update"} \cup {"disable"})
        BY <3>2, FS_Union, Zenon
      <3> QED  BY <3>1, <3>3, Zenon
    <2> QED  BY <2>1, TasksAssumption, FS_Product
  <1>2. all \subseteq {"update", "disable"} \X Tasks
    OBVIOUS
  <1>3. Cardinality(all) \in Nat
    BY <1>1, <1>2, FS_Subset, FS_CardinalityType
  <1>4. uses \in [1..Cardinality(all) -> all]
    BY DEF UsesFor, SetToSeqs
  <1>5. uses \in Seq(all) /\ ToSet(uses) \subseteq all
    <2>1. \A n \in Nat : \A f \in [1..n -> all] : f \in Seq(all)
      OBVIOUS
    <2>2. DOMAIN uses = 1..Cardinality(all) /\ \A i \in DOMAIN uses : uses[i] \in all
      BY <1>4
    <2> QED  BY <1>3, <1>4, <2>1, <2>2, ZenonT(60) DEF ToSet
  <1>6. all \subseteq Uses /\ \A u \in all : u[2] \in S /\ u[1] # "save"
    BY DEF Uses
  <1> QED  BY <1>5, <1>6

LEMMA UseInvInit == Init => UseInv
  <1> SUFFICES ASSUME Init PROVE UseInv
    OBVIOUS
  <1>1. UseTypes
    BY DEF Init, UseTypes
  <1>2. ToSet(line) = {}
    BY DEF Init, ToSet
  <1>3. \A u \in Uses : ~Borrowed(u)
    BY DEF Init, Borrowed
  <1> QED  BY <1>1, <1>2, <1>3, DeletionsAreUses DEF UseInv, DeletionInv

(* A step that gives no deletion a connection and no place in the line.    *)
LEMMA NoNewDeletion ==
  ASSUME UseInv, UseTypes', passedOn \subseteq passedOn',
         \A u \in Deletions : held'[u] > 0 \/ u \in ToSet(line') =>
           Borrowed(u) \/ u \in ToSet(line) \/ u[2] \in passedOn'
  PROVE  UseInv'
  BY DEF UseInv, DeletionInv, Borrowed

LEMMA ReleasedKeeps ==
  ASSUME UseTypes, NEW u \in Uses, Released(u)
  PROVE  held' \in [Uses -> Int] /\ \A x \in Uses : held'[x] > 0 => Borrowed(x)
  BY DEF UseTypes, Released, Borrowed

LEMMA UseInvStep == UseInv /\ [Next]_vars => UseInv'
  <1> SUFFICES ASSUME UseInv, [Next]_vars PROVE UseInv'
    OBVIOUS
  <1> USE DEF tables, masterPool, slavePool, saves, runner
  <1>types. line \in Seq(Uses) /\ held \in [Uses -> Int] /\ UseTypes
    BY DEF UseInv, UseTypes
  <1>0. ASSUME UNCHANGED <<taken, passedOn>>, line' \in Seq(Uses), ToSet(line') \subseteq ToSet(line),
               held' \in [Uses -> Int], \A u \in Uses : held'[u] > 0 => Borrowed(u)
        PROVE  UseInv'
    <2>1. UseTypes'
      BY <1>0, <1>types DEF UseTypes
    <2> QED  BY <1>0, <2>1, NoNewDeletion, DeletionsAreUses
  <1>00. \A u \in Uses : held[u] > 0 => Borrowed(u)
    BY DEF Borrowed
  <1>1. ASSUME GrantMaster PROVE UseInv'
    <2> DEFINE u == Head(line)
    <2>1. /\ u \in Uses /\ u \in ToSet(line) /\ line' = Tail(line) /\ line' \in Seq(Uses)
          /\ ToSet(line') \subseteq ToSet(line) /\ UNCHANGED <<taken, passedOn>>
          /\ held' = held \/ held' = [held EXCEPT ![u] = @ + 1]
      BY <1>1, <1>types, ToSetFacts DEF GrantMaster
    <2>2. held' \in [Uses -> Int] /\ \A x \in Uses : held'[x] > 0 => Borrowed(x) \/ x = u
      BY <2>1, <1>types DEF Borrowed
    <2>3. UseTypes'
      BY <2>1, <2>2, <1>types DEF UseTypes
    <2> QED  BY <2>1, <2>2, <2>3, NoNewDeletion, DeletionsAreUses
  <1>2. CASE UNCHANGED <<line, held, taken, passedOn>>
    BY <1>0, <1>00, <1>2, <1>types
  <1>3. ASSUME NEW t \in Tasks, Save(t) PROVE UseInv'
    <2>1. <<"save", t>> \in Uses /\ <<"save", t>> \notin Deletions
      BY DEF Uses, Deletions
    <2>2. /\ line' = Append(line, <<"save", t>>) /\ UNCHANGED <<held, taken, passedOn>>
      BY <1>3 DEF Save
    <2>3. UseTypes' /\ ToSet(line') \subseteq ToSet(line) \cup {<<"save", t>>}
      BY <2>1, <2>2, <1>types, ToSetFacts DEF UseTypes
    <2> QED  BY <1>00, <2>1, <2>2, <2>3, NoNewDeletion, DeletionsAreUses
  <1>4. ASSUME NEW t \in Tasks,
               \/ SaveWithoutMaster(t) \/ SaveWithoutSlave(t) \/ InsertError(t)
               \/ LookAtSlave(t) \/ LookError(t)
        PROVE  UseInv'
    <2>1. <<"save", t>> \in Uses
      BY DEF Uses
    <2>2. /\ UNCHANGED <<taken, passedOn>>
          /\ line' = line \/ (line # <<>> /\ line' = Tail(line))
          /\ held' = held \/ Released(<<"save", t>>)
      BY <1>4 DEF SaveWithoutMaster, SaveWithoutSlave, InsertError, LookAtSlave, LookError, Looked
    <2> QED  BY <1>0, <1>00, <2>1, <2>2, <1>types, ToSetFacts, ReleasedKeeps
  <1>5. ASSUME NEW p \in Polls, Tick(p) PROVE UseInv'
    <2>1. <<"poll", p>> \in Uses /\ <<"poll", p>> \notin Deletions
      BY DEF Uses, Deletions
    <2>2. /\ line' = Append(line, <<"poll", p>>) /\ UNCHANGED <<held, taken, passedOn>>
      BY <1>5 DEF Tick
    <2>3. UseTypes' /\ ToSet(line') \subseteq ToSet(line) \cup {<<"poll", p>>}
      BY <2>1, <2>2, <1>types, ToSetFacts DEF UseTypes
    <2> QED  BY <1>00, <2>1, <2>2, <2>3, NoNewDeletion, DeletionsAreUses
  <1>6. ASSUME NEW p \in Polls, PollCommit(p) PROVE UseInv'
    <2>1. /\ UNCHANGED <<line, held, passedOn>>
          /\ taken' = [taken EXCEPT ![p] = {t \in Tasks : at[t] = "due"}]
      BY <1>6 DEF PollCommit
    <2>2. UseTypes'
      BY <2>1, <1>types DEF UseTypes
    <2> QED  BY <1>00, <2>1, <2>2, NoNewDeletion, DeletionsAreUses
  <1>7. ASSUME NEW p \in Polls, PollDone(p) PROVE UseInv'
    <2>1. taken[p] \in SUBSET Tasks
      BY <1>types DEF UseTypes
    <2>2. PICK last \in SUBSET taken[p] : \E uses \in UsesFor(taken[p], last) : line' = line \o uses
      BY <1>7 DEF PollDone
    <2>9. PICK uses \in UsesFor(taken[p], last) : line' = line \o uses
      BY <2>2
    <2>3. uses \in Seq(Uses) /\ \A u \in ToSet(uses) \cap Deletions : u[2] \in taken[p]
      BY <2>1, <2>9, UsesForFacts
    <2>4. line' \in Seq(Uses) /\ ToSet(line') \subseteq ToSet(line) \cup ToSet(uses)
      BY <2>3, <2>9, <1>types, ToSetFacts
    <2>5. <<"poll", p>> \in Uses
      BY DEF Uses
    <2>6. held' \in [Uses -> Int] /\ \A x \in Uses : held'[x] > 0 => Borrowed(x)
      BY <1>7, <2>5, <1>types, ReleasedKeeps DEF PollDone
    <2>7. passedOn' = passedOn \cup taken[p] /\ taken' = [taken EXCEPT ![p] = {}]
      BY <1>7 DEF PollDone
    <2>8. UseTypes'
      BY <2>1, <2>4, <2>6, <2>7, <1>types DEF UseTypes
    <2> QED  BY <2>3, <2>4, <2>6, <2>7, <2>8, NoNewDeletion, DeletionsAreUses
  <1>8. ASSUME NEW p \in Polls, PollError(p) PROVE UseInv'
    <2>1. <<"poll", p>> \in Uses
      BY DEF Uses
    <2>2. /\ UNCHANGED <<taken, passedOn>>
          /\ \/ line # <<>> /\ line' = Tail(line) /\ held' = held
             \/ line' = line /\ Released(<<"poll", p>>)
      BY <1>8 DEF PollError, Ends
    <2> QED  BY <1>0, <1>00, <2>1, <2>2, <1>types, ToSetFacts, ReleasedKeeps
  <1>9. ASSUME NEW u \in Uses, UNCHANGED <<taken, passedOn>>,
               \/ line' = line /\ Released(u)
               \/ line' = line /\ held' = [held EXCEPT ![u] = @ - 1]
               \/ line # <<>> /\ line' = Tail(line) /\ held' = held
        PROVE  UseInv'
    <2>1. held' \in [Uses -> Int] /\ \A x \in Uses : held'[x] > 0 => Borrowed(x)
      BY <1>00, <1>9, <1>types, ReleasedKeeps DEF Borrowed
    <2> QED  BY <1>0, <1>9, <2>1, <1>types, ToSetFacts
  <1>10. ASSUME NEW t \in Tasks, Update(t) \/ Disable(t) \/ Complete(t) PROVE UseInv'
    <2>1. \A k \in {"update", "disable", "complete"} : <<k, t>> \in Uses
      BY DEF Uses
    <2> QED  BY <1>9, <1>10, <2>1 DEF Update, Disable, Complete, Ends
  <1>11. ASSUME NEW u \in Uses, StatementError(u) PROVE UseInv'
    BY <1>9, <1>11 DEF StatementError, Ends
  <1>12. ASSUME NEW t \in Tasks, Eject(t) PROVE UseInv'
    <2>1. <<"complete", t>> \in Uses /\ <<"complete", t>>[2] = t
      BY DEF Uses
    <2>2. /\ line' = Append(line, <<"complete", t>>) /\ UNCHANGED <<held, taken, passedOn>>
          /\ t \in passedOn
      BY <1>12 DEF Eject
    <2>3. UseTypes' /\ ToSet(line') \subseteq ToSet(line) \cup {<<"complete", t>>}
      BY <2>1, <2>2, <1>types, ToSetFacts DEF UseTypes
    <2> QED  BY <1>00, <2>1, <2>2, <2>3, NoNewDeletion, DeletionsAreUses
  <1>13. ASSUME Crash PROVE UseInv'
    <2>1. /\ line' = <<>> /\ held' = [u \in Uses |-> 0] /\ UNCHANGED passedOn
          /\ taken' = [p \in Polls |-> {}]
      BY <1>13 DEF Crash
    <2>2. UseTypes' /\ ToSet(line') = {}
      BY <2>1, <1>types DEF UseTypes, ToSet
    <2> QED  BY <2>1, <2>2, NoNewDeletion, DeletionsAreUses
  <1>14. ASSUME NEW t \in Tasks,
                Insert(t) \/ Enable(t) \/ RemoveFromMaster(t) \/ Replicate(t) \/ Expire(t)
         PROVE  UNCHANGED <<line, held, taken, passedOn>>
    BY <1>14 DEF Insert, Enable, RemoveFromMaster, Replicate, Expire
  <1>15. ASSUME GrantSlave \/ Listen \/ Stop \/ UNCHANGED vars
         PROVE  UNCHANGED <<line, held, taken, passedOn>>
    BY <1>15 DEF GrantSlave, Listen, Stop, vars
  <1> QED
    BY <1>1, <1>2, <1>3, <1>4, <1>5, <1>6, <1>7, <1>8, <1>10, <1>11, <1>12, <1>13, <1>14, <1>15
    DEF Next, SaveStep, PollStep

-----------------------------------------------------------------------------
(* Where a task stands between its save and its deletion.                  *)
SaveTypes ==
  /\ RowInv /\ answer \in [Tasks -> {"none", "complete", "fail"}]
  /\ slave \in SUBSET Tasks /\ disabled \in SUBSET Tasks
  /\ taken \in [Polls -> SUBSET Tasks] /\ passedOn \in SUBSET Tasks

Unsaved(t) == phase[t] \in {"none", "connecting"}

SaveInv(t) ==
  /\ Unsaved(t) => t \notin Stored /\ t \notin disabled /\ t \notin passedOn
  /\ Unsaved(t) => \A p \in Polls : t \notin taken[p]
  /\ phase[t] # "over" => answer[t] = "none"
  /\ t \in disabled => t \notin Stored
  /\ phase[t] \in {"looking", "enabling", "removing"} /\ t \notin passedOn => t \in Stored
  /\ phase[t] = "enabling" /\ t \notin passedOn => t \in slave
  /\ answer[t] = "complete" /\ t \notin passedOn => t \in Stored \cap slave

MInv == UseInv /\ SaveTypes /\ \A t \in Tasks : SaveInv(t)

(* What a step may do to a task, seen from that task.                      *)
Same(t) ==
  /\ (at'[t] # "absent" <=> at[t] # "absent") /\ (t \in disabled' <=> t \in disabled)
  /\ phase'[t] = phase[t] /\ answer'[t] = answer[t] /\ (t \in passedOn' <=> t \in passedOn)

Kept(t) ==
  /\ Same(t) /\ (t \in slave' <=> t \in slave)
  /\ \A p \in Polls : t \in taken'[p] => ~Unsaved(t)

LEMMA KeptSave ==
  ASSUME NEW t \in Tasks, SaveInv(t), Kept(t) PROVE SaveInv(t)'
  BY DEF SaveInv, Kept, Same, Unsaved, Stored

Change(t) ==
  \/ Kept(t)
  \/ /\ phase[t] = "none" /\ phase'[t] = "connecting"                     \* Save
     /\ UNCHANGED <<at, slave, disabled, answer, passedOn, taken>>
  \/ /\ phase[t] \in {"connecting", "enabling"} /\ phase'[t] = "over" /\ answer'[t] = "fail"
     /\ UNCHANGED <<at, slave, disabled, passedOn, taken>>
  \/ /\ phase[t] = "connecting" /\ phase'[t] = "looking" /\ at'[t] # "absent"  \* Insert
     /\ UNCHANGED <<slave, disabled, answer, passedOn, taken>>
  \/ /\ phase[t] = "looking" /\ phase'[t] \in {"enabling", "removing"}    \* LookAtSlave
     /\ phase'[t] = "enabling" => t \in slave
     /\ UNCHANGED <<at, slave, disabled, answer, passedOn, taken>>
  \/ /\ phase[t] = "enabling" /\ phase'[t] = "over" /\ answer'[t] = "complete"
     /\ UNCHANGED <<at, slave, disabled, passedOn, taken>>
  \/ /\ phase[t] = "removing" /\ phase'[t] = "over" /\ answer'[t] = "fail" \* RemoveFromMaster
     /\ at'[t] \in {at[t], "absent"} /\ UNCHANGED <<slave, disabled, passedOn, taken>>
  \/ /\ \E p \in Polls : t \in taken[p]                                   \* PollDone
     /\ t \in passedOn' /\ UNCHANGED <<at, slave, disabled, saves>>
     /\ \A p \in Polls : taken'[p] \subseteq taken[p]
  \/ /\ t \in passedOn /\ at'[t] = "absent"                               \* Disable, Complete
     /\ t \in disabled => t \in disabled'
     /\ t \in disabled' => t \in disabled \/ t \in Stored
     /\ UNCHANGED <<slave, saves, passedOn, taken>>
  \/ /\ (t \in slave) # (t \in Stored) /\ (t \in slave' <=> t \in Stored)  \* Replicate
     /\ UNCHANGED <<at, disabled, saves, passedOn, taken>>
  \/ /\ phase[t] # "none" /\ phase'[t] = "over"                           \* Crash
     /\ \A p \in Polls : taken'[p] = {}
     /\ UNCHANGED <<at, slave, disabled, answer, passedOn>>

LEMMA ChangeSave ==
  ASSUME NEW t \in Tasks, SaveTypes, SaveInv(t), Change(t) PROVE SaveInv(t)'
  BY KeptSave DEF SaveTypes, RowInv, SaveInv, Change, Unsaved, Stored, saves

(* Every step is one of these changes for every task.                      *)
LEMMA StepChanges ==
  ASSUME MInv, [Next]_vars PROVE SaveTypes' /\ \A t \in Tasks : Change(t)
  <1> USE DEF tables, masterPool, slavePool, saves, runner, SaveTypes, RowInv, Stored
  <1>types. SaveTypes /\ \A t \in Tasks : SaveInv(t)
    BY DEF MInv
  <1>rows. RowInv'
    BY StepTouches, <1>types
  <1>0. ASSUME UNCHANGED <<at, slave, disabled, saves, passedOn, taken>>
        PROVE  SaveTypes' /\ \A t \in Tasks : Change(t)
    BY <1>0, <1>types DEF Change, Kept, Same, SaveInv
  <1>1. ASSUME GrantMaster \/ GrantSlave \/ Listen \/ Stop \/ UNCHANGED vars
        PROVE  UNCHANGED <<at, slave, disabled, saves, passedOn, taken>>
    BY <1>1 DEF GrantMaster, GrantSlave, Listen, Stop, vars
  <1>2. ASSUME (\E t \in Tasks : Eject(t)) \/ (\E p \in Polls : Tick(p) \/ PollError(p))
               \/ \E u \in Uses : StatementError(u)
        PROVE  UNCHANGED <<at, slave, disabled, saves, passedOn, taken>>
    BY <1>2 DEF Eject, Tick, PollError, StatementError
  <1>3. ASSUME NEW s \in Tasks, Save(s) PROVE SaveTypes' /\ \A t \in Tasks : Change(t)
    <2>1. /\ phase[s] = "none" /\ phase' = [phase EXCEPT ![s] = "connecting"]
          /\ UNCHANGED <<at, slave, disabled, answer, passedOn, taken>>
      BY <1>3 DEF Save
    <2> QED  BY <2>1, <1>rows, <1>types DEF Change, Kept, Same, SaveInv
  <1>4. ASSUME NEW s \in Tasks, SaveWithoutMaster(s) \/ SaveWithoutSlave(s) \/ InsertError(s)
        PROVE  SaveTypes' /\ \A t \in Tasks : Change(t)
    <2>1. /\ UNCHANGED <<at, slave, disabled, passedOn, taken>>
          /\ UNCHANGED <<phase, answer>> \/ (phase[s] = "connecting" /\ Answer(s, "fail"))
      BY <1>4 DEF SaveWithoutMaster, SaveWithoutSlave, InsertError, Saving
    <2> QED  BY <1>0, <2>1, <1>rows, <1>types DEF Change, Kept, Same, SaveInv, Answer
  <1>5. ASSUME NEW s \in Tasks, Insert(s) PROVE SaveTypes' /\ \A t \in Tasks : Change(t)
    <2>1. /\ phase[s] = "connecting" /\ phase' = [phase EXCEPT ![s] = "looking"]
          /\ \E w \in {"due", "later"} : at' = [at EXCEPT ![s] = w]
          /\ UNCHANGED <<slave, disabled, answer, passedOn, taken>>
      BY <1>5 DEF Insert, Saving
    <2> QED  BY <2>1, <1>rows, <1>types DEF Change, Kept, Same, SaveInv
  <1>6. ASSUME NEW s \in Tasks, LookAtSlave(s) \/ LookError(s)
        PROVE  SaveTypes' /\ \A t \in Tasks : Change(t)
    <2>1. /\ phase[s] = "looking"
          /\ \E w \in {"enabling", "removing"} :
               phase' = [phase EXCEPT ![s] = w] /\ (w = "enabling" => s \in slave)
          /\ UNCHANGED <<at, slave, disabled, answer, passedOn, taken>>
      BY <1>6 DEF LookAtSlave, LookError, Looked, Found
    <2> QED  BY <2>1, <1>rows, <1>types DEF Change, Kept, Same, SaveInv
  <1>7. ASSUME NEW s \in Tasks, Enable(s) PROVE SaveTypes' /\ \A t \in Tasks : Change(t)
    <2>1. /\ phase[s] = "enabling" /\ (Answer(s, "complete") \/ Answer(s, "fail"))
          /\ UNCHANGED <<at, slave, disabled, passedOn, taken>>
      BY <1>7 DEF Enable
    <2> QED  BY <2>1, <1>rows, <1>types DEF Change, Kept, Same, SaveInv, Answer
  <1>8. ASSUME NEW s \in Tasks, RemoveFromMaster(s)
        PROVE  SaveTypes' /\ \A t \in Tasks : Change(t)
    <2>1. /\ phase[s] = "removing" /\ Answer(s, "fail")
          /\ at' = at \/ at' = [at EXCEPT ![s] = "absent"]
          /\ UNCHANGED <<slave, disabled, passedOn, taken>>
      BY <1>8 DEF RemoveFromMaster
    <2> QED  BY <2>1, <1>rows, <1>types DEF Change, Kept, Same, SaveInv, Answer
  <1>9. ASSUME NEW s \in Tasks, Update(s) \/ Expire(s)
        PROVE  SaveTypes' /\ \A t \in Tasks : Change(t)
    <2>1. /\ UNCHANGED <<slave, disabled, saves, passedOn, taken>>
          /\ \A t \in Tasks : at'[t] # "absent" <=> at[t] # "absent"
      BY <1>9, <1>types DEF Update, Updated, Expire
    <2> QED  BY <2>1, <1>rows, <1>types DEF Change, Kept, Same, SaveInv
  <1>10. ASSUME NEW s \in Tasks, Disable(s) \/ Complete(s)
         PROVE  SaveTypes' /\ \A t \in Tasks : Change(t)
    <2>1. s \in passedOn
      <3>1. /\ <<"disable", s>> \in Deletions /\ <<"complete", s>> \in Deletions
            /\ <<"disable", s>>[2] = s /\ <<"complete", s>>[2] = s
        BY DEF Deletions
      <3>2. Borrowed(<<"disable", s>>) \/ Borrowed(<<"complete", s>>)
        BY <1>10 DEF Disable, Complete, Ends
      <3> QED  BY <3>1, <3>2 DEF MInv, UseInv, DeletionInv
    <2>2. /\ at' = [at EXCEPT ![s] = "absent"]
          /\ disabled' = disabled \/ disabled' = disabled \cup ({s} \cap Stored)
          /\ UNCHANGED <<slave, saves, passedOn, taken>>
      BY <1>10 DEF Disable, Complete
    <2>3. Change(s)
      BY <2>1, <2>2, <1>types DEF Change
    <2>4. \A t \in Tasks \ {s} : Kept(t)
      BY <2>2, <1>types DEF Kept, Same, SaveInv
    <2> QED  BY <2>2, <2>3, <2>4, <1>rows, <1>types DEF Change
  <1>11. ASSUME NEW s \in Tasks, Replicate(s) PROVE SaveTypes' /\ \A t \in Tasks : Change(t)
    <2>1. /\ (s \in slave) # (s \in Stored) /\ slave' = (slave \ {s}) \cup ({s} \cap Stored)
          /\ UNCHANGED <<at, disabled, saves, passedOn, taken>>
      BY <1>11 DEF Replicate
    <2> QED  BY <2>1, <1>rows, <1>types DEF Change, Kept, Same, SaveInv
  <1>12. ASSUME NEW p \in Polls, PollCommit(p) PROVE SaveTypes' /\ \A t \in Tasks : Change(t)
    <2>1. /\ UNCHANGED <<slave, disabled, saves, passedOn>>
          /\ taken' = [taken EXCEPT ![p] = {t \in Tasks : at[t] = "due"}]
          /\ \A t \in Tasks : at'[t] # "absent" <=> at[t] # "absent"
      BY <1>12, <1>types DEF PollCommit
    <2> QED  BY <2>1, <1>rows, <1>types DEF Change, Kept, Same, SaveInv, Unsaved
  <1>13. ASSUME NEW p \in Polls, PollDone(p) PROVE SaveTypes' /\ \A t \in Tasks : Change(t)
    <2>1. /\ passedOn' = passedOn \cup taken[p] /\ taken' = [taken EXCEPT ![p] = {}]
          /\ UNCHANGED <<at, slave, disabled, saves>>
      BY <1>13 DEF PollDone
    <2> QED  BY <2>1, <1>rows, <1>types DEF Change, Kept, Same, SaveInv
  <1>14. ASSUME Crash PROVE SaveTypes' /\ \A t \in Tasks : Change(t)
    <2>1. /\ phase' = [t \in Tasks |-> IF phase[t] = "none" THEN "none" ELSE "over"]
          /\ taken' = [p \in Polls |-> {}] /\ UNCHANGED <<at, slave, disabled, answer, passedOn>>
      BY <1>14 DEF Crash
    <2> QED  BY <2>1, <1>rows, <1>types DEF Change, Kept, Same, SaveInv
  <1> QED
    BY <1>0, <1>1, <1>2, <1>3, <1>4, <1>5, <1>6, <1>7, <1>8, <1>9, <1>10, <1>11, <1>12, <1>13, <1>14
    DEF Next, SaveStep, PollStep

LEMMA MysqlInv == Spec => []MInv
  <1>1. Init => MInv
    BY UseInvInit DEF Init, MInv, SaveTypes, RowInv, SaveInv, Unsaved, Stored
  <1>2. MInv /\ [Next]_vars => MInv'
    BY UseInvStep, StepChanges, ChangeSave DEF MInv
  <1> QED  BY <1>1, <1>2, PTL DEF Spec

(* An acknowledged task is at the master and at the slave until it was     *)
(* passed on.                                                              *)
THEOREM AcknowledgedOnBoth == Spec => []AcknowledgedIsOnBoth
  <1>1. MInv => AcknowledgedIsOnBoth
    BY DEF MInv, SaveInv, AcknowledgedIsOnBoth
  <1> QED  BY <1>1, MysqlInv, PTL

-----------------------------------------------------------------------------
(* The mysql adapter implements TaskStore.                                 *)
Row(t) == IF t \in Stored THEN "waiting" ELSE IF t \in disabled THEN "retired" ELSE "absent"

Phase(t) == IF phase[t] \in {"none", "over"} THEN phase[t] ELSE "saving"

St(t) == [phase |-> Phase(t), answer |-> answer[t], row |-> Row(t),
          passed |-> t \in passedOn, done |-> t \in passedOn]

LEMMA StFields ==
  ASSUME SaveTypes, NEW t \in Tasks, NEW s, s = St(t)
  PROVE  /\ s \in Store!State
         /\ s.phase = Phase(t) /\ s.answer = answer[t] /\ s.row = Row(t)
         /\ s.passed = (t \in passedOn) /\ s.done = (t \in passedOn)
  <1> DEFINE p == Phase(t)
             r == Row(t)
             x == t \in passedOn
  <1>1. /\ p \in {"none", "saving", "over"} /\ answer[t] \in {"none", "complete", "fail"}
        /\ r \in {"absent", "waiting", "retired"} /\ x \in BOOLEAN
    BY DEF Phase, Row, SaveTypes, RowInv
  <1>2. s = [phase |-> p, answer |-> answer[t], row |-> r, passed |-> x, done |-> x]
    BY DEF St
  <1> HIDE DEF p, r, x
  <1>3. /\ s \in Store!State /\ s.phase = p /\ s.answer = answer[t] /\ s.row = r
        /\ s.passed = x /\ s.done = x
    BY <1>1, <1>2 DEF Store!State
  <1> QED  BY <1>3 DEF p, r, x

LEMMA StFieldsNext ==
  ASSUME SaveTypes', NEW t \in Tasks, NEW n, n = St(t)'
  PROVE  /\ n \in Store!State
         /\ n.phase = Phase(t)' /\ n.answer = answer'[t] /\ n.row = Row(t)'
         /\ n.passed = (t \in passedOn') /\ n.done = (t \in passedOn')
  <1> DEFINE p == Phase(t)'
             r == Row(t)'
             x == t \in passedOn'
  <1>1. /\ p \in {"none", "saving", "over"} /\ answer'[t] \in {"none", "complete", "fail"}
        /\ r \in {"absent", "waiting", "retired"} /\ x \in BOOLEAN
    BY DEF Phase, Row, SaveTypes, RowInv
  <1>2. n = [phase |-> p, answer |-> answer'[t], row |-> r, passed |-> x, done |-> x]
    BY DEF St
  <1> HIDE DEF p, r, x
  <1>3. /\ n \in Store!State /\ n.phase = p /\ n.answer = answer'[t] /\ n.row = r
        /\ n.passed = x /\ n.done = x
    BY <1>1, <1>2 DEF Store!State
  <1> QED  BY <1>3 DEF p, r, x

LEMMA StoreInit == Init => Store!Init
  <1> SUFFICES ASSUME Init PROVE Store!Init
    OBVIOUS
  <1>1. ASSUME NEW t \in Tasks PROVE St(t) = Store!New
    <2>1. Phase(t) = "none" /\ Row(t) = "absent" /\ answer[t] = "none"
      BY DEF Init, Phase, Row, Stored
    <2>2. (t \in passedOn) = FALSE
      BY DEF Init
    <2> QED  BY <2>1, <2>2, Zenon DEF St, Store!New
  <1> QED  BY <1>1, Zenon DEF Store!Init, St, Phase, Row

(* When a task has moved, told by the parts of its state.                   *)
LEMMA MoveOf ==
  ASSUME NEW s \in Store!State, NEW n \in Store!State, s.phase = "saving",
         n.phase \in {"saving", "over"}, n.passed = s.passed, n.done = s.done
  PROVE  /\ n.answer = s.answer /\ n.row = "waiting" => Store!Store(s, n)
         /\ /\ s.answer = "none" /\ n.answer = "complete" /\ n.row = s.row
            /\ s.row # "absent" \/ s.done
            => Store!Complete(s, n)
         /\ /\ s.answer = "none" /\ n.answer = "fail" /\ n.row \in {s.row, "absent"}
            => Store!Fail(s, n)
         /\ n.answer = s.answer /\ n.row = s.row => Store!Fail(s, n)
  <1> USE DEF Store!State, Store!Saving, Store!Told
  <1>1. ASSUME n.answer = s.answer, n.row = "waiting" PROVE Store!Store(s, n)
    BY <1>1 DEF Store!Store
  <1>2. ASSUME s.answer = "none", n.answer = "complete", n.row = s.row, s.row # "absent" \/ s.done
        PROVE  Store!Complete(s, n)
    BY <1>2 DEF Store!Complete
  <1>3. ASSUME s.answer = "none", n.answer = "fail", n.row \in {s.row, "absent"}
        PROVE  Store!Fail(s, n)
    BY <1>3 DEF Store!Fail
  <1>4. ASSUME n.answer = s.answer, n.row = s.row PROVE Store!Fail(s, n)
    BY <1>4 DEF Store!Fail
  <1> QED  BY <1>1, <1>2, <1>3, <1>4

(* A change of a task is a move of TaskStore.                              *)
LEMMA StoreMoves ==
  ASSUME MInv, MInv', NEW t \in Tasks, Change(t) PROVE Store!Move(St(t), St(t)')
  <1> SUFFICES ASSUME NEW s, s = St(t), NEW n, n = St(t)' PROVE Store!Move(s, n)
    OBVIOUS
  <1>1. /\ s \in Store!State
        /\ s.phase = Phase(t) /\ s.answer = answer[t] /\ s.row = Row(t)
        /\ s.passed = (t \in passedOn) /\ s.done = (t \in passedOn)
    BY StFields DEF MInv
  <1>2. /\ n \in Store!State
        /\ n.phase = Phase(t)' /\ n.answer = answer'[t] /\ n.row = Row(t)'
        /\ n.passed = (t \in passedOn') /\ n.done = (t \in passedOn')
    BY StFieldsNext DEF MInv
  <1>3. /\ SaveInv(t) /\ RowInv
    BY DEF MInv, SaveTypes
  <1> USE DEF Store!Move
  <1>4. CASE /\ n.phase = s.phase /\ n.answer = s.answer /\ n.row = s.row
             /\ n.passed = s.passed /\ n.done = s.done
    BY <1>1, <1>2, <1>4 DEF Store!State
  <1>5. CASE Kept(t)
    <2>1. Phase(t)' = Phase(t) /\ Row(t)' = Row(t) /\ answer'[t] = answer[t]
          /\ (t \in passedOn') = (t \in passedOn)
      BY <1>5 DEF Kept, Same, Phase, Row, Stored
    <2> QED  BY <1>1, <1>2, <1>4, <2>1
  <1>6. CASE /\ phase[t] = "none" /\ phase'[t] = "connecting"
             /\ UNCHANGED <<at, slave, disabled, answer, passedOn, taken>>
    <2>1. s.phase = "none" /\ n.phase = "saving" /\ n.row = s.row /\ n.answer = s.answer
          /\ n.passed = s.passed /\ n.done = s.done
      BY <1>1, <1>2, <1>6 DEF Phase, Row, Stored
    <2> QED  BY <1>1, <1>2, <2>1 DEF Store!Call, Store!State
  <1>7. CASE /\ phase[t] \in {"connecting", "enabling"} /\ phase'[t] = "over" /\ answer'[t] = "fail"
             /\ UNCHANGED <<at, slave, disabled, passedOn, taken>>
    <2>1. s.phase = "saving" /\ n.phase = "over" /\ n.row = s.row /\ n.answer = "fail"
          /\ s.answer = "none" /\ n.passed = s.passed /\ n.done = s.done
      BY <1>1, <1>2, <1>3, <1>7 DEF Phase, Row, Stored, SaveInv
    <2> QED  BY <1>1, <1>2, <2>1, MoveOf
  <1>8. CASE /\ phase[t] = "connecting" /\ phase'[t] = "looking" /\ at'[t] # "absent"
             /\ UNCHANGED <<slave, disabled, answer, passedOn, taken>>
    <2>1. s.phase = "saving" /\ n.phase = "saving" /\ n.row = "waiting" /\ n.answer = s.answer
          /\ n.passed = s.passed /\ n.done = s.done
      BY <1>1, <1>2, <1>8 DEF Phase, Row, Stored
    <2> QED  BY <1>1, <1>2, <2>1, MoveOf
  <1>9. CASE /\ phase[t] = "looking" /\ phase'[t] \in {"enabling", "removing"}
             /\ UNCHANGED <<at, slave, disabled, answer, passedOn, taken>>
    BY <1>1, <1>2, <1>4, <1>9 DEF Phase, Row, Stored
  <1>10. CASE /\ phase[t] = "enabling" /\ phase'[t] = "over" /\ answer'[t] = "complete"
              /\ UNCHANGED <<at, slave, disabled, passedOn, taken>>
    <2>1. s.phase = "saving" /\ n.phase = "over" /\ n.row = s.row /\ n.answer = "complete"
          /\ s.answer = "none" /\ n.passed = s.passed /\ n.done = s.done
          /\ (s.row # "absent" \/ s.done)
      BY <1>1, <1>2, <1>3, <1>10 DEF Phase, Row, Stored, SaveInv
    <2> QED  BY <1>1, <1>2, <2>1, MoveOf
  <1>11. CASE /\ phase[t] = "removing" /\ phase'[t] = "over" /\ answer'[t] = "fail"
              /\ at'[t] \in {at[t], "absent"} /\ UNCHANGED <<slave, disabled, passedOn, taken>>
    <2>1. s.phase = "saving" /\ n.phase = "over" /\ n.row \in {s.row, "absent"} /\ n.answer = "fail"
          /\ s.answer = "none" /\ n.passed = s.passed /\ n.done = s.done
      BY <1>1, <1>2, <1>3, <1>11 DEF Phase, Row, Stored, SaveInv
    <2> QED  BY <1>1, <1>2, <2>1, MoveOf
  <1>12. CASE /\ \E p \in Polls : t \in taken[p]
              /\ t \in passedOn' /\ UNCHANGED <<at, slave, disabled, saves>>
    <2>1. s.phase # "none" /\ n.phase = s.phase /\ n.row = s.row /\ n.answer = s.answer
          /\ n.passed = TRUE /\ n.done = TRUE
      BY <1>1, <1>2, <1>3, <1>12 DEF Phase, Row, Stored, SaveInv, Unsaved, saves
    <2> QED  BY ZenonT(60), <1>1, <1>2, <2>1 DEF Store!Pass, Store!State
  <1>13. CASE /\ t \in passedOn /\ at'[t] = "absent"
              /\ t \in disabled => t \in disabled'
              /\ t \in disabled' => t \in disabled \/ t \in Stored
              /\ UNCHANGED <<slave, saves, passedOn, taken>>
    <2>1. n.phase = s.phase /\ n.answer = s.answer /\ s.passed = TRUE /\ s.done = TRUE
          /\ n.passed = TRUE /\ n.done = TRUE
      BY <1>1, <1>2, <1>13 DEF Phase, saves
    <2>2. n.row \in {"absent", "retired"}
      BY <1>2, <1>13 DEF Row, Stored
    <2> QED  BY <1>1, <1>2, <2>1, <2>2 DEF Store!Remove, Store!State
  <1>14. CASE UNCHANGED <<at, disabled, saves, passedOn>>
    BY <1>1, <1>2, <1>4, <1>14 DEF Phase, Row, Stored, saves
  <1>15. CASE /\ phase[t] # "none" /\ phase'[t] = "over"
              /\ UNCHANGED <<at, slave, disabled, answer, passedOn>>
    <2>1. /\ s.phase \in {"saving", "over"} /\ n.phase = "over" /\ n.row = s.row
          /\ n.answer = s.answer /\ n.passed = s.passed /\ n.done = s.done
      BY <1>1, <1>2, <1>3, <1>15 DEF Phase, Row, Stored, RowInv
    <2>2. CASE s.phase = "saving"
      BY <1>1, <1>2, <2>1, <2>2, MoveOf
    <2> QED  BY <1>4, <2>1, <2>2
  <1> QED
    BY <1>5, <1>6, <1>7, <1>8, <1>9, <1>10, <1>11, <1>12, <1>13, <1>14, <1>15 DEF Change

(* For any tasks, polls, pools and faults the mysql adapter keeps what     *)
(* TaskStore promises of an adapter.                                       *)
THEOREM MysqlImplementsStore == Spec => StoreImplemented
  <1>1. MInv /\ MInv' /\ [Next]_vars => Store!Next
    <2> SUFFICES ASSUME MInv, MInv', [Next]_vars PROVE Store!Next
      OBVIOUS
    <2>1. \A t \in Tasks : Store!Move(St(t), St(t)')
      BY StepChanges, StoreMoves
    <2> QED  BY <2>1 DEF Store!Next, St, Phase, Row
  <1> QED  BY <1>1, StoreInit, MysqlInv, PTL DEF Spec, StoreImplemented, Store!Spec

-----------------------------------------------------------------------------
(* The connections in use, one by one: Tokens(h) has h[u] of them for u.   *)
Tokens(h) == {x \in Uses \X (Nat \ {0}) : x[2] <= h[x[1]]}

LEMMA TokenIn ==
  ASSUME NEW h, NEW v \in Uses, NEW i \in Nat \ {0}
  PROVE  <<v, i>> \in Tokens(h) <=> i <= h[v]
  <1>1. <<v, i>> \in Uses \X (Nat \ {0}) /\ <<v, i>>[1] = v /\ <<v, i>>[2] = i
    OBVIOUS
  <1> QED  BY <1>1 DEF Tokens

LEMMA OneMoreToken ==
  ASSUME NEW h \in [Uses -> Nat], NEW u \in Uses, IsFiniteSet(Tokens(h)),
         NEW g \in [Uses -> Nat], g[u] = h[u] + 1, \A v \in Uses \ {u} : g[v] = h[v]
  PROVE  IsFiniteSet(Tokens(g)) /\ Cardinality(Tokens(g)) = Cardinality(Tokens(h)) + 1
  <1>1. \A v \in Uses : h[v] \in Nat /\ g[v] = IF v = u THEN h[u] + 1 ELSE h[v]
    OBVIOUS
  <1>2. PICK n \in Nat \ {0} : n = h[u] + 1
    BY <1>1
  <1>3. PICK x : x = <<u, n>>
    OBVIOUS
  <1>4. x \notin Tokens(h)
    BY <1>1, <1>2, <1>3, TokenIn
  <1>5. Tokens(g) = Tokens(h) \cup {x}
    <2>1. ASSUME NEW v \in Uses, NEW i \in Nat \ {0}
          PROVE  <<v, i>> \in Tokens(g) <=> <<v, i>> \in Tokens(h) \/ <<v, i>> = x
      <3>1. <<v, i>> = x <=> (v = u /\ i = n)
        BY <1>3
      <3>2. (<<v, i>> \in Tokens(g) <=> i <= g[v]) /\ (<<v, i>> \in Tokens(h) <=> i <= h[v])
        BY TokenIn
      <3>3. i <= g[v] <=> (i <= h[v] \/ (v = u /\ i = n))
        BY <1>1, <1>2
      <3> QED  BY <3>1, <3>2, <3>3
    <2>2. ASSUME NEW y PROVE y \in Tokens(g) <=> y \in Tokens(h) \cup {x}
      <3>1. CASE y \in Uses \X (Nat \ {0})
        <4>1. PICK v \in Uses, i \in Nat \ {0} : y = <<v, i>>
          BY <3>1
        <4> QED  BY <2>1, <4>1, Zenon
      <3>2. CASE y \notin Uses \X (Nat \ {0})
        <4>1. y \notin Tokens(g) /\ y \notin Tokens(h)
          BY <3>2 DEF Tokens
        <4>2. x \in Uses \X (Nat \ {0})
          BY <1>3
        <4> QED  BY <3>2, <4>1, <4>2, Zenon
      <3> QED  BY <3>1, <3>2
    <2> QED  BY <2>2, Zenon
  <1>6. IsFiniteSet(Tokens(g)) /\ Cardinality(Tokens(g)) = Cardinality(Tokens(h)) + 1
    <2> DEFINE S == Tokens(h)
    <2>1. IsFiniteSet(S)
      OBVIOUS
    <2> HIDE DEF S
    <2>2. IsFiniteSet(S \cup {x}) /\ Cardinality(S \cup {x}) = IF x \in S THEN Cardinality(S) ELSE Cardinality(S) + 1
      BY <2>1, FS_AddElement, Zenon
    <2> QED  BY <1>4, <1>5, <2>2 DEF S
  <1> QED  BY <1>6

LEMMA OneTokenLess ==
  ASSUME NEW h \in [Uses -> Nat], NEW u \in Uses, h[u] > 0, IsFiniteSet(Tokens(h)),
         NEW g \in [Uses -> Nat], g[u] = h[u] - 1, \A v \in Uses \ {u} : g[v] = h[v]
  PROVE  IsFiniteSet(Tokens(g)) /\ Cardinality(Tokens(g)) = Cardinality(Tokens(h)) - 1
  <1>1. \A v \in Uses : h[v] \in Nat /\ g[v] = IF v = u THEN h[u] - 1 ELSE h[v]
    OBVIOUS
  <1>2. PICK n \in Nat \ {0} : n = h[u]
    BY <1>1
  <1>3. PICK x : x = <<u, n>>
    OBVIOUS
  <1>4. x \in Tokens(h)
    BY <1>1, <1>2, <1>3, TokenIn
  <1>5. Tokens(g) = Tokens(h) \ {x}
    <2>1. ASSUME NEW v \in Uses, NEW i \in Nat \ {0}
          PROVE  <<v, i>> \in Tokens(g) <=> <<v, i>> \in Tokens(h) /\ <<v, i>> # x
      <3>1. <<v, i>> = x <=> (v = u /\ i = n)
        BY <1>3
      <3>2. (<<v, i>> \in Tokens(g) <=> i <= g[v]) /\ (<<v, i>> \in Tokens(h) <=> i <= h[v])
        BY TokenIn
      <3>3. i <= g[v] <=> (i <= h[v] /\ ~(v = u /\ i = n))
        BY <1>1, <1>2
      <3> QED  BY <3>1, <3>2, <3>3
    <2>2. ASSUME NEW y PROVE y \in Tokens(g) <=> y \in Tokens(h) \ {x}
      <3>1. CASE y \in Uses \X (Nat \ {0})
        <4>1. PICK v \in Uses, i \in Nat \ {0} : y = <<v, i>>
          BY <3>1
        <4> QED  BY <2>1, <4>1, Zenon
      <3>2. CASE y \notin Uses \X (Nat \ {0})
        <4>1. y \notin Tokens(g) /\ y \notin Tokens(h)
          BY <3>2 DEF Tokens
        <4>2. x \in Uses \X (Nat \ {0})
          BY <1>3
        <4> QED  BY <3>2, <4>1, <4>2, Zenon
      <3> QED  BY <3>1, <3>2
    <2> QED  BY <2>2, Zenon
  <1>6. IsFiniteSet(Tokens(g)) /\ Cardinality(Tokens(g)) = Cardinality(Tokens(h)) - 1
    <2> DEFINE S == Tokens(h)
    <2>1. IsFiniteSet(S)
      OBVIOUS
    <2> HIDE DEF S
    <2>2. IsFiniteSet(S \ {x}) /\ Cardinality(S \ {x}) = IF x \in S THEN Cardinality(S) - 1 ELSE Cardinality(S)
      BY <2>1, FS_RemoveElement, Zenon
    <2> QED  BY <1>4, <1>5, <2>2 DEF S
  <1> QED  BY <1>6

LEMMA NoUseAboveAll ==
  ASSUME NEW h \in [Uses -> Nat], IsFiniteSet(Tokens(h)), NEW u \in Uses
  PROVE  h[u] <= Cardinality(Tokens(h))
  <1> DEFINE f == [i \in 1..h[u] |-> <<u, i>>]
  <1>1. f \in Injection(1..h[u], Tokens(h))
    <2>1. ASSUME NEW i \in 1..h[u] PROVE f[i] \in Tokens(h)
      BY TokenIn
    <2>2. \A i, j \in 1..h[u] : f[i] = f[j] => i = j
      OBVIOUS
    <2> HIDE DEF f
    <2>3. f \in [1..h[u] -> Tokens(h)]
      BY <2>1 DEF f
    <2> QED  BY <2>2, <2>3, Fun_IsInj
  <1>2. Cardinality(1..h[u]) <= Cardinality(Tokens(h))
    BY <1>1, FS_Injection
  <1>3. Cardinality(1..h[u]) = h[u]
    BY FS_Interval
  <1> QED  BY <1>2, <1>3

-----------------------------------------------------------------------------
(* A pool never has fewer connections than it hands out: those left and    *)
(* those in use are at most Limit.                                         *)
MasterCount ==
  /\ held \in [Uses -> Nat] /\ free \in Nat
  /\ IsFiniteSet(Tokens(held)) /\ Cardinality(Tokens(held)) + free <= Limit

SlaveCount ==
  /\ slaveHeld \in SUBSET Tasks /\ slaveFree \in Nat
  /\ Cardinality(slaveHeld) + slaveFree <= Limit

(* A save waits for each of its connections once, and not for one it has.  *)
(* What it releases at its end it has.                                     *)
NoTwice(q, x) == \A i, j \in DOMAIN q : q[i] = x /\ q[j] = x => i = j

SaveUse(t) == <<"save", t>>

MasterPlace(t) ==
  /\ NoTwice(line, SaveUse(t))
  /\ SaveUse(t) \in ToSet(line) =>
       held[SaveUse(t)] = 0 /\ phase[t] \in {"connecting", "over"}
  /\ phase[t] = "none" => held[SaveUse(t)] = 0
  /\ phase[t] = "looking" => held[SaveUse(t)] > 0

SlavePlace(t) ==
  /\ NoTwice(slaveLine, t)
  /\ t \in ToSet(slaveLine) => t \notin slaveHeld /\ phase[t] \in {"connecting", "over"}
  /\ phase[t] = "none" => t \notin slaveHeld
  /\ phase[t] = "looking" => t \in slaveHeld

(* A poll that has committed has its connection.                           *)
CommitInv(p) == polling[p] = "committed" => held[<<"poll", p>>] > 0

OtherTypes ==
  /\ slaveLine \in Seq(Tasks) /\ polling \in [Polls -> {"idle", "open", "committed"}]
  /\ listener \in {"on", "off", "closed"} /\ faults \in 0..MaxFaults

PoolInv ==
  /\ MasterCount /\ SlaveCount /\ OtherTypes
  /\ \A t \in Tasks : MasterPlace(t) /\ SlavePlace(t)
  /\ \A p \in Polls : CommitInv(p)

-----------------------------------------------------------------------------
LEMMA LineFacts ==
  ASSUME NEW S, NEW q \in Seq(S), NEW x \in S
  PROVE  /\ q # <<>> =>
              /\ Head(q) \in S /\ Head(q) \in ToSet(q) /\ Tail(q) \in Seq(S)
              /\ x \in ToSet(Tail(q)) => x \in ToSet(q)
              /\ NoTwice(q, x) => NoTwice(Tail(q), x)
              /\ NoTwice(q, x) /\ Head(q) = x => x \notin ToSet(Tail(q))
         /\ \A y \in S :
              /\ Append(q, y) \in Seq(S)
              /\ x \in ToSet(Append(q, y)) => x \in ToSet(q) \/ x = y
              /\ NoTwice(q, x) /\ (x = y => x \notin ToSet(q)) => NoTwice(Append(q, y), x)
  <1> USE DEF NoTwice, ToSet
  <1>1. ASSUME q # <<>>
        PROVE  /\ Head(q) \in S /\ Head(q) \in ToSet(q) /\ Tail(q) \in Seq(S)
               /\ x \in ToSet(Tail(q)) => x \in ToSet(q)
               /\ NoTwice(q, x) => NoTwice(Tail(q), x)
               /\ NoTwice(q, x) /\ Head(q) = x => x \notin ToSet(Tail(q))
    <2>1. /\ Head(q) \in S /\ Tail(q) \in Seq(S) /\ Head(q) = q[1] /\ 1 \in DOMAIN q
          /\ \A i \in DOMAIN Tail(q) : /\ i + 1 \in DOMAIN q /\ Tail(q)[i] = q[i + 1]
                                       /\ i \in Nat /\ i # 0
      BY <1>1
    <2>2. NoTwice(q, x) => NoTwice(Tail(q), x)
      <3> SUFFICES ASSUME NoTwice(q, x), NEW i \in DOMAIN Tail(q), NEW j \in DOMAIN Tail(q),
                          Tail(q)[i] = x, Tail(q)[j] = x
                   PROVE  i = j
        OBVIOUS
      <3>1. i + 1 = j + 1 /\ i \in Nat /\ j \in Nat
        BY <2>1
      <3> QED  BY <3>1
    <2>3. ASSUME NoTwice(q, x), Head(q) = x, x \in ToSet(Tail(q)) PROVE FALSE
      <3>1. PICK i \in DOMAIN Tail(q) : Tail(q)[i] = x
        BY <2>3
      <3>2. i + 1 = 1 /\ i \in Nat /\ i # 0
        BY <2>1, <2>3, <3>1
      <3> QED  BY <3>2
    <2> QED  BY <2>1, <2>2, <2>3
  <1>2. ASSUME NEW y \in S
        PROVE  /\ Append(q, y) \in Seq(S)
               /\ x \in ToSet(Append(q, y)) => x \in ToSet(q) \/ x = y
               /\ NoTwice(q, x) /\ (x = y => x \notin ToSet(q)) => NoTwice(Append(q, y), x)
    <2>1. /\ Append(q, y) \in Seq(S)
          /\ \A i \in DOMAIN Append(q, y) :
               \/ i \in DOMAIN q /\ Append(q, y)[i] = q[i]
               \/ i = Len(q) + 1 /\ Append(q, y)[i] = y
      OBVIOUS
    <2> QED  BY <2>1
  <1> QED  BY <1>1, <1>2

LEMMA JoinedLine ==
  ASSUME NEW S, NEW q \in Seq(S), NEW r \in Seq(S), NEW x \in S, x \notin ToSet(r)
  PROVE  /\ x \in ToSet(q \o r) => x \in ToSet(q)
         /\ NoTwice(q, x) => NoTwice(q \o r, x)
  <1>1. \A i \in DOMAIN (q \o r) :
          \/ i \in DOMAIN q /\ (q \o r)[i] = q[i]
          \/ i - Len(q) \in DOMAIN r /\ (q \o r)[i] = r[i - Len(q)]
    OBVIOUS
  <1>2. \A i \in DOMAIN (q \o r) : (q \o r)[i] = x => i \in DOMAIN q /\ q[i] = x
    BY <1>1 DEF ToSet
  <1> QED  BY <1>2 DEF ToSet, NoTwice

-----------------------------------------------------------------------------
(* What a step does to a save, seen from its connection of the master: it  *)
(* leaves it, queues for it, gets it, gives it back, or begins to look.    *)
Moved(t, from, to) == phase[t] \in from /\ phase'[t] \in to

Shrinks(t) ==
  NoTwice(line', SaveUse(t)) /\ (SaveUse(t) \in ToSet(line') => SaveUse(t) \in ToSet(line))

MasterMove(t) ==
  LET h == held[SaveUse(t)]
      n == held'[SaveUse(t)]
  IN  \/ /\ Shrinks(t) /\ n = h
         /\ phase'[t] = phase[t] \/ (phase[t] # "none" /\ phase'[t] = "over")
      \/ Moved(t, {"none"}, {"connecting"}) /\ NoTwice(line', SaveUse(t)) /\ n = h
      \/ /\ Moved(t, {"connecting"}, {"connecting"}) /\ SaveUse(t) \notin ToSet(line') /\ n > 0
         /\ Shrinks(t)
      \/ /\ Shrinks(t) /\ h > 0 /\ n = h - 1 /\ phase'[t] \notin {"none", "looking"}
      \/ Shrinks(t) /\ h > 0 /\ n = h /\ phase'[t] = "looking"
      \/ ToSet(line') = {} /\ Shrinks(t) /\ n = 0 /\ phase'[t] \in {"none", "over"}

LEMMA MasterMoveKeeps ==
  ASSUME NEW t \in Tasks, held \in [Uses -> Nat], MasterPlace(t), MasterMove(t)
  PROVE  MasterPlace(t)'
  <1>1. held[SaveUse(t)] \in Nat
    BY DEF SaveUse, Uses
  <1> QED  BY <1>1 DEF MasterPlace, MasterMove, Shrinks, Moved, SaveUse

SlaveShrinks(t) == NoTwice(slaveLine', t) /\ (t \in ToSet(slaveLine') => t \in ToSet(slaveLine))

SlaveMove(t) ==
  \/ /\ SlaveShrinks(t) /\ (t \in slaveHeld' <=> t \in slaveHeld)
     /\ phase'[t] = phase[t] \/ (phase[t] # "none" /\ phase'[t] = "over")
  \/ /\ Moved(t, {"none"}, {"connecting"}) /\ NoTwice(slaveLine', t)
     /\ t \in slaveHeld' <=> t \in slaveHeld
  \/ Moved(t, {"connecting"}, {"connecting"}) /\ t \notin ToSet(slaveLine') /\ SlaveShrinks(t)
  \/ /\ SlaveShrinks(t) /\ t \in slaveHeld /\ t \notin slaveHeld'
     /\ phase'[t] \notin {"none", "looking"}
  \/ SlaveShrinks(t) /\ t \in slaveHeld /\ t \in slaveHeld' /\ phase'[t] = "looking"
  \/ /\ ToSet(slaveLine') = {} /\ SlaveShrinks(t) /\ t \notin slaveHeld'
     /\ phase'[t] \in {"none", "over"}

LEMMA SlaveMoveKeeps ==
  ASSUME NEW t \in Tasks, SlavePlace(t), SlaveMove(t)
  PROVE  SlavePlace(t)'
  BY DEF SlavePlace, SlaveMove, SlaveShrinks, Moved

-----------------------------------------------------------------------------
(* The pool of the master: a connection goes to a use or is lost, comes    *)
(* back, or is kept by a task disabled.                                    *)
PoolMove ==
  \/ UNCHANGED <<held, free>>
  \/ /\ free > 0 /\ free' = free - 1
     /\ held' = held \/ \E u \in Uses : held' = [held EXCEPT ![u] = @ + 1]
  \/ \E u \in Uses : held[u] > 0 /\ held' = [held EXCEPT ![u] = @ - 1] /\ free' \in {free, free + 1}
  \/ held' = [u \in Uses |-> 0] /\ free' = Limit

LEMMA PoolMoveKeeps ==
  ASSUME MasterCount, PoolMove PROVE MasterCount'
  <1> USE DEF MasterCount
  <1>1. Cardinality(Tokens(held)) \in Nat /\ Limit \in Nat
    BY FS_CardinalityType, LimitAssumption
  <1>2. CASE UNCHANGED <<held, free>>
    BY <1>2
  <1>3. CASE free > 0 /\ free' = free - 1 /\ held' = held
    BY <1>1, <1>3
  <1>4. ASSUME NEW u \in Uses, free > 0, free' = free - 1, held' = [held EXCEPT ![u] = @ + 1]
        PROVE  MasterCount'
    <2>1. /\ held' \in [Uses -> Nat] /\ IsFiniteSet(Tokens(held'))
          /\ Cardinality(Tokens(held')) = Cardinality(Tokens(held)) + 1
      <3>1. held \in [Uses -> Nat] /\ IsFiniteSet(Tokens(held))
        OBVIOUS
      <3>2. /\ held' \in [Uses -> Nat] /\ held'[u] = held[u] + 1
            /\ \A v \in Uses \ {u} : held'[v] = held[v]
        BY <1>4, <3>1
      <3> HIDE DEF MasterCount
      <3> QED  BY <1>4, <3>1, <3>2, OneMoreToken
    <2> QED  BY <1>1, <1>4, <2>1 DEF Tokens
  <1>5. ASSUME NEW u \in Uses, held[u] > 0, held' = [held EXCEPT ![u] = @ - 1],
               free' \in {free, free + 1}
        PROVE  MasterCount'
    <2>1. /\ held' \in [Uses -> Nat] /\ IsFiniteSet(Tokens(held'))
          /\ Cardinality(Tokens(held')) = Cardinality(Tokens(held)) - 1
      <3>1. held \in [Uses -> Nat] /\ IsFiniteSet(Tokens(held))
        OBVIOUS
      <3>2. /\ held' \in [Uses -> Nat] /\ held'[u] = held[u] - 1
            /\ \A v \in Uses \ {u} : held'[v] = held[v]
        BY <1>5, <3>1
      <3> HIDE DEF MasterCount
      <3> QED  BY <1>5, <3>1, <3>2, OneTokenLess
    <2> QED  BY <1>1, <1>5, <2>1 DEF Tokens
  <1>6. CASE held' = [u \in Uses |-> 0] /\ free' = Limit
    <2>1. Tokens(held') = {}
      BY <1>6 DEF Tokens
    <2>2. held' \in [Uses -> Nat]
      BY <1>6
    <2> QED  BY <1>1, <1>6, <2>1, <2>2, FS_EmptySet DEF Tokens
  <1> QED  BY <1>2, <1>3, <1>4, <1>5, <1>6 DEF PoolMove

SlavePoolMove ==
  \/ UNCHANGED <<slaveHeld, slaveFree>>
  \/ /\ slaveFree > 0 /\ slaveFree' = slaveFree - 1
     /\ slaveHeld' = slaveHeld \/ \E t \in Tasks : slaveHeld' = slaveHeld \cup {t}
  \/ \E t \in slaveHeld : slaveHeld' = slaveHeld \ {t} /\ slaveFree' = slaveFree + 1
  \/ slaveHeld' = {} /\ slaveFree' = Limit

LEMMA SlavePoolMoveKeeps ==
  ASSUME SlaveCount, SlavePoolMove PROVE SlaveCount'
  <1> USE DEF SlaveCount
  <1>1. IsFiniteSet(slaveHeld) /\ Cardinality(slaveHeld) \in Nat /\ Limit \in Nat
    BY TasksAssumption, FS_Subset, FS_CardinalityType, LimitAssumption
  <1>2. CASE UNCHANGED <<slaveHeld, slaveFree>>
    BY <1>2
  <1>3. CASE slaveFree > 0 /\ slaveFree' = slaveFree - 1 /\ slaveHeld' = slaveHeld
    BY <1>1, <1>3
  <1>4. ASSUME NEW t \in Tasks, slaveFree > 0, slaveFree' = slaveFree - 1,
               slaveHeld' = slaveHeld \cup {t}
        PROVE  SlaveCount'
    <2>1. Cardinality(slaveHeld') \in {Cardinality(slaveHeld), Cardinality(slaveHeld) + 1}
      BY <1>1, <1>4, FS_AddElement
    <2> QED  BY <1>1, <1>4, <2>1
  <1>5. ASSUME NEW t \in slaveHeld, slaveHeld' = slaveHeld \ {t}, slaveFree' = slaveFree + 1
        PROVE  SlaveCount'
    <2>1. Cardinality(slaveHeld') = Cardinality(slaveHeld) - 1
      BY <1>1, <1>5, FS_RemoveElement
    <2> QED  BY <1>1, <1>5, <2>1
  <1>6. CASE slaveHeld' = {} /\ slaveFree' = Limit
    BY <1>1, <1>6, FS_EmptySet
  <1> QED  BY <1>2, <1>3, <1>4, <1>5, <1>6 DEF SlavePoolMove

-----------------------------------------------------------------------------
(* Each step is such a move of both pools, of every save and every poll.   *)
Moves ==
  /\ PoolMove /\ SlavePoolMove /\ OtherTypes'
  /\ \A t \in Tasks : MasterMove(t) /\ SlaveMove(t)
  /\ \A p \in Polls : CommitInv(p)'

PoolTypes ==
  /\ PoolInv /\ line \in Seq(Uses) /\ taken \in [Polls -> SUBSET Tasks]
  /\ phase \in [Tasks -> {"none", "connecting", "looking", "enabling", "removing", "over"}]

LEMMA Kinds ==
  /\ \A t \in Tasks : SaveUse(t) \in Uses /\ SaveUse(t)[1] = "save" /\ SaveUse(t)[2] = t
  /\ \A p \in Polls : <<"poll", p>> \in Uses /\ <<"poll", p>>[1] = "poll"
  /\ \A t \in Tasks : \A k \in {"update", "disable", "complete"} :
       <<k, t>> \in Uses /\ <<k, t>>[1] = k
  BY DEF Uses, SaveUse

(* A step that leaves the pools alone and at most ends saves.              *)
LEMMA LeftAlone ==
  ASSUME PoolTypes, UNCHANGED <<masterPool, slavePool>>, OtherTypes',
         \A t \in Tasks : phase'[t] = phase[t] \/ (phase[t] # "none" /\ phase'[t] = "over"),
         \A p \in Polls : polling'[p] = "committed" => held[<<"poll", p>>] > 0
  PROVE  Moves
  <1>1. \A t \in Tasks : NoTwice(line, SaveUse(t)) /\ NoTwice(slaveLine, t)
    BY DEF PoolTypes, PoolInv, MasterPlace, SlavePlace
  <1>2. \A t \in Tasks : MasterMove(t) /\ SlaveMove(t)
    BY <1>1 DEF MasterMove, SlaveMove, Shrinks, SlaveShrinks, masterPool, slavePool
  <1>3. PoolMove /\ SlavePoolMove
    BY DEF PoolMove, SlavePoolMove, masterPool, slavePool
  <1> QED  BY <1>2, <1>3 DEF Moves, CommitInv, masterPool

LEMMA LineStays ==
  ASSUME PoolTypes, line' = line \/ (line # <<>> /\ line' = Tail(line)), NEW t \in Tasks
  PROVE  Shrinks(t)
  <1>1. NoTwice(line, SaveUse(t)) /\ line \in Seq(Uses) /\ SaveUse(t) \in Uses
    BY Kinds DEF PoolTypes, PoolInv, MasterPlace
  <1> QED  BY <1>1, LineFacts DEF Shrinks

(* A step about a use that is no save.                                     *)
LEMMA OtherUse ==
  ASSUME PoolTypes, NEW u \in Uses, u[1] # "save", UNCHANGED <<slavePool, phase>>, OtherTypes',
         \/ held' = held /\ free' = free
         \/ held[u] > 0 /\ held' = [held EXCEPT ![u] = @ - 1] /\ free' \in {free, free + 1},
         \A t \in Tasks : Shrinks(t),
         \A p \in Polls : /\ polling'[p] = "committed" => polling[p] = "committed"
                          /\ u = <<"poll", p>> => polling'[p] # "committed"
  PROVE  Moves
  <1>1. held \in [Uses -> Nat] /\ (\A t \in Tasks : NoTwice(slaveLine, t))
        /\ \A p \in Polls : CommitInv(p)
    BY DEF PoolTypes, PoolInv, MasterCount, SlavePlace
  <1>2. \A t \in Tasks : held'[SaveUse(t)] = held[SaveUse(t)]
    BY <1>1, Kinds
  <1>3. \A t \in Tasks : MasterMove(t) /\ SlaveMove(t)
    BY <1>1, <1>2 DEF MasterMove, SlaveMove, SlaveShrinks, slavePool
  <1>4. PoolMove /\ SlavePoolMove
    BY DEF PoolMove, SlavePoolMove, slavePool
  <1>5. ASSUME NEW p \in Polls, polling'[p] = "committed" PROVE held'[<<"poll", p>>] > 0
    <2>1. held[<<"poll", p>>] > 0 /\ u # <<"poll", p>>
      BY <1>1, <1>5 DEF CommitInv
    <2>2. held'[<<"poll", p>>] = held[<<"poll", p>>]
      BY <1>1, <2>1, Kinds
    <2> QED  BY <2>1, <2>2
  <1> QED  BY <1>3, <1>4, <1>5 DEF Moves, CommitInv

LEMMA QuietMoves ==
  ASSUME PoolTypes,
         \/ Listen \/ Stop \/ UNCHANGED vars
         \/ \E t \in Tasks : Enable(t) \/ RemoveFromMaster(t) \/ Replicate(t) \/ Expire(t)
         \/ \E p \in Polls : PollCommit(p)
  PROVE  Moves
  <1> USE DEF PoolTypes, PoolInv, OtherTypes, tables, saves, runner, vars
  <1>1. UNCHANGED <<masterPool, slavePool>> /\ OtherTypes'
    <2>1. UNCHANGED <<masterPool, slavePool>>
      BY DEF Listen, Stop, Enable, RemoveFromMaster, Replicate, Expire, PollCommit
    <2>2. /\ faults' = faults \/ Fault
          /\ listener' = listener \/ listener' \in {"on", "off"}
          /\ polling' = polling \/ \E p \in Polls : polling' = [polling EXCEPT ![p] = "committed"]
      BY DEF Listen, Stop, Enable, RemoveFromMaster, Replicate, Expire, PollCommit
    <2>3. slaveLine' = slaveLine
      BY <2>1 DEF slavePool
    <2> QED  BY <2>1, <2>2, <2>3, FaultsAssumption DEF Fault
  <1>2. \A t \in Tasks : phase'[t] = phase[t] \/ (phase[t] # "none" /\ phase'[t] = "over")
    BY DEF Listen, Stop, Enable, RemoveFromMaster, Replicate, Expire, PollCommit, Answer
  <1>3. \A p \in Polls : polling'[p] = "committed" => held[<<"poll", p>>] > 0
    <2>1. CASE polling' = polling
      BY <2>1 DEF CommitInv
    <2>2. ASSUME NEW q \in Polls, PollCommit(q)
          PROVE  \A p \in Polls : polling'[p] = "committed" => held[<<"poll", p>>] > 0
      BY <2>2 DEF PollCommit, Borrowed, CommitInv
    <2> QED  BY <2>1, <2>2 DEF Listen, Stop, Enable, RemoveFromMaster, Replicate, Expire
  <1> HIDE DEF PoolTypes, PoolInv, OtherTypes
  <1> QED  BY <1>1, <1>2, <1>3, LeftAlone

LEMMA SaveMoves ==
  ASSUME PoolTypes, NEW s \in Tasks, Save(s)
  PROVE  Moves
  <1> USE DEF PoolTypes, PoolInv
  <1>1. /\ phase[s] = "none" /\ phase' = [phase EXCEPT ![s] = "connecting"]
        /\ line' = Append(line, SaveUse(s)) /\ slaveLine' = Append(slaveLine, s)
        /\ UNCHANGED <<free, held, slaveFree, slaveHeld, polling, listener, faults>>
    BY DEF Save, SaveUse, runner
  <1>2. SaveUse(s) \notin ToSet(line) /\ s \notin ToSet(slaveLine)
    BY <1>1 DEF MasterPlace, SlavePlace
  <1>3. ASSUME NEW t \in Tasks PROVE MasterMove(t) /\ SlaveMove(t)
    <2>1. /\ SaveUse(t) \in Uses /\ SaveUse(s) \in Uses /\ (SaveUse(t) = SaveUse(s) <=> t = s)
          /\ NoTwice(line, SaveUse(t)) /\ NoTwice(slaveLine, t) /\ slaveLine \in Seq(Tasks)
      BY Kinds DEF MasterPlace, SlavePlace, OtherTypes
    <2>2. NoTwice(line', SaveUse(t)) /\ (t # s => Shrinks(t))
      BY <1>1, <1>2, <2>1, LineFacts DEF Shrinks
    <2>3. NoTwice(slaveLine', t) /\ (t # s => SlaveShrinks(t))
      BY <1>1, <1>2, <2>1, LineFacts DEF SlaveShrinks
    <2> QED  BY <1>1, <2>2, <2>3 DEF MasterMove, SlaveMove, Moved
  <1>4. PoolMove /\ SlavePoolMove /\ OtherTypes'
    <2>1. slaveLine' \in Seq(Tasks)
      BY <1>1, LineFacts DEF OtherTypes
    <2> QED  BY <1>1, <2>1 DEF PoolMove, SlavePoolMove, OtherTypes
  <1> QED  BY <1>1, <1>3, <1>4 DEF Moves, CommitInv

LEMMA GrantMoves ==
  ASSUME PoolTypes, GrantMaster \/ GrantSlave
  PROVE  Moves
  <1> USE DEF PoolTypes, PoolInv
  <1>0. /\ \A t \in Tasks : NoTwice(line, SaveUse(t)) /\ NoTwice(slaveLine, t)
        /\ held \in [Uses -> Nat] /\ slaveLine \in Seq(Tasks)
    BY DEF MasterPlace, SlavePlace, MasterCount, OtherTypes
  <1>1. CASE GrantMaster
    <2> DEFINE u == Head(line)
    <2>1. /\ u \in Uses /\ line # <<>> /\ line' = Tail(line) /\ free > 0 /\ free' = free - 1
          /\ \/ held' = held /\ ~(\E t \in Tasks : u = SaveUse(t) /\ phase[t] = "connecting")
             \/ /\ held' = [held EXCEPT ![u] = @ + 1]
                /\ \A t \in Tasks : u = SaveUse(t) => phase[t] = "connecting"
          /\ UNCHANGED <<slavePool, phase, polling, listener, faults>>
      <3>1. u \in Uses
        BY <1>1, LineFacts DEF GrantMaster
      <3> QED  BY <1>1, <3>1, Kinds DEF GrantMaster, Saving, SaveUse, Uses, saves, runner
    <2> HIDE DEF u
    <2>2. ASSUME NEW t \in Tasks PROVE MasterMove(t) /\ SlaveMove(t)
      <3>1. Shrinks(t) /\ (u = SaveUse(t) => SaveUse(t) \notin ToSet(line'))
        BY <1>0, <2>1, Kinds, LineFacts DEF Shrinks, u
      <3>2. SlaveMove(t)
        BY <1>0, <2>1 DEF SlaveMove, SlaveShrinks, slavePool
      <3>3. CASE held'[SaveUse(t)] = held[SaveUse(t)]
        BY <2>1, <3>1, <3>2, <3>3 DEF MasterMove
      <3>4. CASE held'[SaveUse(t)] # held[SaveUse(t)]
        <4>1. u = SaveUse(t) /\ held'[SaveUse(t)] = held[SaveUse(t)] + 1
              /\ held[SaveUse(t)] \in Nat
          BY <1>0, <2>1, <3>4, Kinds
        <4> QED  BY <2>1, <3>1, <3>2, <4>1 DEF MasterMove, Moved
      <3> QED  BY <3>3, <3>4
    <2>3. PoolMove /\ SlavePoolMove /\ OtherTypes'
      BY <1>0, <2>1 DEF PoolMove, SlavePoolMove, OtherTypes, slavePool
    <2>4. ASSUME NEW p \in Polls PROVE CommitInv(p)'
      <3>1. held'[<<"poll", p>>] \in {held[<<"poll", p>>], held[<<"poll", p>>] + 1}
            /\ held[<<"poll", p>>] \in Nat
        BY <1>0, <2>1, Kinds
      <3> QED  BY <2>1, <3>1 DEF CommitInv
    <2> QED  BY <2>2, <2>3, <2>4 DEF Moves
  <1>2. CASE GrantSlave
    <2> DEFINE s == Head(slaveLine)
    <2>1. /\ s \in Tasks /\ slaveLine # <<>> /\ slaveLine' = Tail(slaveLine)
          /\ slaveFree > 0 /\ slaveFree' = slaveFree - 1
          /\ slaveHeld' = slaveHeld \/ (phase[s] = "connecting" /\ slaveHeld' = slaveHeld \cup {s})
          /\ UNCHANGED <<masterPool, phase, polling, listener, faults>>
      <3>1. s \in Tasks
        BY <1>0, <1>2, LineFacts DEF GrantSlave
      <3> QED  BY <1>2, <3>1 DEF GrantSlave, Saving, saves, runner
    <2> HIDE DEF s
    <2>2. ASSUME NEW t \in Tasks PROVE MasterMove(t) /\ SlaveMove(t)
      <3>1. SlaveShrinks(t) /\ (s = t => t \notin ToSet(slaveLine'))
        BY <1>0, <2>1, LineFacts DEF SlaveShrinks, s
      <3>2. MasterMove(t)
        BY <1>0, <2>1 DEF MasterMove, Shrinks, masterPool
      <3> QED  BY <2>1, <3>1, <3>2 DEF SlaveMove, Moved
    <2>3. slaveLine' \in Seq(Tasks)
      BY <1>0, <2>1
    <2>4. PoolMove /\ SlavePoolMove /\ OtherTypes'
      BY <2>1, <2>3 DEF PoolMove, SlavePoolMove, OtherTypes, masterPool
    <2> QED  BY <2>1, <2>2, <2>4 DEF Moves, CommitInv, masterPool
  <1> QED  BY <1>1, <1>2

(* What ends or goes on with a save of s gives back what s has, or leaves  *)
(* the line of one pool.                                                   *)
LEMMA SaveStepMoves ==
  ASSUME PoolTypes, NEW s \in Tasks,
         \/ SaveWithoutMaster(s) \/ SaveWithoutSlave(s) \/ Insert(s) \/ InsertError(s)
         \/ LookAtSlave(s) \/ LookError(s)
  PROVE  Moves
  <1> USE DEF PoolTypes, PoolInv
  <1>0. /\ \A t \in Tasks : MasterPlace(t) /\ SlavePlace(t)
        /\ \A t \in Tasks : NoTwice(line, SaveUse(t)) /\ NoTwice(slaveLine, t)
        /\ held \in [Uses -> Nat] /\ slaveLine \in Seq(Tasks) /\ slaveHeld \in SUBSET Tasks
    BY DEF MasterPlace, SlavePlace, MasterCount, SlaveCount, OtherTypes
  <1> DEFINE u == SaveUse(s)
             Back == held[u] > 0 /\ held' = [held EXCEPT ![u] = @ - 1] /\ free' = free + 1
             SlaveBack == s \in slaveHeld /\ slaveHeld' = slaveHeld \ {s} /\ slaveFree' = slaveFree + 1
             Phases(S) == phase' = phase \/ \E w \in S : phase' = [phase EXCEPT ![s] = w]
  <1>1. UNCHANGED <<polling, listener>> /\ (faults' = faults \/ Fault)
    BY DEF SaveWithoutMaster, SaveWithoutSlave, Insert, InsertError, LookAtSlave, LookError,
           Looked, runner
  <1>2. /\ \/ line' = line
           \/ line # <<>> /\ Head(line) = u /\ line' = Tail(line)
        /\ \/ slaveLine' = slaveLine
           \/ slaveLine # <<>> /\ Head(slaveLine) = s /\ slaveLine' = Tail(slaveLine)
    BY DEF SaveWithoutMaster, SaveWithoutSlave, Insert, InsertError, LookAtSlave, LookError,
           Looked, masterPool, slavePool, SaveUse
  <1>3. \/ /\ UNCHANGED <<held, free, slaveHeld, slaveFree>> /\ Phases({"over"})
           /\ phase[s] \in {"connecting", "over"}
        \/ /\ UNCHANGED <<held, free>> /\ SlaveBack /\ Phases({"over"})
           /\ phase[s] \in {"connecting", "over"}
        \/ /\ Back /\ UNCHANGED <<slaveHeld, slaveFree>> /\ Phases({"over"})
           /\ phase[s] \in {"connecting", "over"}
        \/ /\ Back /\ SlaveBack
           /\ \E w \in {"enabling", "removing", "over"} : phase' = [phase EXCEPT ![s] = w]
        \/ /\ UNCHANGED <<held, free, slaveHeld, slaveFree>> /\ held[u] > 0 /\ s \in slaveHeld
           /\ phase' = [phase EXCEPT ![s] = "looking"]
    <2>0. u \in Uses /\ held[u] \in Nat
      BY <1>0, Kinds
    <2>1. CASE SaveWithoutMaster(s)
      <3>1. phase[s] \in {"connecting", "over"}
        <4>1. u \in ToSet(line)
          BY <2>0, <2>1, LineFacts DEF SaveWithoutMaster, SaveUse
        <4> QED  BY <1>0, <4>1 DEF MasterPlace
      <3> QED  BY <2>1, <3>1 DEF SaveWithoutMaster, ReleasedSlave, Answer, saves
    <2>2. CASE SaveWithoutSlave(s)
      <3>1. phase[s] \in {"connecting", "over"}
        <4>1. s \in ToSet(slaveLine)
          BY <1>0, <2>2, LineFacts DEF SaveWithoutSlave
        <4> QED  BY <1>0, <4>1 DEF SlavePlace
      <3> QED  BY <2>0, <2>2, <3>1 DEF SaveWithoutSlave, Borrowed, Released, Answer, saves, SaveUse
    <2>3. CASE Insert(s)
      BY <2>3 DEF Insert, Borrowed, masterPool, slavePool, SaveUse
    <2>4. CASE InsertError(s)
      BY <2>4 DEF InsertError, Borrowed, Released, ReleasedSlave, Answer, SaveUse
    <2>5. CASE LookAtSlave(s) \/ LookError(s)
      <3>1. phase[s] = "looking" /\ Released(u) /\ ReleasedSlave(s)
            /\ \E w \in {"enabling", "removing"} : phase' = [phase EXCEPT ![s] = w]
        BY <2>5 DEF LookAtSlave, LookError, Looked, SaveUse
      <3>2. held[u] > 0 /\ s \in slaveHeld
        BY <1>0, <3>1 DEF MasterPlace, SlavePlace
      <3> QED  BY <3>1, <3>2 DEF Released, ReleasedSlave
    <2> QED  BY <2>1, <2>2, <2>3, <2>4, <2>5
  <1>4. /\ \A t \in Tasks : Shrinks(t) /\ SlaveShrinks(t)
        /\ slaveLine' \in Seq(Tasks)
    <2>1. ASSUME NEW t \in Tasks PROVE Shrinks(t)
      <3>1. line' = line \/ (line # <<>> /\ line' = Tail(line))
        BY <1>2
      <3> HIDE DEF PoolTypes, PoolInv
      <3> QED  BY <3>1, LineStays
    <2>2. ASSUME NEW t \in Tasks PROVE SlaveShrinks(t)
      <3>1. NoTwice(slaveLine, t) /\ slaveLine \in Seq(Tasks)
        BY <1>0
      <3> HIDE DEF PoolTypes, PoolInv
      <3>2. slaveLine' = slaveLine \/ (slaveLine # <<>> /\ slaveLine' = Tail(slaveLine))
        BY <1>2
      <3> QED  BY <3>1, <3>2, LineFacts DEF SlaveShrinks
    <2>3. slaveLine' \in Seq(Tasks)
      <3>1. slaveLine' = slaveLine \/ (slaveLine # <<>> /\ slaveLine' = Tail(slaveLine))
        BY <1>2
      <3> HIDE DEF PoolTypes, PoolInv
      <3> QED  BY <1>0, <3>1
    <2> QED  BY <2>1, <2>2, <2>3
  <1>5. u \in Uses /\ u[1] = "save" /\ held[u] \in Nat
    BY <1>0, Kinds
  <1>6. PoolMove /\ SlavePoolMove
    BY <1>3, <1>5 DEF PoolMove, SlavePoolMove
  <1>7. OtherTypes'
    BY <1>1, <1>4, FaultsAssumption DEF OtherTypes, Fault
  <1>8. ASSUME NEW p \in Polls PROVE CommitInv(p)'
    <2>1. held'[<<"poll", p>>] = held[<<"poll", p>>]
      BY <1>0, <1>3, <1>5, Kinds
    <2> QED  BY <1>1, <2>1 DEF CommitInv
  <1>9. ASSUME NEW t \in Tasks, t # s PROVE MasterMove(t) /\ SlaveMove(t)
    <2>1. phase'[t] = phase[t] /\ (t \in slaveHeld' <=> t \in slaveHeld)
      BY <1>3, <1>9
    <2>2. held'[SaveUse(t)] = held[SaveUse(t)]
      <3>1. SaveUse(t) # u /\ SaveUse(t) \in Uses
        BY <1>9, Kinds
      <3> QED  BY <1>0, <1>3, <1>5, <3>1
    <2> QED  BY <1>4, <2>1, <2>2 DEF MasterMove, SlaveMove
  <1>10. MasterMove(s) /\ SlaveMove(s)
    <2>1. Shrinks(s) /\ SlaveShrinks(s)
      BY <1>4
    <2> DEFINE h == held[u]
               n == held'[u]
    <2>2. Back => h > 0 /\ n = h - 1
      BY <1>0, <1>5
    <2>3. \A w : phase' = [phase EXCEPT ![s] = w] => phase'[s] = w
      OBVIOUS
    <2> QED  BY <1>3, <2>1, <2>2, <2>3 DEF MasterMove, SlaveMove
  <1> HIDE DEF PoolTypes, PoolInv
  <1> QED  BY <1>6, <1>7, <1>8, <1>9, <1>10 DEF Moves

LEMMA QueueMoves ==
  ASSUME PoolTypes,
         \/ \E t \in Tasks : Eject(t)
         \/ \E p \in Polls : Tick(p)
  PROVE  Moves
  <1>0. /\ \A t \in Tasks : NoTwice(line, SaveUse(t))
        /\ line \in Seq(Uses) /\ OtherTypes
    BY DEF PoolTypes, PoolInv, MasterPlace
  <1>1. PICK u \in Uses : u[1] # "save" /\ line' = Append(line, u)
                          /\ \A p \in Polls : /\ polling'[p] = "committed" => polling[p] = "committed"
                                              /\ u = <<"poll", p>> => polling'[p] # "committed"
    <2>1. ASSUME NEW t \in Tasks, Eject(t)
          PROVE  /\ <<"complete", t>> \in Uses /\ <<"complete", t>>[1] # "save"
                 /\ line' = Append(line, <<"complete", t>>) /\ polling' = polling
                 /\ \A p \in Polls : <<"complete", t>> # <<"poll", p>>
      BY <2>1, Kinds DEF Eject, runner
    <2>2. ASSUME NEW p \in Polls, Tick(p)
          PROVE  /\ <<"poll", p>> \in Uses /\ <<"poll", p>>[1] # "save"
                 /\ line' = Append(line, <<"poll", p>>)
                 /\ polling' = [polling EXCEPT ![p] = "open"]
      BY <2>2, Kinds DEF Tick
    <2>3. \A p, q \in Polls : <<"poll", p>> = <<"poll", q>> => p = q
      OBVIOUS
    <2> QED  BY <1>0, <2>1, <2>2, <2>3 DEF OtherTypes
  <1>2. /\ UNCHANGED <<held, free, slavePool, phase>>
        /\ OtherTypes'
    BY <1>0 DEF Eject, Tick, OtherTypes, saves, runner, slavePool
  <1>3. ASSUME NEW t \in Tasks PROVE Shrinks(t)
    BY <1>0, <1>1, Kinds, LineFacts DEF Shrinks
  <1> QED  BY <1>1, <1>2, <1>3, OtherUse

LEMMA PollMoves ==
  ASSUME PoolTypes, NEW p \in Polls, PollDone(p) \/ PollError(p)
  PROVE  Moves
  <1> DEFINE u == <<"poll", p>>
  <1>0. /\ \A t \in Tasks : NoTwice(line, SaveUse(t))
        /\ line \in Seq(Uses) /\ OtherTypes /\ CommitInv(p) /\ taken[p] \in SUBSET Tasks
        /\ u \in Uses /\ u[1] # "save" /\ \A q \in Polls : u = <<"poll", q>> => q = p
    BY Kinds DEF PoolTypes, PoolInv, MasterPlace
  <1>1. /\ UNCHANGED <<slavePool, phase, listener>> /\ (faults' = faults \/ Fault)
        /\ polling' = [polling EXCEPT ![p] = "idle"]
        /\ \/ held' = held /\ free' = free
           \/ held[u] > 0 /\ held' = [held EXCEPT ![u] = @ - 1] /\ free' = free + 1
    BY <1>0 DEF PollDone, PollError, Ends, Borrowed, Released, CommitInv, saves
  <1>2. OtherTypes'
    BY <1>0, <1>1, FaultsAssumption DEF OtherTypes, Fault, slavePool
  <1>3. \A q \in Polls : /\ polling'[q] = "committed" => polling[q] = "committed"
                         /\ u = <<"poll", q>> => polling'[q] # "committed"
    BY <1>0, <1>1 DEF OtherTypes
  <1>4. ASSUME NEW t \in Tasks PROVE Shrinks(t)
    <2>1. CASE PollDone(p)
      <3>1. PICK last \in SUBSET taken[p] :
              \E uses \in UsesFor(taken[p], last) : line' = line \o uses
        BY <2>1 DEF PollDone
      <3>2. PICK uses \in UsesFor(taken[p], last) : line' = line \o uses
        BY <3>1
      <3>3. uses \in Seq(Uses) /\ SaveUse(t) \notin ToSet(uses)
        BY <1>0, <3>2, UsesForFacts, Kinds
      <3> QED  BY <1>0, <3>2, <3>3, Kinds, JoinedLine DEF Shrinks
    <2>2. CASE line' = line \/ (line # <<>> /\ line' = Tail(line))
      BY <2>2, LineStays
    <2> QED  BY <2>1, <2>2 DEF PollError, Ends
  <1> HIDE DEF u
  <1> QED  BY <1>0, <1>1, <1>2, <1>3, <1>4, OtherUse

LEMMA StatementMoves ==
  ASSUME PoolTypes,
         \/ \E t \in Tasks : Update(t) \/ Disable(t) \/ Complete(t)
         \/ \E u \in Uses : StatementError(u)
  PROVE  Moves
  <1>0. /\ \A t \in Tasks : NoTwice(line, SaveUse(t))
        /\ line \in Seq(Uses) /\ OtherTypes
    BY DEF PoolTypes, PoolInv, MasterPlace
  <1>1. PICK u \in Uses :
          /\ u[1] \in {"update", "disable", "complete"}
          /\ \/ held' = held /\ free' = free /\ line # <<>> /\ line' = Tail(line)
             \/ /\ held[u] > 0 /\ held' = [held EXCEPT ![u] = @ - 1]
                /\ free' \in {free, free + 1} /\ line' = line
    <2>1. ASSUME NEW t \in Tasks, Update(t) \/ Disable(t) \/ Complete(t)
          PROVE  \E k \in {"update", "disable", "complete"} :
                   /\ held[<<k, t>>] > 0 /\ held' = [held EXCEPT ![<<k, t>>] = @ - 1]
                   /\ free' \in {free, free + 1} /\ line' = line
      BY <2>1 DEF Update, Disable, Complete, Ends, Borrowed, Released
    <2>2. ASSUME NEW u \in Uses, StatementError(u)
          PROVE  /\ u[1] \in {"update", "disable", "complete"}
                 /\ \/ held' = held /\ free' = free /\ line # <<>> /\ line' = Tail(line)
                    \/ /\ held[u] > 0 /\ held' = [held EXCEPT ![u] = @ - 1]
                       /\ free' \in {free, free + 1} /\ line' = line
      BY <2>2 DEF StatementError, Ends, Borrowed, Released
    <2>3. CASE \E t \in Tasks : Update(t) \/ Disable(t) \/ Complete(t)
      BY <2>1, <2>3, Kinds
    <2>4. CASE \E u \in Uses : StatementError(u)
      BY <2>2, <2>4
    <2> QED  BY <2>3, <2>4
  <1>2. /\ UNCHANGED <<slavePool, phase, polling>> /\ (faults' = faults \/ Fault)
        /\ listener' \in {listener, "closed"}
    BY DEF Update, Disable, Complete, StatementError, Ends, saves, runner
  <1>3. OtherTypes'
    BY <1>0, <1>2, FaultsAssumption DEF OtherTypes, Fault, slavePool
  <1>4. ASSUME NEW t \in Tasks PROVE Shrinks(t)
    BY <1>1, LineStays
  <1>5. \A p \in Polls : u # <<"poll", p>>
    BY <1>1
  <1> QED  BY <1>1, <1>2, <1>3, <1>4, <1>5, OtherUse

LEMMA CrashMoves ==
  ASSUME PoolTypes, Crash
  PROVE  Moves
  <1>1. /\ line' = <<>> /\ free' = Limit /\ held' = [u \in Uses |-> 0]
        /\ slaveLine' = <<>> /\ slaveFree' = Limit /\ slaveHeld' = {}
        /\ \A t \in Tasks : phase'[t] \in {"none", "over"}
        /\ polling' = [p \in Polls |-> "idle"] /\ listener' = "on" /\ Fault
    BY DEF Crash
  <1>2. ASSUME NEW t \in Tasks PROVE MasterMove(t) /\ SlaveMove(t)
    <2>1. ToSet(line') = {} /\ ToSet(slaveLine') = {} /\ Shrinks(t) /\ SlaveShrinks(t)
      BY <1>1 DEF ToSet, NoTwice, Shrinks, SlaveShrinks
    <2>2. held'[SaveUse(t)] = 0
      BY <1>1, Kinds
    <2> QED  BY <1>1, <2>1, <2>2 DEF MasterMove, SlaveMove
  <1>3. PoolMove /\ SlavePoolMove
    BY <1>1 DEF PoolMove, SlavePoolMove
  <1>4. OtherTypes' /\ \A p \in Polls : CommitInv(p)'
    BY <1>1, FaultsAssumption DEF PoolTypes, PoolInv, OtherTypes, CommitInv, Fault
  <1> QED  BY <1>2, <1>3, <1>4 DEF Moves

LEMMA PoolStep ==
  ASSUME MInv, PoolInv, [Next]_vars
  PROVE  PoolInv'
  <1>1. PoolTypes
    BY DEF PoolTypes, MInv, UseInv, UseTypes, SaveTypes, RowInv
  <1>2. Moves
    BY <1>1, QuietMoves, SaveMoves, GrantMoves, SaveStepMoves, QueueMoves, PollMoves,
       StatementMoves, CrashMoves
       DEF Next, SaveStep, PollStep
  <1>3. MasterCount' /\ SlaveCount'
    BY <1>2, PoolMoveKeeps, SlavePoolMoveKeeps DEF Moves, PoolInv
  <1>4. \A t \in Tasks : MasterPlace(t)' /\ SlavePlace(t)'
    <2>1. held \in [Uses -> Nat]
      BY DEF PoolInv, MasterCount
    <2> QED  BY <1>2, <2>1, MasterMoveKeeps, SlaveMoveKeeps DEF Moves, PoolInv
  <1> QED  BY <1>2, <1>3, <1>4 DEF Moves, PoolInv

LEMMA PoolInit == Init => PoolInv
  <1> SUFFICES ASSUME Init PROVE PoolInv
    OBVIOUS
  <1> USE LimitAssumption, FaultsAssumption
  <1>1. MasterCount
    <2>1. Tokens(held) = {}
      BY DEF Init, Tokens
    <2>2. held \in [Uses -> Nat] /\ free = Limit
      BY DEF Init
    <2> QED  BY <2>1, <2>2, FS_EmptySet DEF MasterCount
  <1>2. SlaveCount
    BY FS_EmptySet DEF Init, SlaveCount
  <1>3. OtherTypes
    BY DEF Init, OtherTypes
  <1>4. \A t \in Tasks : MasterPlace(t) /\ SlavePlace(t)
    <2>1. ASSUME NEW t \in Tasks PROVE held[SaveUse(t)] = 0
      BY Kinds DEF Init
    <2> QED  BY <2>1 DEF Init, MasterPlace, SlavePlace, NoTwice, ToSet
  <1>5. \A p \in Polls : CommitInv(p)
    BY DEF Init, CommitInv
  <1> QED  BY <1>1, <1>2, <1>3, <1>4, <1>5 DEF PoolInv

(* Every state is of its type, for any tasks, polls, limit and faults: in  *)
(* particular a connection is given back only by who has it, so that no    *)
(* pool ever has more connections than Limit.                              *)
THEOREM MysqlTyped == Spec => []TypeOK
  <1>1. MInv /\ PoolInv => TypeOK
    <2> SUFFICES ASSUME MInv, PoolInv PROVE TypeOK
      OBVIOUS
    <2>1. held \in [Uses -> 0..Limit] /\ free \in 0..Limit
      <3>1. /\ held \in [Uses -> Nat] /\ free \in Nat /\ IsFiniteSet(Tokens(held))
            /\ Cardinality(Tokens(held)) + free <= Limit
        BY DEF PoolInv, MasterCount
      <3>2. Cardinality(Tokens(held)) \in Nat /\ Limit \in Nat
        BY <3>1, FS_CardinalityType, LimitAssumption
      <3>3. ASSUME NEW u \in Uses PROVE held[u] \in 0..Limit
        <4>1. held[u] <= Cardinality(Tokens(held)) /\ held[u] \in Nat
          BY <3>1, NoUseAboveAll
        <4> QED  BY <3>1, <3>2, <4>1
      <3> QED  BY <3>1, <3>2, <3>3
    <2>2. slaveFree \in 0..Limit /\ slaveHeld \in SUBSET Tasks
      <3>1. slaveHeld \in SUBSET Tasks /\ slaveFree \in Nat /\ Cardinality(slaveHeld) + slaveFree <= Limit
        BY DEF PoolInv, SlaveCount
      <3>2. Cardinality(slaveHeld) \in Nat /\ Limit \in Nat
        BY <3>1, TasksAssumption, FS_Subset, FS_CardinalityType, LimitAssumption
      <3> QED  BY <3>1, <3>2
    <2> QED
      BY <2>1, <2>2 DEF TypeOK, MInv, UseInv, UseTypes, SaveTypes, RowInv, PoolInv, OtherTypes
  <1> QED  BY <1>1, PoolInit, PoolStep, MysqlInv, PTL DEF Spec
=============================================================================
