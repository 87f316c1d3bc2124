-------------------------- MODULE CompositeProofs --------------------------
(***************************************************************************)
(* The composite adapter, over any number of databases and runners.        *)
(*                                                                         *)
(* Two databases give their rows the same ids, so everything rests on the  *)
(* name, which is the id and the database: what a statement, a job or a    *)
(* second row calls by a name is the task that got it first.               *)
(***************************************************************************)
EXTENDS CompositeAdapter, TLAPS

Elems(s) == {s[i] : i \in 1..Len(s)}

RowOK(row) ==
  /\ row.name.id <= given[row.name.db] /\ row.task \in asked
  /\ row.left > 0 => Count[row.task] > 0
  /\ row.disabled => row.task \in passed /\ Count[row.task] > 0

(* A job or a statement and the rows with its name.                        *)
JobOK(j) ==
  /\ j.name.id <= given[j.name.db] /\ j.task \in passed
  /\ \A row \in rows : row.name = j.name => row.task = j.task

WriteOK(w) ==
  /\ w.name.id <= given[w.name.db]
  /\ \A row \in rows : row.name = w.name =>
       /\ w.left > 0 => Count[row.task] > 0
       /\ w.op = "disable" => row.task \in passed /\ Count[row.task] > 0

NameInv ==
  /\ \A row \in rows : RowOK(row)
  /\ \A row, other \in rows : row.name = other.name => row.task = other.task
  /\ \A j \in sent : JobOK(j)
  /\ executed \subseteq sent /\ passed \subseteq asked

WriteInv == \A r \in Runners, d \in Dbs : \A w \in Elems(writes[r][d]) : WriteOK(w)

(* A save that no database answered twice is one attempt after another.    *)
OnlyTry(t, a) ==
  a.task = t /\ trying[a] = 1 /\ \A b \in Attempt : b.task = t /\ b # a => trying[b] = 0

NotTrying(t) == \A b \in Attempt : b.task = t => trying[b] = 0

TryInv ==
  \A t \in Tasks :
    /\ t \notin asked => NotTrying(t) /\ answer[t] = "none" /\ copies[t] = 0
    /\ t \in asked /\ t \notin doubled =>
         IF answer[t] = "none" THEN copies[t] = 0 /\ \E a \in Attempt : OnlyTry(t, a)
         ELSE NotTrying(t) /\ copies[t] = IF answer[t] = "complete" THEN 1 ELSE 0

-----------------------------------------------------------------------------
LEMMA PickInDbs ==
  ASSUME index \in 0..N, NEW k \in {1, 2} PROVE Pick(k) \in Dbs
  BY DatabasesAssumption DEF Pick, Dbs

LEMMA RowChanged ==
  ASSUME NEW row \in Row, NEW w \in Write
  PROVE  /\ [row EXCEPT !.left = w.left, !.disabled = TRUE] \in Row
         /\ [row EXCEPT !.left = w.left, !.at = "later"] \in Row
  <1>1. w.left \in Nat  BY DEF Write
  <1> QED  BY <1>1 DEF Row

LEMMA ElemsFacts ==
  ASSUME NEW s \in Seq(Write)
  PROVE  /\ \A e \in Write : Elems(Append(s, e)) \subseteq Elems(s) \cup {e}
         /\ s # <<>> => Head(s) \in Elems(s) /\ Elems(Tail(s)) \subseteq Elems(s)
         /\ Elems(s) \subseteq Write
  BY DEF Elems

LEMMA ElemsEmpty == Elems(<<>>) = {}
  BY DEF Elems

LEMMA FirstAttemptType ==
  ASSUME TypeOK, NEW t \in Tasks PROVE FirstAttempt(t) \in Attempt
  BY PickInDbs, DatabasesAssumption DEF FirstAttempt, Attempt, TypeOK

LEMMA RetriesType ==
  ASSUME TypeOK, NEW a \in Attempt PROVE Retries(a) \subseteq Attempt
  BY PickInDbs, DatabasesAssumption
  DEF Retries, Again, Callbacks, Failcounter, Attempt, TypeOK

-----------------------------------------------------------------------------
LEMMA TypeInit == Init => TypeOK
  BY BoundsAssumption, DatabasesAssumption DEF Init, TypeOK, Dbs

LEMMA TypeStep == TypeOK /\ [Next]_vars => TypeOK'
  <1> SUFFICES ASSUME TypeOK, [Next]_vars PROVE TypeOK'
    OBVIOUS
  <1> USE DEF TypeOK, databases, saves, runners, jobs
  <1>1. ASSUME NEW t \in Tasks, Save(t) PROVE TypeOK'
    <2>1. FirstAttempt(t) \in Attempt /\ Pick(1) \in Dbs
      BY FirstAttemptType, PickInDbs
    <2>2. trying' \in [Attempt -> Nat] /\ index' \in 0..N
      BY <1>1, <2>1, DatabasesAssumption DEF Save, Dbs
    <2> QED  BY <1>1, <2>2 DEF Save
  <1>2. ASSUME NEW a \in Attempt, AttemptSucceeds(a) PROVE TypeOK'
    <2>1. a.task \in Tasks /\ a.db \in Dbs
      BY DEF Attempt
    <2>2. given' \in [Dbs -> Nat] /\ copies' \in [Tasks -> Nat] /\ trying' \in [Attempt -> Nat]
      <3>1. given[a.db] \in Nat /\ copies[a.task] \in Nat /\ trying[a] \in Nat \ {0}
        BY <1>2, <2>1 DEF AttemptSucceeds
      <3>2. given' = [given EXCEPT ![a.db] = given[a.db] + 1]
        BY <1>2 DEF AttemptSucceeds, Inserted
      <3>3. /\ copies' = [copies EXCEPT ![a.task] = @ + 1]
            /\ trying' = [trying EXCEPT ![a] = @ - 1]
        BY <1>2 DEF AttemptSucceeds
      <3> QED  BY <2>1, <3>1, <3>2, <3>3
    <2>3. rows' \in SUBSET Row
      <3> DEFINE new == [name |-> [db |-> a.db, id |-> given[a.db] + 1], task |-> a.task,
                         at |-> "later", disabled |-> FALSE, left |-> Count[a.task]]
      <3>1. rows' = rows \cup {new}
        BY <1>2 DEF AttemptSucceeds, Inserted
      <3>2. new \in Row
        BY <2>1, CountAssumption DEF Row, Name
      <3> QED  BY <3>1, <3>2
    <2>4. answer' \in [Tasks -> {"none", "complete", "fail"}]
      BY <1>2, <2>1 DEF AttemptSucceeds, Answers
    <2> QED  BY <1>2, <2>2, <2>3, <2>4 DEF AttemptSucceeds
  <1>3. ASSUME NEW a \in Attempt, AttemptFails(a) PROVE TypeOK'
    <2>1. a.task \in Tasks
      BY DEF Attempt
    <2>2. trying' \in [Attempt -> Nat]
      BY <1>3 DEF AttemptFails
    <2>4. index' \in 0..N
      BY <1>3, PickInDbs, DatabasesAssumption DEF AttemptFails, Dbs
    <2>3. answer' \in [Tasks -> {"none", "complete", "fail"}] /\ doubled' \in SUBSET Tasks
      BY <1>3, <2>1 DEF AttemptFails, Answers
    <2> QED  BY <1>3, <2>2, <2>3, <2>4 DEF AttemptFails
  <1>4. ASSUME NEW r \in Runners, Connect(r) \/ LoseServers(r) \/ Closed(r) \/ RunnerCrash(r)
        PROVE TypeOK'
    <2>1. CASE Connect(r)
      BY <2>1 DEF Connect
    <2>2. CASE LoseServers(r)
      BY <2>2, BoundsAssumption DEF LoseServers, Fault
    <2>3. CASE Closed(r)
      BY <2>3 DEF Closed
    <2>4. CASE RunnerCrash(r)
      <3>1. writes' \in [Runners -> [Dbs -> Seq(Write)]]
        BY <2>4 DEF RunnerCrash
      <3> QED  BY <2>4, <3>1, BoundsAssumption DEF RunnerCrash, Fault
    <2> QED  BY <1>4, <2>1, <2>2, <2>3, <2>4
  <1>5. ASSUME NEW r \in Runners, NEW row \in rows, PassTask(r, row) PROVE TypeOK'
    <2>1. row \in Row /\ Issued(row) \in Write /\ row.name.db \in Dbs
      BY DEF Row, Issued, Write, Name
    <2>2. rows' \in SUBSET Row
      BY <1>5, <2>1 DEF PassTask, Row
    <2>3. writes' \in [Runners -> [Dbs -> Seq(Write)]]
      <3>1. /\ writes[r][row.name.db] \in Seq(Write)
            /\ writes' = [writes EXCEPT ![r][row.name.db] = Append(@, Issued(row))]
        BY <1>5, <2>1 DEF PassTask
      <3>2. Append(writes[r][row.name.db], Issued(row)) \in Seq(Write)
        BY <2>1, <3>1
      <3> QED  BY <2>1, <3>1, <3>2
    <2>4. link' \in [Runners -> {"down", "up", "closing", "closed"}]
      BY <1>5 DEF PassTask, Disconnected
    <2>5. sent' \in SUBSET Job /\ passed' \in SUBSET Tasks
      BY <1>5, <2>1 DEF PassTask, Job, Row
    <2> QED  BY <1>5, <2>2, <2>3, <2>4, <2>5 DEF PassTask
  <1>6. ASSUME NEW r \in Runners, NEW d \in Dbs, PollError(r, d) PROVE TypeOK'
    BY <1>6 DEF PollError, Disconnected
  <1>7. ASSUME NEW r \in Runners, NEW d \in Dbs, ApplyWrite(r, d) PROVE TypeOK'
    <2>1. Head(writes[r][d]) \in Write /\ writes' \in [Runners -> [Dbs -> Seq(Write)]]
      BY <1>7 DEF ApplyWrite
    <2>2. rows' \in SUBSET Row
      <3>1. \A row \in rows : [row EXCEPT !.left = Head(writes[r][d]).left, !.disabled = TRUE] \in Row
        BY <2>1, RowChanged
      <3>2. \A row \in rows : [row EXCEPT !.left = Head(writes[r][d]).left, !.at = "later"] \in Row
        BY <2>1, RowChanged
      <3> QED  BY <1>7, <3>1, <3>2 DEF ApplyWrite, Applied
    <2> QED  BY <1>7, <2>1, <2>2 DEF ApplyWrite
  <1>8. ASSUME NEW r \in Runners, NEW d \in Dbs, WriteError(r, d) PROVE TypeOK'
    BY <1>8 DEF WriteError, Disconnected
  <1>9. ASSUME NEW j \in sent, Execute(j) \/ Eject(j) PROVE TypeOK'
    BY <1>9 DEF Execute, Eject, Deleted
  <1>10. ASSUME NEW row \in rows, Expire(row) PROVE TypeOK'
    BY <1>10 DEF Expire, Row
  <1>11. ASSUME NEW d \in Dbs, GoDown(d) \/ ComeUp(d) PROVE TypeOK'
    BY <1>11, BoundsAssumption DEF GoDown, ComeUp, Fault
  <1>12. CASE UNCHANGED vars
    BY <1>12 DEF vars
  <1> QED
    BY <1>1, <1>2, <1>3, <1>4, <1>5, <1>6, <1>7, <1>8, <1>9, <1>10, <1>11, <1>12
    DEF Next, AttemptEnds

(* The state of the composite adapter is what its variables declare.       *)
THEOREM CompositeTyped == Spec => []TypeOK
  BY TypeInit, TypeStep, PTL DEF Spec

-----------------------------------------------------------------------------
(* An action that leaves every row its name and task, disables no row and  *)
(* gives none a count, keeps what was said by name.                        *)
SameRows ==
  \A new \in rows' : \E old \in rows :
    /\ old.name = new.name /\ old.task = new.task
    /\ old.left = new.left /\ old.disabled = new.disabled

LEMMA SameRowsKeep ==
  ASSUME TypeOK, NameInv, SameRows, given' = given,
         asked \subseteq asked', passed \subseteq passed'
  PROVE  /\ \A row \in rows' : RowOK(row)'
         /\ \A row, other \in rows' : row.name = other.name => row.task = other.task
         /\ \A j \in sent : JobOK(j)'
         /\ \A w \in Write : WriteOK(w) => WriteOK(w)'
  <1>1. \A row \in rows' : RowOK(row)'
    <2> TAKE new \in rows'
    <2>1. PICK old \in rows : /\ old.name = new.name /\ old.task = new.task
                             /\ old.left = new.left /\ old.disabled = new.disabled
      BY DEF SameRows
    <2>2. RowOK(old)
      BY DEF NameInv
    <2> QED  BY <2>1, <2>2 DEF RowOK
  <1>2. \A row, other \in rows' : row.name = other.name => row.task = other.task
    BY DEF SameRows, NameInv
  <1>3. \A j \in sent : JobOK(j)'
    BY DEF SameRows, NameInv, JobOK
  <1>4. \A w \in Write : WriteOK(w) => WriteOK(w)'
    BY DEF SameRows, WriteOK
  <1> QED  BY <1>1, <1>2, <1>3, <1>4

LEMMA NameInvInit == Init => NameInv /\ WriteInv
  <1> SUFFICES ASSUME Init PROVE NameInv /\ WriteInv
    OBVIOUS
  <1>1. NameInv
    BY DEF Init, NameInv
  <1>2. \A r \in Runners, d \in Dbs : writes[r][d] = <<>>
    BY DEF Init
  <1>3. WriteInv
    BY <1>2, ElemsEmpty DEF WriteInv
  <1> QED  BY <1>1, <1>3

(* The statements that wait after a step waited before, but for one.       *)
LEMMA WriteInvKept ==
  ASSUME TypeOK, WriteInv, \A w \in Write : WriteOK(w) => WriteOK(w)',
         \A r \in Runners, d \in Dbs : \A w \in Elems(writes'[r][d]) :
            w \in Elems(writes[r][d]) \/ WriteOK(w)'
  PROVE  WriteInv'
  <1>1. \A r \in Runners, d \in Dbs : Elems(writes[r][d]) \subseteq Write
    BY ElemsFacts DEF TypeOK
  <1> QED  BY <1>1 DEF WriteInv

LEMMA NameInvStep ==
  TypeOK /\ TypeOK' /\ NameInv /\ WriteInv /\ TryInv /\ [Next]_vars => NameInv' /\ WriteInv'
  <1> SUFFICES ASSUME TypeOK, TypeOK', NameInv, WriteInv, TryInv, [Next]_vars
               PROVE  NameInv' /\ WriteInv'
    OBVIOUS
  <1> USE DEF databases, saves, runners, jobs
  <1>1. ASSUME SameRows, given' = given, asked \subseteq asked', passed' = passed,
               sent' = sent, executed' \subseteq sent, UNCHANGED writes
        PROVE  NameInv' /\ WriteInv'
    BY <1>1, SameRowsKeep, WriteInvKept DEF NameInv, WriteInv
  <1>2. ASSUME NEW t \in Tasks, Save(t) PROVE NameInv' /\ WriteInv'
    BY <1>1, <1>2 DEF Save, SameRows, NameInv
  <1>3. ASSUME NEW a \in Attempt, AttemptSucceeds(a) PROVE NameInv' /\ WriteInv'
    <2>0. PICK new : new = [name |-> [db |-> a.db, id |-> given[a.db] + 1], task |-> a.task,
                            at |-> "later", disabled |-> FALSE, left |-> Count[a.task]]
      OBVIOUS
    <2>1. a.task \in asked /\ a.db \in Dbs /\ given[a.db] \in Nat
      <3>1. trying[a] # 0 /\ a.task \in Tasks /\ a.db \in Dbs
        BY <1>3 DEF Attempt, AttemptSucceeds
      <3> QED  BY <3>1 DEF TryInv, NotTrying, TypeOK
    <2>2. /\ rows' = rows \cup {new} /\ given' = [given EXCEPT ![a.db] = given[a.db] + 1]
          /\ UNCHANGED <<asked, sent, executed, passed, writes>>
      BY <1>3, <2>0 DEF AttemptSucceeds, Inserted
    <2>3. \A n \in Name : n.id <= given[n.db] => n.id <= given'[n.db] /\ n # new.name
      BY <2>0, <2>1, <2>2 DEF Name, TypeOK
    <2>4. RowOK(new)'
      <3>1. given'[a.db] = given[a.db] + 1 /\ Count[a.task] \in Nat
        BY <2>1, <2>2, CountAssumption DEF TypeOK
      <3> QED  BY <2>0, <2>1, <2>2, <3>1 DEF RowOK
    <2>5. \A row \in rows : row.name \in Name /\ row.name # new.name /\ RowOK(row)'
      BY <2>2, <2>3 DEF NameInv, RowOK, TypeOK, Row
    <2>6. \A j \in sent : JobOK(j)'
      BY <2>2, <2>3 DEF NameInv, JobOK, TypeOK, Job
    <2>7. \A w \in Write : WriteOK(w) => WriteOK(w)'
      BY <2>2, <2>3 DEF WriteOK, Write
    <2>8. \A row, other \in rows' : row.name = other.name => row.task = other.task
      BY <2>2, <2>5 DEF NameInv
    <2>9. WriteInv'
      BY <2>2, <2>7, WriteInvKept
    <2>10. NameInv'
      BY <2>2, <2>4, <2>5, <2>6, <2>8 DEF NameInv
    <2> QED  BY <2>9, <2>10
  <1>4. ASSUME NEW a \in Attempt, AttemptFails(a) PROVE NameInv' /\ WriteInv'
    BY <1>1, <1>4 DEF AttemptFails, SameRows, NameInv
  <1>5. ASSUME NEW r \in Runners, Connect(r) \/ LoseServers(r) \/ Closed(r)
        PROVE  NameInv' /\ WriteInv'
    BY <1>1, <1>5 DEF Connect, LoseServers, Closed, SameRows, NameInv
  <1>6. ASSUME NEW r \in Runners, RunnerCrash(r) PROVE NameInv' /\ WriteInv'
    <2>1. SameRows /\ UNCHANGED <<given, asked, passed, sent, executed>>
      BY <1>6 DEF RunnerCrash, SameRows
    <2>2. \A q \in Runners, d \in Dbs : writes'[q][d] \in {writes[q][d], <<>>}
      BY <1>6 DEF RunnerCrash, TypeOK
    <2>3. \A q \in Runners, d \in Dbs : Elems(writes'[q][d]) \subseteq Elems(writes[q][d])
      BY <2>2, ElemsEmpty
    <2> QED  BY <2>1, <2>3, SameRowsKeep, WriteInvKept DEF NameInv
  <1>7. ASSUME NEW r \in Runners, NEW row \in rows, PassTask(r, row)
        PROVE  NameInv' /\ WriteInv'
    <2> DEFINE j == [name |-> row.name, task |-> row.task]
    <2>1. /\ row \in Row /\ row.name.db \in Dbs /\ Issued(row) \in Write /\ RowOK(row)
          /\ UNCHANGED <<given, asked, executed>>
      BY <1>7 DEF PassTask, TypeOK, Row, Name, Issued, Write, NameInv
    <2>2. SameRows /\ passed' = passed \cup {row.task} /\ sent' \subseteq sent \cup {j}
      BY <1>7, <2>1 DEF PassTask, SameRows, Row
    <2>3. \A other \in rows' : other.name = row.name => other.task = row.task
      BY <2>2 DEF SameRows, NameInv
    <2>4. JobOK(j)'
      BY <2>1, <2>2, <2>3 DEF JobOK, RowOK
    <2>5. WriteOK(Issued(row))'
      BY <2>1, <2>2, <2>3 DEF WriteOK, Issued, LastPass, RowOK, Row
    <2>6. \A q \in Runners, d \in Dbs : \A w \in Elems(writes'[q][d]) :
            w \in Elems(writes[q][d]) \/ w = Issued(row)
      <3>1. writes' = [writes EXCEPT ![r][row.name.db] = Append(@, Issued(row))]
        BY <1>7 DEF PassTask
      <3>2. TAKE q \in Runners, d \in Dbs
      <3>3. writes[q][d] \in Seq(Write)
        BY DEF TypeOK
      <3>4. writes'[q][d] \in {writes[q][d], Append(writes[q][d], Issued(row))}
        BY <2>1, <3>1 DEF TypeOK
      <3> QED  BY <2>1, <3>3, <3>4, ElemsFacts
    <2>7. sent \subseteq sent' /\ executed \subseteq sent
      BY <1>7 DEF PassTask, NameInv
    <2> QED
      BY <2>1, <2>2, <2>4, <2>5, <2>6, <2>7, SameRowsKeep, WriteInvKept DEF NameInv, RowOK
  <1>8. ASSUME NEW r \in Runners, NEW d \in Dbs, PollError(r, d) PROVE NameInv' /\ WriteInv'
    BY <1>1, <1>8 DEF PollError, SameRows, NameInv
  <1>9. ASSUME NEW r \in Runners, NEW d \in Dbs,
               writes[r][d] # <<>>, writes' = [writes EXCEPT ![r][d] = Tail(@)]
        PROVE  \A q \in Runners, e \in Dbs : Elems(writes'[q][e]) \subseteq Elems(writes[q][e])
    <2> TAKE q \in Runners, e \in Dbs
    <2>1. writes[q][e] \in Seq(Write)
      BY DEF TypeOK
    <2>2. \/ writes'[q][e] = writes[q][e]
          \/ writes[q][e] # <<>> /\ writes'[q][e] = Tail(writes[q][e])
      BY <1>9 DEF TypeOK
    <2> QED  BY <2>1, <2>2, ElemsFacts
  <1>10. ASSUME NEW r \in Runners, NEW d \in Dbs, WriteError(r, d)
         PROVE  NameInv' /\ WriteInv'
    <2>1. SameRows /\ UNCHANGED <<given, asked, passed, sent, executed>>
      BY <1>10 DEF WriteError, SameRows
    <2> QED  BY <1>9, <1>10, <2>1, SameRowsKeep, WriteInvKept DEF NameInv, WriteError
  <1>11. ASSUME NEW r \in Runners, NEW d \in Dbs, ApplyWrite(r, d)
         PROVE  NameInv' /\ WriteInv'
    <2> DEFINE w == Head(writes[r][d])
    <2>1. w \in Elems(writes[r][d]) /\ w \in Write /\ WriteOK(w)
      BY <1>11, ElemsFacts DEF ApplyWrite, TypeOK, WriteInv
    <2>2. UNCHANGED <<given, asked, passed, sent, executed>> /\ rows' = Applied(w)
      BY <1>11 DEF ApplyWrite
    <2>3. \A new \in rows' : \E old \in rows :
            /\ old.name = new.name /\ old.task = new.task
            /\ \/ new = old
               \/ /\ old.name = w.name /\ new.left = w.left
                  /\ new.disabled => old.disabled \/ w.op = "disable"
      <3>1. TAKE new \in rows'
      <3>2. PICK old \in rows :
              new = IF old.name # w.name THEN old
                    ELSE IF w.op = "disable" THEN [old EXCEPT !.left = w.left, !.disabled = TRUE]
                    ELSE [old EXCEPT !.left = w.left, !.at = "later"]
        BY <2>2 DEF Applied
      <3>3. old \in Row
        BY DEF TypeOK
      <3> QED  BY <3>2, <3>3 DEF Row
    <2>4. \A new \in rows' : RowOK(new)'
      BY <2>1, <2>2, <2>3 DEF RowOK, WriteOK, NameInv
    <2>5. \A j \in sent : JobOK(j)'
      BY <2>2, <2>3 DEF JobOK, NameInv
    <2>6. \A x \in Write : WriteOK(x) => WriteOK(x)'
      BY <2>2, <2>3 DEF WriteOK
    <2>7. \A new, other \in rows' : new.name = other.name => new.task = other.task
      BY <2>3 DEF NameInv
    <2>8. NameInv'
      BY <2>2, <2>4, <2>5, <2>7 DEF NameInv
    <2> QED  BY <1>9, <1>11, <2>6, <2>8, WriteInvKept DEF ApplyWrite
  <1>12. ASSUME NEW j \in sent, Execute(j) \/ Eject(j) PROVE NameInv' /\ WriteInv'
    BY <1>1, <1>12 DEF Execute, Eject, Deleted, SameRows, NameInv
  <1>13. ASSUME NEW row \in rows, Expire(row) PROVE NameInv' /\ WriteInv'
    <2>1. SameRows
      BY <1>13 DEF Expire, SameRows, TypeOK, Row
    <2> QED  BY <1>1, <1>13, <2>1 DEF Expire, NameInv
  <1>14. ASSUME NEW d \in Dbs, GoDown(d) \/ ComeUp(d) PROVE NameInv' /\ WriteInv'
    BY <1>1, <1>14 DEF GoDown, ComeUp, SameRows, NameInv
  <1>15. CASE UNCHANGED vars
    BY <1>1, <1>15 DEF vars, SameRows, NameInv
  <1> QED
    BY <1>2, <1>3, <1>4, <1>5, <1>6, <1>7, <1>8, <1>10, <1>11, <1>12, <1>13, <1>14, <1>15
    DEF Next, AttemptEnds

-----------------------------------------------------------------------------
(* The failover.                                                           *)
LEMMA TryInvInit == Init => TryInv
  BY DEF Init, TryInv, NotTrying

(* An error that is called back once is followed by one attempt, or by the *)
(* refusal.                                                                *)
LEMMA OneRetry ==
  ASSUME TypeOK, NEW a \in Attempt, a.db \notin Twice
  PROVE  LET next == [task |-> a.task, db |-> Pick(1), fails |-> a.fails + 1] IN
         IF a.fails + 1 < N
         THEN Retries(a) = {next} /\ next \in Attempt /\ next # a /\ ~Refuses(a)
         ELSE Retries(a) = {} /\ Refuses(a)
  <1> DEFINE next == [task |-> a.task, db |-> Pick(1), fails |-> a.fails + 1]
  <1>1. a.fails \in Nat /\ a.task \in Tasks
    BY DEF Attempt
  <1>2. Callbacks(a) = {1}
    BY DEF Callbacks
  <1>3. CASE a.fails + 1 < N
    <2>1. Again(a) = {1}
      BY <1>1, <1>2, <1>3 DEF Again, Failcounter
    <2>2. Retries(a) = {next}
      BY <2>1 DEF Retries, Failcounter
    <2>3. next \in Attempt /\ next # a
      BY <1>1, <1>3, PickInDbs, DatabasesAssumption DEF Attempt, TypeOK
    <2> QED  BY <1>2, <1>3, <2>1, <2>2, <2>3 DEF Refuses
  <1>4. CASE ~(a.fails + 1 < N)
    <2>1. Again(a) = {}
      BY <1>1, <1>2, <1>4 DEF Again, Failcounter
    <2> QED  BY <1>2, <1>4, <2>1 DEF Refuses, Retries
  <1> QED  BY <1>3, <1>4

LEMMA TryInvStep == TypeOK /\ TryInv /\ [Next]_vars => TryInv'
  <1> SUFFICES ASSUME TypeOK, TryInv, [Next]_vars PROVE TryInv'
    OBVIOUS
  <1> USE DEF databases, saves, runners, jobs
  <1>0. ASSUME NEW a \in Attempt, trying[a] > 0
        PROVE  a.task \in Tasks /\ a.task \in asked /\ trying[a] \in Nat \ {0}
    <2>1. trying[a] \in Nat /\ trying[a] # 0
      BY <1>0 DEF TypeOK
    <2>2. a.task \in Tasks
      BY DEF Attempt
    <2> QED  BY <2>1, <2>2 DEF TryInv, NotTrying
  <1>1. ASSUME NEW t \in Tasks, Save(t) PROVE TryInv'
    <2> DEFINE f == FirstAttempt(t)
    <2>1. /\ f \in Attempt /\ f.task = t /\ t \notin asked /\ asked' = asked \cup {t}
          /\ trying' = [trying EXCEPT ![f] = @ + 1] /\ UNCHANGED <<answer, doubled, copies>>
      BY <1>1, FirstAttemptType DEF Save, FirstAttempt
    <2>2. NotTrying(t) /\ answer[t] = "none" /\ copies[t] = 0
      BY <2>1 DEF TryInv
    <2>3. \A b \in Attempt : trying'[b] = IF b = f THEN trying[b] + 1 ELSE trying[b]
      BY <2>1 DEF TypeOK
    <2>4. PICK g : g = f
      OBVIOUS
    <2>5. OnlyTry(t, g)'
      BY <2>1, <2>2, <2>3, <2>4 DEF OnlyTry, NotTrying
    <2>6. \A u \in Tasks \ {t} : \A b \in Attempt : b.task = u => trying'[b] = trying[b]
      BY <2>1, <2>3
    <2>7. ASSUME NEW u \in Tasks \ {t}
          PROVE  /\ NotTrying(u)' <=> NotTrying(u)
                 /\ \A a \in Attempt : OnlyTry(u, a) => OnlyTry(u, a)'
      BY <2>6 DEF NotTrying, OnlyTry
    <2> QED  BY <2>1, <2>2, <2>4, <2>5, <2>7 DEF TryInv
  <1>2. ASSUME NEW a \in Attempt, AttemptSucceeds(a) PROVE TryInv'
    <2> DEFINE t == a.task
    <2>1. /\ trying[a] \in Nat \ {0} /\ t \in Tasks /\ t \in asked
          /\ UNCHANGED <<asked, doubled>>
          /\ \A b \in Attempt : trying'[b] = IF b = a THEN trying[b] - 1 ELSE trying[b]
      BY <1>0, <1>2 DEF AttemptSucceeds, TypeOK
    <2>2. /\ copies' = [copies EXCEPT ![t] = @ + 1]
          /\ answer' = IF answer[t] = "none" THEN [answer EXCEPT ![t] = "complete"] ELSE answer
      BY <1>2 DEF AttemptSucceeds, Answers
    <2>3. ASSUME NEW u \in Tasks \ {t}
          PROVE  /\ NotTrying(u)' <=> NotTrying(u)
                 /\ \A b \in Attempt : OnlyTry(u, b) => OnlyTry(u, b)'
                 /\ answer'[u] = answer[u] /\ copies'[u] = copies[u]
      BY <2>1, <2>2 DEF NotTrying, OnlyTry, TypeOK
    <2>4. ASSUME t \notin doubled
          PROVE  NotTrying(t)' /\ copies'[t] = 1 /\ answer'[t] = "complete"
      <3>1. answer[t] = "none" /\ copies[t] = 0
        BY <2>1, <2>4 DEF TryInv, NotTrying
      <3>2. PICK b \in Attempt : OnlyTry(t, b)
        BY <2>1, <2>4, <3>1 DEF TryInv
      <3>3. b = a
        BY <2>1, <3>2 DEF OnlyTry
      <3>4. answer'[t] = "complete" /\ copies'[t] = 1
        BY <2>1, <2>2, <3>1 DEF TypeOK
      <3>5. trying[a] = 1 /\ \A c \in Attempt : c.task = t /\ c # a => trying[c] = 0
        BY <3>2, <3>3 DEF OnlyTry
      <3>6. \A c \in Attempt : c.task = t => trying'[c] = 0
        BY <2>1, <3>5
      <3>7. t' = t
        OBVIOUS
      <3> QED  BY <3>4, <3>6, <3>7 DEF NotTrying
    <2> QED  BY <2>1, <2>3, <2>4 DEF TryInv
  <1>3. ASSUME NEW a \in Attempt, AttemptFails(a) PROVE TryInv'
    <2> DEFINE t == a.task
               left == [trying EXCEPT ![a] = @ - 1]
    <2>1. /\ trying[a] \in Nat \ {0} /\ t \in Tasks /\ t \in asked
          /\ UNCHANGED <<asked, copies>> /\ doubled \subseteq doubled'
          /\ t \notin doubled' => a.db \notin Twice
          /\ \A b \in Attempt :
               trying'[b] = IF b \in Retries(a) THEN left[b] + 1 ELSE left[b]
          /\ \A u \in Tasks \ {t} : answer'[u] = answer[u] /\ (u \in doubled' => u \in doubled)
      BY <1>0, <1>3 DEF AttemptFails, TypeOK, Answers
    <2>2. \A b \in Retries(a) : b.task = t
      BY DEF Retries
    <2>3. \A b \in Attempt : left[b] = IF b = a THEN trying[b] - 1 ELSE trying[b]
      BY <2>1 DEF TypeOK
    <2>4. ASSUME NEW u \in Tasks \ {t}
          PROVE  /\ NotTrying(u)' <=> NotTrying(u)
                 /\ \A b \in Attempt : OnlyTry(u, b) => OnlyTry(u, b)'
      <3>1. \A b \in Attempt : b.task = u => trying'[b] = trying[b]
        BY <2>1, <2>2, <2>3
      <3> QED  BY <3>1 DEF NotTrying, OnlyTry
    <2>5. ASSUME t \notin doubled'
          PROVE  IF answer'[t] = "none" THEN copies'[t] = 0 /\ \E b \in Attempt : OnlyTry(t, b)'
                 ELSE NotTrying(t)' /\ answer'[t] = "fail" /\ copies'[t] = 0
      <3>1. t \notin doubled /\ a.db \notin Twice
        BY <2>1, <2>5
      <3>2. answer[t] = "none" /\ copies[t] = 0
        BY <2>1, <3>1 DEF TryInv, NotTrying
      <3>3. PICK b \in Attempt : OnlyTry(t, b)
        BY <2>1, <3>1, <3>2 DEF TryInv
      <3>4. trying[a] = 1 /\ \A c \in Attempt : c.task = t /\ c # a => trying[c] = 0
        BY <2>1, <3>3 DEF OnlyTry
      <3>5. CASE a.fails + 1 < N
        <4>1. PICK next : next = [task |-> t, db |-> Pick(1), fails |-> a.fails + 1]
          OBVIOUS
        <4>2. Retries(a) = {next} /\ next \in Attempt /\ next # a /\ ~Refuses(a)
          BY <3>1, <3>5, <4>1, OneRetry
        <4>3. answer'[t] = "none"
          BY <1>3, <3>2, <4>2 DEF AttemptFails
        <4>4. OnlyTry(t, next)'
          <5>1. next.task = t
            BY <4>1
          <5>2. \A c \in Attempt : c.task = t => trying'[c] = IF c = next THEN 1 ELSE 0
            BY <2>1, <2>3, <3>4, <4>2, <5>1
          <5> QED  BY <2>1, <4>2, <5>1, <5>2 DEF OnlyTry
        <4> QED  BY <2>1, <3>2, <4>2, <4>3, <4>4
      <3>6. CASE ~(a.fails + 1 < N)
        <4>1. Retries(a) = {} /\ Refuses(a)
          BY <3>1, <3>6, OneRetry
        <4>2. answer'[t] = "fail"
          BY <1>3, <2>1, <3>2, <4>1 DEF AttemptFails, Answers, TypeOK
        <4> QED  BY <2>1, <2>3, <3>2, <3>4, <4>1, <4>2 DEF NotTrying
      <3> QED  BY <3>5, <3>6
    <2> QED  BY <2>1, <2>4, <2>5 DEF TryInv
  <1>4. CASE UNCHANGED saves
    BY <1>4 DEF TryInv, NotTrying, OnlyTry
  <1> QED
    BY <1>1, <1>2, <1>3, <1>4
    DEF Next, AttemptEnds, vars, Connect, LoseServers, Closed, RunnerCrash, PassTask,
        PollError, ApplyWrite, WriteError, Execute, Eject, Expire, GoDown, ComeUp

-----------------------------------------------------------------------------
CInv == TypeOK /\ NameInv /\ WriteInv /\ TryInv

LEMMA CompositeInv == Spec => []CInv
  <1>1. Init => CInv
    BY TypeInit, NameInvInit, TryInvInit DEF CInv
  <1>2. CInv /\ [Next]_vars => CInv'
    BY TypeStep, NameInvStep, TryInvStep DEF CInv
  <1> QED  BY <1>1, <1>2, PTL DEF Spec

(* The failover stores an acknowledged task once, and a refused one        *)
(* nowhere, unless a database calls back twice.                            *)
THEOREM FailoverSavesOnce == Spec => []SavedOnce
  <1>1. CInv => SavedOnce
    BY DEF CInv, TryInv, SavedOnce, NotTrying, TypeOK
  <1> QED  BY <1>1, CompositeInv, PTL

(* Rows whose task and enabledness stay where they are.                    *)
RowsLike(t) ==
  \A row \in rows : row.task = t => \E new \in rows' : new.task = t /\ new.disabled = row.disabled

LEMMA RowsStay ==
  ASSUME CInv, [Next]_vars, NEW t \in Tasks
  PROVE  \/ RowsLike(t)
         \/ \E j \in executed : j.task = t
         \/ t \in passed /\ Count[t] > 0 /\ t \in passed' /\ (Stored(t) => Stored(t)')
  <1> USE DEF databases, saves, runners, jobs, CInv, TypeOK
  <1>1. ASSUME NEW a \in Attempt, AttemptSucceeds(a) PROVE RowsLike(t)
    BY <1>1 DEF AttemptSucceeds, Inserted, RowsLike
  <1>2. ASSUME NEW r \in Runners, NEW row \in rows, PassTask(r, row) PROVE RowsLike(t)
    <2>1. row \in Row /\ rows' = (rows \ {row}) \cup {[row EXCEPT !.at = "later"]}
      BY <1>2 DEF PassTask
    <2>2. [row EXCEPT !.at = "later"].task = row.task /\ [row EXCEPT !.at = "later"].disabled = row.disabled
      BY <2>1 DEF Row
    <2> QED  BY <2>1, <2>2 DEF RowsLike
  <1>3. ASSUME NEW r \in Runners, NEW d \in Dbs, ApplyWrite(r, d)
        PROVE \/ RowsLike(t)
              \/ t \in passed /\ Count[t] > 0 /\ t \in passed' /\ (Stored(t) => Stored(t)')
    <2> DEFINE w == Head(writes[r][d])
    <2>1. w \in Elems(writes[r][d]) /\ WriteOK(w)
      BY <1>3, ElemsFacts DEF ApplyWrite, WriteInv
    <2>2. /\ passed' = passed
          /\ \A row \in rows :
                (IF row.name # w.name THEN row
                 ELSE IF w.op = "disable" THEN [row EXCEPT !.left = w.left, !.disabled = TRUE]
                 ELSE [row EXCEPT !.left = w.left, !.at = "later"]) \in rows'
      BY <1>3 DEF ApplyWrite, Applied
    <2>3. CASE \A row \in rows : row.task = t /\ row.name = w.name => w.op # "disable"
      BY <2>2, <2>3 DEF RowsLike, Row
    <2>4. CASE \E row \in rows : row.task = t /\ row.name = w.name /\ w.op = "disable"
      <3>1. t \in passed /\ Count[t] > 0
        BY <2>1, <2>4 DEF WriteOK
      <3>2. Stored(t)'
        BY <2>2, <2>4 DEF Stored, Row
      <3> QED  BY <2>2, <3>1, <3>2
    <2> QED  BY <2>3, <2>4
  <1>4. ASSUME NEW j \in sent, Eject(j)
        PROVE  RowsLike(t) \/ \E i \in executed : i.task = t
    BY <1>4 DEF Eject, Deleted, RowsLike, NameInv, JobOK
  <1>5. ASSUME NEW row \in rows, Expire(row) PROVE RowsLike(t)
    <2>1. row \in Row /\ rows' = (rows \ {row}) \cup {[row EXCEPT !.at = "due"]}
      BY <1>5 DEF Expire
    <2>2. [row EXCEPT !.at = "due"].task = row.task /\ [row EXCEPT !.at = "due"].disabled = row.disabled
      BY <2>1 DEF Row
    <2> QED  BY <2>1, <2>2 DEF RowsLike
  <1>6. CASE UNCHANGED rows
    BY <1>6 DEF RowsLike
  <1> QED
    BY <1>1, <1>2, <1>3, <1>4, <1>5, <1>6
    DEF Next, AttemptEnds, Save, AttemptFails, Connect, LoseServers, Closed, RunnerCrash,
        PollError, WriteError, Execute, GoDown, ComeUp, vars

LEMMA InsertedRow ==
  ASSUME NEW a \in Attempt, AttemptSucceeds(a)
  PROVE  \E new : rows' = rows \cup {new} /\ new.task = a.task /\ ~new.disabled
  <1> DEFINE new == [name |-> [db |-> a.db, id |-> given[a.db] + 1], task |-> a.task,
                     at |-> "later", disabled |-> FALSE, left |-> Count[a.task]]
  <1>1. rows' = rows \cup {new} /\ new.task = a.task /\ ~new.disabled
    BY DEF AttemptSucceeds, Inserted
  <1> QED  BY <1>1

(* Nothing that was sent, executed or passed on is forgotten, and an       *)
(* answer that a task is complete comes with its row.                      *)
LEMMA HistoryStep ==
  ASSUME CInv, [Next]_vars
  PROVE  /\ sent \subseteq sent' /\ executed \subseteq executed' /\ passed \subseteq passed'
         /\ \A t \in Tasks : answer'[t] = "complete" =>
              \/ answer[t] = "complete"
              \/ \E row \in rows' : row.task = t /\ ~row.disabled
  <1> USE DEF databases, saves, runners, jobs, CInv, TypeOK
  <1>1. ASSUME NEW a \in Attempt, AttemptSucceeds(a)
        PROVE  \A t \in Tasks : answer'[t] = "complete" =>
                 answer[t] = "complete" \/ \E row \in rows' : row.task = t /\ ~row.disabled
    <2>1. \E row \in rows' : row.task = a.task /\ ~row.disabled
      BY <1>1, InsertedRow
    <2>2. \A t \in Tasks \ {a.task} : answer'[t] = answer[t]
      BY <1>1 DEF AttemptSucceeds, Answers
    <2> QED  BY <2>1, <2>2
  <1>2. ASSUME NEW a \in Attempt, AttemptFails(a)
        PROVE  \A t \in Tasks : answer'[t] = "complete" => answer[t] = "complete"
    BY <1>2 DEF AttemptFails, Answers
  <1>3. sent \subseteq sent' /\ executed \subseteq executed' /\ passed \subseteq passed'
    BY DEF Next, AttemptEnds, Save, AttemptSucceeds, AttemptFails, Connect, LoseServers, Closed,
           RunnerCrash, PassTask, PollError, ApplyWrite, WriteError, Execute, Eject, Expire,
           GoDown, ComeUp, vars
  <1>4. \/ UNCHANGED answer
        \/ \E a \in Attempt : AttemptSucceeds(a) \/ AttemptFails(a)
    BY DEF Next, AttemptEnds, Save, Connect, LoseServers, Closed, RunnerCrash, PassTask,
           PollError, ApplyWrite, WriteError, Execute, Eject, Expire, GoDown, ComeUp, vars
  <1> QED  BY <1>1, <1>2, <1>3, <1>4

LEMMA KeptStep == CInv /\ KeptUntilRun /\ [Next]_vars => KeptUntilRun'
  <1> SUFFICES ASSUME CInv, KeptUntilRun, [Next]_vars, NEW t \in Tasks, answer'[t] = "complete"
               PROVE  Stored(t)' \/ \E j \in executed' : j.task = t
    BY DEF KeptUntilRun
  <1>1. CASE answer[t] = "complete" /\ Stored(t)
    BY <1>1, RowsStay, HistoryStep DEF RowsLike, Stored
  <1>2. CASE answer[t] = "complete" /\ \E j \in executed : j.task = t
    BY <1>2, HistoryStep
  <1>3. CASE answer[t] # "complete"
    BY <1>3, HistoryStep DEF Stored
  <1> QED  BY <1>1, <1>2, <1>3 DEF KeptUntilRun

(* Of the tasks that were acknowledged none is lost before it has run: no  *)
(* statement and no job reaches the row of another task.                   *)
THEOREM CompositeKeepsTasks == Spec => []KeptUntilRun
  <1>1. Init => KeptUntilRun
    BY DEF Init, KeptUntilRun
  <1> QED  BY <1>1, KeptStep, CompositeInv, PTL DEF Spec

LEMMA StrandedStep == CInv /\ StrandedOnLastPass /\ [Next]_vars => StrandedOnLastPass'
  <1> SUFFICES ASSUME CInv, StrandedOnLastPass, [Next]_vars, NEW t \in Tasks,
                      answer'[t] = "complete", ~(\E j \in sent' : j.task = t)
               PROVE  \E row \in rows' :
                        row.task = t /\ (row.disabled => t \in passed' /\ Count[t] > 0)
    BY DEF StrandedOnLastPass
  <1>1. ~(\E j \in sent : j.task = t) /\ ~(\E j \in executed : j.task = t)
    BY HistoryStep DEF CInv, NameInv
  <1>2. CASE answer[t] = "complete"
    <2>1. PICK row \in rows : row.task = t /\ (row.disabled => t \in passed /\ Count[t] > 0)
      BY <1>1, <1>2 DEF StrandedOnLastPass
    <2>2. CASE RowsLike(t)
      BY <2>1, <2>2, HistoryStep DEF RowsLike
    <2>3. CASE t \in passed' /\ Count[t] > 0 /\ (Stored(t) => Stored(t)')
      BY <2>1, <2>3 DEF Stored
    <2> QED  BY <1>1, <2>2, <2>3, RowsStay
  <1>3. CASE answer[t] # "complete"
    BY <1>3, HistoryStep
  <1> QED  BY <1>2, <1>3

(* An acknowledged task that was sent to no controller waits in a database *)
(* unless it was disabled on its last pass.                                *)
THEOREM OnlyLastPassStrands == Spec => []StrandedOnLastPass
  <1>1. Init => StrandedOnLastPass
    BY DEF Init, StrandedOnLastPass
  <1> QED  BY <1>1, StrandedStep, CompositeInv, PTL DEF Spec

-----------------------------------------------------------------------------
(* The composite adapter implements TaskStore.  A step moves one task and  *)
(* leaves the others where they stand.                                     *)
St(t) == [phase |-> Phase(t), answer |-> answer[t], row |-> RowState(t),
          passed |-> t \in passed, done |-> \E j \in executed : j.task = t]

RowsBack(t) ==
  \A new \in rows' : new.task = t => \E row \in rows : row.task = t /\ new.disabled = row.disabled

LEMMA SameRowState ==
  ASSUME NEW t, RowsLike(t), RowsBack(t) PROVE RowState(t)' = RowState(t)
  <1>1. Stored(t)' <=> Stored(t)
    BY DEF RowsLike, RowsBack, Stored
  <1>2. (\E row \in rows' : row.task = t /\ ~row.disabled)
          <=> \E row \in rows : row.task = t /\ ~row.disabled
    BY DEF RowsLike, RowsBack
  <1> QED  BY <1>1, <1>2 DEF RowState

LEMMA SamePhase ==
  ASSUME NEW t, t \in asked' <=> t \in asked,
         \A a \in Attempt : a.task = t => trying'[a] = trying[a]
  PROVE  Phase(t)' = Phase(t)
  BY DEF Phase

(* The moves of TaskStore, field by field.                                 *)
LEMMA MoveOf ==
  ASSUME NEW s \in Store!State, NEW n \in Store!State
  PROVE  /\ /\ s.phase = "none" /\ n.phase = "saving" /\ n.answer = s.answer
            /\ n.row = s.row /\ n.passed = s.passed /\ n.done = s.done
            => Store!Move(s, n)
         /\ /\ s.phase = "saving" /\ n.phase \in {"saving", "over"}
            /\ n.answer = s.answer \/ (s.answer = "none" /\ n.answer = "complete")
            /\ n.row = "waiting" /\ n.passed = s.passed /\ n.done = s.done
            => Store!Move(s, n)
         /\ /\ s.phase = "saving" /\ n.phase \in {"saving", "over"}
            /\ n.answer = s.answer \/ (s.answer = "none" /\ n.answer = "fail")
            /\ n.row = s.row /\ n.passed = s.passed /\ n.done = s.done
            => Store!Move(s, n)
         /\ /\ n.phase = s.phase /\ n.answer = s.answer
            /\ \/ /\ s.phase # "none" /\ n.row = s.row /\ n.passed
                  /\ n.done = s.done \/ n.done
               \/ n.passed = s.passed /\ n.done = s.done /\ n.row = s.row
               \/ /\ n.passed = s.passed /\ n.done = s.done
                  /\ s.passed /\ s.row = "waiting" /\ n.row = "retired"
               \/ /\ n.passed = s.passed /\ n.done = s.done
                  /\ s.done /\ n.row \in {"absent", "retired"}
            => Store!Move(s, n)
  <1> USE DEF Store!State, Store!Move
  <1>1. ASSUME s.phase = "none", n.phase = "saving", n.answer = s.answer, n.row = s.row,
               n.passed = s.passed, n.done = s.done
        PROVE  Store!Call(s, n)
    BY <1>1 DEF Store!Call
  <1>2. ASSUME s.phase = "saving", n.phase \in {"saving", "over"},
               n.answer = s.answer \/ (s.answer = "none" /\ n.answer = "complete"),
               n.row = "waiting", n.passed = s.passed, n.done = s.done
        PROVE  Store!Store(s, n)
    BY <1>2 DEF Store!Store, Store!Saving, Store!Told
  <1>3. ASSUME s.phase = "saving", n.phase \in {"saving", "over"},
               n.answer = s.answer \/ (s.answer = "none" /\ n.answer = "fail"),
               n.row = s.row, n.passed = s.passed, n.done = s.done
        PROVE  Store!Fail(s, n)
    BY <1>3 DEF Store!Fail, Store!Saving, Store!Told
  <1>4. ASSUME n.phase = s.phase, n.answer = s.answer, s.phase # "none", n.row = s.row, n.passed,
               n.done = s.done \/ n.done
        PROVE  Store!Pass(s, n)
    BY <1>4 DEF Store!Pass
  <1>5. ASSUME n.phase = s.phase, n.answer = s.answer, n.row = s.row, n.passed = s.passed,
               n.done = s.done
        PROVE  n = s
    BY <1>5
  <1>6. ASSUME n.phase = s.phase, n.answer = s.answer, n.passed = s.passed, n.done = s.done,
               s.passed, s.row = "waiting", n.row = "retired"
        PROVE  Store!Retire(s, n)
    BY <1>6 DEF Store!Retire
  <1>7. ASSUME n.phase = s.phase, n.answer = s.answer, n.passed = s.passed, n.done = s.done,
               s.done, n.row \in {"absent", "retired"}
        PROVE  Store!Remove(s, n)
    BY <1>7 DEF Store!Remove
  <1> QED  BY <1>1, <1>2, <1>3, <1>4, <1>5, <1>6, <1>7

LEMMA StFields ==
  ASSUME NEW t \in Tasks, TypeOK, NEW s, s = St(t)
  PROVE  /\ s \in Store!State
         /\ s.phase = Phase(t) /\ s.answer = answer[t] /\ s.row = RowState(t)
         /\ s.passed = (t \in passed)
         /\ s.done = (\E j \in executed : j.task = t)
  <1>1. /\ Phase(t) \in {"none", "saving", "over"} /\ answer[t] \in {"none", "complete", "fail"}
        /\ RowState(t) \in {"absent", "waiting", "retired"}
    BY DEF Phase, RowState, TypeOK
  <1> DEFINE p == Phase(t)
             r == RowState(t)
             x == t \in passed
             y == \E j \in executed : j.task = t
  <1>2. /\ p \in {"none", "saving", "over"} /\ r \in {"absent", "waiting", "retired"}
        /\ x \in BOOLEAN /\ y \in BOOLEAN
    BY <1>1
  <1>3. s = [phase |-> p, answer |-> answer[t], row |-> r, passed |-> x, done |-> y]
    BY DEF St
  <1> HIDE DEF p, r, x, y
  <1>4. /\ s \in Store!State
        /\ s.phase = p /\ s.answer = answer[t] /\ s.row = r /\ s.passed = x /\ s.done = y
    BY <1>1, <1>2, <1>3 DEF Store!State
  <1> QED  BY <1>4 DEF p, r, x, y

LEMMA StFieldsNext ==
  ASSUME NEW t \in Tasks, TypeOK', NEW n, n = St(t)'
  PROVE  /\ n \in Store!State
         /\ n.phase = Phase(t)' /\ n.answer = answer'[t] /\ n.row = RowState(t)'
         /\ n.passed = (t \in passed')
         /\ n.done = (\E j \in executed' : j.task = t)
  <1>1. /\ Phase(t)' \in {"none", "saving", "over"} /\ answer'[t] \in {"none", "complete", "fail"}
        /\ RowState(t)' \in {"absent", "waiting", "retired"}
    BY DEF Phase, RowState, TypeOK
  <1> DEFINE p == Phase(t)'
             r == RowState(t)'
             x == t \in passed'
             y == \E j \in executed' : j.task = t
  <1>2. /\ p \in {"none", "saving", "over"} /\ r \in {"absent", "waiting", "retired"}
        /\ x \in BOOLEAN /\ y \in BOOLEAN
    BY <1>1
  <1>3. n = [phase |-> p, answer |-> answer'[t], row |-> r, passed |-> x, done |-> y]
    BY DEF St
  <1> HIDE DEF p, r, x, y
  <1>4. /\ n \in Store!State
        /\ n.phase = p /\ n.answer = answer'[t] /\ n.row = r /\ n.passed = x /\ n.done = y
    BY <1>1, <1>2, <1>3 DEF Store!State
  <1> QED  BY <1>4 DEF p, r, x, y

LEMMA StoreStep ==
  ASSUME CInv, CInv', [Next]_vars, NEW t \in Tasks PROVE Store!Move(St(t), St(t)')
  <1> USE DEF databases, saves, runners, jobs
  <1> SUFFICES ASSUME NEW s, s = St(t), NEW n, n = St(t)' PROVE Store!Move(s, n)
    OBVIOUS
  <1>fields.
    /\ s \in Store!State /\ n \in Store!State
    /\ s.phase = Phase(t) /\ n.phase = Phase(t)'
    /\ s.answer = answer[t] /\ n.answer = answer'[t]
    /\ s.row = RowState(t) /\ n.row = RowState(t)'
    /\ s.passed = (t \in passed) /\ n.passed = (t \in passed')
    /\ s.done = (\E j \in executed : j.task = t)
    /\ n.done = (\E j \in executed' : j.task = t)
    <2>1. TypeOK /\ TypeOK'
      BY DEF CInv
    <2>2. /\ s \in Store!State
          /\ s.phase = Phase(t) /\ s.answer = answer[t] /\ s.row = RowState(t)
          /\ s.passed = (t \in passed)
          /\ s.done = (\E j \in executed : j.task = t)
      BY <2>1, StFields
    <2>3. /\ n \in Store!State
          /\ n.phase = Phase(t)' /\ n.answer = answer'[t] /\ n.row = RowState(t)'
          /\ n.passed = (t \in passed')
          /\ n.done = (\E j \in executed' : j.task = t)
      BY <2>1, StFieldsNext
    <2> QED  BY <2>2, <2>3
  <1>0. ASSUME Phase(t)' = Phase(t), answer'[t] = answer[t], RowState(t)' = RowState(t),
               UNCHANGED <<passed, executed>>
        PROVE  Store!Move(s, n)
    BY <1>0, <1>fields, MoveOf
  <1>1. ASSUME UNCHANGED rows PROVE RowState(t)' = RowState(t)
    BY <1>1 DEF RowState, Stored
  <1>2. ASSUME UNCHANGED <<asked, trying>> PROVE Phase(t)' = Phase(t)
    BY <1>2 DEF Phase
  <1>3. CASE UNCHANGED <<asked, trying, answer, rows, passed, executed>>
    BY <1>0, <1>1, <1>2, <1>3
  <1>4. ASSUME NEW u \in Tasks, Save(u) PROVE Store!Move(s, n)
    <2>1. /\ u \notin asked /\ asked' = asked \cup {u} /\ UNCHANGED <<answer, rows, passed, executed>>
          /\ trying' = [trying EXCEPT ![FirstAttempt(u)] = @ + 1]
          /\ FirstAttempt(u) \in Attempt /\ FirstAttempt(u).task = u
      BY <1>4, FirstAttemptType DEF Save, FirstAttempt, CInv
    <2>2. CASE t = u
      <3>1. Phase(t) = "none"
        BY <2>1, <2>2 DEF Phase
      <3>2. trying[FirstAttempt(u)] = 0
        BY <2>1 DEF CInv, TryInv, NotTrying
      <3>3. trying'[FirstAttempt(u)] = 1
        BY <2>1, <3>2 DEF CInv, TypeOK
      <3>4. Phase(t)' = "saving"
        BY <2>1, <2>2, <3>3 DEF Phase
      <3> QED  BY <1>1, <2>1, <3>1, <3>4, <1>fields, MoveOf
    <2>3. CASE t # u
      <3>1. \A a \in Attempt : a.task = t => trying'[a] = trying[a]
        BY <2>1, <2>3 DEF CInv, TypeOK
      <3> QED  BY <1>0, <1>1, <2>1, <2>3, <3>1, SamePhase
    <2> QED  BY <2>2, <2>3
  <1>5. ASSUME NEW a \in Attempt, trying[a] > 0
        PROVE  a.task \in asked /\ Phase(a.task) = "saving"
    <2>1. trying[a] # 0 /\ a.task \in Tasks
      <3>1. a.task \in Tasks
        BY DEF Attempt
      <3> QED  BY <1>5, <3>1 DEF CInv, TypeOK
    <2>2. a.task \in asked
      BY <2>1 DEF CInv, TryInv, NotTrying
    <2> QED  BY <1>5, <2>2 DEF Phase
  <1>6. ASSUME NEW a \in Attempt, AttemptSucceeds(a) PROVE Store!Move(s, n)
    <2>1. /\ UNCHANGED <<asked, passed, executed>> /\ trying' = [trying EXCEPT ![a] = @ - 1]
          /\ trying[a] > 0
          /\ answer' = IF answer[a.task] = "none" THEN [answer EXCEPT ![a.task] = "complete"]
                       ELSE answer
      BY <1>6 DEF AttemptSucceeds, Answers
    <2>2. PICK new : rows' = rows \cup {new} /\ new.task = a.task /\ ~new.disabled
      BY <1>6, InsertedRow
    <2>3. CASE t = a.task
      <3>1. Phase(t) = "saving" /\ Phase(t)' \in {"saving", "over"}
        BY <1>5, <2>1, <2>3 DEF Phase
      <3>2. RowState(t)' = "waiting"
        BY <2>2, <2>3 DEF RowState, Stored
      <3>3. answer'[t] \in {answer[t], IF answer[t] = "none" THEN "complete" ELSE answer[t]}
        BY <2>1, <2>3 DEF CInv, TypeOK
      <3> QED
        BY ZenonT(60), <2>1, <3>1, <3>2, <3>3, <1>fields, MoveOf
    <2>4. CASE t # a.task
      <3>1. \A b \in Attempt : b.task = t => trying'[b] = trying[b]
        BY <2>1, <2>4 DEF CInv, TypeOK
      <3>2. RowsLike(t) /\ RowsBack(t)
        BY <2>2, <2>4 DEF RowsLike, RowsBack
      <3>3. answer'[t] = answer[t]
        BY <2>1, <2>4 DEF CInv, TypeOK
      <3> QED  BY <1>0, <2>1, <3>1, <3>2, <3>3, SamePhase, SameRowState
    <2> QED  BY <2>3, <2>4
  <1>7. ASSUME NEW a \in Attempt, AttemptFails(a) PROVE Store!Move(s, n)
    <2>1. /\ UNCHANGED <<asked, rows, passed, executed>> /\ trying[a] > 0
          /\ answer' \in {answer, IF answer[a.task] = "none" THEN [answer EXCEPT ![a.task] = "fail"]
                                  ELSE answer}
      BY <1>7 DEF AttemptFails, Answers
    <2>2. CASE t = a.task
      <3>1. Phase(t) = "saving" /\ Phase(t)' \in {"saving", "over"}
        BY <1>5, <2>1, <2>2 DEF Phase
      <3>3. answer'[t] \in {answer[t], IF answer[t] = "none" THEN "fail" ELSE answer[t]}
        BY <2>1, <2>2 DEF CInv, TypeOK
      <3> QED
        BY ZenonT(60), <1>1, <2>1, <3>1, <3>3, <1>fields, MoveOf
    <2>3. CASE t # a.task
      <3>1. \A b \in Attempt : b.task = t => trying'[b] = trying[b]
        <4>1. \A b \in Retries(a) : b.task = a.task
          BY DEF Retries
        <4>2. \A b \in Attempt : b \notin Retries(a) /\ b # a => trying'[b] = trying[b]
          BY <1>7 DEF AttemptFails, CInv, TypeOK
        <4> QED  BY <2>3, <4>1, <4>2
      <3>2. answer'[t] = answer[t]
        BY <2>1, <2>3 DEF CInv, TypeOK
      <3> QED  BY <1>0, <1>1, <2>1, <3>1, <3>2, SamePhase
    <2> QED  BY <2>2, <2>3
  <1>8. ASSUME NEW row \in rows, NEW at, rows' = (rows \ {row}) \cup {[row EXCEPT !.at = at]}
        PROVE  RowState(t)' = RowState(t)
    <2>1. row \in Row
      BY DEF CInv, TypeOK
    <2>2. [row EXCEPT !.at = at].task = row.task /\ [row EXCEPT !.at = at].disabled = row.disabled
      BY <2>1 DEF Row
    <2> QED  BY <1>8, <2>2, SameRowState DEF RowsLike, RowsBack
  <1>9. ASSUME NEW r \in Runners, NEW row \in rows, PassTask(r, row)
        PROVE  Store!Move(s, n)
    <2>1. /\ rows' = (rows \ {row}) \cup {[row EXCEPT !.at = "later"]}
          /\ passed' = passed \cup {row.task} /\ row.task \in asked
          /\ UNCHANGED <<asked, trying, answer, executed>>
      BY <1>9 DEF PassTask, CInv, NameInv, RowOK
    <2>2. RowState(t)' = RowState(t) /\ Phase(t)' = Phase(t)
      BY <1>2, <1>8, <2>1
    <2>3. CASE t = row.task
      <3>1. Phase(t) # "none"
        BY <2>1, <2>3 DEF Phase
      <3>2. /\ n.phase = s.phase /\ n.answer = s.answer /\ n.row = s.row
            /\ n.passed /\ n.done = s.done /\ s.phase # "none"
        BY <2>1, <2>2, <2>3, <3>1, <1>fields
      <3> QED  BY <3>2, <1>fields, MoveOf
    <2>4. CASE t # row.task
      <3>1. /\ n.phase = s.phase /\ n.answer = s.answer /\ n.row = s.row
            /\ n.passed = s.passed /\ n.done = s.done
        BY <2>1, <2>2, <2>4, <1>fields
      <3> QED  BY <3>1, <1>fields, MoveOf
    <2> QED  BY <2>3, <2>4
  <1>10. ASSUME NEW r \in Runners, NEW d \in Dbs, ApplyWrite(r, d)
         PROVE  Store!Move(s, n)
    <2> DEFINE w == Head(writes[r][d])
               New(row) == IF row.name # w.name THEN row
                  ELSE IF w.op = "disable" THEN [row EXCEPT !.left = w.left, !.disabled = TRUE]
                  ELSE [row EXCEPT !.left = w.left, !.at = "later"]
    <2>1. w \in Elems(writes[r][d]) /\ WriteOK(w)
      BY <1>10, ElemsFacts DEF ApplyWrite, WriteInv, CInv, TypeOK
    <2>2. /\ rows' = {New(row) : row \in rows}
          /\ UNCHANGED <<asked, trying, answer, passed, executed>>
      BY <1>10 DEF ApplyWrite, Applied
    <2>3. \A row \in rows : /\ New(row).task = row.task /\ New(row).disabled \in BOOLEAN
                            /\ row.disabled => New(row).disabled
                            /\ New(row).disabled /\ ~row.disabled =>
                                 row.name = w.name /\ w.op = "disable"
      BY DEF CInv, TypeOK, Row
    <2> HIDE DEF New
    <2>4. Stored(t)' <=> Stored(t)
      BY <2>2, <2>3 DEF Stored
    <2>5. CASE t \in passed
      <3>1. RowState(t)' = RowState(t) \/ (RowState(t) = "waiting" /\ RowState(t)' = "retired")
        BY <2>2, <2>3, <2>4 DEF RowState, Stored
      <3>2. Phase(t)' = Phase(t)
        BY <1>2, <2>2
      <3> QED  BY ZenonT(60), <2>2, <2>5, <3>1, <3>2, <1>fields, MoveOf
    <2>6. CASE t \notin passed
      <3>1. \A row \in rows : row.task = t => New(row).disabled = row.disabled
        <4> SUFFICES ASSUME NEW row \in rows, row.task = t PROVE New(row).disabled = row.disabled
          OBVIOUS
        <4>1. row.disabled \in BOOLEAN
          BY DEF CInv, TypeOK, Row
        <4>2. ~(row.name = w.name /\ w.op = "disable")
          BY <2>1, <2>6 DEF WriteOK
        <4> QED  BY <2>3, <4>1, <4>2
      <3>2. RowState(t)' = RowState(t)
        BY <2>2, <2>3, <3>1, SameRowState DEF RowsLike, RowsBack
      <3> QED  BY <1>0, <1>2, <2>2, <3>2
    <2> QED  BY <2>5, <2>6
  <1>11. ASSUME NEW j \in sent, Execute(j) PROVE Store!Move(s, n)
    <2>1. /\ executed' = executed \cup {j} /\ UNCHANGED <<asked, trying, answer, rows, passed>>
          /\ j.task \in passed /\ j.task \in asked
      BY <1>11 DEF Execute, CInv, NameInv, JobOK
    <2>2. RowState(t)' = RowState(t) /\ Phase(t)' = Phase(t)
      BY <1>1, <1>2, <2>1
    <2>3. CASE t = j.task
      <3>1. Phase(t) # "none" /\ t \in passed /\ \E i \in executed' : i.task = t
        BY <2>1, <2>3 DEF Phase
      <3> QED  BY ZenonT(60), <2>1, <2>2, <3>1, <1>fields, MoveOf
    <2>4. CASE t # j.task
      BY <2>1, <2>2, <2>4, <1>fields, MoveOf
    <2> QED  BY <2>3, <2>4
  <1>12. ASSUME NEW j \in sent, Eject(j) PROVE Store!Move(s, n)
    <2>1. /\ j \in executed /\ rows' = {row \in rows : row.name # j.name}
          /\ UNCHANGED <<asked, trying, answer, passed, executed>>
      BY <1>12 DEF Eject, Deleted
    <2>2. Phase(t)' = Phase(t)
      BY <1>2, <2>1
    <2>3. CASE t = j.task
      <3>1. RowState(t)' = RowState(t) \/ RowState(t)' \in {"absent", "retired"}
        BY <2>1 DEF RowState, Stored
      <3>2. \E i \in executed : i.task = t
        BY <2>1, <2>3
      <3> QED  BY ZenonT(60), <2>1, <2>2, <3>1, <3>2, <1>fields, MoveOf
    <2>4. CASE t # j.task
      <3>1. RowsLike(t) /\ RowsBack(t)
        BY <2>1, <2>4 DEF RowsLike, RowsBack, CInv, NameInv, JobOK
      <3> QED  BY <1>0, <2>1, <2>2, <3>1, SameRowState
    <2> QED  BY <2>3, <2>4
  <1>13. ASSUME NEW row \in rows, Expire(row) PROVE Store!Move(s, n)
    <2>1. /\ rows' = (rows \ {row}) \cup {[row EXCEPT !.at = "due"]}
          /\ UNCHANGED <<asked, trying, answer, passed, executed>>
      BY <1>13 DEF Expire
    <2> QED  BY <1>0, <1>2, <1>8, <2>1
  <1> QED
    BY <1>3, <1>4, <1>6, <1>7, <1>9, <1>10, <1>11, <1>12, <1>13
    DEF Next, AttemptEnds, vars, Connect, LoseServers, Closed, RunnerCrash, PollError,
        WriteError, GoDown, ComeUp

LEMMA StoreInit == Init => Store!Init
  <1> SUFFICES ASSUME Init PROVE Store!Init
    OBVIOUS
  <1>1. ASSUME NEW t \in Tasks, NEW s, s = St(t) PROVE s = Store!New
    <2>1. /\ s \in Store!State
          /\ s.phase = Phase(t) /\ s.answer = answer[t] /\ s.row = RowState(t)
          /\ s.passed = (t \in passed) /\ s.done = (\E j \in executed : j.task = t)
      BY <1>1, TypeInit, StFields
    <2>2. Phase(t) = "none" /\ RowState(t) = "absent" /\ answer[t] = "none"
      BY DEF Init, Phase, RowState, Stored
    <2>3. (t \in passed) = FALSE /\ (\E j \in executed : j.task = t) = FALSE
      BY DEF Init
    <2>4. s.passed = FALSE /\ s.done = FALSE
      BY <2>1, <2>3, Zenon
    <2> QED  BY <2>1, <2>2, <2>4 DEF Store!State, Store!New
  <1>2. ASSUME NEW t \in Tasks PROVE St(t) = Store!New
    <2>1. PICK s : s = St(t)
      OBVIOUS
    <2> QED  BY <1>1, <2>1
  <1> QED  BY <1>2, Zenon DEF Store!Init, St

(* Over any number of databases the composite adapter keeps what TaskStore *)
(* promises of an adapter.                                                 *)
THEOREM CompositeImplementsStore == Spec => StoreImplemented
  <1>1. CInv /\ CInv' /\ [Next]_vars => Store!Next
    <2> SUFFICES ASSUME CInv, CInv', [Next]_vars PROVE Store!Next
      OBVIOUS
    <2>1. \A t \in Tasks : Store!Move(St(t), St(t)')
      BY StoreStep
    <2> QED  BY <2>1 DEF Store!Next, St
  <1> QED  BY <1>1, StoreInit, CompositeInv, PTL DEF Spec, StoreImplemented, Store!Spec
=============================================================================
