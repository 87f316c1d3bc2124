------------------------------ MODULE Runner -------------------------------
(***************************************************************************)
(* The runner, src/lib/daemon/runner.js: polls the database while it has a *)
(* job server, and for every task the adapter passes to it writes the new  *)
(* expiry and retry count back and submits the task to its controller.     *)
(*                                                                         *)
(* A runner's statements other than the leases run one at a time in the    *)
(* order they were issued (database.serialize); its handler awaits none of *)
(* them.                                                                   *)
(***************************************************************************)
EXTENDS SqliteAdapter, Gearman

VARIABLES
  link,    \* link[r]: r's connection to the job servers
  writes,  \* writes[r]: statements r has issued that the database has not run
  earlier, \* earlier[r]: how many of them precede the timer of r's live loop
  handed   \* history: how often a task was passed to a runner, up to a bound

runnerVars == <<link, writes, earlier, handed>>

(* "closing": disconnect() was called and the 'disconnect' event is yet to *)
(* come; "closed": the runner has given up its servers for good.           *)
LinkState == {"down", "up", "closing", "closed"}

Write == [op: {"update", "disable"}, id: Ids, task: Task]

RunnerTypeOK ==
  /\ link \in [Runners -> LinkState]
  /\ writes \in [Runners -> Seq(Write)]
  /\ earlier \in [Runners -> Nat]
  /\ handed \in [Keys -> Nat]

RunnerInit ==
  /\ link = [r \in Runners |-> "down"]
  /\ writes = [r \in Runners |-> <<>>]
  /\ earlier = [r \in Runners |-> 0]
  /\ handed = [k \in Keys |-> 0]

(* A count beyond which no property looks: one more than the retry count.  *)
HandedBound(k) == RunnerRetryCount[k] + 1

LinkMoves(r, from, to) ==
  link[r] = from /\ link' = [link EXCEPT ![r] = to]

(* Component.disconnect: the connections are told to close.  With none     *)
(* open no event will follow.                                              *)
DisconnectRunner(r) ==
  link' = [link EXCEPT ![r] = CASE @ = "up"   -> "closing"
                                [] @ = "down" -> "closed"
                                [] OTHER      -> @]

(* setTimeout(poll): by listenTask, and in the callback of every SELECT.   *)
TimerArmed(r) == earlier' = [earlier EXCEPT ![r] = Len(writes[r])]

-----------------------------------------------------------------------------
(* 'connect': startPolling.                                                *)
Connect(r) ==
  /\ LinkMoves(r, "down", "up")
  /\ Listen(r)
  /\ TimerArmed(r)
  /\ NoFault /\ UNCHANGED <<jobs, writes, handed>>

(* 'disconnect' because the servers went away: db_poll_stop.               *)
LoseServers(r) ==
  /\ LinkMoves(r, "up", "down")
  /\ Halt(r)
  /\ Fault /\ UNCHANGED <<jobs, writes, earlier, handed>>

(* 'disconnect' after the runner's own disconnect().                       *)
Closed(r) ==
  /\ LinkMoves(r, "closing", "closed")
  /\ Halt(r)
  /\ NoFault /\ UNCHANGED <<jobs, writes, earlier, handed>>

(* A round begins.  Its SELECT waits for the statements issued before the  *)
(* timer was armed and, for all we know of when the timer fired, for none  *)
(* issued since.  (Of a halted loop it is not recorded when it was armed.) *)
PollRound(r) ==
  \/ LiveRound(r) /\ earlier[r] = 0 /\ TimerArmed(r)
  \/ HaltedRound(r) /\ UNCHANGED earlier

Poll(r) ==
  /\ PollRound(r)
  /\ Select(r)
  /\ NoFault /\ UNCHANGED <<jobs, link, writes, handed>>

(* The SELECT fails, and the runner disconnects from its servers.          *)
PollError(r) ==
  /\ PollRound(r)
  /\ SelectError(r)
  /\ DisconnectRunner(r)
  /\ Fault /\ UNCHANGED <<jobs, writes, handed>>

LeaseRow(r) ==
  /\ \E s \in fetched[r] : Lease(r, s)
  /\ NoFault /\ UNCHANGED <<jobs, runnerVars>>

LeaseRowError(r) ==
  /\ \E s \in fetched[r] : LeaseError(r, s)
  /\ Fault /\ UNCHANGED <<jobs, runnerVars>>

-----------------------------------------------------------------------------
(* The statements updateTask issues for a task passed to the runner: the   *)
(* count is taken from the row as it was SELECTed, and a task whose count  *)
(* reaches zero is disabled first and then updated all the same.           *)
MutantStatementsFor(s) ==
  LET task == Decremented(s.task)
      write(op) == [op |-> op, id |-> s.id, task |-> task]
  IN  IF task.left \in {0, 1} THEN <<write("disable"), write("update")>>
                               ELSE <<write("update")>>

StatementsFor(s) ==
  LET task == Decremented(s.task)
      write(op) == [op |-> op, id |-> s.id, task |-> task]
  IN  IF task.left = 0 THEN <<write("disable"), write("update")>>
                       ELSE <<write("update")>>

(* The listener: updateTask, then sendToController with the task as it was *)
(* before the update.  Without a server the client buffers the job; once   *)
(* the connections were told to close nothing is sent any more.            *)
Deliver(r, s) ==
  /\ s \in leased[r]
  /\ leased' = [leased EXCEPT ![r] = @ \ {s}]
  /\ writes' = [writes EXCEPT ![r] = @ \o StatementsFor(s)]
  /\ IF link[r] \in {"down", "up"}
     THEN Submit([fn |-> "controller", id |-> s.id, key |-> s.task.key])
     ELSE UNCHANGED jobs
  /\ handed' = IF handed[s.task.key] < HandedBound(s.task.key)
               THEN [handed EXCEPT ![s.task.key] = @ + 1] ELSE handed
  /\ NoFault /\ UNCHANGED <<table, cont, stopped, fetched, born, claims, link, earlier>>

DeliverTask(r) == \E s \in leased[r] : Deliver(r, s)

WriteTaken(r) ==
  /\ writes[r] # <<>> /\ LeasesOver(r)
  /\ writes' = [writes EXCEPT ![r] = Tail(@)]
  /\ earlier' = [earlier EXCEPT ![r] = IF @ > 0 THEN @ - 1 ELSE 0]

(* The database runs the next statement of r ...                           *)
ApplyWrite(r) ==
  /\ WriteTaken(r)
  /\ LET w == Head(writes[r])
     IN  IF w.op = "disable" THEN Disable(w.id, w.task)
                             ELSE Update(w.id, w.task)
  /\ NoFault /\ UNCHANGED <<jobs, link, handed>>

(* ... or it fails, and the runner disconnects from its servers.           *)
WriteError(r) ==
  /\ WriteTaken(r)
  /\ DisconnectRunner(r)
  /\ Fault /\ UNCHANGED <<jobs, sqliteVars, handed>>

(* The process stops, at any point, and is started again.                  *)
RunnerCrash(r) ==
  /\ link' = [link EXCEPT ![r] = "down"]
  /\ writes' = [writes EXCEPT ![r] = <<>>]
  /\ earlier' = [earlier EXCEPT ![r] = 0]
  /\ ForgetPolls(r)
  /\ Fault /\ UNCHANGED <<jobs, handed>>
=============================================================================
