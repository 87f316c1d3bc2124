----------------------------- MODULE Injector ------------------------------
(***************************************************************************)
(* The injector, src/lib/daemon/injector.js: the worker of                 *)
(* submitJobDelayed.  A client's request is a foreground job the server    *)
(* keeps until the injector answers it.                                    *)
(***************************************************************************)
EXTENDS SqliteAdapter

VARIABLE request  \* request[k]: how far the submission of k has come

RequestState == {"idle", "queued", "inserted", "acked", "failed"}

InjectorTypeOK == request \in [Keys -> RequestState]

InjectorInit == request = [k \in Keys |-> "idle"]

Moves(k, from, to) ==
  request[k] = from /\ request' = [request EXCEPT ![k] = to]

(* A client submits task k.                                                *)
Request(k) ==
  /\ Moves(k, "idle", "queued")
  /\ NoFault /\ UNCHANGED sqliteVars

(* The checks of the handler.  isNaN lets null and negative numbers pass:  *)
(* only a date or an `after` that is not a number at all is refused.       *)
Accepts(k) == At[k] # "invalid"

Reject(k) ==
  /\ ~Accepts(k)
  /\ Moves(k, "queued", "failed")
  /\ NoFault /\ UNCHANGED sqliteVars

(* inject: saveTask runs the INSERT ...                                    *)
Inject(k) ==
  /\ Accepts(k)
  /\ Moves(k, "queued", "inserted")
  /\ \E id \in Ids : Insert(k, id)
  /\ NoFault

(* ... or the INSERT fails and the client is sent WORK_FAIL ...            *)
InjectError(k) ==
  /\ Accepts(k)
  /\ Moves(k, "queued", "failed")
  /\ Fault /\ UNCHANGED sqliteVars

(* ... and in its callback worker.complete(id) answers the client.         *)
Acknowledge(k) ==
  /\ Moves(k, "inserted", "acked")
  /\ NoFault /\ UNCHANGED sqliteVars

(* The injector stops between the INSERT and the answer: the server hands  *)
(* the request to another injector, which inserts the task again.          *)
InjectorCrash(k) ==
  /\ Moves(k, "inserted", "queued")
  /\ Fault /\ UNCHANGED sqliteVars
=============================================================================
