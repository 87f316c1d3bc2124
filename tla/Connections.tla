---------------------------- MODULE Connections ----------------------------
(***************************************************************************)
(* The connections of the components of a daemon to the job servers:       *)
(* Multiserver, MultiserverClient and MultiserverWorker, the forwarding of *)
(* their events by Component, and what the daemon makes of these.          *)
(*                                                                         *)
(* A component has a client half, a worker half or both, and each half a   *)
(* connection of its own to every server.  An event of a connection runs   *)
(* all its handlers in one turn of the event loop, up to the line the      *)
(* daemon logs: it is one step.  The connection itself, with its           *)
(* reconnecter, is external; of the 'disconnect' events with an error the  *)
(* code takes no notice: they report failed attempts to connect.           *)
(***************************************************************************)
EXTENDS Integers, FiniteSets

CONSTANTS
  Components,  \* the components the daemon runs
  Roles,       \* Roles[c]: the halves of c
  N            \* the number of job servers

ASSUME RolesAssumption ==
  Roles \in [Components -> (SUBSET {"client", "worker"}) \ {{}}]
ASSUME NAssumption == N \in Nat \ {0}

Servers == 0..(N - 1)

(* The halves of all components: each is a Multiserver.                    *)
Halves == {m \in Components \X {"client", "worker"} : m[2] \in Roles[m[1]]}

VARIABLES
  live,       \* the connections that are up, as <<half, server>>
  closing,    \* the components whose disconnect() was called
  count,      \* count[m]: _connected_count of half m
  connected,  \* the halves that believe they are connected
  announced,  \* the components the daemon believes are connected
  logged,     \* what the daemon logged last
  index,      \* index[c]: _rr_index of the client of c
  passed      \* history: passed[c][s]: jobs sent past server s since it came
              \* up or got one

vars == <<live, closing, count, connected, announced, logged, index, passed>>

Clients == {c \in Components : "client" \in Roles[c]}

Init ==
  /\ live = {}
  /\ closing = {}
  /\ count = [m \in Halves |-> 0]
  /\ connected = {}
  /\ announced = {}
  /\ logged = "nothing"
  /\ index = [c \in Clients |-> -1]
  /\ passed = [c \in Clients |-> [s \in Servers |-> 0]]

-----------------------------------------------------------------------------
(* Daemon.setConnected.                                                    *)
AllConnected(set) == set = Components

SetConnected(set) ==
  /\ announced' = set
  /\ logged' = CASE AllConnected(set) /\ ~AllConnected(announced) -> "Connected"
                 [] ~AllConnected(set) /\ AllConnected(announced) -> "Disconnected"
                 [] OTHER -> logged

(* Component.registerGearman: the event of one half is forwarded while the *)
(* other half, if there is one, is connected.                              *)
MutantForwards(m) == TRUE

Forwards(m) == \A h \in Roles[m[1]] \ {m[2]} : <<m[1], h>> \in connected

Emit(m, set) ==
  IF Forwards(m) THEN SetConnected(set) ELSE UNCHANGED <<announced, logged>>

(* Until disconnect() is called connections are tried again and again.     *)
MutantReconnects(m) == m[1] \notin closing \/ m[2] = "worker"

Reconnects(m) == m[1] \notin closing

(* A connection comes up: the first of its half makes it 'connect'.        *)
Opened(m, s) ==
  /\ <<m, s>> \notin live /\ Reconnects(m)
  /\ live' = live \cup {<<m, s>>}
  /\ count' = [count EXCEPT ![m] = @ + 1]
  /\ IF count'[m] = 1
     THEN /\ connected' = connected \cup {m}
          /\ Emit(m, announced \cup {m[1]})
     ELSE UNCHANGED <<connected, announced, logged>>
  /\ passed' = IF m[2] = "client"
               THEN [passed EXCEPT ![m[1]][s] = 0] ELSE passed
  /\ UNCHANGED <<closing, index>>

(* A live connection goes away: the last of its half makes it              *)
(* 'disconnect'.                                                           *)
MutantCountDown(m) == UNCHANGED count

CountDown(m) == count' = [count EXCEPT ![m] = @ - 1]

Lost(m, s) ==
  /\ <<m, s>> \in live
  /\ live' = live \ {<<m, s>>}
  /\ CountDown(m)
  /\ IF count'[m] = 0
     THEN /\ connected' = connected \ {m}
          /\ Emit(m, announced \ {m[1]})
     ELSE UNCHANGED <<connected, announced, logged>>
  /\ UNCHANGED <<closing, index, passed>>

(* Component.disconnect: every connection of every half is told to close,  *)
(* which it will (Lost), and not to come back.                             *)
Disconnect(c) ==
  /\ c \notin closing
  /\ closing' = closing \cup {c}
  /\ UNCHANGED <<live, count, connected, announced, logged, index, passed>>

(* _pickConnectedClient: the loop goes on from the last index and stops at *)
(* a live connection, after one round, or at once if the client believes   *)
(* itself without any.                                                     *)
MutantAfter(i, k) == (k - 1) % N

After(i, k) == (i + k) % N

Stops(c, k) ==
  \/ <<<<c, "client">>, After(index[c], k)>> \in live
  \/ k = N
  \/ <<c, "client">> \notin connected

MutantPicks(c, k) == k = 1

Picks(c, k) == Stops(c, k) /\ \A j \in 1..(k - 1) : ~Stops(c, j)

(* submitJob and submitJobBg: one job is sent to the connection picked, k  *)
(* servers further on.                                                     *)
Send(c, k) ==
  /\ Picks(c, k)
  /\ index' = [index EXCEPT ![c] = After(@, k)]
  /\ passed' = [passed EXCEPT ![c] =
       [s \in Servers |-> IF s = index'[c] \/ <<<<c, "client">>, s>> \notin live
                          THEN 0 ELSE @[s] + 1]]
  /\ UNCHANGED <<live, closing, count, connected, announced, logged>>

Next ==
  \/ \E m \in Halves, s \in Servers : Opened(m, s) \/ Lost(m, s)
  \/ \E c \in Components : Disconnect(c)
  \/ \E c \in Clients, k \in 1..N : Send(c, k)

Spec == Init /\ [][Next]_vars

(* A connection that was told to close goes away.                          *)
Fairness ==
  \A m \in Halves, s \in Servers : WF_vars(m[1] \in closing /\ Lost(m, s))

FairSpec == Spec /\ Fairness

-----------------------------------------------------------------------------
TypeOK ==
  /\ live \in SUBSET (Halves \X Servers)
  /\ closing \in SUBSET Components
  /\ count \in [Halves -> 0..N]
  /\ connected \in SUBSET Halves
  /\ announced \in SUBSET Components
  /\ logged \in {"nothing", "Connected", "Disconnected"}
  /\ index \in [Clients -> Servers \cup {-1}]
  /\ passed \in [Clients -> [Servers -> Nat]]

Reaches(m) == \E s \in Servers : <<m, s>> \in live

(* The daemon's last word is "Connected" exactly while every half of every *)
(* component has a live connection, although it only ever hears of edges,  *)
(* counted by events and forwarded or not, in any order.                   *)
DaemonTellsTheTruth ==
  logged = "Connected" <=> Components # {} /\ \A m \in Halves : Reaches(m)

(* A job is sent to a live connection whenever the client has one.         *)
SentToLive ==
  [][\A c \in Clients :
       index'[c] # index[c] /\ Reaches(<<c, "client">>)
         => <<<<c, "client">>, index'[c]>> \in live]_vars

(* While servers come and go, one that stays up gets a job at the latest   *)
(* after every other server was sent one.                                  *)
NoServerStarves == \A c \in Clients, s \in Servers : passed[c][s] < N

(* The 'connect' and 'disconnect' events of a component are the moves of a *)
(* link that stays closed once it was told to close, and does close.       *)
Link == INSTANCE ComponentLink WITH link <-
  [c \in Components |->
     IF c \in closing THEN IF c \in announced THEN "closing" ELSE "closed"
                      ELSE IF c \in announced THEN "up" ELSE "down"]

LinkImplemented == Link!LinkSpec

-----------------------------------------------------------------------------
(* The inductive invariant behind DaemonTellsTheTruth and the link.        *)
CountInv ==
  /\ \A m \in Halves : count[m] = Cardinality({s \in Servers : <<m, s>> \in live})
  /\ connected = {m \in Halves : Reaches(m)}
  /\ announced = {c \in Components : \A h \in Roles[c] : <<c, h>> \in connected}
  /\ logged = "Connected" <=> Components # {} /\ announced = Components

(* How many servers further on than the last index server s is.            *)
Distance(c, s) == IF s > index[c] THEN s - index[c] ELSE s - index[c] + N

(* The inductive invariant behind NoServerStarves.                         *)
TurnInv ==
  \A c \in Clients, s \in Servers : passed[c][s] + Distance(c, s) <= N
=============================================================================
