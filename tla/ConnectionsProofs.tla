------------------------- MODULE ConnectionsProofs -------------------------
(***************************************************************************)
(* Proofs about the connections: the counters and flags never lose track   *)
(* of the connections they only hear of by events, so that what the daemon *)
(* says is true and the events of a component are those of a link.         *)
(***************************************************************************)
EXTENDS Connections, FiniteSetTheorems, TLAPS

(* The servers half m has a live connection to.                            *)
Reached(m) == {s \in Servers : <<m, s>> \in live}

LEMMA ServersFinite == IsFiniteSet(Servers) /\ Cardinality(Servers) = N
<1>1. 0 \in Int /\ N - 1 \in Int
  BY NAssumption
<1>2. IsFiniteSet(0..(N - 1))
      /\ Cardinality(0..(N - 1)) = IF 0 > N - 1 THEN 0 ELSE (N - 1) - 0 + 1
  BY <1>1, FS_Interval
<1>3. QED  BY <1>2, NAssumption DEF Servers

(* A counter that has counted right can be read as a question about        *)
(* connections.                                                            *)
LEMMA CountReads ==
  ASSUME NEW S \in SUBSET Servers
  PROVE  /\ IsFiniteSet(S) /\ Cardinality(S) \in 0..N
         /\ Cardinality(S) = 0 <=> S = {}
         /\ \A s \in Servers \ S :
              Cardinality(S \cup {s}) = Cardinality(S) + 1
         /\ \A s \in S : Cardinality(S \ {s}) = Cardinality(S) - 1
<1>1. IsFiniteSet(S) /\ Cardinality(S) <= N
  BY ServersFinite, FS_Subset
<1>2. Cardinality(S) \in Nat /\ (Cardinality(S) = 0 <=> S = {})
  BY <1>1, FS_CardinalityType, FS_EmptySet
<1>3. \A s \in Servers \ S : Cardinality(S \cup {s}) = Cardinality(S) + 1
  BY <1>1, FS_AddElement
<1>4. \A s \in S : Cardinality(S \ {s}) = Cardinality(S) - 1
  BY <1>1, FS_RemoveElement
<1>5. QED  BY <1>1, <1>2, <1>3, <1>4, NAssumption

-----------------------------------------------------------------------------
(* One step round the servers, from the last index (or the -1 before the   *)
(* first job).                                                             *)
LEMMA AfterOf ==
  ASSUME NEW i \in Servers \cup {-1}, NEW k \in 1..N
  PROVE  /\ After(i, k) \in Servers
         /\ After(i, k) = IF i + k < N THEN i + k ELSE i + k - N
<1>1. i \in Int /\ k \in Int /\ i + k \in 0..(2 * N - 1) /\ N \in Nat \ {0}
  BY NAssumption DEF Servers
<1>2. \A a \in Int : 0 <= a /\ a < N => a % N = a
  BY NAssumption
<1>3. \A a \in Int : N <= a /\ a < 2 * N => a % N = a - N
  <2> SUFFICES ASSUME NEW a \in Int, N <= a, a < 2 * N
               PROVE  a % N = a - N
    OBVIOUS
  <2>1. a = N * (a \div N) + (a % N) /\ a % N \in 0..(N - 1) /\ a \div N \in Int
    BY NAssumption
  <2>2. a \div N = 1
    BY <2>1, NAssumption
  <2>3. QED  BY <2>1, <2>2, NAssumption
<1>4. CASE i + k < N
  BY <1>1, <1>2, <1>4 DEF After, Servers
<1>5. CASE i + k >= N
  BY <1>1, <1>3, <1>5 DEF After, Servers
<1>6. QED  BY <1>1, <1>4, <1>5

LEMMA DistanceOf ==
  ASSUME TypeOK, NEW c \in Clients, NEW s \in Servers
  PROVE  /\ Distance(c, s) \in 1..N
         /\ After(index[c], Distance(c, s)) = s
<1>1. index[c] \in Servers \cup {-1}
  BY DEF TypeOK
<1>2. Distance(c, s) \in 1..N
  BY <1>1, NAssumption DEF Distance, Servers
<1>3. After(index[c], Distance(c, s)) = s
  <2> DEFINE d == Distance(c, s)
  <2>1. After(index[c], d) = IF index[c] + d < N THEN index[c] + d
                                                 ELSE index[c] + d - N
    <3> HIDE DEF d
    <3>1. d \in 1..N
      BY <1>2 DEF d
    <3>2. QED  BY <1>1, <3>1, AfterOf
  <2>2. QED  BY <1>1, <2>1, NAssumption DEF Distance, Servers
<1>4. QED  BY <1>2, <1>3

(* A search does not go past a live connection.                            *)
LEMMA NotPastLive ==
  ASSUME TypeOK, NEW c \in Clients, NEW k \in 1..N, Picks(c, k),
         NEW s \in Servers, <<<<c, "client">>, s>> \in live
  PROVE  k <= Distance(c, s)
<1>1. /\ Distance(c, s) \in 1..N
      /\ After(index[c], Distance(c, s)) = s
  BY DistanceOf
<1>2. Stops(c, Distance(c, s))
  BY <1>1 DEF Stops
<1>3. ~(Distance(c, s) \in 1..(k - 1))
  BY <1>2 DEF Picks
<1>4. QED  BY <1>1, <1>3, NAssumption

-----------------------------------------------------------------------------
(* The types hold initially and every step keeps them.                     *)
LEMMA TypeInit == Init => TypeOK
BY NAssumption DEF Init, TypeOK

LEMMA TypeStep ==
  ASSUME TypeOK, CountInv, [Next]_vars
  PROVE  TypeOK'
<1>1. \A m \in Halves : m[1] \in Components /\ (m[2] = "client" => m[1] \in Clients)
  BY DEF Halves, Clients
<1>2. ASSUME NEW m \in Halves, NEW s \in Servers, Opened(m, s)
      PROVE  TypeOK'
  <2>1. count[m] + 1 \in 0..N
    <3>1. Reached(m) \in SUBSET Servers /\ s \in Servers \ Reached(m)
      BY <1>2 DEF Reached, Opened
    <3>2. Cardinality(Reached(m) \cup {s}) = count[m] + 1
      BY ZenonT(60), <1>2, <3>1, CountReads DEF CountInv, Reached
    <3>3. Reached(m) \cup {s} \in SUBSET Servers
      BY <3>1
    <3>4. QED  BY <3>2, <3>3, CountReads
  <2>2. count' \in [Halves -> 0..N]
    BY <1>2, <2>1 DEF Opened, TypeOK
  <2>3. /\ connected' \in SUBSET Halves /\ announced' \in SUBSET Components
        /\ logged' \in {"nothing", "Connected", "Disconnected"}
    BY <1>1, <1>2 DEF Opened, Emit, SetConnected, TypeOK
  <2>4. passed' \in [Clients -> [Servers -> Nat]]
    BY <1>1, <1>2 DEF Opened, TypeOK
  <2>5. QED  BY <1>2, <2>2, <2>3, <2>4 DEF Opened, TypeOK
<1>3. ASSUME NEW m \in Halves, NEW s \in Servers, Lost(m, s)
      PROVE  TypeOK'
  <2>1. count[m] - 1 \in 0..N
    <3>1. Reached(m) \in SUBSET Servers /\ s \in Reached(m)
      BY <1>3 DEF Reached, Lost
    <3>2. Cardinality(Reached(m) \ {s}) = count[m] - 1
      BY <1>3, <3>1, CountReads DEF CountInv, Reached
    <3>3. Reached(m) \ {s} \in SUBSET Servers
      BY <3>1
    <3>4. QED  BY <3>2, <3>3, CountReads
  <2>2. count' \in [Halves -> 0..N]
    BY <1>3, <2>1 DEF Lost, CountDown, TypeOK
  <2>3. /\ connected' \in SUBSET Halves /\ announced' \in SUBSET Components
        /\ logged' \in {"nothing", "Connected", "Disconnected"}
    BY <1>3 DEF Lost, Emit, SetConnected, TypeOK
  <2>4. QED  BY <1>3, <2>2, <2>3 DEF Lost, TypeOK
<1>4. ASSUME NEW c \in Components, Disconnect(c)
      PROVE  TypeOK'
  BY <1>4 DEF Disconnect, TypeOK
<1>5. ASSUME NEW c \in Clients, NEW k \in 1..N, Send(c, k)
      PROVE  TypeOK'
  <2>1. After(index[c], k) \in Servers
    BY AfterOf DEF TypeOK
  <2>2. index' \in [Clients -> Servers \cup {-1}]
    BY <1>5, <2>1 DEF Send, TypeOK
  <2>3. passed' \in [Clients -> [Servers -> Nat]]
    BY <1>5 DEF Send, TypeOK
  <2>4. QED  BY <1>5, <2>2, <2>3 DEF Send, TypeOK
<1>6. CASE UNCHANGED vars
  BY <1>6 DEF vars, TypeOK
<1>7. QED  BY <1>2, <1>3, <1>4, <1>5, <1>6 DEF Next
-----------------------------------------------------------------------------
(* What the daemon announces and logs agrees with the flags of the halves, *)
(* whichever events are forwarded.                                         *)
LEMMA ConnectAnnounced ==
  ASSUME TypeOK, CountInv, NEW m \in Halves,
         connected' = connected \cup {m}, Emit(m, announced \cup {m[1]})
  PROVE  /\ announced' = {c \in Components : \A h \in Roles[c] : <<c, h>> \in connected'}
         /\ logged' = "Connected" <=> Components # {} /\ announced' = Components
<1>1. m[1] \in Components /\ m = <<m[1], m[2]>> /\ m[2] \in Roles[m[1]]
  BY DEF Halves
<1>2. CASE Forwards(m)
  <2>1. announced' = announced \cup {m[1]}
    BY <1>2 DEF Emit, SetConnected
  <2>2. logged' = "Connected" <=> Components # {} /\ announced' = Components
    BY <1>1, <1>2 DEF Emit, SetConnected, AllConnected, CountInv
  <2>3. QED  BY <1>1, <1>2, <2>1, <2>2 DEF Forwards, CountInv
<1>3. CASE ~Forwards(m)
  <2>1. UNCHANGED <<announced, logged>>
    BY <1>3 DEF Emit
  <2>2. \E h \in Roles[m[1]] : <<m[1], h>> \notin connected'
    BY <1>1, <1>3 DEF Forwards
  <2>3. QED  BY <1>1, <2>1, <2>2 DEF CountInv
<1>4. QED  BY <1>2, <1>3

LEMMA DisconnectAnnounced ==
  ASSUME TypeOK, CountInv, NEW m \in Halves,
         connected' = connected \ {m}, Emit(m, announced \ {m[1]})
  PROVE  /\ announced' = {c \in Components : \A h \in Roles[c] : <<c, h>> \in connected'}
         /\ logged' = "Connected" <=> Components # {} /\ announced' = Components
<1>1. m[1] \in Components /\ m = <<m[1], m[2]>> /\ m[2] \in Roles[m[1]]
  BY DEF Halves
<1>2. CASE Forwards(m)
  <2>1. announced' = announced \ {m[1]}
    BY <1>2 DEF Emit, SetConnected
  <2>2. logged' = "Connected" <=> Components # {} /\ announced' = Components
    BY <1>1, <1>2 DEF Emit, SetConnected, AllConnected, CountInv
  <2>3. QED  BY <1>1, <1>2, <2>1, <2>2 DEF CountInv
<1>3. CASE ~Forwards(m)
  <2>1. UNCHANGED <<announced, logged>>
    BY <1>3 DEF Emit
  <2>2. m[1] \notin announced
    BY <1>3 DEF Forwards, CountInv
  <2>3. QED  BY <1>1, <2>1, <2>2 DEF CountInv
<1>4. QED  BY <1>2, <1>3

-----------------------------------------------------------------------------
(* The counters, the flags and the log keep up with the connections.       *)
LEMMA CountInit == Init => CountInv
<1> SUFFICES ASSUME Init PROVE CountInv
  OBVIOUS
<1>1. \A m \in Halves : {s \in Servers : <<m, s>> \in live} = {}
  BY DEF Init
<1>2. \A m \in Halves : count[m] = Cardinality({s \in Servers : <<m, s>> \in live})
  BY <1>1, FS_EmptySet DEF Init
<1>3. connected = {m \in Halves : Reaches(m)}
  BY DEF Init, Reaches
<1>4. announced = {c \in Components : \A h \in Roles[c] : <<c, h>> \in connected}
  BY RolesAssumption DEF Init
<1>5. logged = "Connected" <=> Components # {} /\ announced = Components
  BY DEF Init
<1>6. QED  BY <1>2, <1>3, <1>4, <1>5 DEF CountInv

LEMMA CountOpened ==
  ASSUME TypeOK, CountInv, NEW m \in Halves, NEW s \in Servers, Opened(m, s)
  PROVE  CountInv'
<1>1. Reached(m) \in SUBSET Servers /\ s \in Servers \ Reached(m)
  BY DEF Reached, Opened
<1>2. \A h \in Halves : Reached(h)' = IF h = m THEN Reached(m) \cup {s} ELSE Reached(h)
  BY DEF Reached, Opened
<1>3. \A h \in Halves : count[h] = Cardinality(Reached(h))
  BY DEF CountInv, Reached
<1>4. \A h \in Halves : count'[h] = Cardinality(Reached(h)')
  <2>1. Cardinality(Reached(m) \cup {s}) = Cardinality(Reached(m)) + 1
    BY <1>1, CountReads
  <2>2. \A h \in Halves : count'[h] = IF h = m THEN count[m] + 1 ELSE count[h]
    BY DEF Opened, TypeOK
  <2>3. QED  BY <1>2, <1>3, <2>1, <2>2
<1>5. connected' = {h \in Halves : Reaches(h)'}
  <2>1. \A h \in Halves : Reaches(h)' <=> h = m \/ Reaches(h)
    BY DEF Reaches, Opened
  <2>2. count'[m] = count[m] + 1 /\ count[m] \in 0..N
    BY DEF Opened, TypeOK
  <2>3. count'[m] # 1 => Reaches(m)
    <3>1. Cardinality(Reached(m)) = 0 <=> Reached(m) = {}
      BY <1>1, CountReads
    <3>2. QED  BY <1>3, <2>2, <3>1 DEF Reached, Reaches
  <2>4. QED  BY <2>1, <2>3 DEF Opened, CountInv
<1>6. /\ announced' = {c \in Components : \A h \in Roles[c] : <<c, h>> \in connected'}
      /\ logged' = "Connected" <=> Components # {} /\ announced' = Components
  <2>1. CASE count'[m] = 1
    BY <2>1, ConnectAnnounced DEF Opened
  <2>2. CASE count'[m] # 1
    BY <2>2 DEF Opened, CountInv
  <2>3. QED  BY <2>1, <2>2
<1>7. QED  BY <1>4, <1>5, <1>6 DEF CountInv, Reached

LEMMA CountLost ==
  ASSUME TypeOK, CountInv, NEW m \in Halves, NEW s \in Servers, Lost(m, s)
  PROVE  CountInv'
<1>1. Reached(m) \in SUBSET Servers /\ s \in Reached(m)
  BY DEF Reached, Lost
<1>2. \A h \in Halves : Reached(h)' = IF h = m THEN Reached(m) \ {s} ELSE Reached(h)
  BY DEF Reached, Lost
<1>3. \A h \in Halves : count[h] = Cardinality(Reached(h))
  BY DEF CountInv, Reached
<1>4. \A h \in Halves : count'[h] = Cardinality(Reached(h)')
  <2>1. Cardinality(Reached(m) \ {s}) = Cardinality(Reached(m)) - 1
    BY <1>1, CountReads
  <2>2. \A h \in Halves : count'[h] = IF h = m THEN count[m] - 1 ELSE count[h]
    BY DEF Lost, CountDown, TypeOK
  <2>3. QED  BY <1>2, <1>3, <2>1, <2>2
<1>5. connected' = {h \in Halves : Reaches(h)'}
  <2>1. \A h \in Halves : h # m => (Reaches(h)' <=> Reaches(h))
    BY DEF Reaches, Lost
  <2>2. Reaches(m) /\ (Reaches(m)' <=> Reached(m)' # {})
    BY DEF Reaches, Reached, Lost
  <2>3. Reached(m)' # {} <=> count'[m] # 0
    <3>1. Reached(m)' \in SUBSET Servers
      BY DEF Reached
    <3>2. QED  BY <1>4, <3>1, CountReads
  <2>4. QED  BY <2>1, <2>2, <2>3 DEF Lost, CountInv
<1>6. /\ announced' = {c \in Components : \A h \in Roles[c] : <<c, h>> \in connected'}
      /\ logged' = "Connected" <=> Components # {} /\ announced' = Components
  <2>1. CASE count'[m] = 0
    BY <2>1, DisconnectAnnounced DEF Lost
  <2>2. CASE count'[m] # 0
    BY <2>2 DEF Lost, CountInv
  <2>3. QED  BY <2>1, <2>2
<1>7. QED  BY <1>4, <1>5, <1>6 DEF CountInv, Reached

LEMMA CountStep ==
  ASSUME TypeOK, CountInv, [Next]_vars
  PROVE  CountInv'
<1>1. CASE UNCHANGED <<live, count, connected, announced, logged>>
  BY <1>1 DEF CountInv, Reaches
<1>2. QED  BY <1>1, CountOpened, CountLost DEF Next, Disconnect, Send, vars

-----------------------------------------------------------------------------
(* The turn of a server comes nearer with every job that passes it.        *)
LEMMA TurnInit == Init => TurnInv
BY NAssumption DEF Init, TurnInv, Distance, Servers

LEMMA TurnSend ==
  ASSUME TypeOK, TurnInv, NEW c \in Clients, NEW k \in 1..N, Send(c, k)
  PROVE  TurnInv'
<1> SUFFICES ASSUME NEW e \in Clients, NEW s \in Servers
             PROVE  passed'[e][s] + Distance(e, s)' <= N
  BY DEF TurnInv
<1>1. CASE e # c
  BY <1>1 DEF Send, TypeOK, TurnInv, Distance
<1>2. CASE e = c
  <2> DEFINE i == index[c]
             p == After(i, k)
  <2>1. i \in Servers \cup {-1}
    BY DEF TypeOK
  <2>2. p \in Servers /\ p = IF i + k < N THEN i + k ELSE i + k - N
    BY <2>1, AfterOf
  <2>3. index'[c] = p
    BY DEF Send, TypeOK
  <2>4. Distance(c, s)' = IF s > p THEN s - p ELSE s - p + N
    BY <2>3 DEF Distance
  <2>5. CASE s = p \/ <<<<c, "client">>, s>> \notin live
    <3>1. passed'[c][s] = 0
      BY <2>3, <2>5 DEF Send, TypeOK
    <3>2. QED  BY <1>2, <2>2, <2>4, <3>1, NAssumption DEF Servers
  <2>6. CASE s # p /\ <<<<c, "client">>, s>> \in live
    <3>1. passed'[c][s] = passed[c][s] + 1 /\ passed[c][s] \in Nat
      BY <2>3, <2>6 DEF Send, TypeOK
    <3>2. k <= Distance(c, s)
      BY <2>6, NotPastLive DEF Send
    <3>3. passed[c][s] + Distance(c, s) <= N
      BY DEF TurnInv
    <3>4. Distance(c, s) = IF s > i THEN s - i ELSE s - i + N
      BY DEF Distance
    <3>5. Distance(c, s)' = Distance(c, s) - k
      <4> HIDE DEF i, p
      <4>1. i \in -1..(N - 1) /\ p \in 0..(N - 1) /\ s \in 0..(N - 1) /\ k \in 1..N
        BY <2>1, <2>2, NAssumption DEF Servers
      <4>2. s # p
        BY <2>6
      <4> DEFINE d == Distance(c, s)
                 f == Distance(c, s)'
      <4> HIDE DEF d, f
      <4>3. d = IF s > i THEN s - i ELSE s - i + N
        BY <3>4 DEF d, i
      <4>4. f = IF s > p THEN s - p ELSE s - p + N
        BY <2>4 DEF f, p
      <4>5. k <= d
        BY <3>2 DEF d
      <4>6. f = d - k
        BY <2>2, <4>1, <4>2, <4>3, <4>4, <4>5, NAssumption
      <4>7. QED  BY <4>6 DEF d, f
    <3>6. Distance(c, s) \in 1..N
      BY DistanceOf
    <3>7. QED  BY <1>2, <3>1, <3>3, <3>5, <3>6, NAssumption
  <2>7. QED  BY <2>5, <2>6
<1>3. QED  BY <1>1, <1>2

LEMMA TurnStep ==
  ASSUME TypeOK, TurnInv, [Next]_vars
  PROVE  TurnInv'
<1>1. ASSUME NEW m \in Halves, NEW s \in Servers, Opened(m, s)
      PROVE  TurnInv'
  <2> SUFFICES ASSUME NEW c \in Clients, NEW t \in Servers
               PROVE  passed'[c][t] + Distance(c, t)' <= N
    BY DEF TurnInv
  <2>1. Distance(c, t)' = Distance(c, t) /\ Distance(c, t) \in 1..N
    BY <1>1, DistanceOf DEF Opened, Distance
  <2>2. passed'[c][t] = passed[c][t] \/ passed'[c][t] = 0
    BY <1>1 DEF Opened, TypeOK
  <2>3. passed[c][t] + Distance(c, t) <= N
    BY DEF TurnInv
  <2>4. QED  BY <2>1, <2>2, <2>3, NAssumption
<1>2. CASE UNCHANGED <<index, passed>>
  BY <1>2 DEF TurnInv, Distance
<1>3. QED  BY <1>1, <1>2, TurnSend DEF Next, Lost, Disconnect, vars

-----------------------------------------------------------------------------
(* The inductive invariant of the connections.                             *)
Inv == TypeOK /\ CountInv /\ TurnInv

LEMMA Invariant == Spec => []Inv
<1>1. Init => Inv
  BY TypeInit, CountInit, TurnInit DEF Inv
<1>2. Inv /\ [Next]_vars => Inv'
  BY TypeStep, CountStep, TurnStep DEF Inv
<1>3. QED  BY <1>1, <1>2, PTL DEF Spec

(* Every state of the connections is of its type: the counters of          *)
(* connections stay between zero and the number of servers, and the round  *)
(* robin never leaves the list of servers.                                 *)
THEOREM ConnectionTypes == Spec => []TypeOK
BY Invariant, PTL DEF Inv

(* The daemon logs "Connected" exactly while every half of every component *)
(* has a live connection (Multiserver, Component, Daemon.setConnected).    *)
THEOREM TruthTold == Spec => []DaemonTellsTheTruth
<1>1. Inv => DaemonTellsTheTruth
  <2> SUFFICES ASSUME Inv PROVE DaemonTellsTheTruth
    OBVIOUS
  <2>1. announced = Components <=> \A m \in Halves : m \in connected
    BY RolesAssumption DEF Inv, CountInv, Halves
  <2>2. QED  BY <2>1 DEF Inv, CountInv, DaemonTellsTheTruth
<1>2. QED  BY <1>1, Invariant, PTL

(* A server that stays connected gets a job at the latest after every      *)
(* other server was sent one (_pickConnectedClient).                       *)
THEOREM NoneStarves == Spec => []NoServerStarves
<1>1. Inv => NoServerStarves
  BY DistanceOf, NAssumption DEF Inv, TypeOK, TurnInv, NoServerStarves
<1>2. QED  BY <1>1, Invariant, PTL

(* A job goes to a live connection whenever there is one                   *)
(* (_pickConnectedClient).                                                 *)
THEOREM LiveIsPicked == Spec => SentToLive
<1>1. ASSUME Inv, [Next]_vars, NEW c \in Clients,
             index'[c] # index[c], Reaches(<<c, "client">>)
      PROVE  <<<<c, "client">>, index'[c]>> \in live
  <2>1. PICK k \in 1..N : Send(c, k)
    <3>1. index' # index
      BY <1>1
    <3>2. PICK e \in Clients, k \in 1..N : Send(e, k)
      BY <1>1, <3>1 DEF Next, vars, Opened, Lost, Disconnect
    <3>3. e = c
      BY <1>1, <3>2 DEF Send, Inv, TypeOK
    <3>4. QED  BY <3>2, <3>3
  <2>2. index'[c] = After(index[c], k)
    BY <1>1, <2>1 DEF Send, Inv, TypeOK
  <2>3. PICK s \in Servers : <<<<c, "client">>, s>> \in live
    BY <1>1 DEF Reaches
  <2>4. <<c, "client">> \in connected
    BY <1>1 DEF Inv, CountInv, Halves, Clients
  <2>5. /\ k <= Distance(c, s) /\ Distance(c, s) \in 1..N
        /\ After(index[c], Distance(c, s)) = s
    BY <1>1, <2>1, <2>3, NotPastLive, DistanceOf DEF Inv, Send
  <2>6. CASE k = N
    <3>1. Distance(c, s) = k
      BY <2>5, <2>6, NAssumption
    <3>2. QED  BY <2>2, <2>3, <2>5, <3>1
  <2>7. CASE k # N
    BY <2>1, <2>2, <2>4, <2>7 DEF Send, Picks, Stops
  <2>8. QED  BY <2>6, <2>7
<1>2. Inv /\ [Next]_vars
      => [\A c \in Clients :
            index'[c] # index[c] /\ Reaches(<<c, "client">>)
              => <<<<c, "client">>, index'[c]>> \in live]_vars
  BY <1>1
<1>3. QED  BY <1>2, Invariant, PTL DEF Spec, SentToLive

-----------------------------------------------------------------------------
(* The state of the link of component c.                                   *)
LinkOf(c) == IF c \in closing THEN IF c \in announced THEN "closing" ELSE "closed"
                              ELSE IF c \in announced THEN "up" ELSE "down"

LinkMap == [c \in Components |-> LinkOf(c)]

(* A step of one component is a move of its link, whatever kind it is.     *)
LEMMA MoveOf ==
  ASSUME NEW c \in Components,
         \A d \in Components \ {c} : LinkOf(d)' = LinkOf(d)
  PROVE  LinkMap' = [LinkMap EXCEPT ![c] = LinkOf(c)']
BY DEF LinkMap

LEMMA LinkStep ==
  ASSUME Inv, [Next]_vars
  PROVE  [Link!LinkNext]_LinkMap
<1> USE DEF Link!LinkNext, Link!Up, Link!Down, Link!Told, Link!Gone, Link!Moved
<1>1. ASSUME NEW m \in Halves, NEW s \in Servers, Opened(m, s)
      PROVE  [Link!LinkNext]_LinkMap
  <2>1. m[1] \in Components /\ m[1] \notin closing
    BY <1>1 DEF Halves, Opened, Reconnects
  <2>2. closing' = closing /\ (announced' = announced \/ announced' = announced \cup {m[1]})
    BY <1>1 DEF Opened, Emit, SetConnected
  <2>3. CASE announced' = announced
    BY <2>2, <2>3 DEF LinkMap, LinkOf
  <2>4. CASE announced' = announced \cup {m[1]} /\ m[1] \notin announced
    <3>1. LinkMap[m[1]] = "down" /\ LinkOf(m[1])' = "up"
      BY <2>1, <2>2, <2>4 DEF LinkMap, LinkOf
    <3>2. LinkMap' = [LinkMap EXCEPT ![m[1]] = "up"]
      BY <2>1, <2>2, <2>4, <3>1, MoveOf DEF LinkOf
    <3>3. Link!Up(m[1])
      BY <3>1, <3>2 DEF LinkMap, LinkOf
    <3>4. QED  BY <2>1, <3>3
  <2>5. QED  BY ZenonT(60), <2>2, <2>3, <2>4
<1>2. ASSUME NEW m \in Halves, NEW s \in Servers, Lost(m, s)
      PROVE  [Link!LinkNext]_LinkMap
  <2>1. m[1] \in Components
    BY <1>2 DEF Halves
  <2>2. closing' = closing /\ (announced' = announced \/ announced' = announced \ {m[1]})
    BY <1>2 DEF Lost, Emit, SetConnected
  <2>3. CASE announced' = announced
    BY <2>2, <2>3 DEF LinkMap, LinkOf
  <2>4. CASE announced' = announced \ {m[1]} /\ m[1] \in announced /\ m[1] \in closing
    <3>1. LinkMap[m[1]] = "closing" /\ LinkOf(m[1])' = "closed"
      BY <2>1, <2>2, <2>4 DEF LinkMap, LinkOf
    <3>2. LinkMap' = [LinkMap EXCEPT ![m[1]] = "closed"]
      BY <2>1, <2>2, <2>4, <3>1, MoveOf DEF LinkOf
    <3>3. Link!Gone(m[1])
      BY <3>1, <3>2 DEF LinkMap, LinkOf
    <3>4. QED  BY <2>1, <3>3
  <2>5. CASE announced' = announced \ {m[1]} /\ m[1] \in announced /\ m[1] \notin closing
    <3>1. LinkMap[m[1]] = "up" /\ LinkOf(m[1])' = "down"
      BY <2>1, <2>2, <2>5 DEF LinkMap, LinkOf
    <3>2. LinkMap' = [LinkMap EXCEPT ![m[1]] = "down"]
      BY <2>1, <2>2, <2>5, <3>1, MoveOf DEF LinkOf
    <3>3. Link!Down(m[1])
      BY <3>1, <3>2 DEF LinkMap, LinkOf
    <3>4. QED  BY <2>1, <3>3
  <2>6. QED  BY <2>2, <2>3, <2>4, <2>5
<1>3. ASSUME NEW c \in Components, Disconnect(c)
      PROVE  [Link!LinkNext]_LinkMap
  <2>1. c \notin closing /\ closing' = closing \cup {c} /\ announced' = announced
    BY <1>3 DEF Disconnect
  <2>2. LinkMap' = [LinkMap EXCEPT ![c] = LinkOf(c)']
    BY <2>1, MoveOf DEF LinkOf
  <2>3. CASE c \in announced
    <3>1. LinkMap[c] = "up" /\ LinkOf(c)' = "closing"
      BY <2>1, <2>3 DEF LinkMap, LinkOf
    <3>2. Link!Told(c)
      BY <2>2, <3>1 DEF LinkMap, LinkOf
    <3>3. QED  BY <3>2
  <2>4. CASE c \notin announced
    <3>1. LinkMap[c] = "down" /\ LinkOf(c)' = "closed"
      BY <2>1, <2>4 DEF LinkMap, LinkOf
    <3>2. Link!Told(c)
      BY <2>2, <3>1 DEF LinkMap, LinkOf
    <3>3. QED  BY <3>2
  <2>5. QED  BY <2>3, <2>4
<1>4. CASE UNCHANGED <<closing, announced>>
  BY <1>4 DEF LinkMap, LinkOf
<1>5. QED  BY <1>1, <1>2, <1>3, <1>4 DEF Next, Send, vars

(* The 'connect' and 'disconnect' events of the components are moves of    *)
(* links: no event comes twice in a row, and none but the 'disconnect'     *)
(* that is still due after disconnect() was called (Component).            *)
THEOREM LinkKept == Spec => Link!LinkSafety
<1>1. Init => Link!LinkInit
  BY DEF Init, Link!LinkInit
<1>2. Inv /\ [Next]_vars => [Link!LinkNext]_LinkMap
  BY LinkStep
<1>3. QED  BY <1>1, <1>2, Invariant, PTL DEF Spec, Link!LinkSafety, LinkMap, LinkOf
=============================================================================
