---------------------- MODULE ConnectorGateway_proofs ----------------------
(***************************************************************************)
(* ConnectorGateway for any processes, installations, connections and      *)
(* commands: its types, the routes and what they promise, presence without *)
(* connections, and presence of a connection that is heard of.             *)
(***************************************************************************)
EXTENDS ConnectorGateway, TLAPS

---------------------------------------------------------------------------
LEMMA HomeType ==
    ASSUME NEW c \in Conn
    PROVE  Home(c) \in Installation
  BY GatewayAssumption DEF GatewayAssumption, Home

LEMMA OnlineType ==
    ASSUME PresenceTypeOK, NEW c \in Conn,
           touch(c) \/ UNCHANGED keyVars, UNCHANGED removing
    PROVE  PresenceTypeOK'
  BY HomeType, PresenceAssumption
     DEF PresenceAssumption, PresenceTypeOK, keyVars, touch, online, set

LEMMA AgeType ==
    ASSUME PresenceTypeOK, Age
    PROVE  PresenceTypeOK'
  <1>1. \A i \in Installation :
           presence'[i] \in [conn : Conn \cup {None}, left : 0 .. PresenceTtl]
    BY PresenceAssumption DEF PresenceAssumption, PresenceTypeOK, Age, NoKey
  <1>2. silent' \in [Conn -> 0 .. PresenceTtl]
    BY PresenceAssumption DEF PresenceAssumption, PresenceTypeOK, Age
  <1> QED
    BY <1>1, <1>2 DEF PresenceTypeOK, Age

LEMMA RemoveType ==
    ASSUME PresenceTypeOK, NEW i \in Installation, NEW c \in Conn, RemoveKey(i, c)
    PROVE  PresenceTypeOK'
  BY PresenceAssumption DEF PresenceAssumption, PresenceTypeOK, RemoveKey, NoKey

\* Closing sockets changes no phase but from open to closing.
LEMMA ClosedType ==
    ASSUME socket \in [Conn -> Socket], NEW S
    PROVE  /\ Closed(S) \in [Conn -> Socket]
           /\ \A c \in Conn : /\ Closed(S)[c].at = socket[c].at
                              /\ Closed(S)[c].phase = "free" <=> socket[c].phase = "free"
                              /\ Closed(S)[c].phase = "open" <=>
                                   socket[c].phase = "open" /\ c \notin S
  BY DEF Closed, Socket, SocketPhase

\* A phase is set.
LEMMA PhaseTyped ==
    ASSUME NEW f \in [Conn -> Socket], NEW c \in Conn, NEW x \in SocketPhase
    PROVE  LET g == [f EXCEPT ![c].phase = x] IN
           /\ g \in [Conn -> Socket]
           /\ \A q \in Conn : g[q].at = f[q].at /\ (q # c => g[q] = f[q])
  <1> DEFINE g == [f EXCEPT ![c].phase = x]
  <1>1. f[c] \in Socket /\ g[c] = [phase |-> x, at |-> f[c].at]
    BY DEF Socket
  <1>2. g[c] \in Socket /\ g[c].at = f[c].at
    BY <1>1 DEF Socket
  <1>3. \A q \in Conn : q # c => g[q] = f[q]
    OBVIOUS
  <1> QED
    BY <1>2, <1>3

\* A socket that has been taken names its process.
SocketsHaveHomes == \A c \in Conn : socket[c].phase # "free" => socket[c].at \in Process

LEMMA InitTyped == Init => TypeOK
  BY PresenceAssumption, GatewayAssumption
     DEF PresenceAssumption, GatewayAssumption, Init, PresenceInit, NoKey, TypeOK, PresenceTypeOK, Socket, SocketPhase

\* One more message of c is handled.
LEMMA ReceiveTyped ==
    ASSUME TypeOK, NEW c \in Conn, MayReceive(c), Receive(c)
    PROVE  handling' \in [Conn -> 0 .. MaxHandling]
  BY GatewayAssumption DEF GatewayAssumption, TypeOK, MayReceive, Receive

LEMMA ConnectionTyped ==
    ASSUME TypeOK, NEW c \in Conn, Connection(c)
    PROVE  TypeOK'
  <1>h. Home(c) \in Installation
    BY HomeType
  <1>1. ASSUME NEW p \in Process, handleUpgrade(c, p) PROVE TypeOK'
    BY <1>1 DEF TypeOK, handleUpgrade, presenceVars, keyVars, PresenceTypeOK, Socket, SocketPhase
  <1>2. CASE refuse(c)
    BY <1>2 DEF TypeOK, refuse, presenceVars, keyVars, PresenceTypeOK, Socket, SocketPhase
  <1>3. CASE bind(c)
    <2>1. PresenceTypeOK'
      BY <1>3, OnlineType DEF bind, TypeOK, touch
    <2>2. /\ socket' \in [Conn -> Socket]
          /\ SocketsHaveHomes'
      <3> DEFINE T == Closed({connections[socket[c].at][Home(c)]})
      <3> HIDE DEF T
      <3>1. /\ T \in [Conn -> Socket]
            /\ \A q \in Conn : /\ T[q].at = socket[q].at
                               /\ T[q].phase = "free" <=> socket[q].phase = "free"
        BY ClosedType DEF T, TypeOK
      <3>2. socket' = [T EXCEPT ![c].phase = "open"] /\ socket[c].phase = "lookup"
        BY <1>3 DEF bind, Bound, T
      <3>3. "open" \in SocketPhase
        BY DEF SocketPhase
      <3>4. /\ socket' \in [Conn -> Socket]
            /\ \A q \in Conn : socket'[q].at = T[q].at /\ (q # c => socket'[q] = T[q])
        BY <3>1, <3>2, <3>3, PhaseTyped
      <3>5. \A q \in Conn : socket[q].phase # "free" => socket[q].at \in Process
        BY DEF TypeOK
      <3>6. ASSUME NEW q \in Conn, socket'[q].phase # "free" PROVE socket'[q].at \in Process
        <4>1. socket'[q].at = socket[q].at
          BY <3>1, <3>4
        <4>2. socket[q].phase # "free"
          <5>1. CASE q = c
            BY <5>1, <3>2
          <5>2. CASE q # c
            <6>1. socket'[q] = T[q]
              BY <5>2, <3>4
            <6>2. T[q].phase # "free"
              BY <6>1, <3>6
            <6> QED
              BY <6>2, <3>1
          <5> QED
            BY <5>1, <5>2
        <4> QED
          BY <4>1, <4>2, <3>5
      <3> QED
        BY <3>4, <3>6 DEF SocketsHaveHomes
    <2>3. connections' \in [Process -> [Installation -> Conn \cup {None}]]
      BY <1>3, <1>h DEF bind, TypeOK
    <2>4. UNCHANGED <<process, handling, delivered>>
      BY <1>3 DEF bind
    <2> QED
      BY <2>1, <2>2, <2>3, <2>4 DEF TypeOK, SocketsHaveHomes
  <1>4. CASE heartbeat(c)
    BY <1>4, OnlineType DEF heartbeat, TypeOK, gatewayVars
  <1>5. CASE heartbeatFails(c)
    <2>1. PresenceTypeOK'
      BY <1>5, OnlineType DEF heartbeatFails, TypeOK
    <2> QED
      BY <1>5, <2>1, ClosedType DEF heartbeatFails, TypeOK
  <1>6. CASE receiveData(c)
    BY <1>6, ReceiveTyped DEF TypeOK, receiveData, presenceVars, keyVars, PresenceTypeOK
  <1>7. CASE onClose(c)
    <2>1. PresenceTypeOK'
      BY <1>7, <1>h DEF onClose, readOffline, TypeOK, PresenceTypeOK, keyVars
    <2>2. socket' \in [Conn -> Socket] /\ SocketsHaveHomes'
      BY <1>7 DEF onClose, Attached, TypeOK, Socket, SocketPhase, SocketsHaveHomes
    <2>3. connections' \in [Process -> [Installation -> Conn \cup {None}]]
      BY <1>7, <1>h DEF onClose, TypeOK
    <2> QED
      BY <1>7, <2>1, <2>2, <2>3 DEF onClose, TypeOK, SocketsHaveHomes
  <1>8. ASSUME NEW m \in Command, receiveResult(c, m) PROVE TypeOK'
    BY <1>8, ReceiveTyped DEF TypeOK, receiveResult, presenceVars, keyVars, PresenceTypeOK
  <1> QED
    BY <1>1, <1>2, <1>3, <1>4, <1>5, <1>6, <1>7, <1>8 DEF Connection

LEMMA FinishTyped ==
    ASSUME TypeOK, NEW c \in Conn, finishMessage(c)
    PROVE  TypeOK'
  <1>1. PresenceTypeOK'
    BY OnlineType DEF finishMessage, TypeOK
  <1>2. socket' \in [Conn -> Socket] /\ SocketsHaveHomes'
    BY ClosedType DEF finishMessage, TypeOK, SocketsHaveHomes
  <1>3. handling' \in [Conn -> 0 .. MaxHandling]
    BY GatewayAssumption DEF GatewayAssumption, finishMessage, TypeOK
  <1>4. UNCHANGED <<process, connections, delivered>>
    BY DEF finishMessage
  <1> QED
    BY <1>1, <1>2, <1>3, <1>4 DEF TypeOK, SocketsHaveHomes

LEMMA EndTyped ==
    ASSUME TypeOK, NEW p \in Process, EndProcess(p)
    PROVE  TypeOK'
  <1>1. socket' \in [Conn -> Socket] /\ SocketsHaveHomes'
    <2>1. \A q \in Conn : [socket[q] EXCEPT !.phase = "gone"] =
                           [phase |-> "gone", at |-> socket[q].at]
      BY DEF TypeOK, Socket
    <2>2. \A q \in Conn : socket[q] \in Socket /\ socket[q].at \in Process \cup {None}
      BY DEF TypeOK, Socket
    <2>3. socket' = [q \in Conn |-> IF q \in ConnsAt(p)
                                    THEN [phase |-> "gone", at |-> socket[q].at] ELSE socket[q]]
      BY <2>1 DEF EndProcess
    <2>4. \A q \in Conn : socket'[q] \in Socket
      BY <2>2, <2>3 DEF Socket, SocketPhase
    <2>5. socket' \in [Conn -> Socket]
      BY <2>3, <2>4
    <2>6. \A q \in ConnsAt(p) : socket[q].at \in Process
      BY DEF ConnsAt
    <2> QED
      BY <2>3, <2>5, <2>6 DEF TypeOK, SocketsHaveHomes
  <1>2. PresenceTypeOK'
    BY DEF EndProcess, keyVars, TypeOK, PresenceTypeOK
  <1>3. handling' \in [Conn -> 0 .. MaxHandling] /\ delivered' \subseteq Conn \X Command
    BY GatewayAssumption DEF GatewayAssumption, EndProcess, TypeOK
  <1>4. /\ process' \in [Process -> {"up", "unsubscribing", "draining", "down"}]
        /\ connections' \in [Process -> [Installation -> Conn \cup {None}]]
    BY DEF EndProcess, TypeOK
  <1> QED
    BY <1>1, <1>2, <1>3, <1>4 DEF TypeOK, SocketsHaveHomes

LEMMA LifetimeTyped ==
    ASSUME TypeOK, NEW p \in Process, Lifetime(p)
    PROVE  TypeOK'
  <1>1. CASE close(p)
    <2>1. socket' \in [Conn -> Socket] /\ SocketsHaveHomes'
      BY <1>1, ClosedType DEF close, TypeOK, SocketsHaveHomes
    <2>2. /\ process' \in [Process -> {"up", "unsubscribing", "draining", "down"}]
          /\ connections' \in [Process -> [Installation -> Conn \cup {None}]]
      BY <1>1 DEF close, TypeOK
    <2>3. UNCHANGED <<presence, silent, removing, handling, delivered>>
      BY <1>1 DEF close, presenceVars, keyVars
    <2> QED
      BY <2>1, <2>2, <2>3 DEF TypeOK, PresenceTypeOK, SocketsHaveHomes
  <1>2. CASE drain(p)
    BY <1>2 DEF drain, TypeOK, presenceVars, keyVars, PresenceTypeOK
  <1>3. CASE exit(p) \/ crash(p)
    BY <1>3, EndTyped DEF exit, crash
  <1> QED
    BY <1>1, <1>2, <1>3 DEF Lifetime

LEMMA StepTyped ==
    ASSUME TypeOK, [Next]_vars
    PROVE  TypeOK'
  <1>1. ASSUME NEW c \in Conn, Connection(c) PROVE TypeOK'
    BY <1>1, ConnectionTyped
  <1>2. ASSUME NEW c \in Conn, finishMessage(c) PROVE TypeOK'
    BY <1>2, FinishTyped
  <1>3. CASE Routing
    BY <1>3 DEF Routing, routeCommand, TypeOK, presenceVars, keyVars, PresenceTypeOK, gatewayVars
  <1>4. ASSUME NEW p \in Process, Lifetime(p) PROVE TypeOK'
    BY <1>4, LifetimeTyped
  <1>5. CASE removeKey
    BY <1>5, RemoveType DEF removeKey, TypeOK, gatewayVars
  <1>6. CASE tick
    BY <1>6, AgeType DEF tick, TypeOK, gatewayVars
  <1>7. CASE UNCHANGED vars
    BY <1>7 DEF vars, TypeOK, presenceVars, keyVars, PresenceTypeOK, gatewayVars
  <1> QED
    BY <1>1, <1>2, <1>3, <1>4, <1>5, <1>6, <1>7 DEF Next

(***************************************************************************)
(* Every variable of the gateways keeps its type; a socket in use names    *)
(* the process it is attached to.                                          *)
(***************************************************************************)
THEOREM GatewayTypeCorrect == Spec => []TypeOK
  BY InitTyped, StepTyped, PTL DEF Spec

---------------------------------------------------------------------------
\* A step that changes neither the map nor opens a socket keeps the routes.
LEMMA RoutesKept ==
    ASSUME OpenIsRouted, UNCHANGED connections,
           \A c \in Conn : socket'[c].phase = "open" =>
             socket[c].phase = "open" /\ socket'[c].at = socket[c].at
    PROVE  OpenIsRouted'
  BY DEF OpenIsRouted, Home

LEMMA BindRoutes ==
    ASSUME TypeOK, OpenIsRouted, NEW c \in Conn, bind(c)
    PROVE  OpenIsRouted'
  <1> DEFINE p == socket[c].at
  <1>1. p \in Process /\ Home(c) \in Installation
    BY HomeType DEF bind, TypeOK
  <1>2. \A b \in Conn : socket'[b].phase = "open" =>
          /\ socket'[b].at = socket[b].at
          /\ b # c => socket[b].phase = "open" /\ b # connections[p][Home(c)]
    BY ClosedType DEF bind, Bound, TypeOK, Socket, SocketPhase
  <1>3. SUFFICES ASSUME NEW b \in Conn, socket'[b].phase = "open"
                 PROVE  connections'[socket'[b].at][Home(b)] = b
    BY DEF OpenIsRouted, Home
  <1>4. CASE b = c
    BY <1>1, <1>2, <1>3, <1>4 DEF bind, TypeOK
  <1>5. CASE b # c
    <2>1. /\ connections[socket[b].at][Home(b)] = b
          /\ socket[b].at \in Process /\ Home(b) \in Installation
      BY <1>2, <1>3, <1>5, HomeType DEF OpenIsRouted, TypeOK
    <2>2. socket[b].at = p => Home(b) # Home(c)
      BY <2>1, <1>2, <1>3, <1>5
    <2> QED
      BY <1>1, <1>2, <1>3, <2>1, <2>2 DEF bind, TypeOK
  <1> QED
    BY <1>4, <1>5

LEMMA ConnectionRoutes ==
    ASSUME TypeOK, OpenIsRouted, NEW c \in Conn, Connection(c)
    PROVE  OpenIsRouted'
  <1>1. ASSUME NEW p \in Process, handleUpgrade(c, p) PROVE OpenIsRouted'
    BY <1>1, RoutesKept DEF handleUpgrade, TypeOK, Socket
  <1>2. CASE refuse(c)
    BY <1>2, RoutesKept DEF refuse, TypeOK, Socket
  <1>3. CASE bind(c)
    BY <1>3, BindRoutes
  <1>4. CASE heartbeat(c)
    BY <1>4, RoutesKept DEF heartbeat, gatewayVars
  <1>5. CASE heartbeatFails(c)
    BY <1>5, RoutesKept, ClosedType DEF heartbeatFails, TypeOK
  <1>6. CASE receiveData(c)
    BY <1>6, RoutesKept DEF receiveData
  <1>7. CASE onClose(c)
    <2>1. SUFFICES ASSUME NEW b \in Conn, socket'[b].phase = "open"
                   PROVE  connections'[socket'[b].at][Home(b)] = b
      BY DEF OpenIsRouted, Home
    <2>2. b # c /\ socket[b].phase = "open" /\ socket'[b].at = socket[b].at
      BY <1>7, <2>1 DEF onClose, TypeOK, Socket
    <2>3. connections[socket[b].at][Home(b)] = b
      BY <2>2 DEF OpenIsRouted
    <2>4. /\ socket[c].at \in Process /\ socket[b].at \in Process
          /\ Home(c) \in Installation /\ Home(b) \in Installation
      BY <1>7, <2>2, HomeType DEF onClose, Attached, TypeOK
    <2>5. CASE IsCurrent(c)
      <3>1. socket[b].at = socket[c].at => Home(b) # Home(c)
        BY <2>2, <2>3, <2>5 DEF IsCurrent
      <3> QED
        BY <1>7, <2>2, <2>3, <2>4, <2>5, <3>1 DEF onClose, TypeOK
    <2>6. CASE ~IsCurrent(c)
      BY <1>7, <2>2, <2>3, <2>6 DEF onClose
    <2> QED
      BY <2>5, <2>6
  <1>8. ASSUME NEW m \in Command, receiveResult(c, m) PROVE OpenIsRouted'
    BY <1>8, RoutesKept DEF receiveResult
  <1> QED
    BY <1>1, <1>2, <1>3, <1>4, <1>5, <1>6, <1>7, <1>8 DEF Connection

LEMMA LifetimeRoutes ==
    ASSUME TypeOK, OpenIsRouted, NEW p \in Process, Lifetime(p)
    PROVE  OpenIsRouted'
  <1>1. SUFFICES ASSUME NEW b \in Conn, socket'[b].phase = "open"
                 PROVE  connections'[socket'[b].at][Home(b)] = b
    BY DEF OpenIsRouted, Home
  <1>h. Home(b) \in Installation
    BY HomeType
  <1>2. CASE close(p)
    <2>1. /\ socket[b].phase = "open" /\ socket'[b].at = socket[b].at
          /\ b \notin {connections[p][i] : i \in Installation}
      BY <1>1, <1>2, ClosedType DEF close, TypeOK
    <2>2. connections[socket[b].at][Home(b)] = b /\ socket[b].at \in Process
      BY <2>1 DEF OpenIsRouted, TypeOK
    <2>3. socket[b].at # p
      BY <2>1, <2>2, <1>h
    <2> QED
      BY <1>2, <2>1, <2>2, <2>3 DEF close, TypeOK
  <1>3. CASE drain(p)
    BY <1>1, <1>3 DEF drain, OpenIsRouted
  <1>4. CASE exit(p) \/ crash(p)
    <2>0. EndProcess(p)
      BY <1>4 DEF exit, crash
    <2>1. socket[b].phase = "open" /\ socket'[b].at = socket[b].at /\ socket[b].at # p
      BY <1>1, <2>0 DEF EndProcess, ConnsAt, TypeOK, Socket
    <2>2. connections[socket[b].at][Home(b)] = b /\ socket[b].at \in Process
      BY <2>1 DEF OpenIsRouted, TypeOK
    <2> QED
      BY <2>0, <2>1, <2>2 DEF EndProcess, TypeOK
  <1> QED
    BY <1>2, <1>3, <1>4 DEF Lifetime

LEMMA StepRoutes ==
    ASSUME TypeOK, OpenIsRouted, [Next]_vars
    PROVE  OpenIsRouted'
  <1>1. ASSUME NEW c \in Conn, Connection(c) PROVE OpenIsRouted'
    BY <1>1, ConnectionRoutes
  <1>2. ASSUME NEW c \in Conn, finishMessage(c) PROVE OpenIsRouted'
    BY <1>2, RoutesKept, ClosedType DEF finishMessage, TypeOK
  <1>3. CASE Routing
    BY <1>3, RoutesKept DEF Routing, routeCommand, gatewayVars
  <1>4. ASSUME NEW p \in Process, Lifetime(p) PROVE OpenIsRouted'
    BY <1>4, LifetimeRoutes
  <1>5. CASE removeKey \/ tick \/ UNCHANGED vars
    BY <1>5, RoutesKept DEF removeKey, tick, vars, gatewayVars
  <1> QED
    BY <1>1, <1>2, <1>3, <1>4, <1>5 DEF Next

(***************************************************************************)
(* In every process, an open socket is the one the map names for its       *)
(* installation: superseding, late close events, shutdown and crashes      *)
(* leave no socket open that commands are not routed to.                   *)
(***************************************************************************)
THEOREM OpenSocketsAreRouted == Spec => []OpenIsRouted
  <1>1. Init => OpenIsRouted
    BY DEF Init, OpenIsRouted
  <1> QED
    BY <1>1, GatewayTypeCorrect, StepRoutes, PTL DEF Spec

---------------------------------------------------------------------------
\* A step that leaves the map alone and keeps every attached socket attached to
\* its process keeps the map's names attached.
LEMMA LeadsKept ==
    ASSUME RoutesLeadHome, UNCHANGED connections,
           \A c \in Conn : Attached(c) => Attached(c)' /\ socket'[c].at = socket[c].at
    PROVE  RoutesLeadHome'
  BY DEF RoutesLeadHome, Home

\* Closing a socket, in the gateway's sense, leaves it attached.
LEMMA ClosedAttached ==
    ASSUME TypeOK, NEW S, NEW c \in Conn, socket' = Closed(S)
    PROVE  Attached(c)' <=> Attached(c)
  BY DEF TypeOK, Closed, Attached, Socket, SocketPhase

\* A route that is kept by a step that keeps its socket attached.
LEMMA LeadKept ==
    ASSUME RoutesLeadHome, NEW p \in Process, NEW i \in Installation, NEW c \in Conn,
           connections[p][i] = c,
           Attached(c) => Attached(c)' /\ socket'[c].at = socket[c].at
    PROVE  Attached(c)' /\ socket'[c].at = p /\ Home(c) = i
  BY DEF RoutesLeadHome

LEMMA ConnectionLeads ==
    ASSUME TypeOK, RoutesLeadHome, NEW c \in Conn, Connection(c)
    PROVE  RoutesLeadHome'
  <1>0. socket \in [Conn -> Socket] /\ None \notin Conn
    BY PresenceAssumption DEF PresenceAssumption, TypeOK
  <1>1. CASE (\E p \in Process : handleUpgrade(c, p)) \/ refuse(c)
    <2>1. ~ Attached(c) /\ \A b \in Conn \ {c} : socket'[b] = socket[b]
      BY <1>0, <1>1 DEF handleUpgrade, refuse, Attached
    <2>2. UNCHANGED connections
      BY <1>1 DEF handleUpgrade, refuse
    <2> QED
      BY <1>0, <2>1, <2>2, LeadsKept DEF Attached
  <1>2. CASE bind(c)
    <2> DEFINE p == socket[c].at
    <2>1. p \in Process /\ Home(c) \in Installation
      BY <1>2, HomeType DEF bind, TypeOK
    <2>2. socket'[c].phase = "open" /\ socket'[c].at = p
      BY <1>0, <1>2, ClosedType DEF bind, Bound, Socket
    <2>3. ASSUME NEW b \in Conn, Attached(b)
          PROVE  Attached(b)' /\ socket'[b].at = socket[b].at
      BY <1>0, <1>2, <2>3 DEF bind, Bound, Closed, Attached, Socket
    <2>4. SUFFICES ASSUME NEW q \in Process, NEW i \in Installation, NEW b \in Conn,
                          connections'[q][i] = b
                   PROVE  Attached(b)' /\ socket'[b].at = q /\ Home(b) = i
      BY DEF RoutesLeadHome, Home
    <2>5. CASE q = p /\ i = Home(c)
      <3>1. b = c
        BY <1>2, <2>1, <2>4, <2>5 DEF bind, TypeOK
      <3> QED
        BY <2>2, <2>5, <3>1 DEF Attached
    <2>6. CASE ~(q = p /\ i = Home(c))
      <3>1. connections[q][i] = b
        BY <1>2, <2>1, <2>4, <2>6 DEF bind, TypeOK
      <3> QED
        BY <2>3, <3>1, LeadKept
    <2> QED
      BY <2>5, <2>6
  <1>3. CASE heartbeat(c) \/ receiveData(c) \/ \E m \in Command : receiveResult(c, m)
    <2>1. UNCHANGED <<connections, socket>>
      BY <1>3 DEF heartbeat, receiveData, receiveResult, gatewayVars
    <2> QED
      BY <2>1, LeadsKept DEF Attached
  <1>4. CASE heartbeatFails(c)
    BY <1>0, <1>4, LeadsKept, ClosedAttached, ClosedType DEF heartbeatFails
  <1>5. CASE onClose(c)
    <2>1. ASSUME NEW b \in Conn \ {c}, Attached(b)
          PROVE  Attached(b)' /\ socket'[b].at = socket[b].at
      BY <1>0, <1>5, <2>1 DEF onClose, Attached
    <2>2. SUFFICES ASSUME NEW q \in Process, NEW i \in Installation, NEW b \in Conn,
                          connections'[q][i] = b
                   PROVE  Attached(b)' /\ socket'[b].at = q /\ Home(b) = i
      BY DEF RoutesLeadHome, Home
    <2>3. socket[c].at \in Process /\ Home(c) \in Installation
      BY <1>5, HomeType DEF onClose, Attached, TypeOK
    <2>4. connections[q][i] = b /\ b # c
      <3>1. CASE IsCurrent(c)
        <4>1. connections'[socket[c].at][Home(c)] = None
          BY <1>5, <2>3, <3>1 DEF onClose, TypeOK
        <4>2. ~(q = socket[c].at /\ i = Home(c))
          BY <1>0, <2>2, <4>1
        <4>3. connections'[q][i] = connections[q][i]
          BY <1>5, <2>3, <3>1, <4>2 DEF onClose, TypeOK
        <4> QED
          BY <1>0, <2>2, <4>2, <4>3 DEF RoutesLeadHome
      <3>2. CASE ~IsCurrent(c)
        <4>1. connections' = connections
          BY <1>5, <3>2 DEF onClose
        <4> QED
          BY <1>0, <2>2, <3>2, <4>1 DEF RoutesLeadHome, IsCurrent
      <3> QED
        BY <3>1, <3>2
    <2> QED
      BY <2>1, <2>4, LeadKept
  <1> QED
    BY <1>1, <1>2, <1>3, <1>4, <1>5 DEF Connection

LEMMA LifetimeLeads ==
    ASSUME TypeOK, RoutesLeadHome, NEW p \in Process, Lifetime(p)
    PROVE  RoutesLeadHome'
  <1>0. socket \in [Conn -> Socket] /\ None \notin Conn
    BY PresenceAssumption DEF PresenceAssumption, TypeOK
  <1>1. CASE drain(p)
    BY <1>1, LeadsKept DEF drain, Attached
  <1>2. CASE close(p) \/ exit(p) \/ crash(p)
    <2>1. connections' = [connections EXCEPT ![p] = [i \in Installation |-> None]]
      BY <1>2 DEF close, exit, crash, EndProcess
    <2>2. ASSUME NEW b \in Conn, Attached(b), socket[b].at # p
          PROVE  Attached(b)' /\ socket'[b].at = socket[b].at
      <3>1. CASE close(p)
        BY <1>0, <2>2, <3>1, ClosedAttached, ClosedType DEF close
      <3>2. CASE exit(p) \/ crash(p)
        BY <1>0, <2>2, <3>2 DEF exit, crash, EndProcess, ConnsAt, Attached
      <3> QED
        BY <1>2, <3>1, <3>2
    <2>3. ASSUME NEW q \in Process, NEW i \in Installation, NEW b \in Conn,
                 connections'[q][i] = b
          PROVE  Attached(b)' /\ socket'[b].at = q /\ Home(b) = i
      <3>1. q # p /\ connections[q][i] = b
        BY <1>0, <2>1, <2>3 DEF TypeOK
      <3>2. socket[b].at # p
        BY <3>1 DEF RoutesLeadHome
      <3> QED
        BY <2>2, <3>1, <3>2, LeadKept
    <2> QED
      BY <2>3 DEF RoutesLeadHome, Home
  <1> QED
    BY <1>1, <1>2 DEF Lifetime

LEMMA StepLeads ==
    ASSUME TypeOK, RoutesLeadHome, [Next]_vars
    PROVE  RoutesLeadHome'
  <1>1. ASSUME NEW c \in Conn, finishMessage(c) PROVE RoutesLeadHome'
    <2>1. UNCHANGED connections
      BY <1>1 DEF finishMessage
    <2>2. CASE UNCHANGED socket
      BY <2>1, <2>2, LeadsKept DEF Attached
    <2>3. CASE socket' = Closed({c})
      BY <2>1, <2>3, LeadsKept, ClosedAttached, ClosedType DEF TypeOK
    <2> QED
      BY <1>1, <2>2, <2>3 DEF finishMessage
  <1>2. CASE Routing \/ removeKey \/ tick \/ UNCHANGED vars
    <2>1. UNCHANGED <<connections, socket>>
      BY <1>2 DEF Routing, routeCommand, removeKey, tick, vars, gatewayVars
    <2> QED
      BY <2>1, LeadsKept DEF Attached
  <1> QED
    BY <1>1, <1>2, ConnectionLeads, LifetimeLeads DEF Next

(***************************************************************************)
(* The maps and the sockets agree: a socket is open only where commands    *)
(* are routed to it, and a route leads to a socket of its own process and  *)
(* installation whose close event is still to come.                        *)
(***************************************************************************)
THEOREM RoutesAlwaysMatch == Spec => []RoutesMatch
  <1>1. Init => RoutesLeadHome
    BY PresenceAssumption DEF PresenceAssumption, Init, RoutesLeadHome
  <1>2. Spec => []RoutesLeadHome
    BY <1>1, GatewayTypeCorrect, StepLeads, PTL DEF Spec
  <1>3. OpenIsRouted /\ RoutesLeadHome => RoutesMatch
    BY DEF RoutesMatch
  <1> QED
    BY <1>2, <1>3, OpenSocketsAreRouted, PTL

---------------------------------------------------------------------------
(***************************************************************************)
(* One step of the gateways is a step, or a stutter, of the ownership.     *)
(***************************************************************************)

Routed(c) == \E p \in Process, i \in Installation : connections[p][i] = c

\* The connections the ownership calls spent.
Finished(c) == socket[c].phase \in {"closing", "gone"} /\ ~ Routed(c)

\* A step that changes no route, finishes nobody and sends nothing.
LEMMA OwnershipDrops ==
    ASSUME UNCHANGED connections, delivered' \subseteq delivered,
           \A c \in Conn : ~ Routed(c) =>
             (socket'[c].phase \in {"closing", "gone"} <=> socket[c].phase \in {"closing", "gone"})
    PROVE  Ownership!Next
  <1>1. {c \in Conn : /\ socket'[c].phase \in {"closing", "gone"}
                      /\ \A p \in Process, i \in Installation : connections'[p][i] # c}
        = {c \in Conn : /\ socket[c].phase \in {"closing", "gone"}
                        /\ \A p \in Process, i \in Installation : connections[p][i] # c}
    BY DEF Routed
  <1>2. Ownership!Drop
    BY <1>1 DEF Ownership!Drop
  <1> QED
    BY <1>2 DEF Ownership!Next

\* The connections of S end.
LEMMA OwnershipEnds ==
    ASSUME NEW S \in SUBSET Conn, delivered' \subseteq delivered,
           \A p \in Process, i \in Installation :
             connections'[p][i] = IF connections[p][i] \in S THEN None ELSE connections[p][i],
           \A c \in Conn : Finished(c)' <=> Finished(c) \/ c \in S
    PROVE  Ownership!Next
  <1>1. {c \in Conn : /\ socket'[c].phase \in {"closing", "gone"}
                      /\ \A p \in Process, i \in Installation : connections'[p][i] # c}
        = {c \in Conn : /\ socket[c].phase \in {"closing", "gone"}
                        /\ \A p \in Process, i \in Installation : connections[p][i] # c} \cup S
    BY DEF Finished, Routed
  <1>2. Ownership!End(S)
    BY <1>1 DEF Ownership!End
  <1> QED
    BY <1>2 DEF Ownership!Next

GatewayInv == TypeOK /\ RoutesMatch

\* Only an attached connection is routed, and only on the route of its home.
LEMMA RoutedAtHome ==
    ASSUME GatewayInv, NEW c \in Conn
    PROVE  /\ Routed(c) <=> Attached(c) /\ connections[socket[c].at][Home(c)] = c
           /\ socket[c].phase = "open" => Routed(c)
  <1>1. Attached(c) => socket[c].at \in Process /\ Home(c) \in Installation
    BY HomeType DEF GatewayInv, TypeOK, Attached
  <1> QED
    BY <1>1 DEF GatewayInv, RoutesMatch, OpenIsRouted, RoutesLeadHome, Routed, Attached

\* A failed message or heartbeat closes a socket that keeps its route.
LEMMA ClosingKeepsRoute ==
    ASSUME GatewayInv, NEW c \in Conn, UNCHANGED <<connections, delivered>>,
           socket' = Closed({c}) \/ UNCHANGED socket
    PROVE  Ownership!Next
  <1>1. CASE UNCHANGED socket
    BY <1>1, OwnershipDrops
  <1>2. CASE socket' = Closed({c})
    <2>1. ASSUME NEW b \in Conn, ~ Routed(b) PROVE socket'[b] = socket[b]
      BY <1>2, <2>1, RoutedAtHome DEF Closed
    <2> QED
      BY <2>1, OwnershipDrops
  <1> QED
    BY <1>1, <1>2

LEMMA BindTakes ==
    ASSUME GatewayInv, GatewayInv', NEW c \in Conn, bind(c)
    PROVE  Ownership!Next
  <1>p. PICK p \in Process : p = socket[c].at
    BY DEF bind, GatewayInv, TypeOK
  <1> DEFINE r == <<p, Home(c)>>
             old == connections[p][Home(c)]
             own == [x \in Process \X Installation |-> connections[x[1]][x[2]]]
             spent == {b \in Conn : /\ socket[b].phase \in {"closing", "gone"}
                                    /\ \A q \in Process, i \in Installation : connections[q][i] # b}
  <1>0. /\ socket \in [Conn -> Socket] /\ None \notin Conn
        /\ connections \in [Process -> [Installation -> Conn \cup {None}]]
    BY PresenceAssumption DEF PresenceAssumption, GatewayInv, TypeOK
  <1>1. p = socket[c].at /\ Home(c) \in Installation /\ socket[c].phase = "lookup"
    BY <1>p, HomeType DEF bind, GatewayInv, TypeOK
  <1>2. ~ Routed(c)
    BY <1>1, RoutedAtHome DEF Attached
  <1>3. connections' = [connections EXCEPT ![p][Home(c)] = c]
    BY <1>1 DEF bind
  <1>4. \A q \in Process, i \in Installation :
          connections'[q][i] = IF q = p /\ i = Home(c) THEN c ELSE connections[q][i]
    BY <1>0, <1>1, <1>3
  <1>5. own' = [own EXCEPT ![r] = c]
    <2>1. ASSUME NEW x \in Process \X Installation
          PROVE  connections'[x[1]][x[2]] = IF x = r THEN c ELSE connections[x[1]][x[2]]
      <3>1. x[1] \in Process /\ x[2] \in Installation /\ x = <<x[1], x[2]>>
        OBVIOUS
      <3>2. x = r <=> x[1] = p /\ x[2] = Home(c)
        BY <3>1
      <3> QED
        BY <1>4, <3>1, <3>2
    <2> QED
      BY <2>1
  <1>6. old \in Conn \cup {None} /\ own[r] = old /\ r \in Process \X Installation
    BY <1>0, <1>1
  <1>7. \A b \in Conn \ {c} : socket'[b] = Closed({old})[b]
    BY <1>0, <1>1 DEF bind, Bound, Closed
  <1>8. socket'[c].phase = "open"
    BY <1>0, ClosedType DEF bind, Bound, Socket
  <1>9. ASSUME NEW b \in Conn
        PROVE  Finished(b)' <=> Finished(b) \/ b = old
    <2>1. CASE b = c
      <3>1. b # old
        BY <1>1, <1>2, <2>1 DEF Routed
      <3> QED
        BY <1>1, <1>8, <2>1, <3>1 DEF Finished
    <2>2. CASE b # c /\ b = old
      <3>1. Attached(b) /\ p = socket[b].at /\ Home(b) = Home(c)
        BY <1>1, <2>2 DEF GatewayInv, RoutesMatch, RoutesLeadHome
      <3>2. \A q \in Process, i \in Installation : connections'[q][i] # b
        <4>1. ASSUME NEW q \in Process, NEW i \in Installation, connections[q][i] = b
              PROVE  q = p /\ i = Home(c)
          BY <3>1, <4>1 DEF GatewayInv, RoutesMatch, RoutesLeadHome
        <4> QED
          BY <1>4, <2>2, <4>1
      <3>3. socket'[b].phase = "closing"
        <4>1. socket[b] \in Socket /\ socket[b].phase \in {"open", "closing"}
          BY <1>0, <3>1 DEF Attached
        <4> QED
          BY <1>7, <2>2, <4>1 DEF Closed, Socket
      <3> QED
        BY <2>2, <3>2, <3>3 DEF Finished, Routed
    <2>3. CASE b # c /\ b # old
      <3>1. socket'[b] = socket[b]
        BY <1>7, <2>3 DEF Closed
      <3>2. Routed(b)' <=> Routed(b)
        BY <1>1, <1>4, <2>3 DEF Routed
      <3> QED
        BY <2>3, <3>1, <3>2 DEF Finished
    <2> QED
      BY <2>1, <2>2, <2>3
  <1>10. spent' = spent \cup ({own[r]} \ {None})
    BY <1>0, <1>6, <1>9 DEF Finished, Routed
  <1>11. c \notin spent /\ \A q \in Process \X Installation : own[q] # c
    <2>1. c \notin spent
      BY <1>1
    <2> QED
      BY <1>2, <2>1 DEF Routed
  <1>12. Ownership!Take(r, c)
    BY <1>5, <1>10, <1>11 DEF bind, Ownership!Take
  <1> QED
    <2>1. r \in Process \X Installation
      BY <1>6
    <2> HIDE DEF r
    <2> QED
      BY <1>12, <2>1 DEF Ownership!Next

LEMMA ConnectionOwns ==
    ASSUME GatewayInv, GatewayInv', NEW c \in Conn, Connection(c)
    PROVE  [Ownership!Next]_(Ownership!vars)
  <1>0. /\ socket \in [Conn -> Socket] /\ None \notin Conn
        /\ connections \in [Process -> [Installation -> Conn \cup {None}]]
    BY PresenceAssumption DEF PresenceAssumption, GatewayInv, TypeOK
  <1>1. ASSUME NEW p \in Process, handleUpgrade(c, p) PROVE Ownership!Next
    <2>1. \A b \in Conn : \/ socket'[b] = socket[b]
                          \/ socket[b].phase = "free" /\ socket'[b].phase = "lookup"
      BY <1>0, <1>1 DEF handleUpgrade
    <2>2. UNCHANGED <<connections, delivered>>
      BY <1>1 DEF handleUpgrade
    <2> QED
      BY <2>1, <2>2, OwnershipDrops
  <1>2. CASE refuse(c) \/ onClose(c)
    <2>1. socket'[c].phase = "gone" /\ \A b \in Conn \ {c} : socket'[b] = socket[b]
      BY <1>0, <1>2 DEF refuse, onClose, Socket
    <2>2. \A p \in Process, i \in Installation :
            connections'[p][i] = IF connections[p][i] = c THEN None ELSE connections[p][i]
      <3>1. CASE Routed(c)
        <4>1. /\ onClose(c) /\ IsCurrent(c)
              /\ socket[c].at \in Process /\ Home(c) \in Installation
          BY <1>2, <3>1, RoutedAtHome, HomeType
             DEF refuse, Attached, IsCurrent, GatewayInv, TypeOK
        <4>2. connections' = [connections EXCEPT ![socket[c].at][Home(c)] = None]
          BY <4>1 DEF onClose
        <4>3. \A p \in Process, i \in Installation :
                connections[p][i] = c <=> p = socket[c].at /\ i = Home(c)
          BY <4>1 DEF GatewayInv, RoutesMatch, RoutesLeadHome, IsCurrent
        <4> QED
          BY <1>0, <4>1, <4>2, <4>3
      <3>2. CASE ~ Routed(c)
        <4>1. ~(onClose(c) /\ IsCurrent(c))
          BY <3>2, HomeType DEF Routed, IsCurrent, onClose, Attached, GatewayInv, TypeOK
        <4>2. UNCHANGED connections
          BY <1>2, <4>1 DEF refuse, onClose
        <4> QED
          BY <3>2, <4>2 DEF Routed
      <3> QED
        BY <3>1, <3>2
    <2>3. ASSUME NEW b \in Conn PROVE Finished(b)' <=> Finished(b) \/ b = c
      <3>1. CASE b = c
        BY <1>0, <2>1, <2>2, <3>1 DEF Finished, Routed
      <3>2. CASE b # c
        <4>1. Routed(b)' <=> Routed(b)
          BY <1>0, <2>2, <3>2 DEF Routed
        <4> QED
          BY <2>1, <3>2, <4>1 DEF Finished
      <3> QED
        BY <3>1, <3>2
    <2>4. /\ \A p \in Process, i \in Installation :
               connections'[p][i] = IF connections[p][i] \in {c} THEN None ELSE connections[p][i]
          /\ \A b \in Conn : Finished(b)' <=> Finished(b) \/ b \in {c}
      BY <2>2, <2>3
    <2>5. delivered' \subseteq delivered
      BY <1>2 DEF refuse, onClose
    <2> QED
      BY <2>4, <2>5, OwnershipEnds
  <1>3. CASE bind(c)
    BY <1>3, BindTakes
  <1>4. CASE heartbeat(c) \/ receiveData(c) \/ \E m \in Command : receiveResult(c, m)
    <2>1. UNCHANGED <<connections, socket>> /\ delivered' \subseteq delivered
      BY <1>4 DEF heartbeat, receiveData, receiveResult, gatewayVars
    <2> QED
      BY <2>1, OwnershipDrops
  <1>5. CASE heartbeatFails(c)
    BY <1>5, ClosingKeepsRoute DEF heartbeatFails
  <1> QED
    BY <1>1, <1>2, <1>3, <1>4, <1>5 DEF Connection

LEMMA LifetimeOwns ==
    ASSUME GatewayInv, GatewayInv', NEW p \in Process, Lifetime(p)
    PROVE  [Ownership!Next]_(Ownership!vars)
  <1>0. /\ socket \in [Conn -> Socket] /\ None \notin Conn
        /\ connections \in [Process -> [Installation -> Conn \cup {None}]]
    BY PresenceAssumption DEF PresenceAssumption, GatewayInv, TypeOK
  <1>1. CASE drain(p)
    BY <1>1, OwnershipDrops DEF drain
  <1>2. ASSUME connections' = [connections EXCEPT ![p] = [i \in Installation |-> None]],
               NEW S \in SUBSET Conn,
               \A b \in S : socket[b].at = p,
               \A i \in Installation : connections[p][i] # None => connections[p][i] \in S
        PROVE  /\ \A q \in Process, i \in Installation :
                    connections'[q][i] = IF connections[q][i] \in S THEN None ELSE connections[q][i]
               /\ \A b \in Conn \ S : Routed(b)' <=> Routed(b)
               /\ \A b \in S : ~ Routed(b)'
    <2>1. ASSUME NEW q \in Process, NEW i \in Installation
          PROVE  connections'[q][i] =
                   IF connections[q][i] \in S THEN None ELSE connections[q][i]
      <3>1. CASE q = p
        BY <1>0, <1>2, <3>1
      <3>2. CASE q # p
        <4>1. connections'[q][i] = connections[q][i]
          BY <1>0, <1>2, <3>2
        <4>2. connections[q][i] \notin S
          BY <1>2, <3>2 DEF GatewayInv, RoutesMatch, RoutesLeadHome
        <4> QED
          BY <4>1, <4>2
      <3> QED
        BY <3>1, <3>2
    <2> QED
      BY <1>0, <2>1 DEF Routed
  <1>3. CASE close(p)
    <2> DEFINE S == {connections[p][i] : i \in Installation} \ {None}
    <2>1. /\ S \in SUBSET Conn /\ \A b \in S : Attached(b) /\ socket[b].at = p
      BY <1>0 DEF GatewayInv, RoutesMatch, RoutesLeadHome
    <2>2. connections' = [connections EXCEPT ![p] = [i \in Installation |-> None]]
      BY <1>3 DEF close
    <2>3. /\ \A q \in Process, i \in Installation :
               connections'[q][i] = IF connections[q][i] \in S THEN None ELSE connections[q][i]
          /\ \A b \in Conn \ S : Routed(b)' <=> Routed(b)
          /\ \A b \in S : ~ Routed(b)'
      <3>1. \A i \in Installation : connections[p][i] # None => connections[p][i] \in S
        OBVIOUS
      <3> HIDE DEF S
      <3> QED
        BY <1>2, <2>1, <2>2, <3>1
    <2>4. socket' = Closed(S)
      BY <1>0, <1>3 DEF close, Closed
    <2>5. ASSUME NEW b \in Conn PROVE Finished(b)' <=> Finished(b) \/ b \in S
      <3>1. CASE b \in S
        BY <2>1, <2>3, <2>4, <3>1 DEF Finished, Closed, Attached
      <3>2. CASE b \notin S
        <4>1. socket'[b] = socket[b]
          BY <2>4, <3>2 DEF Closed
        <4> QED
          BY <2>3, <3>2, <4>1 DEF Finished
      <3> QED
        BY <3>1, <3>2
    <2>6. delivered' \subseteq delivered
      BY <1>3 DEF close
    <2> QED
      BY <2>1, <2>3, <2>5, <2>6, OwnershipEnds
  <1>4. CASE exit(p) \/ crash(p)
    <2> DEFINE S == ConnsAt(p)
    <2>0. EndProcess(p)
      BY <1>4 DEF exit, crash
    <2>1. S \in SUBSET Conn /\ \A b \in S : socket[b].at = p
      BY DEF ConnsAt
    <2>2. ASSUME NEW i \in Installation, connections[p][i] # None
          PROVE  connections[p][i] \in S
      BY <1>0, <2>2 DEF GatewayInv, RoutesMatch, RoutesLeadHome, Attached, ConnsAt
    <2>3. /\ \A q \in Process, i \in Installation :
               connections'[q][i] = IF connections[q][i] \in S THEN None ELSE connections[q][i]
          /\ \A b \in Conn \ S : Routed(b)' <=> Routed(b)
          /\ \A b \in S : ~ Routed(b)'
      <3>1. connections' = [connections EXCEPT ![p] = [i \in Installation |-> None]]
        BY <2>0 DEF EndProcess
      <3> HIDE DEF S
      <3> QED
        BY <1>2, <2>1, <2>2, <3>1
    <2>4. \A b \in Conn : IF b \in S THEN socket'[b].phase = "gone" ELSE socket'[b] = socket[b]
      BY <1>0, <2>0 DEF EndProcess, Socket
    <2>5. \A b \in Conn : Finished(b)' <=> Finished(b) \/ b \in S
      BY <2>3, <2>4 DEF Finished
    <2>6. delivered' \subseteq delivered
      BY <1>4 DEF exit, crash, EndProcess
    <2> QED
      BY <2>1, <2>3, <2>5, <2>6, OwnershipEnds
  <1> QED
    BY <1>1, <1>3, <1>4 DEF Lifetime

\* A command is sent to the connection that has its route.
LEMMA RoutingSends ==
    ASSUME Routing
    PROVE  Ownership!Next
  <1>1. PICK p \in Process, m \in Command : routeCommand(p, m)
    BY DEF Routing
  <1> DEFINE r == <<p, Target[m]>>
             own == [x \in Process \X Installation |-> connections[x[1]][x[2]]]
  <1>2. PICK c \in Conn : /\ connections[p][Target[m]] = c
                          /\ delivered' = delivered \cup {<<c, m>>}
    BY <1>1 DEF routeCommand
  <1>3. r \in Process \X Installation /\ r \in Process \X {Target[m]}
    BY GatewayAssumption DEF GatewayAssumption
  <1>4. own[r] = c /\ c # None
    BY <1>2, <1>3, PresenceAssumption DEF PresenceAssumption
  <1>5. UNCHANGED <<connections, socket>>
    BY <1>1 DEF routeCommand, gatewayVars
  <1>6. delivered' = delivered \cup {<<own[r], m>>}
    BY <1>2, <1>4
  <1>7. r \in [n \in Command |-> Process \X {Target[n]}][m]
    BY <1>3
  <1>8. Ownership!Send(r, m)
    <2> HIDE DEF r
    <2> QED
      BY <1>4, <1>5, <1>6, <1>7 DEF Ownership!Send
  <1> HIDE DEF r
  <1> QED
    BY <1>3, <1>8 DEF Ownership!Next

LEMMA StepOwns ==
    ASSUME GatewayInv, GatewayInv', [Next]_vars
    PROVE  [Ownership!Next]_(Ownership!vars)
  <1>1. ASSUME NEW c \in Conn, finishMessage(c) PROVE Ownership!Next
    BY <1>1, ClosingKeepsRoute DEF finishMessage
  <1>2. CASE Routing
    BY <1>2, RoutingSends
  <1>3. CASE removeKey \/ tick \/ UNCHANGED vars
    <2>1. UNCHANGED <<connections, socket, delivered>>
      BY <1>3 DEF removeKey, tick, vars, gatewayVars
    <2> QED
      BY <2>1, OwnershipDrops
  <1> QED
    BY <1>1, <1>2, <1>3, ConnectionOwns, LifetimeOwns DEF Next

(***************************************************************************)
(* The gateways implement the ownership of routes: a connection is given   *)
(* one route in its life, whoever loses it is closed, no late message,     *)
(* close event or shutdown gives it back, and a command goes to none but   *)
(* the connection that has its route.                                      *)
(***************************************************************************)
THEOREM OwnershipImplemented == Spec => ImplementsOwnership
  <1>1. Init => Ownership!Init
    <2>1. ASSUME Init
          PROVE  {c \in Conn : /\ socket[c].phase \in {"closing", "gone"}
                               /\ \A p \in Process, i \in Installation : connections[p][i] # c} = {}
      BY <2>1 DEF Init
    <2> QED
      BY <2>1 DEF Init, Ownership!Init
  <1>2. TypeOK /\ RoutesMatch => GatewayInv
    BY DEF GatewayInv
  <1> QED
    BY <1>1, <1>2, GatewayTypeCorrect, RoutesAlwaysMatch, StepOwns, PTL
       DEF Spec, ImplementsOwnership, Ownership!Spec

---------------------------------------------------------------------------
(***************************************************************************)
(* Presence without connections.  Every key has an expiry, and whoever     *)
(* sets one is a connection that is attached or still being handled: a     *)
(* quiet installation has none.                                            *)
(***************************************************************************)

KeysExpire == \A i \in Installation : isOnline(i) => presence[i].left > 0

\* What refreshes a key.
Refresh == \E c \in Conn : ~ Quiet(Home(c)) /\ touch(c)

LEMMA StepTouchesKeys ==
    ASSUME TypeOK, [Next]_vars
    PROVE  UNCHANGED keyVars \/ Refresh \/ removeKey \/ tick
  <1>1. ASSUME NEW c \in Conn, socket[c].phase \in {"lookup", "open", "closing"}
        PROVE  ~ Quiet(Home(c))
    BY <1>1 DEF Quiet
  <1>2. ASSUME NEW c \in Conn, Connection(c) PROVE UNCHANGED keyVars \/ Refresh
    BY <1>1, <1>2 DEF Connection, handleUpgrade, refuse, bind, heartbeat, heartbeatFails, receiveData,
       onClose, receiveResult, presenceVars, Attached, Refresh, touch
  <1>3. ASSUME NEW c \in Conn, finishMessage(c) PROVE UNCHANGED keyVars \/ Refresh
    <2>1. ~ Quiet(Home(c))
      BY <1>3 DEF finishMessage, TypeOK, Quiet
    <2> QED
      BY <1>3, <2>1 DEF finishMessage, Refresh
  <1>4. ASSUME NEW p \in Process, Lifetime(p) PROVE UNCHANGED keyVars
    BY <1>4 DEF Lifetime, close, drain, exit, crash, EndProcess, presenceVars
  <1>5. CASE Routing \/ UNCHANGED vars
    BY <1>5 DEF Routing, routeCommand, presenceVars, vars
  <1> QED
    BY <1>2, <1>3, <1>4, <1>5 DEF Next

\* A tick of the clock takes one from every key.
LEMMA TickAges ==
    ASSUME TypeOK, KeysExpire, tick, NEW i \in Installation
    PROVE  /\ isOnline(i) => presence'[i].left < presence[i].left
           /\ presence'[i].conn # None => presence'[i].left > 0
  <1>1. presence[i] \in [conn : Conn \cup {None}, left : 0 .. PresenceTtl] /\ PresenceTtl \in Nat
    BY PresenceAssumption DEF PresenceAssumption, TypeOK, PresenceTypeOK
  <1>2. CASE presence[i].left = 1
    <2>1. presence'[i] = NoKey
      BY <1>2 DEF tick, Age
    <2> QED
      BY <1>2, <2>1 DEF NoKey
  <1>3. CASE presence[i].left > 1
    <2>1. presence'[i] = [presence[i] EXCEPT !.left = @ - 1]
      BY <1>1, <1>3 DEF tick, Age
    <2>2. presence'[i].left = presence[i].left - 1
      BY <1>1, <2>1
    <2> QED
      BY <1>1, <1>3, <2>2
  <1>4. CASE presence[i].left = 0
    <2>1. presence'[i] = presence[i]
      BY <1>4 DEF tick, Age
    <2> QED
      BY <1>4, <2>1 DEF KeysExpire, isOnline
  <1> QED
    BY <1>1, <1>2, <1>3, <1>4

LEMMA StepAgesKeys ==
    ASSUME TypeOK, KeysExpire, [Next]_vars
    PROVE  /\ KeysExpire'
           /\ \A i \in Installation : Quiet(i) /\ isOnline(i) =>
                /\ presence'[i] = presence[i] \/ presence'[i].left < presence[i].left
                /\ tick => presence'[i].left < presence[i].left
  <1>t. presence \in [Installation -> [conn : Conn \cup {None}, left : 0 .. PresenceTtl]]
        /\ PresenceTtl \in Nat /\ PresenceTtl > 0
    BY PresenceAssumption DEF PresenceAssumption, TypeOK, PresenceTypeOK
  <1>1. CASE tick
    BY <1>1, TickAges DEF KeysExpire, isOnline
  <1>2. CASE Refresh /\ ~ tick
    <2>1. PICK c \in Conn : ~ Quiet(Home(c)) /\ touch(c)
      BY <1>2 DEF Refresh
    <2>2. \A i \in Installation : i # Home(c) => presence'[i] = presence[i]
      BY <1>t, <2>1 DEF touch, online, set
    <2>3. presence'[Home(c)].left = PresenceTtl
      BY <1>t, <2>1, HomeType DEF touch, online, set
    <2> QED
      BY <1>t, <1>2, <2>1, <2>2, <2>3 DEF KeysExpire, isOnline
  <1>3. CASE removeKey /\ ~ tick
    <2>1. PICK j \in Installation : presence' = [presence EXCEPT ![j] = NoKey]
      BY <1>3 DEF removeKey, RemoveKey
    <2>2. \A i \in Installation : i # j => presence'[i] = presence[i]
      BY <1>t, <2>1
    <2>3. presence'[j].left = 0 /\ presence'[j].conn = None
      BY <1>t, <2>1 DEF NoKey
    <2> QED
      BY <1>t, <1>3, <2>2, <2>3 DEF KeysExpire, isOnline
  <1>4. CASE UNCHANGED keyVars /\ ~ tick
    BY <1>4 DEF keyVars, KeysExpire, isOnline
  <1> QED
    BY <1>1, <1>2, <1>3, <1>4, StepTouchesKeys

(***************************************************************************)
(* Once nothing of an installation is connected or handled, nothing makes  *)
(* its presence last: the safety half of PresenceFades.                    *)
(***************************************************************************)
THEOREM QuietKeysFade == Spec => QuietKeysRunOut
  <1>1. Init => KeysExpire
    BY DEF Init, PresenceInit, NoKey, KeysExpire, isOnline
  <1>2. TypeOK /\ KeysExpire /\ [Next]_vars
            => KeysExpire' /\ [\A i \in Installation : Quiet(i) /\ isOnline(i) =>
                  /\ presence'[i] = presence[i] \/ presence'[i].left < presence[i].left
                  /\ tick => presence'[i].left < presence[i].left]_vars
    BY StepAgesKeys
  <1> QED
    BY <1>1, <1>2, GatewayTypeCorrect, PTL DEF Spec, QuietKeysRunOut

---------------------------------------------------------------------------
(***************************************************************************)
(* Presence of a connection that is heard of.  Whoever wrote the key last, *)
(* it lives as long as if it had been written when the connection was      *)
(* heard of last; and only the offline of a closed connection deletes it.  *)
(***************************************************************************)

FreshKeys == \A c \in Conn :
  isOnline(Home(c)) => presence[Home(c)].left >= PresenceTtl - silent[c]

RemovedByClosed == \A i \in Installation, d \in Conn :
  <<i, d>> \in removing => socket[d].phase = "gone"

\* A tick takes one from the key and adds one to the silence.
LEMMA TickKeepsFresh ==
    ASSUME TypeOK, KeysExpire, FreshKeys, tick, NEW c \in Conn, isOnline(Home(c))
    PROVE  /\ silent'[c] < PresenceTtl => isOnline(Home(c))'
           /\ isOnline(Home(c))' => presence'[Home(c)].left >= PresenceTtl - silent'[c]
  <1> DEFINE i == Home(c)
  <1>0. /\ i \in Installation /\ PresenceTtl \in Nat /\ silent[c] \in 0 .. PresenceTtl
        /\ presence[i] \in [conn : Conn \cup {None}, left : 0 .. PresenceTtl]
    BY HomeType, PresenceAssumption DEF PresenceAssumption, TypeOK, PresenceTypeOK
  <1>1. presence[i].left > 0 /\ presence[i].left >= PresenceTtl - silent[c]
    BY <1>0 DEF KeysExpire, FreshKeys
  <1>2. silent'[c] = IF silent[c] < PresenceTtl THEN silent[c] + 1 ELSE silent[c]
    BY DEF tick, Age
  <1>3. CASE presence[i].left = 1
    <2>1. presence'[i] = NoKey
      BY <1>0, <1>3 DEF tick, Age
    <2>2. ~ isOnline(i)'
      BY <2>1 DEF isOnline, NoKey
    <2> QED
      BY <1>0, <1>1, <1>2, <1>3, <2>2
  <1>4. CASE presence[i].left > 1
    <2>1. presence'[i] = [presence[i] EXCEPT !.left = @ - 1]
      BY <1>0, <1>4 DEF tick, Age
    <2>2. presence'[i].left = presence[i].left - 1 /\ presence'[i].conn = presence[i].conn
      BY <1>0, <2>1
    <2> QED
      BY <1>0, <1>1, <1>2, <1>4, <2>2 DEF isOnline, Home
  <1> QED
    BY <1>0, <1>1, <1>3, <1>4

LEMMA StepKeepsFresh ==
    ASSUME TypeOK, KeysExpire, FreshKeys, [Next]_vars
    PROVE  FreshKeys'
  <1>t. /\ PresenceTtl \in Nat /\ silent \in [Conn -> 0 .. PresenceTtl]
        /\ presence \in [Installation -> [conn : Conn \cup {None}, left : 0 .. PresenceTtl]]
    BY PresenceAssumption DEF PresenceAssumption, TypeOK, PresenceTypeOK
  <1>s. SUFFICES ASSUME NEW c \in Conn, isOnline(Home(c))'
                 PROVE  presence'[Home(c)].left >= PresenceTtl - silent'[c]
    BY DEF FreshKeys, Home
  <1>h. Home(c) \in Installation
    BY HomeType
  <1>1. CASE tick
    <2>1. isOnline(Home(c))
      <3>1. CASE presence[Home(c)].left = 1
        BY <1>1, <1>h, <1>s, <3>1 DEF tick, Age, isOnline, NoKey, Home
      <3>2. CASE presence[Home(c)].left > 1
        <4>1. presence'[Home(c)] = [presence[Home(c)] EXCEPT !.left = @ - 1]
          BY <1>1, <1>h, <1>t, <3>2 DEF tick, Age
        <4>2. presence'[Home(c)].conn = presence[Home(c)].conn
          BY <1>t, <1>h, <4>1
        <4> QED
          BY <1>s, <4>2 DEF isOnline, Home
      <3>3. CASE presence[Home(c)].left = 0
        <4>1. presence'[Home(c)] = presence[Home(c)]
          BY <1>1, <1>h, <3>3 DEF tick, Age
        <4> QED
          BY <1>s, <4>1 DEF isOnline, Home
      <3> QED
        BY <1>t, <1>h, <3>1, <3>2, <3>3
    <2> QED
      BY <1>1, <1>s, <2>1, TickKeepsFresh
  <1>2. CASE Refresh
    <2>1. PICK d \in Conn : touch(d)
      BY <1>2 DEF Refresh
    <2>2. silent' = [silent EXCEPT ![d] = 0]
      BY <2>1 DEF touch, online
    <2>3. CASE Home(d) = Home(c)
      <3>1. presence'[Home(c)].left = PresenceTtl
        BY <1>t, <1>h, <2>1, <2>3 DEF touch, online, set
      <3> QED
        BY <1>t, <2>2, <3>1
    <2>4. CASE Home(d) # Home(c)
      <3>1. presence'[Home(c)] = presence[Home(c)] /\ silent'[c] = silent[c]
        BY <1>t, <1>h, <2>1, <2>2, <2>4 DEF touch, online, set
      <3> QED
        BY <1>s, <3>1 DEF FreshKeys, isOnline, Home
    <2> QED
      BY <2>3, <2>4
  <1>3. CASE removeKey
    <2>1. PICK j \in Installation : presence' = [presence EXCEPT ![j] = NoKey] /\ UNCHANGED silent
      BY <1>3 DEF removeKey, RemoveKey
    <2>2. j # Home(c)
      BY <1>s, <1>t, <1>h, <2>1 DEF isOnline, NoKey, Home
    <2>3. presence'[Home(c)] = presence[Home(c)] /\ silent'[c] = silent[c]
      BY <1>t, <1>h, <2>1, <2>2
    <2> QED
      BY <1>s, <2>3 DEF FreshKeys, isOnline, Home
  <1>4. CASE UNCHANGED keyVars
    BY <1>4, <1>s DEF keyVars, FreshKeys, isOnline, Home
  <1> QED
    BY <1>1, <1>2, <1>3, <1>4, StepTouchesKeys

\* A close event is the end of a connection, and all that starts a deletion.
LEMMA StepRemovesClosed ==
    ASSUME TypeOK, RemovedByClosed, [Next]_vars
    PROVE  RemovedByClosed'
  <1>0. socket \in [Conn -> Socket]
    BY DEF TypeOK
  <1>k. ASSUME removing' \subseteq removing,
               \A d \in Conn : socket[d].phase = "gone" => socket'[d].phase = "gone"
        PROVE  RemovedByClosed'
    BY <1>k DEF RemovedByClosed
  <1>1. ASSUME NEW c \in Conn, Connection(c) PROVE RemovedByClosed'
    <2>1. CASE onClose(c)
      <3>1. /\ socket' = [socket EXCEPT ![c].phase = "gone"]
            /\ removing' \subseteq removing \cup {<<Home(c), c>>}
        BY <2>1 DEF onClose, readOffline
      <3>2. socket'[c].phase = "gone" /\ \A d \in Conn \ {c} : socket'[d] = socket[d]
        BY <1>0, <3>1 DEF Socket
      <3> QED
        BY <3>1, <3>2 DEF RemovedByClosed
    <2>2. CASE (\E p \in Process : handleUpgrade(c, p)) \/ refuse(c)
      <3>1. socket[c].phase # "gone" \/ socket'[c].phase = "gone"
        BY <1>0, <2>2 DEF handleUpgrade, refuse
      <3>2. \A d \in Conn \ {c} : socket'[d] = socket[d]
        BY <1>0, <2>2 DEF handleUpgrade, refuse
      <3>3. UNCHANGED removing
        BY <2>2 DEF handleUpgrade, refuse, presenceVars
      <3> QED
        BY <1>k, <3>1, <3>2, <3>3
    <2>3. CASE bind(c)
      <3>1. /\ UNCHANGED removing /\ socket[c].phase = "lookup"
            /\ \A d \in Conn \ {c} : socket'[d] = Closed({connections[socket[c].at][Home(c)]})[d]
        BY <1>0, <2>3 DEF bind, Bound, Closed
      <3> QED
        BY <1>k, <3>1 DEF Closed
    <2>4. CASE heartbeatFails(c)
      BY <1>k, <2>4 DEF heartbeatFails, Closed
    <2>5. CASE heartbeat(c) \/ receiveData(c) \/ \E m \in Command : receiveResult(c, m)
      BY <1>k, <2>5 DEF heartbeat, receiveData, receiveResult, gatewayVars, presenceVars
    <2> QED
      BY <1>1, <2>1, <2>2, <2>3, <2>4, <2>5 DEF Connection
  <1>2. ASSUME NEW c \in Conn, finishMessage(c) PROVE RemovedByClosed'
    BY <1>k, <1>2 DEF finishMessage, Closed
  <1>3. ASSUME NEW p \in Process, Lifetime(p) PROVE RemovedByClosed'
    <2>1. CASE close(p) \/ drain(p)
      BY <1>k, <2>1 DEF close, drain, Closed, presenceVars
    <2>2. CASE exit(p) \/ crash(p)
      <3>1. EndProcess(p)
        BY <2>2 DEF exit, crash
      <3>2. \A d \in Conn : socket[d].phase = "gone" => socket'[d].phase = "gone"
        BY <1>0, <3>1 DEF EndProcess, Socket
      <3> QED
        BY <1>k, <3>1, <3>2 DEF EndProcess
    <2> QED
      BY <1>3, <2>1, <2>2 DEF Lifetime
  <1>4. CASE Routing \/ removeKey \/ tick \/ UNCHANGED vars
    BY <1>k, <1>4 DEF Routing, routeCommand, removeKey, RemoveKey, tick, Age, vars, gatewayVars, presenceVars
  <1> QED
    BY <1>1, <1>2, <1>3, <1>4 DEF Next

LEMMA StepHides ==
    ASSUME TypeOK, KeysExpire, FreshKeys, RemovedByClosed, [Next]_vars,
           NEW c \in Conn, HidesOpen(c)
    PROVE  \E d \in Conn \ {c} : /\ socket[d].phase = "gone"
                                 /\ <<Home(c), d>> \in removing \ removing'
  <1>t. /\ Home(c) \in Installation /\ None \notin Conn
        /\ presence \in [Installation -> [conn : Conn \cup {None}, left : 0 .. PresenceTtl]]
    BY HomeType, PresenceAssumption DEF PresenceAssumption, TypeOK, PresenceTypeOK
  <1>1. presence[Home(c)].conn # None /\ presence'[Home(c)].conn = None
    BY DEF HidesOpen, isOnline, Home
  <1>2. ~ UNCHANGED keyVars
    BY <1>1 DEF keyVars
  <1>3. ~ Refresh
    <2>1. ASSUME NEW d \in Conn, touch(d) PROVE FALSE
      <3>1. presence' = [presence EXCEPT ![Home(d)] = [conn |-> d, left |-> PresenceTtl]]
        BY <2>1 DEF touch, online, set
      <3> QED
        BY <1>t, <1>1, <3>1
    <2> QED
      BY <2>1 DEF Refresh
  <1>4. ~ tick
    BY TickKeepsFresh DEF HidesOpen
  <1>5. removeKey
    BY <1>2, <1>3, <1>4, StepTouchesKeys
  <1>6. PICK i \in Installation, d \in Conn : RemoveKey(i, d)
    BY <1>5 DEF removeKey
  <1>7. i = Home(c)
    BY <1>t, <1>1, <1>6 DEF RemoveKey
  <1>8. <<Home(c), d>> \in removing \ removing'
    BY <1>6, <1>7 DEF RemoveKey
  <1>9. socket[d].phase = "gone" /\ d # c
    BY <1>t, <1>8 DEF RemovedByClosed, HidesOpen
  <1> QED
    BY <1>8, <1>9

(***************************************************************************)
(* An installation with an open connection that was heard of less than a   *)
(* TTL ago is hidden by nothing but the deletion that the offline of       *)
(* another, closed connection still had to make.                           *)
(***************************************************************************)
THEOREM OnlyDeletionsHide == Spec => OnlyDeletionHides
  <1>1. Init => KeysExpire /\ FreshKeys /\ RemovedByClosed
    BY HomeType DEF Init, PresenceInit, NoKey, KeysExpire, FreshKeys, RemovedByClosed, isOnline
  <1>2. TypeOK /\ KeysExpire /\ FreshKeys /\ RemovedByClosed /\ [Next]_vars
            => KeysExpire' /\ FreshKeys' /\ RemovedByClosed'
    BY StepAgesKeys, StepKeepsFresh, StepRemovesClosed
  <1>3. TypeOK /\ KeysExpire /\ FreshKeys /\ RemovedByClosed /\ [Next]_vars
            => [\A c \in Conn : HidesOpen(c) => \E d \in Conn \ {c} :
                  /\ socket[d].phase = "gone"
                  /\ <<Home(c), d>> \in removing \ removing']_vars
    BY StepHides
  <1> QED
    BY <1>1, <1>2, <1>3, GatewayTypeCorrect, PTL DEF Spec, OnlyDeletionHides
=============================================================================
