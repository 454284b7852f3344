-------------------------- MODULE ConnectorGateway --------------------------
(***************************************************************************)
(* The WebSocket gateway of every API process                               *)
(* (apps/api/src/websocket-gateway.ts), its shutdown (server.ts) and the    *)
(* routing of published commands.  Each process keeps a map from an         *)
(* installation to a connection; PUBLISH reaches every process; presence    *)
(* is shared through Redis.  A connection is made with the credential of a  *)
(* runtime, but the map, the channel and the keys know only installations:  *)
(* runtimes of one installation are connections of one.  What a result does *)
(* to its command, and what the worker does, is CommandDelivery.            *)
(***************************************************************************)
EXTENDS Presence, FiniteSets

CONSTANTS
  Process,        \* API processes; one that is started anew is another one
  InstallationOf, \* InstallationOf[c]: of the credential connection c presents
  Command,
  MaxHandling,    \* bound: messages of a connection handled at once
  Target          \* Target[m]: the installation command m is for

ASSUME GatewayAssumption ==
  /\ InstallationOf \in [Conn -> Installation]
  /\ Target \in [Command -> Installation]
  /\ MaxHandling \in Nat

VARIABLES
  process,        \* up; unsubscribing and draining: inside close(); down
  connections,    \* connections[p][i]: the gateway's map
  socket,         \* socket[c]: its phase and its process
  handling,       \* handling[c]: messages of c whose handler waits for its statement
  delivered       \* <<c, m>>: commands sent on socket c and not answered

gatewayVars == <<process, connections, socket, handling>>
vars == <<presenceVars, gatewayVars, delivered>>

\* lookup: handleUpgrade waits for findConnectorByTokenHash.  closing: close()
\* was called on the socket, which still reads.  gone: the close event has run.
SocketPhase == {"free", "lookup", "open", "closing", "gone"}

Socket == [phase : SocketPhase, at : Process \cup {None}]

Init ==
  /\ PresenceInit
  /\ process = [p \in Process |-> "up"]
  /\ connections = [p \in Process |-> [i \in Installation |-> None]]
  /\ socket = [c \in Conn |-> [phase |-> "free", at |-> None]]
  /\ handling = [c \in Conn |-> 0]
  /\ delivered = {}

Home(c) == InstallationOf[c]
Attached(c) == socket[c].phase \in {"open", "closing"}
\* The connections of process p, those included that are gone but handled.
ConnsAt(p) == {c \in Conn : socket[c].at = p}

\* WebSocket.close on the sockets of S: no effect on one that is not open.
Closed(S) == [c \in Conn |->
  IF c \in S /\ socket[c].phase = "open" THEN [socket[c] EXCEPT !.phase = "closing"]
                                         ELSE socket[c]]

-----------------------------------------------------------------------------
\* Connections

\* handleUpgrade, up to the query for the credential.
handleUpgrade(c, p) ==
  /\ process[p] = "up"
  /\ socket[c].phase = "free"
  /\ socket' = [socket EXCEPT ![c] = [phase |-> "lookup", at |-> p]]
  /\ UNCHANGED <<presenceVars, process, connections, handling, delivered>>

\* No such credential, the client gave up, or the WebSocket server is closing.
refuse(c) ==
  /\ socket[c].phase = "lookup"
  /\ socket' = [socket EXCEPT ![c].phase = "gone"]
  /\ UNCHANGED <<presenceVars, process, connections, handling, delivered>>

\* The connection the map holds for this installation is closed with 4001.
Bound(c) ==
  [Closed({connections[socket[c].at][Home(c)]}) EXCEPT ![c].phase = "open"]

\* bind: the map names the new connection; touch may fail, which is logged.
bind(c) ==
  /\ socket[c].phase = "lookup"
  /\ process[socket[c].at] \in {"up", "unsubscribing"}
  /\ socket' = Bound(c)
  /\ connections' = [connections EXCEPT ![socket[c].at][Home(c)] = c]
  /\ online(Home(c), c) \/ UNCHANGED keyVars
  /\ UNCHANGED <<removing, process, handling, delivered>>

touch(c) == online(Home(c), c)

\* A heartbeat whose handler does not end with its socket.
heartbeatAtAnyTime(c) ==
  /\ socket[c].phase # "free"
  /\ touch(c)
  /\ UNCHANGED <<removing, gatewayVars, delivered>>

\* hello and heartbeat.
heartbeat(c) ==
  /\ Attached(c)
  /\ touch(c)
  /\ UNCHANGED <<removing, gatewayVars, delivered>>

\* One of touch's two calls fails, or the message is not one of this runtime's
\* or no message at all: the socket is closed.
heartbeatFails(c) ==
  /\ Attached(c)
  /\ socket' = Closed({c})
  /\ touch(c) \/ UNCHANGED keyVars
  /\ UNCHANGED <<removing, process, connections, handling, delivered>>

\* Bound: messages of one connection that are handled side by side.
MayReceive(c) == handling[c] < MaxHandling

Receive(c) == handling' = [handling EXCEPT ![c] = @ + 1]

\* onMessage of a snapshot or of events, up to its statement.
receiveData(c) ==
  /\ Attached(c) /\ MayReceive(c)
  /\ Receive(c)
  /\ UNCHANGED <<presenceVars, process, connections, socket, delivered>>

\* onMessage of a command's result: the connector answers on the socket that
\* brought the command.
receiveResult(c, m) ==
  /\ Attached(c) /\ MayReceive(c)
  /\ <<c, m>> \in delivered
  /\ delivered' = delivered \ {<<c, m>>}
  /\ Receive(c)
  /\ UNCHANGED <<presenceVars, process, connections, socket>>

\* The statement returns and the handler touches, whatever the socket's phase
\* is by now; or the statement or the touch throws, and the socket is closed.
finishMessage(c) ==
  /\ handling[c] > 0
  /\ handling' = [handling EXCEPT ![c] = @ - 1]
  /\ \/ touch(c) /\ UNCHANGED socket
     \/ /\ socket' = Closed({c})
        /\ touch(c) \/ UNCHANGED keyVars
  /\ UNCHANGED <<removing, process, connections, delivered>>

\* onClose without the comparison of connection ids.
IsAnyConnection(c) == connections[socket[c].at][Home(c)] # None

\* onClose acts only for the connection the map still names.
IsCurrent(c) == connections[socket[c].at][Home(c)] = c

\* The close event: the peer closed, the network dropped, or the closing
\* handshake ended.
onClose(c) ==
  /\ Attached(c)
  /\ socket' = [socket EXCEPT ![c].phase = "gone"]
  /\ delivered' = {x \in delivered : x[1] # c}
  /\ IF IsCurrent(c)
     THEN /\ connections' = [connections EXCEPT ![socket[c].at][Home(c)] = None]
          /\ readOffline(Home(c), c)
     ELSE UNCHANGED <<connections, removing>>
  /\ UNCHANGED <<keyVars, process, handling>>

-----------------------------------------------------------------------------
\* Routing

\* Process p receives a publication of command m: the payload goes to the
\* connection the map names, if its socket is open.  The worker publishes again
\* and again, Redis keeps no publication, and each process gets its copy in its
\* own time: a copy may arrive whenever the process is subscribed.
routeCommand(p, m) ==
  /\ process[p] \in {"up", "unsubscribing"}
  /\ \E c \in Conn :
       /\ connections[p][Target[m]] = c
       /\ socket[c].phase = "open"
       /\ delivered' = delivered \cup {<<c, m>>}
  /\ UNCHANGED <<presenceVars, gatewayVars>>

-----------------------------------------------------------------------------
\* Start and stop

\* shutdown and the first, synchronous part of close: no more requests are
\* taken, every connection of the map is closed with 1012, the map is emptied.
close(p) ==
  /\ process[p] = "up"
  /\ process' = [process EXCEPT ![p] = "unsubscribing"]
  /\ socket' = Closed({connections[p][i] : i \in Installation})
  /\ connections' = [connections EXCEPT ![p] = [i \in Installation |-> None]]
  /\ UNCHANGED <<presenceVars, handling, delivered>>

\* subscriber.close returned; the WebSocket server stops taking upgrades and
\* waits for its clients.
drain(p) ==
  /\ process[p] = "unsubscribing"
  /\ process' = [process EXCEPT ![p] = "draining"]
  /\ UNCHANGED <<presenceVars, connections, socket, handling, delivered>>

\* What is lost with process p: sockets, handlers, the DEL of an offline.
EndProcess(p) ==
  LET S == ConnsAt(p) IN
  /\ process' = [process EXCEPT ![p] = "down"]
  /\ connections' = [connections EXCEPT ![p] = [i \in Installation |-> None]]
  /\ socket' = [c \in Conn |->
       IF c \in S THEN [socket[c] EXCEPT !.phase = "gone"] ELSE socket[c]]
  /\ handling' = [c \in Conn |-> IF c \in S THEN 0 ELSE handling[c]]
  /\ removing' = {x \in removing : x[2] \notin S}
  /\ delivered' = {x \in delivered : x[1] \notin S}
  /\ UNCHANGED keyVars

\* All clients are gone: Redis and PostgreSQL are released.
exit(p) ==
  /\ process[p] = "draining"
  /\ \A c \in ConnsAt(p) : socket[c].phase = "gone"
  /\ EndProcess(p)

crash(p) == process[p] # "down" /\ EndProcess(p)

-----------------------------------------------------------------------------
removeKey == \E i \in Installation, c \in Conn :
  RemoveKey(i, c) /\ UNCHANGED <<gatewayVars, delivered>>

tick == Age /\ UNCHANGED <<gatewayVars, delivered>>

Connection(c) ==
  \/ \E p \in Process : handleUpgrade(c, p)
  \/ refuse(c) \/ bind(c) \/ heartbeat(c) \/ heartbeatFails(c)
  \/ receiveData(c) \/ onClose(c)
  \/ \E m \in Command : receiveResult(c, m)

Routing == \E p \in Process, m \in Command : routeCommand(p, m)

Lifetime(p) == close(p) \/ drain(p) \/ exit(p) \/ crash(p)

Next ==
  \/ \E c \in Conn : Connection(c)
  \/ \E c \in Conn : finishMessage(c)
  \/ Routing
  \/ \E p \in Process : Lifetime(p)
  \/ removeKey \/ tick

Spec == Init /\ [][Next]_vars

\* Time passes.  Nothing is asked of connectors, connections or processes.
Fairness == WF_vars(tick)

FairSpec == Spec /\ Fairness

-----------------------------------------------------------------------------
\* Properties

TypeOK ==
  /\ PresenceTypeOK
  /\ process \in [Process -> {"up", "unsubscribing", "draining", "down"}]
  /\ connections \in [Process -> [Installation -> Conn \cup {None}]]
  /\ socket \in [Conn -> Socket]
  /\ \A c \in Conn : socket[c].phase # "free" => socket[c].at \in Process
  /\ handling \in [Conn -> 0 .. MaxHandling]
  /\ delivered \subseteq Conn \X Command

\* An open socket is the one its process' map names for its installation: a
\* newer connection closes it, and the late close event of an older one does
\* not take the route away from its successor.
OpenIsRouted == \A c \in Conn :
  socket[c].phase = "open" => connections[socket[c].at][Home(c)] = c

\* What a map names is a socket of that process and installation whose close
\* event is still to come.
RoutesLeadHome == \A p \in Process, i \in Installation, c \in Conn :
  connections[p][i] = c => Attached(c) /\ socket[c].at = p /\ Home(c) = i

RoutesMatch == OpenIsRouted /\ RoutesLeadHome

\* Superseding, late close events, failing messages, shutdown and crashes: a
\* connection is given one route in its life, loses it for good, is closed or
\* closing when it does, and is sent commands of its route only while it has it.
Ownership == INSTANCE RouteOwnership WITH
  Route <- Process \X Installation,
  owner <- [r \in Process \X Installation |-> connections[r[1]][r[2]]],
  spent <- {c \in Conn : /\ socket[c].phase \in {"closing", "gone"}
                         /\ \A p \in Process, i \in Installation : connections[p][i] # c},
  RoutesOf <- [m \in Command |-> Process \X {Target[m]}],
  sent <- delivered

ImplementsOwnership == Ownership!Spec

\* A step that hides the installation of c, which is open and was heard of.
HidesOpen(c) ==
  /\ socket[c].phase = "open" /\ silent'[c] < PresenceTtl
  /\ isOnline(Home(c)) /\ ~isOnline(Home(c))'

\* Only a deletion hides an installation that has an open connection heard of
\* less than a TTL ago: no expiry does, whatever other connections, superseded,
\* closing or gone, wrote over its key.  And the deletion is the one that the
\* offline of another, closed connection still had to make.
OnlyDeletionHides == [][\A c \in Conn :
  HidesOpen(c) => \E d \in Conn \ {c} :
    /\ socket[d].phase = "gone"
    /\ <<Home(c), d>> \in removing \ removing']_vars

\* An installation whose connection stays open, and whose heartbeats are less
\* than a TTL apart, is in the end shown online for good: late deletions and
\* the messages of its other connections hide it for a while only.
PresenceStays == \A c \in Conn :
  <>[](socket[c].phase = "open" /\ silent[c] < PresenceTtl) => <>[]isOnline(Home(c))

\* Nothing of installation i is connected or still being handled.
Quiet(i) == \A c \in Conn : Home(c) = i =>
  socket[c].phase \in {"free", "gone"} /\ handling[c] = 0

\* While installation i is quiet nothing refreshes its key, neither a process
\* that stops nor a connection that was superseded: the key is deleted or runs
\* out, tick by tick.
QuietKeysRunOut == [][\A i \in Installation :
  Quiet(i) /\ isOnline(i) =>
    /\ presence'[i] = presence[i] \/ presence'[i].left < presence[i].left
    /\ tick => presence'[i].left < presence[i].left]_vars

\* When nothing of an installation is connected any more, presence goes away,
\* although nobody deletes it after a crash, a shutdown or a late touch.
PresenceFades == \A i \in Installation : <>[]Quiet(i) => <>[]~isOnline(i)

\* docs/RUNBOOK.md says that on shutdown the API stops accepting upgrades and
\* closes WebSockets: past close(), no socket is open.
StopsAcceptingUpgrades == \A c \in Conn :
  socket[c].phase = "open" => process[socket[c].at] = "up"
=============================================================================
