---------------------------- MODULE RouteOwnership ----------------------------
(***************************************************************************)
(* What the gateways promise about routes, without sockets, messages or    *)
(* shutdown: a route is given to a connection that never had one, a        *)
(* connection that loses its route is finished, and a finished connection  *)
(* is never given a route, or sent a command, again.                       *)
(***************************************************************************)
CONSTANTS
  Route, Conn, None, Command,
  RoutesOf    \* RoutesOf[m]: the routes command m may take

VARIABLES
  owner,      \* owner[r]: the connection that commands on route r go to
  spent,      \* connections that are finished
  sent        \* <<c, m>>: command m was sent to connection c and is there

vars == <<owner, spent, sent>>

Init == owner = [r \in Route |-> None] /\ spent = {} /\ sent = {}

\* Whoever had the route is finished.
Take(r, c) ==
  /\ c \notin spent /\ \A q \in Route : owner[q] # c
  /\ owner' = [owner EXCEPT ![r] = c]
  /\ spent' = spent \cup ({owner[r]} \ {None})
  /\ UNCHANGED sent

\* The connections of S end, and with them the routes they had.
End(S) ==
  /\ owner' = [r \in Route |-> IF owner[r] \in S THEN None ELSE owner[r]]
  /\ spent' = spent \cup S
  /\ sent' \subseteq sent

\* A command goes to the owner of one of its routes.
Send(r, m) ==
  /\ r \in RoutesOf[m]
  /\ owner[r] # None
  /\ sent' = sent \cup {<<owner[r], m>>}
  /\ UNCHANGED <<owner, spent>>

\* Commands are answered or lost.
Drop == sent' \subseteq sent /\ UNCHANGED <<owner, spent>>

Next ==
  \/ \E r \in Route, c \in Conn : Take(r, c)
  \/ \E S \in SUBSET Conn : End(S)
  \/ \E r \in Route, m \in Command : Send(r, m)
  \/ Drop

Spec == Init /\ [][Next]_vars
=============================================================================
