------------------------- MODULE MCConnectorGateway -------------------------
(* Instances of ConnectorGateway for TLC. *)
EXTENDS ConnectorGateway

CONSTANT i1

\* All connections and commands are of one installation.
OneInstallation == {i1}
HomeIsOne == [c \in Conn |-> i1]
TargetIsOne == [m \in Command |-> i1]
=============================================================================
