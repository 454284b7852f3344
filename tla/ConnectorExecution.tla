-------------------------- MODULE ConnectorExecution --------------------------
(***************************************************************************)
(* The far end of a delivery: apps/connector/src/index.ts (handleCommand,  *)
(* executeCommand and its map of executions in flight) calling the local   *)
(* Runtime, and the connector.command_result case of                       *)
(* apps/api/src/websocket-gateway.ts that stores what comes back.          *)
(*                                                                         *)
(* The Runtime is external.  The hub relies on it to be idempotent on the  *)
(* command's key: it decides a command once, whenever the first request    *)
(* for it is served, and answers every request with that decision.         *)
(***************************************************************************)
EXTENDS Relay

VARIABLES
    execution,      \* inFlightCommands: "none", "calling", or the result
    awaiting,       \* commands whose execution an open socket waits for
    calls,          \* requests the Runtime may still serve
    decision,       \* what the Runtime decided
    results,        \* connector.command_result messages on the socket
    auditDue        \* stored results whose audit entry is still to write

connectorVars == <<execution, awaiting, calls, decision, results, auditDue>>

Decision == {"none", "accepted", "refused", "conflicted"}
Result == Command \X TerminalStatus

ConnectorTypeOK ==
    /\ execution \in [Command -> {"none", "calling"} \union TerminalStatus]
    /\ awaiting \in SUBSET Command
    /\ calls \in SUBSET Command
    /\ decision \in [Command -> Decision]
    /\ results \in SUBSET Result
    /\ auditDue \in SUBSET Result

ConnectorInit ==
    /\ execution = [c \in Command |-> "none"]
    /\ awaiting = {}
    /\ calls = {}
    /\ decision = [c \in Command |-> "none"]
    /\ results = {}
    /\ auditDue = {}

TakeMessage(c) ==
    /\ c \in inbox
    /\ inbox' = inbox \ {c}
    /\ UNCHANGED <<jobState, attemptsMade, stalls, lockOwner>>

---------------------------------------------------------------------------
\* handleCommand and executeCommand.

\* Nothing is known of the command: check the expiry, then call the Runtime.
StartExecution(c) ==
    /\ TakeMessage(c)
    /\ execution[c] = "none"
    /\ IF c \in expired
       THEN /\ execution' = [execution EXCEPT ![c] = "expired"]
            /\ results' = results \union {<<c, "expired">>}
            /\ UNCHANGED <<awaiting, calls>>
       ELSE /\ execution' = [execution EXCEPT ![c] = "calling"]
            /\ awaiting' = awaiting \union {c}
            /\ calls' = calls \union {c}
            /\ UNCHANGED results
    /\ UNCHANGED <<decision, auditDue, storeVars>>

\* A redelivery joins the execution in flight, or gets its result at once.
JoinExecution(c) ==
    /\ TakeMessage(c)
    /\ execution[c] # "none"
    /\ IF execution[c] = "calling"
       THEN awaiting' = awaiting \union {c} /\ UNCHANGED results
       ELSE results' = results \union {<<c, execution[c]>>} /\ UNCHANGED awaiting
    /\ UNCHANGED <<execution, calls, decision, auditDue, storeVars>>

\* The execution is over: every handler that waits sends the result, on the
\* socket it was called for and only while that is open.
FinishExecution(c, outcome) ==
    /\ execution[c] = "calling"
    /\ execution' = [execution EXCEPT ![c] = outcome]
    /\ awaiting' = awaiting \ {c}
    /\ results' = IF c \in awaiting THEN results \union {<<c, outcome>>} ELSE results

RuntimeDecides(c) ==
    /\ c \in calls
    /\ decision[c] = "none"
    /\ \E d \in Decision \ {"none"} : decision' = [decision EXCEPT ![c] = d]
    /\ UNCHANGED <<execution, awaiting, calls, results, auditDue, storeVars, relayVars>>

\* mutant: `result.accepted' is not looked at
AnyAnswerSucceeds(d) == IF d = "conflicted" THEN "conflict" ELSE "succeeded"

VerdictOf(d) ==
    CASE d = "accepted" -> "succeeded"
      [] d = "refused" -> "rejected"
      [] d = "conflicted" -> "conflict"

RuntimeReplies(c) ==
    /\ c \in calls
    /\ decision[c] # "none"
    /\ FinishExecution(c, VerdictOf(decision[c]))
    /\ calls' = calls \ {c}
    /\ UNCHANGED <<decision, auditDue, storeVars, relayVars>>

\* 30 s pass, the connection breaks, or the answer is unreadable: "failed",
\* whether the Runtime has decided, or will yet decide, or not.
RuntimeUnavailable(c) ==
    /\ FinishExecution(c, "failed")
    /\ UNCHANGED <<calls, decision, auditDue, storeVars, relayVars>>

\* setTimeout(..., 60_000) after the execution.
EvictExecution(c) ==
    /\ execution[c] \in TerminalStatus
    /\ execution' = [execution EXCEPT ![c] = "none"]
    /\ UNCHANGED <<awaiting, calls, decision, results, auditDue, storeVars, relayVars>>

---------------------------------------------------------------------------
\* The gateway's side: completeCommandFromConnector, then appendAudit.  Its
\* message handlers run side by side, so messages are a set; a second copy of
\* a result finds the row settled and changes nothing.

ReceiveResult(c, outcome) ==
    /\ <<c, outcome>> \in results
    /\ results' = results \ {<<c, outcome>>}
    /\ IF AcceptsCompletion(c)
       THEN UpdateStatus(c, outcome) /\ auditDue' = auditDue \union {<<c, outcome>>}
       ELSE UNCHANGED <<auditDue, storeVars>>
    /\ UNCHANGED <<execution, awaiting, calls, decision, relayVars>>

AuditCompleted(c, outcome) ==
    /\ <<c, outcome>> \in auditDue
    /\ auditDue' = auditDue \ {<<c, outcome>>}
    /\ completionAudit' = [completionAudit EXCEPT ![c] = Append(@, outcome)]
    /\ UNCHANGED <<status, identity, expired, attempts, createdAudit,
                   execution, awaiting, calls, decision, results, relayVars>>

---------------------------------------------------------------------------
\* Failures.

DropSocket ==
    /\ inbox' = {}
    /\ awaiting' = {}
    /\ UNCHANGED <<jobState, attemptsMade, stalls, lockOwner>>

\* The socket closes; results the gateway has read are still handled.
LoseSocket ==
    /\ "socket_loss" \in Faults
    /\ DropSocket
    /\ \E read \in SUBSET results : results' = read
    /\ UNCHANGED <<execution, calls, decision, auditDue, storeVars>>

\* A statement of the gateway's handler fails: close(1011).
DatabaseFailsGateway ==
    /\ "db_error" \in Faults
    /\ \/ \E m \in results : results' = results \ {m} /\ UNCHANGED auditDue
       \/ \E m \in auditDue : auditDue' = auditDue \ {m} /\ UNCHANGED results
    /\ DropSocket
    /\ UNCHANGED <<execution, calls, decision, storeVars>>

\* The connector's map is memory only; requests already sent are not recalled.
RestartConnector ==
    /\ "connector_restart" \in Faults
    /\ execution' = [c \in Command |-> "none"]
    /\ DropSocket
    /\ \E read \in SUBSET results : results' = read
    /\ UNCHANGED <<calls, decision, auditDue, storeVars>>

\* The API process dies with the socket and the handlers running for it.
DropGateway ==
    /\ results' = {}
    /\ auditDue' = {}
    /\ DropSocket
    /\ UNCHANGED <<execution, calls, decision>>

ConnectorStep(c) ==
    \/ StartExecution(c)
    \/ JoinExecution(c)
    \/ RuntimeDecides(c)
    \/ RuntimeReplies(c)
    \/ RuntimeUnavailable(c)
    \/ EvictExecution(c)
    \/ \E outcome \in TerminalStatus :
        ReceiveResult(c, outcome) \/ AuditCompleted(c, outcome)

ConnectorFault == LoseSocket \/ DatabaseFailsGateway \/ RestartConnector
===============================================================================
