----------------------------- MODULE CommandStore -----------------------------
(***************************************************************************)
(* The tables hub.commands, hub.command_attempts and hub.audit_logs, and   *)
(* the statements packages/database/src/repository.ts runs on them.  Each  *)
(* operator below is ONE SQL statement, the unit of atomicity: a method    *)
(* that awaits two statements is two actions of its caller.                *)
(*                                                                         *)
(* One owner: (ownerId, idempotencyKey) is unique, so the key names the    *)
(* row and a Command stands for both.                                      *)
(***************************************************************************)
EXTENDS CommandPolicy, Naturals, Sequences

CONSTANTS
    Command,        \* idempotency keys, hence possible rows
    Body,           \* request bodies (identity and spelling)
    None,           \* "no row", "no command", "no worker"
    MaxAttempts,    \* BullMQ attempts per job: 8 in the code
    Faults          \* the kinds of fault an instance lets happen

FaultKind == {"db_error", "relay_error", "api_crash", "worker_crash",
              "lock_lost", "connector_restart", "socket_loss"}

ASSUME NoneAssumption == None \notin Command /\ None \notin Body
ASSUME MaxAttemptsAssumption == MaxAttempts \in Nat \ {0}
ASSUME FaultsAssumption == Faults \subseteq FaultKind

VARIABLES
    status,             \* commands.status; "none" when there is no row
    identity,           \* the request the row was inserted from
    expired,            \* rows with expires_at <= now, by the one clock
    attempts,           \* command_attempts.status by attempt number
    createdAudit,       \* how many command.created entries a row has
    completionAudit     \* statuses of its command.completed entries

storeVars == <<status, identity, expired, attempts, createdAudit, completionAudit>>

StoreTypeOK ==
    /\ status \in [Command -> CommandStatus \union {"none"}]
    /\ identity \in [Command -> Body \union {None}]
    /\ expired \in SUBSET Command
    /\ attempts \in [Command ->
            [1..MaxAttempts -> {"none", "delivering", "published", "not_routed"}]]
    /\ createdAudit \in [Command -> Nat]
    /\ completionAudit \in [Command -> Seq(TerminalStatus)]

StoreInit ==
    /\ status = [c \in Command |-> "none"]
    /\ identity = [c \in Command |-> None]
    /\ expired = {}
    /\ attempts = [c \in Command |-> [n \in 1..MaxAttempts |-> "none"]]
    /\ createdAudit = [c \in Command |-> 0]
    /\ completionAudit = [c \in Command |-> <<>>]

Row(c) == status[c] # "none"
Open(c) == status[c] \in OpenStatus
Settled(c) == status[c] \in TerminalStatus

\* insert into commands ... on conflict (owner_id, idempotency_key) do nothing
InsertRow(c, body) ==
    IF Row(c) THEN UNCHANGED storeVars
    ELSE /\ status' = [status EXCEPT ![c] = "created"]
         /\ identity' = [identity EXCEPT ![c] = body]
         /\ UNCHANGED <<expired, attempts, createdAudit, completionAudit>>

\* setCommandStatus, first half: is the status just read one we may leave?
MaySetStatus(current, goal) ==
    current = goal \/ canTransitionCommand(current, goal)

\* mutant: the optimistic `where status = current' is dropped
StatusStillUnchecked(c, current) == Row(c)

\* setCommandStatus, second half: ... where id = c and status = current
StatusStill(c, current) == status[c] = current

\* The error code, result and timestamps set with it are not modelled.
UpdateStatus(c, goal) ==
    /\ status' = [status EXCEPT ![c] = goal]
    /\ UNCHANGED <<identity, expired, attempts, createdAudit, completionAudit>>

\* mutant: completeCommandFromConnector loses its `status in (...)' clause
AcceptsAnyCompletion(c) == Row(c)

\* completeCommandFromConnector: ... and status in ('queued', 'delivering')
AcceptsCompletion(c) == status[c] \in {"queued", "delivering"}

\* mutant: no attempt row is written before the command is published
AttemptForgotten(c, n) == UNCHANGED storeVars

\* createCommandAttempt: insert, or find the row a stalled run left
OpenAttempt(c, n) ==
    /\ attempts' = IF attempts[c][n] = "none"
                   THEN [attempts EXCEPT ![c][n] = "delivering"]
                   ELSE attempts
    /\ UNCHANGED <<status, identity, expired, createdAudit, completionAudit>>

finishCommandAttempt(c, n, outcome) ==
    /\ attempts' = [attempts EXCEPT ![c][n] = outcome]
    /\ UNCHANGED <<status, identity, expired, createdAudit, completionAudit>>

\* listRecoverableCommands: every open row whose expiry is still ahead
Recoverable == {c \in Command : Open(c) /\ c \notin expired}

\* Wall-clock time reaches expires_at: isCommandExpired turns true for good.
PassExpiry(c) ==
    /\ Row(c) /\ c \notin expired
    /\ expired' = expired \union {c}
    /\ UNCHANGED <<status, identity, attempts, createdAudit, completionAudit>>
==============================================================================
