------------------------- MODULE CommandRecords_proofs -------------------------
(***************************************************************************)
(* What the tables record of a command, for all values of the constants:   *)
(* the request it was created for, the entries of its audit log and the    *)
(* attempts to deliver it.                                                 *)
(***************************************************************************)
EXTENDS CommandDelivery_proofs

---------------------------------------------------------------------------
(***************************************************************************)
(* The request a row was created for.  A row keeps its identity, and a     *)
(* request gets past the comparison, or past the insert, only if it asks   *)
(* for what the row was created for.                                       *)
(***************************************************************************)

LEMMA SameCommandsAgree ==
    ASSUME NEW a, NEW b, NEW c
    PROVE  /\ sameIdempotentCommand(a, a)
           /\ sameIdempotentCommand(a, b) /\ sameIdempotentCommand(a, c)
                => sameIdempotentCommand(b, c)
  BY DEF sameIdempotentCommand

LEMMA RowsKeepIdentity ==
    ASSUME StoreTypeOK, StoreStep, NEW c \in Command, Row(c)
    PROVE  identity'[c] = identity[c]
  BY DEF StoreTypeOK, StoreStep, HubStatement, storeVars, InsertRow, SetByHub, SetByConnector,
     UpdateStatus, OpenAttempt, finishCommandAttempt, AppendCreated, AppendCompleted, PassExpiry, Row

AskedForTheRow ==
    \A r \in Request :
        reqPc[r] \in {"audit", "enqueue", "read", "write"} \/ reply[r] = "accepted"
            => SameRequest(r)

LEMMA AskedInit == Init => AskedForTheRow
  BY DEF Init, ApiInit, AskedForTheRow

LEMMA StepAsks ==
    ASSUME TypeInv, QueueInv, AskedForTheRow, [Next]_vars
    PROVE  AskedForTheRow'
  <1>k. \A c \in Command : Row(c) => identity'[c] = identity[c]
    BY StepReaches, RowsKeepIdentity DEF TypeInv, TypeOK
  <1>t. /\ ApiTypeOK
        /\ identity \in [Command -> Body \union {None}]
        /\ \A r \in Request : reqPc[r] # "idle" => reqKey[r] \in Command /\ reqBody[r] \in Body
    BY DEF TypeInv, TypeOK, StoreTypeOK, ProcessesHoldCommands
  <1>q. \A r \in Request :
            /\ reqPc[r] \in {"audit", "lookup", "enqueue", "read", "write"} => Row(reqKey[r])
            /\ reply[r] = "accepted" => reqPc[r] = "done" /\ Row(reqKey[r])
    BY <1>t DEF QueueInv, RequestsQueued, RowsQueued
  <1> DEFINE Asks(r) ==
        reqPc[r] \in {"audit", "enqueue", "read", "write"} \/ reply[r] = "accepted"
            => SameRequest(r)
  <1>o. ASSUME NEW r \in Request,
               UNCHANGED <<reqKey[r], reqBody[r]>>,
               \/ UNCHANGED <<reqPc[r], reply[r]>>
               \/ reqPc'[r] = "lost" /\ UNCHANGED reply[r]
        PROVE  Asks(r)'
    BY <1>o, <1>k, <1>q, <1>t DEF AskedForTheRow, SameRequest
  <1>1. ASSUME NEW r \in Request, ApiStep(r) PROVE AskedForTheRow'
    <2>o. ASSUME NEW s \in Request, s # r PROVE Asks(s)'
      BY <1>1, <1>o, <1>t, <2>o DEF ApiStep, ApiTypeOK, ReceiveRequest, AssertRuntimeOwner, InsertCommand,
         AuditCreated, LookupExisting, EnqueueCommand, ReadForQueued, WriteQueued, DatabaseFails,
         RelayFails, Goto, Answer
    <2>q. reqPc[r] \in {"audit", "enqueue", "read", "write"} => SameRequest(r)
      BY DEF AskedForTheRow
    <2>r. Asks(r)'
      <3> USE <1>k, <1>q, <1>t, <2>q DEF ApiTypeOK, Goto, Answer, SameRequest
      <3>1. ASSUME NEW c \in Command, NEW body \in Body, ReceiveRequest(r, c, body) PROVE Asks(r)'
        BY <3>1 DEF ReceiveRequest
      <3>2. CASE AssertRuntimeOwner(r)
        BY <3>2 DEF AssertRuntimeOwner
      <3>3. CASE InsertCommand(r)
        BY <3>3, SameCommandsAgree DEF InsertCommand, InsertRow
      <3>4. CASE AuditCreated(r) \/ EnqueueCommand(r) \/ ReadForQueued(r) \/ WriteQueued(r)
        BY <3>4 DEF AuditCreated, EnqueueCommand, ReadForQueued, WriteQueued
      <3>5. CASE LookupExisting(r)
        BY <3>5 DEF LookupExisting, storeVars
      <3>6. CASE DatabaseFails(r) \/ RelayFails(r)
        BY <3>6 DEF DatabaseFails, RelayFails
      <3> QED
        BY <1>1, <3>1, <3>2, <3>3, <3>4, <3>5, <3>6 DEF ApiStep
    <2> QED
      BY <2>o, <2>r DEF AskedForTheRow
  <1>2. CASE UNCHANGED apiVars
    BY <1>2, <1>o DEF apiVars, AskedForTheRow
  <1>3. CASE ApiCrash
    BY <1>3, <1>o, <1>t DEF ApiCrash, DropRequests, ApiTypeOK, AskedForTheRow
  <1> QED
    BY <1>1, <1>2, <1>3 DEF Next, Api, Processor, Handler, WorkerFault, StalledCheck, Connector, Clock,
       vars

\* Whichever of two requests wins the race for a key, they are both accepted
\* only if they ask for the same command.
THEOREM AcceptedMeansTheSame == Spec => []AcceptedRequestsAgree
  <1>1. AskedForTheRow => AcceptedRequestsAgree
    BY SameCommandsAgree DEF AskedForTheRow, AcceptedRequestsAgree, SameRequest
  <1>2. Spec => []AskedForTheRow
    BY AskedInit, StepAsks, TypeInvHolds, QueueInvHolds, PTL DEF Spec
  <1> QED
    BY <1>1, <1>2, PTL

---------------------------------------------------------------------------
(***************************************************************************)
(* The audit log.  Only the request whose insert made the row is on its    *)
(* way to audit the creation; only the result that settled the row is due  *)
(* to be audited, and the row has kept that status.                        *)
(***************************************************************************)

CreatedOnce ==
    /\ \A c \in Command : createdAudit[c] <= 1 /\ (createdAudit[c] # 0 => Row(c))
    /\ \A r \in Request : reqPc[r] = "audit" => createdAudit[reqKey[r]] = 0
    /\ \A r, s \in Request :
        reqPc[r] = "audit" /\ reqPc[s] = "audit" /\ reqKey[r] = reqKey[s] => r = s

CompletedOnce ==
    \A c \in Command :
        /\ completionAudit[c] # <<>> => Settled(c) /\ completionAudit[c] = <<status[c]>>
        /\ \A outcome \in TerminalStatus :
            <<c, outcome>> \in auditDue =>
                Settled(c) /\ status[c] = outcome /\ completionAudit[c] = <<>>

AuditInv == CreatedOnce /\ CompletedOnce

LEMMA AuditInit == Init => AuditInv
  BY DEF Init, StoreInit, ApiInit, ConnectorInit, AuditInv, CreatedOnce, CompletedOnce

LEMMA CreationAuditedOnce ==
    ASSUME TypeInv, QueueInv, CreatedOnce, [Next]_vars
    PROVE  CreatedOnce'
  <1>k. \A c \in Command : Row(c) => Row(c)'
    BY StepKeeps
  <1>t. /\ ApiTypeOK
        /\ status \in [Command -> CommandStatus \union {"none"}]
        /\ createdAudit \in [Command -> Nat]
        /\ \A r \in Request : reqPc[r] # "idle" => reqKey[r] \in Command
    BY DEF TypeInv, TypeOK, StoreTypeOK, ProcessesHoldCommands
  <1>q. \A r \in Request : reqPc[r] = "audit" => Row(reqKey[r])
    BY DEF QueueInv, RequestsQueued
  <1>o. ASSUME UNCHANGED <<createdAudit, reqKey>>,
               \A r \in Request : reqPc'[r] = "audit" => reqPc[r] = "audit"
        PROVE  CreatedOnce'
    BY <1>o, <1>k, <1>t DEF CreatedOnce
  <1>1. ASSUME NEW r \in Request, ApiStep(r) PROVE CreatedOnce'
    <2> USE <1>t DEF ApiTypeOK, Goto, Answer
    <2>1. ASSUME NEW c \in Command, NEW body \in Body, ReceiveRequest(r, c, body)
          PROVE  CreatedOnce'
      BY <2>1, <1>k DEF ReceiveRequest, CreatedOnce, storeVars
    <2>2. CASE InsertCommand(r) /\ Row(reqKey[r])
      BY <2>2, <1>o DEF InsertCommand, InsertRow, storeVars
    <2>3. CASE InsertCommand(r) /\ ~ Row(reqKey[r])
      <3>1. /\ reqPc' = [reqPc EXCEPT ![r] = "audit"]
            /\ UNCHANGED <<createdAudit, reqKey>>
            /\ reqKey[r] \in Command
        BY <2>3 DEF InsertCommand, InsertRow
      <3> QED
        BY <3>1, <2>3, <1>k, <1>q DEF CreatedOnce
    <2>4. CASE AuditCreated(r)
      <3>1. /\ reqPc[r] = "audit" /\ reqKey[r] \in Command
            /\ reqPc' = [reqPc EXCEPT ![r] = "enqueue"]
            /\ createdAudit' = [createdAudit EXCEPT ![reqKey[r]] = @ + 1]
            /\ UNCHANGED <<status, reqKey>>
        BY <2>4 DEF AuditCreated
      <3>2. createdAudit[reqKey[r]] = 0 /\ Row(reqKey[r])
        BY <3>1, <1>q DEF CreatedOnce
      <3> QED
        BY <3>1, <3>2, <1>k DEF CreatedOnce
    <2>5. CASE \/ AssertRuntimeOwner(r) \/ LookupExisting(r) \/ EnqueueCommand(r)
               \/ ReadForQueued(r) \/ WriteQueued(r) \/ DatabaseFails(r) \/ RelayFails(r)
      BY <2>5, <1>o DEF AssertRuntimeOwner, LookupExisting, EnqueueCommand, ReadForQueued,
         WriteQueued, UpdateStatus, DatabaseFails, RelayFails, storeVars
    <2> QED
      BY <1>1, <2>1, <2>2, <2>3, <2>4, <2>5 DEF ApiStep
  <1>2. ASSUME UNCHANGED <<createdAudit, apiVars>> PROVE CreatedOnce'
    BY <1>2, <1>o DEF apiVars
  <1>3. ASSUME NEW w \in Worker, WorkerStep(w) PROVE UNCHANGED createdAudit
    BY <1>3 DEF WorkerStep, ProcessorStep, HandlerStep, StartWorker, RecoverCommand, OpenForWork,
       TakeJob, LoadCommand, CheckPresence, CreateAttempt, ReadStatus, WriteStatus, PublishCommand,
       FinishAttempt, CompleteJob, FailJob, LoadExhausted, ReadExhausted, WriteExhausted,
       DatabaseFailsWorker, RelayFailsWorker, CrashWorker, UpdateStatus, OpenAttempt,
       finishCommandAttempt, storeVars
  <1>4. Connector => UNCHANGED createdAudit
    BY DEF Connector, ConnectorStep, ConnectorFault, StartExecution, JoinExecution, RuntimeDecides,
       RuntimeReplies, RuntimeUnavailable, EvictExecution, ReceiveResult, UpdateStatus, AuditCompleted,
       LoseSocket, DatabaseFailsGateway, RestartConnector, storeVars
  <1>5. CASE ApiCrash
    BY <1>5, <1>o, <1>t DEF ApiCrash, DropRequests, ApiTypeOK, storeVars
  <1>6. CASE StalledCheck \/ Clock \/ UNCHANGED vars
    BY <1>6, <1>2 DEF StalledCheck, ReclaimJob, Clock, PassExpiry, storeVars, vars
  <1> QED
    BY <1>1, <1>2, <1>3, <1>4, <1>5, <1>6 DEF Next, Api, Processor, Handler, WorkerFault, WorkerStep,
       Connector

LEMMA CompletionAuditedOnce ==
    ASSUME TypeInv, CompletedOnce, [Next]_vars
    PROVE  CompletedOnce'
  <1>k. \A c \in Command : Settled(c) => status'[c] = status[c]
    BY StepKeeps
  <1>t. /\ status \in [Command -> CommandStatus \union {"none"}]
        /\ completionAudit \in [Command -> Seq(TerminalStatus)]
    BY DEF TypeInv, TypeOK, StoreTypeOK
  <1>o. ASSUME UNCHANGED completionAudit, auditDue' \subseteq auditDue
        PROVE  CompletedOnce'
    BY <1>o, <1>k DEF CompletedOnce, Settled
  <1>1. ASSUME NEW c \in Command, NEW outcome \in TerminalStatus, ReceiveResult(c, outcome)
        PROVE  CompletedOnce'
    <2>1. CASE AcceptsCompletion(c)
      <3>1. /\ status' = [status EXCEPT ![c] = outcome]
            /\ auditDue' = auditDue \union {<<c, outcome>>}
            /\ UNCHANGED completionAudit
            /\ ~ Settled(c)
        BY <1>1, <2>1 DEF ReceiveResult, UpdateStatus, AcceptsCompletion, Settled, TerminalStatus
      <3>2. completionAudit[c] = <<>> /\ \A v \in TerminalStatus : <<c, v>> \notin auditDue
        BY <3>1 DEF CompletedOnce
      <3>3. Settled(c)' /\ status'[c] = outcome
        BY <3>1, <1>t DEF Settled
      <3> QED
        BY <3>1, <3>2, <3>3, <1>k DEF CompletedOnce, Settled
    <2>2. CASE ~ AcceptsCompletion(c)
      BY <1>1, <2>2, <1>o DEF ReceiveResult, storeVars
    <2> QED
      BY <2>1, <2>2
  <1>2. ASSUME NEW c \in Command, NEW outcome \in TerminalStatus, AuditCompleted(c, outcome)
        PROVE  CompletedOnce'
    <2>1. /\ <<c, outcome>> \in auditDue
          /\ auditDue' = auditDue \ {<<c, outcome>>}
          /\ completionAudit' = [completionAudit EXCEPT ![c] = Append(@, outcome)]
          /\ UNCHANGED status
      BY <1>2 DEF AuditCompleted
    <2>2. Settled(c) /\ status[c] = outcome /\ completionAudit[c] = <<>>
      BY <2>1 DEF CompletedOnce
    <2>3. completionAudit'[c] = <<outcome>>
      BY <2>1, <2>2, <1>t
    <2>4. \A v \in TerminalStatus : <<c, v>> \notin auditDue'
      BY <2>1, <2>2 DEF CompletedOnce
    <2> QED
      BY <2>1, <2>2, <2>3, <2>4, <1>t DEF CompletedOnce, Settled
  <1>3. ASSUME NEW w \in Worker, WorkerStep(w) PROVE UNCHANGED completionAudit
    BY <1>3 DEF WorkerStep, ProcessorStep, HandlerStep, StartWorker, RecoverCommand, OpenForWork,
       TakeJob, LoadCommand, CheckPresence, CreateAttempt, ReadStatus, WriteStatus, PublishCommand,
       FinishAttempt, CompleteJob, FailJob, LoadExhausted, ReadExhausted, WriteExhausted,
       DatabaseFailsWorker, RelayFailsWorker, CrashWorker, UpdateStatus, OpenAttempt,
       finishCommandAttempt, storeVars
  <1>4. ASSUME NEW r \in Request, ApiStep(r) PROVE UNCHANGED completionAudit
    BY <1>4 DEF ApiStep, ReceiveRequest, AssertRuntimeOwner, InsertCommand, InsertRow, AuditCreated,
       LookupExisting, EnqueueCommand, ReadForQueued, WriteQueued, DatabaseFails, RelayFails,
       UpdateStatus, storeVars
  <1>5. ASSUME NEW c \in Command,
               \/ StartExecution(c) \/ JoinExecution(c) \/ RuntimeDecides(c)
               \/ RuntimeReplies(c) \/ RuntimeUnavailable(c) \/ EvictExecution(c)
        PROVE  CompletedOnce'
    BY <1>5, <1>o DEF StartExecution, JoinExecution, RuntimeDecides, RuntimeReplies,
       RuntimeUnavailable, EvictExecution, storeVars
  <1>6. CASE ConnectorFault
    BY <1>6, <1>o DEF ConnectorFault, LoseSocket, DatabaseFailsGateway, RestartConnector, storeVars
  <1>7. CASE StalledCheck \/ Clock \/ ApiCrash \/ UNCHANGED vars
    BY <1>7, <1>o DEF StalledCheck, ReclaimJob, Clock, PassExpiry, ApiCrash, DropGateway, storeVars,
       connectorVars, vars
  <1>8. CASE UNCHANGED <<completionAudit, connectorVars>>
    BY <1>8, <1>o DEF connectorVars
  <1> QED
    BY <1>1, <1>2, <1>3, <1>4, <1>5, <1>6, <1>7, <1>8 DEF Next, Api, Processor, Handler, WorkerFault,
       WorkerStep, Connector, ConnectorStep

\* However results race, repeat and get lost, the audit log tells of a row no
\* more than once how it began and how it ended, and nothing else than the row.
THEOREM AuditNamesTheRow == Spec => []AuditMatchesRow
  <1>1. TypeInv /\ AuditInv => AuditMatchesRow
    BY DEF AuditInv, CreatedOnce, CompletedOnce, AuditMatchesRow
  <1>2. TypeInv /\ QueueInv /\ AuditInv /\ [Next]_vars => AuditInv'
    BY CreationAuditedOnce, CompletionAuditedOnce DEF AuditInv
  <1> QED
    BY <1>1, <1>2, AuditInit, TypeInvHolds, QueueInvHolds, PTL DEF Spec

---------------------------------------------------------------------------
(***************************************************************************)
(* The attempts.  A worker publishes in an attempt it has recorded, nobody *)
(* deletes an attempt, and the Runtime is asked only for what arrived.     *)
(***************************************************************************)

Traced(c) == \E n \in 1..MaxAttempts : attempts[c][n] # "none"

\* Worker w is past createCommandAttempt and on its way to PUBLISH.
Delivering(w) ==
    wPc[w] = "publish" \/ (wPc[w] \in {"read", "write"} /\ wGoal[w] # "expired")

WorkersTrace ==
    \A w \in Worker : Delivering(w) => attempts[wCmd[w]][wAttempt[w]] # "none"

DeliveriesTraced ==
    \A c \in Command : InDelivery(c) \/ decision[c] # "none" => Traced(c)

TraceInv == WorkersTrace /\ DeliveriesTraced

LEMMA TraceInit == Init => TraceInv
  BY DEF Init, RelayInit, WorkerInit, ConnectorInit, TraceInv, WorkersTrace, Delivering, DeliveriesTraced, InDelivery

LEMMA AttemptsStay ==
    ASSUME StoreTypeOK, StoreStep
    PROVE  /\ \A c \in Command, n \in 1..MaxAttempts :
                attempts[c][n] # "none" => attempts'[c][n] # "none"
           /\ \A c \in Command : Traced(c) => Traced(c)'
  <1>t. attempts \in [Command ->
            [1..MaxAttempts -> {"none", "delivering", "published", "not_routed"}]]
    BY DEF StoreTypeOK
  <1>1. \/ UNCHANGED attempts
        \/ \E d \in Command, m \in 1..MaxAttempts, outcome \in {"delivering", "published", "not_routed"} :
            attempts' = [attempts EXCEPT ![d][m] = outcome]
    BY DEF StoreStep, HubStatement, storeVars, InsertRow, SetByHub, SetByConnector, UpdateStatus,
       OpenAttempt, finishCommandAttempt, AppendCreated, AppendCompleted, PassExpiry
  <1>2. ASSUME NEW c \in Command, NEW n \in 1..MaxAttempts, attempts[c][n] # "none"
        PROVE  attempts'[c][n] # "none"
    <2>1. ASSUME NEW d \in Command, NEW m \in 1..MaxAttempts,
                 NEW outcome \in {"delivering", "published", "not_routed"},
                 attempts' = [attempts EXCEPT ![d][m] = outcome]
          PROVE  attempts'[c][n] # "none"
      <3>1. attempts' = [attempts EXCEPT ![d] = [@ EXCEPT ![m] = outcome]]
        BY <2>1
      <3>2. attempts'[c] = IF c = d THEN [attempts[c] EXCEPT ![m] = outcome] ELSE attempts[c]
        BY <1>t, <3>1
      <3>3. attempts'[c][n] \in {attempts[c][n], outcome}
        BY <1>t, <3>2
      <3> QED
        BY <1>2, <3>3
    <2> QED
      BY <1>1, <1>2, <2>1
  <1> QED
    BY <1>2 DEF Traced

LEMMA WorkerTraces ==
    ASSUME TypeInv, TraceInv, NEW w \in Worker, WorkerStep(w),
           UNCHANGED <<apiVars, connectorVars>>
    PROVE  TraceInv'
  <1>k. /\ \A c \in Command, n \in 1..MaxAttempts :
             attempts[c][n] # "none" => attempts'[c][n] # "none"
        /\ \A c \in Command : Traced(c) => Traced(c)'
    BY WorkerReaches, AttemptsStay DEF StoreStep, TypeInv, TypeOK
  <1>t. /\ attempts \in [Command ->
                [1..MaxAttempts -> {"none", "delivering", "published", "not_routed"}]]
        /\ WorkerTypeOK
        /\ \A v \in Worker : wPc[v] \in BusyPc => wCmd[v] \in Command
    BY DEF TypeInv, TypeOK, StoreTypeOK, ProcessesHoldCommands
  <1> DEFINE Traces(v) == Delivering(v) => attempts[wCmd[v]][wAttempt[v]] # "none"
  <1>0. \A v \in Worker : Traces(v)
    BY DEF TraceInv, WorkersTrace
  <1>o. \A v \in Worker : v # w => Traces(v)'
    <2>1. \A v \in Worker : v # w => UNCHANGED <<wPc[v], wCmd[v], wAttempt[v], wGoal[v]>>
      BY <1>t DEF WorkerTypeOK, WorkerStep, ProcessorStep, HandlerStep, StartWorker, RecoverCommand,
         OpenForWork, TakeJob, LoadCommand, CheckPresence, CreateAttempt, ReadStatus, WriteStatus,
         PublishCommand, FinishAttempt, CompleteJob, FailJob, LoadExhausted, ReadExhausted,
         WriteExhausted, DatabaseFailsWorker, RelayFailsWorker, CrashWorker, Throw, Rest, Go, KeepLocals
    <2> QED
      BY <2>1, <1>0, <1>k, <1>t DEF Traces, Delivering, WorkerTypeOK, BusyPc, ProcessorPc
  <1>s. Traces(w)'
    <2> USE <1>0, <1>k, <1>t DEF Delivering, WorkerTypeOK, Go, KeepLocals, BusyPc, ProcessorPc
    <2>1. CASE LoadCommand(w)
      BY <2>1 DEF LoadCommand, GoalFor
    <2>2. CASE CreateAttempt(w)
      <3>1. wCmd[w] \in Command /\ wAttempt[w] \in 1..MaxAttempts
        BY <2>2 DEF CreateAttempt
      <3>2. attempts'[wCmd[w]][wAttempt[w]] # "none"
        BY <2>2, <3>1 DEF CreateAttempt, OpenAttempt
      <3> QED
        BY <2>2, <3>1, <3>2 DEF CreateAttempt
    <2>3. CASE ReadStatus(w)
      BY <2>3 DEF ReadStatus
    <2>4. CASE WriteStatus(w)
      BY <2>4 DEF WriteStatus, AfterWrite
    <2>5. CASE ~ (LoadCommand(w) \/ CreateAttempt(w) \/ ReadStatus(w) \/ WriteStatus(w))
      <3>1. ASSUME NEW c \in Command, RecoverCommand(w, c) PROVE wPc'[w] = "recover"
        BY <3>1 DEF RecoverCommand
      <3>2. wPc'[w] \notin {"publish", "read", "write"}
        BY <2>5, <3>1 DEF WorkerStep, ProcessorStep, HandlerStep, StartWorker, OpenForWork, TakeJob,
           CheckPresence, PublishCommand, FinishAttempt, AfterPublish, CompleteJob, FailJob,
           LoadExhausted, ReadExhausted, WriteExhausted, DatabaseFailsWorker, RelayFailsWorker,
           CrashWorker, Throw, Rest
      <3> QED
        BY <3>2
    <2> QED
      BY <2>1, <2>2, <2>3, <2>4, <2>5
  <1>d. DeliveriesTraced'
    <2>1. wPc[w] = "publish" => wCmd[w] \in Command /\ Traced(wCmd[w])
      BY <1>0, <1>t DEF Traces, Delivering, Traced, WorkerTypeOK, BusyPc, ProcessorPc
    <2>2. inbox' \subseteq inbox \union {c \in Command : Traced(c)}
      BY <2>1 DEF WorkerStep, ProcessorStep, HandlerStep, StartWorker, RecoverCommand, OpenForWork,
         TakeJob, LoadCommand, CheckPresence, CreateAttempt, ReadStatus, WriteStatus, PublishCommand,
         FinishAttempt, CompleteJob, FailJob, LoadExhausted, ReadExhausted, WriteExhausted,
         DatabaseFailsWorker, RelayFailsWorker, CrashWorker, relayVars, enqueue, LockJob,
         EndJobCompleted, EndJobFailed, publish
    <2> QED
      BY <2>2, <1>k DEF TraceInv, DeliveriesTraced, InDelivery, connectorVars
  <1> QED
    BY <1>o, <1>s, <1>d DEF TraceInv, WorkersTrace

LEMMA ConnectorTraces ==
    ASSUME TypeInv, DeliveriesTraced, Connector
    PROVE  DeliveriesTraced'
  <1>k. \A c \in Command : Traced(c) => Traced(c)'
    BY ConnectorReaches, AttemptsStay DEF TypeInv, TypeOK
  <1>t. /\ execution \in [Command -> {"none", "calling"} \union TerminalStatus]
        /\ decision \in [Command -> Decision]
        /\ results \in SUBSET Result
    BY DEF TypeInv, TypeOK, ConnectorTypeOK
  <1> USE <1>k, <1>t DEF DeliveriesTraced, InDelivery
  <1>1. ASSUME NEW c \in Command, StartExecution(c) \/ JoinExecution(c) PROVE DeliveriesTraced'
    <2>1. /\ c \in inbox /\ inbox' \subseteq inbox
          /\ \A d \in Command : d # c => execution'[d] = execution[d]
          /\ calls' \subseteq calls \union {c}
          /\ UNCHANGED decision
      BY <1>1 DEF StartExecution, JoinExecution, TakeMessage
    <2>2. \A d \in Command, outcome \in TerminalStatus :
              <<d, outcome>> \in results' => d = c \/ <<d, outcome>> \in results
      BY <1>1 DEF StartExecution, JoinExecution
    <2> QED
      BY <2>1, <2>2
  <1>2. ASSUME NEW c \in Command, RuntimeDecides(c) \/ EvictExecution(c) PROVE DeliveriesTraced'
    BY <1>2 DEF RuntimeDecides, EvictExecution, relayVars
  <1>3. ASSUME NEW c \in Command, RuntimeReplies(c) \/ RuntimeUnavailable(c) PROVE DeliveriesTraced'
    BY <1>3 DEF RuntimeReplies, RuntimeUnavailable, FinishExecution, relayVars
  <1>4. ASSUME NEW c \in Command, NEW outcome \in TerminalStatus,
               ReceiveResult(c, outcome) \/ AuditCompleted(c, outcome)
        PROVE  DeliveriesTraced'
    BY <1>4 DEF ReceiveResult, AuditCompleted, relayVars
  <1>5. CASE ConnectorFault
    <2>1. /\ inbox' = {} /\ results' \subseteq results
          /\ execution' = execution \/ execution' = [c \in Command |-> "none"]
          /\ UNCHANGED <<decision, calls>>
      BY <1>5 DEF ConnectorFault, LoseSocket, DatabaseFailsGateway, RestartConnector, DropSocket
    <2> QED
      BY <2>1
  <1> QED
    BY <1>1, <1>2, <1>3, <1>4, <1>5 DEF Connector, ConnectorStep

LEMMA StepTraces ==
    ASSUME TypeInv, TraceInv, [Next]_vars
    PROVE  TraceInv'
  <1>k. /\ \A c \in Command, n \in 1..MaxAttempts :
             attempts[c][n] # "none" => attempts'[c][n] # "none"
        /\ \A c \in Command : Traced(c) => Traced(c)'
    BY StepReaches, AttemptsStay DEF TypeInv, TypeOK
  <1>t. WorkerTypeOK /\ \A w \in Worker : wPc[w] \in BusyPc => wCmd[w] \in Command
    BY DEF TypeInv, TypeOK, ProcessesHoldCommands
  <1>w. UNCHANGED workerVars => WorkersTrace'
    BY <1>k, <1>t DEF TraceInv, WorkersTrace, Delivering, WorkerTypeOK, workerVars, BusyPc, ProcessorPc
  <1>d. UNCHANGED <<inbox, connectorVars>> => DeliveriesTraced'
    BY <1>k DEF TraceInv, DeliveriesTraced, InDelivery, connectorVars
  <1>1. CASE Api
    BY <1>1, <1>w, <1>d, ApiReaches DEF Api, TraceInv
  <1>2. CASE (\E w \in Worker : Processor(w) \/ Handler(w)) \/ WorkerFault
    BY <1>2, WorkerTraces DEF Processor, Handler, WorkerFault, WorkerStep
  <1>3. CASE StalledCheck
    <2>1. ASSUME NEW c \in Command, ReportStalled(c) PROVE WorkersTrace'
      BY <2>1, <1>k, <1>t DEF ReportStalled, Go, TraceInv, WorkersTrace, Delivering, WorkerTypeOK,
         BusyPc, ProcessorPc
    <2> QED
      BY <1>3, <2>1, <1>w, <1>d DEF StalledCheck, ReclaimJob, EndJobStalled, TraceInv
  <1>4. CASE Connector
    BY <1>4, <1>w, ConnectorTraces DEF Connector, TraceInv
  <1>5. CASE Clock
    BY <1>5, <1>w, <1>d DEF Clock, relayVars, TraceInv
  <1>6. CASE ApiCrash
    <2>1. DeliveriesTraced'
      BY <1>6, <1>k DEF ApiCrash, DropGateway, DropSocket, TraceInv, DeliveriesTraced, InDelivery
    <2> QED
      BY <1>6, <2>1, <1>w DEF ApiCrash, TraceInv
  <1>7. CASE UNCHANGED vars
    BY <1>7, <1>w, <1>d DEF vars, relayVars, TraceInv
  <1> QED
    BY <1>1, <1>2, <1>3, <1>4, <1>5, <1>6, <1>7 DEF Next

\* The Runtime never decides on a command without an attempt row that tells
\* the operator it was sent.
THEOREM ExecutionLeavesATrace == Spec => []ExecutionIsTraced
  <1>1. TraceInv => ExecutionIsTraced
    BY DEF TraceInv, DeliveriesTraced, Traced, ExecutionIsTraced
  <1> QED
    BY <1>1, TraceInit, StepTraces, TypeInvHolds, PTL DEF Spec

---------------------------------------------------------------------------
(***************************************************************************)
(* The numbers of the runs.  Only the stalled check takes a job away from  *)
(* the worker that locked it, and nobody else counts its run: as long as a *)
(* run holds the lock, its number is the one the queue is at.              *)
(***************************************************************************)

RunPc == ProcessorPc \union {"fail", "complete"}

\* What worker w may do to jobs.
JobStepOf(w) ==
    \/ UNCHANGED <<jobState, attemptsMade, stalls, lockOwner>>
    \/ \E c \in Command : enqueue(c)
    \/ \E c \in Command : LockJob(c, w) \/ EndJobCompleted(c, w) \/ EndJobFailed(c, w)

LEMMA WorkerJobStep ==
    ASSUME TypeInv, NEW w \in Worker, WorkerStep(w)
    PROVE  JobStepOf(w)
  <1>t. wTodo[w] \in SUBSET Command /\ (wPc[w] \in BusyPc => wCmd[w] \in Command)
    BY DEF TypeInv, TypeOK, WorkerTypeOK, ProcessesHoldCommands
  <1>1. CASE CompleteJob(w) \/ FailJob(w)
    BY <1>t, <1>1 DEF CompleteJob, FailJob, BusyPc, JobStepOf, relayVars
  <1>2. CASE RelayFailsWorker(w)
    BY <1>t, <1>2 DEF RelayFailsWorker, publish, JobStepOf, relayVars
  <1> QED
    BY <1>1, <1>2 DEF WorkerStep, ProcessorStep, HandlerStep, StartWorker, RecoverCommand, OpenForWork,
       TakeJob, LoadCommand, CheckPresence, CreateAttempt, ReadStatus, WriteStatus, PublishCommand,
       publish, FinishAttempt, LoadExhausted, ReadExhausted, WriteExhausted, DatabaseFailsWorker,
       CrashWorker, JobStepOf, relayVars

\* Nobody else's step locks a job for worker v or counts the run that holds it.
LEMMA OthersGetNoLock ==
    ASSUME RelayTypeOK, NEW v \in Worker, NEW d \in Command,
           NEW w \in Worker, w # v, JobStepOf(w), HoldsLock(d, v)'
    PROVE  HoldsLock(d, v) /\ attemptsMade'[d] = attemptsMade[d]
  BY WorkerAssumption
     DEF RelayTypeOK, HoldsLock, JobStepOf, enqueue, Enqueued, LockJob, EndJobCompleted, EndJobFailed

\* A worker's step touches no other worker's local variables.
LEMMA OthersKeepLocals ==
    ASSUME WorkerTypeOK, NEW w \in Worker, WorkerStep(w), NEW v \in Worker, v # w
    PROVE  wPc'[v] = wPc[v] /\ wCmd'[v] = wCmd[v] /\ wAttempt'[v] = wAttempt[v]
  BY DEF WorkerTypeOK, WorkerStep, ProcessorStep, HandlerStep, StartWorker, RecoverCommand,
     OpenForWork, TakeJob, LoadCommand, CheckPresence, CreateAttempt, ReadStatus, WriteStatus,
     PublishCommand, FinishAttempt, CompleteJob, FailJob, LoadExhausted, ReadExhausted, WriteExhausted,
     DatabaseFailsWorker, RelayFailsWorker, CrashWorker, Throw, Rest, Go, KeepLocals

\* A run begins by taking its job, and until it is over leaves it alone.
LEMMA RunsBeginAndGoOn ==
    ASSUME TypeInv, NEW w \in Worker, WorkerStep(w), wPc'[w] \in RunPc
    PROVE  \/ \E c \in Command : TakeJob(w, c)
           \/ /\ wPc[w] \in RunPc
              /\ UNCHANGED <<wCmd, wAttempt, jobState, attemptsMade, lockOwner>>
  <1> USE DEF RunPc, ProcessorPc, HandlerPc
  <1>t. WorkerTypeOK
    BY DEF TypeInv, TypeOK
  <1>1. ASSUME NEW pc \in {"idle", "down"}, Rest(w, pc) PROVE FALSE
    BY <1>t, <1>1 DEF Rest, WorkerTypeOK
  <1>2. CASE FailJob(w)
    BY <1>t, <1>1, <1>2 DEF FailJob, Go, WorkerTypeOK
  <1>3. CASE DatabaseFailsWorker(w)
    BY <1>1, <1>3 DEF DatabaseFailsWorker, Throw, KeepLocals, relayVars
  <1>4. CASE RelayFailsWorker(w)
    BY <1>1, <1>4 DEF RelayFailsWorker, Throw, KeepLocals, publish, relayVars
  <1>5. CASE StartWorker(w) \/ OpenForWork(w) \/ \E c \in Command : RecoverCommand(w, c)
    BY <1>t, <1>5 DEF StartWorker, OpenForWork, RecoverCommand, Go, WorkerTypeOK
  <1>6. CASE LoadExhausted(w) \/ ReadExhausted(w)
    BY <1>t, <1>1, <1>6 DEF LoadExhausted, ReadExhausted, Go, WorkerTypeOK
  <1>7. CASE CompleteJob(w) \/ WriteExhausted(w) \/ CrashWorker(w)
    BY <1>1, <1>7 DEF CompleteJob, WriteExhausted, CrashWorker
  <1> QED
    BY <1>2, <1>3, <1>4, <1>5, <1>6, <1>7
       DEF WorkerStep, ProcessorStep, HandlerStep, LoadCommand, CheckPresence, CreateAttempt, ReadStatus,
           WriteStatus, PublishCommand, publish, FinishAttempt, KeepLocals, relayVars

RunsAreNumbered ==
    \A v \in Worker :
        wPc[v] \in RunPc /\ HoldsLock(wCmd[v], v) => wAttempt[v] = attemptsMade[wCmd[v]] + 1

LEMMA WorkerKeepsNumbers ==
    ASSUME TypeInv, RunsAreNumbered, NEW w \in Worker, WorkerStep(w)
    PROVE  RunsAreNumbered'
  <1> SUFFICES ASSUME NEW v \in Worker, wPc'[v] \in RunPc, HoldsLock(wCmd[v], v)'
               PROVE  wAttempt'[v] = attemptsMade'[wCmd'[v]] + 1
    BY DEF RunsAreNumbered
  <1>t. /\ RelayTypeOK /\ WorkerTypeOK
        /\ wPc[v] \in RunPc => wCmd[v] \in Command
    BY DEF TypeInv, TypeOK, ProcessesHoldCommands, BusyPc, RunPc
  <1>r. wPc[v] \in RunPc /\ HoldsLock(wCmd[v], v) => wAttempt[v] = attemptsMade[wCmd[v]] + 1
    BY DEF RunsAreNumbered
  <1>1. CASE v # w
    <2>1. wPc'[v] = wPc[v] /\ wCmd'[v] = wCmd[v] /\ wAttempt'[v] = wAttempt[v]
      BY <1>t, <1>1, OthersKeepLocals
    <2>2. JobStepOf(w) /\ wCmd[v] \in Command
      BY <1>t, <2>1, WorkerJobStep
    <2>3. HoldsLock(wCmd[v], v) /\ attemptsMade'[wCmd[v]] = attemptsMade[wCmd[v]]
      BY <1>t, <1>1, <2>1, <2>2, OthersGetNoLock
    <2> QED
      BY <1>r, <2>1, <2>3
  <1>2. CASE v = w
    <2>1. ASSUME NEW c \in Command, TakeJob(w, c)
          PROVE  wAttempt'[v] = attemptsMade'[wCmd'[v]] + 1
      BY <1>2, <1>t, <2>1 DEF TakeJob, LockJob, RunNumber, RelayTypeOK, WorkerTypeOK
    <2>2. CASE wPc[w] \in RunPc /\ UNCHANGED <<wCmd, wAttempt, jobState, attemptsMade, lockOwner>>
      BY <1>2, <1>r, <2>2 DEF HoldsLock
    <2> QED
      BY <1>2, <2>1, <2>2, RunsBeginAndGoOn
  <1> QED
    BY <1>1, <1>2

\* The stalled check takes locks and gives none.
LEMMA CheckKeepsNumbers ==
    ASSUME TypeInv, RunsAreNumbered, NEW c \in Command, ReclaimJob(c)
    PROVE  RunsAreNumbered'
  <1> SUFFICES ASSUME NEW v \in Worker, wPc'[v] \in RunPc, HoldsLock(wCmd[v], v)'
               PROVE  wAttempt'[v] = attemptsMade'[wCmd'[v]] + 1
    BY DEF RunsAreNumbered
  <1>t. RelayTypeOK /\ WorkerTypeOK /\ (wPc[v] \in RunPc => wCmd[v] \in Command)
    BY DEF TypeInv, TypeOK, ProcessesHoldCommands, BusyPc, RunPc
  <1>1. wPc[v] \in RunPc /\ wCmd'[v] = wCmd[v] /\ wAttempt'[v] = wAttempt[v]
    BY <1>t DEF ReclaimJob, ReportStalled, Go, workerVars, WorkerTypeOK, RunPc, ProcessorPc
  <1>2. HoldsLock(wCmd[v], v) /\ UNCHANGED attemptsMade
    BY <1>t, <1>1 DEF ReclaimJob, EndJobStalled, HoldsLock, RelayTypeOK
  <1> QED
    BY <1>1, <1>2 DEF RunsAreNumbered

LEMMA StepKeepsNumbers ==
    ASSUME TypeInv, RunsAreNumbered, [Next]_vars
    PROVE  RunsAreNumbered'
  <1>1. ASSUME UNCHANGED <<jobState, attemptsMade, lockOwner, workerVars>>
        PROVE  RunsAreNumbered'
    BY <1>1 DEF RunsAreNumbered, HoldsLock, workerVars
  <1>2. CASE Api
    <2>1. PICK r \in Request : ApiStep(r) /\ UNCHANGED workerVars
      BY <1>2 DEF Api
    <2>2. \/ UNCHANGED <<jobState, attemptsMade, lockOwner>>
          \/ \E d \in Command : enqueue(d)
      BY <2>1 DEF ApiStep, ReceiveRequest, AssertRuntimeOwner, InsertCommand, AuditCreated,
         LookupExisting, EnqueueCommand, ReadForQueued, WriteQueued, DatabaseFails, RelayFails,
         relayVars, TypeInv, ProcessesHoldCommands
    <2>3. ASSUME NEW d \in Command, enqueue(d) PROVE RunsAreNumbered'
      <3>1. \A e \in Command : jobState'[e] = "active" => jobState[e] = "active"
        BY <2>3 DEF enqueue, Enqueued, TypeInv, TypeOK, RelayTypeOK
      <3> QED
        BY <2>1, <2>3, <3>1
           DEF enqueue, RunsAreNumbered, HoldsLock, workerVars, TypeInv, ProcessesHoldCommands,
               BusyPc, RunPc
    <2> QED
      BY <1>1, <2>1, <2>2, <2>3
  <1>3. ASSUME NEW w \in Worker, WorkerStep(w) PROVE RunsAreNumbered'
    BY <1>3, WorkerKeepsNumbers
  <1>4. CASE StalledCheck
    BY <1>4, CheckKeepsNumbers DEF StalledCheck
  <1>5. CASE Connector
    BY <1>1, <1>5 DEF Connector, ConnectorStep, ConnectorFault, ReceiveResult, StartExecution,
       JoinExecution, TakeMessage, RuntimeDecides, RuntimeReplies, RuntimeUnavailable, EvictExecution,
       AuditCompleted, LoseSocket, DatabaseFailsGateway, RestartConnector, DropSocket, relayVars
  <1>6. CASE Clock \/ ApiCrash \/ UNCHANGED vars
    BY <1>1, <1>6 DEF Clock, ApiCrash, DropGateway, DropSocket, vars, relayVars
  <1> QED
    BY <1>2, <1>3, <1>4, <1>5, <1>6 DEF Next, Processor, Handler, WorkerFault, WorkerStep

\* Only a run writes attempt rows, and only the one of its own number.
LEMMA RunsWriteTheirRow ==
    ASSUME TypeInv, [Next]_vars
    PROVE  \/ UNCHANGED attempts
           \/ \E w \in Worker :
                /\ wPc[w] \in ProcessorPc /\ wCmd[w] \in Command
                /\ \A c \in Command, n \in 1..MaxAttempts :
                     c # wCmd[w] \/ n # wAttempt[w] => attempts'[c][n] = attempts[c][n]
  <1>t. /\ attempts \in [Command ->
              [1..MaxAttempts -> {"none", "delivering", "published", "not_routed"}]]
        /\ WorkerTypeOK
        /\ \A w \in Worker : wPc[w] \in BusyPc => wCmd[w] \in Command
    BY DEF TypeInv, TypeOK, StoreTypeOK, ProcessesHoldCommands
  <1>1. ASSUME NEW w \in Worker, CreateAttempt(w) \/ FinishAttempt(w)
        PROVE  /\ wPc[w] \in ProcessorPc /\ wCmd[w] \in Command
               /\ \A c \in Command, n \in 1..MaxAttempts :
                    c # wCmd[w] \/ n # wAttempt[w] => attempts'[c][n] = attempts[c][n]
    <2>1. wPc[w] \in ProcessorPc /\ wCmd[w] \in Command /\ wAttempt[w] \in 1..MaxAttempts
      BY <1>t, <1>1 DEF CreateAttempt, FinishAttempt, WorkerTypeOK, BusyPc, ProcessorPc
    <2>2. \/ UNCHANGED attempts
          \/ attempts' = [attempts EXCEPT ![wCmd[w]][wAttempt[w]] = "delivering"]
          \/ attempts' = [attempts EXCEPT ![wCmd[w]][wAttempt[w]] = wRouted[w]]
      BY <1>1 DEF CreateAttempt, OpenAttempt, FinishAttempt, finishCommandAttempt
    <2>3. ASSUME NEW x, attempts' = [attempts EXCEPT ![wCmd[w]][wAttempt[w]] = x],
                 NEW c \in Command, NEW n \in 1..MaxAttempts, c # wCmd[w] \/ n # wAttempt[w]
          PROVE  attempts'[c][n] = attempts[c][n]
      <3>1. attempts' = [attempts EXCEPT ![wCmd[w]] = [@ EXCEPT ![wAttempt[w]] = x]]
        BY <2>3
      <3>2. CASE c # wCmd[w]
        BY <1>t, <3>1, <3>2
      <3>3. CASE c = wCmd[w]
        <4>1. attempts'[c] = [attempts[c] EXCEPT ![wAttempt[w]] = x]
          BY <1>t, <3>1, <3>3
        <4> QED
          BY <1>t, <2>3, <3>3, <4>1
      <3> QED
        BY <3>2, <3>3
    <2> QED
      BY <2>1, <2>2, <2>3
  <1>2. ASSUME NEW w \in Worker, WorkerStep(w), ~ (CreateAttempt(w) \/ FinishAttempt(w))
        PROVE  UNCHANGED attempts
    BY <1>2 DEF WorkerStep, ProcessorStep, HandlerStep, StartWorker, RecoverCommand, OpenForWork,
       TakeJob, LoadCommand, CheckPresence, ReadStatus, WriteStatus, PublishCommand, CompleteJob,
       FailJob, LoadExhausted, ReadExhausted, WriteExhausted, DatabaseFailsWorker, RelayFailsWorker,
       CrashWorker, UpdateStatus, storeVars
  <1>3. CASE Api
    BY <1>3 DEF Api, ApiStep, ReceiveRequest, AssertRuntimeOwner, InsertCommand, InsertRow,
       AuditCreated, AppendCreated, LookupExisting, EnqueueCommand, ReadForQueued, WriteQueued,
       DatabaseFails, RelayFails, UpdateStatus, storeVars
  <1>4. CASE Connector
    BY <1>4 DEF Connector, ConnectorStep, ConnectorFault, ReceiveResult, StartExecution,
       JoinExecution, TakeMessage, RuntimeDecides, RuntimeReplies, RuntimeUnavailable, EvictExecution,
       AuditCompleted, AppendCompleted, LoseSocket, DatabaseFailsGateway, RestartConnector, DropSocket,
       UpdateStatus, storeVars
  <1>5. CASE StalledCheck \/ Clock \/ ApiCrash \/ UNCHANGED vars
    BY <1>5 DEF StalledCheck, ReclaimJob, Clock, PassExpiry, ApiCrash, vars, storeVars
  <1> QED
    BY <1>1, <1>2, <1>3, <1>4, <1>5 DEF Next, Processor, Handler, WorkerFault, WorkerStep

\* The attempt rows of a job are the history of its runs, whichever runs fail,
\* stall or go on without their lock.
THEOREM AttemptsTellTheRuns == Spec => AttemptsAreHistory
  <1>1. Init => RunsAreNumbered
    BY DEF Init, WorkerInit, RunsAreNumbered, RunPc, ProcessorPc
  <1>2. ASSUME TypeInv, TraceInv, RunsAreNumbered, [Next]_vars, NEW c \in Command
        PROVE  /\ \A w \in Worker :
                    wPc[w] = "publish" /\ wCmd[w] = c /\ HoldsLock(c, w)
                        => attempts[c][attemptsMade[c] + 1] # "none"
               /\ \A n \in 1..attemptsMade[c] :
                    \/ attempts'[c][n] = attempts[c][n]
                    \/ \E w \in Worker : RunsOn(w, c) /\ wAttempt[w] = n
    <2>1. ASSUME NEW w \in Worker, wPc[w] = "publish", wCmd[w] = c, HoldsLock(c, w)
          PROVE  attempts[c][attemptsMade[c] + 1] # "none"
      <3>1. attempts[c][wAttempt[w]] # "none"
        BY <1>2, <2>1 DEF TraceInv, WorkersTrace, Delivering
      <3>2. wAttempt[w] = attemptsMade[c] + 1
        BY <1>2, <2>1 DEF RunsAreNumbered, RunPc, ProcessorPc
      <3> QED
        BY <3>1, <3>2
    <2>2. ASSUME NEW n \in 1..attemptsMade[c], attempts'[c][n] # attempts[c][n]
          PROVE  \E w \in Worker : RunsOn(w, c) /\ wAttempt[w] = n
      <3>1. attemptsMade[c] \in 0..MaxAttempts /\ MaxAttempts \in Nat
        BY <1>2, MaxAttemptsAssumption DEF TypeInv, TypeOK, RelayTypeOK
      <3>2. n \in 1..MaxAttempts
        BY <3>1
      <3>3. PICK w \in Worker : wPc[w] \in ProcessorPc /\ wCmd[w] = c /\ wAttempt[w] = n
        BY <1>2, <2>2, <3>2, RunsWriteTheirRow
      <3>4. ~ HoldsLock(c, w)
        BY <1>2, <3>1, <3>3 DEF RunsAreNumbered, RunPc
      <3> QED
        BY <3>3, <3>4 DEF RunsOn
    <2> QED
      BY <2>1, <2>2
  <1>3. TypeInv /\ TraceInv /\ RunsAreNumbered /\ [Next]_vars
            => [\A c \in Command :
                  /\ \A w \in Worker :
                       wPc[w] = "publish" /\ wCmd[w] = c /\ HoldsLock(c, w)
                           => attempts[c][attemptsMade[c] + 1] # "none"
                  /\ \A n \in 1..attemptsMade[c] :
                       \/ attempts'[c][n] = attempts[c][n]
                       \/ \E w \in Worker : RunsOn(w, c) /\ wAttempt[w] = n]_vars
    BY <1>2
  <1> QED
    BY <1>1, <1>3, StepKeepsNumbers, TraceInit, StepTraces, TypeInvHolds, PTL
       DEF Spec, AttemptsAreHistory
===============================================================================
