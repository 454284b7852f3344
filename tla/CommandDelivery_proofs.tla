------------------------ MODULE CommandDelivery_proofs ------------------------
(***************************************************************************)
(* Theorems about CommandDelivery, for any number of commands, requests,   *)
(* workers, attempts and stalls, and any set of faults.                    *)
(***************************************************************************)
EXTENDS CommandDelivery, TLAPS

---------------------------------------------------------------------------
(***************************************************************************)
(* Every action reaches the database and Redis through a few statements.   *)
(* StoreStep and JobStep list them  with what their guards ensure; the    *)
(* proofs show once that each action is one of them, and argue about them  *)
(* afterwards.                                                             *)
(***************************************************************************)

HubGoal == {"queued", "delivering", "expired", "failed"}

SetByHub(c, goal) == MaySetStatus(status[c], goal) /\ UpdateStatus(c, goal)

SetByConnector(c, outcome) == AcceptsCompletion(c) /\ UpdateStatus(c, outcome)

AppendCreated(c) ==
    /\ createdAudit' = [createdAudit EXCEPT ![c] = @ + 1]
    /\ UNCHANGED <<status, identity, expired, attempts, completionAudit>>

AppendCompleted(c, outcome) ==
    /\ completionAudit' = [completionAudit EXCEPT ![c] = Append(@, outcome)]
    /\ UNCHANGED <<status, identity, expired, attempts, createdAudit>>

HubStatement ==
    \/ UNCHANGED storeVars
    \/ \E c \in Command, body \in Body : InsertRow(c, body)
    \/ \E c \in Command, goal \in HubGoal : SetByHub(c, goal)
    \/ \E c \in Command, n \in 1..MaxAttempts : OpenAttempt(c, n)
    \/ \E c \in Command, n \in 1..MaxAttempts, outcome \in {"published", "not_routed"} :
            finishCommandAttempt(c, n, outcome)
    \/ \E c \in Command : AppendCreated(c)
    \/ \E c \in Command, outcome \in TerminalStatus : AppendCompleted(c, outcome)
    \/ \E c \in Command : PassExpiry(c)

StoreStep ==
    \/ HubStatement
    \/ \E c \in Command, outcome \in TerminalStatus : SetByConnector(c, outcome)

LEMMA StoreStepTyped ==
    ASSUME StoreTypeOK, StoreStep
    PROVE  StoreTypeOK'
  <1> USE DEF StoreTypeOK
  <1>1. CASE UNCHANGED storeVars
    BY <1>1 DEF storeVars
  <1>2. CASE \E c \in Command, body \in Body : InsertRow(c, body)
    BY <1>2 DEF InsertRow, storeVars, CommandStatus
  <1>3. CASE \E c \in Command, goal \in HubGoal : SetByHub(c, goal)
    BY <1>3 DEF SetByHub, UpdateStatus, HubGoal, CommandStatus
  <1>4. CASE \E c \in Command, outcome \in TerminalStatus : SetByConnector(c, outcome)
    BY <1>4 DEF SetByConnector, UpdateStatus, TerminalStatus, CommandStatus
  <1>5. CASE \E c \in Command, n \in 1..MaxAttempts : OpenAttempt(c, n)
    BY <1>5 DEF OpenAttempt
  <1>6. CASE \E c \in Command, n \in 1..MaxAttempts, outcome \in {"published", "not_routed"} :
                finishCommandAttempt(c, n, outcome)
    BY <1>6 DEF finishCommandAttempt
  <1>7. CASE \E c \in Command : AppendCreated(c)
    BY <1>7 DEF AppendCreated
  <1>8. CASE \E c \in Command, outcome \in TerminalStatus : AppendCompleted(c, outcome)
    <2> PICK c \in Command, outcome \in TerminalStatus : AppendCompleted(c, outcome)
      BY <1>8
    <2>1. Append(completionAudit[c], outcome) \in Seq(TerminalStatus)
      OBVIOUS
    <2> QED
      BY <2>1 DEF AppendCompleted
  <1>9. CASE \E c \in Command : PassExpiry(c)
    BY <1>9 DEF PassExpiry
  <1> QED
    BY <1>1, <1>2, <1>3, <1>4, <1>5, <1>6, <1>7, <1>8, <1>9 DEF StoreStep, HubStatement

JobsHaveRunsLeft ==
    \A c \in Command :
        jobState[c] \in {"absent", "waiting", "active"}
            => attemptsMade[c] < MaxAttempts /\ stalls[c] <= MaxStalls

JobStep ==
    \/ UNCHANGED <<jobState, attemptsMade, stalls, lockOwner>>
    \/ \E c \in Command : enqueue(c)
    \/ \E c \in Command, w \in Worker :
            LockJob(c, w) \/ EndJobCompleted(c, w) \/ EndJobFailed(c, w)
    \/ \E c \in Command : EndJobStalled(c)

LEMMA JobStepTyped ==
    ASSUME RelayTypeOK, JobsHaveRunsLeft, JobStep, inbox' \in SUBSET Command
    PROVE  RelayTypeOK' /\ JobsHaveRunsLeft'
  <1> USE MaxAttemptsAssumption, MaxStallsAssumption DEF RelayTypeOK, JobsHaveRunsLeft, JobState
  <1>1. CASE UNCHANGED <<jobState, attemptsMade, stalls, lockOwner>>
    BY <1>1
  <1>2. CASE \E c \in Command : enqueue(c)
    BY <1>2 DEF enqueue, Enqueued
  <1>3. ASSUME NEW c \in Command, NEW w \in Worker, LockJob(c, w)
        PROVE  RelayTypeOK' /\ JobsHaveRunsLeft'
    BY <1>3 DEF LockJob
  <1>4. ASSUME NEW c \in Command, NEW w \in Worker, EndJobCompleted(c, w)
        PROVE  RelayTypeOK' /\ JobsHaveRunsLeft'
    BY <1>4 DEF EndJobCompleted
  <1>5. ASSUME NEW c \in Command, NEW w \in Worker, EndJobFailed(c, w)
        PROVE  RelayTypeOK' /\ JobsHaveRunsLeft'
    BY <1>5 DEF EndJobFailed, HoldsLock, LastAttempt
  <1>6. ASSUME NEW c \in Command, EndJobStalled(c)
        PROVE  RelayTypeOK' /\ JobsHaveRunsLeft'
    BY <1>6 DEF EndJobStalled
  <1> QED
    BY <1>1, <1>2, <1>3, <1>4, <1>5, <1>6 DEF JobStep

---------------------------------------------------------------------------
(***************************************************************************)
(* Type correctness.  TypeOK is not inductive: that attemptsMade and       *)
(* stalls stay in range rests on a job running only while it has runs      *)
(* left, and what a process reads is a status only because the process     *)
(* holds a command.                                                        *)
(***************************************************************************)

BusyPc == {"fail", "complete"} \union ProcessorPc \union HandlerPc

ProcessesHoldCommands ==
    /\ \A r \in Request :
        reqPc[r] # "idle" => reqKey[r] \in Command /\ reqBody[r] \in Body
    /\ \A w \in Worker : wPc[w] \in BusyPc => wCmd[w] \in Command

\* The write that follows a read is one the status read allows.
ReadsAllowWrites ==
    /\ \A r \in Request : reqPc[r] = "write" => MaySetStatus(reqCurrent[r], "queued")
    /\ \A w \in Worker :
        wPc[w] \in {"write", "writeExhausted"} => MaySetStatus(wCurrent[w], wGoal[w])

TypeInv == TypeOK /\ JobsHaveRunsLeft /\ ProcessesHoldCommands /\ ReadsAllowWrites

LEMMA InitTyped == Init => TypeInv
  <1> SUFFICES ASSUME Init PROVE TypeInv
    OBVIOUS
  <1> USE MaxAttemptsAssumption, MaxStallsAssumption DEF Init
  <1>1. StoreTypeOK
    BY DEF StoreInit, StoreTypeOK
  <1>2. RelayTypeOK
    BY DEF RelayInit, RelayTypeOK, JobState
  <1>3. ApiTypeOK
    BY DEF ApiInit, ApiTypeOK, ReqPc, Reply
  <1>4. WorkerTypeOK
    BY DEF WorkerInit, WorkerTypeOK, WPc
  <1>5. ConnectorTypeOK
    BY DEF ConnectorInit, ConnectorTypeOK, Decision
  <1>6. JobsHaveRunsLeft
    BY DEF RelayInit, JobsHaveRunsLeft
  <1>7. ProcessesHoldCommands
    BY DEF ApiInit, WorkerInit, ProcessesHoldCommands, BusyPc, ProcessorPc, HandlerPc
  <1>8. ReadsAllowWrites
    BY DEF ApiInit, WorkerInit, ReadsAllowWrites
  <1> QED
    BY <1>1, <1>2, <1>3, <1>4, <1>5, <1>6, <1>7, <1>8 DEF TypeInv, TypeOK

\* What a step of one request does to the database and the queue.
LEMMA ApiReaches ==
    ASSUME TypeInv, NEW r \in Request, ApiStep(r)
    PROVE  HubStatement /\ JobStep /\ UNCHANGED inbox
  <1> DEFINE Reaches == HubStatement /\ JobStep /\ UNCHANGED inbox
  <1>0. reqPc[r] # "idle" => reqKey[r] \in Command /\ reqBody[r] \in Body
    BY DEF TypeInv, ProcessesHoldCommands
  <1>q. reqPc[r] = "write" => MaySetStatus(reqCurrent[r], "queued")
    BY DEF TypeInv, ReadsAllowWrites
  <1> USE DEF HubStatement, JobStep, relayVars
  <1>1. ASSUME NEW c \in Command, NEW body \in Body, ReceiveRequest(r, c, body) PROVE Reaches
    BY <1>1 DEF ReceiveRequest
  <1>2. CASE AssertRuntimeOwner(r)
    BY <1>2 DEF AssertRuntimeOwner
  <1>3. CASE InsertCommand(r)
    BY <1>0, <1>3 DEF InsertCommand
  <1>4. CASE AuditCreated(r)
    BY <1>0, <1>4 DEF AuditCreated, AppendCreated
  <1>5. CASE LookupExisting(r)
    BY <1>5 DEF LookupExisting
  <1>6. CASE EnqueueCommand(r)
    BY <1>0, <1>6 DEF EnqueueCommand, enqueue
  <1>7. CASE ReadForQueued(r)
    BY <1>7 DEF ReadForQueued
  <1>8. CASE WriteQueued(r)
    BY <1>0, <1>q, <1>8 DEF WriteQueued, StatusStill, SetByHub, HubGoal
  <1>9. CASE DatabaseFails(r)
    BY <1>0, <1>q, <1>9 DEF DatabaseFails, StatusStill, SetByHub, HubGoal
  <1>10. CASE RelayFails(r)
    BY <1>0, <1>10 DEF RelayFails, enqueue
  <1> QED
    BY <1>1, <1>2, <1>3, <1>4, <1>5, <1>6, <1>7, <1>8, <1>9, <1>10 DEF ApiStep

\* What a request keeps in its local variables.
RequestsTyped ==
    /\ ApiTypeOK
    /\ \A r \in Request :
        /\ reqPc[r] # "idle" => reqKey[r] \in Command /\ reqBody[r] \in Body
        /\ reqPc[r] = "write" => MaySetStatus(reqCurrent[r], "queued")

LEMMA ApiTyped ==
    ASSUME TypeInv, NEW r \in Request, ApiStep(r)
    PROVE  RequestsTyped'
  <1>0. RequestsTyped /\ status \in [Command -> CommandStatus \union {"none"}]
    BY DEF TypeInv, TypeOK, StoreTypeOK, RequestsTyped, ProcessesHoldCommands, ReadsAllowWrites
  <1> USE <1>0 DEF RequestsTyped, ApiTypeOK, ReqPc, Reply, Goto, Answer
  <1>1. ASSUME NEW c \in Command, NEW body \in Body, ReceiveRequest(r, c, body)
        PROVE  RequestsTyped'
    BY <1>1 DEF ReceiveRequest
  <1>2. CASE AssertRuntimeOwner(r)
    BY <1>2 DEF AssertRuntimeOwner
  <1>3. CASE InsertCommand(r)
    BY <1>3 DEF InsertCommand
  <1>4. CASE AuditCreated(r)
    BY <1>4 DEF AuditCreated
  <1>5. CASE LookupExisting(r)
    BY <1>5 DEF LookupExisting
  <1>6. CASE EnqueueCommand(r)
    BY <1>6 DEF EnqueueCommand
  <1>7. CASE ReadForQueued(r)
    BY <1>7 DEF ReadForQueued
  <1>8. CASE WriteQueued(r)
    BY <1>8 DEF WriteQueued
  <1>9. CASE DatabaseFails(r)
    BY <1>9 DEF DatabaseFails
  <1>10. CASE RelayFails(r)
    BY <1>10 DEF RelayFails
  <1> QED
    BY <1>1, <1>2, <1>3, <1>4, <1>5, <1>6, <1>7, <1>8, <1>9, <1>10 DEF ApiStep

WorkersTyped ==
    /\ WorkerTypeOK
    /\ \A w \in Worker :
        /\ wPc[w] \in BusyPc => wCmd[w] \in Command
        /\ wPc[w] \in {"write", "writeExhausted"} => MaySetStatus(wCurrent[w], wGoal[w])

WorkerStep(w) ==
    \/ ProcessorStep(w)
    \/ HandlerStep(w)
    \/ DatabaseFailsWorker(w)
    \/ RelayFailsWorker(w)
    \/ CrashWorker(w)

\* What a step of one worker does to the database, the queue and the channel.
LEMMA WorkerReaches ==
    ASSUME TypeInv, NEW w \in Worker, WorkerStep(w)
    PROVE  HubStatement /\ JobStep /\ inbox' \in SUBSET Command
  <1> DEFINE Reaches == HubStatement /\ JobStep /\ inbox' \in SUBSET Command
  <1>0. /\ wTodo[w] \in SUBSET Command
        /\ wAttempt[w] \in 1..MaxAttempts
        /\ wGoal[w] \in HubGoal
        /\ wRouted[w] \in {"published", "not_routed"}
        /\ inbox \in SUBSET Command
    BY DEF TypeInv, TypeOK, WorkerTypeOK, RelayTypeOK, HubGoal
  <1>b. wPc[w] \in BusyPc => wCmd[w] \in Command
    BY DEF TypeInv, ProcessesHoldCommands
  <1>q. wPc[w] \in {"write", "writeExhausted"} => MaySetStatus(wCurrent[w], wGoal[w])
    BY DEF TypeInv, ReadsAllowWrites
  <1> USE <1>0 DEF HubStatement, JobStep, relayVars
  <1>1. CASE StartWorker(w)
    BY <1>1 DEF StartWorker
  <1>2. ASSUME NEW c \in Command, RecoverCommand(w, c) PROVE Reaches
    BY <1>2 DEF RecoverCommand, enqueue
  <1>3. CASE OpenForWork(w)
    BY <1>3 DEF OpenForWork
  <1>4. ASSUME NEW c \in Command, TakeJob(w, c) PROVE Reaches
    BY <1>4 DEF TakeJob, LockJob
  <1>5. CASE LoadCommand(w)
    BY <1>5 DEF LoadCommand
  <1>6. CASE CheckPresence(w)
    BY <1>6 DEF CheckPresence
  <1>7. CASE CreateAttempt(w)
    BY <1>b, <1>7 DEF CreateAttempt, BusyPc, ProcessorPc
  <1>8. CASE ReadStatus(w)
    BY <1>8 DEF ReadStatus
  <1>9. CASE WriteStatus(w)
    BY <1>b, <1>q, <1>9 DEF WriteStatus, BusyPc, ProcessorPc, StatusStill, SetByHub
  <1>10. CASE PublishCommand(w)
    BY <1>b, <1>10 DEF PublishCommand, publish, BusyPc, ProcessorPc
  <1>11. CASE FinishAttempt(w)
    BY <1>b, <1>11 DEF FinishAttempt, BusyPc, ProcessorPc
  <1>12. CASE CompleteJob(w)
    BY <1>b, <1>12 DEF CompleteJob, EndJobCompleted, BusyPc
  <1>13. CASE FailJob(w)
    BY <1>b, <1>13 DEF FailJob, EndJobFailed, BusyPc
  <1>14. CASE LoadExhausted(w)
    BY <1>14 DEF LoadExhausted
  <1>15. CASE ReadExhausted(w)
    BY <1>15 DEF ReadExhausted
  <1>16. CASE WriteExhausted(w)
    BY <1>b, <1>q, <1>16 DEF WriteExhausted, BusyPc, HandlerPc, StatusStill, SetByHub
  <1>17. CASE DatabaseFailsWorker(w)
    BY <1>b, <1>q, <1>17 DEF DatabaseFailsWorker, BusyPc, ProcessorPc, HandlerPc, StatusStill, SetByHub
  <1>18. CASE RelayFailsWorker(w)
    BY <1>b, <1>18 DEF RelayFailsWorker, BusyPc, ProcessorPc, publish, enqueue
  <1>19. CASE CrashWorker(w)
    BY <1>19 DEF CrashWorker
  <1> QED
    BY <1>1, <1>2, <1>3, <1>4, <1>5, <1>6, <1>7, <1>8, <1>9, <1>10, <1>11, <1>12,
       <1>13, <1>14, <1>15, <1>16, <1>17, <1>18, <1>19
       DEF WorkerStep, ProcessorStep, HandlerStep

LEMMA RestTyped ==
    ASSUME WorkersTyped, NEW w \in Worker, NEW pc \in {"idle", "down"}, Rest(w, pc)
    PROVE  WorkersTyped'
  BY MaxAttemptsAssumption
     DEF Rest, WorkersTyped, WorkerTypeOK, WPc, BusyPc, ProcessorPc, HandlerPc

LEMMA WorkerTyped ==
    ASSUME TypeInv, NEW w \in Worker, WorkerStep(w)
    PROVE  WorkersTyped'
  <1>0. /\ WorkersTyped
        /\ status \in [Command -> CommandStatus \union {"none"}]
        /\ attemptsMade \in [Command -> 0..MaxAttempts]
        /\ \A c \in Command : jobState[c] = "waiting" => attemptsMade[c] < MaxAttempts
    BY DEF TypeInv, TypeOK, StoreTypeOK, RelayTypeOK, WorkersTyped, ProcessesHoldCommands,
           ReadsAllowWrites, JobsHaveRunsLeft
  <1> USE <1>0, MaxAttemptsAssumption
  <1> DEFINE Typed == WorkersTyped'
  <1>4. ASSUME NEW c \in Command, TakeJob(w, c) PROVE Typed
    BY <1>4 DEF TakeJob, LockJob, RunNumber, WorkersTyped, WorkerTypeOK, Go, WPc, BusyPc, ProcessorPc,
       HandlerPc
  <1>1. CASE StartWorker(w)
    BY <1>1 DEF StartWorker, Recoverable, WorkersTyped, WorkerTypeOK, Go, WPc, BusyPc, ProcessorPc, HandlerPc
  <1>2. ASSUME NEW c \in Command, RecoverCommand(w, c) PROVE Typed
    BY <1>2 DEF RecoverCommand, WorkersTyped, WorkerTypeOK, Go, WPc, BusyPc, ProcessorPc, HandlerPc
  <1>rest. ASSUME NEW pc \in {"idle", "down"}, Rest(w, pc) PROVE Typed
    BY <1>rest, RestTyped
  <1> USE DEF WorkersTyped, WorkerTypeOK, Go, KeepLocals, WPc, BusyPc, ProcessorPc, HandlerPc
  <1>3. CASE OpenForWork(w)
    BY <1>3 DEF OpenForWork
  <1>5. CASE LoadCommand(w)
    BY <1>5 DEF LoadCommand, GoalFor
  <1>6. CASE CheckPresence(w)
    BY <1>6 DEF CheckPresence
  <1>7. CASE CreateAttempt(w)
    BY <1>7 DEF CreateAttempt, AfterAttempt
  <1>8. CASE ReadStatus(w)
    BY <1>8 DEF ReadStatus
  <1>9. CASE WriteStatus(w)
    BY <1>9 DEF WriteStatus, AfterWrite
  <1>10. CASE PublishCommand(w)
    BY <1>10 DEF PublishCommand
  <1>11. CASE FinishAttempt(w)
    BY <1>11 DEF FinishAttempt, AfterPublish
  <1>12. CASE CompleteJob(w)
    BY <1>12, <1>rest DEF CompleteJob
  <1>13. CASE FailJob(w)
    BY <1>13, <1>rest DEF FailJob
  <1>14. CASE LoadExhausted(w)
    BY <1>14, <1>rest DEF LoadExhausted
  <1>15. CASE ReadExhausted(w)
    BY <1>15, <1>rest DEF ReadExhausted
  <1>16. CASE WriteExhausted(w)
    BY <1>16, <1>rest DEF WriteExhausted
  <1>17. CASE DatabaseFailsWorker(w)
    BY <1>17, <1>rest DEF DatabaseFailsWorker, Throw
  <1>18. CASE RelayFailsWorker(w)
    BY <1>18, <1>rest DEF RelayFailsWorker, Throw
  <1>19. CASE CrashWorker(w)
    BY <1>19, <1>rest DEF CrashWorker
  <1> QED
    BY <1>1, <1>2, <1>3, <1>4, <1>5, <1>6, <1>7, <1>8, <1>9, <1>10, <1>11, <1>12,
       <1>13, <1>14, <1>15, <1>16, <1>17, <1>18, <1>19
       DEF WorkerStep, ProcessorStep, HandlerStep

\* What a step at the far end does to the database, the queue and the channel.
LEMMA ConnectorReaches ==
    ASSUME TypeInv, Connector
    PROVE  StoreStep /\ JobStep /\ inbox' \in SUBSET Command
  <1> DEFINE Reaches == StoreStep /\ JobStep /\ inbox' \in SUBSET Command
  <1>0. inbox \in SUBSET Command
    BY DEF TypeInv, TypeOK, RelayTypeOK
  <1> USE <1>0 DEF StoreStep, HubStatement, JobStep, relayVars
  <1>1. ASSUME NEW c \in Command, StartExecution(c) \/ JoinExecution(c) PROVE Reaches
    BY <1>1 DEF StartExecution, JoinExecution, TakeMessage
  <1>2. ASSUME NEW c \in Command,
               RuntimeDecides(c) \/ RuntimeReplies(c) \/ RuntimeUnavailable(c) \/ EvictExecution(c)
        PROVE  Reaches
    BY <1>2 DEF RuntimeDecides, RuntimeReplies, RuntimeUnavailable, EvictExecution
  <1>3. ASSUME NEW c \in Command, NEW outcome \in TerminalStatus, ReceiveResult(c, outcome)
        PROVE  Reaches
    BY <1>3 DEF ReceiveResult, SetByConnector
  <1>4. ASSUME NEW c \in Command, NEW outcome \in TerminalStatus, AuditCompleted(c, outcome)
        PROVE  Reaches
    BY <1>4 DEF AuditCompleted, AppendCompleted
  <1>5. CASE ConnectorFault
    BY <1>5 DEF ConnectorFault, LoseSocket, DatabaseFailsGateway, RestartConnector, DropSocket
  <1> QED
    BY <1>1, <1>2, <1>3, <1>4, <1>5 DEF Connector, ConnectorStep

LEMMA ConnectorTyped ==
    ASSUME TypeInv, Connector
    PROVE  ConnectorTypeOK'
  <1>0. ConnectorTypeOK /\ inbox \in SUBSET Command
    BY DEF TypeInv, TypeOK, RelayTypeOK
  <1> USE <1>0 DEF ConnectorTypeOK, Result, Decision
  <1>1. ASSUME NEW c \in Command, StartExecution(c) PROVE ConnectorTypeOK'
    BY <1>1 DEF StartExecution, TerminalStatus
  <1>2. ASSUME NEW c \in Command, JoinExecution(c) PROVE ConnectorTypeOK'
    <2>1. execution[c] # "calling" => execution[c] \in TerminalStatus
      BY <1>2 DEF JoinExecution
    <2> QED
      BY <1>2, <2>1 DEF JoinExecution
  <1>3. ASSUME NEW c \in Command, RuntimeDecides(c) PROVE ConnectorTypeOK'
    BY <1>3 DEF RuntimeDecides
  <1>4. ASSUME NEW c \in Command, RuntimeReplies(c) PROVE ConnectorTypeOK'
    <2>1. VerdictOf(decision[c]) \in TerminalStatus
      BY <1>4 DEF RuntimeReplies, VerdictOf, TerminalStatus
    <2> QED
      BY <1>4, <2>1 DEF RuntimeReplies, FinishExecution
  <1>5. ASSUME NEW c \in Command, RuntimeUnavailable(c) PROVE ConnectorTypeOK'
    BY <1>5 DEF RuntimeUnavailable, FinishExecution, TerminalStatus
  <1>6. ASSUME NEW c \in Command, EvictExecution(c) PROVE ConnectorTypeOK'
    BY <1>6 DEF EvictExecution
  <1>7. ASSUME NEW c \in Command, NEW outcome \in TerminalStatus, ReceiveResult(c, outcome)
        PROVE  ConnectorTypeOK'
    BY <1>7 DEF ReceiveResult
  <1>8. ASSUME NEW c \in Command, NEW outcome \in TerminalStatus, AuditCompleted(c, outcome)
        PROVE  ConnectorTypeOK'
    BY <1>8 DEF AuditCompleted
  <1>9. CASE ConnectorFault
    BY <1>9 DEF ConnectorFault, LoseSocket, DatabaseFailsGateway, RestartConnector, DropSocket
  <1> QED
    BY <1>1, <1>2, <1>3, <1>4, <1>5, <1>6, <1>7, <1>8, <1>9 DEF Connector, ConnectorStep

LEMMA StepReaches ==
    ASSUME TypeInv, [Next]_vars
    PROVE  StoreStep /\ JobStep /\ inbox' \in SUBSET Command
  <1> DEFINE Reaches == StoreStep /\ JobStep /\ inbox' \in SUBSET Command
  <1>0. inbox \in SUBSET Command
    BY DEF TypeInv, TypeOK, RelayTypeOK
  <1>1. CASE Api
    BY <1>0, <1>1, ApiReaches DEF Api, StoreStep
  <1>2. ASSUME NEW w \in Worker, Processor(w) \/ Handler(w) PROVE Reaches
    BY <1>2, WorkerReaches DEF Processor, Handler, WorkerStep, StoreStep
  <1>3. CASE WorkerFault
    BY <1>3, WorkerReaches DEF WorkerFault, WorkerStep, StoreStep
  <1>4. CASE StalledCheck
    BY <1>0, <1>4 DEF StalledCheck, ReclaimJob, EndJobStalled, JobStep, StoreStep, HubStatement
  <1>5. CASE Connector
    BY <1>5, ConnectorReaches
  <1>6. CASE Clock
    BY <1>0, <1>6 DEF Clock, StoreStep, HubStatement, JobStep, relayVars
  <1>7. CASE ApiCrash
    BY <1>7 DEF ApiCrash, DropGateway, DropSocket, StoreStep, HubStatement, JobStep
  <1>8. CASE UNCHANGED vars
    BY <1>0, <1>8 DEF vars, relayVars, StoreStep, HubStatement, JobStep
  <1> QED
    BY <1>1, <1>2, <1>3, <1>4, <1>5, <1>6, <1>7, <1>8 DEF Next

LEMMA StepTyped ==
    ASSUME TypeInv, [Next]_vars
    PROVE  TypeInv'
  <1>0. RequestsTyped /\ WorkersTyped /\ ConnectorTypeOK
    BY DEF TypeInv, TypeOK, RequestsTyped, WorkersTyped, ProcessesHoldCommands, ReadsAllowWrites
  <1>1. StoreTypeOK' /\ RelayTypeOK' /\ JobsHaveRunsLeft'
    BY StepReaches, StoreStepTyped, JobStepTyped DEF TypeInv, TypeOK
  <1>2. UNCHANGED apiVars => RequestsTyped'
    BY <1>0 DEF apiVars, RequestsTyped, ApiTypeOK
  <1>3. UNCHANGED workerVars => WorkersTyped'
    BY <1>0 DEF workerVars, WorkersTyped, WorkerTypeOK
  <1>4. UNCHANGED connectorVars => ConnectorTypeOK'
    BY <1>0 DEF connectorVars, ConnectorTypeOK
  <1>5. RequestsTyped' /\ WorkersTyped' /\ ConnectorTypeOK'
    <2>1. CASE Api
      BY <2>1, <1>3, <1>4, ApiTyped DEF Api
    <2>2. CASE (\E w \in Worker : Processor(w) \/ Handler(w)) \/ WorkerFault
      BY <2>2, <1>2, <1>4, WorkerTyped DEF Processor, Handler, WorkerFault, WorkerStep
    <2>3. CASE StalledCheck
      <3>1. ASSUME NEW c \in Command, ReportStalled(c) PROVE WorkersTyped'
        BY <1>0, <3>1 DEF ReportStalled, Go, WorkersTyped, WorkerTypeOK, WPc, BusyPc, ProcessorPc,
           HandlerPc
      <3> QED
        BY <2>3, <3>1, <1>2, <1>3, <1>4 DEF StalledCheck, ReclaimJob
    <2>4. CASE Connector
      BY <2>4, <1>2, <1>3, ConnectorTyped DEF Connector
    <2>5. CASE Clock
      BY <2>5, <1>2, <1>3, <1>4 DEF Clock
    <2>6. CASE ApiCrash
      <3>1. RequestsTyped'
        BY <1>0, <2>6 DEF ApiCrash, DropRequests, RequestsTyped, ApiTypeOK, ReqPc
      <3>2. ConnectorTypeOK'
        BY <1>0, <2>6 DEF ApiCrash, DropGateway, DropSocket, ConnectorTypeOK
      <3> QED
        BY <2>6, <3>1, <3>2, <1>3 DEF ApiCrash
    <2>7. CASE UNCHANGED vars
      BY <2>7, <1>2, <1>3, <1>4 DEF vars
    <2> QED
      BY <2>1, <2>2, <2>3, <2>4, <2>5, <2>6, <2>7 DEF Next
  <1> QED
    BY <1>1, <1>5 DEF TypeInv, TypeOK, RequestsTyped, WorkersTyped, ProcessesHoldCommands,
                      ReadsAllowWrites

LEMMA TypeInvHolds == Spec => []TypeInv
  BY InitTyped, StepTyped, PTL DEF Spec

\* Every variable keeps its type, however the processes interleave and
\* whatever fails: no job exceeds its runs or its stalls.
THEOREM TypeCorrect == Spec => []TypeOK
  BY TypeInvHolds, PTL DEF TypeInv

---------------------------------------------------------------------------
(***************************************************************************)
(* A settled status is final.  Each statement that sets a status carries   *)
(* its guard with it: `where status = current' after a read that allowed   *)
(* the goal, or `where status in (queued, delivering)'.                    *)
(***************************************************************************)

LEMMA StatementsKeepVerdicts ==
    ASSUME StoreTypeOK, StoreStep, NEW c \in Command
    PROVE  /\ Row(c) => Row(c)'
           /\ status[c] \notin {"none", "created"} => status'[c] \notin {"none", "created"}
           /\ Settled(c) => status'[c] = status[c]
  <1> DEFINE Kept == /\ Row(c) => Row(c)'
                     /\ status[c] \notin {"none", "created"} => status'[c] \notin {"none", "created"}
                     /\ Settled(c) => status'[c] = status[c]
  <1> USE DEF StoreTypeOK, Row, Settled
  <1>1. CASE UNCHANGED status
    BY <1>1
  <1>2. ASSUME NEW d \in Command, NEW body \in Body, InsertRow(d, body) PROVE Kept
    BY <1>2 DEF InsertRow, TerminalStatus, storeVars
  <1>3. ASSUME NEW d \in Command, NEW goal \in HubGoal, SetByHub(d, goal) PROVE Kept
    <2>1. status[d] \in TerminalStatus => status[d] = goal
      BY <1>3 DEF SetByHub, MaySetStatus, canTransitionCommand, transitions, TerminalStatus,
                  CommandStatus
    <2> QED
      BY <1>3, <2>1 DEF SetByHub, UpdateStatus, HubGoal
  <1>4. ASSUME NEW d \in Command, NEW outcome \in TerminalStatus, SetByConnector(d, outcome)
        PROVE  Kept
    BY <1>4 DEF SetByConnector, AcceptsCompletion, UpdateStatus, TerminalStatus
  <1> QED
    BY <1>1, <1>2, <1>3, <1>4 DEF StoreStep, HubStatement, storeVars, OpenAttempt, finishCommandAttempt,
       AppendCreated, AppendCompleted, PassExpiry

\* No interleaving and no fault changes a verdict once it is stored.
THEOREM VerdictsAreFinal == Spec => TerminalIsFinal
  <1>1. TypeInv /\ [Next]_vars => [\A c \in Command : Settled(c) => status'[c] = status[c]]_vars
    BY StepReaches, StatementsKeepVerdicts DEF TypeInv, TypeOK
  <1> QED
    BY <1>1, TypeInvHolds, PTL DEF Spec, TerminalIsFinal

---------------------------------------------------------------------------
(***************************************************************************)
(* The queue and the rows.  A row leaves `created' only in the hands of a  *)
(* request that has enqueued it or of a worker that runs its job, and a    *)
(* processor returns only for a row it found settled or has settled.       *)
(***************************************************************************)

Begun(c) == status[c] \notin {"none", "created"}

RowsQueued ==
    \A c \in Command :
        /\ Enqueued(c) => Row(c)
        /\ Begun(c) => Enqueued(c)
        /\ jobState[c] = "completed" => Settled(c)

RequestsQueued ==
    \A r \in Request :
        /\ reqPc[r] \in {"audit", "lookup", "enqueue", "read", "write"} => Row(reqKey[r])
        /\ reqPc[r] \in {"read", "write"} => Enqueued(reqKey[r])
        /\ reply[r] = "accepted" => reqPc[r] = "done" /\ Enqueued(reqKey[r])

WorkersQueued ==
    \A w \in Worker :
        /\ \A c \in wTodo[w] : Row(c)
        /\ wPc[w] \in BusyPc => Enqueued(wCmd[w])
        /\ wPc[w] = "complete" => Settled(wCmd[w])

QueueInv == RowsQueued /\ RequestsQueued /\ WorkersQueued

LEMMA QueueInit == Init => QueueInv
  BY DEF Init, StoreInit, RelayInit, ApiInit, WorkerInit, QueueInv, RowsQueued, RequestsQueued,
         WorkersQueued, Row, Enqueued, Begun, BusyPc, ProcessorPc, HandlerPc

LEMMA JobsStayKnown ==
    ASSUME RelayTypeOK, JobStep, NEW c \in Command, Enqueued(c)
    PROVE  Enqueued(c)'
  BY DEF RelayTypeOK, JobStep, Enqueued, enqueue, LockJob, EndJobCompleted, EndJobFailed, EndJobStalled

\* What one step never takes back.
LEMMA StepKeeps ==
    ASSUME TypeInv, [Next]_vars
    PROVE  \A c \in Command :
              /\ Row(c) => Row(c)'
              /\ Begun(c) => Begun(c)'
              /\ Settled(c) => status'[c] = status[c]
              /\ Enqueued(c) => Enqueued(c)'
  <1>1. StoreTypeOK /\ RelayTypeOK /\ StoreStep /\ JobStep
    BY StepReaches DEF TypeInv, TypeOK
  <1> QED
    BY <1>1, StatementsKeepVerdicts, JobsStayKnown DEF Begun

\* Processes a step leaves alone keep what they know.
LEMMA OthersQueued ==
    ASSUME TypeInv, QueueInv, [Next]_vars
    PROVE  /\ UNCHANGED workerVars => WorkersQueued'
           /\ UNCHANGED apiVars => RequestsQueued'
  <1>1. \A c \in Command : /\ Row(c) => Row(c)'
                           /\ Settled(c) => status'[c] = status[c]
                           /\ Enqueued(c) => Enqueued(c)'
    BY StepKeeps
  <1>2. /\ \A r \in Request : reqPc[r] # "idle" => reqKey[r] \in Command
        /\ \A w \in Worker : wTodo[w] \in SUBSET Command
        /\ \A w \in Worker : wPc[w] \in BusyPc => wCmd[w] \in Command
    BY DEF TypeInv, TypeOK, ProcessesHoldCommands, WorkerTypeOK
  <1>3. UNCHANGED workerVars => WorkersQueued'
    BY <1>1, <1>2 DEF QueueInv, WorkersQueued, workerVars, Row, Settled, Enqueued, BusyPc
  <1>4. UNCHANGED apiVars => RequestsQueued'
    BY <1>1, <1>2 DEF QueueInv, RequestsQueued, apiVars, Row, Settled, Enqueued
  <1> QED
    BY <1>3, <1>4

LEMMA ApiQueue ==
    ASSUME TypeInv, QueueInv, NEW r \in Request, ApiStep(r),
           UNCHANGED <<workerVars, connectorVars>>
    PROVE  RowsQueued' /\ RequestsQueued'
  <1> DEFINE Kept == RowsQueued' /\ RequestsQueued'
  <1>k. \A c \in Command : /\ Row(c) => Row(c)'
                           /\ Begun(c) => Begun(c)'
                           /\ Settled(c) => status'[c] = status[c]
                           /\ Enqueued(c) => Enqueued(c)'
    BY StepKeeps DEF Next, Api
  <1>t. /\ status \in [Command -> CommandStatus \union {"none"}]
        /\ RelayTypeOK /\ ApiTypeOK
        /\ \A s \in Request : reqPc[s] # "idle" => reqKey[s] \in Command /\ reqBody[s] \in Body
    BY DEF TypeInv, TypeOK, StoreTypeOK, ProcessesHoldCommands
  <1> USE <1>k, <1>t DEF QueueInv, RowsQueued, RequestsQueued, ApiTypeOK, RelayTypeOK, Row, Enqueued, Begun, Settled, Goto, Answer, storeVars, relayVars
  <1>1. ASSUME NEW c \in Command, NEW body \in Body, ReceiveRequest(r, c, body) PROVE Kept
    BY <1>1 DEF ReceiveRequest
  <1>2. CASE AssertRuntimeOwner(r)
    BY <1>2 DEF AssertRuntimeOwner
  <1>3. CASE InsertCommand(r)
    BY <1>3 DEF InsertCommand, InsertRow, TerminalStatus
  <1>4. CASE AuditCreated(r)
    BY <1>4 DEF AuditCreated
  <1>5. CASE LookupExisting(r)
    BY <1>5 DEF LookupExisting
  <1>6. CASE EnqueueCommand(r)
    BY <1>6 DEF EnqueueCommand, enqueue
  <1>7. CASE ReadForQueued(r)
    BY <1>7 DEF ReadForQueued
  <1>8. CASE WriteQueued(r)
    BY <1>8 DEF WriteQueued, UpdateStatus
  <1>9. CASE DatabaseFails(r)
    BY <1>9 DEF DatabaseFails, UpdateStatus
  <1>10. CASE RelayFails(r)
    BY <1>10 DEF RelayFails, enqueue
  <1> QED
    BY <1>1, <1>2, <1>3, <1>4, <1>5, <1>6, <1>7, <1>8, <1>9, <1>10 DEF ApiStep

LEMMA WorkerQueue ==
    ASSUME TypeInv, QueueInv, NEW w \in Worker, WorkerStep(w),
           UNCHANGED <<apiVars, connectorVars>>
    PROVE  RowsQueued' /\ WorkersQueued'
  <1> DEFINE Kept == RowsQueued' /\ WorkersQueued'
  <1>k. \A c \in Command :
           /\ Row(c) => Row(c)'
           /\ Begun(c) => Begun(c)'
           /\ Settled(c) => status'[c] = status[c]
           /\ Enqueued(c) => Enqueued(c)'
    BY StepKeeps DEF Next, Processor, Handler, WorkerFault, WorkerStep
  <1>t. /\ status \in [Command -> CommandStatus \union {"none"}]
        /\ RelayTypeOK /\ WorkerTypeOK
        /\ \A v \in Worker : wPc[v] \in BusyPc => wCmd[v] \in Command
    BY DEF TypeInv, TypeOK, StoreTypeOK, ProcessesHoldCommands
  <1> USE <1>k, <1>t DEF QueueInv, RowsQueued, WorkersQueued, WorkerTypeOK, RelayTypeOK, BusyPc, ProcessorPc,
                         HandlerPc, Row, Enqueued, Begun, Settled, storeVars, relayVars
  <1>rest. ASSUME NEW pc \in {"idle", "down"}, Rest(w, pc) PROVE WorkersQueued'
    BY <1>rest DEF Rest
  <1>1. CASE StartWorker(w)
    BY <1>1 DEF StartWorker, Recoverable, Open, OpenStatus, CommandStatus, Go
  <1>2. ASSUME NEW c \in Command, RecoverCommand(w, c) PROVE Kept
    BY <1>2 DEF RecoverCommand, enqueue
  <1>3. CASE OpenForWork(w)
    BY <1>3 DEF OpenForWork, Go, KeepLocals
  <1>4. ASSUME NEW c \in Command, TakeJob(w, c) PROVE Kept
    BY <1>4 DEF TakeJob, LockJob, Go
  <1>5. CASE LoadCommand(w)
    BY <1>5 DEF LoadCommand, Open, OpenStatus, Go
  <1>6. CASE CheckPresence(w)
    BY <1>6 DEF CheckPresence, Go, KeepLocals
  <1>7. CASE CreateAttempt(w)
    BY <1>7 DEF CreateAttempt, OpenAttempt, AfterAttempt, Go, KeepLocals
  <1>8. CASE ReadStatus(w)
    BY <1>8 DEF ReadStatus, Go
  <1>9. CASE WriteStatus(w)
    BY <1>9 DEF WriteStatus, UpdateStatus, AfterWrite, TerminalStatus, Go
  <1>10. CASE PublishCommand(w)
    BY <1>10 DEF PublishCommand, publish, Go
  <1>11. CASE FinishAttempt(w)
    BY <1>11 DEF FinishAttempt, finishCommandAttempt, AfterPublish, Go, KeepLocals
  <1>12. CASE CompleteJob(w)
    BY <1>12, <1>rest DEF CompleteJob, EndJobCompleted
  <1>13. CASE FailJob(w)
    <2>1. RowsQueued'
      BY <1>13 DEF FailJob, EndJobFailed
    <2>2. WorkersQueued'
      BY <1>13, <1>rest DEF FailJob, EndJobFailed, Go, KeepLocals
    <2> QED
      BY <2>1, <2>2
  <1>14. CASE LoadExhausted(w)
    BY <1>14, <1>rest DEF LoadExhausted, Go
  <1>15. CASE ReadExhausted(w)
    BY <1>15, <1>rest DEF ReadExhausted, Go
  <1>16. CASE WriteExhausted(w)
    BY <1>16, <1>rest DEF WriteExhausted, UpdateStatus
  <1>17. CASE DatabaseFailsWorker(w)
    <2>1. RowsQueued'
      BY <1>17 DEF DatabaseFailsWorker, UpdateStatus
    <2>2. WorkersQueued'
      BY <1>17, <1>rest DEF DatabaseFailsWorker, Throw, Go, KeepLocals
    <2> QED
      BY <2>1, <2>2
  <1>18. CASE RelayFailsWorker(w)
    <2>1. RowsQueued'
      BY <1>18 DEF RelayFailsWorker, publish, enqueue
    <2>2. WorkersQueued'
      BY <1>18, <1>rest DEF RelayFailsWorker, Throw, Go, KeepLocals
    <2> QED
      BY <2>1, <2>2
  <1>19. CASE CrashWorker(w)
    BY <1>19, <1>rest DEF CrashWorker
  <1> QED
    BY <1>1, <1>2, <1>3, <1>4, <1>5, <1>6, <1>7, <1>8, <1>9, <1>10, <1>11, <1>12,
       <1>13, <1>14, <1>15, <1>16, <1>17, <1>18, <1>19
       DEF WorkerStep, ProcessorStep, HandlerStep

LEMMA ConnectorQueue ==
    ASSUME TypeInv, QueueInv, Connector
    PROVE  RowsQueued'
  <1>t. status \in [Command -> CommandStatus \union {"none"}]
    BY DEF TypeInv, TypeOK, StoreTypeOK
  <1> USE <1>t DEF QueueInv, RowsQueued, Row, Enqueued, Begun, Settled, storeVars, relayVars
  <1>1. ASSUME NEW c \in Command, NEW outcome \in TerminalStatus, ReceiveResult(c, outcome)
        PROVE  RowsQueued'
    BY <1>1 DEF ReceiveResult, AcceptsCompletion, UpdateStatus, TerminalStatus
  <1>2. ASSUME UNCHANGED <<status, jobState>>
        PROVE  RowsQueued'
    BY <1>2
  <1> QED
    BY <1>1, <1>2 DEF Connector, ConnectorStep, ConnectorFault, StartExecution, JoinExecution,
       TakeMessage, RuntimeDecides, RuntimeReplies, RuntimeUnavailable, EvictExecution,
       AuditCompleted, LoseSocket, DatabaseFailsGateway, RestartConnector, DropSocket

LEMMA StepQueue ==
    ASSUME TypeInv, QueueInv, [Next]_vars
    PROVE  QueueInv'
  <1>1. UNCHANGED <<status, jobState>> => RowsQueued'
    BY DEF QueueInv, RowsQueued, Row, Enqueued, Begun, Settled
  <1>2. CASE Api
    BY <1>2, ApiQueue, OthersQueued DEF Api, QueueInv
  <1>3. CASE (\E w \in Worker : Processor(w) \/ Handler(w)) \/ WorkerFault
    BY <1>3, WorkerQueue, OthersQueued DEF Processor, Handler, WorkerFault, WorkerStep, QueueInv
  <1>4. CASE StalledCheck
    <2>1. RowsQueued'
      BY <1>4 DEF StalledCheck, ReclaimJob, EndJobStalled, storeVars, TypeInv, TypeOK, RelayTypeOK,
                  QueueInv, RowsQueued, Row, Enqueued, Begun, Settled
    <2>2. ASSUME NEW c \in Command, EndJobStalled(c), UNCHANGED storeVars, ReportStalled(c)
          PROVE  WorkersQueued'
      <3>1. jobState \in [Command -> JobState] /\ WorkerTypeOK
        BY DEF TypeInv, TypeOK, RelayTypeOK
      <3>2. \A d \in Command : Enqueued(d) => Enqueued(d)'
        BY <2>2, <3>1 DEF EndJobStalled, Enqueued
      <3> QED
        BY <2>2, <3>1, <3>2 DEF EndJobStalled, ReportStalled, Go, storeVars, QueueInv, WorkersQueued,
           WorkerTypeOK, BusyPc, ProcessorPc, HandlerPc, Row, Enqueued, Settled, TypeInv,
           ProcessesHoldCommands
    <2> QED
      BY <1>4, <2>1, <2>2, OthersQueued DEF StalledCheck, ReclaimJob, QueueInv
  <1>5. CASE Connector
    BY <1>5, ConnectorQueue, OthersQueued DEF Connector, QueueInv
  <1>6. CASE Clock
    BY <1>1, <1>6, OthersQueued DEF Clock, PassExpiry, relayVars, QueueInv
  <1>7. CASE ApiCrash
    <2>1. RowsQueued' /\ WorkersQueued'
      BY <1>1, <1>7, OthersQueued DEF ApiCrash, DropGateway, DropSocket, storeVars
    <2>2. RequestsQueued'
      BY <1>7 DEF ApiCrash, DropRequests, DropGateway, DropSocket, storeVars, QueueInv,
                  RequestsQueued, Row, Enqueued, TypeInv, TypeOK, ApiTypeOK
    <2> QED
      BY <2>1, <2>2 DEF QueueInv
  <1>8. CASE UNCHANGED vars
    BY <1>1, <1>8, OthersQueued DEF vars, storeVars, relayVars, QueueInv
  <1> QED
    BY <1>2, <1>3, <1>4, <1>5, <1>6, <1>7, <1>8 DEF Next

LEMMA QueueInvHolds == Spec => []QueueInv
  BY QueueInit, StepQueue, TypeInvHolds, PTL DEF Spec

\* No client is told, and no row says, that a command is under way unless the
\* queue has its job: the order of the statements survives every crash.
THEOREM QueuedIsNeverPretended == Spec => []NeverPretendQueued
  <1>1. TypeInv /\ QueueInv => NeverPretendQueued
    BY DEF QueueInv, RowsQueued, RequestsQueued, Begun, NeverPretendQueued
  <1> QED
    BY <1>1, TypeInvHolds, QueueInvHolds, PTL

\* No worker, not even one that lost its lock, completes the job of a command
\* that is still open.
THEOREM CompletionMeansSettled == Spec => []CompletedJobIsSettled
  <1>1. QueueInv => CompletedJobIsSettled
    BY DEF QueueInv, RowsQueued, CompletedJobIsSettled
  <1> QED
    BY <1>1, QueueInvHolds, PTL

---------------------------------------------------------------------------
(***************************************************************************)
(* Results.  Only a worker that wrote `delivering' publishes, so whatever  *)
(* is at the connector, and whatever the Runtime decided, belongs to a row *)
(* past `created'; and every verdict on its way back, or already stored,   *)
(* agrees with the decision.                                               *)
(***************************************************************************)

Agrees(c, outcome) ==
    /\ outcome = "succeeded" => decision[c] = "accepted"
    /\ outcome = "rejected" => decision[c] = "refused"
    /\ outcome = "conflict" => decision[c] = "conflicted"

DeliveredAreBegun ==
    /\ \A c \in Command : InDelivery(c) \/ decision[c] # "none" => Begun(c)
    /\ \A w \in Worker : wPc[w] = "publish" => Begun(wCmd[w])

VerdictsAgree ==
    \A c \in Command :
        /\ Agrees(c, status[c])
        /\ Agrees(c, execution[c])
        /\ \A outcome \in TerminalStatus : <<c, outcome>> \in results => Agrees(c, outcome)

ResultInv == DeliveredAreBegun /\ VerdictsAgree

LEMMA ResultInit == Init => ResultInv
  BY DEF Init, StoreInit, RelayInit, WorkerInit, ConnectorInit, ResultInv, DeliveredAreBegun,
         VerdictsAgree, Agrees, InDelivery

\* Requests and workers set no status that claims to be a decision.
LEMMA HubClaimsNothing ==
    ASSUME StoreTypeOK, HubStatement, VerdictsAgree, UNCHANGED connectorVars
    PROVE  VerdictsAgree'
  <1> SUFFICES ASSUME NEW c \in Command
               PROVE  status'[c] = status[c] \/ status'[c] \in HubGoal \union {"created"}
    BY DEF VerdictsAgree, Agrees, connectorVars, HubGoal
  <1> QED
    BY DEF HubStatement, StoreTypeOK, storeVars, InsertRow, SetByHub, UpdateStatus, OpenAttempt,
           finishCommandAttempt, AppendCreated, AppendCompleted, PassExpiry

\* A worker publishes only what it has just set to delivering.
LEMMA WorkerDelivers ==
    ASSUME TypeInv, ResultInv, NEW w \in Worker, WorkerStep(w),
           UNCHANGED <<apiVars, connectorVars>>
    PROVE  DeliveredAreBegun'
  <1>k. \A c \in Command : Begun(c) => Begun(c)'
    BY StepKeeps DEF Next, Processor, Handler, WorkerFault, WorkerStep
  <1>t. /\ status \in [Command -> CommandStatus \union {"none"}]
        /\ wPc \in [Worker -> WPc] /\ wCmd \in [Worker -> Command \union {None}]
        /\ \A v \in Worker : wPc[v] \in BusyPc => wCmd[v] \in Command
    BY DEF TypeInv, TypeOK, StoreTypeOK, WorkerTypeOK, ProcessesHoldCommands
  <1>p. wPc[w] = "publish" => wCmd[w] \in Command /\ Begun(wCmd[w])
    BY <1>t DEF ResultInv, DeliveredAreBegun, BusyPc, ProcessorPc
  <1>1. inbox' \subseteq inbox \union {c \in Command : Begun(c)}
    BY <1>p DEF WorkerStep, ProcessorStep, HandlerStep, StartWorker, RecoverCommand, OpenForWork,
       TakeJob, LoadCommand, CheckPresence, CreateAttempt, ReadStatus, WriteStatus, PublishCommand,
       FinishAttempt, CompleteJob, FailJob, LoadExhausted, ReadExhausted, WriteExhausted,
       DatabaseFailsWorker, RelayFailsWorker, CrashWorker, relayVars, enqueue, LockJob,
       EndJobCompleted, EndJobFailed, publish
  <1>2. \A c \in Command : (InDelivery(c) \/ decision[c] # "none")' => Begun(c)'
    BY <1>1, <1>k DEF ResultInv, DeliveredAreBegun, InDelivery, connectorVars
  <1>3. (wPc'[w] = "publish") => wCmd' = wCmd /\ wPc[w] \in BusyPc /\ Begun(wCmd[w])'
    <2>1. CASE WriteStatus(w)
      BY <1>t, <2>1 DEF WriteStatus, AfterWrite, UpdateStatus, Go, Begun, BusyPc, ProcessorPc
    <2>2. wPc'[w] = "publish" => WriteStatus(w)
      BY <1>t DEF WorkerStep, ProcessorStep, HandlerStep, StartWorker, RecoverCommand, OpenForWork,
         TakeJob, LoadCommand, CheckPresence, CreateAttempt, ReadStatus, PublishCommand,
         FinishAttempt, CompleteJob, FailJob, LoadExhausted, ReadExhausted, WriteExhausted,
         DatabaseFailsWorker, RelayFailsWorker, CrashWorker, Throw, Rest, Go, KeepLocals,
         AfterAttempt, AfterPublish
    <2> QED
      BY <2>1, <2>2
  <1>4. \A v \in Worker : v # w => wPc'[v] = wPc[v] /\ wCmd'[v] = wCmd[v]
    BY <1>t DEF WorkerStep, ProcessorStep, HandlerStep, StartWorker, RecoverCommand, OpenForWork,
       TakeJob, LoadCommand, CheckPresence, CreateAttempt, ReadStatus, WriteStatus, PublishCommand,
       FinishAttempt, CompleteJob, FailJob, LoadExhausted, ReadExhausted, WriteExhausted,
       DatabaseFailsWorker, RelayFailsWorker, CrashWorker, Throw, Rest, Go, KeepLocals
  <1>5. \A v \in Worker : wPc'[v] = "publish" => Begun(wCmd[v])' /\ wCmd'[v] = wCmd[v]
    BY <1>3, <1>4, <1>k, <1>t DEF ResultInv, DeliveredAreBegun, Begun, BusyPc, ProcessorPc
  <1> QED
    BY <1>2, <1>5 DEF DeliveredAreBegun, Begun

LEMMA ConnectorAgrees ==
    ASSUME TypeInv, ResultInv, Connector
    PROVE  ResultInv'
  <1>k. \A c \in Command : Begun(c) => Begun(c)'
    BY StepKeeps DEF Next
  <1>t. /\ status \in [Command -> CommandStatus \union {"none"}]
        /\ execution \in [Command -> {"none", "calling"} \union TerminalStatus]
        /\ decision \in [Command -> Decision]
        /\ results \in SUBSET Result
        /\ \A w \in Worker : wPc[w] = "publish" => wCmd[w] \in Command
    BY DEF TypeInv, TypeOK, StoreTypeOK, ConnectorTypeOK, ProcessesHoldCommands, BusyPc, ProcessorPc
  <1>w. \A w \in Worker : (wPc[w] = "publish")' => Begun(wCmd[w])'
    BY <1>k, <1>t DEF Connector, workerVars, ResultInv, DeliveredAreBegun, Begun
  <1> DEFINE DeliveredStay ==
        \A c \in Command : (InDelivery(c) \/ decision[c] # "none")' => Begun(c)'
  <1> DEFINE Kept == DeliveredStay /\ VerdictsAgree'
  <1> SUFFICES Kept
    BY <1>w DEF ResultInv, DeliveredAreBegun
  <1> USE <1>k, <1>t DEF ResultInv, DeliveredAreBegun, InDelivery, VerdictsAgree, Agrees
  <1>1. ASSUME NEW c \in Command, StartExecution(c) PROVE Kept
    <2>1. DeliveredStay
      BY <1>1 DEF StartExecution, TakeMessage
    <2>2. /\ results' \subseteq results \union {<<c, "expired">>}
          /\ execution'[c] \in {"calling", "expired"}
          /\ \A d \in Command : d # c => execution'[d] = execution[d]
          /\ UNCHANGED <<status, decision>>
      BY <1>1 DEF StartExecution, storeVars
    <2>3. VerdictsAgree'
      BY <2>2
    <2> QED
      BY <2>1, <2>3
  <1>2. ASSUME NEW c \in Command, JoinExecution(c) PROVE Kept
    <2>1. DeliveredStay
      BY <1>2 DEF JoinExecution, TakeMessage
    <2>2. /\ results' \subseteq results \union {<<c, execution[c]>>}
          /\ UNCHANGED <<status, execution, decision>>
      BY <1>2 DEF JoinExecution, storeVars
    <2>3. VerdictsAgree'
      BY <2>2
    <2> QED
      BY <2>1, <2>3
  <1>3. ASSUME NEW c \in Command, RuntimeDecides(c) PROVE Kept
    BY <1>3 DEF RuntimeDecides, storeVars, relayVars
  <1>4. ASSUME NEW c \in Command, RuntimeReplies(c) PROVE Kept
    BY <1>4 DEF RuntimeReplies, FinishExecution, VerdictOf, storeVars, relayVars, Decision
  <1>5. ASSUME NEW c \in Command, RuntimeUnavailable(c) PROVE Kept
    BY <1>5 DEF RuntimeUnavailable, FinishExecution, storeVars, relayVars
  <1>6. ASSUME NEW c \in Command, EvictExecution(c) PROVE Kept
    BY <1>6 DEF EvictExecution, storeVars, relayVars
  <1>7. ASSUME NEW c \in Command, NEW outcome \in TerminalStatus, ReceiveResult(c, outcome)
        PROVE  Kept
    BY <1>7 DEF ReceiveResult, UpdateStatus, storeVars, relayVars
  <1>8. ASSUME NEW c \in Command, NEW outcome \in TerminalStatus, AuditCompleted(c, outcome)
        PROVE  Kept
    BY <1>8 DEF AuditCompleted, relayVars, Begun
  <1>9. CASE ConnectorFault
    <2>1. /\ inbox' = {}
          /\ results' \subseteq results
          /\ execution' = execution \/ execution' = [c \in Command |-> "none"]
          /\ UNCHANGED <<status, decision, calls>>
      BY <1>9 DEF ConnectorFault, LoseSocket, DatabaseFailsGateway, RestartConnector, DropSocket,
         storeVars
    <2>2. DeliveredStay
      BY <2>1
    <2>3. VerdictsAgree'
      BY <2>1
    <2> QED
      BY <2>2, <2>3
  <1> QED
    BY <1>1, <1>2, <1>3, <1>4, <1>5, <1>6, <1>7, <1>8, <1>9 DEF Connector, ConnectorStep

LEMMA StepAgrees ==
    ASSUME TypeInv, ResultInv, [Next]_vars
    PROVE  ResultInv'
  <1>k. \A c \in Command : Begun(c) => Begun(c)'
    BY StepKeeps
  <1>t. /\ StoreTypeOK
        /\ \A w \in Worker : wPc[w] = "publish" => wCmd[w] \in Command
    BY DEF TypeInv, TypeOK, ProcessesHoldCommands, BusyPc, ProcessorPc
  <1>d. UNCHANGED <<inbox, workerVars, connectorVars>> => DeliveredAreBegun'
    BY <1>k, <1>t DEF ResultInv, DeliveredAreBegun, InDelivery, Begun, workerVars, connectorVars
  <1>v. HubStatement /\ UNCHANGED connectorVars => VerdictsAgree'
    BY <1>t, HubClaimsNothing DEF ResultInv
  <1>1. CASE Api
    BY <1>1, <1>d, <1>v, ApiReaches DEF Api, ResultInv
  <1>2. ASSUME NEW w \in Worker, WorkerStep(w), UNCHANGED <<apiVars, connectorVars>>
        PROVE  ResultInv'
    BY <1>2, <1>v, WorkerDelivers, WorkerReaches DEF ResultInv
  <1>3. CASE StalledCheck
    <2>1. ASSUME NEW c \in Command, ReportStalled(c), UNCHANGED <<inbox, connectorVars>>
          PROVE  DeliveredAreBegun'
      BY <2>1, <1>k, <1>t DEF ReportStalled, Go, ResultInv, DeliveredAreBegun, InDelivery, Begun,
         connectorVars, TypeInv, TypeOK, WorkerTypeOK
    <2> QED
      BY <1>3, <2>1, <1>d, <1>v DEF StalledCheck, ReclaimJob, EndJobStalled, HubStatement, ResultInv
  <1>4. CASE Connector
    BY <1>4, ConnectorAgrees
  <1>5. CASE Clock
    BY <1>5, <1>d, <1>v DEF Clock, HubStatement, relayVars, ResultInv
  <1>6. CASE ApiCrash
    BY <1>6, <1>k, <1>t DEF ApiCrash, DropGateway, DropSocket, storeVars, workerVars, ResultInv, DeliveredAreBegun,
       InDelivery, Begun, VerdictsAgree, Agrees
  <1>7. CASE UNCHANGED vars
    BY <1>7, <1>d, <1>v DEF vars, HubStatement, relayVars, ResultInv
  <1> QED
    BY <1>1, <1>2, <1>3, <1>4, <1>5, <1>6, <1>7 DEF Next, Processor, Handler, WorkerFault, WorkerStep

LEMMA ResultInvHolds == Spec => []ResultInv
  BY ResultInit, StepAgrees, TypeInvHolds, PTL DEF Spec

\* A result never finds a row that turns it away because delivery has, on
\* paper, not begun.
THEOREM ResultsFindTheirRow == Spec => []ResultsNeverTooEarly
  <1>1. ResultInv => ResultsNeverTooEarly
    BY DEF ResultInv, DeliveredAreBegun, ResultsNeverTooEarly, Begun
  <1> QED
    BY <1>1, ResultInvHolds, PTL

\* The verdict the hub shows is the Runtime's decision, through redelivery,
\* timeouts, restarts and lost or late results.
THEOREM VerdictsAreTheRuntimes == Spec => []VerdictMatchesRuntime
  <1>1. ResultInv => VerdictMatchesRuntime
    BY DEF ResultInv, VerdictsAgree, Agrees, VerdictMatchesRuntime
  <1> QED
    BY <1>1, ResultInvHolds, PTL

---------------------------------------------------------------------------
(***************************************************************************)
(* The delivery implements the abstract life cycle.  A step changes the    *)
(* status and the Runtime's decision never together, and each change is    *)
(* Submit, Decide, Settle or, between open statuses, a stutter.            *)
(***************************************************************************)

LEMMA LifecycleInit == Init => Lifecycle!Init
  BY DEF Init, StoreInit, ConnectorInit, Lifecycle!Init, Open, OpenStatus, CommandStatus

LEMMA StatusChanges ==
    ASSUME StoreTypeOK, StoreStep
    PROVE  \/ UNCHANGED status
           \/ \E c \in Command, new \in CommandStatus :
                /\ status' = [status EXCEPT ![c] = new]
                /\ (status[c] = "none" /\ new = "created") \/ Open(c)
  <1> DEFINE Changes ==
        \/ UNCHANGED status
        \/ \E c \in Command, new \in CommandStatus :
             /\ status' = [status EXCEPT ![c] = new]
             /\ (status[c] = "none" /\ new = "created") \/ Open(c)
  <1> USE DEF StoreTypeOK
  <1>1. ASSUME NEW c \in Command, NEW body \in Body, InsertRow(c, body) PROVE Changes
    BY <1>1 DEF InsertRow, Row, storeVars, CommandStatus
  <1>2. ASSUME NEW c \in Command, NEW goal \in HubGoal, SetByHub(c, goal) PROVE Changes
    <2>1. status[c] = goal \/ Open(c)
      BY <1>2 DEF SetByHub, MaySetStatus, canTransitionCommand, transitions, Open, OpenStatus,
                  TerminalStatus, CommandStatus, UpdateStatus
    <2> QED
      BY <1>2, <2>1 DEF SetByHub, UpdateStatus, HubGoal, CommandStatus
  <1>3. ASSUME NEW c \in Command, NEW outcome \in TerminalStatus, SetByConnector(c, outcome)
        PROVE  Changes
    BY <1>3 DEF SetByConnector, AcceptsCompletion, UpdateStatus, Open, OpenStatus,
       TerminalStatus, CommandStatus
  <1> QED
    BY <1>1, <1>2, <1>3 DEF StoreStep, HubStatement, storeVars, OpenAttempt, finishCommandAttempt,
       AppendCreated, AppendCompleted, PassExpiry

\* The Runtime decides on its own: nothing else moves with it.
LEMMA DecisionChanges ==
    ASSUME [Next]_vars
    PROVE  \/ UNCHANGED decision
           \/ \E c \in Command : RuntimeDecides(c)
  BY DEF Next, vars, Api, Processor, Handler, WorkerFault, StalledCheck, Connector, ConnectorStep,
     ConnectorFault, Clock, ApiCrash, connectorVars, StartExecution, JoinExecution, RuntimeReplies,
     RuntimeUnavailable, EvictExecution, ReceiveResult, AuditCompleted, LoseSocket,
     DatabaseFailsGateway, RestartConnector, DropGateway

LEMMA LifecycleStep ==
    ASSUME TypeInv, ResultInv, ResultInv', [Next]_vars
    PROVE  [Lifecycle!Next]_(Lifecycle!lifecycleVars)
  <1>t. /\ StoreTypeOK /\ StoreStep
        /\ status \in [Command -> CommandStatus \union {"none"}]
        /\ decision \in [Command -> Decision]
    BY StepReaches DEF TypeInv, TypeOK, StoreTypeOK, ConnectorTypeOK
  <1> DEFINE ledger == [d \in Command |->
        CASE status[d] = "none" -> "absent"
          [] Open(d) -> "open"
          [] OTHER -> status[d]]
  <1> USE DEF Lifecycle!Next, Lifecycle!lifecycleVars
  <1>1. CASE UNCHANGED <<status, decision>>
    BY <1>1 DEF Open
  <1>2. ASSUME NEW c \in Command, RuntimeDecides(c) PROVE Lifecycle!Decide(c)
    <2>1. Begun(c)
      BY <1>2 DEF RuntimeDecides, ResultInv, DeliveredAreBegun, InDelivery
    <2>2. UNCHANGED status
      BY <1>2 DEF RuntimeDecides, storeVars
    <2> QED
      BY <1>2, <1>t, <2>1, <2>2 DEF RuntimeDecides, Lifecycle!Decide, Begun, Open, Decision, OpenStatus,
         CommandStatus
  <1>3. ASSUME UNCHANGED decision, NEW c \in Command, NEW new \in CommandStatus,
               status' = [status EXCEPT ![c] = new],
               (status[c] = "none" /\ new = "created") \/ Open(c)
        PROVE  [Lifecycle!Next]_(Lifecycle!lifecycleVars)
    <2>1. CASE status[c] = "none"
      <3>1. new = "created"
        BY <1>3, <2>1 DEF Open, OpenStatus, CommandStatus
      <3> QED
        BY <1>3, <1>t, <2>1, <3>1 DEF Lifecycle!Submit, Open, OpenStatus, TerminalStatus, CommandStatus
    <2>2. CASE Open(c) /\ new \in OpenStatus
      BY <1>3, <1>t, <2>2 DEF Open, OpenStatus, CommandStatus
    <2>3. CASE Open(c) /\ new \in TerminalStatus
      <3>1. Agrees(c, new)
        BY <1>3, <1>t DEF ResultInv, VerdictsAgree, Agrees
      <3>2. ledger[c] = "open" /\ ledger' = [ledger EXCEPT ![c] = new]
        BY <1>3, <1>t, <2>3 DEF Open, OpenStatus, TerminalStatus, CommandStatus
      <3>3. \/ new \in {"expired", "failed"}
            \/ new \in DOMAIN Lifecycle!Reports /\ decision[c] = Lifecycle!Reports[new]
        BY <2>3, <3>1 DEF Lifecycle!Reports, Agrees, TerminalStatus
      <3> QED
        BY <1>3, <3>2, <3>3 DEF Lifecycle!Settle
    <2> QED
      BY <1>3, <2>1, <2>2, <2>3 DEF OpenStatus
  <1> QED
    BY <1>1, <1>2, <1>3, <1>t, StatusChanges, DecisionChanges

\* Whatever interleaves or fails, users of the hub see the life cycle of
\* CommandLifecycle.
THEOREM DeliveryImplementsLifecycle == Spec => ImplementsLifecycle
  BY LifecycleInit, LifecycleStep, TypeInvHolds, ResultInvHolds, PTL
     DEF Spec, ImplementsLifecycle, Lifecycle!Spec
===============================================================================
