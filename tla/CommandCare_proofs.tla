-------------------------- MODULE CommandCare_proofs --------------------------
(***************************************************************************)
(* Who answers for an open command and what its status may become: the     *)
(* safety half of its delivery, for all values of the constants.           *)
(*                                                                         *)
(* An open command leaves the care of its job or of the "failed" handler   *)
(* only through the faults that AbandonedOnlyByFault names.  QueueInv: a   *)
(* processor returns only for a settled command.  JobsHaveRunsLeft: a job  *)
(* that can run has stalled at most MaxStalls times.  HandlersMeanToSettle,*)
(* added here: what the handler sets ends the command.                     *)
(*                                                                         *)
(* It is given up no sooner than NoVerdictTooSoon says.  CauseInv: whoever *)
(* is about to write a verdict of the hub has its reason, and keeps it.    *)
(***************************************************************************)
EXTENDS CommandDelivery_proofs

HandlersMeanToSettle ==
    \A w \in Worker :
        wPc[w] \in {"readExhausted", "writeExhausted"} => wGoal[w] \in {"expired", "failed"}

LEMMA HandlersInit == Init => HandlersMeanToSettle
  BY DEF Init, WorkerInit, HandlersMeanToSettle

LEMMA RestMeansToSettle ==
    ASSUME WorkerTypeOK, HandlersMeanToSettle, NEW w \in Worker, NEW pc \in {"idle", "down"},
           Rest(w, pc)
    PROVE  HandlersMeanToSettle'
  BY DEF WorkerTypeOK, Rest, HandlersMeanToSettle

LEMMA WorkerMeansToSettle ==
    ASSUME TypeInv, HandlersMeanToSettle, NEW w \in Worker, WorkerStep(w)
    PROVE  HandlersMeanToSettle'
  <1>t. WorkerTypeOK
    BY DEF TypeInv, TypeOK
  <1>rest. ASSUME NEW pc \in {"idle", "down"}, Rest(w, pc) PROVE HandlersMeanToSettle'
    BY <1>t, <1>rest, RestMeansToSettle
  <1> USE <1>t DEF WorkerTypeOK, HandlersMeanToSettle, Go, KeepLocals
  <1>1. CASE StartWorker(w)
    BY <1>1 DEF StartWorker
  <1>2. ASSUME NEW c \in Command, RecoverCommand(w, c) PROVE HandlersMeanToSettle'
    BY <1>2 DEF RecoverCommand
  <1>3. CASE OpenForWork(w)
    BY <1>3 DEF OpenForWork
  <1>4. ASSUME NEW c \in Command, TakeJob(w, c) PROVE HandlersMeanToSettle'
    BY <1>4 DEF TakeJob
  <1>5. CASE LoadCommand(w)
    BY <1>5 DEF LoadCommand
  <1>6. CASE CheckPresence(w)
    BY <1>6 DEF CheckPresence
  <1>7. CASE CreateAttempt(w)
    BY <1>7 DEF CreateAttempt, AfterAttempt
  <1>8. CASE ReadStatus(w)
    BY <1>8 DEF ReadStatus
  <1>9. CASE WriteStatus(w)
    BY <1>9 DEF WriteStatus, AfterWrite
  <1>10. CASE PublishCommand(w)
    BY <1>10 DEF PublishCommand
  <1>11. CASE FinishAttempt(w)
    BY <1>11 DEF FinishAttempt, AfterPublish
  <1>12. CASE CompleteJob(w)
    BY <1>12, <1>rest DEF CompleteJob
  <1>13. CASE FailJob(w)
    BY <1>13, <1>rest DEF FailJob
  <1>14. CASE LoadExhausted(w)
    BY <1>14, <1>rest DEF LoadExhausted
  <1>15. CASE ReadExhausted(w)
    BY <1>15, <1>rest DEF ReadExhausted
  <1>16. CASE WriteExhausted(w)
    BY <1>16, <1>rest DEF WriteExhausted
  <1>17. CASE DatabaseFailsWorker(w)
    BY <1>17, <1>rest DEF DatabaseFailsWorker, Throw
  <1>18. CASE RelayFailsWorker(w)
    BY <1>18, <1>rest DEF RelayFailsWorker, Throw
  <1>19. CASE CrashWorker(w)
    BY <1>19, <1>rest DEF CrashWorker
  <1> QED
    BY <1>1, <1>2, <1>3, <1>4, <1>5, <1>6, <1>7, <1>8, <1>9, <1>10, <1>11, <1>12,
       <1>13, <1>14, <1>15, <1>16, <1>17, <1>18, <1>19
       DEF WorkerStep, ProcessorStep, HandlerStep

LEMMA StepMeansToSettle ==
    ASSUME TypeInv, HandlersMeanToSettle, [Next]_vars
    PROVE  HandlersMeanToSettle'
  <1>1. CASE UNCHANGED workerVars
    BY <1>1 DEF workerVars, HandlersMeanToSettle
  <1>2. ASSUME NEW w \in Worker, WorkerStep(w) PROVE HandlersMeanToSettle'
    BY <1>2, WorkerMeansToSettle
  <1>3. ASSUME NEW c \in Command, ReportStalled(c) PROVE HandlersMeanToSettle'
    BY <1>3 DEF ReportStalled, Go, HandlersMeanToSettle, TypeInv, TypeOK, WorkerTypeOK
  <1> QED
    BY <1>1, <1>2, <1>3 DEF Next, Api, Processor, Handler, WorkerFault, WorkerStep, StalledCheck,
       ReclaimJob, Connector, Clock, ApiCrash, vars

LEMMA HandlersHold == Spec => []HandlersMeanToSettle
  BY HandlersInit, StepMeansToSettle, TypeInvHolds, PTL DEF Spec

---------------------------------------------------------------------------
(***************************************************************************)
(* How care ends.  A job stops being live when its run completes, fails    *)
(* for the last time or stalls once too often; a handler stops when it has *)
(* stored a verdict or its process is gone.                                *)
(***************************************************************************)

LEMMA JobsStayLive ==
    ASSUME RelayTypeOK, NEW c \in Command, LiveJob(c), NEW d \in Command, enqueue(d)
    PROVE  LiveJob(c)'
  BY DEF RelayTypeOK, LiveJob, enqueue, Enqueued

\* The run that ends a live job of an open command leaves it to the handler.
LEMMA LastRunHandsOver ==
    ASSUME TypeInv, QueueInv, NEW w \in Worker, WorkerStep(w),
           NEW c \in Command, Open(c), LiveJob(c), ~ LiveJob(c)'
    PROVE  Handles(w, c)'
  <1>t. /\ RelayTypeOK /\ WorkerTypeOK
        /\ wPc[w] \in BusyPc => wCmd[w] \in Command
        /\ wPc[w] = "complete" => Settled(wCmd[w])
    BY DEF TypeInv, TypeOK, ProcessesHoldCommands, QueueInv, WorkersQueued
  <1>1. ASSUME UNCHANGED jobState PROVE FALSE
    BY <1>1 DEF LiveJob
  <1>2. ASSUME NEW d \in Command, enqueue(d) PROVE FALSE
    BY <1>t, <1>2, JobsStayLive
  <1>3. ASSUME NEW d \in Command, TakeJob(w, d) PROVE FALSE
    BY <1>t, <1>3 DEF TakeJob, LockJob, LiveJob, RelayTypeOK
  <1>4. ASSUME CompleteJob(w) PROVE FALSE
    <2>1. Settled(wCmd[w]) /\ wCmd[w] \in Command
      BY <1>t, <1>4 DEF CompleteJob, BusyPc
    <2>2. EndJobCompleted(wCmd[w], w)
      BY <1>1, <1>4 DEF CompleteJob, relayVars
    <2>3. wCmd[w] = c
      BY <1>t, <2>1, <2>2 DEF EndJobCompleted, LiveJob, RelayTypeOK
    <2> QED
      BY <2>1, <2>3 DEF Settled, Open, OpenStatus
  <1>5. CASE FailJob(w)
    <2>1. wCmd[w] \in Command
      BY <1>t, <1>5 DEF FailJob, BusyPc
    <2>2. EndJobFailed(wCmd[w], w)
      BY <1>1, <1>5 DEF FailJob, relayVars
    <2>3. wCmd[w] = c /\ LastAttempt(c)
      BY <1>t, <2>1, <2>2 DEF EndJobFailed, LiveJob, RelayTypeOK
    <2>4. Exhausted(wCmd[w])
      BY <2>3 DEF LastAttempt, Exhausted
    <2> QED
      BY <1>t, <1>5, <2>2, <2>3, <2>4
         DEF FailJob, EndJobFailed, Go, KeepLocals, Handles, HandlerPc, WorkerTypeOK
  <1>6. CASE RelayFailsWorker(w)
    BY <1>1, <1>2, <1>6, <1>t DEF RelayFailsWorker, publish, relayVars, WorkerTypeOK
  <1> QED
    BY <1>1, <1>2, <1>3, <1>4, <1>5, <1>6
       DEF WorkerStep, ProcessorStep, HandlerStep, StartWorker, RecoverCommand, OpenForWork,
           LoadCommand, CheckPresence, CreateAttempt, ReadStatus, WriteStatus, PublishCommand, publish,
           FinishAttempt, LoadExhausted, ReadExhausted, WriteExhausted, DatabaseFailsWorker,
           CrashWorker, relayVars

\* The handler lets go of an open command only if it dies or is overtaken.
LEMMA HandlerSettles ==
    ASSUME TypeInv, HandlersMeanToSettle, NEW w \in Worker, WorkerStep(w),
           NEW c \in Command, Handles(w, c), Open(c), Open(c)', ~ Handles(w, c)'
    PROVE  HandlerKilled(w, c) \/ HandlerOvertaken(w, c)
  <1>t. /\ WorkerTypeOK
        /\ status \in [Command -> CommandStatus \union {"none"}]
        /\ wCmd[w] = c /\ wPc[w] \in HandlerPc
    BY DEF TypeInv, TypeOK, StoreTypeOK, Handles
  <1>1. ASSUME wPc'[w] \in HandlerPc, UNCHANGED wCmd PROVE FALSE
    BY <1>1, <1>t DEF Handles
  <1>2. ASSUME LoadExhausted(w) PROVE FALSE
    BY <1>1, <1>2, <1>t DEF LoadExhausted, Go, HandlerPc, WorkerTypeOK
  <1>3. ASSUME ReadExhausted(w) PROVE FALSE
    <2>1. wGoal[w] \in {"expired", "failed"}
      BY <1>3 DEF ReadExhausted, HandlersMeanToSettle
    <2>2. MaySetStatus(status[wCmd[w]], wGoal[w])
      BY <1>t, <2>1 DEF MaySetStatus, canTransitionCommand, transitions, Open, OpenStatus, CommandStatus,
                  TerminalStatus
    <2> QED
      BY <1>1, <1>3, <1>t, <2>2 DEF ReadExhausted, Go, HandlerPc, WorkerTypeOK
  <1>4. CASE WriteExhausted(w)
    <2>1. wGoal[w] \in {"expired", "failed"}
      BY <1>4 DEF WriteExhausted, HandlersMeanToSettle
    <2>2. ~ StatusStill(wCmd[w], wCurrent[w])
      BY <1>4, <1>t, <2>1 DEF WriteExhausted, UpdateStatus, Open, OpenStatus, TerminalStatus
    <2> QED
      BY <1>4, <1>t, <2>2 DEF WriteExhausted, StatusStill, HandlerOvertaken
  <1>5. CASE DatabaseFailsWorker(w)
    <2>1. wPc[w] \notin ProcessorPc
      BY <1>t DEF HandlerPc, ProcessorPc
    <2>2. Rest(w, "down") /\ "db_error" \in Faults
      BY <1>5, <2>1 DEF DatabaseFailsWorker, Throw
    <2> QED
      BY <1>t, <2>2 DEF Rest, HandlerKilled, WorkerTypeOK
  <1>6. CASE CrashWorker(w)
    BY <1>6, <1>t DEF CrashWorker, Rest, HandlerKilled, WorkerTypeOK
  <1> QED
    BY <1>t, <1>2, <1>3, <1>4, <1>5, <1>6
       DEF WorkerStep, ProcessorStep, HandlerStep, HandlerPc, StartWorker, RecoverCommand, OpenForWork,
           TakeJob, LoadCommand, CheckPresence, CreateAttempt, ReadStatus, WriteStatus, PublishCommand,
           FinishAttempt, CompleteJob, FailJob, RelayFailsWorker

\* A worker's step touches no other worker.
LEMMA WorkersApart ==
    ASSUME WorkerTypeOK, NEW w \in Worker, WorkerStep(w), NEW v \in Worker, v # w,
           NEW c \in Command, Handles(v, c)
    PROVE  Handles(v, c)'
  BY DEF WorkerTypeOK, Handles, WorkerStep, ProcessorStep, HandlerStep, StartWorker, RecoverCommand,
     OpenForWork, TakeJob, LoadCommand, CheckPresence, CreateAttempt, ReadStatus, WriteStatus,
     PublishCommand, FinishAttempt, CompleteJob, FailJob, LoadExhausted, ReadExhausted, WriteExhausted,
     DatabaseFailsWorker, RelayFailsWorker, CrashWorker, Throw, Rest, Go, KeepLocals

LEMMA StepAbandons ==
    ASSUME TypeInv, QueueInv, HandlersMeanToSettle, [Next]_vars,
           NEW c \in Command, Open(c), InCare(c), Open(c)', ~ InCare(c)'
    PROVE  \/ GaveUpStalled(c)
           \/ \E w \in Worker : HandlerKilled(w, c) \/ HandlerOvertaken(w, c)
  <1> DEFINE Excused == \/ GaveUpStalled(c)
                        \/ \E w \in Worker : HandlerKilled(w, c) \/ HandlerOvertaken(w, c)
  <1>t. RelayTypeOK /\ WorkerTypeOK
    BY DEF TypeInv, TypeOK
  <1>o. ~ LiveJob(c)' /\ \A w \in Worker : ~ Handles(w, c)'
    BY DEF InCare
  <1>1. ASSUME NEW w \in Worker, WorkerStep(w) PROVE Excused
    <2>1. ~ LiveJob(c)
      BY <1>1, <1>o, LastRunHandsOver
    <2>2. PICK v \in Worker : Handles(v, c)
      BY <2>1 DEF InCare
    <2>3. v = w
      BY <1>t, <1>o, <1>1, <2>2, WorkersApart
    <2> QED
      BY <1>1, <1>o, <2>2, <2>3, HandlerSettles
  <1>2. CASE UNCHANGED workerVars
    <2>1. \A w \in Worker : ~ Handles(w, c)
      BY <1>2, <1>o DEF workerVars, Handles
    <2>2. LiveJob(c)
      BY <2>1 DEF InCare
    <2>3. ASSUME UNCHANGED jobState PROVE FALSE
      BY <1>o, <2>2, <2>3 DEF LiveJob
    <2>4. ASSUME NEW d \in Command, enqueue(d) PROVE FALSE
      BY <1>t, <1>o, <2>2, <2>4, JobsStayLive
    <2>5. ASSUME NEW d \in Command, EndJobStalled(d) PROVE GaveUpStalled(c)
      <3>1. d = c /\ stalls[c] >= MaxStalls
        BY <1>t, <1>o, <2>2, <2>5 DEF EndJobStalled, LiveJob, RelayTypeOK
      <3>2. stalls[c] <= MaxStalls /\ stalls[c] \in Nat
        BY <1>t, <2>2, MaxStallsAssumption
           DEF LiveJob, TypeInv, JobsHaveRunsLeft, RelayTypeOK
      <3>3. stalls'[c] = stalls[c] + 1
        BY <1>t, <2>5, <3>1 DEF EndJobStalled, RelayTypeOK
      <3> QED
        BY <3>1, <3>2, <3>3, MaxStallsAssumption DEF GaveUpStalled
    <2>6. CASE Api
      <3>1. PICK r \in Request : ApiStep(r)
        BY <2>6 DEF Api
      <3>2. UNCHANGED jobState \/ \E d \in Command : enqueue(d)
        BY <3>1, <1>t DEF ApiStep, ReceiveRequest, AssertRuntimeOwner, InsertCommand, AuditCreated,
           LookupExisting, EnqueueCommand, ReadForQueued, WriteQueued, DatabaseFails, RelayFails,
           relayVars, TypeInv, ProcessesHoldCommands
      <3> QED
        BY <2>3, <2>4, <3>2
    <2>7. CASE Connector
      BY <2>3, <2>7 DEF Connector, ConnectorStep, ConnectorFault, ReceiveResult, StartExecution,
         JoinExecution, TakeMessage, RuntimeDecides, RuntimeReplies, RuntimeUnavailable,
         EvictExecution, AuditCompleted, LoseSocket, DatabaseFailsGateway, RestartConnector,
         DropSocket, relayVars
    <2>8. CASE StalledCheck
      BY <2>5, <2>8 DEF StalledCheck, ReclaimJob
    <2>9. CASE Clock \/ ApiCrash \/ UNCHANGED vars
      BY <2>3, <2>9 DEF Clock, ApiCrash, DropGateway, DropSocket, vars, relayVars
    <2>10. ASSUME NEW w \in Worker, WorkerStep(w) PROVE Excused
      BY <1>1, <2>10
    <2> QED
      BY <2>5, <2>6, <2>7, <2>8, <2>9, <2>10
         DEF Next, Processor, Handler, WorkerFault, WorkerStep
  <1>3. ASSUME NEW d \in Command, EndJobStalled(d), ReportStalled(d) PROVE Excused
    <2>1. \A w \in Worker : Handles(w, c) => Handles(w, c)'
      BY <1>t, <1>3 DEF ReportStalled, Go, Handles, HandlerPc, WorkerTypeOK
    <2>2. LiveJob(c)
      BY <1>o, <2>1 DEF InCare
    <2>3. d = c
      BY <1>t, <1>o, <1>3, <2>2 DEF EndJobStalled, LiveJob, RelayTypeOK
    <2>4. \E w \in Worker : Handles(w, c)'
      BY <1>t, <1>3, <2>3 DEF ReportStalled, Go, Handles, HandlerPc, WorkerTypeOK
    <2> QED
      BY <1>o, <2>4
  <1> QED
    BY <1>1, <1>2, <1>3 DEF Next, Api, Processor, Handler, WorkerFault, WorkerStep, StalledCheck,
       ReclaimJob, Connector, Clock, ApiCrash, vars

\* No open command is lost track of except by the faults named: the handover
\* from the last run to the "failed" handler has no gap.
THEOREM AbandonmentIsExcused == Spec => AbandonedOnlyByFault
  <1>1. TypeInv /\ QueueInv /\ HandlersMeanToSettle /\ [Next]_vars
            => [\A c \in Command :
                   Open(c) /\ InCare(c) /\ Open(c)' /\ ~ InCare(c)'
                       => \/ GaveUpStalled(c)
                          \/ \E w \in Worker : HandlerKilled(w, c) \/ HandlerOvertaken(w, c)]_vars
    BY StepAbandons
  <1> QED
    BY <1>1, TypeInvHolds, QueueInvHolds, HandlersHold, PTL DEF Spec, AbandonedOnlyByFault

---------------------------------------------------------------------------
(***************************************************************************)
(* When a command may be given up.  Whoever is about to write `expired'    *)
(* has seen that the time is over, which stays so; whoever is in the       *)
(* "failed" handler is there for a job that failed for good, which stays   *)
(* so too, whatever became of the lock.                                    *)
(***************************************************************************)

LoadedPc == {"presence", "attempt", "read", "write", "publish", "finish"}

\* What a worker will write, and why it may.
WorkersHaveCause ==
    \A w \in Worker :
        /\ wPc[w] \in HandlerPc => jobState[wCmd[w]] = "failed"
        /\ wPc[w] \in LoadedPc => wGoal[w] # "failed"
        /\ wPc[w] \in LoadedPc \union {"readExhausted", "writeExhausted"} /\ wGoal[w] = "expired"
               => wCmd[w] \in expired

ConnectorHasCause ==
    \A c \in Command : execution[c] = "expired" \/ <<c, "expired">> \in results => c \in expired

CauseInv == WorkersHaveCause /\ ConnectorHasCause

LEMMA CauseInit == Init => CauseInv
  BY DEF Init, WorkerInit, ConnectorInit, CauseInv, WorkersHaveCause, ConnectorHasCause, HandlerPc, LoadedPc

\* Time that is over stays over, and a job that failed for good stays failed.
LEMMA CausesStay ==
    ASSUME TypeInv, [Next]_vars
    PROVE  /\ expired \subseteq expired'
           /\ \A c \in Command : jobState[c] = "failed" => jobState'[c] = "failed"
  <1>t. StoreTypeOK /\ RelayTypeOK /\ StoreStep /\ JobStep
    BY StepReaches DEF TypeInv, TypeOK
  <1>1. expired \subseteq expired'
    BY <1>t DEF StoreStep, HubStatement, storeVars, InsertRow, SetByHub, SetByConnector, UpdateStatus,
       OpenAttempt, finishCommandAttempt, AppendCreated, AppendCompleted, PassExpiry
  <1>2. ASSUME NEW c \in Command, jobState[c] = "failed" PROVE jobState'[c] = "failed"
    BY <1>t, <1>2 DEF RelayTypeOK, JobStep, enqueue, Enqueued, LockJob, EndJobCompleted, EndJobFailed,
       EndJobStalled, HoldsLock
  <1> QED
    BY <1>1, <1>2

\* Processes a step leaves alone keep their cause.
LEMMA OthersKeepCause ==
    ASSUME TypeInv, CauseInv, [Next]_vars
    PROVE  /\ UNCHANGED workerVars => WorkersHaveCause'
           /\ UNCHANGED <<execution, results>> => ConnectorHasCause'
  <1>1. /\ expired \subseteq expired'
        /\ \A c \in Command : jobState[c] = "failed" => jobState'[c] = "failed"
    BY CausesStay
  <1>2. \A w \in Worker : wPc[w] \in BusyPc => wCmd[w] \in Command
    BY DEF TypeInv, ProcessesHoldCommands
  <1>3. UNCHANGED workerVars => WorkersHaveCause'
    BY <1>1, <1>2 DEF CauseInv, WorkersHaveCause, workerVars, BusyPc
  <1>4. UNCHANGED <<execution, results>> => ConnectorHasCause'
    BY <1>1 DEF CauseInv, ConnectorHasCause
  <1> QED
    BY <1>3, <1>4

LEMMA WorkerKeepsCause ==
    ASSUME TypeInv, CauseInv, NEW w \in Worker, WorkerStep(w),
           UNCHANGED <<apiVars, connectorVars>>
    PROVE  WorkersHaveCause'
  <1> DEFINE Kept == WorkersHaveCause'
  <1>k. /\ expired \subseteq expired'
        /\ \A c \in Command : jobState[c] = "failed" => jobState'[c] = "failed"
    BY CausesStay DEF Next, Processor, Handler, WorkerFault, WorkerStep
  <1>t. /\ WorkerTypeOK /\ RelayTypeOK
        /\ \A v \in Worker : wPc[v] \in BusyPc => wCmd[v] \in Command
    BY DEF TypeInv, TypeOK, ProcessesHoldCommands
  <1> USE <1>k, <1>t DEF CauseInv, WorkersHaveCause, WorkerTypeOK, BusyPc, ProcessorPc, HandlerPc, LoadedPc
  <1>rest. ASSUME NEW pc \in {"idle", "down"}, Rest(w, pc) PROVE Kept
    BY <1>rest DEF Rest
  <1>1. CASE StartWorker(w)
    BY <1>1 DEF StartWorker, Go
  <1>2. ASSUME NEW c \in Command, RecoverCommand(w, c) PROVE Kept
    BY <1>2 DEF RecoverCommand
  <1>3. CASE OpenForWork(w)
    BY <1>3 DEF OpenForWork, Go, KeepLocals
  <1>4. ASSUME NEW c \in Command, TakeJob(w, c) PROVE Kept
    BY <1>4 DEF TakeJob, Go
  <1>5. CASE LoadCommand(w)
    BY <1>5 DEF LoadCommand, GoalFor, Go
  <1>6. CASE CheckPresence(w)
    BY <1>6 DEF CheckPresence, Go, KeepLocals
  <1>7. CASE CreateAttempt(w)
    BY <1>7 DEF CreateAttempt, AfterAttempt, Go, KeepLocals
  <1>8. CASE ReadStatus(w)
    BY <1>8 DEF ReadStatus, Go
  <1>9. CASE WriteStatus(w)
    BY <1>9 DEF WriteStatus, AfterWrite, Go
  <1>10. CASE PublishCommand(w)
    BY <1>10 DEF PublishCommand, Go
  <1>11. CASE FinishAttempt(w)
    BY <1>11 DEF FinishAttempt, AfterPublish, Go, KeepLocals
  <1>12. CASE CompleteJob(w)
    BY <1>12, <1>rest DEF CompleteJob
  <1>13. CASE FailJob(w)
    <2>1. CASE EndJobFailed(wCmd[w], w) /\ Exhausted(wCmd[w])
      <3>1. LastAttempt(wCmd[w])
        BY <2>1 DEF Exhausted, LastAttempt
      <3>2. jobState'[wCmd[w]] = "failed"
        BY <1>13, <2>1, <3>1 DEF FailJob, EndJobFailed, RelayTypeOK
      <3> QED
        BY <1>13, <2>1, <3>2 DEF FailJob, EndJobFailed, HoldsLock, Go, KeepLocals, Rest
    <2> QED
      BY <1>13, <2>1, <1>rest DEF FailJob
  <1>14. CASE LoadExhausted(w)
    BY <1>14, <1>rest DEF LoadExhausted, Go
  <1>15. CASE ReadExhausted(w)
    BY <1>15, <1>rest DEF ReadExhausted, Go
  <1>16. CASE WriteExhausted(w)
    BY <1>16, <1>rest DEF WriteExhausted
  <1>17. CASE DatabaseFailsWorker(w)
    BY <1>17, <1>rest DEF DatabaseFailsWorker, Throw, Go, KeepLocals
  <1>18. CASE RelayFailsWorker(w)
    BY <1>18, <1>rest DEF RelayFailsWorker, Throw, Go, KeepLocals
  <1>19. CASE CrashWorker(w)
    BY <1>19, <1>rest DEF CrashWorker
  <1> QED
    BY <1>1, <1>2, <1>3, <1>4, <1>5, <1>6, <1>7, <1>8, <1>9, <1>10, <1>11, <1>12,
       <1>13, <1>14, <1>15, <1>16, <1>17, <1>18, <1>19
       DEF WorkerStep, ProcessorStep, HandlerStep

LEMMA ConnectorKeepsCause ==
    ASSUME TypeInv, CauseInv, Connector
    PROVE  ConnectorHasCause'
  <1>k. expired \subseteq expired'
    BY CausesStay DEF Next
  <1>t. /\ execution \in [Command -> {"none", "calling"} \union TerminalStatus]
        /\ decision \in [Command -> Decision]
        /\ results \in SUBSET Result
    BY DEF TypeInv, TypeOK, ConnectorTypeOK
  <1> USE <1>k, <1>t DEF CauseInv, ConnectorHasCause
  <1>1. ASSUME NEW c \in Command, StartExecution(c) PROVE ConnectorHasCause'
    BY <1>1 DEF StartExecution
  <1>2. ASSUME NEW c \in Command, JoinExecution(c) PROVE ConnectorHasCause'
    BY <1>2 DEF JoinExecution
  <1>3. ASSUME NEW c \in Command, RuntimeReplies(c) PROVE ConnectorHasCause'
    BY <1>3 DEF RuntimeReplies, FinishExecution, VerdictOf, Decision
  <1>4. ASSUME NEW c \in Command, RuntimeUnavailable(c) PROVE ConnectorHasCause'
    BY <1>4 DEF RuntimeUnavailable, FinishExecution
  <1>5. ASSUME NEW c \in Command, EvictExecution(c) PROVE ConnectorHasCause'
    BY <1>5 DEF EvictExecution
  <1>6. ASSUME /\ results' \subseteq results
               /\ execution' = execution \/ execution' = [c \in Command |-> "none"]
        PROVE  ConnectorHasCause'
    BY <1>6
  <1> QED
    BY <1>1, <1>2, <1>3, <1>4, <1>5, <1>6 DEF Connector, ConnectorStep, ConnectorFault, RuntimeDecides,
       ReceiveResult, AuditCompleted, LoseSocket, DatabaseFailsGateway, RestartConnector

LEMMA StepKeepsCause ==
    ASSUME TypeInv, CauseInv, [Next]_vars
    PROVE  CauseInv'
  <1>1. /\ UNCHANGED workerVars => WorkersHaveCause'
        /\ UNCHANGED <<execution, results>> => ConnectorHasCause'
    BY OthersKeepCause
  <1>2. CASE Api \/ Clock \/ UNCHANGED vars
    BY <1>1, <1>2 DEF Api, Clock, vars, connectorVars, CauseInv
  <1>3. ASSUME NEW w \in Worker, WorkerStep(w), UNCHANGED <<apiVars, connectorVars>>
        PROVE  CauseInv'
    BY <1>1, <1>3, WorkerKeepsCause DEF connectorVars, CauseInv
  <1>4. CASE StalledCheck
    <2>1. ASSUME NEW c \in Command, EndJobStalled(c), ReportStalled(c), UNCHANGED storeVars
          PROVE  WorkersHaveCause'
      <3>1. /\ WorkerTypeOK /\ jobState'[c] = "failed"
            /\ \A d \in Command : jobState[d] = "failed" => jobState'[d] = "failed"
            /\ \A w \in Worker : wPc[w] \in BusyPc => wCmd[w] \in Command
        BY <2>1 DEF EndJobStalled, ReportStalled, TypeInv, TypeOK, RelayTypeOK, ProcessesHoldCommands
      <3> QED
        BY <2>1, <3>1 DEF ReportStalled, Go, storeVars, CauseInv, WorkersHaveCause, WorkerTypeOK,
           HandlerPc, LoadedPc, BusyPc
    <2> QED
      BY <1>1, <1>4, <2>1 DEF StalledCheck, ReclaimJob, connectorVars, CauseInv
  <1>5. CASE Connector
    BY <1>1, <1>5, ConnectorKeepsCause DEF Connector, CauseInv
  <1>6. CASE ApiCrash
    BY <1>1, <1>6 DEF ApiCrash, DropGateway, storeVars, CauseInv, ConnectorHasCause
  <1> QED
    BY <1>2, <1>3, <1>4, <1>5, <1>6 DEF Next, Processor, Handler, WorkerFault, WorkerStep

LEMMA CauseInvHolds == Spec => []CauseInv
  BY CauseInit, StepKeepsCause, TypeInvHolds, PTL DEF Spec

\* The statuses a worker's step may give an open command, and why.
LEMMA WorkerHasCause ==
    ASSUME TypeInv, CauseInv, NEW w \in Worker, WorkerStep(w), NEW c \in Command, Open(c)
    PROVE  /\ status'[c] = "expired" => c \in expired
           /\ status'[c] = "failed" => jobState[c] = "failed"
  <1>t. /\ WorkerTypeOK
        /\ status \in [Command -> CommandStatus \union {"none"}]
        /\ wPc[w] \in BusyPc => wCmd[w] \in Command
    BY DEF TypeInv, TypeOK, StoreTypeOK, ProcessesHoldCommands
  <1>o. status[c] # "expired" /\ status[c] # "failed"
    BY DEF Open, OpenStatus, TerminalStatus
  <1>1. ASSUME wPc[w] \in {"write", "writeExhausted"}, UpdateStatus(wCmd[w], wGoal[w])
        PROVE  /\ status'[c] = "expired" => c \in expired
               /\ status'[c] = "failed" => jobState[c] = "failed"
    <2>1. status'[c] # status[c] => c = wCmd[w] /\ status'[c] = wGoal[w]
      BY <1>t, <1>1 DEF UpdateStatus, BusyPc, ProcessorPc, HandlerPc
    <2>2. /\ wGoal[w] = "expired" => wCmd[w] \in expired
          /\ wGoal[w] = "failed" => jobState[wCmd[w]] = "failed"
      BY <1>1 DEF CauseInv, WorkersHaveCause, LoadedPc, HandlerPc
    <2> QED
      BY <1>o, <2>1, <2>2
  <1>2. ASSUME UNCHANGED status
        PROVE  status'[c] # "expired" /\ status'[c] # "failed"
    BY <1>o, <1>2
  <1> QED
    BY <1>1, <1>2 DEF WorkerStep, ProcessorStep, HandlerStep, StartWorker, RecoverCommand, OpenForWork,
       TakeJob, LoadCommand, CheckPresence, CreateAttempt, OpenAttempt, ReadStatus, WriteStatus,
       PublishCommand, FinishAttempt, finishCommandAttempt, CompleteJob, FailJob, LoadExhausted,
       ReadExhausted, WriteExhausted, DatabaseFailsWorker, RelayFailsWorker, CrashWorker, storeVars

LEMMA StepHasCause ==
    ASSUME TypeInv, CauseInv, [Next]_vars, NEW c \in Command, Open(c)
    PROVE  /\ status'[c] = "expired" => c \in expired
           /\ status'[c] = "failed" => jobState[c] = "failed" \/ <<c, "failed">> \in results
  <1> DEFINE Earned ==
        /\ status'[c] = "expired" => c \in expired
        /\ status'[c] = "failed" => jobState[c] = "failed" \/ <<c, "failed">> \in results
  <1>o. /\ status[c] # "expired" /\ status[c] # "failed"
        /\ status \in [Command -> CommandStatus \union {"none"}]
    BY DEF Open, OpenStatus, TerminalStatus, TypeInv, TypeOK, StoreTypeOK
  <1>1. ASSUME UNCHANGED status PROVE Earned
    BY <1>o, <1>1
  <1>2. CASE Api
    <2>1. PICK r \in Request : ApiStep(r)
      BY <1>2 DEF Api
    <2>2. \A d \in Command : status'[d] # status[d] => status'[d] \in {"created", "queued"}
      BY <1>o, <2>1 DEF ApiStep, ReceiveRequest, AssertRuntimeOwner, InsertCommand, InsertRow, AuditCreated,
         LookupExisting, EnqueueCommand, ReadForQueued, WriteQueued, DatabaseFails, RelayFails,
         UpdateStatus, storeVars
    <2> QED
      BY <1>o, <2>2
  <1>3. ASSUME NEW w \in Worker, WorkerStep(w) PROVE Earned
    BY <1>3, WorkerHasCause
  <1>4. CASE Connector
    <2>1. ASSUME NEW d \in Command, NEW outcome \in TerminalStatus, ReceiveResult(d, outcome)
          PROVE  Earned
      <3>1. status'[c] # status[c] => c = d /\ status'[c] = outcome
        BY <1>o, <2>1 DEF ReceiveResult, UpdateStatus, storeVars
      <3> QED
        BY <1>o, <2>1, <3>1 DEF ReceiveResult, CauseInv, ConnectorHasCause
    <2> QED
      BY <1>1, <1>4, <2>1 DEF Connector, ConnectorStep, ConnectorFault, StartExecution, JoinExecution,
         RuntimeDecides, RuntimeReplies, RuntimeUnavailable, EvictExecution, AuditCompleted,
         LoseSocket, DatabaseFailsGateway, RestartConnector, storeVars
  <1>5. CASE StalledCheck \/ Clock \/ ApiCrash \/ UNCHANGED vars
    BY <1>1, <1>5 DEF StalledCheck, ReclaimJob, Clock, PassExpiry, ApiCrash, vars, storeVars
  <1> QED
    BY <1>2, <1>3, <1>4, <1>5 DEF Next, Processor, Handler, WorkerFault, WorkerStep

\* The hub never expires a command before its time, nor fails one whose job
\* could still run, unless the connector itself reports the failure.
THEOREM VerdictsComeInTime == Spec => NoVerdictTooSoon
  <1>1. TypeInv /\ CauseInv /\ [Next]_vars
            => [\A c \in Command :
                   Open(c) => /\ status'[c] = "expired" => c \in expired
                              /\ status'[c] = "failed" =>
                                   jobState[c] = "failed" \/ <<c, "failed">> \in results]_vars
    BY StepHasCause
  <1> QED
    BY <1>1, TypeInvHolds, CauseInvHolds, PTL DEF Spec, NoVerdictTooSoon

---------------------------------------------------------------------------
(***************************************************************************)
(* The table of transitions.  Each write of the hub carries the guard of   *)
(* the read before it, so a change follows the table; a result is accepted *)
(* from two statuses, and the table allows it from one.                    *)
(***************************************************************************)

LEMMA HubKeepsTable ==
    ASSUME StoreTypeOK, HubStatement, NEW c \in Command, Row(c), status'[c] # status[c]
    PROVE  canTransitionCommand(status[c], status'[c])
  <1> USE DEF StoreTypeOK
  <1>1. ASSUME NEW d \in Command, NEW body \in Body, InsertRow(d, body) PROVE FALSE
    BY <1>1 DEF InsertRow, Row, storeVars
  <1>2. ASSUME NEW d \in Command, NEW goal \in HubGoal, SetByHub(d, goal)
        PROVE  canTransitionCommand(status[c], status'[c])
    <2>1. d = c /\ status'[c] = goal
      BY <1>2 DEF SetByHub, UpdateStatus
    <2> QED
      BY <1>2, <2>1 DEF SetByHub, MaySetStatus
  <1> QED
    BY <1>1, <1>2 DEF HubStatement, storeVars, OpenAttempt, finishCommandAttempt, AppendCreated,
       AppendCompleted, PassExpiry

LEMMA StepKeepsTable ==
    ASSUME TypeInv, [Next]_vars, NEW c \in Command, Row(c), status'[c] # status[c]
    PROVE  \/ canTransitionCommand(status[c], status'[c])
           \/ status[c] = "queued" /\ <<c, status'[c]>> \in results
  <1>t. StoreTypeOK
    BY DEF TypeInv, TypeOK
  <1>1. CASE Api
    BY <1>t, <1>1, ApiReaches, HubKeepsTable DEF Api
  <1>2. ASSUME NEW w \in Worker, WorkerStep(w)
        PROVE  canTransitionCommand(status[c], status'[c])
    BY <1>t, <1>2, WorkerReaches, HubKeepsTable
  <1>3. ASSUME NEW d \in Command, NEW outcome \in TerminalStatus, ReceiveResult(d, outcome)
        PROVE  \/ canTransitionCommand(status[c], status'[c])
               \/ status[c] = "queued" /\ <<c, status'[c]>> \in results
    <2>1. /\ d = c /\ status'[c] = outcome
          /\ status[c] \in {"queued", "delivering"} /\ <<c, outcome>> \in results
      BY <1>t, <1>3 DEF ReceiveResult, AcceptsCompletion, UpdateStatus, StoreTypeOK, storeVars
    <2> QED
      BY <2>1 DEF canTransitionCommand, transitions, CommandStatus, TerminalStatus
  <1>4. ASSUME UNCHANGED status PROVE FALSE
    BY <1>4
  <1>5. CASE Connector
    BY <1>3, <1>4, <1>5 DEF Connector, ConnectorStep, ConnectorFault, StartExecution, JoinExecution,
       RuntimeDecides, RuntimeReplies, RuntimeUnavailable, EvictExecution, AuditCompleted, LoseSocket,
       DatabaseFailsGateway, RestartConnector, storeVars
  <1>6. CASE StalledCheck \/ Clock \/ ApiCrash \/ UNCHANGED vars
    BY <1>4, <1>6 DEF StalledCheck, ReclaimJob, Clock, PassExpiry, ApiCrash, vars, storeVars
  <1> QED
    BY <1>1, <1>2, <1>5, <1>6 DEF Next, Processor, Handler, WorkerFault, WorkerStep

\* Whatever the hub sets follows the table, however stale the read behind it;
\* the one step outside it is the result for a row that is `queued' again.
THEOREM TableHoldsButForResults == Spec => OnlyResultsLeaveTable
  <1>1. TypeInv /\ [Next]_vars
            => [\A c \in Command :
                   Row(c) /\ status'[c] # status[c]
                       => \/ canTransitionCommand(status[c], status'[c])
                          \/ status[c] = "queued" /\ <<c, status'[c]>> \in results]_vars
    BY StepKeepsTable
  <1> QED
    BY <1>1, TypeInvHolds, PTL DEF Spec, OnlyResultsLeaveTable

==============================================================================
