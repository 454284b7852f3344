---------------------------- MODULE CommandDelivery ----------------------------
(***************************************************************************)
(* A remote command from the POST that asks for it to the status that      *)
(* settles it: the API's requests, the queue and its workers, the          *)
(* connector and the local Runtime, over one PostgreSQL and one Redis.     *)
(***************************************************************************)
EXTENDS CommandApi, DeliveryWorker, ConnectorExecution

vars == <<storeVars, relayVars, apiVars, workerVars, connectorVars>>

Init == StoreInit /\ RelayInit /\ ApiInit /\ WorkerInit /\ ConnectorInit

Api == \E r \in Request : ApiStep(r) /\ UNCHANGED <<workerVars, connectorVars>>

Processor(w) == ProcessorStep(w) /\ UNCHANGED <<apiVars, connectorVars>>

Handler(w) == HandlerStep(w) /\ UNCHANGED <<apiVars, connectorVars>>

WorkerFault ==
    /\ \E w \in Worker :
        DatabaseFailsWorker(w) \/ RelayFailsWorker(w) \/ CrashWorker(w)
    /\ UNCHANGED <<apiVars, connectorVars>>

StalledCheck ==
    (\E c \in Command : ReclaimJob(c)) /\ UNCHANGED <<apiVars, connectorVars>>

Connector ==
    /\ ConnectorFault \/ \E c \in Command : ConnectorStep(c)
    /\ UNCHANGED <<apiVars, workerVars>>

Clock ==
    /\ \E c \in Command : PassExpiry(c)
    /\ UNCHANGED <<relayVars, apiVars, workerVars, connectorVars>>

ApiCrash ==
    /\ "api_crash" \in Faults
    /\ DropRequests /\ DropGateway
    /\ UNCHANGED <<storeVars, workerVars>>

Next ==
    \/ Api
    \/ \E w \in Worker : Processor(w) \/ Handler(w)
    \/ WorkerFault
    \/ StalledCheck
    \/ Connector
    \/ Clock
    \/ ApiCrash

Spec == Init /\ [][Next]_vars

(***************************************************************************)
(* The code's event loops run what is ready, BullMQ's workers poll the     *)
(* queue and its stalled check runs on a timer.  Nothing is assumed of the *)
(* connector, the Runtime, the clock or the clients.                       *)
(***************************************************************************)
Fairness ==
    /\ \A w \in Worker : WF_vars(Processor(w)) /\ WF_vars(Handler(w))
    /\ WF_vars(StalledCheck)

FairSpec == Spec /\ Fairness

---------------------------------------------------------------------------
\* Every variable keeps its type: in particular no job runs more often than
\* it may, or stalls more often than BullMQ tolerates.
TypeOK ==
    /\ StoreTypeOK
    /\ RelayTypeOK
    /\ ApiTypeOK
    /\ WorkerTypeOK
    /\ ConnectorTypeOK

\* "Do not pretend they were queued": a client is told its command is
\* accepted, and a row leaves `created', only when the queue has its job.
NeverPretendQueued ==
    /\ \A r \in Request : reply[r] = "accepted" => Enqueued(reqKey[r])
    /\ \A c \in Command : status[c] \notin {"none", "created"} => Enqueued(c)

\* Two requests accepted under one idempotency key asked for the same thing.
AcceptedRequestsAgree ==
    \A r, s \in Request :
        reply[r] = "accepted" /\ reply[s] = "accepted" /\ reqKey[r] = reqKey[s]
            => sameIdempotentCommand(reqBody[r], reqBody[s])

\* Nothing of a command reaches the connector while its row would still turn
\* the result away: a result is never dropped for being too early.
InDelivery(c) ==
    \/ c \in inbox
    \/ c \in calls
    \/ execution[c] # "none"
    \/ \E outcome \in TerminalStatus : <<c, outcome>> \in results

ResultsNeverTooEarly ==
    \A c \in Command : InDelivery(c) => status[c] \notin {"none", "created"}

\* A verdict shown to the user is what the Runtime decided.
VerdictMatchesRuntime ==
    \A c \in Command :
        /\ status[c] = "succeeded" => decision[c] = "accepted"
        /\ status[c] = "rejected" => decision[c] = "refused"
        /\ status[c] = "conflict" => decision[c] = "conflicted"

\* A job leaves the queue as completed only for a command that is settled:
\* publishing alone never ends the retries.
CompletedJobIsSettled ==
    \A c \in Command : jobState[c] = "completed" => Settled(c)

\* A stored connector result has at most one audit entry, naming the status
\* the row has for good; creation is audited at most once.
AuditMatchesRow ==
    \A c \in Command :
        /\ createdAudit[c] <= 1
        /\ completionAudit[c] \in {<<>>, <<status[c]>>}

\* What the Runtime decided on was published in a recorded attempt.
ExecutionIsTraced ==
    \A c \in Command :
        decision[c] # "none" => \E n \in 1..MaxAttempts : attempts[c][n] # "none"

\* A settled status is final, whichever of the API, a worker, a worker's
\* late twin, the failed handler or a late result writes next.
TerminalIsFinal ==
    [][\A c \in Command : Settled(c) => status'[c] = status[c]]_vars

\* The hub gives nobody up too soon: a command expires only when its time is
\* over, and fails only when its job has no run left or when the connector says
\* that it failed.  No early run, no twin and no late handler decides otherwise.
NoVerdictTooSoon ==
    [][\A c \in Command :
        Open(c) => /\ status'[c] = "expired" => c \in expired
                   /\ status'[c] = "failed" =>
                        jobState[c] = "failed" \/ <<c, "failed">> \in results]_vars

\* Somebody still answers for a command: its job will run, or the "failed"
\* handler is about to store a verdict.
Handles(w, c) == wPc[w] \in HandlerPc /\ wCmd[w] = c

InCare(c) == LiveJob(c) \/ \E w \in Worker : Handles(w, c)

GaveUpStalled(c) == stalls[c] = MaxStalls /\ stalls'[c] > MaxStalls

HandlerKilled(w, c) ==
    /\ Handles(w, c) /\ wPc'[w] = "down"
    /\ Faults \cap {"db_error", "worker_crash"} # {}

HandlerOvertaken(w, c) ==
    /\ Handles(w, c) /\ wPc[w] = "writeExhausted"
    /\ status[c] # wCurrent[w]

\* An open command is left to nobody in three ways only: the stalled check
\* gives its job up, the process of the "failed" handler is killed, or the
\* handler's conditional write meets a status set since it read.  In
\* particular the last failed run always hands over to the handler, and no
\* run ends its job as done before the command is.
AbandonedOnlyByFault ==
    [][\A c \in Command :
        Open(c) /\ InCare(c) /\ Open(c)' /\ ~ InCare(c)'
            => \/ GaveUpStalled(c)
               \/ \E w \in Worker : HandlerKilled(w, c) \/ HandlerOvertaken(w, c)]_vars

\* A run whose lock the stalled check took goes on beside the next one.
RunsOn(w, c) == wCmd[w] = c /\ wPc[w] \in ProcessorPc /\ ~ HoldsLock(c, w)

\* The attempt rows are the history of a job's runs, although the number of a
\* run is read once, stalls do not advance it and a row is found as well as
\* inserted: what a run publishes under its lock has the row of the run the
\* queue is at, and the rows of the runs that failed stay as they are.  Only a
\* run that has lost its lock may still write its own.
AttemptsAreHistory ==
    [][\A c \in Command :
        /\ \A w \in Worker :
            wPc[w] = "publish" /\ wCmd[w] = c /\ HoldsLock(c, w)
                => attempts[c][attemptsMade[c] + 1] # "none"
        /\ \A n \in 1..attemptsMade[c] :
            \/ attempts'[c][n] = attempts[c][n]
            \/ \E w \in Worker : RunsOn(w, c) /\ wAttempt[w] = n]_vars

\* The delivery implements the abstract life cycle.
Lifecycle == INSTANCE CommandLifecycle WITH
    ledger <- [c \in Command |->
        CASE status[c] = "none" -> "absent"
          [] Open(c) -> "open"
          [] OTHER -> status[c]]

ImplementsLifecycle == Lifecycle!Spec

\* A live job always comes to an end: the command is settled or the job has
\* used up its runs.
JobEnds ==
    \A c \in Command : LiveJob(c) ~> Settled(c) \/ jobState[c] = "failed"

\* Once no request is left that could race it, a live job settles its command
\* even if the connector never answers.
DeliverySettles ==
    \A c \in Command :
        LiveJob(c) /\ (\A r \in Request : reqPc[r] \in {"done", "lost"})
            ~> Settled(c)

---------------------------------------------------------------------------
\* What the documents say and the code does not do.

\* docs/RUNBOOK.md: "After recovery, the worker reconciles durable `created`
\* or retryable commands": a recovered command has a job that will run.
RecoveryRevivesDelivery ==
    [][\A w \in Worker, c \in Command : RecoverCommand(w, c) => LiveJob(c)']_vars

\* tests/command-policy.test.ts: "only explicit command transitions are
\* allowed", those of the state diagram in docs/ARCHITECTURE.md.
ExplicitTransitionsOnly ==
    [][\A c \in Command :
        Row(c) /\ status'[c] # status[c]
            => canTransitionCommand(status[c], status'[c])]_vars

\* What holds of the table: all that the API, a worker, its twin and the
\* "failed" handler set follows it, however stale what they read.  Only the
\* connector's result leaves it, for a row that was taken back to `queued'.
OnlyResultsLeaveTable ==
    [][\A c \in Command :
        Row(c) /\ status'[c] # status[c]
            => \/ canTransitionCommand(status[c], status'[c])
               \/ status[c] = "queued" /\ <<c, status'[c]>> \in results]_vars

\* apps/connector/src/index.ts: "command expired before local execution".
ExpiredMeansNotExecuted ==
    \A c \in Command : <<c, "expired">> \in results => decision[c] # "accepted"
===============================================================================
