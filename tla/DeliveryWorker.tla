---------------------------- MODULE DeliveryWorker ----------------------------
(***************************************************************************)
(* apps/worker/src/index.ts: startup recovery, the job processor, and the  *)
(* handler of the queue's "failed" event.  A worker process runs one job   *)
(* at a time here (the code runs ten: jobs of distinct commands share      *)
(* nothing but the process).  Every await ends an action, and what was     *)
(* read before it is kept: wGoal follows from the row loaded at the start, *)
(* wCurrent is what setCommandStatus read.                                 *)
(***************************************************************************)
EXTENDS Relay, FiniteSets

CONSTANT RecoverLimit    \* listRecoverableCommands(limit = 100)

ASSUME RecoverLimitAssumption == RecoverLimit \in Nat

VARIABLES
    wPc,        \* the await the process is at
    wTodo,      \* recoverable commands still to enqueue at startup
    wCmd,       \* job.data.commandId
    wAttempt,   \* job.attemptsMade + 1
    wCurrent,   \* status as setCommandStatus read it
    wGoal,      \* the status to set next
    wRouted     \* attempt outcome after publish

workerVars == <<wPc, wTodo, wCmd, wAttempt, wCurrent, wGoal, wRouted>>

ProcessorPc == {"load", "presence", "attempt", "read", "write", "publish", "finish"}
HandlerPc == {"exhausted", "readExhausted", "writeExhausted"}
WPc == {"down", "recover", "idle", "fail", "complete"} \union ProcessorPc \union HandlerPc

WorkerTypeOK ==
    /\ wPc \in [Worker -> WPc]
    /\ wTodo \in [Worker -> SUBSET Command]
    /\ wCmd \in [Worker -> Command \union {None}]
    /\ wAttempt \in [Worker -> 1..MaxAttempts]
    /\ wCurrent \in [Worker -> CommandStatus \union {"none"}]
    /\ wGoal \in [Worker -> {"queued", "delivering", "expired", "failed"}]
    /\ wRouted \in [Worker -> {"published", "not_routed"}]

WorkerInit ==
    /\ wPc = [w \in Worker |-> "down"]
    /\ wTodo = [w \in Worker |-> {}]
    /\ wCmd = [w \in Worker |-> None]
    /\ wAttempt = [w \in Worker |-> 1]
    /\ wCurrent = [w \in Worker |-> "none"]
    /\ wGoal = [w \in Worker |-> "queued"]
    /\ wRouted = [w \in Worker |-> "published"]

Go(w, pc) == wPc' = [wPc EXCEPT ![w] = pc]

KeepLocals == UNCHANGED <<wTodo, wCmd, wAttempt, wCurrent, wGoal, wRouted>>

\* A run of the processor, of a handler or of the process is over, and its
\* local variables with it.
Rest(w, pc) ==
    /\ wPc' = [wPc EXCEPT ![w] = pc]
    /\ wTodo' = [wTodo EXCEPT ![w] = {}]
    /\ wCmd' = [wCmd EXCEPT ![w] = None]
    /\ wAttempt' = [wAttempt EXCEPT ![w] = 1]
    /\ wCurrent' = [wCurrent EXCEPT ![w] = "none"]
    /\ wGoal' = [wGoal EXCEPT ![w] = "queued"]
    /\ wRouted' = [wRouted EXCEPT ![w] = "published"]

---------------------------------------------------------------------------
\* Startup: list the recoverable commands, enqueue them, start the worker.

StartWorker(w) ==
    /\ wPc[w] = "down"
    /\ \E found \in SUBSET Recoverable :
        /\ Cardinality(found) <= RecoverLimit
        /\ found = Recoverable \/ Cardinality(found) = RecoverLimit
        /\ wTodo' = [wTodo EXCEPT ![w] = found]
    /\ Go(w, "recover")
    /\ UNCHANGED <<wCmd, wAttempt, wCurrent, wGoal, wRouted, storeVars, relayVars>>

RecoverCommand(w, c) ==
    /\ wPc[w] = "recover"
    /\ c \in wTodo[w]
    /\ enqueue(c)
    /\ wTodo' = [wTodo EXCEPT ![w] = @ \ {c}]
    /\ UNCHANGED <<wPc, wCmd, wAttempt, wCurrent, wGoal, wRouted, storeVars>>

OpenForWork(w) ==
    /\ wPc[w] = "recover"
    /\ wTodo[w] = {}
    /\ Go(w, "idle")
    /\ KeepLocals /\ UNCHANGED <<storeVars, relayVars>>

---------------------------------------------------------------------------
\* The processor.

\* mutant: every run takes the number of the first
AlwaysFirst(c) == 1

\* job.attemptsMade counts failed runs only: a run that stalled has the same
\* number as the one before.
RunNumber(c) == attemptsMade[c] + 1

TakeJob(w, c) ==
    /\ wPc[w] = "idle"
    /\ LockJob(c, w)
    /\ Go(w, "load")
    /\ wCmd' = [wCmd EXCEPT ![w] = c]
    /\ wAttempt' = [wAttempt EXCEPT ![w] = RunNumber(c)]
    /\ UNCHANGED <<wTodo, wCurrent, wGoal, wRouted, storeVars>>

\* What the processor is to do for the row it loaded.
GoalFor(c) ==
    IF c \in expired THEN "expired"
    ELSE IF status[c] = "created" THEN "queued" ELSE "delivering"

\* getCommand, then the checks for a missing, settled or expired command.
LoadCommand(w) ==
    LET c == wCmd[w] IN
    /\ wPc[w] = "load"
    /\ IF Open(c)
       THEN /\ wGoal' = [wGoal EXCEPT ![w] = GoalFor(c)]
            /\ Go(w, IF c \in expired THEN "read" ELSE "presence")
       ELSE Go(w, "complete") /\ UNCHANGED wGoal
    /\ UNCHANGED <<wTodo, wCmd, wAttempt, wCurrent, wRouted, storeVars, relayVars>>

\* presence.isOnline: the key is another component's, so either answer.
CheckPresence(w) ==
    /\ wPc[w] = "presence"
    /\ Go(w, "attempt") \/ Go(w, "fail")
    /\ KeepLocals /\ UNCHANGED <<storeVars, relayVars>>

\* mutant: the message goes out before the status is written
PublishFirst == "publish"

AfterAttempt == "read"

CreateAttempt(w) ==
    /\ wPc[w] = "attempt"
    /\ OpenAttempt(wCmd[w], wAttempt[w])
    /\ Go(w, AfterAttempt)
    /\ KeepLocals /\ UNCHANGED relayVars

ReadStatus(w) ==
    LET current == status[wCmd[w]] IN
    /\ wPc[w] = "read"
    /\ wCurrent' = [wCurrent EXCEPT ![w] = current]
    /\ Go(w, IF MaySetStatus(current, wGoal[w]) THEN "write" ELSE "fail")
    /\ UNCHANGED <<wTodo, wCmd, wAttempt, wGoal, wRouted, storeVars, relayVars>>

\* What the processor does once a status is written.
AfterWrite(goal) ==
    CASE goal = "queued" -> "read"
      [] goal = "delivering" -> "publish"
      [] OTHER -> "complete"

WriteStatus(w) ==
    /\ wPc[w] = "write"
    /\ wCurrent' = [wCurrent EXCEPT ![w] = "none"]
    /\ IF StatusStill(wCmd[w], wCurrent[w])
       THEN /\ UpdateStatus(wCmd[w], wGoal[w])
            /\ Go(w, AfterWrite(wGoal[w]))
            /\ wGoal' = [wGoal EXCEPT ![w] = IF @ = "queued" THEN "delivering" ELSE @]
       ELSE Go(w, "fail") /\ UNCHANGED <<storeVars, wGoal>>
    /\ UNCHANGED <<wTodo, wCmd, wAttempt, wRouted, relayVars>>

PublishCommand(w) ==
    /\ wPc[w] = "publish"
    /\ \E route \in Route :
        /\ publish(wCmd[w], route)
        /\ wRouted' = [wRouted EXCEPT ![w] =
                IF route = "no_subscriber" THEN "not_routed" ELSE "published"]
    /\ Go(w, "finish")
    /\ UNCHANGED <<wTodo, wCmd, wAttempt, wCurrent, wGoal, storeVars>>

\* mutant: a published command counts as delivered and completes its job
CompleteOncePublished == "complete"

\* Routed or not, the processor throws: only the stored result ends the job.
AfterPublish == "fail"

FinishAttempt(w) ==
    /\ wPc[w] = "finish"
    /\ finishCommandAttempt(wCmd[w], wAttempt[w], wRouted[w])
    /\ Go(w, AfterPublish)
    /\ KeepLocals /\ UNCHANGED relayVars

\* The processor returned.
CompleteJob(w) ==
    /\ wPc[w] = "complete"
    /\ \/ EndJobCompleted(wCmd[w], w)
       \/ ~ HoldsLock(wCmd[w], w) /\ UNCHANGED relayVars
    /\ Rest(w, "idle")
    /\ UNCHANGED storeVars

\* mutant: off by one, `attemptsMade <= configuredAttempts' returns early
NeverExhausted(c) == attemptsMade[c] + 1 > MaxAttempts

\* mutant: attempts are counted before the one that failed
ExhaustedEarly(c) == attemptsMade[c] + 2 >= MaxAttempts

Exhausted(c) == attemptsMade[c] + 1 >= MaxAttempts

\* The processor threw.  The "failed" handler acts after the last attempt only.
FailJob(w) ==
    LET c == wCmd[w] IN
    /\ wPc[w] = "fail"
    /\ \/ /\ EndJobFailed(c, w)
          /\ IF Exhausted(c) THEN Go(w, "exhausted") /\ KeepLocals ELSE Rest(w, "idle")
       \/ ~ HoldsLock(c, w) /\ UNCHANGED relayVars /\ Rest(w, "idle")
    /\ UNCHANGED storeVars

---------------------------------------------------------------------------
\* worker.on("failed") after the last attempt.  What it throws is nobody's:
\* an unhandled rejection, which ends the process.

LoadExhausted(w) ==
    LET c == wCmd[w] IN
    /\ wPc[w] = "exhausted"
    /\ IF Open(c)
       THEN /\ Go(w, "readExhausted")
            /\ wGoal' = [wGoal EXCEPT ![w] = IF c \in expired THEN "expired" ELSE "failed"]
            /\ UNCHANGED <<wTodo, wCmd, wAttempt, wCurrent, wRouted>>
       ELSE Rest(w, "idle")
    /\ UNCHANGED <<storeVars, relayVars>>

ReadExhausted(w) ==
    LET current == status[wCmd[w]] IN
    /\ wPc[w] = "readExhausted"
    /\ IF MaySetStatus(current, wGoal[w])
       THEN /\ Go(w, "writeExhausted")
            /\ wCurrent' = [wCurrent EXCEPT ![w] = current]
            /\ UNCHANGED <<wTodo, wCmd, wAttempt, wGoal, wRouted>>
       ELSE Rest(w, "down")
    /\ UNCHANGED <<storeVars, relayVars>>

WriteExhausted(w) ==
    /\ wPc[w] = "writeExhausted"
    /\ IF StatusStill(wCmd[w], wCurrent[w])
       THEN UpdateStatus(wCmd[w], wGoal[w]) /\ Rest(w, "idle")
       ELSE Rest(w, "down") /\ UNCHANGED storeVars
    /\ UNCHANGED relayVars

---------------------------------------------------------------------------
\* Failures.

\* PostgreSQL or Redis fails an await: the processor throws, while startup
\* and the "failed" handler have nobody to catch it.
Throw(w) ==
    IF wPc[w] \in ProcessorPc THEN Go(w, "fail") /\ KeepLocals ELSE Rest(w, "down")

\* The write may have been applied and its answer lost.
DatabaseFailsWorker(w) ==
    /\ "db_error" \in Faults
    /\ wPc[w] \in (ProcessorPc \ {"presence", "publish"}) \union HandlerPc
    /\ Throw(w)
    /\ \/ UNCHANGED storeVars
       \/ /\ wPc[w] \in {"write", "writeExhausted"}
          /\ StatusStill(wCmd[w], wCurrent[w])
          /\ UpdateStatus(wCmd[w], wGoal[w])
    /\ UNCHANGED relayVars

\* So may the PUBLISH or the Queue.add.
RelayFailsWorker(w) ==
    /\ "relay_error" \in Faults
    /\ wPc[w] \in {"presence", "publish", "recover"}
    /\ Throw(w)
    /\ \/ UNCHANGED relayVars
       \/ wPc[w] = "publish" /\ publish(wCmd[w], "sent")
       \/ wPc[w] = "recover" /\ \E c \in wTodo[w] : enqueue(c)
    /\ UNCHANGED storeVars

CrashWorker(w) ==
    /\ "worker_crash" \in Faults
    /\ wPc[w] # "down"
    /\ Rest(w, "down")
    /\ UNCHANGED <<storeVars, relayVars>>

\* The job's run is over for its owner: the process died in the middle.
OwnerGone(c) ==
    \A w \in Worker : ~ (HoldsLock(c, w) /\ wCmd[w] = c
                         /\ wPc[w] \in ProcessorPc \union {"fail", "complete"})

\* A job that stalled too often fails without its processor.  Whether BullMQ
\* counts that as an attempt is left open: if it does, the last one meets the
\* "failed" handler.
ReportStalled(c) ==
    /\ stalls[c] >= MaxStalls /\ Exhausted(c)
    /\ \E w \in Worker :
        /\ wPc[w] = "idle"
        /\ Go(w, "exhausted")
        /\ wCmd' = [wCmd EXCEPT ![w] = c]
    /\ UNCHANGED <<wTodo, wAttempt, wCurrent, wGoal, wRouted>>

\* The stalled check finds a lock that expired: the owner died, or lost touch
\* with Redis and runs on without the lock.
ReclaimJob(c) ==
    /\ EndJobStalled(c)
    /\ OwnerGone(c) \/ "lock_lost" \in Faults
    /\ UNCHANGED workerVars \/ ReportStalled(c)
    /\ UNCHANGED storeVars

ProcessorStep(w) ==
    \/ StartWorker(w)
    \/ \E c \in Command : RecoverCommand(w, c)
    \/ OpenForWork(w)
    \/ \E c \in Command : TakeJob(w, c)
    \/ LoadCommand(w)
    \/ CheckPresence(w)
    \/ CreateAttempt(w)
    \/ ReadStatus(w)
    \/ WriteStatus(w)
    \/ PublishCommand(w)
    \/ FinishAttempt(w)
    \/ CompleteJob(w)
    \/ FailJob(w)

HandlerStep(w) ==
    \/ LoadExhausted(w)
    \/ ReadExhausted(w)
    \/ WriteExhausted(w)
==============================================================================
