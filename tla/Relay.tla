-------------------------------- MODULE Relay --------------------------------
(***************************************************************************)
(* packages/relay/src/index.ts over Redis: the BullMQ queue of delivery    *)
(* jobs and the Pub/Sub channel to the connector's socket.  BullMQ itself  *)
(* is a library: what its operations do is modelled from the options and   *)
(* the callbacks the code uses.                                            *)
(*                                                                         *)
(* A job's id is its command's id, so a command has at most one job, and   *)
(* adding a job whose id is known, finished or not, changes nothing.       *)
(* Finished jobs are kept for an hour or a day (removeOnComplete,          *)
(* removeOnFail) and a command expires within five minutes: within a       *)
(* command's life its job is never removed.                                *)
(***************************************************************************)
EXTENDS CommandStore

CONSTANTS
    Worker,         \* worker processes, each running one job at a time
    MaxStalls       \* BullMQ maxStalledCount: 1 by default

ASSUME WorkerAssumption == None \notin Worker
ASSUME MaxStallsAssumption == MaxStalls \in Nat

VARIABLES
    jobState,       \* "waiting" covers waiting and delayed by the backoff
    attemptsMade,   \* failed runs so far
    stalls,         \* runs that ended by losing the job's lock
    lockOwner,      \* the worker that holds the lock of an active job
    inbox           \* hub.command messages on their way to the connector

relayVars == <<jobState, attemptsMade, stalls, lockOwner, inbox>>

JobState == {"absent", "waiting", "active", "completed", "failed"}

RelayTypeOK ==
    /\ jobState \in [Command -> JobState]
    /\ attemptsMade \in [Command -> 0..MaxAttempts]
    /\ stalls \in [Command -> 0..MaxStalls + 1]
    /\ lockOwner \in [Command -> Worker \union {None}]
    /\ inbox \in SUBSET Command

RelayInit ==
    /\ jobState = [c \in Command |-> "absent"]
    /\ attemptsMade = [c \in Command |-> 0]
    /\ stalls = [c \in Command |-> 0]
    /\ lockOwner = [c \in Command |-> None]
    /\ inbox = {}

Enqueued(c) == jobState[c] # "absent"
LiveJob(c) == jobState[c] \in {"waiting", "active"}

\* CommandQueue.enqueue: Queue.add with jobId = commandId
enqueue(c) ==
    /\ jobState' = IF Enqueued(c) THEN jobState
                   ELSE [jobState EXCEPT ![c] = "waiting"]
    /\ UNCHANGED <<attemptsMade, stalls, lockOwner, inbox>>

LockJob(c, w) ==
    /\ jobState[c] = "waiting"
    /\ jobState' = [jobState EXCEPT ![c] = "active"]
    /\ lockOwner' = [lockOwner EXCEPT ![c] = w]
    /\ UNCHANGED <<attemptsMade, stalls, inbox>>

HoldsLock(c, w) == jobState[c] = "active" /\ lockOwner[c] = w

\* The processor returned.  BullMQ refuses a run that lost its lock.
EndJobCompleted(c, w) ==
    /\ HoldsLock(c, w)
    /\ jobState' = [jobState EXCEPT ![c] = "completed"]
    /\ lockOwner' = [lockOwner EXCEPT ![c] = None]
    /\ UNCHANGED <<attemptsMade, stalls, inbox>>

\* mutant: off by one, one run too many
RunsOnceMore(c) == attemptsMade[c] >= MaxAttempts

LastAttempt(c) == attemptsMade[c] + 1 >= MaxAttempts

\* The processor threw: back off and retry, or fail for good.
EndJobFailed(c, w) ==
    /\ HoldsLock(c, w)
    /\ attemptsMade' = [attemptsMade EXCEPT ![c] = @ + 1]
    /\ jobState' = [jobState EXCEPT ![c] = IF LastAttempt(c) THEN "failed" ELSE "waiting"]
    /\ lockOwner' = [lockOwner EXCEPT ![c] = None]
    /\ UNCHANGED <<stalls, inbox>>

\* The stalled check: a job whose lock expired runs again, but only so often.
EndJobStalled(c) ==
    /\ jobState[c] = "active"
    /\ stalls' = [stalls EXCEPT ![c] = @ + 1]
    /\ jobState' = [jobState EXCEPT ![c] = IF stalls[c] >= MaxStalls THEN "failed" ELSE "waiting"]
    /\ lockOwner' = [lockOwner EXCEPT ![c] = None]
    /\ UNCHANGED <<attemptsMade, inbox>>

\* CommandPublisher.publish: PUBLISH counts the API processes subscribed to
\* hub:command:*, whether or not one of them holds an open socket.
Route == {"no_subscriber", "no_socket", "sent"}

publish(c, route) ==
    /\ inbox' = IF route = "sent" THEN inbox \union {c} ELSE inbox
    /\ UNCHANGED <<jobState, attemptsMade, stalls, lockOwner>>
==============================================================================
