------------------------------ MODULE CommandApi ------------------------------
(***************************************************************************)
(* POST .../commands/pause-attempt: apps/api/src/app.ts with the           *)
(* HubRepository.createCommand it calls.  A request is a process; every    *)
(* await (SQL statement or Redis call) ends one of its actions, and other  *)
(* requests, workers and the gateway run in between.                       *)
(***************************************************************************)
EXTENDS Relay

CONSTANT Request    \* POSTs that arrive, retries of one key included

VARIABLES
    reqPc,          \* the await the handler is at
    reqKey,         \* Idempotency-Key header
    reqBody,        \* parsed body
    reqCurrent,     \* status as setCommandStatus read it
    reply           \* what the client got

apiVars == <<reqPc, reqKey, reqBody, reqCurrent, reply>>

ReqPc == {"idle", "owner", "insert", "audit", "lookup", "enqueue",
          "read", "write", "done", "lost"}
Reply == {"none", "404", "409", "500", "503", "accepted"}

ApiTypeOK ==
    /\ reqPc \in [Request -> ReqPc]
    /\ reqKey \in [Request -> Command \union {None}]
    /\ reqBody \in [Request -> Body \union {None}]
    /\ reqCurrent \in [Request -> CommandStatus \union {"none"}]
    /\ reply \in [Request -> Reply]

ApiInit ==
    /\ reqPc = [r \in Request |-> "idle"]
    /\ reqKey = [r \in Request |-> None]
    /\ reqBody = [r \in Request |-> None]
    /\ reqCurrent = [r \in Request |-> "none"]
    /\ reply = [r \in Request |-> "none"]

Goto(r, pc) ==
    /\ reqPc' = [reqPc EXCEPT ![r] = pc]
    /\ UNCHANGED reply

Answer(r, code) ==
    /\ reqPc' = [reqPc EXCEPT ![r] = "done"]
    /\ reply' = [reply EXCEPT ![r] = code]

\* The route parsed header and body; createCommand starts.
ReceiveRequest(r, c, body) ==
    /\ reqPc[r] = "idle"
    /\ Goto(r, "owner")
    /\ reqKey' = [reqKey EXCEPT ![r] = c]
    /\ reqBody' = [reqBody EXCEPT ![r] = body]
    /\ UNCHANGED <<reqCurrent, storeVars, relayVars>>

\* assertRuntimeOwner: whether the runtime is paired is another component's
\* state, so either answer may come.
AssertRuntimeOwner(r) ==
    /\ reqPc[r] = "owner"
    /\ Goto(r, "insert") \/ Answer(r, "404")
    /\ UNCHANGED <<reqKey, reqBody, reqCurrent, storeVars, relayVars>>

\* mutant: `on conflict do update' returns a row, so a replay looks inserted
InsertOrReplay(r) ==
    /\ reqPc[r] = "insert"
    /\ InsertRow(reqKey[r], reqBody[r])
    /\ Goto(r, "audit")
    /\ UNCHANGED <<reqKey, reqBody, reqCurrent, relayVars>>

InsertCommand(r) ==
    /\ reqPc[r] = "insert"
    /\ InsertRow(reqKey[r], reqBody[r])
    /\ Goto(r, IF Row(reqKey[r]) THEN "lookup" ELSE "audit")
    /\ UNCHANGED <<reqKey, reqBody, reqCurrent, relayVars>>

\* appendAudit command.created, then createCommand returns the inserted row.
AuditCreated(r) ==
    /\ reqPc[r] = "audit"
    /\ createdAudit' = [createdAudit EXCEPT ![reqKey[r]] = @ + 1]
    /\ Goto(r, "enqueue")
    /\ UNCHANGED <<status, identity, expired, attempts, completionAudit,
                   reqKey, reqBody, reqCurrent, relayVars>>

\* mutant: an existing row is returned whatever it was created for
AnySameRequest(r) == Row(reqKey[r])

SameRequest(r) == sameIdempotentCommand(identity[reqKey[r]], reqBody[r])

\* The key is taken: return the existing row if it is the same command.
LookupExisting(r) ==
    /\ reqPc[r] = "lookup"
    /\ IF ~ SameRequest(r) THEN Answer(r, "409")
       ELSE IF status[reqKey[r]] = "created" THEN Goto(r, "enqueue")
       ELSE Answer(r, "accepted")
    /\ UNCHANGED <<reqKey, reqBody, reqCurrent, storeVars, relayVars>>

\* mutant: a Queue.add that failed goes unnoticed
EnqueueUnchecked(r) ==
    /\ reqPc[r] = "enqueue"
    /\ enqueue(reqKey[r]) \/ UNCHANGED relayVars
    /\ Goto(r, "read")
    /\ UNCHANGED <<reqKey, reqBody, reqCurrent, storeVars>>

EnqueueCommand(r) ==
    /\ reqPc[r] = "enqueue"
    /\ enqueue(reqKey[r])
    /\ Goto(r, "read")
    /\ UNCHANGED <<reqKey, reqBody, reqCurrent, storeVars>>

\* setCommandStatus(queued).  By now the worker may have run: an illegal
\* transition or a lost race surfaces as 503 relay_unavailable.
ReadForQueued(r) ==
    LET current == status[reqKey[r]] IN
    /\ reqPc[r] = "read"
    /\ IF MaySetStatus(current, "queued")
       THEN Goto(r, "write") /\ reqCurrent' = [reqCurrent EXCEPT ![r] = current]
       ELSE Answer(r, "503") /\ UNCHANGED reqCurrent
    /\ UNCHANGED <<reqKey, reqBody, storeVars, relayVars>>

WriteQueued(r) ==
    /\ reqPc[r] = "write"
    /\ reqCurrent' = [reqCurrent EXCEPT ![r] = "none"]
    /\ IF StatusStill(reqKey[r], reqCurrent[r])
       THEN UpdateStatus(reqKey[r], "queued") /\ Answer(r, "accepted")
       ELSE UNCHANGED storeVars /\ Answer(r, "503")
    /\ UNCHANGED <<reqKey, reqBody, relayVars>>

\* A statement fails: 500, except inside the try block around the relay.  The
\* write may have been applied and its answer lost; an earlier statement whose
\* answer is lost is that statement followed by a failure of the next one.
DatabaseFails(r) ==
    /\ "db_error" \in Faults
    /\ \/ reqPc[r] \in {"owner", "insert", "audit", "lookup"} /\ Answer(r, "500")
       \/ reqPc[r] \in {"read", "write"} /\ Answer(r, "503")
    /\ \/ UNCHANGED storeVars
       \/ /\ reqPc[r] = "write" /\ StatusStill(reqKey[r], reqCurrent[r])
          /\ UpdateStatus(reqKey[r], "queued")
    /\ reqCurrent' = [reqCurrent EXCEPT ![r] = "none"]
    /\ UNCHANGED <<reqKey, reqBody, relayVars>>

\* Queue.add rejects, before or after Redis applied it.
RelayFails(r) ==
    /\ "relay_error" \in Faults
    /\ reqPc[r] = "enqueue"
    /\ enqueue(reqKey[r]) \/ UNCHANGED relayVars
    /\ Answer(r, "503")
    /\ UNCHANGED <<reqKey, reqBody, reqCurrent, storeVars>>

\* The API process dies: its handlers vanish, their clients get no reply.
DropRequests ==
    /\ reqPc' = [r \in Request |->
                    IF reqPc[r] \in {"idle", "done"} THEN reqPc[r] ELSE "lost"]
    /\ reqCurrent' = [r \in Request |-> "none"]
    /\ UNCHANGED <<reqKey, reqBody, reply>>

ApiStep(r) ==
    \/ \E c \in Command, body \in Body : ReceiveRequest(r, c, body)
    \/ AssertRuntimeOwner(r)
    \/ InsertCommand(r)
    \/ AuditCreated(r)
    \/ LookupExisting(r)
    \/ EnqueueCommand(r)
    \/ ReadForQueued(r)
    \/ WriteQueued(r)
    \/ DatabaseFails(r)
    \/ RelayFails(r)
==============================================================================
