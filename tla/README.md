# A TLA+ model of Symphoneer Hub

Symphoneer Hub lets a user watch a Symphoneer Runtime that runs on their own
machine, and pause an attempt on it, from a web board.  A *Connector* next to
the Runtime keeps an outgoing WebSocket to the Hub's *API*; a *worker* delivers
commands through a BullMQ queue and a Redis channel; PostgreSQL is the truth.

This directory holds the specifications of that system, the TLC configurations
that check them on small instances, and proofs for TLAPS.  Paths below are
relative to `src/`.  Everything is translated from the code; where a document or
a test says something else, the difference is stated as a property that a run
refutes (section *What the documents say otherwise*).

    tlc  -config delivery.cfg MCCommandDelivery     # one run
    tlapm CommandDelivery_proofs.tla                # the proofs, as
    tlapm Pairing_proofs.tla                        # the other *_proofs modules

## 1. Inventory

| Component | Code | State | Operations |
|---|---|---|---|
| Command policy | `packages/contracts/src/command-policy.ts` | none | transition table, expiry, comparison of two requests under one idempotency key |
| Command store | `packages/database/src/repository.ts` | `commands`, `command_attempts`, `audit_logs` | `createCommand`, `setCommandStatus`, `createCommandAttempt`, `finishCommandAttempt`, `completeCommandFromConnector`, `listRecoverableCommands` |
| Relay | `packages/relay/src/index.ts` | BullMQ jobs, Pub/Sub channel, presence keys, rate windows | `enqueue`, the worker's job life cycle, `publish`, `subscribe`, `online`/`offline`, `consume` |
| Command API | `apps/api/src/app.ts` | a handler's local variables | POST `.../commands/pause-attempt` |
| Delivery worker | `apps/worker/src/index.ts` | a run's local variables | startup recovery, processor, `failed` handler |
| Connector | `apps/connector/src/index.ts`, `runtime-client.ts`, `state.ts` | map of executions in flight, socket, cursors, stored pairing | `handleCommand`, `executeCommand`, `syncRuntime`, `connect`, `pair` |
| WebSocket gateway | `apps/api/src/websocket-gateway.ts` | `connections`, by installation | `bind`, `onMessage`, `touch`, `onClose`, routing of published commands |
| Runtime projection | connector, gateway, repository | latest snapshot, events | `upsertSnapshot`, `insertRuntimeEvents` |
| Pairing | `apps/api/src/app.ts`, repository, connector | codes, credentials, device token | `createPairingCode`, `consumePairingCode` |
| Reconnect backoff | `packages/contracts/src/backoff.ts` | none | `exponentialBackoff` |
| Web board | `apps/web` | selected installation, its snapshot | `loadSnapshot`, `pauseAttempt`, `waitForCommand` |
| Migrations | `packages/database/src/migrate.ts` | applied migrations | run under one advisory lock |
| Authentication, configuration, start and stop, scripts | `apps/*/src/{auth,config,server}.ts`, `scripts/` | none | stateless checks and wiring |

How a command travels, and who shares what:

    client --POST--> API: insert row, audit --Queue.add--> Redis job
                     API: set `queued' <--- both write commands.status ---> worker
    worker: load, presence, attempt row, `queued', `delivering' --PUBLISH-->
      gateway --WebSocket--> Connector --HTTP--> Runtime
    Runtime --> Connector --WebSocket--> gateway: complete row, audit
    worker: every run throws until a run finds the row settled

There are no transactions around a command: each SQL statement and each Redis
call is atomic, and everything else interleaves.  Five parties write
`commands.status`: the API request, the worker, a twin of the worker that lost
its lock, the `failed` handler, and the gateway.  All agreement between them
rests on two `where` clauses and on the order of the statements.

What is hard, and what makes each component correct:

* **Store and API.**  Two requests race on one key; the process dies between
  insert, audit, `Queue.add` and the status; the worker overtakes the API.  A
  client may be told *accepted* only when the queue has the job, and two
  accepted requests with one key asked for the same thing.
* **Worker and queue.**  A job that was published must stay retryable until its
  result is stored; the last failed run must settle the command; a run that
  lost its lock must do no harm.
* **Connector and gateway.**  Messages are lost, duplicated by retries and late;
  the Runtime's answer races a 30 s timeout.  A verdict must be the Runtime's
  decision, stored once, and final.
* **Ownership and presence.**  Connections are keyed by installation in every API
  process, presence is shared.  The late close event or the late `touch` of an
  older connection must not hide its successor, and presence nobody deletes must
  go away.
* **Projection.**  Messages of one socket are handled side by side, and an old
  socket beside a new one; the connector's cursors move before anything is
  stored.  The stored snapshot may never go back, and must catch up.
* **Web board.**  Answers for the installation selected before may come late.
* **Pairing.**  A code is consumed once, whatever fails half way; the reply may be
  lost after that, and a pairing that was given up may still commit.
* **Rate limiter.**  A fixed window bounds a minute only up to a factor.

`PROJECT.json` lists the hazards line by line, each with the properties that
would notice it.

## 2. Plan

The order of work was the importance of the behaviour.  All steps are done but
the last:

1. The delivery of a command: `CommandPolicy`, `CommandStore`, `Relay`,
   `CommandApi`, `DeliveryWorker`, `ConnectorExecution`, composed in
   `CommandDelivery`, with the abstract `CommandLifecycle`.
2. Connections and presence over several API processes: `Presence`,
   `ConnectorGateway`, with the abstract `RouteOwnership`.
3. The projection of a Runtime and the board that reads it: `RuntimeProjection`
   with the abstract `Projection`, composed with `WebBoard`.
4. Pairing and its rate limit: `RateLimiter`, composed with `Pairing`, with the
   abstract `OneTimeCodes`.
5. Left: `exponentialBackoff`, which no property of the models depends on.

Each module takes its sets as CONSTANTS with named assumptions, has one action
per operation and declares no RECURSIVE operator, so that it can be proved about.
Every safety property that is not refuted is proved.

## 3. The modules

| Module | Models | Remarks |
|---|---|---|
| `CommandPolicy` | `command-policy.ts` | Statuses, `transitions`, `sameIdempotentCommand`.  An instant has several spellings: the column is compared as an instant, the payload as text |
| `CommandStore` | the command tables | One operator per SQL *statement*.  `setCommandStatus` is two of them: `MaySetStatus` on what was read, then `StatusStill` and `UpdateStatus` |
| `Relay` | queue and channel | BullMQ from the options the code passes: job id = command id, `attempts`, retained finished jobs, locks and the stalled check |
| `CommandApi` | POST pause-attempt | A request is a process, `reqPc` names the await it is at |
| `DeliveryWorker` | the worker | `wPc` names the await; the processor, startup and the `failed` handler |
| `ConnectorExecution` | connector, Runtime, result handler | The Runtime is external |
| `CommandDelivery` | the composition | `Next`, `Fairness`, every property |
| `CommandLifecycle` | what the hub promises | absent, open, one verdict; the Runtime decides at most once |
| `Presence` | `PresenceStore` | SET with expiry; `offline` is a GET (`readOffline`) and a later DEL (`RemoveKey`); `silent` is a history variable: how long ago a connection was last recorded |
| `ConnectorGateway` | `websocket-gateway.ts`, `shutdown` of `server.ts`, `CommandSubscriber` | API processes, their maps, the sockets, handlers that wait for a statement (`handling`), commands sent on a socket (`delivered`) |
| `RouteOwnership` | what the gateways promise of routes | a connection has one route in its life, is finished when it loses it, and is sent the commands of its route meanwhile |
| `RuntimeProjection` | `syncRuntime`, the snapshot and events handlers, `upsertSnapshot`, `insertRuntimeEvents` | a snapshot is its `lastEventSequence`, an event its sequence |
| `Projection` | what the hub promises of a Runtime | the stored snapshot follows, stored events stay |
| `WebBoard` | `page.tsx`, the snapshot route | composes with `RuntimeProjection`; its Runtime is paired with one of the installations |
| `RateLimiter` | `FixedWindowRateLimiter` | one key; `accepted` is a history variable |
| `Pairing` | both pairing routes and statements, the connector's `pair` and state file | composes with `RateLimiter`; a request stands for the token made for it; `sideBySide` is a history variable |
| `OneTimeCodes` | what the hub promises of codes | made, then revoked or used; using one and replacing the credential are one step |
| `MCCommandDelivery`, `MCConnectorGateway`, `MCWebBoard`, `MCPairing` | instances for TLC | |
| `..._proofs` | theorems | section 6 |

An action is the code between two awaits.  What was read before an await is kept
in a variable of the process (`reqCurrent`, `wCurrent`, `wGoal`), so a step acts
on what may be stale by then.  `wGoal` stands for the row the processor loaded:
it is the status the processor will set next, decided when the row was loaded.

In the delivery, faults are actions enabled by the constant `Faults`:

| Fault | Effect |
|---|---|
| `db_error` | a statement throws, with the write applied or not; in a request 500 or 503, in the processor a failed run, in the `failed` handler an unhandled rejection that ends the process, in the gateway a closed socket |
| `relay_error` | the same for Redis calls |
| `api_crash` | requests, gateway handlers and the socket vanish |
| `worker_crash` | the run vanishes, its job keeps the lock until the stalled check |
| `lock_lost` | the stalled check takes a job from a run that is still going |
| `connector_restart` | the map of executions is gone, calls already sent are not |
| `socket_loss` | commands on their way are lost; results are lost or already read |

Abstractions of the delivery, and what they leave out:

* One owner, so an idempotency key *is* a command.  One clock for all processes;
  `expired` is the set of commands whose time is over, and it only grows.
* Error codes, results and timestamps of a row are not modelled, nor is the
  overwriting of an error code that follows from setting `failed` twice.
* A worker process runs one job at a time (the code: ten).  Runs of distinct
  commands share no state but the process, whose crash would take several at once.
* Commands and results on their way are sets: redelivery of a command that has
  not been read yet merges with it, and a second copy of a result finds the row
  settled.  Messages may overtake each other, which WebSocket does not do but
  side-by-side handlers do.
* A statement whose answer is lost is modelled where the caller's next step
  differs: at a status write, `Queue.add` and PUBLISH.  Elsewhere it equals the
  statement followed by a failure of the next one.
* The Runtime is relied on to be idempotent on the command's key: it decides
  once.  A `4xx` that is not a decision (for instance a rate limit of the
  Runtime) counts as the decision *refused*.
* Finished jobs stay known to BullMQ (an hour or a day, 1000 or 5000 jobs),
  longer than a command lives (at most five minutes).  With more than 1000
  completions in five minutes this would not hold.
* Whether BullMQ counts a run that stalled for good as an attempt is left open.
* The ownership check (`assertRuntimeOwner`), presence and the route of a PUBLISH
  are other components' state and may answer anything, hence also whatever
  `ConnectorGateway` lets them answer.

Abstractions of the gateway:

* Redis answers one process in the order of its calls, so a SET or a GET takes
  place when it is issued; the DEL of `offline` comes after its GET's answer and
  is a step of its own.  Redis' clock is `tick`.
* A publication may arrive at a subscribed process at any time: the worker
  publishes again and again, and the copies of two processes are independent.
* Connection ids are used once, and a process that is started anew is another
  element of `Process`.  `MaxHandling` bounds the messages of one connection that
  are handled at once.
* Heartbeats may fail, and so may a statement or a touch: the socket is closed,
  and the touch may have reached Redis.  A result is a message like any other here;
  what it does to its command's row is `CommandDelivery`.
* The map, the channel and the keys know installations only, so the connectors of
  two runtimes of one installation are two connections of it.  They do receive each
  other's commands: `hub.command` names no runtime.  The result is refused by the
  runtime clause of `completeCommandFromConnector`, which is not modelled here.

Abstractions of projection and board:

* One Runtime, paired with one installation; its sequence only grows.  A batch
  that is empty is not sent.  `observedAt` is left out: with one Runtime per
  installation the row it orders is the only one.
* A snapshot and an event batch on their way are in `inflight` until their
  statement, whether on the socket or in a handler; messages of one and of
  several sockets are stored in any order.  `failMessage` closes the socket at
  once, and a closed socket is closed on both ends.
* `MaxSequence` bounds the Runtime, `MaxSessions` the connections (the last one
  is not broken), `MaxLoads` the board's requests in flight, of which two for the
  same installation are one.

Abstractions of pairing:

* A statement that PostgreSQL runs without waiting is one step.  The DELETE deletes
  the rows it found when it started, waits for those that are locked, and leaves
  those consumed meanwhile (READ COMMITTED).  The transaction from its first
  UPDATE to COMMIT is one step, since the row lock hides it; it may also be rolled
  back.  An API process that dies is a request that fails.
* Expiry of a code is a refusal that may come at any time before the lock.
* A code stands for itself and its hash; a guess that is no code only counts.
  One limiter key: all requests have one address.  `MaxTime` and `MaxCount` bound
  the clock and the calls of a window.

## 4. The runs

`CHECK_DEADLOCK FALSE` is set where the systems really stop: when the requests of an
instance are answered and their commands settled, or when all codes are used, nothing
is left to do.  In `gateway` and `shutdown` time always passes.

| Run | Instance | Question |
|---|---|---|
| `faults` | 1 request, 1 worker, 1 attempt, no tolerated stall, every fault but a lost lock | do the safety properties and the abstract life cycle survive every failure at every await? |
| `delivery` | 1 request, 1 worker, 2 attempts, no tolerated stall; worker crashes, connector restarts, lost sockets | does redelivery keep one verdict, not before its time, one audit entry and a trace of what was executed? are the attempt rows the history of the runs? |
| `requests` | 2 requests with equal, respelt or different bodies, 1 worker, 1 attempt, Redis may fail | do racing requests agree on one row? |
| `workers` | 2 workers, 1 attempt, 1 tolerated stall, lost locks | does a twin that runs on without its lock do harm? is a command ever left to nobody? |
| `progress` | fair workers, 2 attempts, unreliable connector | does every job end and settle its command? |
| `gateway` | 2 API processes, 2 connections of one installation, 1 command, TTL of 3 ticks, `MaxHandling` 1 | who is routed to, and only once? when is a connected installation hidden, what becomes of presence? |
| `projection` | 2 events in batches of 1, 2 connections, 2 installations, 2 loads in flight | does the database follow the Runtime, and the board the database? |
| `pairing` | 1 connector, 2 codes, 2 requests, limit 2 in a window of 2 ticks, times 0 to 2, 3 calls counted | is a code used once and in one step, and the stored token the live one? who is refused? |
| `recovery`, `transitions`, `expiry`, `shutdown` | the smallest delivery each; the instance of `gateway` | the four refuted statements of section 5 |

Why the bounds are enough to be interesting.  Commands interact only through the
limit of recovery and through a process that dies, so one command is the unit;
the second request and the second worker are what races on it.  Two attempts
distinguish *a* failed run from *the last* one and give a redelivery; the code's
eight would repeat the middle.  Zero tolerated stalls make a crash fatal to the
job at once, one lets a second worker take it over.  The theorems of section 6
hold without any of these bounds.  Requests and workers are interchangeable in an
instance, so `requests` and `workers` use them as symmetry sets; runs that check
liveness use none.

Two connections are what superseding needs, and two processes let them live
without knowing of each other, as do the connectors of two runtimes.  A TTL of three
ticks is the code's (30 s) in heartbeats of the default interval (10 s).
Two events in batches of one give two batches and three snapshots to reorder; two
connections give messages of an old and a new socket.  Two codes and two requests
are one that is given up and one that follows it, or a race for one code.  In
`pairing` the times 0 to 2 hold two windows, so that twice the limit is reached.

Properties of the delivery (in `CommandDelivery`):

* `TypeOK` - types, and with them that no job exceeds its runs or its stalls.
* `NeverPretendQueued` - *accepted* is answered, and a row leaves `created`, only
  when the queue has the job (`docs/RUNBOOK.md`: do not pretend that commands
  were queued).
* `AcceptedRequestsAgree` - requests accepted under one key are the same command.
* `ResultsNeverTooEarly` - nothing of a command is at the connector while its row
  would turn the result away.
* `VerdictMatchesRuntime` - `succeeded`, `rejected` and `conflict` are decisions
  the Runtime took.
* `CompletedJobIsSettled` - a job completes only for a settled command.
* `AuditMatchesRow` - at most one completion entry, naming the row's final status;
  at most one creation entry.
* `ExecutionIsTraced` - what the Runtime decided on has an attempt row.
* `TerminalIsFinal` - no step changes a settled status.
* `OnlyResultsLeaveTable` - what holds of the table of transitions (section 5 says
  what does not): every status the API, a worker, its twin or the `failed` handler
  sets follows it.  The one step outside it is a result for a row that was taken
  back to `queued`.
* `AbandonedOnlyByFault` - the positive side of run `recovery`.  An open command is
  in the care of a live job or of the `failed` handler; it leaves both only when
  the stalled check gives its job up, when the handler's process is killed, or when
  the handler's write meets a status set since its read.  TLC finds all three.
* `NoVerdictTooSoon` - a command expires only when its time is over, and fails only
  when its job has failed for good or the connector says so.
* `AttemptsAreHistory` - the attempt rows are the history of a job's runs, though a
  run reads its number once, stalls do not advance it and the insert may find a row:
  what is published under the job's lock has the row of the run the queue is at, and
  the rows of the runs that failed stay as they are, but for a run that goes on without
  its lock.  The run has one worker; twins, and stalls that make a run repeat its
  number, are covered by the theorem (section 6).
* `ImplementsLifecycle` - refinement of `CommandLifecycle` with the mapping
  `ledger` (no row is *absent*, the three open statuses are *open*).
* `JobEnds`, `DeliverySettles` - liveness, under `FairSpec`.

Of the gateway (in `ConnectorGateway`):

* `RoutesMatch` - an open socket is the one its process' map names, and what a map
  names is a socket of that process and installation whose close event is still to
  come.  It is why `onClose` compares connection ids.
* `ImplementsOwnership` - refinement of `RouteOwnership`, the owner of a route being
  what the map names, and a connection being finished when it is closing or gone
  and in no map: nobody gets a second route, nobody who lost one stays open, and a
  command is sent only to the connection that has its route.
* `OnlyDeletionHides` - an installation with an open connection that was heard of less
  than a TTL ago is hidden by one thing only: the DEL that the `offline` of another,
  closed connection had still to issue.  No expiry hides it, though superseded,
  closing and closed connections write over the key.  That nothing hides it is false:
  between GET and DEL an open connection may touch.
* `PresenceStays` - nor does that last: if a connection stays open and its heartbeats
  stay less than a TTL apart, the installation is in the end shown online for good.
  An instance has finitely many connections, so this is about the time when others
  have ceased to come and go.
* `QuietKeysRunOut` - while nothing of an installation is connected or handled,
  nothing refreshes its key, and every tick shortens it.
* `PresenceFades` - once nothing of an installation is connected or handled, it is
  shown offline for good, although nobody deletes the key after a crash, a
  shutdown or a late touch.

Of projection and board (in `WebBoard`):

* `RowIsConsistent` - the stored sequence is the stored snapshot's.
* `CursorIsHonest` - while a connection holds, every event and the snapshot that the
  connector's cursors have passed is stored or on its way to a handler, although
  the cursors move when a message is sent.
* `ImplementsProjection` - refinement of `Projection`: the snapshot never goes back.
* `ProjectionCatchesUp` - once the connection holds, the database has the
  Runtime's last snapshot and every event.
* `BoardSettles` - once the user stays with an installation, what the board shows
  is that installation's snapshot as the Runtime has it.

Of pairing (in `Pairing` and `RateLimiter`):

* `CodePairsOnce` - a code is consumed if and only if one request was paired with it.
* `StoredTokenIsLive` - the token a connector has stored opens a connection, as long
  as codes are made one at a time.  Without that condition TLC refutes it: two
  codes made at once are both live, and a request the connector gave up can commit
  after the second pairing and replace the token that was stored.
* `ImplementsOneTime` - refinement of `OneTimeCodes` (`docs/THREAT_MODEL.md`: codes are
  one-time and consumed transactionally).  A code is *valid* from its INSERT, *used*
  once its consumption committed, *revoked* when it was deleted.
* `RefusalsAreEarned` - whenever the next attempt would be refused, the limit was
  used up less than a window ago: refused attempts prolong nothing.
* `RateBound` - twice the limit of accepted attempts take at least a window's length.
* `PairingEnds` - whoever waits for a locked row is served.

**Fairness.**  In `CommandDelivery`, `FairSpec` assumes weak fairness of each worker's processor, of its
`failed` handler and of the stalled check: an event loop runs what is ready,
BullMQ polls and its check is on a timer.  Nothing is assumed of the clients, the
connector, the Runtime or the clock: `DeliverySettles` holds because the queue
gives up after its attempts.  It is stated for the time when no request is in
flight, since a request that wins the race against the last write makes the
`failed` handler throw; and for processes that stay up, since a worker that dies
at that point leaves the command open (run `recovery`).

In `ConnectorGateway` it assumes that time passes, and nothing of connectors,
sockets or processes: the gateway never pings, and a half-open socket may stay silent.
Where `PresenceStays` needs heartbeats it says so in its antecedent.  In `WebBoard` timers fire,
the connector reconnects and polls, statements and requests return.  Its strong
fairness of `syncEvents` says that a Runtime that is asked again and again answers;
nothing is asked of the user, of the network before the last connection, or of the
order of answers.  In `Pairing` statements return.  Those that may wait for a row lock
have strong fairness: the lock queue of PostgreSQL serves who waits, though others
take the lock in between.  Connectors and users may stop at any time.

## 5. What the documents say otherwise

Each is a run that TLC refutes with a trace of the code's own steps.

* `recovery` - `docs/RUNBOOK.md` says that after recovery the worker reconciles
  created or retryable commands.  A worker that dies after the last failed run
  and before the `failed` handler's write leaves an open row whose failed job is
  retained.  Recovery's `Queue.add` with the same job id is ignored by BullMQ: the
  command has no job that will run.
* `transitions` - the table and the diagram of `docs/ARCHITECTURE.md` know no
  `queued -> succeeded`.  The API writes `queued` after `Queue.add`; a fast worker
  has by then set `delivering`, the write takes it back, and the connector's result
  is accepted from `queued`.
* `expiry` - the connector reports *command expired before local execution* for a
  command the Runtime accepted, when it is redelivered after its expiry and after
  its entry was evicted or the connector restarted.
* `shutdown` - `docs/RUNBOOK.md` says that on shutdown the API stops accepting
  upgrades and closes WebSockets.  `close()` closes the connections of the map and
  empties it, then waits for Redis, and only then closes the WebSocket server.  An
  upgrade whose credential query returns in between is bound, is never closed, and
  keeps the process from ending for as long as the connector stays.

## 6. The proofs

`CommandDelivery_proofs`, `CommandRecords_proofs` and `CommandCare_proofs` prove for every set of commands, bodies, requests,
workers and faults, every positive `MaxAttempts` and every `MaxStalls`, assuming
only the named assumptions of `CommandStore`, `Relay` and `DeliveryWorker` (`None` is no
command, body or worker; the bounds are numbers):

| Theorem | Property |
|---|---|
| `TypeCorrect` | `TypeOK` |
| `VerdictsAreFinal` | `TerminalIsFinal` |
| `QueuedIsNeverPretended` | `NeverPretendQueued` |
| `CompletionMeansSettled` | `CompletedJobIsSettled` |
| `ResultsFindTheirRow` | `ResultsNeverTooEarly` |
| `VerdictsAreTheRuntimes` | `VerdictMatchesRuntime` |
| `DeliveryImplementsLifecycle` | `ImplementsLifecycle` |
| `AcceptedMeansTheSame` | `AcceptedRequestsAgree` |
| `AuditNamesTheRow` | `AuditMatchesRow` |
| `ExecutionLeavesATrace` | `ExecutionIsTraced` |
| `AbandonmentIsExcused` | `AbandonedOnlyByFault` |
| `VerdictsComeInTime` | `NoVerdictTooSoon` |
| `TableHoldsButForResults` | `OnlyResultsLeaveTable` |
| `AttemptsTellTheRuns` | `AttemptsAreHistory` |

The other three proof modules, for any sets of processes, connections, codes and
so on and any bounds, from the assumptions `PresenceAssumption`,
`GatewayAssumption`, `ProjectionAssumption`, `BoardAssumption`,
`LimiterAssumption` and `PairingAssumption` (`None` is none of the ids, bounds are
numbers, TTL, window, limit and batch are positive):

| Module | Theorem | Property |
|---|---|---|
| `ConnectorGateway_proofs` | `GatewayTypeCorrect` | `TypeOK` |
| | `OpenSocketsAreRouted` | `OpenIsRouted`, the first half of `RoutesMatch` |
| | `RoutesAlwaysMatch` | `RoutesMatch` |
| | `OwnershipImplemented` | `ImplementsOwnership` |
| | `QuietKeysFade` | `QuietKeysRunOut` |
| | `OnlyDeletionsHide` | `OnlyDeletionHides` |
| `WebBoard_proofs` | `BoardTypeCorrect` | `TypeOK` |
| | `RowsAreConsistent` | `RowIsConsistent` |
| | `CursorsAreHonest` | `CursorIsHonest` |
| | `ProjectionImplemented` | `ImplementsProjection` |
| `Pairing_proofs` | `PairingTypeCorrect` | `TypeOK` |
| | `CodesPairOnce` | `CodePairsOnce` |
| | `StoredTokensAreLive` | `StoredTokenIsLive` |
| | `OneTimeImplemented` | `ImplementsOneTime` |
| | `AttemptsAreBounded` | `RateBound` |
| | `RefusalsAreDeserved` | `RefusalsAreEarned` |

The argument about the delivery has three layers.

1. *Statements.*  Every action touches the tables and the queue through one of a
   few statements, `StoreStep` and `JobStep`; the `...Reaches` lemmas show it once per
   action.  Facts about rows and jobs are then proved per statement, not per action.
2. *`TypeInv`* = `TypeOK` and three facts it is not inductive without: a job that can
   run has runs left (else `attemptsMade` leaves its range), a busy process holds a
   command, and a process about to write a status read one that allows it.  The
   last one gives `TerminalIsFinal`: with `where status = current` the write leaves
   only a status that could be left.
3. *`QueueInv`* follows the order of the statements: a request past its `Queue.add`
   and a worker holding a job know an enqueued command, and a processor returns
   only for a settled one.  *`ResultInv`* follows the order of the messages: a worker
   about to publish has written `delivering`; so everything at the connector, and
   every decision, belongs to a row past `created`; and each verdict in the map, on
   the socket or in a row agrees with the decision.

Refinement needs `TypeInv` and `ResultInv`: the Runtime decides only on a row that
exists, and a row is settled only with a verdict that agrees with the decision.

`CommandRecords_proofs` adds three invariants about what the tables keep.
*`AskedForTheRow`*: a request past the comparison, or past its insert, asks for what the
row was created for, and a row keeps its identity.  *`AuditInv`*: at most one request
is on its way to audit the creation of a row, and a result due to be audited is
the one that settled the row, whose log has no completion yet.  *`TraceInv`*: a worker
on its way to publish has recorded the attempt of its own number, and attempts stay.
Before they were proved, TLC checked them on the instances of the runs.
`AttemptsTellTheRuns` adds *`RunsAreNumbered`*: a run that holds its job's lock has the
number the queue is at, since a step that counts a failed run also takes the lock away.
Its own row is then that of the current run, and a row of a failed run can be written
only by a run without the lock.

`CommandCare_proofs` is about who answers for a command and what may become of it.
*`HandlersMeanToSettle`*: what the `failed` handler is about to set is a verdict, so it
lets an open command go only by dying or by losing the race of its write; with
`QueueInv` (a processor returns only for a settled command) and the limit of stalls
that `AbandonedOnlyByFault` needs.  *`CauseInv`*: a worker about to write `expired`, an
execution or a result that says so, has a command whose time is over; a worker in
the `failed` handler has a job that failed for good.  Both causes stay, whatever
happens to locks meanwhile.  `OnlyResultsLeaveTable` needs `TypeInv` alone: the write
of the hub carries its read's guard.

*Gateway.*  `RoutesMatch` is inductive together with `TypeOK`: `bind` closes what it
replaces, `onClose` removes only its own entry, and `close()` empties the map after
closing all it names.  It also carries the refinement: an entry of a map is an
attached connection in its own place, so removing one, or closing a socket, ends
exactly the connections that lose their routes, and `bind` gives a route to a
connection that had none.  For presence, `StepTouchesKeys` lists what a step can do to
a key; only a connection that is attached or handled sets one, and `KeysExpire` says
that every key has time left to lose.  `OnlyDeletionsHide` rests on two more.
*`FreshKeys`*: whoever wrote a key last, it lives at least as long as if it had been
written when a given connection of the installation was last heard of; a touch makes
it live longer and a tick takes as much from the key as it adds to the silence.
*`RemovedByClosed`*: only a connection whose close event has run has a deletion to make.

*Projection.*  `BoardInv` adds to the types that the two halves of the row agree and
that no message, cursor or stored event is ahead of the Runtime.  With it every
storing step is a `Follow`, a `Record` or a stutter of `Projection`, and all others
are a `Happen` or a stutter.  `CursorIsHonest` is inductive with it: a cursor moves with
the message that covers it, a statement stores what its message carried, and one
that fails ends the connection.

*Pairing.*  `PairingInv` relates four parties.  A row is locked by exactly the request
that is about to write, and its code is then unconsumed; what a request was paired
with is consumed, and by it alone (`CodePairsOnce`).  For the token,
`CodesInTurn` says that where no two codes were made at once, at most one code of
an installation is unconsumed or being inserted, and one that is being deleted is
seen by the deletion; `CurrentIsLast` that once the request a connector waits for, or whose token it has
stored, is paired, none of its other requests has a code that is left.  So a request
that was given up cannot commit after its successor.  `LimiterInv` numbers the
accepted attempts: windows do not overlap, an attempt lies in its window, the first
one opens it, and within a window numbers have no gap.  Attempts `Limit` apart are
therefore of different windows.  Of 2 * Limit attempts in a row, either the first
opened its window and the last is in a later one, or the last is two windows later.
For `RefusalsAreEarned`, `KeyIsCounted` adds that the accepted attempts of the window
the key stands for are as many as its count, up to the limit.

The refinement of `OneTimeCodes` follows from the part of `PairingInv` about codes: a
transaction that commits holds a lock on an unconsumed row, and its request is
paired with nothing yet, which is `Use`; the DELETE of the next code is `Revoke` of
the unlocked, unconsumed rows it has seen, and every other step is `Make` or a stutter.

Model-checked only: the liveness properties (`JobEnds`, `DeliverySettles`,
`PresenceStays`, `PresenceFades`, `ProjectionCatchesUp`, `BoardSettles`,
`PairingEnds`), since fairness and ENABLED are outside the prover.

## 7. Not modelled

* `exponentialBackoff` - floating point and a random number; connectors reconnect
  at any time in the models, and no property is about the delay.
* Authentication, configuration, wire schemas and scripts - stateless checks.
* Migrations - a single script under an advisory lock.
* The rendering of the board, signing in and the list of installations - no state
  that another party changes.
* A Runtime that starts its event sequence over, a state file cut short by a crash,
  error codes that are overwritten, a command executed by the connector of another
  runtime: `PROJECT.json` lists them as hazards, each with the reason why no property
  covers them.
* Delivery and gateway are two compositions and not one: their product is beyond
  TLC, and the delivery takes every answer the gateway could give.
* Liveness under crashes of the worker is not claimed: run `recovery` shows why it
  fails.
