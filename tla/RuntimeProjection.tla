-------------------------- MODULE RuntimeProjection --------------------------
(***************************************************************************)
(* How the snapshot and the events of one Runtime reach the database: the   *)
(* connector's syncRuntime (apps/connector/src/index.ts), the gateway's     *)
(* handlers, which wait for their statements side by side                   *)
(* (apps/api/src/websocket-gateway.ts), and the two statements              *)
(* (packages/database/src/repository.ts).  A snapshot is represented by its *)
(* lastEventSequence, an event by its sequence.                             *)
(***************************************************************************)
EXTENDS Integers

CONSTANTS
  BatchLimit,     \* events in one message
  MaxSequence,    \* bound: events the Runtime produces
  MaxSessions     \* bound: connections; the last one is not broken

ASSUME ProjectionAssumption ==
  BatchLimit \in Nat \ {0} /\ MaxSequence \in Nat /\ MaxSessions \in Nat

VARIABLES
  native,         \* the Runtime's lastEventSequence
  session,        \* the connector's connections so far
  sync,           \* the current connection: its phase and its two cursors
  inflight,       \* messages on a socket, or waiting for their statement
  row,            \* runtime_snapshots of this installation and Runtime
  events          \* runtime_events: the sequences stored

connectorVars == <<session, sync>>
projectionVars == <<native, connectorVars, inflight, row, events>>

\* off: no socket; snapshot: between two timers, or waiting for the first
\* answer; events: waiting for the second.  polling admits one syncRuntime.
Sync == [phase : {"off", "snapshot", "events"},
         lastSnapshotSequence : -1 .. MaxSequence, eventCursor : 0 .. MaxSequence]

SnapshotMessage(s) == [session |-> session, first |-> s, last |-> s, kind |-> "snapshot"]
EventsMessage(a, b) == [session |-> session, first |-> a, last |-> b, kind |-> "events"]
Message == [session : 0 .. MaxSessions, first : 0 .. MaxSequence,
            last : 0 .. MaxSequence, kind : {"snapshot", "events"}]

ProjectionInit ==
  /\ native = 0
  /\ session = 0
  /\ sync = [phase |-> "off", lastSnapshotSequence |-> -1, eventCursor |-> 0]
  /\ inflight = {}
  /\ row = [eventSequence |-> -1, snapshot |-> -1]
  /\ events = {}

-----------------------------------------------------------------------------
\* The Runtime and the connector

runtimeEvent ==
  /\ native < MaxSequence
  /\ native' = native + 1
  /\ UNCHANGED <<connectorVars, inflight, row, events>>

\* connect with the cursors of the connection before it.
ResumedSync == [sync EXCEPT !.phase = "snapshot"]

\* connect: the cursors belong to the connection.
FreshSync == [phase |-> "snapshot", lastSnapshotSequence |-> -1, eventCursor |-> 0]

connect ==
  /\ sync.phase = "off" /\ session < MaxSessions
  /\ session' = session + 1
  /\ sync' = FreshSync
  /\ UNCHANGED <<native, inflight, row, events>>

\* syncRuntime, first answer: the snapshot is sent unless its sequence was.
syncSnapshot ==
  /\ sync.phase = "snapshot"
  /\ inflight' = IF native # sync.lastSnapshotSequence
                 THEN inflight \cup {SnapshotMessage(native)} ELSE inflight
  /\ sync' = [sync EXCEPT !.phase = "events", !.lastSnapshotSequence = native]
  /\ UNCHANGED <<native, session, row, events>>

\* A batch that is always full.
FullBatchEnd == sync.eventCursor + BatchLimit

\* The last event of the next batch, eventCursor if there is none.
BatchEnd ==
  IF native < sync.eventCursor + BatchLimit THEN native ELSE sync.eventCursor + BatchLimit

\* syncRuntime, second answer: a batch after the cursor, which moves at once.
syncEvents ==
  /\ sync.phase = "events"
  /\ inflight' = IF BatchEnd > sync.eventCursor
                 THEN inflight \cup {EventsMessage(sync.eventCursor + 1, BatchEnd)} ELSE inflight
  /\ sync' = [sync EXCEPT !.phase = "snapshot", !.eventCursor = BatchEnd]
  /\ UNCHANGED <<native, session, row, events>>

\* The second call to the Runtime fails: the next timer starts over.  (If the
\* first one fails nothing has changed.)
syncFails ==
  /\ sync.phase = "events"
  /\ sync' = [sync EXCEPT !.phase = "snapshot"]
  /\ UNCHANGED <<native, session, inflight, row, events>>

-----------------------------------------------------------------------------
\* The gateway and its statements

\* upsertSnapshot without its comparison.
LatestArrival(s) == [eventSequence |-> s, snapshot |-> s]

\* upsertSnapshot with one comparison only: the snapshot is always replaced.
GreatestOnly(s) ==
  [eventSequence |-> IF s > row.eventSequence THEN s ELSE row.eventSequence, snapshot |-> s]

\* upsertSnapshot, on conflict: the greater sequence, the newer snapshot.
Upserted(s) ==
  [eventSequence |-> IF s > row.eventSequence THEN s ELSE row.eventSequence,
   snapshot      |-> IF s >= row.eventSequence THEN s ELSE row.snapshot]

storeSnapshot(m) ==
  /\ m \in inflight /\ m.kind = "snapshot"
  /\ row' = Upserted(m.last)
  /\ inflight' = inflight \ {m}
  /\ UNCHANGED <<native, connectorVars, events>>

\* insertRuntimeEvents: one statement; events that are there are left alone.
storeEvents(m) ==
  /\ m \in inflight /\ m.kind = "events"
  /\ events' = events \cup m.first .. m.last
  /\ inflight' = inflight \ {m}
  /\ UNCHANGED <<native, connectorVars, row>>

\* Bound: what breaks a connection is followed by another connection.
MayBreak == session < MaxSessions

Off == [sync EXCEPT !.phase = "off"]

\* The statement throws: the gateway closes the message's socket with 1011.
failMessage(m) ==
  /\ m \in inflight /\ MayBreak
  /\ inflight' = inflight \ {m}
  /\ sync' = IF m.session = session THEN Off ELSE sync
  /\ UNCHANGED <<native, session, row, events>>

\* The socket or the API process goes; any message that has not been handled
\* may go with it, and one whose statement was sent may still be stored.
loseSocket ==
  /\ sync.phase # "off" /\ MayBreak
  /\ \E lost \in SUBSET inflight : inflight' = inflight \ lost
  /\ sync' = Off
  /\ UNCHANGED <<native, session, row, events>>

Store(m) == storeSnapshot(m) \/ storeEvents(m)

ProjectionStep ==
  \/ runtimeEvent \/ connect \/ syncSnapshot \/ syncEvents \/ syncFails
  \/ \E m \in inflight : Store(m) \/ failMessage(m)
  \/ loseSocket
=============================================================================
