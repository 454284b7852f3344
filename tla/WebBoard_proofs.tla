-------------------------- MODULE WebBoard_proofs --------------------------
(***************************************************************************)
(* The projection and the board, for any batch size, Runtime, connections, *)
(* installations and answers.                                              *)
(***************************************************************************)
EXTENDS WebBoard, TLAPS

---------------------------------------------------------------------------
\* What is on its way to the database has happened.
InflightTrue == \A m \in inflight :
  /\ m.last <= native
  /\ m.kind = "events" => 1 <= m.first /\ m.first <= m.last

ProjectionTypeOK ==
  /\ native \in 0 .. MaxSequence
  /\ session \in 0 .. MaxSessions
  /\ sync \in Sync
  /\ inflight \subseteq Message
  /\ row \in [eventSequence : -1 .. MaxSequence, snapshot : -1 .. MaxSequence]
  /\ events \subseteq 1 .. MaxSequence

BoardTypeOK ==
  /\ selectedId \in Installation
  /\ snapshot \in View
  /\ requested \subseteq Installation /\ answered \subseteq View
  /\ waiting \subseteq Installation

BoardInv ==
  /\ ProjectionTypeOK /\ BoardTypeOK
  /\ InflightTrue /\ RowIsConsistent
  /\ row.snapshot <= native

LEMMA BoardStarts == Init => BoardInv
  BY ProjectionAssumption, BoardAssumption
     DEF ProjectionAssumption, BoardAssumption, Init, ProjectionInit, BoardInv, ProjectionTypeOK,
         BoardTypeOK, InflightTrue, RowIsConsistent, Sync, Message, View

LEMMA BatchEndType ==
    ASSUME ProjectionTypeOK
    PROVE  BatchEnd \in 0 .. MaxSequence /\ BatchEnd <= native
  BY ProjectionAssumption DEF ProjectionAssumption, ProjectionTypeOK, Sync, BatchEnd

---------------------------------------------------------------------------
(***************************************************************************)
(* One step of the projection keeps the invariant and is a step, or a      *)
(* stutter, of what is promised.                                           *)
(***************************************************************************)

ProjectionInv == ProjectionTypeOK /\ InflightTrue /\ RowIsConsistent /\ row.snapshot <= native

Kept == ProjectionInv' /\ [Promise!Next]_(Promise!vars)

LEMMA StutterKept ==
    ASSUME ProjectionInv, UNCHANGED <<native, row, events>>,
           session' \in 0 .. MaxSessions, sync' \in Sync,
           inflight' \subseteq Message, InflightTrue'
    PROVE  Kept
  BY DEF Kept, ProjectionInv, ProjectionTypeOK, RowIsConsistent, Promise!vars

LEMMA ConnectorSteps ==
    ASSUME ProjectionInv,
           runtimeEvent \/ connect \/ syncSnapshot \/ syncEvents \/ syncFails \/ loseSocket
    PROVE  Kept
  <1>0. /\ native \in 0 .. MaxSequence /\ session \in 0 .. MaxSessions /\ sync \in Sync
        /\ inflight \subseteq Message /\ InflightTrue
        /\ MaxSequence \in Nat /\ MaxSessions \in Nat /\ BatchLimit \in Nat \ {0}
    BY ProjectionAssumption DEF ProjectionAssumption, ProjectionInv, ProjectionTypeOK
  <1>p. \A x \in {"off", "snapshot", "events"} : [sync EXCEPT !.phase = x] \in Sync
    BY <1>0 DEF Sync
  <1>1. CASE runtimeEvent
    <2>1. /\ native' = native + 1 /\ native' \in 0 .. MaxSequence
          /\ UNCHANGED <<session, sync, inflight, row, events>>
      BY <1>0, <1>1 DEF runtimeEvent, connectorVars
    <2>2. InflightTrue'
      BY <1>0, <2>1 DEF InflightTrue, Message
    <2>3. ProjectionTypeOK' /\ RowIsConsistent'
      BY <2>1 DEF ProjectionInv, ProjectionTypeOK, RowIsConsistent
    <2>4. row'.snapshot <= native'
      BY <1>0, <2>1 DEF ProjectionInv, ProjectionTypeOK
    <2>5. Promise!Happen
      BY <2>1 DEF Promise!Happen
    <2> QED
      BY <2>2, <2>3, <2>4, <2>5 DEF Kept, ProjectionInv, Promise!Next
  <1>2. CASE connect
    <2>1. FreshSync \in Sync
      BY <1>0 DEF FreshSync, Sync
    <2> QED
      BY <1>0, <1>2, <2>1, StutterKept DEF connect, InflightTrue
  <1>3. CASE syncSnapshot
    <2>0. sync' = [phase |-> "events", lastSnapshotSequence |-> native,
                   eventCursor |-> sync.eventCursor]
      BY <1>0, <1>3 DEF syncSnapshot, Sync
    <2>1. sync' \in Sync
      BY <1>0, <2>0 DEF Sync
    <2>2. SnapshotMessage(native) \in Message
      BY <1>0 DEF SnapshotMessage, Message
    <2>3. inflight' \subseteq inflight \cup {SnapshotMessage(native)}
      BY <1>3 DEF syncSnapshot
    <2>4. SnapshotMessage(native).last <= native /\ SnapshotMessage(native).kind = "snapshot"
      BY <1>0 DEF SnapshotMessage
    <2>5. inflight' \subseteq Message /\ InflightTrue'
      BY <1>0, <1>3, <2>2, <2>3, <2>4 DEF InflightTrue, syncSnapshot
    <2> QED
      BY <1>0, <1>3, <2>1, <2>5, StutterKept DEF syncSnapshot
  <1>4. CASE syncEvents
    <2> DEFINE m == EventsMessage(sync.eventCursor + 1, BatchEnd)
    <2>1. BatchEnd \in 0 .. MaxSequence /\ BatchEnd <= native /\ sync.eventCursor \in Nat
      BY <1>0, BatchEndType DEF ProjectionInv, Sync
    <2>2. sync' \in Sync
      BY <1>0, <1>4, <2>1 DEF syncEvents, Sync
    <2>3. CASE BatchEnd > sync.eventCursor
      <3>1. /\ m \in Message /\ m.kind = "events" /\ m.last <= native
            /\ 1 <= m.first /\ m.first <= m.last
        BY <1>0, <2>1, <2>3 DEF EventsMessage, Message
      <3>2. inflight' = inflight \cup {m} /\ native' = native
        BY <1>4, <2>3 DEF syncEvents
      <3>3. inflight' \subseteq Message /\ InflightTrue'
        BY <1>0, <3>1, <3>2 DEF InflightTrue
      <3> QED
        BY <1>0, <1>4, <2>2, <3>3, StutterKept DEF syncEvents
    <2>4. CASE ~(BatchEnd > sync.eventCursor)
      BY <1>0, <1>4, <2>2, <2>4, StutterKept DEF syncEvents, InflightTrue
    <2> QED
      BY <2>3, <2>4
  <1>5. CASE syncFails
    BY <1>0, <1>p, <1>5, StutterKept DEF syncFails, InflightTrue
  <1>6. CASE loseSocket
    <2>1. inflight' \subseteq inflight
      BY <1>6 DEF loseSocket
    <2>2. InflightTrue' /\ inflight' \subseteq Message
      BY <1>0, <1>6, <2>1 DEF loseSocket, InflightTrue
    <2> QED
      BY <1>0, <1>p, <1>6, <2>2, StutterKept DEF loseSocket, Off
  <1> QED
    BY <1>1, <1>2, <1>3, <1>4, <1>5, <1>6

LEMMA MessageSteps ==
    ASSUME ProjectionInv, NEW m \in inflight, Store(m) \/ failMessage(m)
    PROVE  Kept
  <1>0. /\ native \in 0 .. MaxSequence /\ session \in 0 .. MaxSessions /\ sync \in Sync
        /\ inflight \subseteq Message /\ InflightTrue /\ MaxSequence \in Nat
        /\ row.eventSequence = row.snapshot /\ row.snapshot <= native
        /\ row.snapshot \in -1 .. MaxSequence /\ events \subseteq 1 .. MaxSequence
    BY ProjectionAssumption
       DEF ProjectionAssumption, ProjectionInv, ProjectionTypeOK, RowIsConsistent
  <1>m. /\ m.first \in 0 .. MaxSequence /\ m.last \in 0 .. MaxSequence /\ m.last <= native
        /\ m.kind = "events" => 1 <= m.first /\ m.first <= m.last
    BY <1>0 DEF Message, InflightTrue
  <1>i. inflight' \subseteq inflight => inflight' \subseteq Message
    BY <1>0
  <1>1. CASE storeSnapshot(m)
    <2>1. /\ row' = Upserted(m.last) /\ inflight' = inflight \ {m}
          /\ UNCHANGED <<native, session, sync, events>>
      BY <1>1 DEF storeSnapshot, connectorVars
    <2>2. row' = row \/ (m.last > row.snapshot /\ row' = [eventSequence |-> m.last, snapshot |-> m.last])
      <3>1. row = [eventSequence |-> row.snapshot, snapshot |-> row.snapshot]
        BY <1>0 DEF ProjectionInv, ProjectionTypeOK
      <3>2. CASE m.last > row.snapshot
        BY <1>0, <1>m, <2>1, <3>2 DEF Upserted
      <3>3. CASE m.last = row.snapshot
        BY <1>0, <1>m, <2>1, <3>1, <3>3 DEF Upserted
      <3>4. CASE m.last < row.snapshot
        BY <1>0, <1>m, <2>1, <3>1, <3>4 DEF Upserted
      <3> QED
        BY <1>0, <1>m, <3>2, <3>3, <3>4
    <2>3. InflightTrue' /\ inflight' \subseteq Message
      BY <1>0, <2>1 DEF InflightTrue
    <2>4. CASE row' = row
      BY <1>0, <2>1, <2>3, <2>4, StutterKept
    <2>5. CASE /\ m.last > row.snapshot
               /\ row' = [eventSequence |-> m.last, snapshot |-> m.last]
      <3>1. /\ row' \in [eventSequence : -1 .. MaxSequence, snapshot : -1 .. MaxSequence]
            /\ row'.eventSequence = row'.snapshot /\ row'.snapshot = m.last
        BY <1>0, <1>m, <2>5
      <3>2. ProjectionTypeOK'
        BY <1>0, <2>1, <2>3, <3>1 DEF ProjectionTypeOK
      <3>3. row'.snapshot \in row.snapshot + 1 .. native
        BY <1>0, <1>m, <2>5, <3>1
      <3>4. Promise!Follow
        BY <2>1, <3>3 DEF Promise!Follow
      <3> QED
        BY <1>m, <2>1, <2>3, <3>1, <3>2, <3>4
           DEF Kept, ProjectionInv, RowIsConsistent, Promise!Next
    <2> QED
      BY <2>2, <2>4, <2>5
  <1>2. CASE storeEvents(m)
    <2>1. /\ m.kind = "events" /\ events' = events \cup m.first .. m.last
          /\ inflight' = inflight \ {m} /\ UNCHANGED <<native, session, sync, row>>
      BY <1>2 DEF storeEvents, connectorVars
    <2>2. events' \subseteq 1 .. MaxSequence
      <3>1. ASSUME NEW x \in m.first .. m.last PROVE x \in 1 .. MaxSequence
        BY <1>0, <1>m, <2>1, <3>1
      <3> QED
        BY <1>0, <2>1, <3>1
    <2>3. InflightTrue' /\ inflight' \subseteq Message
      BY <1>0, <2>1 DEF InflightTrue
    <2>4. ProjectionInv'
      BY <2>1, <2>2, <2>3 DEF ProjectionInv, ProjectionTypeOK, RowIsConsistent
    <2>5. m.first \in 1 .. native /\ m.last \in 1 .. native
      BY <1>0, <1>m, <2>1
    <2>6. Promise!Record
      BY <2>1, <2>5 DEF Promise!Record
    <2> QED
      BY <2>4, <2>6 DEF Kept, Promise!Next
  <1>3. CASE failMessage(m)
    <2>1. InflightTrue' /\ inflight' \subseteq Message
      BY <1>0, <1>3 DEF failMessage, InflightTrue
    <2>2. sync' \in Sync
      BY <1>0, <1>3 DEF failMessage, Off, Sync
    <2> QED
      BY <1>0, <1>3, <2>1, <2>2, StutterKept DEF failMessage
  <1> QED
    BY <1>1, <1>2, <1>3 DEF Store

LEMMA BoardSteps ==
    ASSUME BoardTypeOK, row.eventSequence \in -1 .. MaxSequence, Board
    PROVE  BoardTypeOK' /\ UNCHANGED projectionVars
  <1>1. ASSUME NEW i \in Installation, poll(i) \/ select(i) \/ commandDone(i)
        PROVE  BoardTypeOK' /\ UNCHANGED projectionVars
    BY <1>1 DEF BoardTypeOK, poll, select, commandDone, loadSnapshot
  <1>2. ASSUME NEW i \in Installation, answer(i)
        PROVE  BoardTypeOK' /\ UNCHANGED projectionVars
    <2>1. getSnapshot(i) \in View /\ None \in View
      BY ProjectionAssumption DEF ProjectionAssumption, getSnapshot, View
    <2> QED
      BY <1>2, <2>1 DEF BoardTypeOK, answer
  <1>3. ASSUME NEW v \in View, show(v)
        PROVE  BoardTypeOK' /\ UNCHANGED projectionVars
    BY <1>3 DEF BoardTypeOK, show
  <1>4. CASE pauseAttempt
    BY <1>4 DEF BoardTypeOK, pauseAttempt
  <1> QED
    BY <1>1, <1>2, <1>3, <1>4 DEF Board

LEMMA StepKept ==
    ASSUME BoardInv, [Next]_vars
    PROVE  BoardInv' /\ [Promise!Next]_(Promise!vars)
  <1>0. ProjectionInv
    BY DEF BoardInv, ProjectionInv
  <1>1. CASE ProjectionStep /\ UNCHANGED boardVars
    <2>1. Kept
      BY <1>0, <1>1, ConnectorSteps, MessageSteps DEF ProjectionStep
    <2>2. BoardTypeOK'
      BY <1>1 DEF boardVars, BoardInv, BoardTypeOK
    <2> QED
      BY <2>1, <2>2 DEF Kept, ProjectionInv, BoardInv
  <1>2. CASE Board \/ UNCHANGED vars
    <2>1. BoardTypeOK' /\ UNCHANGED projectionVars
      <3>1. CASE Board
        BY <3>1, BoardSteps DEF BoardInv, ProjectionTypeOK
      <3>2. CASE UNCHANGED vars
        BY <3>2 DEF vars, boardVars, BoardInv, BoardTypeOK
      <3> QED
        BY <1>2, <3>1, <3>2
    <2>2. UNCHANGED <<native, session, sync, inflight, row, events>>
      BY <2>1 DEF projectionVars, connectorVars
    <2>3. ProjectionInv' /\ UNCHANGED Promise!vars
      BY <1>0, <2>2 DEF ProjectionInv, ProjectionTypeOK, InflightTrue, RowIsConsistent, Promise!vars
    <2> QED
      BY <2>1, <2>3 DEF BoardInv, ProjectionInv
  <1> QED
    BY <1>1, <1>2 DEF Next

---------------------------------------------------------------------------
\* A step that takes nothing off the socket, whose cursors stay and whose
\* database only grows keeps the cursors honest.
LEMMA CursorUnmoved ==
    ASSUME CursorIsHonest, UNCHANGED session, inflight \subseteq inflight',
           sync'.phase # "off" =>
             /\ sync.phase # "off"
             /\ sync'.eventCursor = sync.eventCursor
             /\ sync'.lastSnapshotSequence = sync.lastSnapshotSequence,
           UNCHANGED <<row, events>>
    PROVE  CursorIsHonest'
  BY DEF CursorIsHonest, OnItsWay

LEMMA ConnectorHonest ==
    ASSUME ProjectionInv, CursorIsHonest,
           runtimeEvent \/ connect \/ syncSnapshot \/ syncEvents \/ syncFails \/ loseSocket
    PROVE  CursorIsHonest'
  <1>0. /\ native \in 0 .. MaxSequence /\ sync \in Sync /\ MaxSequence \in Nat
        /\ row.snapshot \in -1 .. MaxSequence /\ inflight \subseteq Message
    BY ProjectionAssumption DEF ProjectionAssumption, ProjectionInv, ProjectionTypeOK
  <1>p. \A x \in {"off", "snapshot", "events"} :
          [sync EXCEPT !.phase = x] = [phase |-> x, eventCursor |-> sync.eventCursor,
                                       lastSnapshotSequence |-> sync.lastSnapshotSequence]
    BY <1>0 DEF Sync
  <1>1. CASE runtimeEvent
    BY <1>1, CursorUnmoved DEF runtimeEvent, connectorVars
  <1>2. CASE connect
    <2>1. /\ sync'.eventCursor = 0 /\ sync'.lastSnapshotSequence = -1
          /\ row' = row
      BY <1>2 DEF connect, FreshSync
    <2> QED
      BY <1>0, <2>1 DEF CursorIsHonest
  <1>3. CASE syncSnapshot
    <2>1. /\ sync' = [phase |-> "events", lastSnapshotSequence |-> native,
                      eventCursor |-> sync.eventCursor]
          /\ sync.phase # "off" /\ UNCHANGED <<session, row, events>>
      BY <1>0, <1>3 DEF syncSnapshot, Sync
    <2>2. inflight \subseteq inflight'
      BY <1>3 DEF syncSnapshot
    <2>3. \A s \in 1 .. sync'.eventCursor : s \in events' \/ OnItsWay("events", s)'
      BY <2>1, <2>2 DEF CursorIsHonest, OnItsWay
    <2>4. CASE native = sync.lastSnapshotSequence
      BY <2>1, <2>2, <2>3, <2>4 DEF CursorIsHonest, OnItsWay
    <2>5. CASE native # sync.lastSnapshotSequence
      <3> DEFINE m == SnapshotMessage(native)
      <3>1. m \in inflight' /\ m.session = session' /\ m.kind = "snapshot"
        BY <1>3, <2>1, <2>5 DEF syncSnapshot, SnapshotMessage
      <3>2. native \in m.first .. m.last
        BY <1>0 DEF SnapshotMessage
      <3>3. OnItsWay("snapshot", sync.lastSnapshotSequence)'
        BY <2>1, <3>1, <3>2 DEF OnItsWay
      <3> QED
        BY <2>3, <3>3 DEF CursorIsHonest
    <2> QED
      BY <2>4, <2>5
  <1>4. CASE syncEvents
    <2> DEFINE m == EventsMessage(sync.eventCursor + 1, BatchEnd)
    <2>1. /\ sync' = [phase |-> "snapshot", eventCursor |-> BatchEnd,
                      lastSnapshotSequence |-> sync.lastSnapshotSequence]
          /\ sync.phase # "off" /\ UNCHANGED <<session, row, events>>
          /\ inflight \subseteq inflight'
          /\ BatchEnd > sync.eventCursor => m \in inflight'
      BY <1>0, <1>4 DEF syncEvents, Sync
    <2>2. BatchEnd \in Nat /\ sync.eventCursor \in Nat
      BY <1>0, BatchEndType DEF ProjectionInv, Sync
    <2>3. \/ sync'.lastSnapshotSequence <= row'.snapshot
          \/ OnItsWay("snapshot", sync.lastSnapshotSequence)'
      BY <2>1 DEF CursorIsHonest, OnItsWay
    <2>4. ASSUME NEW s \in 1 .. BatchEnd PROVE s \in events' \/ OnItsWay("events", s)'
      <3>1. CASE s <= sync.eventCursor
        BY <2>1, <2>2, <2>4, <3>1 DEF CursorIsHonest, OnItsWay
      <3>2. CASE s > sync.eventCursor
        <4>1. BatchEnd > sync.eventCursor /\ s \in m.first .. m.last
          BY <2>2, <2>4, <3>2 DEF EventsMessage
        <4>2. m \in inflight' /\ m.session = session' /\ m.kind = "events"
          BY <2>1, <4>1 DEF EventsMessage
        <4> QED
          BY <4>1, <4>2 DEF OnItsWay
      <3> QED
        BY <2>2, <2>4, <3>1, <3>2
    <2> QED
      BY <2>1, <2>3, <2>4 DEF CursorIsHonest
  <1>5. CASE syncFails
    BY <1>p, <1>5, CursorUnmoved DEF syncFails
  <1>6. CASE loseSocket
    BY <1>p, <1>6 DEF loseSocket, Off, CursorIsHonest
  <1> QED
    BY <1>1, <1>2, <1>3, <1>4, <1>5, <1>6

LEMMA MessageHonest ==
    ASSUME ProjectionInv, CursorIsHonest, NEW m \in inflight, Store(m) \/ failMessage(m)
    PROVE  CursorIsHonest'
  <1>0. /\ sync \in Sync /\ inflight \subseteq Message /\ MaxSequence \in Nat
        /\ row.eventSequence = row.snapshot /\ row.snapshot \in -1 .. MaxSequence
        /\ m.first \in 0 .. MaxSequence /\ m.last \in 0 .. MaxSequence
    BY ProjectionAssumption DEF ProjectionAssumption, ProjectionInv, ProjectionTypeOK,
       RowIsConsistent, Message
  <1>s. sync.lastSnapshotSequence \in -1 .. MaxSequence
    BY <1>0 DEF Sync
  <1>1. CASE storeSnapshot(m)
    <2>1. /\ row' = Upserted(m.last) /\ inflight' = inflight \ {m} /\ m.kind = "snapshot"
          /\ UNCHANGED <<session, sync, events>>
      BY <1>1 DEF storeSnapshot, connectorVars
    <2>2. row'.snapshot >= row.snapshot /\ row'.snapshot >= m.last
      BY <1>0, <2>1 DEF Upserted
    <2>3. \A s : OnItsWay("events", s) => OnItsWay("events", s)'
      BY <2>1 DEF OnItsWay
    <2>4. ASSUME OnItsWay("snapshot", sync.lastSnapshotSequence)
          PROVE  \/ sync'.lastSnapshotSequence <= row'.snapshot
                 \/ OnItsWay("snapshot", sync.lastSnapshotSequence)'
      <3>1. PICK n \in inflight : /\ n.session = session /\ n.kind = "snapshot"
                                  /\ sync.lastSnapshotSequence \in n.first .. n.last
        BY <2>4 DEF OnItsWay
      <3>2. CASE n = m
        <4>1. sync.lastSnapshotSequence <= m.last
          BY <1>0, <1>s, <3>1, <3>2
        <4>2. row'.snapshot \in Int
          BY <1>0, <2>1 DEF Upserted
        <4> QED
          BY <1>0, <1>s, <2>1, <2>2, <4>1, <4>2
      <3>3. CASE n # m
        BY <2>1, <3>1, <3>3 DEF OnItsWay
      <3> QED
        BY <3>2, <3>3
    <2>5. sync.lastSnapshotSequence <= row.snapshot => sync'.lastSnapshotSequence <= row'.snapshot
      <3>1. row'.snapshot \in Int
        BY <1>0, <2>1 DEF Upserted
      <3> QED
        BY <1>0, <1>s, <2>1, <2>2, <3>1
    <2> QED
      BY <2>1, <2>3, <2>4, <2>5 DEF CursorIsHonest
  <1>2. CASE storeEvents(m)
    <2>1. /\ events' = events \cup m.first .. m.last /\ inflight' = inflight \ {m}
          /\ m.kind = "events" /\ UNCHANGED <<session, sync, row>>
      BY <1>2 DEF storeEvents, connectorVars
    <2>2. ASSUME NEW s, s \in events \/ OnItsWay("events", s)
          PROVE  s \in events' \/ OnItsWay("events", s)'
      BY <2>1, <2>2 DEF OnItsWay
    <2>3. \A s : OnItsWay("snapshot", s) => OnItsWay("snapshot", s)'
      BY <2>1 DEF OnItsWay
    <2> QED
      BY <2>1, <2>2, <2>3 DEF CursorIsHonest
  <1>3. CASE failMessage(m)
    <2>1. /\ inflight' = inflight \ {m} /\ UNCHANGED <<session, row, events>>
          /\ sync' = IF m.session = session THEN Off ELSE sync
      BY <1>3 DEF failMessage
    <2>2. CASE m.session = session
      <3>1. sync'.phase = "off"
        BY <1>0, <2>1, <2>2 DEF Off, Sync
      <3> QED
        BY <3>1 DEF CursorIsHonest
    <2>3. CASE m.session # session
      BY <2>1, <2>3 DEF CursorIsHonest, OnItsWay
    <2> QED
      BY <2>2, <2>3
  <1> QED
    BY <1>1, <1>2, <1>3 DEF Store

LEMMA HonestKept ==
    ASSUME BoardInv, CursorIsHonest, [Next]_vars
    PROVE  CursorIsHonest'
  <1>1. ProjectionInv
    BY DEF BoardInv, ProjectionInv
  <1>2. CASE ProjectionStep
    BY <1>1, <1>2, ConnectorHonest, MessageHonest DEF ProjectionStep
  <1>3. CASE Board \/ UNCHANGED vars
    <2>1. UNCHANGED <<session, sync, inflight, row, events>>
      BY <1>1, <1>3, BoardSteps
         DEF BoardInv, ProjectionTypeOK, vars, projectionVars, connectorVars
    <2> QED
      BY <2>1 DEF CursorIsHonest, OnItsWay
  <1> QED
    BY <1>2, <1>3 DEF Next

---------------------------------------------------------------------------
LEMMA BoardHolds == Spec => []BoardInv
  BY BoardStarts, StepKept, PTL DEF Spec

(***************************************************************************)
(* Every variable of the projection and of the board keeps its type: no    *)
(* message and no event lies beyond what the Runtime has done.             *)
(***************************************************************************)
THEOREM BoardTypeCorrect == Spec => []TypeOK
  <1>1. BoardInv => TypeOK
    BY DEF BoardInv, ProjectionTypeOK, BoardTypeOK, TypeOK
  <1> QED
    BY <1>1, BoardHolds, PTL

(***************************************************************************)
(* The stored sequence is that of the stored snapshot, in whatever order   *)
(* snapshots arrive.                                                       *)
(***************************************************************************)
THEOREM RowsAreConsistent == Spec => []RowIsConsistent
  <1>1. BoardInv => RowIsConsistent
    BY DEF BoardInv
  <1> QED
    BY <1>1, BoardHolds, PTL

(***************************************************************************)
(* A connection that holds skips nothing: what its cursors have passed is  *)
(* stored or on its way, whatever was lost before, for any batch size.     *)
(***************************************************************************)
THEOREM CursorsAreHonest == Spec => []CursorIsHonest
  <1>1. Init => CursorIsHonest
    BY DEF Init, ProjectionInit, CursorIsHonest
  <1> QED
    BY <1>1, BoardHolds, HonestKept, PTL DEF Spec

(***************************************************************************)
(* Handlers that finish in any order, lost messages and reconnections      *)
(* implement a projection that trails the Runtime and never goes back.     *)
(***************************************************************************)
THEOREM ProjectionImplemented == Spec => ImplementsProjection
  <1>1. Init => Promise!Init
    BY DEF Init, ProjectionInit, Promise!Init
  <1> QED
    BY <1>1, BoardHolds, StepKept, PTL DEF Spec, ImplementsProjection, Promise!Spec
=============================================================================
