------------------------------ MODULE WebBoard ------------------------------
(***************************************************************************)
(* The web board (apps/web/app/page.tsx) reading the projection through the *)
(* API: loadSnapshot is called by a timer, on a change of the selection and *)
(* when a command is done, always with the installation its closure was     *)
(* made for; answers arrive in any order.  The Runtime of RuntimeProjection *)
(* is paired with installation Paired, the others have no snapshot.         *)
(***************************************************************************)
EXTENDS RuntimeProjection, FiniteSets

CONSTANTS
  Installation,
  Paired,         \* the installation the Runtime is paired with
  MaxLoads,       \* bound: loadSnapshot calls in flight
  None

ASSUME BoardAssumption ==
  Paired \in Installation /\ None \notin Installation /\ MaxLoads \in Nat

VARIABLES
  selectedId,     \* the installation the user selected
  snapshot,       \* the state of the board: what it shows
  requested,      \* installations a loadSnapshot call has been sent for
  answered,       \* answers of the API on their way to the board
  waiting         \* installations a command was accepted for and is awaited

boardVars == <<selectedId, snapshot, requested, answered, waiting>>
vars == <<projectionVars, boardVars>>

\* A snapshot as the API answers it, or None: 404, or no answer.
View == [installation : Installation, eventSequence : 0 .. MaxSequence] \cup {None}

Init ==
  /\ ProjectionInit
  /\ selectedId = Paired
  /\ snapshot = None
  /\ requested = {} /\ answered = {}
  /\ waiting = {}

\* loadSnapshot of the closure made for installation i; of two calls that are
\* under way for one installation the second is left out.
loadSnapshot(i) ==
  /\ Cardinality(requested) + Cardinality(answered) < MaxLoads
  /\ requested' = requested \cup {i}

\* The effect of loadSnapshot without its clean-up: old timers go on.
HasAnyTimer(i) == TRUE

\* The effect of loadSnapshot: one timer, of the current closure.
HasTimer(i) == i = selectedId

poll(i) ==
  /\ HasTimer(i)
  /\ loadSnapshot(i)
  /\ UNCHANGED <<projectionVars, selectedId, snapshot, answered, waiting>>

\* The user selects another installation: what is shown stays, a load starts.
select(i) ==
  /\ i # selectedId
  /\ selectedId' = i
  /\ loadSnapshot(i)
  /\ UNCHANGED <<projectionVars, snapshot, answered, waiting>>

\* getSnapshot, or 404 while there is none.
getSnapshot(i) ==
  IF i = Paired /\ row.eventSequence >= 0
  THEN [installation |-> i, eventSequence |-> row.eventSequence] ELSE None

\* The API answers; or the request fails, which the board treats like 404.
answer(i) ==
  /\ i \in requested
  /\ requested' = requested \ {i}
  /\ \E v \in {getSnapshot(i), None} : answered' = answered \cup {v}
  /\ UNCHANGED <<projectionVars, selectedId, snapshot, waiting>>

\* setSnapshot with whatever arrives.
show(v) ==
  /\ v \in answered
  /\ snapshot' = v
  /\ answered' = answered \ {v}
  /\ UNCHANGED <<projectionVars, selectedId, requested, waiting>>

\* assertRuntimeOwner: the Runtime of the command is paired with installation i.
assertRuntimeOwner(i) == i = Paired

\* pauseAttempt: the selected installation, with the Runtime that is shown,
\* which after a change of the selection may be another installation's.
pauseAttempt ==
  /\ snapshot # None
  /\ assertRuntimeOwner(selectedId)
  /\ waiting' = waiting \cup {selectedId}
  /\ UNCHANGED <<projectionVars, selectedId, snapshot, requested, answered>>

\* waitForCommand is done: it loads once more, for the installation it knew.
commandDone(i) ==
  /\ i \in waiting
  /\ waiting' = waiting \ {i}
  /\ loadSnapshot(i)
  /\ UNCHANGED <<projectionVars, selectedId, snapshot, answered>>

Board ==
  \/ \E i \in Installation : poll(i) \/ select(i) \/ answer(i) \/ commandDone(i)
  \/ \E v \in View : show(v)
  \/ pauseAttempt

Next == (ProjectionStep /\ UNCHANGED boardVars) \/ Board

Spec == Init /\ [][Next]_vars

\* Timers fire, the connector reconnects and polls, statements and requests
\* return, and a Runtime that is asked again and again answers.  Nothing is
\* asked of the user.
Fairness ==
  /\ WF_vars((connect \/ syncSnapshot) /\ UNCHANGED boardVars)
  /\ SF_vars(syncEvents /\ UNCHANGED boardVars)
  /\ WF_vars((\E m \in inflight : Store(m)) /\ UNCHANGED boardVars)
  /\ \A i \in Installation : WF_vars(poll(i)) /\ WF_vars(answer(i))
  /\ \A v \in View : WF_vars(show(v))

FairSpec == Spec /\ Fairness

-----------------------------------------------------------------------------
\* Properties

TypeOK ==
  /\ native \in 0 .. MaxSequence
  /\ session \in 0 .. MaxSessions
  /\ sync \in Sync
  /\ inflight \subseteq Message
  /\ row \in [eventSequence : -1 .. MaxSequence, snapshot : -1 .. MaxSequence]
  /\ events \subseteq 1 .. MaxSequence
  /\ selectedId \in Installation
  /\ snapshot \in View
  /\ requested \subseteq Installation /\ answered \subseteq View
  /\ waiting \subseteq Installation

\* The stored sequence is the one of the stored snapshot, although the
\* statement chooses them separately.
RowIsConsistent == row.eventSequence = row.snapshot

\* Handlers of one socket, and of an old and a new socket, finish in any order:
\* the stored snapshot trails the Runtime and never goes back, events that were
\* stored stay.
Promise == INSTANCE Projection WITH shown <- row.snapshot, recorded <- events

ImplementsProjection == Promise!Spec

\* Sent on the socket of the current connection and not handled yet.
OnItsWay(kind, s) ==
  \E m \in inflight : m.session = session /\ m.kind = kind /\ s \in m.first .. m.last

\* The cursors run ahead of the database: they move when a message is sent, and
\* nobody takes them back when its statement fails.  Yet a connection that holds
\* skips nothing: what its cursors have passed is stored, or still on the way to
\* a handler that ends the connection if it cannot store it.
CursorIsHonest == sync.phase # "off" =>
  /\ \A s \in 1 .. sync.eventCursor : s \in events \/ OnItsWay("events", s)
  /\ \/ sync.lastSnapshotSequence <= row.snapshot
     \/ OnItsWay("snapshot", sync.lastSnapshotSequence)

\* The cursor moves when a batch is sent.  A batch that is lost is sent again
\* on the next connection: once the connection holds, the database has the
\* Runtime's last snapshot and every event.
ProjectionCatchesUp == <>[](row.snapshot = native /\ events = 1 .. native)

\* A late answer, or one for the installation selected before, is overwritten:
\* what the board goes on showing is the selected installation as it is.
BoardSettles == \A i \in Installation : <>[](selectedId = i) =>
  <>[](snapshot # None => snapshot = [installation |-> i, eventSequence |-> native])
=============================================================================
