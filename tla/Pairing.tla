------------------------------- MODULE Pairing -------------------------------
(***************************************************************************)
(* Pairing a connector: createPairingCode and consumePairingCode            *)
(* (packages/database/src/repository.ts), their routes                      *)
(* (apps/api/src/app.ts), and the connector, which asks once, waits 15 s    *)
(* and stores what it is answered (apps/connector/src/index.ts, state.ts).  *)
(* A request stands for the device token made for it.                       *)
(***************************************************************************)
EXTENDS RateLimiter, FiniteSets

CONSTANTS
  Installation,
  Device,         \* a connector with its Runtime
  Code,           \* pairing codes; a code is made once (random)
  Request,        \* pairing requests
  None

ASSUME PairingAssumption == None \notin Request /\ None \notin Installation

VARIABLES
  creation,       \* creation[k]: the request that makes code k
  row,            \* row[k]: code k in pairing_codes
  lock,           \* lock[k]: the request whose transaction locked the row
  request,        \* request[r]: its phase, device and code
  credentials,    \* credentials[i][d]: the live token, a request
  device,         \* device[d]: what it asks and the token it has stored
  sideBySide      \* history: installations two codes were made for at once

codeVars == <<creation, row>>
requestVars == <<lock, request, credentials>>
vars == <<limiterVars, codeVars, requestVars, device, sideBySide>>

\* deleting and inserting: the two statements of createPairingCode; shown: the
\* user has the code.  `seen' are the rows the DELETE found when it started.
Creation == [phase : {"none", "deleting", "inserting", "shown", "lost"},
             installation : Installation \cup {None}, seen : SUBSET Code]

PairRequest == [phase : {"none", "sent", "select", "write", "paired", "failed"},
                device : Device \cup {None}, code : Code \cup {None}]

Init ==
  /\ LimiterInit
  /\ creation = [k \in Code |-> [phase |-> "none", installation |-> None, seen |-> {}]]
  /\ row = [k \in Code |-> "absent"]
  /\ lock = [k \in Code |-> None]
  /\ request = [r \in Request |-> [phase |-> "none", device |-> None, code |-> None]]
  /\ credentials = [i \in Installation |-> [d \in Device |-> None]]
  /\ device = [d \in Device |-> [asking |-> None, token |-> None]]
  /\ sideBySide = {}

CodesOf(i) == {k \in Code : creation[k].installation = i}

-----------------------------------------------------------------------------
\* createPairingCode

\* The DELETE starts: it will delete what is unconsumed now.
createPairingCode(k, i) ==
  /\ creation[k].phase = "none"
  /\ creation' = [creation EXCEPT ![k] =
       [phase |-> "deleting", installation |-> i,
        seen |-> {q \in CodesOf(i) : row[q] = "unconsumed"}]]
  /\ sideBySide' = IF \E q \in CodesOf(i) : creation[q].phase \in {"deleting", "inserting"}
                   THEN sideBySide \cup {i} ELSE sideBySide
  /\ UNCHANGED <<limiterVars, row, requestVars, device>>

\* It waits for rows that are locked, and leaves those consumed meanwhile.
deleteUnconsumed(k) ==
  /\ creation[k].phase = "deleting"
  /\ \A q \in creation[k].seen : lock[q] = None
  /\ row' = [q \in Code |->
       IF q \in creation[k].seen /\ row[q] = "unconsumed" THEN "absent" ELSE row[q]]
  /\ creation' = [creation EXCEPT ![k].phase = "inserting", ![k].seen = {}]
  /\ UNCHANGED <<limiterVars, requestVars, device, sideBySide>>

insertCode(k) ==
  /\ creation[k].phase = "inserting"
  /\ row' = [row EXCEPT ![k] = "unconsumed"]
  /\ creation' = [creation EXCEPT ![k].phase = "shown"]
  /\ UNCHANGED <<limiterVars, requestVars, device, sideBySide>>

\* A statement fails, or the API process dies.
abandonCode(k) ==
  /\ creation[k].phase \in {"deleting", "inserting"}
  /\ creation' = [creation EXCEPT ![k].phase = "lost", ![k].seen = {}]
  /\ UNCHANGED <<limiterVars, row, requestVars, device, sideBySide>>

-----------------------------------------------------------------------------
\* The connector

\* pair: a connector without state asks.
pair(d, r, k) ==
  /\ device[d].token = None /\ device[d].asking = None
  /\ request[r].phase = "none"
  /\ creation[k].phase = "shown"
  /\ request' = [request EXCEPT ![r] = [phase |-> "sent", device |-> d, code |-> k]]
  /\ device' = [device EXCEPT ![d].asking = r]
  /\ UNCHANGED <<limiterVars, codeVars, lock, credentials, sideBySide>>

\* The answer arrives in time: writeConnectorState.
storeToken(d) ==
  LET r == device[d].asking IN
  /\ r # None
  /\ request[r].phase = "paired"
  /\ device' = [device EXCEPT ![d] = [asking |-> None, token |-> r]]
  /\ UNCHANGED <<limiterVars, codeVars, requestVars, sideBySide>>

\* Refused, timed out, or the connector dies before the file is written; it is
\* started again without state.  The API knows nothing of it.
giveUp(d) ==
  /\ device[d].asking # None
  /\ device' = [device EXCEPT ![d].asking = None]
  /\ UNCHANGED <<limiterVars, codeVars, requestVars, sideBySide>>

-----------------------------------------------------------------------------
\* The pairing route and consumePairingCode

\* An attempt with something that is no code: it only counts.
guess == consume /\ UNCHANGED <<codeVars, requestVars, device, sideBySide>>

\* The route asks the limiter; 429.
admit(r) ==
  /\ request[r].phase = "sent"
  /\ consume
  /\ request' = [request EXCEPT ![r].phase = IF Within THEN "select" ELSE "failed"]
  /\ UNCHANGED <<codeVars, lock, credentials, device, sideBySide>>

\* SELECT without FOR UPDATE.
ReadOnly(r) == row[request[r].code] = "unconsumed" /\ UNCHANGED lock

\* SELECT ... FOR UPDATE of an unconsumed code waits for whoever locked it.
LockedRead(r) ==
  LET k == request[r].code IN
  /\ row[k] = "unconsumed" /\ lock[k] = None
  /\ lock' = [lock EXCEPT ![k] = r]

selectCode(r) ==
  /\ request[r].phase = "select"
  /\ LockedRead(r)
  /\ request' = [request EXCEPT ![r].phase = "write"]
  /\ UNCHANGED <<limiterVars, codeVars, credentials, device, sideBySide>>

\* No row: consumed, deleted, or expired.  Expiry is judged by the clock of the
\* API when the statement was sent, so it is left open here.
refuseCode(r) ==
  /\ request[r].phase = "select"
  /\ lock[request[r].code] = None
  /\ request' = [request EXCEPT ![r].phase = "failed"]
  /\ UNCHANGED <<limiterVars, codeVars, lock, credentials, device, sideBySide>>

\* A connection that goes back to the pool with its transaction open.
StaysLocked(r) == lock

\* What COMMIT and ROLLBACK release.
Released(r) == [k \in Code |-> IF lock[k] = r THEN None ELSE lock[k]]

\* The UPDATE of the code, the upsert of the credential, which replaces the
\* token of this installation and Runtime, and COMMIT.
pairConnector(r) ==
  LET k == request[r].code IN
  /\ request[r].phase = "write"
  /\ row' = [row EXCEPT ![k] = IF @ = "unconsumed" THEN "consumed" ELSE @]
  /\ credentials' = [credentials EXCEPT ![creation[k].installation][request[r].device] = r]
  /\ request' = [request EXCEPT ![r].phase = "paired"]
  /\ lock' = Released(r)
  /\ UNCHANGED <<limiterVars, creation, device, sideBySide>>

\* The UPDATE without a transaction around it.
ConsumesAlone(r) == row' = [row EXCEPT ![request[r].code] = "consumed"]

\* ROLLBACK undoes the UPDATE.
Undoes(r) == UNCHANGED row

\* A statement of the transaction fails, or the API process dies.
rollback(r) ==
  /\ request[r].phase = "write"
  /\ Undoes(r)
  /\ request' = [request EXCEPT ![r].phase = "failed"]
  /\ lock' = Released(r)
  /\ UNCHANGED <<limiterVars, creation, credentials, device, sideBySide>>

-----------------------------------------------------------------------------
passTime == tick /\ UNCHANGED <<codeVars, requestVars, device, sideBySide>>

MakeCode(k) ==
  \/ \E i \in Installation : createPairingCode(k, i)
  \/ deleteUnconsumed(k) \/ insertCode(k) \/ abandonCode(k)

Connector(d) ==
  \/ \E r \in Request, k \in Code : pair(d, r, k)
  \/ storeToken(d) \/ giveUp(d)

\* The statements of the two routes, which end in one way or another.
Consume(r) == selectCode(r) \/ refuseCode(r) \/ pairConnector(r) \/ rollback(r)

Next ==
  \/ \E k \in Code : MakeCode(k)
  \/ \E d \in Device : Connector(d)
  \/ \E r \in Request : admit(r) \/ Consume(r)
  \/ guess
  \/ passTime

Spec == Init /\ [][Next]_vars

\* Statements return; a waiting one returns once nobody holds the lock, and a
\* request that waits again and again is served.
Fairness ==
  /\ \A r \in Request : SF_vars(Consume(r))
  /\ \A k \in Code : SF_vars(deleteUnconsumed(k)) /\ WF_vars(insertCode(k))

FairSpec == Spec /\ Fairness

-----------------------------------------------------------------------------
\* Properties

TypeOK ==
  /\ LimiterTypeOK
  /\ creation \in [Code -> Creation]
  /\ row \in [Code -> {"absent", "unconsumed", "consumed"}]
  /\ lock \in [Code -> Request \cup {None}]
  /\ request \in [Request -> PairRequest]
  /\ credentials \in [Installation -> [Device -> Request \cup {None}]]
  /\ device \in [Device -> [asking : Request \cup {None}, token : Request \cup {None}]]
  /\ sideBySide \subseteq Installation

Paired(r) == request[r].phase = "paired"

\* Two requests with one code, a code replaced while it is used, a transaction
\* that fails half way: a consumed code paired one connector, and whoever was
\* paired consumed a code of its own.
CodePairsOnce ==
  /\ \A r, q \in Request : Paired(r) /\ Paired(q) /\ request[r].code = request[q].code => r = q
  /\ \A k \in Code : row[k] = "consumed" <=> \E r \in Request : Paired(r) /\ request[r].code = k

Status(k) ==
  IF row[k] = "unconsumed" THEN "valid"
  ELSE IF row[k] = "consumed" THEN "used"
  ELSE IF creation[k].phase = "shown" THEN "revoked" ELSE "unmade"

\* Two statements to make a code, a transaction of three to use it, requests
\* that wait for each other, fail or are given up: seen from outside, a code is
\* made, and then revoked or used, once and in one step with its credential.
OneTime == INSTANCE OneTimeCodes WITH
  status <- [k \in Code |-> Status(k)],
  madeFor <- [k \in Code |->
    IF creation[k].phase = "shown" THEN creation[k].installation ELSE None],
  users <- [k \in Code |-> {r \in Request : Paired(r) /\ request[r].code = k}]

ImplementsOneTime == OneTime!Spec

\* A pairing the connector gave up may still be on its way when it is paired
\* again.  As long as the user asks for one code at a time, it cannot replace
\* the token the connector has stored: its code is deleted before the next one
\* is made, or the deletion waits for it.
StoredTokenIsLive == \A d \in Device :
  LET r == device[d].token IN r # None =>
    LET i == creation[request[r].code].installation IN
    i \in sideBySide \/ credentials[i][d] = r

\* Nobody waits for ever for a row that is locked: a request that was admitted
\* is answered, and a code that is asked for is made, or its request fails.
PairingEnds ==
  /\ \A r \in Request : request[r].phase = "select" ~> request[r].phase \in {"paired", "failed"}
  /\ \A k \in Code : creation[k].phase = "deleting" ~> creation[k].phase \in {"shown", "lost"}
=============================================================================
