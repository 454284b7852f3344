----------------------------- MODULE OneTimeCodes -----------------------------
(***************************************************************************)
(* What the hub promises about pairing codes (docs/THREAT_MODEL.md:        *)
(* "one-time ... consumed transactionally"), without locks, statements or  *)
(* requests that fail: a code is made for one installation; while it is    *)
(* valid it is revoked, or used by one request, which was paired with no   *)
(* other; using it and replacing the credential are one step, and nothing  *)
(* else makes a credential.                                                *)
(***************************************************************************)
CONSTANTS Code, Request, Installation, Device, None

VARIABLES
  status,       \* status[k]: unmade, valid, revoked or used
  madeFor,      \* madeFor[k]: the installation code k pairs with
  users,        \* users[k]: the requests paired with code k
  credentials   \* credentials[i][d]: the live token, a request

vars == <<status, madeFor, users, credentials>>

Init ==
  /\ status = [k \in Code |-> "unmade"]
  /\ madeFor = [k \in Code |-> None]
  /\ users = [k \in Code |-> {}]
  /\ credentials = [i \in Installation |-> [d \in Device |-> None]]

Make(k, i) ==
  /\ status[k] = "unmade"
  /\ status' = [status EXCEPT ![k] = "valid"]
  /\ madeFor' = [madeFor EXCEPT ![k] = i]
  /\ UNCHANGED <<users, credentials>>

Revoke(S) ==
  /\ \A k \in S : status[k] = "valid"
  /\ status' = [k \in Code |-> IF k \in S THEN "revoked" ELSE status[k]]
  /\ UNCHANGED <<madeFor, users, credentials>>

Use(k, r, d) ==
  /\ status[k] = "valid" /\ \A q \in Code : r \notin users[q]
  /\ status' = [status EXCEPT ![k] = "used"]
  /\ users' = [users EXCEPT ![k] = {r}]
  /\ credentials' = [credentials EXCEPT ![madeFor[k]][d] = r]
  /\ UNCHANGED madeFor

Next ==
  \/ \E k \in Code, i \in Installation : Make(k, i)
  \/ \E S \in SUBSET Code : Revoke(S)
  \/ \E k \in Code, r \in Request, d \in Device : Use(k, r, d)

Spec == Init /\ [][Next]_vars
=============================================================================
