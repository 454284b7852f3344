------------------------------ MODULE Presence ------------------------------
(***************************************************************************)
(* PresenceStore (packages/relay/src/index.ts): one Redis key per           *)
(* installation that names a connection and expires.  `offline' is a GET    *)
(* and, if the answer is the caller's own id, a DEL in a second call.       *)
(***************************************************************************)
EXTENDS Integers

CONSTANTS
  Installation,
  Conn,           \* connection ids; an id is used once (randomUUID)
  PresenceTtl,    \* PRESENCE_TTL_SECONDS, in ticks of the clock
  None

ASSUME PresenceAssumption == PresenceTtl \in Nat \ {0} /\ None \notin Conn

VARIABLES
  presence,       \* presence[i]: what the key names, and the ticks it has left
  removing,       \* <<i, c>>: offline(i, c) has read its own id, DEL is to come
  silent          \* history: ticks since c was last recorded, up to PresenceTtl

\* What a recording changes.
keyVars == <<presence, silent>>
presenceVars == <<keyVars, removing>>

\* A key that does not exist.
NoKey == [conn |-> None, left |-> 0]

PresenceInit ==
  /\ presence = [i \in Installation |-> NoKey]
  /\ removing = {}
  /\ silent = [c \in Conn |-> PresenceTtl]

isOnline(i) == presence[i].conn # None

\* A SET without expiry: a key for ever.
setForever(i, c) == presence' = [presence EXCEPT ![i] = [conn |-> c, left |-> 0]]

\* An expiry counted in another unit.
setTooLong(i, c) ==
  presence' = [presence EXCEPT ![i] = [conn |-> c, left |-> PresenceTtl * 1000]]

\* An expiry no longer than the interval of the heartbeats.
setTooShort(i, c) ==
  presence' = [presence EXCEPT ![i] = [conn |-> c, left |-> PresenceTtl - 1]]

\* SET ... NX: a key that exists is left as it is, with its expiry.
setIfAbsent(i, c) ==
  presence' = IF isOnline(i) THEN presence
              ELSE [presence EXCEPT ![i] = [conn |-> c, left |-> PresenceTtl]]

\* SET key connectionId EX ttl.
set(i, c) ==
  presence' = [presence EXCEPT ![i] = [conn |-> c, left |-> PresenceTtl]]

online(i, c) == set(i, c) /\ silent' = [silent EXCEPT ![c] = 0]

\* GET: Redis answers one process in the order of its calls, so the GET is
\* placed at the moment the caller issues it.
readOffline(i, c) ==
  removing' = IF presence[i].conn = c THEN removing \cup {<<i, c>>} ELSE removing

\* DEL: whatever the key names by now.
RemoveKey(i, c) ==
  /\ <<i, c>> \in removing
  /\ presence' = [presence EXCEPT ![i] = NoKey]
  /\ removing' = removing \ {<<i, c>>}
  /\ UNCHANGED silent

\* A tick of Redis' clock.
Age ==
  /\ presence' = [i \in Installation |->
       CASE presence[i].left = 1 -> NoKey
         [] presence[i].left > 1 -> [presence[i] EXCEPT !.left = @ - 1]
         [] OTHER -> presence[i]]
  /\ silent' = [c \in Conn |-> IF silent[c] < PresenceTtl THEN silent[c] + 1 ELSE silent[c]]
  /\ UNCHANGED removing

PresenceTypeOK ==
  /\ presence \in [Installation -> [conn : Conn \cup {None}, left : 0 .. PresenceTtl]]
  /\ removing \subseteq Installation \X Conn
  /\ silent \in [Conn -> 0 .. PresenceTtl]
=============================================================================
