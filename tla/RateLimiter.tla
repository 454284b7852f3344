----------------------------- MODULE RateLimiter -----------------------------
(***************************************************************************)
(* FixedWindowRateLimiter (packages/relay/src/index.ts) for one key, the    *)
(* client address of a pairing request: a Lua script that Redis runs at     *)
(* once.  `accepted' is a history variable.                                 *)
(***************************************************************************)
EXTENDS Integers, Sequences

CONSTANTS
  Limit,          \* attempts of a window: 10
  Window,         \* windowSeconds, in ticks of the clock: 60
  MaxTime,        \* bound: the clock
  MaxCount        \* bound: calls counted in a window

ASSUME LimiterAssumption ==
  /\ Limit \in Nat \ {0} /\ Window \in Nat \ {0}
  /\ MaxTime \in Nat /\ MaxCount \in Nat

VARIABLES
  now,
  rate,           \* the key: its count and the time it expires
  accepted        \* the accepted calls: when, in which window, as which of it

limiterVars == <<now, rate, accepted>>

LimiterInit ==
  /\ now = 0
  /\ rate = [count |-> 0, expiresAt |-> 0]
  /\ accepted = <<>>

\* INCR: a key that has expired, or never was, counts from 1.
Current == (IF now < rate.expiresAt THEN rate.count ELSE 0) + 1

\* EXPIRE by every call: a refused one prolongs the refusal.
ExpiresEachCall == now + Window

\* EXPIRE by the first call of a window only.
ExpiresAt == IF Current = 1 THEN now + Window ELSE rate.expiresAt

\* A comparison one off.
WithinOneMore == Current <= Limit + 1

\* What consume returns.
Within == Current <= Limit

consume ==
  /\ Current <= MaxCount
  /\ rate' = [count |-> Current, expiresAt |-> ExpiresAt]
  /\ accepted' = IF Within
       THEN Append(accepted, [at |-> now, window |-> ExpiresAt - Window, number |-> Current])
       ELSE accepted
  /\ UNCHANGED now

tick == now < MaxTime /\ now' = now + 1 /\ UNCHANGED <<rate, accepted>>

LimiterTypeOK ==
  /\ now \in 0 .. MaxTime
  /\ rate \in [count : 0 .. MaxCount, expiresAt : {0} \cup Window .. MaxTime + Window]
  /\ accepted \in Seq([at : 0 .. MaxTime, window : 0 .. MaxTime, number : 1 .. Limit])

\* A fixed window may admit its limit at its end and the next one again at its
\* beginning.  It admits no more: within any span of a window's length fewer
\* than twice the limit, since the first attempt of a window opens it.
RateBound == \A n \in DOMAIN accepted :
  n + 2 * Limit - 1 \in DOMAIN accepted =>
    accepted[n + 2 * Limit - 1].at - accepted[n].at >= Window

\* Nobody is turned away for longer than that: whenever the next attempt would
\* be refused, the limit was used up by attempts accepted less than a window's
\* length ago; refused ones prolong nothing.
RefusalsAreEarned == ~Within =>
  /\ Len(accepted) >= Limit
  /\ now - accepted[Len(accepted) - Limit + 1].at < Window
=============================================================================
