--------------------------- MODULE Pairing_proofs ---------------------------
(***************************************************************************)
(* Pairing for any codes, requests, devices and installations, and its     *)
(* rate limiter for any limit and window.                                  *)
(***************************************************************************)
EXTENDS Pairing, TLAPS

---------------------------------------------------------------------------
(***************************************************************************)
(* The rate limiter.  The key's expiry tells the windows apart, and the    *)
(* count says how many calls the current one has accepted.                 *)
(***************************************************************************)

Attempt == [at : 0 .. MaxTime, window : 0 .. MaxTime, number : 1 .. Limit]

\* An accepted call is in its window, and the first one opened it.
InItsWindow(x) ==
  /\ x.window <= x.at /\ x.at < x.window + Window
  /\ x.number = 1 => x.at = x.window

\* Accepted calls of one window are numbered without a gap; windows do not
\* overlap.
WindowsApart(m, n) ==
  \/ /\ accepted[m].window = accepted[n].window
     /\ n - m = accepted[n].number - accepted[m].number
  \/ accepted[m].window + Window <= accepted[n].window

CountAccepted == IF rate.count < Limit THEN rate.count ELSE Limit

\* Accepted call n is of the window the key stands for, or of an earlier one.
InKeyOrBefore(n) ==
  \/ /\ accepted[n].window + Window = rate.expiresAt
     /\ Len(accepted) - n = CountAccepted - accepted[n].number
  \/ accepted[n].window + Window + Window <= rate.expiresAt

LimiterInv ==
  /\ LimiterTypeOK
  /\ now < rate.expiresAt => rate.count > 0
  /\ rate.expiresAt <= now + Window
  /\ \A n \in 1 .. Len(accepted) : InItsWindow(accepted[n]) /\ InKeyOrBefore(n)
  /\ \A m, n \in 1 .. Len(accepted) : m < n => WindowsApart(m, n)

LEMMA LimiterFacts ==
    ASSUME LimiterTypeOK
    PROVE  /\ Limit \in Nat \ {0} /\ Window \in Nat \ {0} /\ MaxTime \in Nat
           /\ now \in Nat /\ rate.count \in Nat /\ rate.expiresAt \in Nat
           /\ accepted \in Seq(Attempt) /\ Len(accepted) \in Nat
           /\ DOMAIN accepted = 1 .. Len(accepted)
           /\ \A n \in 1 .. Len(accepted) :
                /\ accepted[n].at \in Nat /\ accepted[n].window \in Nat
                /\ accepted[n].number \in 1 .. Limit
  <1>1. /\ Limit \in Nat \ {0} /\ Window \in Nat \ {0} /\ MaxTime \in Nat
        /\ now \in Nat /\ rate.count \in Nat /\ rate.expiresAt \in Nat
    BY LimiterAssumption DEF LimiterAssumption, LimiterTypeOK
  <1>2. accepted \in Seq(Attempt)
    BY DEF LimiterTypeOK, Attempt
  <1>3. Len(accepted) \in Nat /\ DOMAIN accepted = 1 .. Len(accepted)
    BY <1>2
  <1>4. \A n \in 1 .. Len(accepted) : accepted[n] \in Attempt
    BY <1>2
  <1>5. \A n \in 1 .. Len(accepted) :
          /\ accepted[n].at \in Nat /\ accepted[n].window \in Nat
          /\ accepted[n].number \in 1 .. Limit
    BY <1>1, <1>4 DEF Attempt
  <1> QED
    BY <1>1, <1>2, <1>3, <1>5

LEMMA ConsumeTyped ==
    ASSUME LimiterTypeOK, consume
    PROVE  LimiterTypeOK'
  <1>1. Current \in 1 .. MaxCount /\ now \in 0 .. MaxTime
    BY LimiterAssumption DEF LimiterAssumption, LimiterTypeOK, Current, consume
  <1>2. ExpiresAt \in Window .. MaxTime + Window
    <2>1. CASE Current = 1
      BY <1>1, <2>1, LimiterAssumption DEF LimiterAssumption, ExpiresAt
    <2>2. CASE Current # 1
      BY <1>1, <2>2, LimiterAssumption DEF LimiterAssumption, LimiterTypeOK, ExpiresAt, Current
    <2> QED
      BY <2>1, <2>2
  <1>3. rate' \in [count : 0 .. MaxCount, expiresAt : {0} \cup Window .. MaxTime + Window]
    BY <1>1, <1>2, LimiterAssumption DEF LimiterAssumption, consume
  <1>4. accepted \in Seq(Attempt)
    BY DEF LimiterTypeOK, Attempt
  <1>5. accepted' \in Seq(Attempt)
    <2>1. CASE Within
      <3>1. [at |-> now, window |-> ExpiresAt - Window, number |-> Current] \in Attempt
        BY <1>1, <1>2, <2>1, LimiterAssumption DEF LimiterAssumption, Attempt, Within
      <3> QED
        BY <1>4, <2>1, <3>1 DEF consume
    <2>2. CASE ~Within
      BY <1>4, <2>2 DEF consume
    <2> QED
      BY <2>1, <2>2
  <1> QED
    BY <1>1, <1>3, <1>5 DEF LimiterTypeOK, consume, Attempt

\* What the appended call looks like, seen from the sequence before.
LEMMA Appended ==
    ASSUME LimiterTypeOK, consume, Within
    PROVE  /\ Len(accepted') = Len(accepted) + 1
           /\ \A n \in 1 .. Len(accepted) : accepted'[n] = accepted[n]
           /\ accepted'[Len(accepted) + 1] =
                [at |-> now, window |-> ExpiresAt - Window, number |-> Current]
  BY DEF LimiterTypeOK, consume

LEMMA ConsumeKeepsWindows ==
    ASSUME LimiterInv, consume
    PROVE  LimiterInv'
  <1>t. /\ LimiterTypeOK' /\ LimiterTypeOK
        /\ Limit \in Nat \ {0} /\ Window \in Nat \ {0}
    BY ConsumeTyped, LimiterAssumption DEF LimiterAssumption, LimiterInv
  <1>n. /\ now \in Nat /\ rate.count \in Nat /\ rate.expiresAt \in Nat
        /\ Len(accepted) \in Nat
    BY <1>t, LimiterFacts
  <1>i. \A n \in 1 .. Len(accepted) :
          /\ accepted[n].at \in Nat /\ accepted[n].window \in Nat
          /\ accepted[n].number \in 1 .. Limit
    BY <1>t, LimiterFacts
  <1>r. /\ rate'.count = Current /\ rate'.expiresAt = ExpiresAt /\ now' = now
        /\ Current \in Nat \ {0} /\ ExpiresAt \in Nat
    BY <1>n, <1>t DEF consume, Current, ExpiresAt
  <1>c. \/ Current = 1 /\ rate.expiresAt <= now /\ ExpiresAt = now + Window
        \/ /\ Current = rate.count + 1 /\ rate.count > 0
           /\ now < rate.expiresAt /\ ExpiresAt = rate.expiresAt
    BY <1>n DEF LimiterInv, Current, ExpiresAt
  <1>e. rate.expiresAt <= now + Window
    BY DEF LimiterInv
  <1>1. rate'.expiresAt <= now' + Window
    BY <1>c, <1>e, <1>r, <1>n, <1>t
  <1>o. \A n \in 1 .. Len(accepted) : InItsWindow(accepted[n]) /\ InKeyOrBefore(n)
    BY DEF LimiterInv
  <1>w. \A m, n \in 1 .. Len(accepted) : m < n => WindowsApart(m, n)
    BY DEF LimiterInv
  <1>2. CASE ~Within
    <2>1. accepted' = accepted /\ Current > Limit
      BY <1>2, <1>r, <1>t DEF consume, Within
    <2>2. /\ Current = rate.count + 1 /\ ExpiresAt = rate.expiresAt
      BY <2>1, <1>c, <1>t
    <2>3. CountAccepted' = CountAccepted
      BY <2>1, <2>2, <1>r, <1>n, <1>t DEF CountAccepted
    <2>4. \A n \in 1 .. Len(accepted') : InItsWindow(accepted[n])' /\ InKeyOrBefore(n)'
      BY <1>o, <2>1, <2>2, <2>3, <1>r DEF InItsWindow, InKeyOrBefore
    <2>5. \A m, n \in 1 .. Len(accepted') : m < n => WindowsApart(m, n)'
      BY <1>w, <2>1 DEF WindowsApart
    <2> QED
      BY <1>1, <1>r, <1>t, <2>4, <2>5 DEF LimiterInv
  <1>3. CASE Within
    <2> DEFINE L == Len(accepted)
               x == accepted'[L + 1]
    <2>1. /\ Len(accepted') = L + 1
          /\ \A n \in 1 .. L : accepted'[n] = accepted[n]
          /\ x = [at |-> now, window |-> ExpiresAt - Window, number |-> Current]
      BY <1>3, <1>t, Appended
    <2>a. Current <= Limit /\ CountAccepted' = Current
      BY <1>3, <1>r, <1>t DEF Within, CountAccepted
    <2>x. /\ x.at = now /\ x.window = ExpiresAt - Window /\ x.number = Current
      BY <2>1
    <2>2. ASSUME NEW n \in 1 .. L PROVE InItsWindow(accepted[n])' /\ InKeyOrBefore(n)'
      <3>1. InItsWindow(accepted[n])'
        BY <2>1, <1>o, <2>2 DEF InItsWindow
      <3>2. CASE Current = 1 /\ rate.expiresAt <= now /\ ExpiresAt = now + Window
        <4>1. accepted[n].window + Window <= rate.expiresAt
          BY <1>o, <1>i, <1>t, <1>n DEF InKeyOrBefore
        <4>2. accepted[n].window + Window + Window <= ExpiresAt
          BY <4>1, <3>2, <1>i, <1>t, <1>n
        <4> QED
          BY <4>2, <3>1, <2>1, <1>r DEF InKeyOrBefore
      <3>3. CASE /\ Current = rate.count + 1 /\ rate.count > 0
                 /\ now < rate.expiresAt /\ ExpiresAt = rate.expiresAt
        <4>1. CountAccepted = rate.count
          BY <3>3, <2>a, <1>n, <1>t DEF CountAccepted
        <4>2. CASE /\ accepted[n].window + Window = rate.expiresAt
                   /\ L - n = CountAccepted - accepted[n].number
          <5>1. L + 1 - n = Current - accepted[n].number
            <6>1. /\ L \in Nat /\ n \in Nat /\ accepted[n].number \in Nat
                  /\ rate.count \in Nat
              BY <1>i, <1>n, <1>t
            <6>2. L - n = rate.count - accepted[n].number /\ Current = rate.count + 1
              BY <4>1, <4>2, <3>3
            <6> QED
              BY <6>1, <6>2
          <5> QED
            BY <5>1, <4>2, <3>1, <3>3, <2>1, <2>a, <1>r DEF InKeyOrBefore
        <4>3. CASE accepted[n].window + Window + Window <= rate.expiresAt
          BY <4>3, <3>1, <3>3, <2>1, <1>r DEF InKeyOrBefore
        <4> QED
          BY <4>2, <4>3, <1>o DEF InKeyOrBefore
      <3> QED
        BY <3>2, <3>3, <1>c
    <2>3. ASSUME NEW n, n = L + 1
          PROVE  InItsWindow(x) /\ InKeyOrBefore(n)'
      <3>1. InItsWindow(x)
        BY <2>x, <1>c, <1>e, <1>n, <1>t DEF InItsWindow
      <3>2. x.window + Window = rate'.expiresAt
        BY <2>x, <1>r, <1>t
      <3>3. Len(accepted') - n = CountAccepted' - x.number
        BY <2>3, <2>x, <2>1, <2>a, <1>r, <1>n
      <3> QED
        BY <2>3, <3>1, <3>2, <3>3 DEF InKeyOrBefore
    <2>4. ASSUME NEW m \in 1 .. L + 1, NEW n \in 1 .. L + 1, m < n
          PROVE  WindowsApart(m, n)'
      <3>1. m \in 1 .. L
        BY <2>4, <1>n
      <3>2. CASE n \in 1 .. L
        BY <3>1, <3>2, <2>1, <2>4, <1>w DEF WindowsApart
      <3>3. CASE n = L + 1
        <4>1. InKeyOrBefore(m)' /\ accepted'[m] = accepted[m]
          BY <3>1, <2>1, <2>2
        <4>2. accepted'[n] = x
          BY <3>3
        <4>3. rate'.expiresAt = x.window + Window
          BY <2>x, <1>r, <1>t
        <4>4. CASE /\ accepted'[m].window + Window = rate'.expiresAt
                   /\ Len(accepted') - m = CountAccepted' - accepted'[m].number
          <5>0. accepted'[m].window \in Nat /\ x.window \in Int
            BY <4>1, <3>1, <2>x, <1>i, <1>r, <1>t
          <5>1. accepted'[m].window = x.window
            BY <4>3, <4>4, <5>0, <1>t
          <5>2. n - m = x.number - accepted'[m].number
            BY <4>4, <3>3, <2>1, <2>a, <2>x
          <5> QED
            BY <5>1, <5>2, <4>2 DEF WindowsApart
        <4>5. CASE accepted'[m].window + Window + Window <= rate'.expiresAt
          <5>1. accepted'[m].window + Window <= x.window
            BY <4>1, <4>3, <4>5, <3>1, <2>x, <1>i, <1>r, <1>t
          <5> QED
            BY <5>1, <4>2 DEF WindowsApart
        <4> QED
          BY <4>1, <4>4, <4>5 DEF InKeyOrBefore
      <3> QED
        BY <3>2, <3>3, <1>n
    <2>5. \A n \in 1 .. Len(accepted') : InItsWindow(accepted[n])' /\ InKeyOrBefore(n)'
      <3>1. ASSUME NEW n \in 1 .. L + 1 PROVE InItsWindow(accepted[n])' /\ InKeyOrBefore(n)'
        <4>1. CASE n \in 1 .. L
          BY <4>1, <2>2
        <4>2. CASE n = L + 1
          <5>1. InItsWindow(accepted[n])' <=> InItsWindow(accepted'[n])
            BY DEF InItsWindow
          <5> QED
            BY <4>2, <5>1, <2>3
        <4> QED
          BY <4>1, <4>2, <1>n
      <3> QED
        BY <3>1, <2>1
    <2>6. \A m, n \in 1 .. Len(accepted') : m < n => WindowsApart(m, n)'
      BY <2>1, <2>4
    <2>7. now' < rate'.expiresAt => rate'.count > 0
      BY <1>r
    <2> QED
      BY <1>1, <1>t, <2>5, <2>6, <2>7 DEF LimiterInv
  <1> QED
    BY <1>2, <1>3

LEMMA LimiterKept ==
    ASSUME LimiterInv, consume \/ tick \/ UNCHANGED limiterVars
    PROVE  LimiterInv'
  <1>1. CASE consume
    BY <1>1, ConsumeKeepsWindows
  <1>2. CASE tick
    <2>1. LimiterTypeOK'
      BY <1>2, LimiterAssumption DEF LimiterAssumption, LimiterInv, LimiterTypeOK, tick
    <2>2. /\ now \in Nat /\ rate.expiresAt \in Nat /\ Window \in Nat
          /\ now' = now + 1 /\ rate' = rate /\ accepted' = accepted
      BY <1>2, LimiterFacts DEF LimiterInv, tick
    <2>3. /\ now' < rate.expiresAt => rate.count > 0
          /\ rate.expiresAt <= now' + Window
      <3>1. now' < rate.expiresAt => now < rate.expiresAt
        BY <2>2
      <3>2. rate.expiresAt <= now + Window => rate.expiresAt <= now' + Window
        BY <2>2
      <3> QED
        BY <3>1, <3>2 DEF LimiterInv
    <2>4. \A n \in 1 .. Len(accepted) : InItsWindow(accepted[n])' /\ InKeyOrBefore(n)'
      BY <2>2 DEF LimiterInv, InItsWindow, InKeyOrBefore, CountAccepted
    <2>5. \A m, n \in 1 .. Len(accepted) : m < n => WindowsApart(m, n)'
      BY <2>2 DEF LimiterInv, WindowsApart
    <2> QED
      BY <2>1, <2>2, <2>3, <2>4, <2>5 DEF LimiterInv
  <1>3. CASE UNCHANGED limiterVars
    BY <1>3 DEF limiterVars, LimiterInv, LimiterTypeOK, InItsWindow, InKeyOrBefore,
       WindowsApart, CountAccepted
  <1> QED
    BY <1>1, <1>2, <1>3

LEMMA LimiterStarts == LimiterInit => LimiterInv
  BY LimiterAssumption DEF LimiterAssumption, LimiterInit, LimiterInv, LimiterTypeOK

\* Of two calls a limit apart, the later one is of a later window.
LEMMA LimitApart ==
    ASSUME LimiterInv, NEW n \in 1 .. Len(accepted), NEW j \in 1 .. Len(accepted),
           j = n + Limit
    PROVE  accepted[n].window + Window <= accepted[j].window
  <1>1. /\ accepted[n].number \in 1 .. Limit /\ accepted[j].number \in 1 .. Limit
        /\ Limit \in Nat \ {0}
    BY LimiterFacts DEF LimiterInv
  <1>2. j - n = Limit /\ n < j
    BY <1>1
  <1>3. WindowsApart(n, j)
    BY <1>2 DEF LimiterInv
  <1>4. j - n # accepted[j].number - accepted[n].number
    BY <1>1, <1>2
  <1> QED
    BY <1>3, <1>4 DEF WindowsApart

LEMMA LaterOrSame ==
    ASSUME NEW w \in Nat, NEW a \in Nat, NEW b \in Nat, a = b \/ a + w <= b
    PROVE  a <= b
  OBVIOUS

LEMMA Spans ==
    ASSUME NEW w \in Nat, NEW a \in Nat, NEW b \in Nat, NEW c \in Nat, NEW d \in Nat,
           a + w <= b, b <= c, c <= d
    PROVE  d - a >= w
  OBVIOUS

LEMMA OneNumber ==
    ASSUME NEW l \in Nat \ {0}, NEW x \in 1 .. l, NEW y \in 1 .. l,
           l - 1 = y - x \/ l = 1
    PROVE  x = 1
  OBVIOUS

\* Calls n .. m, and j .. e, are as many as the limit: if the first are of one
\* window, n opened it; otherwise another window lies between n and e.
LEMMA LimitSpan ==
    ASSUME LimiterInv,
           NEW n \in 1 .. Len(accepted), NEW m \in 1 .. Len(accepted),
           NEW j \in 1 .. Len(accepted), NEW e \in 1 .. Len(accepted),
           m = n + Limit - 1, j = n + Limit, e = m + Limit
    PROVE  accepted[e].at - accepted[n].at >= Window
  <1>1. Limit \in Nat \ {0} /\ Window \in Nat \ {0} /\ Len(accepted) \in Nat
    BY LimiterFacts DEF LimiterInv
  <1>2. \A k \in 1 .. Len(accepted) :
          /\ accepted[k].at \in Nat /\ accepted[k].window \in Nat
          /\ accepted[k].number \in 1 .. Limit
          /\ InItsWindow(accepted[k])
    BY LimiterFacts DEF LimiterInv
  <1>t. /\ accepted[n].at \in Nat /\ accepted[n].window \in Nat
        /\ accepted[m].window \in Nat /\ accepted[j].window \in Nat
        /\ accepted[e].window \in Nat /\ accepted[e].at \in Nat
        /\ accepted[n].number \in 1 .. Limit /\ accepted[m].number \in 1 .. Limit
    BY <1>2
  <1>4. accepted[n].window + Window <= accepted[j].window
    BY LimitApart
  <1>5. accepted[m].window + Window <= accepted[e].window
    BY LimitApart
  <1>6. accepted[j].window <= accepted[e].window
    <2>1. CASE j = e
      BY <2>1, <1>t
    <2>2. CASE j # e
      <3>1. j < e
        BY <2>2, <1>1
      <3>2. WindowsApart(j, e)
        BY <3>1 DEF LimiterInv
      <3>3. \/ accepted[j].window = accepted[e].window
            \/ accepted[j].window + Window <= accepted[e].window
        BY <3>2 DEF WindowsApart
      <3>4. accepted[j].window \in Nat /\ accepted[e].window \in Nat /\ Window \in Nat
        BY <1>t, <1>1
      <3> QED
        BY <3>3, <3>4, LaterOrSame
    <2> QED
      BY <2>1, <2>2
  <1>7. n = m \/ WindowsApart(n, m)
    <2>1. n = m \/ n < m
      BY <1>1
    <2> QED
      BY <2>1 DEF LimiterInv
  <1>8. CASE n = m \/ m - n = accepted[m].number - accepted[n].number
    <2>1. accepted[n].number = 1
      <3>1. Limit - 1 = accepted[m].number - accepted[n].number \/ Limit = 1
        <4>1. m - n = Limit - 1 /\ (n = m => Limit = 1)
          BY <1>1
        <4> QED
          BY <4>1, <1>8
      <3> QED
        BY <3>1, <1>t, <1>1, OneNumber
    <2>2. accepted[n].at = accepted[n].window
      BY <2>1, <1>2 DEF InItsWindow
    <2>3. accepted[e].window <= accepted[e].at
      BY <1>2 DEF InItsWindow
    <2> QED
      <3>1. accepted[n].at + Window <= accepted[j].window
        BY <2>2, <1>4
      <3>2. Window \in Nat
        BY <1>1
      <3> QED
        BY <3>1, <3>2, <2>3, <1>6, <1>t, Spans
  <1>9. CASE accepted[n].window + Window <= accepted[m].window
    <2>1. /\ accepted[n].at < accepted[n].window + Window
          /\ accepted[e].window <= accepted[e].at
      BY <1>2 DEF InItsWindow
    <2> QED
      <3>1. \A x, y, z \in Nat : x < y + Window /\ y + Window <= z => x <= z
        BY <1>1
      <3>2. accepted[n].at <= accepted[m].window
        BY <3>1, <2>1, <1>9, <1>t
      <3>3. \A x, z, u \in Nat : x <= z /\ z + Window <= u => x + Window <= u
        BY <1>1
      <3>4. accepted[n].at + Window <= accepted[e].window
        BY <3>2, <3>3, <1>5, <1>t
      <3>5. \A x, u, v \in Nat : x + Window <= u /\ u <= v => v - x >= Window
        BY <1>1
      <3> QED
        BY <3>4, <3>5, <2>1, <1>t
  <1> QED
    BY <1>7, <1>8, <1>9 DEF WindowsApart

LEMMA LimiterBounds == LimiterInv => RateBound
  <1> SUFFICES ASSUME LimiterInv, NEW n \in DOMAIN accepted,
                      n + 2 * Limit - 1 \in DOMAIN accepted
               PROVE  accepted[n + 2 * Limit - 1].at - accepted[n].at >= Window
    BY DEF RateBound
  <1>1. /\ Limit \in Nat \ {0} /\ Len(accepted) \in Nat
        /\ DOMAIN accepted = 1 .. Len(accepted)
    BY LimiterFacts DEF LimiterInv
  <1>2. PICK e \in 1 .. Len(accepted) : e = n + 2 * Limit - 1
    BY <1>1
  <1>3. /\ n + Limit - 1 \in 1 .. Len(accepted) /\ n + Limit \in 1 .. Len(accepted)
        /\ n \in 1 .. Len(accepted) /\ e = (n + Limit - 1) + Limit
    BY <1>1, <1>2
  <1>4. accepted[e].at - accepted[n].at >= Window
    BY <1>3, LimitSpan
  <1> QED
    BY <1>2, <1>4

---------------------------------------------------------------------------
(***************************************************************************)
(* Codes, requests and devices.                                            *)
(***************************************************************************)

CodesKnown ==
  /\ \A k \in Code : creation[k].phase # "none" => creation[k].installation \in Installation
  /\ \A k \in Code : row[k] # "absent" => creation[k].phase = "shown"
  /\ \A r \in Request : request[r].phase # "none" =>
       /\ request[r].device \in Device
       /\ request[r].code \in Code
       /\ creation[request[r].code].phase = "shown"

\* A transaction that has read its code holds it, and it stays unconsumed.
LocksHeld ==
  /\ \A k \in Code, r \in Request :
       lock[k] = r <=> request[r].phase = "write" /\ request[r].code = k
  /\ \A k \in Code : lock[k] # None => row[k] = "unconsumed"

CodeInv == TypeOK /\ CodesKnown /\ LocksHeld /\ CodePairsOnce

\* While codes of installation i are made one after the other, the next one is
\* inserted when no other is left unconsumed.
OneUnconsumed(i) ==
  /\ \A k, q \in CodesOf(i) :
       creation[k].phase \in {"deleting", "inserting"} /\
       creation[q].phase \in {"deleting", "inserting"} => k = q
  /\ \A k, q \in CodesOf(i) :
       row[q] = "unconsumed" =>
         /\ creation[k].phase # "inserting"
         /\ creation[k].phase = "deleting" => q \in creation[k].seen
         /\ row[k] = "unconsumed" => k = q

CodesInTurn == \A i \in Installation \ sideBySide : OneUnconsumed(i)

Home(r) == creation[request[r].code].installation

\* The request whose token device d waits for, or has stored.
IsCurrent(d, r) == device[d].asking = r \/ device[d].token = r

\* Once the current request is paired, no other request of its device can be,
\* for the same installation: none of them has a code that is left.
LastPairing(d, r) ==
  /\ request[r].phase # "none" /\ request[r].device = d
  /\ device[d].token = r => Paired(r)
  /\ Paired(r) /\ Home(r) \notin sideBySide =>
       /\ credentials[Home(r)][d] = r
       /\ \A q \in Request :
            request[q].phase # "none" /\ request[q].device = d /\ Home(q) = Home(r) =>
              row[request[q].code] # "unconsumed"

CurrentIsLast == \A d \in Device, r \in Request : IsCurrent(d, r) => LastPairing(d, r)

PairingInv == CodeInv /\ CodesInTurn /\ CurrentIsLast

LEMMA PairingStarts == Init => PairingInv /\ LimiterInv
  <1> SUFFICES ASSUME Init PROVE PairingInv /\ LimiterInv
    OBVIOUS
  <1>1. LimiterInv /\ LimiterTypeOK
    BY LimiterStarts DEF Init, LimiterInv
  <1>2. TypeOK
    BY <1>1 DEF Init, TypeOK, Creation, PairRequest
  <1>3. CodesKnown /\ LocksHeld /\ CodePairsOnce
    BY PairingAssumption DEF PairingAssumption, Init, CodesKnown, LocksHeld, CodePairsOnce, Paired
  <1>4. CodesInTurn
    BY DEF Init, CodesInTurn, OneUnconsumed, CodesOf
  <1>5. \A d \in Device, r \in Request : ~IsCurrent(d, r)
    BY PairingAssumption DEF PairingAssumption, Init, IsCurrent
  <1> QED
    BY <1>1, <1>2, <1>3, <1>4, <1>5 DEF PairingInv, CodeInv, CurrentIsLast

---------------------------------------------------------------------------
(***************************************************************************)
(* What each group of actions changes, and that it keeps CodeInv.          *)
(***************************************************************************)

LEMMA StatementTyped ==
    ASSUME creation \in [Code -> Creation], NEW k \in Code, NEW x \in {"inserting", "lost"},
           creation' = [creation EXCEPT ![k].phase = x, ![k].seen = {}]
    PROVE  creation' \in [Code -> Creation]
  <1>1. \A q \in Code : creation'[q] \in Creation
    <2>1. ASSUME NEW q \in Code, q # k PROVE creation'[q] \in Creation
      BY <2>1
    <2>2. creation'[k] = [creation[k] EXCEPT !.phase = x, !.seen = {}]
      OBVIOUS
    <2>a. creation[k] \in Creation
      OBVIOUS
    <2>b. creation'[k] = [phase |-> x, installation |-> creation[k].installation, seen |-> {}]
      BY <2>2, <2>a DEF Creation
    <2>3. creation'[k] \in Creation
      BY <2>a, <2>b DEF Creation
    <2> QED
      BY <2>1, <2>3
  <1>2. DOMAIN creation' = Code /\ creation' = [q \in Code |-> creation'[q]]
    OBVIOUS
  <1> QED
    BY <1>1, <1>2

LEMMA MakeCodeKept ==
    ASSUME CodeInv, NEW k \in Code, MakeCode(k)
    PROVE  CodeInv'
  <1>0. TypeOK /\ CodesKnown /\ LocksHeld /\ CodePairsOnce
    BY DEF CodeInv
  <1>l. UNCHANGED <<limiterVars, requestVars, device>>
    BY DEF MakeCode, createPairingCode, deleteUnconsumed, insertCode, abandonCode
  <1>1. ASSUME NEW i \in Installation, createPairingCode(k, i) PROVE CodeInv'
    <2>1. TypeOK'
      BY <1>0, <1>1, <1>l
         DEF createPairingCode, TypeOK, LimiterTypeOK, limiterVars, requestVars, Creation, CodesOf
    <2>2. CodesKnown'
      BY <1>0, <1>1, <1>l DEF createPairingCode, TypeOK, Creation, requestVars, CodesKnown
    <2>3. LocksHeld' /\ CodePairsOnce'
      BY <1>0, <1>1, <1>l DEF createPairingCode, requestVars, LocksHeld, CodePairsOnce, Paired
    <2> QED
      BY <2>1, <2>2, <2>3 DEF CodeInv
  <1>2. CASE deleteUnconsumed(k)
    <2>1. TypeOK'
      <3>1. creation' \in [Code -> Creation]
        BY <1>0, <1>2, StatementTyped DEF deleteUnconsumed, TypeOK
      <3>2. row' \in [Code -> {"absent", "unconsumed", "consumed"}]
        BY <1>0, <1>2 DEF deleteUnconsumed, TypeOK
      <3> QED
        BY <1>0, <1>2, <1>l, <3>1, <3>2
           DEF deleteUnconsumed, TypeOK, LimiterTypeOK, limiterVars, requestVars
    <2>2. \A q \in Code : /\ row'[q] # "absent" => row[q] # "absent"
                          /\ row'[q] = "consumed" <=> row[q] = "consumed"
                          /\ lock[q] # None => row'[q] = row[q]
      BY <1>0, <1>2 DEF deleteUnconsumed, TypeOK
    <2>3. \A q \in Code : /\ creation'[q].installation = creation[q].installation
                          /\ creation'[q].phase # "none" <=> creation[q].phase # "none"
                          /\ creation'[q].phase = "shown" <=> creation[q].phase = "shown"
      BY <1>0, <1>2 DEF deleteUnconsumed, TypeOK, Creation
    <2>4. CodesKnown'
      BY <1>0, <1>l, <2>2, <2>3 DEF requestVars, CodesKnown
    <2>5. LocksHeld' /\ CodePairsOnce'
      BY <1>0, <1>l, <2>2 DEF requestVars, LocksHeld, CodePairsOnce, Paired
    <2> QED
      BY <2>1, <2>4, <2>5 DEF CodeInv
  <1>3. CASE insertCode(k)
    <2>1. TypeOK'
      <3>1. creation' \in [Code -> Creation]
        <4>1. creation \in [Code -> Creation] /\ creation' = [creation EXCEPT ![k].phase = "shown"]
          BY <1>0, <1>3 DEF insertCode, TypeOK
        <4>2. creation[k] \in Creation
          BY <4>1
        <4>3. creation'[k] = [phase |-> "shown", installation |-> creation[k].installation,
                              seen |-> creation[k].seen]
          BY <4>1, <4>2 DEF Creation
        <4>4. creation'[k] \in Creation
          BY <4>2, <4>3 DEF Creation
        <4> QED
          BY <4>1, <4>4
      <3>2. row' \in [Code -> {"absent", "unconsumed", "consumed"}]
        BY <1>0, <1>3 DEF insertCode, TypeOK
      <3>3. UNCHANGED <<limiterVars, requestVars, device, sideBySide>>
        BY <1>3 DEF insertCode
      <3>4. LimiterTypeOK'
        BY <1>0, <3>3 DEF TypeOK, LimiterTypeOK, limiterVars
      <3> QED
        BY <1>0, <3>1, <3>2, <3>3, <3>4 DEF TypeOK, requestVars
    <2>2. row[k] = "absent" /\ creation[k].phase = "inserting"
      BY <1>0, <1>3 DEF insertCode, CodesKnown
    <2>3. CodesKnown'
      BY <1>0, <1>3, <1>l DEF insertCode, TypeOK, Creation, requestVars, CodesKnown
    <2>4. LocksHeld' /\ CodePairsOnce'
      BY <1>0, <1>3, <1>l, <2>2
         DEF insertCode, TypeOK, requestVars, LocksHeld, CodePairsOnce, Paired
    <2> QED
      BY <2>1, <2>3, <2>4 DEF CodeInv
  <1>4. CASE abandonCode(k)
    <2>1. TypeOK'
      <3>1. creation' \in [Code -> Creation]
        BY <1>0, <1>4, StatementTyped DEF abandonCode, TypeOK
      <3> QED
        BY <1>0, <1>4, <1>l, <3>1
           DEF abandonCode, TypeOK, LimiterTypeOK, limiterVars, requestVars
    <2>2. CodesKnown'
      BY <1>0, <1>4, <1>l DEF abandonCode, TypeOK, Creation, requestVars, CodesKnown
    <2>3. LocksHeld' /\ CodePairsOnce'
      BY <1>0, <1>4, <1>l DEF abandonCode, requestVars, LocksHeld, CodePairsOnce, Paired
    <2> QED
      BY <2>1, <2>2, <2>3 DEF CodeInv
  <1> QED
    BY <1>1, <1>2, <1>3, <1>4 DEF MakeCode

LEMMA PhaseTyped ==
    ASSUME request \in [Request -> PairRequest], NEW r \in Request,
           NEW x \in {"select", "write", "paired", "failed"},
           request' = [request EXCEPT ![r].phase = x]
    PROVE  request' \in [Request -> PairRequest]
  <1>1. \A q \in Request : request'[q] \in PairRequest
    BY DEF PairRequest
  <1>2. DOMAIN request' = Request /\ request' = [q \in Request |-> request'[q]]
    OBVIOUS
  <1> QED
    BY <1>1, <1>2

\* A request that changes its phase, and nothing else, away from the
\* transaction keeps CodeInv.
LEMMA PhaseKept ==
    ASSUME CodeInv, NEW r \in Request, NEW x,
           x \in {"select", "failed"}, request[r].phase \in {"sent", "select"},
           request' = [request EXCEPT ![r].phase = x],
           UNCHANGED <<codeVars, lock, credentials, device, sideBySide>>,
           LimiterTypeOK'
    PROVE  CodeInv'
  <1>0. TypeOK /\ CodesKnown /\ LocksHeld /\ CodePairsOnce
    BY DEF CodeInv
  <1>1. TypeOK'
    BY <1>0, PhaseTyped DEF TypeOK, codeVars
  <1>2. CodesKnown'
    BY <1>0 DEF TypeOK, codeVars, PairRequest, CodesKnown
  <1>3. LocksHeld' /\ CodePairsOnce'
    BY <1>0 DEF TypeOK, codeVars, PairRequest, LocksHeld, CodePairsOnce, Paired
  <1> QED
    BY <1>1, <1>2, <1>3 DEF CodeInv

LEMMA ConsumeKept ==
    ASSUME CodeInv, NEW r \in Request, Consume(r)
    PROVE  CodeInv'
  <1>0. TypeOK /\ CodesKnown /\ LocksHeld /\ CodePairsOnce
    BY DEF CodeInv
  <1>l. LimiterTypeOK' /\ UNCHANGED <<creation, device, sideBySide>>
    BY <1>0 DEF Consume, selectCode, refuseCode, pairConnector, rollback, codeVars, limiterVars,
       TypeOK, LimiterTypeOK
  <1>k. request[r].phase # "none" => /\ request[r].code \in Code /\ request[r].device \in Device
                                     /\ Home(r) \in Installation
    BY <1>0 DEF CodesKnown, Home
  <1>1. CASE selectCode(r)
    <2>1. /\ lock[request[r].code] = None /\ row[request[r].code] = "unconsumed"
          /\ lock' = [lock EXCEPT ![request[r].code] = r]
          /\ request' = [request EXCEPT ![r].phase = "write"]
          /\ request[r].phase = "select" /\ request[r].code \in Code
          /\ row' = row /\ credentials' = credentials
      BY <1>1, <1>k DEF selectCode, LockedRead, codeVars
    <2>2. TypeOK'
      BY <1>0, <1>l, <2>1, PhaseTyped DEF TypeOK
    <2>3. CodesKnown'
      BY <1>0, <1>l, <2>1 DEF TypeOK, PairRequest, CodesKnown
    <2>4. LocksHeld'
      BY <1>0, <2>1, PairingAssumption DEF TypeOK, PairRequest, LocksHeld, PairingAssumption
    <2>5. CodePairsOnce'
      BY <1>0, <2>1 DEF TypeOK, PairRequest, CodePairsOnce, Paired
    <2> QED
      BY <2>2, <2>3, <2>4, <2>5 DEF CodeInv
  <1>2. CASE refuseCode(r)
    BY <1>2, <1>l, PhaseKept DEF refuseCode
  <1>r. ASSUME request[r].phase = "write"
        PROVE  /\ request[r].code \in Code /\ lock[request[r].code] = r
               /\ row[request[r].code] = "unconsumed"
               /\ \A q \in Code : lock[q] = r => q = request[r].code
               /\ \A q \in Request : Paired(q) => request[q].code # request[r].code
    BY <1>0, <1>k, <1>r, PairingAssumption
       DEF LocksHeld, CodePairsOnce, CodesKnown, Paired, PairingAssumption
  <1>3. CASE pairConnector(r)
    <2>1. /\ request[r].phase = "write" /\ creation[request[r].code].installation \in Installation
          /\ row' = [row EXCEPT ![request[r].code] = "consumed"]
          /\ request' = [request EXCEPT ![r].phase = "paired"]
          /\ lock' = Released(r)
      BY <1>3, <1>r, <1>k DEF pairConnector, Home
    <2>2. TypeOK'
      <3>1. credentials' \in [Installation -> [Device -> Request \cup {None}]]
        BY <1>0, <1>3, <1>k, <2>1 DEF pairConnector, TypeOK
      <3> QED
        BY <1>0, <1>l, <1>r, <2>1, <3>1, PhaseTyped DEF TypeOK, Released
    <2>3. CodesKnown'
      BY <1>0, <1>l, <1>r, <2>1 DEF TypeOK, PairRequest, CodesKnown
    <2>4. LocksHeld'
      BY <1>0, <1>r, <2>1, PairingAssumption
         DEF TypeOK, PairRequest, LocksHeld, Released, PairingAssumption
    <2>5. CodePairsOnce'
      BY <1>0, <1>r, <2>1 DEF TypeOK, PairRequest, CodePairsOnce, Paired
    <2> QED
      BY <2>2, <2>3, <2>4, <2>5 DEF CodeInv
  <1>4. CASE rollback(r)
    <2>1. /\ request[r].phase = "write" /\ row' = row /\ credentials' = credentials
          /\ request' = [request EXCEPT ![r].phase = "failed"]
          /\ lock' = Released(r)
      BY <1>4 DEF rollback, Undoes
    <2>2. TypeOK'
      BY <1>0, <1>l, <2>1, PhaseTyped DEF TypeOK, Released
    <2>3. CodesKnown'
      BY <1>0, <1>l, <2>1 DEF TypeOK, PairRequest, CodesKnown
    <2>4. LocksHeld'
      BY <1>0, <1>r, <2>1, PairingAssumption
         DEF TypeOK, PairRequest, LocksHeld, Released, PairingAssumption
    <2>5. CodePairsOnce'
      BY <1>0, <2>1 DEF TypeOK, PairRequest, CodePairsOnce, Paired
    <2> QED
      BY <2>2, <2>3, <2>4, <2>5 DEF CodeInv
  <1> QED
    BY <1>1, <1>2, <1>3, <1>4 DEF Consume

LEMMA ConnectorKept ==
    ASSUME CodeInv, NEW d \in Device, Connector(d)
    PROVE  CodeInv'
  <1>0. TypeOK /\ CodesKnown /\ LocksHeld /\ CodePairsOnce
    BY DEF CodeInv
  <1>1. ASSUME NEW r \in Request, NEW k \in Code, pair(d, r, k) PROVE CodeInv'
    <2>1. TypeOK'
      BY <1>0, <1>1
         DEF pair, TypeOK, LimiterTypeOK, limiterVars, codeVars, PairRequest
    <2>2. CodesKnown'
      BY <1>0, <1>1 DEF pair, TypeOK, PairRequest, codeVars, CodesKnown
    <2>3. LocksHeld' /\ CodePairsOnce'
      BY <1>0, <1>1 DEF pair, TypeOK, PairRequest, codeVars, LocksHeld, CodePairsOnce, Paired
    <2> QED
      BY <2>1, <2>2, <2>3 DEF CodeInv
  <1>2. CASE storeToken(d) \/ giveUp(d)
    <2>1. /\ UNCHANGED <<limiterVars, codeVars, requestVars, sideBySide>>
          /\ device' \in [Device -> [asking : Request \cup {None}, token : Request \cup {None}]]
      BY <1>0, <1>2 DEF storeToken, giveUp, TypeOK
    <2>2. TypeOK'
      BY <1>0, <2>1 DEF TypeOK, LimiterTypeOK, limiterVars, codeVars, requestVars
    <2>3. CodesKnown' /\ LocksHeld' /\ CodePairsOnce'
      BY <1>0, <2>1 DEF codeVars, requestVars, CodesKnown, LocksHeld, CodePairsOnce, Paired
    <2> QED
      BY <2>2, <2>3 DEF CodeInv
  <1> QED
    BY <1>1, <1>2 DEF Connector

LEMMA LimiterOnlyKept ==
    ASSUME CodeInv, LimiterTypeOK',
           UNCHANGED <<codeVars, requestVars, device, sideBySide>>
    PROVE  CodeInv'
  <1>1. TypeOK'
    BY DEF CodeInv, TypeOK, codeVars, requestVars
  <1>2. CodesKnown' /\ LocksHeld' /\ CodePairsOnce'
    BY DEF CodeInv, codeVars, requestVars, CodesKnown, LocksHeld, CodePairsOnce, Paired
  <1> QED
    BY <1>1, <1>2 DEF CodeInv

\* Every step does to the limiter what consume or tick does, or nothing.
LEMMA LimiterSteps ==
    ASSUME [Next]_vars
    PROVE  consume \/ tick \/ UNCHANGED limiterVars
  <1>1. ASSUME NEW k \in Code, MakeCode(k) PROVE UNCHANGED limiterVars
    BY <1>1 DEF MakeCode, createPairingCode, deleteUnconsumed, insertCode, abandonCode
  <1>2. ASSUME NEW d \in Device, Connector(d) PROVE UNCHANGED limiterVars
    BY <1>2 DEF Connector, pair, storeToken, giveUp
  <1>3. ASSUME NEW r \in Request, Consume(r) PROVE UNCHANGED limiterVars
    BY <1>3 DEF Consume, selectCode, refuseCode, pairConnector, rollback
  <1>4. ASSUME NEW r \in Request, admit(r) PROVE consume
    BY <1>4 DEF admit
  <1>5. CASE guess \/ passTime \/ UNCHANGED vars
    BY <1>5 DEF guess, passTime, vars
  <1> QED
    BY <1>1, <1>2, <1>3, <1>4, <1>5 DEF Next

LEMMA StepKeepsCodes ==
    ASSUME CodeInv, LimiterInv', [Next]_vars
    PROVE  CodeInv'
  <1>0. LimiterTypeOK'
    BY DEF LimiterInv
  <1>1. ASSUME NEW k \in Code, MakeCode(k) PROVE CodeInv'
    BY <1>1, MakeCodeKept
  <1>2. ASSUME NEW d \in Device, Connector(d) PROVE CodeInv'
    BY <1>2, ConnectorKept
  <1>3. ASSUME NEW r \in Request, Consume(r) PROVE CodeInv'
    BY <1>3, ConsumeKept
  <1>4. ASSUME NEW r \in Request, admit(r) PROVE CodeInv'
    BY <1>4, <1>0, PhaseKept DEF admit
  <1>5. CASE guess \/ passTime
    BY <1>5, <1>0, LimiterOnlyKept DEF guess, passTime
  <1>6. CASE UNCHANGED vars
    BY <1>6, <1>0, LimiterOnlyKept DEF vars
  <1> QED
    BY <1>1, <1>2, <1>3, <1>4, <1>5, <1>6 DEF Next

---------------------------------------------------------------------------
(***************************************************************************)
(* Codes made in turn.                                                     *)
(***************************************************************************)

\* Consuming a code, or locking it, leaves the codes of an installation in turn.
LEMMA TurnKept ==
    ASSUME CodesInTurn, UNCHANGED <<creation, sideBySide>>,
           \A q \in Code : row'[q] = "unconsumed" => row[q] = "unconsumed"
    PROVE  CodesInTurn'
  BY DEF CodesInTurn, OneUnconsumed, CodesOf

LEMMA MakeCodeInTurn ==
    ASSUME CodeInv, CodesInTurn, NEW k \in Code, MakeCode(k)
    PROVE  CodesInTurn'
  <1>0. TypeOK /\ CodesKnown
    BY DEF CodeInv
  <1>t. /\ creation \in [Code -> Creation]
        /\ row \in [Code -> {"absent", "unconsumed", "consumed"}]
    BY <1>0 DEF TypeOK
  <1>s. sideBySide \subseteq sideBySide'
    BY DEF MakeCode, createPairingCode, deleteUnconsumed, insertCode, abandonCode
  <1> SUFFICES ASSUME NEW i \in Installation, i \notin sideBySide'
               PROVE  OneUnconsumed(i)'
    BY DEF CodesInTurn
  <1>i. OneUnconsumed(i)
    BY <1>s DEF CodesInTurn
  <1>1. ASSUME NEW j \in Installation, createPairingCode(k, j) PROVE OneUnconsumed(i)'
    <2>1. /\ creation[k].phase = "none" /\ row' = row /\ row[k] = "absent"
          /\ \A q \in Code : q # k => creation'[q] = creation[q]
          /\ creation'[k] = [phase |-> "deleting", installation |-> j,
                             seen |-> {q \in CodesOf(j) : row[q] = "unconsumed"}]
      BY <1>0, <1>1, <1>t DEF createPairingCode, CodesKnown
    <2>2. CASE j # i
      <3>1. CodesOf(i)' = CodesOf(i) \ {k}
        BY <2>1, <2>2 DEF CodesOf
      <3>2. \A q \in CodesOf(i)' : q \in CodesOf(i) /\ creation'[q] = creation[q]
        BY <3>1, <2>1 DEF CodesOf
      <3> QED
        BY <3>2, <2>1, <1>i DEF OneUnconsumed
    <2>3. CASE j = i
      <3>1. \A q \in CodesOf(i) : creation[q].phase \notin {"deleting", "inserting"}
        BY <1>1, <2>3 DEF createPairingCode
      <3>2. CodesOf(i)' = CodesOf(i) \cup {k}
        BY <2>1, <2>3 DEF CodesOf
      <3>3. \A q \in CodesOf(i)' : q # k => q \in CodesOf(i) /\ creation'[q] = creation[q]
        BY <3>2, <2>1 DEF CodesOf
      <3>4. /\ creation'[k].phase = "deleting"
            /\ \A q \in CodesOf(i)' : row'[q] = "unconsumed" =>
                 q # k /\ q \in creation'[k].seen
        BY <3>3, <2>1, <2>3
      <3> QED
        BY <3>1, <3>3, <3>4, <2>1, <1>i DEF OneUnconsumed
    <2> QED
      BY <2>2, <2>3
  <1>2. CASE deleteUnconsumed(k)
    <2>1. /\ creation[k].phase = "deleting"
          /\ \A q \in Code : q # k => creation'[q] = creation[q]
          /\ creation'[k].phase = "inserting"
          /\ creation'[k].installation = creation[k].installation
          /\ \A q \in Code : row'[q] = IF q \in creation[k].seen /\ row[q] = "unconsumed"
                                       THEN "absent" ELSE row[q]
      BY <1>2, <1>t DEF deleteUnconsumed, Creation
    <2>2. CodesOf(i)' = CodesOf(i)
      BY <2>1 DEF CodesOf
    <2>3. CodesOf(i) \subseteq Code
      BY DEF CodesOf
    <2> QED
      BY <2>1, <2>2, <2>3, <1>i DEF OneUnconsumed
  <1>3. CASE insertCode(k)
    <2>1. /\ creation[k].phase = "inserting"
          /\ \A q \in Code : q # k => creation'[q] = creation[q] /\ row'[q] = row[q]
          /\ creation'[k].phase = "shown"
          /\ creation'[k].installation = creation[k].installation
      BY <1>3, <1>t DEF insertCode, Creation
    <2>2. CodesOf(i)' = CodesOf(i)
      BY <2>1 DEF CodesOf
    <2>3. CodesOf(i) \subseteq Code
      BY DEF CodesOf
    <2> QED
      BY <2>1, <2>2, <2>3, <1>i DEF OneUnconsumed
  <1>4. CASE abandonCode(k)
    <2>1. /\ row' = row
          /\ \A q \in Code : q # k => creation'[q] = creation[q]
          /\ creation'[k].phase = "lost"
          /\ creation'[k].installation = creation[k].installation
      BY <1>4, <1>t DEF abandonCode, Creation
    <2>2. CodesOf(i)' = CodesOf(i)
      BY <2>1 DEF CodesOf
    <2>3. CodesOf(i) \subseteq Code
      BY DEF CodesOf
    <2> QED
      BY <2>1, <2>2, <2>3, <1>i DEF OneUnconsumed
  <1> QED
    BY <1>1, <1>2, <1>3, <1>4 DEF MakeCode

LEMMA StepInTurn ==
    ASSUME CodeInv, CodesInTurn, [Next]_vars
    PROVE  CodesInTurn'
  <1>1. ASSUME NEW k \in Code, MakeCode(k) PROVE CodesInTurn'
    BY <1>1, MakeCodeInTurn
  <1>2. ASSUME NEW d \in Device, Connector(d) PROVE CodesInTurn'
    BY <1>2, TurnKept DEF Connector, pair, storeToken, giveUp, codeVars
  <1>3. ASSUME NEW r \in Request, Consume(r) PROVE CodesInTurn'
    <2>1. UNCHANGED <<creation, sideBySide>>
      BY <1>3 DEF Consume, selectCode, refuseCode, pairConnector, rollback, codeVars
    <2>2. \A q \in Code : row'[q] = "unconsumed" => row[q] = "unconsumed"
      BY <1>3 DEF Consume, selectCode, refuseCode, pairConnector, rollback, Undoes, codeVars,
         CodeInv, TypeOK
    <2> QED
      BY <2>1, <2>2, TurnKept
  <1>4. ASSUME NEW r \in Request, admit(r) PROVE CodesInTurn'
    BY <1>4, TurnKept DEF admit, codeVars
  <1>5. CASE guess \/ passTime \/ UNCHANGED vars
    BY <1>5, TurnKept DEF guess, passTime, vars, codeVars
  <1> QED
    BY <1>1, <1>2, <1>3, <1>4, <1>5 DEF Next

---------------------------------------------------------------------------
(***************************************************************************)
(* The current request of a device is the last one that paired it.         *)
(***************************************************************************)

\* Nothing about requests changes: codes do not come back, and installations
\* do not leave sideBySide.
LEMMA LastKept ==
    ASSUME NEW d \in Device, NEW r \in Request, LastPairing(d, r),
           CodesKnown, UNCHANGED <<request, credentials>>,
           device'[d].token = r => Paired(r),
           sideBySide \subseteq sideBySide',
           \A k \in Code : creation[k].phase = "shown" =>
             /\ creation'[k].installation = creation[k].installation
             /\ row'[k] = "unconsumed" => row[k] = "unconsumed"
    PROVE  LastPairing(d, r)'
  <1>1. \A q \in Request : request[q].phase # "none" =>
          /\ Home(q)' = Home(q)
          /\ row'[request[q].code] = "unconsumed" => row[request[q].code] = "unconsumed"
    BY DEF CodesKnown, Home
  <1> QED
    BY <1>1 DEF LastPairing, Paired

LEMMA MakeCodeLast ==
    ASSUME CodeInv, CurrentIsLast, NEW k \in Code, MakeCode(k)
    PROVE  CurrentIsLast'
  <1>1. UNCHANGED <<request, credentials, device>> /\ sideBySide \subseteq sideBySide'
    BY DEF MakeCode, createPairingCode, deleteUnconsumed, insertCode, abandonCode, requestVars
  <1>2. \A q \in Code : creation[q].phase = "shown" =>
          /\ creation'[q].installation = creation[q].installation
          /\ row'[q] = "unconsumed" => row[q] = "unconsumed"
    BY DEF MakeCode, createPairingCode, deleteUnconsumed, insertCode, abandonCode, CodeInv,
       TypeOK, Creation
  <1>3. ASSUME NEW d \in Device, NEW r \in Request, IsCurrent(d, r)'
        PROVE  LastPairing(d, r)'
    <2>1. LastPairing(d, r)
      BY <1>1, <1>3 DEF CurrentIsLast, IsCurrent
    <2>2. device'[d].token = r => Paired(r)
      BY <1>1, <2>1 DEF LastPairing
    <2> QED
      BY <1>1, <1>2, <2>1, <2>2, LastKept DEF CodeInv
  <1> QED
    BY <1>3 DEF CurrentIsLast

LEMMA ConnectorLast ==
    ASSUME CodeInv, CurrentIsLast, NEW c \in Device, Connector(c)
    PROVE  CurrentIsLast'
  <1>0. TypeOK /\ CodesKnown
    BY DEF CodeInv
  <1> SUFFICES ASSUME NEW d \in Device, NEW r \in Request, IsCurrent(d, r)'
               PROVE  LastPairing(d, r)'
    BY DEF CurrentIsLast
  <1>n. r # None
    BY PairingAssumption DEF PairingAssumption
  <1>1. ASSUME NEW p \in Request, NEW k \in Code, pair(c, p, k) PROVE LastPairing(d, r)'
    <2>1. /\ device[c].token = None /\ request[p].phase = "none"
          /\ device' = [device EXCEPT ![c].asking = p]
          /\ request'[p] = [phase |-> "sent", device |-> c, code |-> k]
          /\ \A q \in Request : q # p => request'[q] = request[q]
          /\ UNCHANGED <<creation, row, credentials, sideBySide>>
      BY <1>0, <1>1 DEF pair, codeVars, TypeOK
    <2>2. CASE d = c
      <3>1. r = p /\ device'[d].token # r
        BY <1>0, <1>n, <2>1, <2>2 DEF IsCurrent, TypeOK
      <3> QED
        BY <2>1, <2>2, <3>1 DEF LastPairing, Paired
    <2>3. CASE d # c
      <3>1. LastPairing(d, r) /\ device'[d] = device[d]
        BY <1>0, <2>1, <2>3 DEF IsCurrent, CurrentIsLast, TypeOK
      <3>2. r # p /\ request'[r] = request[r] /\ Home(r)' = Home(r)
        BY <2>1, <3>1 DEF LastPairing, Home
      <3>3. \A q \in Request : request'[q].phase # "none" /\ request'[q].device = d =>
              request'[q] = request[q] /\ Home(q)' = Home(q)
        BY <2>1, <2>3 DEF Home
      <3> QED
        BY <2>1, <3>1, <3>2, <3>3 DEF LastPairing, Paired
    <2> QED
      BY <2>2, <2>3
  <1>2. CASE storeToken(c) \/ giveUp(c)
    <2>1. UNCHANGED <<creation, row, request, credentials, sideBySide>>
      BY <1>2 DEF storeToken, giveUp, codeVars, requestVars
    <2>2. IsCurrent(d, r) /\ (device'[d].token = r => Paired(r))
      <3>1. CASE d # c
        <4>1. device'[d] = device[d]
          BY <1>0, <1>2, <3>1 DEF storeToken, giveUp, TypeOK
        <4> QED
          BY <4>1 DEF IsCurrent, CurrentIsLast, LastPairing
      <3>2. CASE d = c /\ storeToken(c)
        <4>1. device'[d] = [asking |-> None, token |-> device[d].asking]
          BY <1>0, <3>2 DEF storeToken, TypeOK
        <4> QED
          BY <1>n, <3>2, <4>1 DEF storeToken, IsCurrent, Paired
      <3>3. CASE d = c /\ giveUp(c)
        <4>1. device'[d].asking = None /\ device'[d].token = device[d].token
          BY <1>0, <3>3 DEF giveUp, TypeOK
        <4> QED
          BY <1>n, <4>1 DEF IsCurrent, CurrentIsLast, LastPairing
      <3> QED
        BY <1>2, <3>1, <3>2, <3>3
    <2> QED
      BY <1>0, <2>1, <2>2, LastKept DEF CurrentIsLast
  <1> QED
    BY <1>1, <1>2 DEF Connector

\* A request changes its phase without being paired.
LEMMA PhaseLast ==
    ASSUME CodeInv, CurrentIsLast, NEW p \in Request, NEW x,
           x # "none", x # "paired",
           request[p].phase \notin {"none", "paired"},
           request' = [request EXCEPT ![p].phase = x],
           UNCHANGED <<codeVars, credentials, device, sideBySide>>
    PROVE  CurrentIsLast'
  <1>1. \A q \in Request :
          /\ request'[q].device = request[q].device /\ request'[q].code = request[q].code
          /\ request'[q].phase = "none" <=> request[q].phase = "none"
          /\ request'[q].phase = "paired" <=> request[q].phase = "paired"
          /\ Home(q)' = Home(q)
    BY DEF CodeInv, TypeOK, PairRequest, Home, codeVars
  <1> QED
    BY <1>1 DEF CurrentIsLast, IsCurrent, LastPairing, Paired, codeVars

LEMMA PairConnectorLast ==
    ASSUME CodeInv, CodesInTurn, CurrentIsLast, NEW p \in Request, pairConnector(p)
    PROVE  CurrentIsLast'
  <1>0. TypeOK /\ CodesKnown /\ LocksHeld
    BY DEF CodeInv
  <1>1. /\ request[p].phase = "write" /\ request[p].code \in Code
        /\ row[request[p].code] = "unconsumed"
        /\ request[p].device \in Device /\ Home(p) \in Installation
    BY <1>0, PairingAssumption
       DEF pairConnector, LocksHeld, CodesKnown, Home, PairingAssumption
  <1>2. /\ \A q \in Request : /\ request'[q].device = request[q].device
                              /\ request'[q].code = request[q].code
                              /\ request'[q].phase = "none" <=> request[q].phase = "none"
                              /\ Home(q)' = Home(q)
                              /\ q # p => request'[q] = request[q]
        /\ request'[p].phase = "paired"
        /\ UNCHANGED <<device, sideBySide>>
    BY <1>0, <1>1 DEF pairConnector, TypeOK, PairRequest, Home
  <1>3. /\ credentials'[Home(p)][request[p].device] = p
        /\ \A i \in Installation, d \in Device :
             i # Home(p) \/ d # request[p].device => credentials'[i][d] = credentials[i][d]
    BY <1>0, <1>1 DEF pairConnector, TypeOK, Home
  <1>4. /\ row'[request[p].code] = "consumed"
        /\ \A k \in Code : row'[k] = "unconsumed" =>
             row[k] = "unconsumed" /\ k # request[p].code
    BY <1>0, <1>1 DEF pairConnector, TypeOK
  <1>k. \A q \in Request : request[q].phase # "none" =>
          request[q].code \in Code /\ Home(q) \in Installation /\ request[q].code \in CodesOf(Home(q))
    BY <1>0 DEF CodesKnown, Home, CodesOf
  <1> SUFFICES ASSUME NEW d \in Device, NEW r \in Request, IsCurrent(d, r)'
               PROVE  LastPairing(d, r)'
    BY DEF CurrentIsLast
  <1>5. LastPairing(d, r)
    BY <1>2 DEF IsCurrent, CurrentIsLast
  <1>6. CASE r = p
    <2>1. ASSUME Home(p) \notin sideBySide,
                 NEW q \in Request, request[q].phase # "none", Home(q) = Home(p),
                 row'[request[q].code] = "unconsumed"
          PROVE  FALSE
      <3>1. row[request[q].code] = "unconsumed" /\ request[q].code # request[p].code
        BY <2>1, <1>4, <1>k
      <3>2. request[q].code \in CodesOf(Home(p)) /\ request[p].code \in CodesOf(Home(p))
        BY <2>1, <1>1, <1>k
      <3>3. OneUnconsumed(Home(p))
        BY <2>1, <1>1 DEF CodesInTurn
      <3> QED
        BY <3>1, <3>2, <3>3, <1>1 DEF OneUnconsumed
    <2>2. request[p].device = d
      BY <1>5, <1>6 DEF LastPairing
    <2> QED
      BY <1>2, <1>3, <1>6, <2>1, <2>2 DEF LastPairing, Paired
  <1>7. CASE r # p
    <2>1. ASSUME Paired(r), Home(r) \notin sideBySide
          PROVE  /\ credentials'[Home(r)][d] = r
                 /\ \A q \in Request :
                      request[q].phase # "none" /\ request[q].device = d /\ Home(q) = Home(r) =>
                        row'[request[q].code] # "unconsumed"
      <3>1. /\ credentials[Home(r)][d] = r
            /\ \A q \in Request :
                 request[q].phase # "none" /\ request[q].device = d /\ Home(q) = Home(r) =>
                   row[request[q].code] # "unconsumed"
        BY <2>1, <1>5 DEF LastPairing
      <3>2. Home(r) # Home(p) \/ d # request[p].device
        BY <3>1, <1>1
      <3>3. Home(r) \in Installation
        BY <1>5, <1>k DEF LastPairing
      <3> QED
        BY <3>1, <3>2, <3>3, <1>3, <1>4, <1>k
    <2>2. request'[r] = request[r] /\ Home(r)' = Home(r)
      BY <1>2, <1>7
    <2> QED
      BY <1>2, <1>5, <2>1, <2>2 DEF LastPairing, Paired
  <1> QED
    BY <1>6, <1>7

LEMMA StepLast ==
    ASSUME PairingInv, [Next]_vars
    PROVE  CurrentIsLast'
  <1>0. CodeInv /\ CodesInTurn /\ CurrentIsLast
    BY DEF PairingInv
  <1>1. ASSUME NEW k \in Code, MakeCode(k) PROVE CurrentIsLast'
    BY <1>0, <1>1, MakeCodeLast
  <1>2. ASSUME NEW d \in Device, Connector(d) PROVE CurrentIsLast'
    BY <1>0, <1>2, ConnectorLast
  <1>3. ASSUME NEW r \in Request, admit(r) \/ Consume(r) PROVE CurrentIsLast'
    <2>1. CASE pairConnector(r)
      BY <1>0, <2>1, PairConnectorLast
    <2>2. CASE selectCode(r)
      BY <1>0, <2>2, PhaseLast DEF selectCode
    <2>3. CASE refuseCode(r)
      BY <1>0, <2>3, PhaseLast DEF refuseCode
    <2>4. CASE rollback(r)
      BY <1>0, <2>4, PhaseLast DEF rollback, Undoes, codeVars
    <2>5. CASE admit(r)
      BY <1>0, <2>5, PhaseLast DEF admit
    <2> QED
      BY <1>3, <2>1, <2>2, <2>3, <2>4, <2>5 DEF Consume
  <1>4. CASE guess \/ passTime \/ UNCHANGED vars
    <2>1. UNCHANGED <<creation, row, request, credentials, device, sideBySide>>
      BY <1>4 DEF guess, passTime, vars, codeVars, requestVars
    <2> QED
      BY <1>0, <2>1 DEF CurrentIsLast, IsCurrent, LastPairing, Paired, Home
  <1> QED
    BY <1>1, <1>2, <1>3, <1>4 DEF Next

---------------------------------------------------------------------------
LEMMA PairingHolds == Spec => [](PairingInv /\ LimiterInv)
  <1>1. PairingInv /\ LimiterInv /\ [Next]_vars => (PairingInv /\ LimiterInv)'
    <2> SUFFICES ASSUME PairingInv, LimiterInv, [Next]_vars
                 PROVE  (PairingInv /\ LimiterInv)'
      OBVIOUS
    <2>1. LimiterInv'
      BY LimiterSteps, LimiterKept
    <2>2. CodeInv'
      BY <2>1, StepKeepsCodes DEF PairingInv
    <2>3. CodesInTurn'
      BY StepInTurn DEF PairingInv
    <2>4. CurrentIsLast'
      BY StepLast
    <2> QED
      BY <2>1, <2>2, <2>3, <2>4 DEF PairingInv
  <1> QED
    BY <1>1, PairingStarts, PTL DEF Spec

(***************************************************************************)
(* Every variable of pairing keeps its type; no call beyond the limit is   *)
(* counted as accepted.                                                    *)
(***************************************************************************)
THEOREM PairingTypeCorrect == Spec => []TypeOK
  <1>1. PairingInv => TypeOK
    BY DEF PairingInv, CodeInv
  <1> QED
    BY <1>1, PairingHolds, PTL

(***************************************************************************)
(* A consumed code paired exactly one connector, however many requests     *)
(* carry it and whatever fails.                                            *)
(***************************************************************************)
THEOREM CodesPairOnce == Spec => []CodePairsOnce
  <1>1. PairingInv => CodePairsOnce
    BY DEF PairingInv, CodeInv
  <1> QED
    BY <1>1, PairingHolds, PTL

(***************************************************************************)
(* A pairing that the connector has given up never replaces the token it   *)
(* has stored since, while codes are asked for one at a time.              *)
(***************************************************************************)
THEOREM StoredTokensAreLive == Spec => []StoredTokenIsLive
  <1>1. PairingInv => StoredTokenIsLive
    <2> SUFFICES ASSUME PairingInv, NEW d \in Device, device[d].token # None
                 PROVE  LET r == device[d].token
                            i == creation[request[r].code].installation
                        IN  i \in sideBySide \/ credentials[i][d] = r
      BY DEF StoredTokenIsLive
    <2> DEFINE r == device[d].token
    <2>1. r \in Request
      BY DEF PairingInv, CodeInv, TypeOK
    <2>2. LastPairing(d, r)
      BY <2>1 DEF PairingInv, CurrentIsLast, IsCurrent
    <2> QED
      BY <2>2 DEF LastPairing, Home
  <1> QED
    BY <1>1, PairingHolds, PTL

(***************************************************************************)
(* Within any span of a window's length the limiter admits fewer than      *)
(* twice its limit, for any limit and any window.                          *)
(***************************************************************************)
THEOREM AttemptsAreBounded == Spec => []RateBound
  BY LimiterBounds, PairingHolds, PTL

---------------------------------------------------------------------------
(***************************************************************************)
(* Refusals.  LimiterInv says which windows the accepted calls are of; it  *)
(* does not say that the calls counted were accepted.  KeyIsCounted does:  *)
(* as many of the last accepted calls as the key counts, up to the limit,  *)
(* are of the key's window.                                                *)
(***************************************************************************)

KeyIsCounted ==
  /\ CountAccepted <= Len(accepted)
  /\ \A n \in 1 .. Len(accepted) :
       n > Len(accepted) - CountAccepted => accepted[n].window + Window = rate.expiresAt

LEMMA KeyStarts == LimiterInit => KeyIsCounted
  BY LimiterAssumption DEF LimiterAssumption, LimiterInit, KeyIsCounted, CountAccepted

LEMMA ConsumeCounts ==
    ASSUME LimiterInv, KeyIsCounted, consume
    PROVE  KeyIsCounted'
  <1>t. LimiterTypeOK /\ Limit \in Nat \ {0} /\ Window \in Nat \ {0}
    BY LimiterAssumption DEF LimiterAssumption, LimiterInv
  <1>n. /\ now \in Nat /\ rate.count \in Nat /\ rate.expiresAt \in Nat
        /\ Len(accepted) \in Nat
    BY <1>t, LimiterFacts
  <1>r. rate'.count = Current /\ rate'.expiresAt = ExpiresAt
    BY <1>t DEF consume
  <1>c. \/ Current = 1
        \/ Current = rate.count + 1 /\ rate.count > 0 /\ ExpiresAt = rate.expiresAt
    BY <1>n DEF LimiterInv, Current, ExpiresAt
  <1>1. CASE ~Within
    <2>1. accepted' = accepted /\ Current > Limit
      BY <1>1, <1>c, <1>n, <1>t DEF consume, Within
    <2>2. ExpiresAt = rate.expiresAt /\ CountAccepted' = CountAccepted
      BY <2>1, <1>c, <1>r, <1>n, <1>t DEF CountAccepted
    <2> QED
      BY <2>1, <2>2, <1>r DEF KeyIsCounted
  <1>2. CASE Within
    <2> DEFINE L == Len(accepted)
    <2>1. /\ Len(accepted') = L + 1
          /\ \A n \in 1 .. L : accepted'[n] = accepted[n]
          /\ accepted'[L + 1].window = ExpiresAt - Window
      BY <1>2, <1>t, Appended
    <2>2. /\ CountAccepted' = Current /\ Current <= Limit
          /\ Current \in Nat \ {0} /\ ExpiresAt \in Nat
      BY <1>2, <1>c, <1>r, <1>n, <1>t DEF Within, CountAccepted, ExpiresAt
    <2>3. CountAccepted \in Nat /\ Current <= CountAccepted + 1
      BY <2>2, <1>c, <1>n, <1>t DEF CountAccepted
    <2>4. CountAccepted' <= Len(accepted')
      BY <2>1, <2>2, <2>3, <1>n DEF KeyIsCounted
    <2>5. ASSUME NEW n \in 1 .. L + 1, n > L + 1 - Current
          PROVE  accepted'[n].window + Window = ExpiresAt
      <3>1. CASE n = L + 1
        BY <3>1, <2>1, <2>2, <1>t
      <3>2. CASE n # L + 1
        <4>1. n \in 1 .. L /\ Current # 1
          BY <3>2, <2>5, <1>n
        <4>2. Current = rate.count + 1 /\ ExpiresAt = rate.expiresAt
          BY <4>1, <1>c
        <4>3. n > L - CountAccepted
          BY <4>1, <2>2, <2>3, <2>5, <1>n
        <4>4. accepted[n].window + Window = rate.expiresAt
          BY <4>1, <4>3 DEF KeyIsCounted
        <4> QED
          BY <4>1, <4>2, <4>4, <2>1
      <3> QED
        BY <3>1, <3>2
    <2>6. ASSUME NEW n \in 1 .. Len(accepted'), n > Len(accepted') - CountAccepted'
          PROVE  accepted'[n].window + Window = rate'.expiresAt
      BY <2>1, <2>2, <2>5, <2>6, <1>r
    <2> QED
      BY <2>4, <2>6 DEF KeyIsCounted
  <1> QED
    BY <1>1, <1>2

LEMMA KeyHolds == Spec => []KeyIsCounted
  <1>1. LimiterInv /\ KeyIsCounted /\ [Next]_vars => KeyIsCounted'
    <2> SUFFICES ASSUME LimiterInv, KeyIsCounted, [Next]_vars PROVE KeyIsCounted'
      OBVIOUS
    <2>1. consume \/ UNCHANGED <<rate, accepted>>
      BY LimiterSteps DEF tick, limiterVars
    <2> QED
      BY <2>1, ConsumeCounts DEF KeyIsCounted, CountAccepted
  <1>2. Init => KeyIsCounted
    BY KeyStarts DEF Init
  <1> QED
    BY <1>1, <1>2, PairingHolds, PTL DEF Spec

(***************************************************************************)
(* An attempt is refused only if the limit was used up by attempts that    *)
(* were accepted less than a window's length ago, for any limit and any    *)
(* window: refused attempts do not prolong the refusal.                    *)
(***************************************************************************)
THEOREM RefusalsAreDeserved == Spec => []RefusalsAreEarned
  <1>1. LimiterInv /\ KeyIsCounted => RefusalsAreEarned
    <2> SUFFICES ASSUME LimiterInv, KeyIsCounted, ~Within
                 PROVE  /\ Len(accepted) >= Limit
                        /\ now - accepted[Len(accepted) - Limit + 1].at < Window
      BY DEF RefusalsAreEarned
    <2>t. /\ Limit \in Nat \ {0} /\ Window \in Nat \ {0} /\ Len(accepted) \in Nat
          /\ now \in Nat /\ rate.count \in Nat /\ rate.expiresAt \in Nat
      BY LimiterFacts DEF LimiterInv
    <2>1. now < rate.expiresAt /\ CountAccepted = Limit
      BY <2>t DEF Within, Current, CountAccepted
    <2>2. Len(accepted) >= Limit
      BY <2>1 DEF KeyIsCounted
    <2>3. PICK n \in 1 .. Len(accepted) : n = Len(accepted) - Limit + 1
      <3>1. \A l, k \in Nat : k # 0 /\ l >= k => l - k + 1 \in 1 .. l
        OBVIOUS
      <3> QED
        BY <3>1, <2>2, <2>t
    <2>4. accepted[n].window + Window = rate.expiresAt
      BY <2>1, <2>3, <2>t DEF KeyIsCounted
    <2>5. accepted[n].window <= accepted[n].at
      BY DEF LimiterInv, InItsWindow
    <2>6. accepted[n].window \in Nat /\ accepted[n].at \in Nat
      BY LimiterFacts DEF LimiterInv
    <2>7. now - accepted[n].at < Window
      <3>1. \A t, e, v, w, a \in Nat : t < e /\ v + w = e /\ v <= a => t - a < w
        OBVIOUS
      <3> QED
        BY <3>1, <2>1, <2>4, <2>5, <2>6, <2>t
    <2> QED
      BY <2>2, <2>3, <2>7
  <1> QED
    BY <1>1, PairingHolds, KeyHolds, PTL

---------------------------------------------------------------------------
(***************************************************************************)
(* One step of pairing is a step, or a stutter, of the one-time codes.     *)
(***************************************************************************)

MadeFor(k) == IF creation[k].phase = "shown" THEN creation[k].installation ELSE None

Users(k) == {r \in Request : Paired(r) /\ request[r].code = k}

LEMMA CodesStutter ==
    ASSUME \A k \in Code : /\ Status(k)' = Status(k)
                           /\ MadeFor(k)' = MadeFor(k)
                           /\ Users(k)' = Users(k),
           UNCHANGED credentials
    PROVE  UNCHANGED OneTime!vars
  <1>1. [k \in Code |-> Status(k)]' = [k \in Code |-> Status(k)]
    OBVIOUS
  <1>2. [k \in Code |-> MadeFor(k)]' = [k \in Code |-> MadeFor(k)]
    OBVIOUS
  <1>3. [k \in Code |-> Users(k)]' = [k \in Code |-> Users(k)]
    OBVIOUS
  <1> QED
    BY <1>1, <1>2, <1>3 DEF OneTime!vars, MadeFor, Users

\* Requests that are paired, or not, as before leave the users alone.
LEMMA UsersKept ==
    ASSUME NEW k \in Code,
           \A r \in Request : /\ Paired(r)' <=> Paired(r)
                              /\ Paired(r) => request'[r].code = request[r].code
    PROVE  Users(k)' = Users(k)
  BY DEF Users

LEMMA MakeCodeImplements ==
    ASSUME CodeInv, NEW k \in Code, MakeCode(k)
    PROVE  [OneTime!Next]_(OneTime!vars)
  <1>0. /\ creation \in [Code -> Creation]
        /\ row \in [Code -> {"absent", "unconsumed", "consumed"}]
        /\ CodesKnown
    BY DEF CodeInv, TypeOK
  <1>u. UNCHANGED <<request, credentials>> /\ \A q \in Code : Users(q)' = Users(q)
    <2>1. UNCHANGED <<request, credentials>>
      BY DEF MakeCode, createPairingCode, deleteUnconsumed, insertCode, abandonCode, requestVars
    <2> QED
      BY <2>1 DEF Users, Paired
  <1>1. ASSUME NEW i \in Installation, createPairingCode(k, i)
        PROVE  UNCHANGED OneTime!vars
    <2>1. /\ creation[k].phase = "none" /\ creation'[k].phase = "deleting"
          /\ \A q \in Code \ {k} : creation'[q] = creation[q]
          /\ row' = row
      BY <1>0, <1>1 DEF createPairingCode
    <2> QED
      BY <1>u, <2>1, CodesStutter DEF Status, MadeFor
  <1>2. CASE deleteUnconsumed(k)
    <2> DEFINE S == {q \in creation[k].seen : row[q] = "unconsumed"}
    <2>1. \A q \in Code : /\ creation'[q].installation = creation[q].installation
                          /\ creation'[q].phase = "shown" <=> creation[q].phase = "shown"
      BY <1>0, <1>2 DEF deleteUnconsumed, Creation
    <2>2. S \in SUBSET Code /\ \A q \in S : Status(q) = "valid"
      BY <1>0 DEF Creation, Status
    <2>3. \A q \in Code : Status(q)' = IF q \in S THEN "revoked" ELSE Status(q)
      BY <1>0, <1>2, <2>1 DEF deleteUnconsumed, CodesKnown, Status
    <2>4. \A q \in Code : MadeFor(q)' = MadeFor(q)
      BY <2>1 DEF MadeFor
    <2>5. OneTime!Revoke(S)
      <3>1. [q \in Code |-> Status(q)]' = [q \in Code |-> IF q \in S THEN "revoked" ELSE Status(q)]
        BY <2>3
      <3>2. [q \in Code |-> MadeFor(q)]' = [q \in Code |-> MadeFor(q)]
        BY <2>4
      <3>3. [q \in Code |-> Users(q)]' = [q \in Code |-> Users(q)]
        BY <1>u
      <3> QED
        BY <1>u, <2>2, <3>1, <3>2, <3>3 DEF OneTime!Revoke, MadeFor, Users
    <2>6. \E T \in SUBSET Code : OneTime!Revoke(T)
      <3>1. PICK T \in SUBSET Code : T = S
        BY <2>2
      <3>2. OneTime!Revoke(T)
        BY <2>5, <3>1 DEF OneTime!Revoke
      <3> QED
        BY <3>2
    <2> QED
      BY <2>6 DEF OneTime!Next
  <1>3. CASE insertCode(k)
    <2>1. PICK i \in Installation : i = creation[k].installation
      BY <1>0, <1>3 DEF insertCode, CodesKnown
    <2>2. /\ creation'[k].phase = "shown" /\ creation'[k].installation = i
          /\ \A q \in Code \ {k} : creation'[q] = creation[q]
          /\ row' = [row EXCEPT ![k] = "unconsumed"]
      BY <1>0, <1>3, <2>1 DEF insertCode, Creation
    <2>3. Status(k) = "unmade"
      BY <1>0, <1>3 DEF insertCode, CodesKnown, Status
    <2>4. \A q \in Code : /\ Status(q)' = IF q = k THEN "valid" ELSE Status(q)
                          /\ MadeFor(q)' = IF q = k THEN i ELSE MadeFor(q)
      BY <1>0, <2>2 DEF Status, MadeFor
    <2>5. OneTime!Make(k, i)
      <3>1. [q \in Code |-> Status(q)]' = [[q \in Code |-> Status(q)] EXCEPT ![k] = "valid"]
        BY <2>4
      <3>2. [q \in Code |-> MadeFor(q)]' = [[q \in Code |-> MadeFor(q)] EXCEPT ![k] = i]
        BY <2>4
      <3>3. [q \in Code |-> Users(q)]' = [q \in Code |-> Users(q)]
        BY <1>u
      <3> QED
        BY <1>u, <2>3, <3>1, <3>2, <3>3 DEF OneTime!Make, MadeFor, Users
    <2> QED
      BY <2>5 DEF OneTime!Next
  <1>4. CASE abandonCode(k)
    <2>1. /\ creation[k].phase # "shown" /\ creation'[k].phase # "shown"
          /\ \A q \in Code \ {k} : creation'[q] = creation[q]
          /\ row' = row
      BY <1>0, <1>4 DEF abandonCode, Creation
    <2> QED
      BY <1>u, <2>1, CodesStutter DEF Status, MadeFor
  <1> QED
    BY <1>1, <1>2, <1>3, <1>4 DEF MakeCode

LEMMA ConsumeImplements ==
    ASSUME CodeInv, NEW r \in Request, Consume(r)
    PROVE  [OneTime!Next]_(OneTime!vars)
  <1>0. /\ request \in [Request -> PairRequest]
        /\ row \in [Code -> {"absent", "unconsumed", "consumed"}]
        /\ CodesKnown /\ LocksHeld /\ CodePairsOnce
    BY DEF CodeInv, TypeOK
  <1>c. creation' = creation
    BY DEF Consume, selectCode, refuseCode, pairConnector, rollback, codeVars
  <1>m. \A k \in Code : MadeFor(k)' = MadeFor(k)
    BY <1>c DEF MadeFor
  <1>1. CASE selectCode(r) \/ refuseCode(r) \/ rollback(r)
    <2>1. /\ UNCHANGED <<row, credentials>>
          /\ \A q \in Request : request'[q].code = request[q].code
          /\ \A q \in Request : Paired(q)' <=> Paired(q)
      BY <1>0, <1>1 DEF selectCode, refuseCode, rollback, Undoes, codeVars, PairRequest, Paired
    <2>2. \A k \in Code : Status(k)' = Status(k) /\ Users(k)' = Users(k)
      BY <1>c, <2>1, UsersKept DEF Status
    <2> QED
      BY <1>m, <2>1, <2>2, CodesStutter
  <1>2. CASE pairConnector(r)
    <2>1. PICK k \in Code, d \in Device : k = request[r].code /\ d = request[r].device
      BY <1>0, <1>2 DEF pairConnector, CodesKnown
    <2>2. /\ row[k] = "unconsumed" /\ creation[k].phase = "shown"
          /\ ~ Paired(r) /\ \A q \in Request : Paired(q) => request[q].code # k
      <3>1. request[r].phase = "write" /\ lock[k] = r
        BY <1>0, <1>2, <2>1 DEF pairConnector, LocksHeld
      <3>2. row[k] = "unconsumed" /\ creation[k].phase = "shown"
        BY <1>0, <2>1, <3>1, PairingAssumption DEF LocksHeld, CodesKnown, PairingAssumption
      <3> QED
        BY <1>0, <3>1, <3>2 DEF CodePairsOnce, Paired
    <2>3. /\ \A q \in Code : row'[q] = IF q = k THEN "consumed" ELSE row[q]
          /\ credentials' = [credentials EXCEPT ![creation[k].installation][d] = r]
          /\ \A q \in Request : request'[q].code = request[q].code
          /\ \A q \in Request : Paired(q)' <=> Paired(q) \/ q = r
      BY <1>0, <1>2, <2>1, <2>2 DEF pairConnector, PairRequest, Paired
    <2>4. \A q \in Code : Status(q)' = IF q = k THEN "used" ELSE Status(q)
      BY <1>c, <2>3 DEF Status
    <2>5. \A q \in Code : Users(q)' = IF q = k THEN {r} ELSE Users(q)
      BY <2>1, <2>2, <2>3 DEF Users
    <2>6. /\ Status(k) = "valid" /\ MadeFor(k) = creation[k].installation
          /\ \A q \in Code : r \notin Users(q)
      BY <2>2 DEF Status, MadeFor, Users
    <2>7. OneTime!Use(k, r, d)
      <3>1. [q \in Code |-> Status(q)]' = [[q \in Code |-> Status(q)] EXCEPT ![k] = "used"]
        BY <2>4
      <3>2. [q \in Code |-> Users(q)]' = [[q \in Code |-> Users(q)] EXCEPT ![k] = {r}]
        BY <2>5
      <3>3. [q \in Code |-> MadeFor(q)]' = [q \in Code |-> MadeFor(q)]
        BY <1>m
      <3>4. credentials' =
              [credentials EXCEPT ![[q \in Code |-> MadeFor(q)][k]][d] = r]
        BY <2>3, <2>6
      <3> QED
        BY <2>6, <3>1, <3>2, <3>3, <3>4 DEF OneTime!Use, MadeFor, Users
    <2> QED
      BY <2>7 DEF OneTime!Next
  <1> QED
    BY <1>1, <1>2 DEF Consume

LEMMA StepImplements ==
    ASSUME CodeInv, [Next]_vars
    PROVE  [OneTime!Next]_(OneTime!vars)
  <1>0. request \in [Request -> PairRequest]
    BY DEF CodeInv, TypeOK
  <1>1. ASSUME UNCHANGED <<creation, row, credentials>>,
               \A r \in Request : /\ Paired(r)' <=> Paired(r)
                                  /\ Paired(r) => request'[r].code = request[r].code
        PROVE  UNCHANGED OneTime!vars
    <2>1. \A k \in Code : Status(k)' = Status(k) /\ MadeFor(k)' = MadeFor(k)
      BY <1>1 DEF Status, MadeFor
    <2> QED
      BY <1>1, <2>1, UsersKept, CodesStutter
  <1>2. ASSUME NEW d \in Device, Connector(d) PROVE UNCHANGED OneTime!vars
    <2>1. UNCHANGED <<creation, row, credentials>>
      BY <1>2 DEF Connector, pair, storeToken, giveUp, codeVars, requestVars
    <2>2. \A r \in Request : /\ Paired(r)' <=> Paired(r)
                             /\ Paired(r) => request'[r].code = request[r].code
      BY <1>0, <1>2 DEF Connector, pair, storeToken, giveUp, requestVars, Paired
    <2> QED
      BY <1>1, <2>1, <2>2
  <1>3. ASSUME NEW r \in Request, admit(r) PROVE UNCHANGED OneTime!vars
    <2>1. UNCHANGED <<creation, row, credentials>>
      BY <1>3 DEF admit, codeVars
    <2>2. \A q \in Request : /\ Paired(q)' <=> Paired(q)
                             /\ Paired(q) => request'[q].code = request[q].code
      BY <1>0, <1>3 DEF admit, PairRequest, Paired
    <2> QED
      BY <1>1, <2>1, <2>2
  <1>4. CASE guess \/ passTime \/ UNCHANGED vars
    BY <1>1, <1>4 DEF guess, passTime, vars, codeVars, requestVars, Paired
  <1> QED
    BY <1>2, <1>3, <1>4, MakeCodeImplements, ConsumeImplements DEF Next

(***************************************************************************)
(* Pairing implements one-time codes: statements that fail, requests that  *)
(* race and codes that are replaced while they are used never show.        *)
(***************************************************************************)
THEOREM OneTimeImplemented == Spec => ImplementsOneTime
  <1>1. Init => OneTime!Init
    BY DEF Init, OneTime!Init, Status, Paired
  <1>2. PairingInv => CodeInv
    BY DEF PairingInv
  <1> QED
    BY <1>1, <1>2, PairingHolds, StepImplements, PTL
       DEF Spec, ImplementsOneTime, OneTime!Spec
=============================================================================
