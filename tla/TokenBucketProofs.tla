-------------------------- MODULE TokenBucketProofs --------------------------
(***************************************************************************)
(* What holds of the rate limiter for any capacity, refill and interval,   *)
(* however the wall clock is set back and forth.                           *)
(***************************************************************************)
EXTENDS TokenBucket, TLAPS

-----------------------------------------------------------------------------
(* Periods of the clock.                                                   *)

\* The interval of the grid an instant lies in.
Period(t) == t \div RefillInterval

USE OptionsAssumption

LEMMA Product ==
  ASSUME NEW p \in Int, NEW q \in Int, NEW r \in Nat, p < q
  PROVE  r * p \in Int /\ r * q \in Int /\ r * p + r <= r * q
<1>1. q - p - 1 \in Nat OBVIOUS
<1>2. r * (q - p - 1) >= 0 BY <1>1
<1>3. r * (q - p - 1) = r * q - r * p - r OBVIOUS
<1>4. QED BY <1>2, <1>3

LEMMA PeriodBounds ==
  ASSUME NEW t \in Int
  PROVE  /\ Period(t) \in Int
         /\ RefillInterval * Period(t) <= t
         /\ t < RefillInterval * Period(t) + RefillInterval
         /\ t % RefillInterval = t - RefillInterval * Period(t)
BY DEF Period

\* An instant lies in one period.
LEMMA PeriodUnique ==
  ASSUME NEW t \in Int, NEW q \in Int,
         RefillInterval * q <= t, t < RefillInterval * q + RefillInterval
  PROVE  Period(t) = q
<1>1. /\ Period(t) \in Int /\ RefillInterval * Period(t) <= t
      /\ t < RefillInterval * Period(t) + RefillInterval
  BY PeriodBounds
<1>2. ~(Period(t) < q)
  <2>1. SUFFICES ASSUME Period(t) < q PROVE FALSE OBVIOUS
  <2>2. RefillInterval * Period(t) + RefillInterval <= RefillInterval * q BY <1>1, <2>1, Product
  <2>3. QED BY <1>1, <2>2
<1>3. ~(q < Period(t))
  <2>1. SUFFICES ASSUME q < Period(t) PROVE FALSE OBVIOUS
  <2>2. RefillInterval * q + RefillInterval <= RefillInterval * Period(t) BY <1>1, <2>1, Product
  <2>3. QED BY <1>1, <2>2
<1>4. QED BY <1>1, <1>2, <1>3

LEMMA PeriodMonotone ==
  ASSUME NEW s \in Int, NEW t \in Int, s <= t
  PROVE  Period(s) <= Period(t)
<1>1. SUFFICES ASSUME Period(t) < Period(s) PROVE FALSE BY PeriodBounds
<1>2. RefillInterval * Period(t) + RefillInterval <= RefillInterval * Period(s)
  BY <1>1, PeriodBounds, Product
<1>3. QED BY <1>2, PeriodBounds

\* No more periods begin in a span of time than fit in it, and one.
LEMMA PeriodsOfSpan ==
  ASSUME NEW s \in Int, NEW t \in Int
  PROVE  Period(t) - Period(s) <= (t - s) \div RefillInterval + 1
<1> DEFINE d == Period(t - s)
<1>1. t - s < RefillInterval * d + RefillInterval /\ d \in Int
  <2>1. t - s \in Int OBVIOUS
  <2>2. QED BY <2>1, PeriodBounds
<1> HIDE DEF d
<1>2. t < RefillInterval * (Period(s) + d + 2)
  <2>1. s < RefillInterval * Period(s) + RefillInterval /\ Period(s) \in Int BY PeriodBounds
  <2>2. RefillInterval * (Period(s) + d + 2)
          = RefillInterval * Period(s) + RefillInterval * d + 2 * RefillInterval
    BY <1>1, <2>1
  <2>3. QED BY <1>1, <2>1, <2>2
<1>3. ~(Period(s) + d + 2 <= Period(t))
  <2>1. SUFFICES ASSUME Period(s) + d + 2 <= Period(t) PROVE FALSE OBVIOUS
  <2>2. Period(s) + d + 2 \in Int /\ Period(t) \in Int BY <1>1, PeriodBounds
  <2>3. RefillInterval * (Period(s) + d + 2) <= RefillInterval * Period(t)
    BY <2>1, <2>2, Product
  <2>4. QED BY <1>2, <2>2, <2>3, PeriodBounds
<1>4. Period(t) - Period(s) <= d + 1 BY <1>1, <1>3, PeriodBounds
<1>5. QED BY <1>4 DEF d, Period

-----------------------------------------------------------------------------
(* The inductive invariant.                                                *)

ClockInBounds == earliest <= now /\ now <= latest

\* The tokens a window has had are at most a bucket and those of the periods since the
\* period it began in; one that has not reached this period was not asked in the window.
GridBound ==
  IF Period(earliest) <= Period(lastRefillAt)
  THEN allowed + tokens
         <= Capacity + RefillTokens * (Period(lastRefillAt) - Period(earliest))
  ELSE allowed = 0

IInv == TypeOK /\ ClockInBounds /\ RefillsOnTheGrid /\ GridBound

USE DEF Lesser, Greater, NothingToRefill, Capped, RefillInstant

LEMMA Instants ==
  ASSUME IInv
  PROVE  /\ lastRefillAt \in Int /\ now \in Int /\ latest \in Int /\ earliest \in Int
         /\ Period(lastRefillAt) \in Int /\ Period(now) \in Int
         /\ Period(latest) \in Int /\ Period(earliest) \in Int
<1>1. lastRefillAt \in Int /\ now \in Int /\ latest \in Int /\ earliest \in Int
  BY DEF IInv, TypeOK
<1>2. QED BY <1>1, PeriodBounds

-----------------------------------------------------------------------------
(* What refill() does.                                                     *)

\* Math.floor(elapsedMs / refillIntervalMs) is how many periods lie between.
LEMMA IntervalsArePeriods ==
  ASSUME IInv
  PROVE  /\ lastRefillAt = RefillInterval * Period(lastRefillAt)
         /\ Intervals = Period(now) - Period(lastRefillAt)
<1>1. lastRefillAt = RefillInterval * Period(lastRefillAt)
  <2>1. lastRefillAt % RefillInterval = 0 BY DEF IInv, RefillsOnTheGrid
  <2>2. QED BY <2>1, Instants, PeriodBounds
<1> DEFINE p == Period(lastRefillAt)
           q == Period(now)
<1>2. /\ p \in Int /\ q \in Int /\ lastRefillAt \in Int /\ now \in Int
      /\ RefillInterval * q <= now /\ now < RefillInterval * q + RefillInterval
  BY Instants, PeriodBounds
<1>3. lastRefillAt = RefillInterval * p BY <1>1
<1>4. Period(now - lastRefillAt) = q - p
  <2> HIDE DEF p, q
  <2>1. RefillInterval * (q - p) = RefillInterval * q - RefillInterval * p BY <1>2
  <2>2. /\ RefillInterval * (q - p) <= now - lastRefillAt
        /\ now - lastRefillAt < RefillInterval * (q - p) + RefillInterval
    BY <1>2, <1>3, <2>1
  <2>3. q - p \in Int /\ now - lastRefillAt \in Int BY <1>2
  <2>4. QED BY <2>2, <2>3, PeriodUnique
<1>5. QED BY <1>1, <1>4 DEF Intervals, Period

\* A refill that adds tokens goes to the start of the present period.
LEMMA RefillsToNow ==
  ASSUME IInv, ~NothingToRefill(Intervals)
  PROVE  /\ RefillInstant(Intervals) = RefillInterval * Period(now)
         /\ RefillInstant(Intervals) \in Nat
         /\ Period(RefillInstant(Intervals)) = Period(now)
<1> DEFINE p == Period(lastRefillAt)
           q == Period(now)
<1>1. p \in Int /\ q \in Int /\ Intervals = q - p /\ lastRefillAt = RefillInterval * p
  BY IntervalsArePeriods, PeriodBounds DEF IInv, TypeOK
<1>2. RefillInstant(Intervals) = RefillInterval * q
  <2> HIDE DEF p, q
  <2>1. RefillInterval * p + (q - p) * RefillInterval = RefillInterval * q BY <1>1
  <2>2. QED BY <1>1, <2>1
<1>3. lastRefillAt + RefillInterval <= RefillInterval * q
  <2> HIDE DEF p, q
  <2>1. p < q BY <1>1
  <2>2. QED BY <1>1, <2>1, Product
<1>4. RefillInterval * q \in Nat BY <1>1, <1>3 DEF IInv, TypeOK
<1>5. Period(RefillInterval * q) = q
  <2> HIDE DEF q
  <2>1. QED BY <1>1, <1>4, PeriodUnique
<1>6. QED BY <1>2, <1>4, <1>5

\* After a refill the bucket is in the period of the clock or a later one.
LEMMA RefilledInv ==
  ASSUME IInv
  PROVE  /\ Refilled.at \in Nat /\ Refilled.at % RefillInterval = 0 /\ Refilled.at <= latest
         /\ Refilled.tokens \in 0 .. Capacity
         /\ Period(earliest) <= Period(Refilled.at)
         /\ allowed + Refilled.tokens
              <= Capacity + RefillTokens * (Period(Refilled.at) - Period(earliest))
<1> DEFINE p == Period(lastRefillAt)
           q == Period(now)
           e == Period(earliest)
<1>1. p \in Int /\ q \in Int /\ e \in Int /\ Intervals = q - p /\ e <= q
  <2>1. earliest <= now BY DEF IInv, ClockInBounds
  <2>2. QED BY <2>1, IntervalsArePeriods, Instants, PeriodMonotone
<1>2. CASE NothingToRefill(Intervals)
  <2>1. Refilled = [tokens |-> tokens, at |-> lastRefillAt] BY <1>2 DEF Refilled
  <2>2. e <= p BY <1>1, <1>2
  <2>3. QED BY <2>1, <2>2 DEF IInv, TypeOK, RefillsOnTheGrid, GridBound
<1>3. CASE ~NothingToRefill(Intervals)
  <2> DEFINE n == q - p
  <2>1. Refilled = [tokens |-> Capped(tokens + n * RefillTokens), at |-> RefillInstant(Intervals)]
    BY <1>1, <1>3 DEF Refilled
  <2>2. /\ Refilled.at \in Nat /\ Period(Refilled.at) = q /\ Refilled.at = RefillInterval * q
    BY <1>3, <2>1, RefillsToNow
  <2>3. Refilled.at <= latest /\ Refilled.at % RefillInterval = 0
    BY <2>2, PeriodBounds DEF IInv, TypeOK, ClockInBounds
  <2>4. n \in Nat /\ n > 0 BY <1>1, <1>3
  <2>5. n * RefillTokens \in Nat BY <2>4
  <2>6. /\ Refilled.tokens \in 0 .. Capacity
        /\ Refilled.tokens <= tokens + n * RefillTokens /\ Refilled.tokens <= Capacity
    <3> HIDE DEF n
    <3>1. QED BY <2>1, <2>5 DEF IInv, TypeOK
  <2>7. allowed + Refilled.tokens <= Capacity + RefillTokens * (q - e)
    <3>1. CASE e <= p
      <4>1. allowed + tokens <= Capacity + RefillTokens * (p - e)
        BY <3>1 DEF IInv, GridBound
      <4>2. RefillTokens * (p - e) + n * RefillTokens = RefillTokens * (q - e)
        <5> HIDE DEF p, q, e
        <5>1. QED BY <1>1
      <4>3. RefillTokens * (p - e) \in Int /\ RefillTokens * (q - e) \in Int
        <5> HIDE DEF p, q, e
        <5>1. QED BY <1>1
      <4> HIDE DEF p, q, e, n
      <4>4. QED BY <2>5, <2>6, <4>1, <4>2, <4>3 DEF IInv, TypeOK
    <3>2. CASE ~(e <= p)
      <4>1. allowed = 0 BY <3>2 DEF IInv, GridBound
      <4>2. RefillTokens * (q - e) \in Nat
        <5> HIDE DEF q, e
        <5>1. q - e \in Nat BY <1>1
        <5>2. QED BY <5>1
      <4>3. QED BY <2>6, <4>1, <4>2
    <3>3. QED BY <3>1, <3>2
  <2>8. QED BY <1>1, <2>2, <2>3, <2>6, <2>7
<1>4. QED BY <1>2, <1>3

-----------------------------------------------------------------------------
(* Every step keeps the invariant.                                         *)

LEMMA AskInv == ASSUME IInv, Allow \/ GetAvailableTokens PROVE IInv'
<1>1. /\ lastRefillAt' = Refilled.at /\ UNCHANGED <<now, latest, earliest>>
      /\ \/ tokens' = Refilled.tokens /\ allowed' = allowed
         \/ /\ Refilled.tokens > 0
            /\ tokens' = Refilled.tokens - 1 /\ allowed' = allowed + 1
  BY RefilledInv DEF Allow, GetAvailableTokens
<1>2. /\ Refilled.at \in Nat /\ Refilled.tokens \in 0 .. Capacity
      /\ allowed \in Nat /\ earliest \in Nat
  BY RefilledInv DEF IInv, TypeOK
<1>3. TypeOK' BY <1>1, <1>2 DEF IInv, TypeOK
<1>4. ClockInBounds' BY <1>1 DEF IInv, ClockInBounds
<1>5. RefillsOnTheGrid' BY <1>1, RefilledInv DEF RefillsOnTheGrid
<1>6. GridBound'
  <2>1. Period(lastRefillAt)' = Period(Refilled.at) /\ Period(earliest)' = Period(earliest)
    BY <1>1 DEF Period
  <2>2. allowed' + tokens' = allowed + Refilled.tokens BY <1>1, <1>2
  <2>3. QED BY <2>1, <2>2, RefilledInv DEF GridBound
<1>7. QED BY <1>3, <1>4, <1>5, <1>6 DEF IInv

\* A clock set back, or a new window, begins the count in another period.
LEMMA WindowInv ==
  ASSUME IInv, UNCHANGED <<tokens, lastRefillAt>>,
         \/ allowed' = allowed /\ earliest' \in Nat /\ earliest' <= earliest
         \/ allowed' = 0 /\ earliest' = now
  PROVE  GridBound'
<1> DEFINE p == Period(lastRefillAt)
           e == Period(earliest)
           f == Period(earliest')
<1>1. p \in Int /\ e \in Int /\ f \in Int
  <2>1. earliest' \in Int BY DEF IInv, TypeOK
  <2>2. QED BY <2>1, Instants, PeriodBounds
<1>2. Period(lastRefillAt)' = p /\ Period(earliest)' = f BY DEF Period
<1>3. CASE allowed' = 0 \/ (allowed = 0 /\ allowed' = allowed)
  <2>1. f <= p => RefillTokens * (p - f) \in Nat
    <3> HIDE DEF p, f
    <3>1. f <= p => p - f \in Nat BY <1>1
    <3>2. QED BY <3>1
  <2>2. QED BY <1>2, <1>3, <2>1 DEF GridBound, IInv, TypeOK
<1>4. CASE allowed # 0 /\ allowed' = allowed /\ earliest' \in Nat /\ earliest' <= earliest
  <2>1. f <= e BY <1>4, PeriodMonotone DEF IInv, TypeOK
  <2>2. e <= p /\ allowed + tokens <= Capacity + RefillTokens * (p - e)
    BY <1>1, <1>4 DEF IInv, GridBound
  <2>3. RefillTokens * (p - e) <= RefillTokens * (p - f)
    <3> HIDE DEF p, e, f
    <3>1. e - f \in Nat BY <1>1, <2>1
    <3>2. RefillTokens * (e - f) \in Nat BY <3>1
    <3>3. RefillTokens * (p - f) = RefillTokens * (p - e) + RefillTokens * (e - f) BY <1>1
    <3>4. RefillTokens * (p - e) \in Int BY <1>1
    <3>5. QED BY <3>2, <3>3, <3>4
  <2>4. allowed + tokens <= Capacity + RefillTokens * (p - f)
    <3>1. RefillTokens * (p - e) \in Int /\ RefillTokens * (p - f) \in Int
      <4> HIDE DEF p, e, f
      <4>1. QED BY <1>1
    <3> HIDE DEF p, e, f
    <3>2. QED BY <2>2, <2>3, <3>1 DEF IInv, TypeOK
  <2>5. f <= p BY <1>1, <2>1, <2>2
  <2>6. QED BY <1>2, <1>4, <2>4, <2>5 DEF GridBound
<1>5. QED BY <1>3, <1>4

LEMMA ClockInv == ASSUME IInv, Clock PROVE IInv'
<1> USE MaxTimeAssumption
<1>1. TypeOK' BY DEF IInv, TypeOK, Clock
<1>2. ClockInBounds' BY DEF IInv, TypeOK, ClockInBounds, Clock
<1>3. RefillsOnTheGrid' BY DEF IInv, TypeOK, RefillsOnTheGrid, Clock
<1>4. GridBound'
  <2>1. allowed' = allowed /\ earliest' \in Nat /\ earliest' <= earliest
    BY DEF IInv, TypeOK, Clock
  <2>2. QED BY <2>1, WindowInv DEF Clock
<1>5. QED BY <1>1, <1>2, <1>3, <1>4 DEF IInv

LEMMA MarkInv == ASSUME IInv, Mark PROVE IInv'
<1>1. TypeOK' BY DEF IInv, TypeOK, Mark
<1>2. ClockInBounds' BY DEF IInv, TypeOK, ClockInBounds, Mark
<1>3. RefillsOnTheGrid' BY DEF IInv, TypeOK, RefillsOnTheGrid, Mark
<1>4. GridBound' BY WindowInv DEF Mark
<1>5. QED BY <1>1, <1>2, <1>3, <1>4 DEF IInv

LEMMA InitInv == ASSUME Init PROVE IInv
<1>1. TypeOK /\ ClockInBounds BY DEF Init, TypeOK, ClockInBounds
<1>2. Period(0) = 0 BY PeriodUnique
<1>3. RefillsOnTheGrid BY <1>2, PeriodBounds DEF Init, RefillsOnTheGrid
<1>4. GridBound BY <1>2 DEF Init, GridBound
<1>5. QED BY <1>1, <1>3, <1>4 DEF IInv

LEMMA StutterInv == ASSUME IInv, UNCHANGED vars PROVE IInv'
BY DEF vars, IInv, TypeOK, ClockInBounds, RefillsOnTheGrid, GridBound, Period

LEMMA Invariance == Spec => []IInv
<1>1. IInv /\ [Next]_vars => IInv' BY AskInv, ClockInv, MarkInv, StutterInv DEF Next
<1>2. QED BY InitInv, <1>1, PTL DEF Spec

\* tokens never leaves the range from 0 to capacity, not even when the wall clock goes
\* back and Math.floor of a negative time is taken.
THEOREM TypeCorrect == Spec => []TypeOK
<1>1. IInv => TypeOK BY DEF IInv
<1>2. QED BY <1>1, Invariance, PTL

\* refill() moves lastRefillAt by whole intervals and never past the clock, so that the
\* remainder of an interval is neither lost nor counted twice.
THEOREM GridCorrect == Spec => []RefillsOnTheGrid
<1>1. IInv => RefillsOnTheGrid BY DEF IInv
<1>2. QED BY <1>1, Invariance, PTL

\* In every window of time allow() returns true for at most a bucket and the refills of
\* the intervals that begin in it: no setting of the clock mints tokens.
THEOREM WindowCorrect == Spec => []WindowBound
<1>1. ASSUME IInv PROVE WindowBound
  <2> DEFINE p == Period(lastRefillAt)
             e == Period(earliest)
             d == (latest - earliest) \div RefillInterval + 1
  <2>1. p \in Int /\ e \in Int BY <1>1, Instants
  <2>2. d \in Nat
    <3>1. Period(0) = 0 BY PeriodUnique
    <3>2. latest - earliest \in Nat BY <1>1 DEF IInv, TypeOK, ClockInBounds
    <3>3. Period(latest - earliest) \in Int /\ Period(0) <= Period(latest - earliest)
      BY <3>2, PeriodBounds, PeriodMonotone
    <3>4. QED BY <3>1, <3>3 DEF Period
  <2>3. p - e <= d
    <3>1. p <= Period(latest) BY <1>1, PeriodMonotone DEF IInv, TypeOK, RefillsOnTheGrid
    <3>2. Period(latest) - e <= d BY <1>1, PeriodsOfSpan DEF IInv, TypeOK
    <3>3. Period(latest) \in Int BY <1>1, PeriodBounds DEF IInv, TypeOK
    <3> HIDE DEF p, e, d
    <3>4. QED BY <2>1, <2>2, <3>1, <3>2, <3>3
  <2>4. RefillTokens * d \in Nat /\ RefillTokens * (p - e) <= RefillTokens * d
    <3> HIDE DEF p, e, d
    <3>1. d - (p - e) \in Nat BY <2>1, <2>2, <2>3
    <3>2. RefillTokens * (d - (p - e)) \in Nat BY <3>1
    <3>3. RefillTokens * d = RefillTokens * (p - e) + RefillTokens * (d - (p - e)) BY <2>1, <2>2
    <3>4. RefillTokens * (p - e) \in Int BY <2>1
    <3>5. QED BY <2>2, <3>2, <3>3, <3>4
  <2>5. allowed <= Capacity + RefillTokens * d
    <3>1. CASE e <= p
      <4>1. allowed + tokens <= Capacity + RefillTokens * (p - e) BY <1>1, <3>1 DEF IInv, GridBound
      <4>2. allowed \in Nat /\ tokens \in Nat BY <1>1 DEF IInv, TypeOK
      <4>3. RefillTokens * (p - e) \in Int
        <5> HIDE DEF p, e
        <5>1. QED BY <2>1
      <4> HIDE DEF p, e, d
      <4>4. QED BY <2>4, <4>1, <4>2, <4>3
    <3>2. CASE ~(e <= p)
      <4>1. allowed = 0 BY <1>1, <3>2 DEF IInv, GridBound
      <4> HIDE DEF p, e, d
      <4>2. QED BY <2>4, <4>1
    <3>3. QED BY <3>1, <3>2
  <2>6. QED BY <2>5 DEF WindowBound
<1>2. IInv => WindowBound BY <1>1
<1>3. QED BY <1>2, Invariance, PTL
=============================================================================
