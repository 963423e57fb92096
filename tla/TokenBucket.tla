---------------------------- MODULE TokenBucket ----------------------------
(***************************************************************************)
(* The client's rate limiter (packages/core/src/client/rate-limiter.ts),   *)
(* TokenBucketRateLimiter, against a clock that need not be monotonic:     *)
(* Date.now() is the wall clock, which may be set back.  The window is a   *)
(* history of the requests allowed since some instant.                     *)
(***************************************************************************)
EXTENDS Integers

CONSTANTS
  Capacity,        \* options.capacity, at least 1 by the constructor
  RefillTokens,    \* options.refillTokens, at least 1 by the constructor
  RefillInterval,  \* options.refillIntervalMs, at least 1 by the constructor
  MaxTime          \* bound: the last instant the model looks at

ASSUME OptionsAssumption == {Capacity, RefillTokens, RefillInterval} \subseteq Nat \ {0}
ASSUME MaxTimeAssumption == MaxTime \in Nat

VARIABLES
  tokens,        \* this.tokens
  lastRefillAt,  \* this.lastRefillAt, 0 when the limiter is made
  now,           \* Date.now()
  latest,        \* the latest value Date.now() has had
  earliest,      \* history: the earliest value it has had since the window began
  allowed        \* history: requests allowed since then

vars == <<tokens, lastRefillAt, now, latest, earliest, allowed>>

Init ==
  /\ tokens = Capacity /\ lastRefillAt = 0
  /\ now = 0 /\ latest = 0
  /\ earliest = 0 /\ allowed = 0

Lesser(a, b) == IF a < b THEN a ELSE b
Greater(a, b) == IF a < b THEN b ELSE a

-----------------------------------------------------------------------------
(* Plausible slips, one per helper they would replace.                     *)

NegativeToo(n) == n = 0
OneIntervalOnly(n) == lastRefillAt + RefillInterval
ForgetsRemainder(n) == now

-----------------------------------------------------------------------------
\* Math.floor(elapsedMs / refillIntervalMs): rounds down, also below zero.
Intervals == (now - lastRefillAt) \div RefillInterval

NothingToRefill(n) == n <= 0
Capped(n) == Lesser(Capacity, n)
RefillInstant(n) == lastRefillAt + n * RefillInterval

\* tokens and lastRefillAt after refill().
Refilled ==
  IF NothingToRefill(Intervals)
  THEN [tokens |-> tokens, at |-> lastRefillAt]
  ELSE [tokens |-> Capped(tokens + Intervals * RefillTokens), at |-> RefillInstant(Intervals)]

\* allow() for the next request; RpcClient.call throws RATE_LIMITED on false.
Allow ==
  /\ lastRefillAt' = Refilled.at
  /\ IF Refilled.tokens <= 0
     THEN tokens' = Refilled.tokens /\ UNCHANGED allowed
     ELSE tokens' = Refilled.tokens - 1 /\ allowed' = allowed + 1
  /\ UNCHANGED <<now, latest, earliest>>

GetAvailableTokens ==
  /\ lastRefillAt' = Refilled.at
  /\ tokens' = Refilled.tokens
  /\ UNCHANGED <<now, latest, earliest, allowed>>

\* The wall clock moves, usually forwards.
Clock ==
  /\ now' \in 0 .. MaxTime
  /\ now' <= latest + 1
  /\ latest' = Greater(latest, now')
  /\ earliest' = Lesser(earliest, now')
  /\ UNCHANGED <<tokens, lastRefillAt, allowed>>

\* The window starts afresh.
Mark ==
  /\ earliest' = now
  /\ allowed' = 0
  /\ UNCHANGED <<tokens, lastRefillAt, now, latest>>

Next == Allow \/ GetAvailableTokens \/ Clock \/ Mark

Spec == Init /\ [][Next]_vars

-----------------------------------------------------------------------------
TypeOK ==
  /\ tokens \in 0 .. Capacity
  /\ lastRefillAt \in Nat /\ now \in Nat /\ latest \in Nat /\ earliest \in Nat
  /\ allowed \in Nat

\* In any window of time, measured by the earliest and the latest reading of the
\* clock, the limiter allows at most a full bucket and what is refilled meanwhile:
\* a clock set back and forth mints no tokens, and the remainder of an interval
\* is not counted twice.
WindowBound ==
  allowed <= Capacity + RefillTokens * ((latest - earliest) \div RefillInterval + 1)

\* Refills stay on the grid of the intervals since the limiter was made and never
\* run ahead of the clock: time that has passed is neither lost nor borrowed.
RefillsOnTheGrid ==
  lastRefillAt % RefillInterval = 0 /\ lastRefillAt <= latest

=============================================================================
