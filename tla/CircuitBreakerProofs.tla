------------------------ MODULE CircuitBreakerProofs ------------------------
(***************************************************************************)
(* What holds of the circuit breaker for any number of keys and calls, any *)
(* threshold and any reset timeout; and what holds of the gates of         *)
(* CallGate: the metrics, and the same invariants with a limiter in front  *)
(* of the breaker and a logger that may throw behind it.                   *)
(***************************************************************************)
EXTENDS Integers, CallGate, TLAPS

\* A probing call is running, so HalfOpenHasProbe speaks of calls that will report.
ProbesRun == \A c \in probing : key[c] \in Keys

IInv == TypeOK /\ TripsAtThreshold /\ HalfOpenHasProbe /\ ProbesRun

USE DEF States, CanRequest, CountAfterSuccess, ReachesThreshold, ReopensOnFailure, CountsFailure

LEMMA InitInv == Init => IInv
BY ThresholdAssumption, ResetAssumption
DEF Init, IInv, TypeOK, TripsAtThreshold, HalfOpenHasProbe, ProbesRun

LEMMA AdmitInv == ASSUME IInv, NEW c \in Calls, NEW k \in Keys, Admit(c, k) PROVE IInv'
<1> USE ThresholdAssumption, ResetAssumption, NoKeyAssumption
<1>1. TypeOK' BY DEF IInv, TypeOK, Admit
<1>2. TripsAtThreshold' BY DEF IInv, TypeOK, TripsAtThreshold, Admit
<1>3. HalfOpenHasProbe'
  <2>1. SUFFICES ASSUME NEW j \in Keys, state'[j] = "half-open"
                 PROVE  \E d \in probing' : key'[d] = j
    BY DEF HalfOpenHasProbe
  <2>2. CASE j = k
    BY <1>1, <2>1, <2>2 DEF IInv, TypeOK, Admit
  <2>3. CASE j # k
    <3>1. PICK d \in probing : key[d] = j
      BY <1>1, <2>1, <2>3 DEF IInv, TypeOK, HalfOpenHasProbe, Admit
    <3>2. d # c BY <3>1 DEF Admit
    <3>3. d \in probing' /\ key'[d] = j
      BY <3>1, <3>2 DEF IInv, TypeOK, Admit
    <3>4. QED BY <3>3
  <2>4. QED BY <2>2, <2>3
<1>4. ProbesRun' BY DEF IInv, TypeOK, ProbesRun, Admit
<1>5. QED BY <1>1, <1>2, <1>3, <1>4 DEF IInv

LEMMA SucceedInv == ASSUME IInv, NEW c \in Calls, NEW k \in Keys, Succeed(c, k) PROVE IInv'
<1> USE ThresholdAssumption, ResetAssumption, NoKeyAssumption
<1>1. TypeOK' BY DEF IInv, TypeOK, Succeed, Settle
<1>2. TripsAtThreshold' BY DEF IInv, TypeOK, TripsAtThreshold, Succeed
<1>3. HalfOpenHasProbe'
  <2>1. SUFFICES ASSUME NEW j \in Keys, state'[j] = "half-open"
                 PROVE  \E d \in probing' : key'[d] = j
    BY DEF HalfOpenHasProbe
  <2>2. j # k /\ state[j] = "half-open" BY <2>1 DEF IInv, TypeOK, Succeed
  <2>3. PICK d \in probing : key[d] = j BY <2>2 DEF IInv, HalfOpenHasProbe
  <2>4. d # c BY <2>2, <2>3 DEF Succeed
  <2>5. d \in probing' /\ key'[d] = j BY <2>3, <2>4 DEF IInv, TypeOK, Succeed, Settle
  <2>6. QED BY <2>5
<1>4. ProbesRun' BY DEF IInv, TypeOK, ProbesRun, Succeed, Settle
<1>5. QED BY <1>1, <1>2, <1>3, <1>4 DEF IInv

LEMMA FailInv == ASSUME IInv, NEW c \in Calls, NEW k \in Keys, Fail(c, k) PROVE IInv'
<1> USE ThresholdAssumption, ResetAssumption, NoKeyAssumption
<1>1. TypeOK' BY DEF IInv, TypeOK, TripsAtThreshold, Fail, Settle
<1>2. TripsAtThreshold' BY DEF IInv, TypeOK, TripsAtThreshold, Fail
<1>3. HalfOpenHasProbe'
  <2>1. SUFFICES ASSUME NEW j \in Keys, state'[j] = "half-open"
                 PROVE  \E d \in probing' : key'[d] = j
    BY DEF HalfOpenHasProbe
  <2>2. j # k /\ state[j] = "half-open" BY <2>1 DEF IInv, TypeOK, Fail
  <2>3. PICK d \in probing : key[d] = j BY <2>2 DEF IInv, HalfOpenHasProbe
  <2>4. d # c BY <2>2, <2>3 DEF Fail
  <2>5. d \in probing' /\ key'[d] = j BY <2>3, <2>4 DEF IInv, TypeOK, Fail, Settle
  <2>6. QED BY <2>5
<1>4. ProbesRun' BY DEF IInv, TypeOK, ProbesRun, Fail, Settle
<1>5. QED BY <1>1, <1>2, <1>3, <1>4 DEF IInv

LEMMA TickInv == IInv /\ (Tick \/ UNCHANGED vars) => IInv'
BY ThresholdAssumption, ResetAssumption
DEF IInv, TypeOK, TripsAtThreshold, HalfOpenHasProbe, ProbesRun, Tick, vars

LEMMA NextInv == IInv /\ [Next]_vars => IInv'
BY AdmitInv, SucceedInv, FailInv, TickInv DEF Next

LEMMA Invariance == Spec => []IInv
BY InitInv, NextInv, PTL DEF Spec

\* The entries keep their types, and the failure count of circuit-breaker.ts its
\* bound, for every configuration.
THEOREM TypeCorrect == Spec => []TypeOK
<1>1. IInv => TypeOK BY DEF IInv
<1>2. QED BY <1>1, Invariance, PTL

\* The breaker is tripped exactly when the last Threshold results of its key were
\* failures (recordFailure, recordSuccess), in whatever order calls settle.
THEOREM TripsCorrectly == Spec => []TripsAtThreshold
<1>1. IInv => TripsAtThreshold BY DEF IInv
<1>2. QED BY <1>1, Invariance, PTL

\* A half-open breaker always has a probe in flight that will decide it.
THEOREM NeverStuckHalfOpen == Spec => []HalfOpenHasProbe
<1>1. IInv => HalfOpenHasProbe BY DEF IInv
<1>2. QED BY <1>1, Invariance, PTL

\* The time an open breaker has been open does not go back.
NotYounger == \A k \in Keys : state[k] = "open" /\ state'[k] = "open" => age'[k] >= age[k]

LEMMA NotYoungerStep == IInv /\ [Next]_vars => [NotYounger]_vars
<1>1. SUFFICES ASSUME IInv, [Next]_vars, NEW j \in Keys, state[j] = "open", state'[j] = "open"
               PROVE  age'[j] >= age[j]
  BY DEF NotYounger
<1> USE ThresholdAssumption, ResetAssumption DEF IInv, TypeOK
<1>2. ASSUME NEW c \in Calls, NEW k \in Keys, Admit(c, k) PROVE age'[j] >= age[j]
  BY <1>1, <1>2 DEF Admit
<1>3. ASSUME NEW c \in Calls, NEW k \in Keys, Succeed(c, k) PROVE age'[j] >= age[j]
  BY <1>1, <1>3 DEF Succeed
<1>4. ASSUME NEW c \in Calls, NEW k \in Keys, Fail(c, k) PROVE age'[j] >= age[j]
  BY <1>1, <1>4 DEF Fail
<1>5. Tick \/ UNCHANGED vars => age'[j] >= age[j]
  BY <1>1 DEF Tick, vars
<1>6. QED BY <1>1, <1>2, <1>3, <1>4, <1>5 DEF Next

\* Late failures do not postpone the probe (the early return of recordFailure).
THEOREM LateFailuresAreHarmless == Spec => OpenIsNotExtended
<1>1. Spec => [][NotYounger]_vars BY NotYoungerStep, Invariance, PTL DEF Spec
<1>2. QED BY <1>1 DEF OpenIsNotExtended, NotYounger

-----------------------------------------------------------------------------
(* Counting modulo Modulus.                                                *)

Count == 0 .. Modulus - 1

USE ModulusAssumption

LEMMA Wrap ==
  ASSUME NEW n \in 0 .. 2 * Modulus - 1
  PROVE  n % Modulus = IF n < Modulus THEN n ELSE n - Modulus
<1> DEFINE q == n \div Modulus
<1>1. /\ q \in Int /\ n % Modulus = n - Modulus * q
      /\ 0 <= n % Modulus /\ n % Modulus < Modulus
  <2>1. n \in Int /\ Modulus \in Nat /\ Modulus > 0 OBVIOUS
  <2>2. QED BY <2>1
<1> HIDE DEF q
<1>2. q >= 0
  <2>1. SUFFICES ASSUME q <= -1 PROVE FALSE BY <1>1
  <2>2. Modulus * (-1 - q) >= 0 BY <1>1, <2>1
  <2>3. Modulus * (-1 - q) = -Modulus - Modulus * q BY <1>1
  <2>4. QED BY <1>1, <2>2, <2>3
<1>3. q <= 1
  <2>1. SUFFICES ASSUME q >= 2 PROVE FALSE BY <1>1
  <2>2. Modulus * (q - 2) >= 0 BY <1>1, <2>1
  <2>3. Modulus * (q - 2) = Modulus * q - 2 * Modulus BY <1>1
  <2>4. QED BY <1>1, <2>2, <2>3
<1>4. q = 0 \/ q = 1 BY <1>1, <1>2, <1>3
<1>5. QED BY <1>1, <1>4

LEMMA OneMoreIs ==
  ASSUME NEW n \in Count
  PROVE  OneMore(n) = IF n = Modulus - 1 THEN 0 ELSE n + 1
BY Wrap DEF Count, OneMore

LEMMA SumIs ==
  ASSUME NEW m \in Count, NEW n \in Count
  PROVE  (m + n) % Modulus = IF m + n < Modulus THEN m + n ELSE m + n - Modulus
BY Wrap DEF Count

\* A sum counted on by one of its parts is counted on by one.
LEMMA OneMoreOfSum ==
  ASSUME NEW m \in Count, NEW n \in Count
  PROVE  /\ OneMore(m) \in Count
         /\ (OneMore(m) + n) % Modulus = OneMore((m + n) % Modulus)
         /\ (m + OneMore(n)) % Modulus = OneMore((m + n) % Modulus)
<1>1. (m + n) % Modulus \in Count BY SumIs DEF Count
<1>2. OneMore(m) \in Count /\ OneMore(n) \in Count BY OneMoreIs DEF Count
<1> DEFINE s == (m + n) % Modulus
<1>3. s = IF m + n < Modulus THEN m + n ELSE m + n - Modulus BY SumIs
<1>4. /\ OneMore(m) = IF m = Modulus - 1 THEN 0 ELSE m + 1
      /\ OneMore(n) = IF n = Modulus - 1 THEN 0 ELSE n + 1
      /\ OneMore(s) = IF s = Modulus - 1 THEN 0 ELSE s + 1
  BY <1>1, OneMoreIs
<1>5. (OneMore(m) + n) % Modulus
        = IF OneMore(m) + n < Modulus THEN OneMore(m) + n ELSE OneMore(m) + n - Modulus
  BY <1>2, SumIs
<1>6. (m + OneMore(n)) % Modulus
        = IF m + OneMore(n) < Modulus THEN m + OneMore(n) ELSE m + OneMore(n) - Modulus
  BY <1>2, SumIs
<1> HIDE DEF s
<1>7. (OneMore(m) + n) % Modulus = OneMore(s) /\ (m + OneMore(n)) % Modulus = OneMore(s)
  BY <1>3, <1>4, <1>5, <1>6 DEF Count
<1>8. QED BY <1>2, <1>7 DEF s

-----------------------------------------------------------------------------
(* The inductive invariant of the gates.                                   *)

CountersOK ==
  /\ metrics \in [Keys -> [total : Count, success : Count, failed : Count]]
  /\ results \in [Keys -> Count] /\ spoiled \in [Keys -> Count]

GateInv == IInv /\ CountersOK /\ MetricsTellResults

\* A success whose logger threw leaves the breaker as a success and a failure after it.
LEMMA LoggerThrowsInv ==
  ASSUME IInv, NEW c \in Calls, NEW k \in Keys, LoggerThrows(c, k)
  PROVE  IInv'
<1> USE ThresholdAssumption, ResetAssumption, NoKeyAssumption
<1>0. /\ failureCount' = [failureCount EXCEPT ![k] = 1]
      /\ state' = [state EXCEPT ![k] = IF 1 >= Threshold THEN "open" ELSE "closed"]
  BY DEF IInv, TypeOK, LoggerThrows
<1>1. TypeOK' BY <1>0 DEF IInv, TypeOK, LoggerThrows, Settle
<1>2. TripsAtThreshold' BY <1>0 DEF IInv, TypeOK, TripsAtThreshold, LoggerThrows
<1>3. HalfOpenHasProbe'
  <2>1. SUFFICES ASSUME NEW j \in Keys, state'[j] = "half-open"
                 PROVE  \E d \in probing' : key'[d] = j
    BY DEF HalfOpenHasProbe
  <2>2. j # k /\ state[j] = "half-open" BY <2>1 DEF IInv, TypeOK, LoggerThrows
  <2>3. PICK d \in probing : key[d] = j BY <2>2 DEF IInv, HalfOpenHasProbe
  <2>4. d # c BY <2>2, <2>3 DEF LoggerThrows
  <2>5. d \in probing' /\ key'[d] = j BY <2>3, <2>4 DEF IInv, TypeOK, LoggerThrows, Settle
  <2>6. QED BY <2>5
<1>4. ProbesRun' BY DEF IInv, TypeOK, ProbesRun, LoggerThrows, Settle
<1>5. QED BY <1>1, <1>2, <1>3, <1>4 DEF IInv

\* recordMetrics once, and one more result.
LEMMA RecordedOnce ==
  ASSUME CountersOK, MetricsTellResults, NEW k \in Keys, NEW field \in {"success", "failed"},
         Told(k), metrics' = [metrics EXCEPT ![k] = Recorded(@, field)], UNCHANGED spoiled
  PROVE  CountersOK' /\ MetricsTellResults'
<1>1. /\ metrics[k] \in [total : Count, success : Count, failed : Count]
      /\ results[k] \in Count /\ spoiled[k] \in Count
  BY DEF CountersOK
<1>2. /\ OneMore(metrics[k].total) \in Count /\ OneMore(metrics[k].success) \in Count
      /\ OneMore(metrics[k].failed) \in Count /\ OneMore(results[k]) \in Count
  BY <1>1, OneMoreOfSum
<1>3. Recorded(metrics[k], field) \in [total : Count, success : Count, failed : Count]
  BY <1>1, <1>2 DEF Recorded
<1>4. CountersOK' BY <1>2, <1>3 DEF CountersOK, Told
<1>5. ASSUME NEW j \in Keys, j # k
      PROVE  metrics'[j] = metrics[j] /\ results'[j] = results[j] /\ spoiled'[j] = spoiled[j]
  BY <1>5 DEF CountersOK, Told
<1>6. /\ metrics'[k] = Recorded(metrics[k], field)
      /\ results'[k] = OneMore(results[k]) /\ spoiled'[k] = spoiled[k]
  BY DEF CountersOK, Told
<1>7. /\ metrics[k].total = (results[k] + spoiled[k]) % Modulus
      /\ metrics[k].total = (metrics[k].success + metrics[k].failed) % Modulus
  BY DEF MetricsTellResults
<1>8. metrics'[k].total = OneMore(metrics[k].total)
  <2>1. field \in {"success", "failed"} => Recorded(metrics[k], field).total = OneMore(metrics[k].total)
    BY <1>1 DEF Recorded
  <2>2. QED BY <1>6, <2>1
<1>9. metrics'[k].total = (results'[k] + spoiled'[k]) % Modulus
  BY <1>1, <1>6, <1>7, <1>8, OneMoreOfSum
<1>10. metrics'[k].total = (metrics'[k].success + metrics'[k].failed) % Modulus
  <2>1. CASE field = "success"
    <3>1. /\ metrics'[k].success = OneMore(metrics[k].success)
          /\ metrics'[k].failed = metrics[k].failed
      <4>1. /\ Recorded(metrics[k], "success").success = OneMore(metrics[k].success)
            /\ Recorded(metrics[k], "success").failed = metrics[k].failed
        BY <1>1 DEF Recorded
      <4>2. QED BY <1>6, <2>1, <4>1
    <3>2. QED BY <1>1, <1>7, <1>8, <3>1, OneMoreOfSum
  <2>2. CASE field = "failed"
    <3>1. /\ metrics'[k].failed = OneMore(metrics[k].failed)
          /\ metrics'[k].success = metrics[k].success
      <4>1. /\ Recorded(metrics[k], "failed").failed = OneMore(metrics[k].failed)
            /\ Recorded(metrics[k], "failed").success = metrics[k].success
        BY <1>1 DEF Recorded
      <4>2. QED BY <1>6, <2>2, <4>1
    <3>2. QED BY <1>1, <1>7, <1>8, <3>1, OneMoreOfSum
  <2>3. QED BY <2>1, <2>2
<1>11. MetricsTellResults' BY <1>5, <1>9, <1>10 DEF MetricsTellResults
<1>12. QED BY <1>4, <1>11

\* recordMetrics twice, for one result whose logger threw.
LEMMA RecordedTwice ==
  ASSUME CountersOK, MetricsTellResults, NEW c \in Calls, NEW k \in Keys, LoggerThrows(c, k)
  PROVE  CountersOK' /\ MetricsTellResults'
<1> DEFINE m == metrics[k]
<1>1. /\ m \in [total : Count, success : Count, failed : Count]
      /\ results[k] \in Count /\ spoiled[k] \in Count
  BY DEF CountersOK
<1>2. /\ OneMore(m.total) \in Count /\ OneMore(OneMore(m.total)) \in Count
      /\ OneMore(m.success) \in Count /\ OneMore(m.failed) \in Count
      /\ OneMore(results[k]) \in Count /\ OneMore(spoiled[k]) \in Count
  BY <1>1, OneMoreOfSum
<1>3. LET r == Recorded(Recorded(m, "success"), "failed")
      IN /\ r \in [total : Count, success : Count, failed : Count]
         /\ r.total = OneMore(OneMore(m.total))
         /\ r.success = OneMore(m.success) /\ r.failed = OneMore(m.failed)
  <2> DEFINE r == Recorded(m, "success")
  <2>1. /\ r \in [total : Count, success : Count, failed : Count]
        /\ r.total = OneMore(m.total)
        /\ r.success = OneMore(m.success) /\ r.failed = m.failed
    BY <1>1, <1>2 DEF Recorded
  <2> HIDE DEF r
  <2>2. /\ Recorded(r, "failed") \in [total : Count, success : Count, failed : Count]
        /\ Recorded(r, "failed").total = OneMore(r.total)
        /\ Recorded(r, "failed").success = r.success
        /\ Recorded(r, "failed").failed = OneMore(r.failed)
    BY <1>2, <2>1 DEF Recorded
  <2>3. QED BY <2>1, <2>2 DEF r
<1>4. metrics' = [metrics EXCEPT ![k] = Recorded(Recorded(m, "success"), "failed")]
  BY DEF LoggerThrows
<1>5. CountersOK' BY <1>2, <1>3, <1>4 DEF CountersOK, Told, LoggerThrows
<1>6. ASSUME NEW j \in Keys, j # k
      PROVE  metrics'[j] = metrics[j] /\ results'[j] = results[j] /\ spoiled'[j] = spoiled[j]
  BY <1>6, <1>4 DEF CountersOK, Told, LoggerThrows
<1>7. /\ metrics'[k].total = OneMore(OneMore(m.total))
      /\ metrics'[k].success = OneMore(m.success) /\ metrics'[k].failed = OneMore(m.failed)
      /\ results'[k] = OneMore(results[k]) /\ spoiled'[k] = OneMore(spoiled[k])
  BY <1>3, <1>4 DEF CountersOK, Told, LoggerThrows
<1>8. /\ m.total = (results[k] + spoiled[k]) % Modulus
      /\ m.total = (m.success + m.failed) % Modulus
  BY DEF MetricsTellResults
<1>9. /\ (OneMore(results[k]) + OneMore(spoiled[k])) % Modulus = OneMore(OneMore(m.total))
      /\ (OneMore(m.success) + OneMore(m.failed)) % Modulus = OneMore(OneMore(m.total))
  BY <1>1, <1>2, <1>8, OneMoreOfSum
<1>10. MetricsTellResults' BY <1>6, <1>7, <1>9 DEF MetricsTellResults
<1>11. QED BY <1>5, <1>10

-----------------------------------------------------------------------------
(* The invariant holds.                                                    *)

LEMMA NoneYet ==
  ASSUME metrics' = NoCalls, results' = NoResults, spoiled' = NoResults
  PROVE  CountersOK' /\ MetricsTellResults'
<1>1. 0 \in Count /\ (0 + 0) % Modulus = 0 BY SumIs DEF Count
<1>2. QED BY <1>1 DEF CountersOK, MetricsTellResults, NoCalls, NoResults

LEMMA GateInitInv == ASSUME GateInit PROVE GateInv
<1>1. 0 \in Count /\ (0 + 0) % Modulus = 0 BY SumIs DEF Count
<1>2. CountersOK /\ MetricsTellResults
  BY <1>1 DEF GateInit, CountersOK, MetricsTellResults, NoCalls, NoResults
<1>3. QED BY <1>2, InitInv DEF GateInit, GateInv

LEMMA SameCounters ==
  ASSUME CountersOK, MetricsTellResults, UNCHANGED counters
  PROVE  CountersOK' /\ MetricsTellResults'
BY DEF CountersOK, MetricsTellResults, counters

LEMMA GateNextInv == GateInv /\ [GateNext]_gateVars => GateInv'
<1> SUFFICES ASSUME GateInv, [GateNext]_gateVars PROVE GateInv' OBVIOUS
<1> USE DEF GateInv
<1>1. ASSUME NEW c \in Calls, NEW k \in Keys, Refused(c, k) PROVE GateInv'
  BY <1>1, TickInv, SameCounters DEF Refused, LimiterRefuses
<1>2. ASSUME NEW c \in Calls, NEW k \in Keys, Enter(c, k) PROVE GateInv'
  BY <1>2, AdmitInv, SameCounters DEF Enter
<1>3. ASSUME NEW c \in Calls, NEW k \in Keys, CallSucceeds(c, k) PROVE GateInv'
  BY <1>3, SucceedInv, RecordedOnce DEF CallSucceeds
<1>4. ASSUME NEW c \in Calls, NEW k \in Keys, CallFails(c, k) PROVE GateInv'
  BY <1>4, FailInv, RecordedOnce DEF CallFails
<1>5. ASSUME NEW c \in Calls, NEW k \in Keys, LoggerThrows(c, k) PROVE GateInv'
  BY <1>5, LoggerThrowsInv, RecordedTwice
<1>6. CASE Tick /\ UNCHANGED counters BY <1>6, TickInv, SameCounters
<1>7. CASE ResetMetrics BY <1>7, TickInv, NoneYet DEF ResetMetrics
<1>8. CASE UNCHANGED gateVars BY <1>8, TickInv, SameCounters DEF gateVars
<1>9. QED BY <1>1, <1>2, <1>3, <1>4, <1>5, <1>6, <1>7, <1>8 DEF GateNext, Ends

LEMMA GateInvariance == GateSpec => []GateInv
BY GateInitInv, GateNextInv, PTL DEF GateSpec

\* Every call that passed the gates of RpcClient.call is in the metrics once, and a success
\* whose logger threw as both, through resets while calls run.
THEOREM MetricsCorrect == GateSpec => []MetricsTellResults
<1>1. GateInv => MetricsTellResults BY DEF GateInv
<1>2. QED BY <1>1, GateInvariance, PTL

\* The breaker trips at the threshold also when it is told a success and a failure of one
\* call, as it is when logger.info() throws in the try block.
THEOREM GateTripsCorrectly == GateSpec => []TripsAtThreshold
<1>1. GateInv => TripsAtThreshold BY DEF GateInv, IInv
<1>2. QED BY <1>1, GateInvariance, PTL

\* A half-open breaker has a call in flight that will decide it: the limiter, asked before
\* the breaker, never refuses the call that turned it half-open.
THEOREM GateNeverStuckHalfOpen == GateSpec => []HalfOpenHasProbe
<1>1. GateInv => HalfOpenHasProbe BY DEF GateInv, IInv
<1>2. QED BY <1>1, GateInvariance, PTL

\* Every variable of the breaker keeps its type behind these gates.
THEOREM GateTypeCorrect == GateSpec => []TypeOK
<1>1. GateInv => TypeOK BY DEF GateInv, IInv
<1>2. QED BY <1>1, GateInvariance, PTL

\* Late failures do not postpone the probe here either.  With a threshold of 1 a success
\* whose logger throws may close the breaker and open it anew in one step, so that its
\* time starts again: the hypothesis excludes that.
THEOREM GateLateFailuresAreHarmless == Threshold > 1 /\ GateSpec => OpenIsNotExtended
<1> SUFFICES ASSUME Threshold > 1 PROVE GateSpec => OpenIsNotExtended OBVIOUS
<1>1. ASSUME NEW c \in Calls, NEW k \in Keys, GateInv, LoggerThrows(c, k) PROVE NotYounger
  <2>1. failureCount'[k] = 1 /\ state'[k] = "closed"
    <3>1. failureCount'[k] = 1 BY <1>1 DEF GateInv, IInv, TypeOK, LoggerThrows
    <3>2. QED BY <1>1, <3>1, ThresholdAssumption DEF GateInv, IInv, TypeOK, LoggerThrows
  <2>2. /\ age \in [Keys -> 0 .. Reset]
        /\ \A j \in Keys \ {k} : age'[j] = age[j]
    BY <1>1 DEF GateInv, IInv, TypeOK, LoggerThrows
  <2>3. ASSUME NEW j \in Keys, state'[j] = "open" PROVE age'[j] >= age[j]
    BY <2>1, <2>2, <2>3, ResetAssumption
  <2>4. QED BY <2>3 DEF NotYounger
<1>2. [GateNext]_gateVars => [Next]_vars \/ \E c \in Calls, k \in Keys : LoggerThrows(c, k)
  BY DEF GateNext, Refused, LimiterRefuses, Enter, Ends, CallSucceeds, CallFails, ResetMetrics,
         Next, gateVars
<1>3. GateInv /\ [GateNext]_gateVars => [NotYounger]_vars
  BY <1>1, <1>2, NotYoungerStep DEF GateInv
<1>4. GateSpec => [][NotYounger]_vars BY <1>3, GateInvariance, PTL DEF GateSpec
<1>5. QED BY <1>4 DEF OpenIsNotExtended, NotYounger
=============================================================================
