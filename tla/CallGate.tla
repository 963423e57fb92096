------------------------------ MODULE CallGate ------------------------------
(***************************************************************************)
(* What RpcClient.call puts around a call (rpc-client.ts): the limiter and *)
(* the breaker in front of it, the breaker and the metrics behind it, and  *)
(* the logger, which is the program's and may throw.  The breaker is that  *)
(* of CircuitBreaker; the limiter may answer either way at any time        *)
(* (TokenBucket says how often it allows), and the call itself ends        *)
(* somehow.                                                                *)
(***************************************************************************)
EXTENDS CircuitBreaker

CONSTANT Modulus   \* bound: calls are counted modulo this

ASSUME ModulusAssumption == Modulus \in Nat \ {0, 1}

VARIABLES
  metrics,   \* totalCalls, successCalls and failedCalls of each key
  results,   \* history: results the callers got since the last resetMetrics()
  spoiled    \* history: calls of it that succeeded and whose logger threw

counters == <<metrics, results, spoiled>>
gateVars == <<vars, counters>>

NoCalls == [k \in Keys |-> [total |-> 0, success |-> 0, failed |-> 0]]
NoResults == [k \in Keys |-> 0]

GateInit == Init /\ metrics = NoCalls /\ results = NoResults /\ spoiled = NoResults

OneMore(n) == (n + 1) % Modulus

-----------------------------------------------------------------------------
(* Plausible slips, one per helper they would replace.                     *)

\* The breaker asked before the limiter.
AsksBreakerFirst(k) ==
  /\ state' = [state EXCEPT ![k] = IF @ = "open" /\ CanRequest(k) THEN "half-open" ELSE @]
  /\ age' = [age EXCEPT ![k] = IF state'[k] = "open" THEN @ ELSE 0]
  /\ UNCHANGED <<failureCount, key, probing, failuresInRow>>

TotalOnSuccessOnly(m, field) ==
  [m EXCEPT !.total = IF field = "success" THEN OneMore(@) ELSE @, ![field] = OneMore(@)]

-----------------------------------------------------------------------------
\* RATE_LIMITED: the breaker is not asked.
LimiterRefuses(k) == UNCHANGED vars

\* A call that is refused before its try block, so that nothing is recorded: by the
\* limiter, or by the breaker with CIRCUIT_BREAKER_OPEN.
Refused(c, k) ==
  /\ key[c] = NoKey
  /\ LimiterRefuses(k) \/ (~CanRequest(k) /\ UNCHANGED vars)
  /\ UNCHANGED counters

Enter(c, k) == Admit(c, k) /\ UNCHANGED counters

\* recordMetrics, on the metrics m of a key.
Recorded(m, field) == [m EXCEPT !.total = OneMore(@), ![field] = OneMore(@)]

Told(k) == results' = [results EXCEPT ![k] = OneMore(@)]

CallSucceeds(c, k) ==
  /\ Succeed(c, k) /\ Told(k)
  /\ metrics' = [metrics EXCEPT ![k] = Recorded(@, "success")]
  /\ UNCHANGED spoiled

CallFails(c, k) ==
  /\ Fail(c, k) /\ Told(k)
  /\ metrics' = [metrics EXCEPT ![k] = Recorded(@, "failed")]
  /\ UNCHANGED spoiled

\* The call succeeded and logger.info() throws, inside the try block: the catch block
\* records a failure too, and the caller gets the logger's error.
LoggerThrows(c, k) ==
  /\ key[c] = k
  /\ failureCount' = [failureCount EXCEPT ![k] = CountAfterSuccess(k) + 1]
  /\ state' = [state EXCEPT ![k] = IF ReachesThreshold(failureCount'[k]) THEN "open" ELSE "closed"]
  /\ age' = [age EXCEPT ![k] = 0]
  /\ failuresInRow' = [failuresInRow EXCEPT ![k] = 1]
  /\ Settle(c)
  /\ Told(k)
  /\ metrics' = [metrics EXCEPT ![k] = Recorded(Recorded(@, "success"), "failed")]
  /\ spoiled' = [spoiled EXCEPT ![k] = OneMore(@)]

ResetMetrics ==
  /\ metrics' = NoCalls /\ results' = NoResults /\ spoiled' = NoResults
  /\ UNCHANGED vars

Ends(c, k) == CallSucceeds(c, k) \/ CallFails(c, k) \/ LoggerThrows(c, k)

GateNext ==
  \/ \E c \in Calls, k \in Keys : Refused(c, k) \/ Enter(c, k) \/ Ends(c, k)
  \/ Tick /\ UNCHANGED counters
  \/ ResetMetrics

\* Every call settles: that is CallsSettle of RpcConnection.
GateSpec ==
  /\ GateInit /\ [][GateNext]_gateVars
  /\ \A c \in Calls, k \in Keys : WF_gateVars(Ends(c, k))

-----------------------------------------------------------------------------
\* The metrics count every call that passed the gates once, as a success or as a
\* failure, except that a success whose logger threw counts as both; a reset while
\* calls are running loses none of them.
MetricsTellResults ==
  \A k \in Keys :
    /\ metrics[k].total = (results[k] + spoiled[k]) % Modulus
    /\ metrics[k].total = (metrics[k].success + metrics[k].failed) % Modulus

=============================================================================
