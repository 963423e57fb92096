--------------------------- MODULE CircuitBreaker ---------------------------
(***************************************************************************)
(* The client's circuit breaker (packages/core/src/client/circuit-breaker.ts) *)
(* together with the calls that ask it and report to it, as                *)
(* RpcClient.call does (rpc-client.ts).  canRequest runs when a call        *)
(* starts, recordSuccess or recordFailure when it settles: in between the  *)
(* breaker may have changed its state any number of times, so results of   *)
(* an earlier "closed" era arrive while it is open or half-open.           *)
(*                                                                         *)
(* Time: age is Date.now() - openedAt in units of which resetTimeoutMs is  *)
(* Reset, saturating there; the wall clock is taken not to go back.        *)
(***************************************************************************)
EXTENDS Naturals, FiniteSets

CONSTANTS
  Keys,       \* "service.method" keys
  Calls,      \* concurrent calls
  NoKey,      \* a call that is not running
  Threshold,  \* options.failureThreshold, at least 1 by the constructor
  Reset       \* options.resetTimeoutMs, at least 0 by the constructor

ASSUME ThresholdAssumption == Threshold \in Nat \ {0}
ASSUME ResetAssumption == Reset \in Nat
ASSUME NoKeyAssumption == NoKey \notin Keys

VARIABLES
  state,         \* entry.state of each key
  failureCount,  \* entry.failureCount of each key
  age,           \* time since entry.openedAt of each key, 0 unless open
  key,           \* the key each running call was admitted for
  probing,       \* the calls admitted while the breaker of their key was half-open
  failuresInRow  \* history: failures recorded since the last success, up to Threshold

vars == <<state, failureCount, age, key, probing, failuresInRow>>

States == {"closed", "open", "half-open"}

\* A key that was never used has a closed entry (getOrCreateEntry).
Init ==
  /\ state = [k \in Keys |-> "closed"]
  /\ failureCount = [k \in Keys |-> 0]
  /\ age = [k \in Keys |-> 0]
  /\ key = [c \in Calls |-> NoKey]
  /\ probing = {}
  /\ failuresInRow = [k \in Keys |-> 0]

-----------------------------------------------------------------------------
(* Plausible slips, one per helper they would replace.                     *)

ForgetsToReset(k) == failureCount[k]
FailureInHalfOpenIgnored(k) == FALSE
CountsEveryFailure(k) == TRUE
FailureWhileOpenReopens(k) == state[k] \in {"open", "half-open"}

-----------------------------------------------------------------------------
CanRequest(k) == state[k] # "open" \/ age[k] >= Reset

\* canRequest returns true: the call goes ahead.  (When it returns false call()
\* throws CIRCUIT_BREAKER_OPEN and nothing changes.)
Admit(c, k) ==
  /\ key[c] = NoKey
  /\ CanRequest(k)
  /\ state' = [state EXCEPT ![k] = IF @ = "open" THEN "half-open" ELSE @]
  /\ age' = [age EXCEPT ![k] = 0]
  /\ key' = [key EXCEPT ![c] = k]
  /\ probing' = IF state'[k] = "half-open" THEN probing \cup {c} ELSE probing
  /\ UNCHANGED <<failureCount, failuresInRow>>

\* The call settled: it is not running any more.
Settle(c) == key' = [key EXCEPT ![c] = NoKey] /\ probing' = probing \ {c}

CountAfterSuccess(k) == 0   \* failureCount = 0 in close()

\* recordSuccess closes the breaker whatever its state.
Succeed(c, k) ==
  /\ key[c] = k
  /\ state' = [state EXCEPT ![k] = "closed"]
  /\ failureCount' = [failureCount EXCEPT ![k] = CountAfterSuccess(k)]
  /\ age' = [age EXCEPT ![k] = 0]
  /\ failuresInRow' = [failuresInRow EXCEPT ![k] = 0]
  /\ Settle(c)

ReachesThreshold(n) == n >= Threshold
ReopensOnFailure(k) == state[k] = "half-open"
CountsFailure(k) == state[k] = "closed"

\* recordFailure, for every error of the call.
Fail(c, k) ==
  LET count == IF CountsFailure(k) THEN failureCount[k] + 1 ELSE failureCount[k]
      opens == ReopensOnFailure(k) \/ (CountsFailure(k) /\ ReachesThreshold(count))
  IN /\ key[c] = k
     /\ failureCount' = [failureCount EXCEPT ![k] = count]
     /\ state' = [state EXCEPT ![k] = IF opens THEN "open" ELSE @]
     /\ age' = [age EXCEPT ![k] = IF opens THEN 0 ELSE @]
     /\ failuresInRow' = [failuresInRow EXCEPT ![k] = IF @ < Threshold THEN @ + 1 ELSE @]
     /\ Settle(c)

\* A unit of time passes.
Tick ==
  /\ age' = [k \in Keys |-> IF state[k] = "open" /\ age[k] < Reset THEN age[k] + 1 ELSE age[k]]
  /\ UNCHANGED <<state, failureCount, key, probing, failuresInRow>>

Next ==
  \/ \E c \in Calls, k \in Keys : Admit(c, k) \/ Succeed(c, k) \/ Fail(c, k)
  \/ Tick

Spec == Init /\ [][Next]_vars

\* Every call settles: that is CallsSettle of RpcConnection.
FairSpec == Spec /\ \A c \in Calls, k \in Keys : WF_vars(Succeed(c, k) \/ Fail(c, k))

-----------------------------------------------------------------------------
TypeOK ==
  /\ state \in [Keys -> States]
  /\ failureCount \in [Keys -> 0 .. Threshold]
  /\ age \in [Keys -> 0 .. Reset]
  /\ key \in [Calls -> Keys \cup {NoKey}]
  /\ probing \subseteq Calls
  /\ failuresInRow \in [Keys -> 0 .. Threshold]

\* The breaker is tripped exactly when the last Threshold results of the key were
\* failures, counted over all its calls in the order they settle: no result that
\* arrives while it is open or half-open disturbs the count.
TripsAtThreshold ==
  \A k \in Keys :
    /\ failureCount[k] = failuresInRow[k]
    /\ state[k] = "closed" <=> failureCount[k] < Threshold

\* A half-open breaker always has a probe in flight that will decide it: no order
\* of late results leaves it half-open with nobody to close or reopen it.
HalfOpenHasProbe ==
  \A k \in Keys : state[k] = "half-open" => \E c \in probing : key[c] = k

\* Late failures of calls admitted before the breaker opened do not postpone the
\* probe: the time an open breaker has been open never goes back.
OpenIsNotExtended ==
  [][\A k \in Keys : state[k] = "open" /\ state'[k] = "open" => age'[k] >= age[k]]_vars

\* A half-open period ends: some result closes the breaker or opens it again.
HalfOpenEnds == \A k \in Keys : state[k] = "half-open" ~> state[k] # "half-open"

\* Claimed by the comment on resetTimeoutMs: an open breaker lets one half-open
\* probe through.
OneProbe ==
  \A k \in Keys : Cardinality({c \in probing : key[c] = k}) <= 1

=============================================================================
