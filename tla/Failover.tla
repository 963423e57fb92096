------------------------------ MODULE Failover ------------------------------
(***************************************************************************)
(* Calls of a client in discovery mode: callWithDiscoveryFailover and      *)
(* getMaxAttempts of rpc-client.ts, the connection pool, the load          *)
(* balancers and the retry policy they share.                              *)
(*                                                                         *)
(* A connection is what RpcConnection shows its users; a request that was  *)
(* written may be run by its server at any later time, or never.  An       *)
(* action is what runs between two awaits.  Every attempt of a call sends  *)
(* the same request id.                                                    *)
(*                                                                         *)
(* Abstractions: when a backoff ends and how long it is; what a method     *)
(* does; a connect() that succeeds has its callers send at once.           *)
(* After close() an old socket may still deliver: nothing is lost for it.  *)
(***************************************************************************)
EXTENDS Integers, Sequences, FiniteSets, SequencesExt

CONSTANTS
  Calls,             \* calls of one service
  Lookup,            \* registry.lookup(service), the same list at every call
  Weight,            \* endpoint.weight of each endpoint
  ActiveCount,       \* counts given to setActiveCount; no client reports any
  Balancer,          \* which LoadBalancer
  MaxConnections,    \* maxConnectionsPerEndpoint
  RetryMaxAttempts,  \* retryMaxAttempts or the rule of the method ...
  NotConfigured,     \* ... if there is one
  Answers,           \* how servers may answer a request
  NoConn             \* no connection yet, or a socket that is gone

Endpoints == Range(Lookup)
Conns == Endpoints \X (1 .. MaxConnections)

Errors == {"draining", "retryable", "fatal"}

ASSUME AnswersAssumption == Answers \subseteq {"ok"} \cup Errors
ASSUME CallsAssumption == IsFiniteSet(Calls)
ASSUME LookupAssumption == Lookup \in Seq(Endpoints) /\ Lookup # <<>>
ASSUME WeightAssumption == Weight \in [Endpoints -> Nat \ {0}]
ASSUME ActiveCountAssumption == ActiveCount \in [Endpoints -> Nat]
ASSUME BalancerAssumption == Balancer \in {"roundRobin", "weighted", "leastActive", "random"}
ASSUME MaxConnectionsAssumption == MaxConnections \in Nat \ {0}
ASSUME AttemptsAssumption == RetryMaxAttempts = NotConfigured \/ RetryMaxAttempts \in Int
ASSUME NoConnAssumption == NoConn \notin Conns

VARIABLES
  cursor,     \* the balancer's cursor for the service, modulo the list's length
  size,       \* connections in the pool of each endpoint
  nextIndex,  \* nextIndex of each pool
  link,       \* the state of each connection
  stage,      \* what each call awaits
  attempt,    \* the attempts each call has made
  via,        \* the connection of each call's attempt
  lastError,  \* lastError of each call
  requests,   \* requests on their way: call, attempt, connection
  answers,    \* answers on their way
  runs,       \* history: how often the method ran for each call
  unknown,    \* history: written attempts that failed without a refusal
  picks       \* history: the call and connection of each selection, in order

poolVars == <<cursor, size, nextIndex, picks>>
callVars == <<stage, attempt, via, lastError>>
netVars == <<requests, answers, runs>>
vars == <<poolVars, link, callVars, netVars, unknown>>

(***************************************************************************)
(* stage: "new", "connecting" (awaits connect()), "sent" (awaits the       *)
(* answer), "backoff" (sleeps) and the two ends.  Errors: SERVER_DRAINING, *)
(* the other codes of the retry policy, and all the rest; lastError is     *)
(* "thrown" if a log call threw in the catch block.  link: a               *)
(* ConnectionState, where a connection that close() hit while it connected *)
(* is first "closing" and then, if its socket connects, "wedged": its      *)
(* state is "connected" again but the socket has ended.                    *)
(***************************************************************************)
LinkStates == {"idle", "connecting", "connected", "reconnecting", "closed", "closing", "wedged"}
Stages == {"new", "connecting", "sent", "backoff", "fulfilled", "failed"}

Init ==
  /\ cursor = 0 /\ size = [e \in Endpoints |-> 0] /\ nextIndex = [e \in Endpoints |-> 0]
  /\ link = [k \in Conns |-> "idle"]
  /\ stage = [c \in Calls |-> "new"] /\ attempt = [c \in Calls |-> 0]
  /\ via = [c \in Calls |-> NoConn] /\ lastError = [c \in Calls |-> "none"]
  /\ requests = {} /\ answers = {} /\ runs = [c \in Calls |-> 0]
  /\ unknown = [c \in Calls |-> 0] /\ picks = <<>>

-----------------------------------------------------------------------------
(* Plausible slips, one per helper they would replace.                     *)

OneTooMany(n) == n <= Len(Lookup)
RetriesEverything(e) == TRUE
RetriesLostOnly(e) == e = "retryable"
KeepsCursor == cursor
StaysAtTheLast(e) == IF nextIndex[e] + 1 < size[e] THEN nextIndex[e] + 1 ELSE nextIndex[e]
WakesOne(k) ==
  LET W == {c \in Calls : stage[c] = "connecting" /\ via[c] = k}
  IN IF W = {} THEN {} ELSE {CHOOSE c \in W : TRUE}

-----------------------------------------------------------------------------
(* Load balancers.                                                         *)

\* expandWeightedEndpoints, or the list as it is.
Order ==
  IF Balancer = "weighted"
  THEN FlattenSeq([i \in DOMAIN Lookup |-> [j \in 1 .. Weight[Lookup[i]] |-> Lookup[i]]])
  ELSE Lookup

\* The first endpoint of least count.
LeastActive ==
  Lookup[CHOOSE i \in DOMAIN Lookup :
           \A j \in DOMAIN Lookup :
             /\ ActiveCount[Lookup[i]] <= ActiveCount[Lookup[j]]
             /\ j < i => ActiveCount[Lookup[i]] < ActiveCount[Lookup[j]]]

\* The endpoints select() may return.
Select ==
  CASE Balancer = "random" -> Endpoints
    [] Balancer = "leastActive" -> {LeastActive}
    [] OTHER -> {Order[cursor + 1]}

CursorAfter == (cursor + 1) % Len(Order)

-----------------------------------------------------------------------------
(* The pool.                                                               *)

HasRoom(e) == size[e] < MaxConnections
NextIndexAfter(e) == (nextIndex[e] + 1) % size[e]

\* getConnection: a new connection while there is room, then each in turn.
GetConnection(e, i) ==
  IF HasRoom(e)
  THEN /\ i = size[e] + 1
       /\ size' = [size EXCEPT ![e] = i]
       /\ UNCHANGED nextIndex
  ELSE /\ i = nextIndex[e] + 1
       /\ nextIndex' = [nextIndex EXCEPT ![e] = NextIndexAfter(e)]
       /\ UNCHANGED size

-----------------------------------------------------------------------------
(* The retry loop.                                                         *)

\* getMaxAttempts.
MaxAttempts ==
  LET n == Len(Lookup)
      atMost == IF RetryMaxAttempts < n THEN RetryMaxAttempts ELSE n
  IN IF RetryMaxAttempts = NotConfigured THEN n ELSE IF atMost < 1 THEN 1 ELSE atMost

MoreAttempts(n) == n < MaxAttempts
Retryable(e) == e # "fatal"   \* DefaultRetryPolicy.shouldRetry

\* The catch block of every call of S, whose attempt, of made[c], failed with e: a
\* call with attempts left sleeps, unless the logger throws.
FailAttempts(S, e, made) ==
  LET again == {c \in S : Retryable(e) /\ MoreAttempts(made[c])}
  IN \E thrown \in SUBSET again :
       /\ lastError' = [c \in Calls |->
            IF c \in thrown THEN "thrown" ELSE IF c \in S THEN e ELSE lastError[c]]
       /\ stage' = [c \in Calls |->
            IF c \in again \ thrown THEN "backoff" ELSE IF c \in S THEN "failed" ELSE stage[c]]

\* The next attempt of c: select, getConnection, and connect() or send().
Attempt(c) ==
  \E e \in Select, i \in 1 .. MaxConnections :
    LET k == <<e, i>>
    IN /\ GetConnection(e, i)
       /\ cursor' = CursorAfter
       /\ picks' = Append(picks, <<c, k>>)
       /\ attempt' = [attempt EXCEPT ![c] = @ + 1]
       /\ via' = [via EXCEPT ![c] = k]
       /\ \/ /\ link[k] = "connected"
             /\ stage' = [stage EXCEPT ![c] = "sent"]
             /\ requests' = requests \cup {<<c, attempt'[c], k>>}
             /\ UNCHANGED <<link, lastError>>
          \/ /\ link[k] = "connected"     \* but its socket is destroyed: CONNECTION_NOT_OPEN
             /\ FailAttempts({c}, "retryable", attempt')
             /\ UNCHANGED <<link, requests>>
          \/ /\ link[k] = "wedged"        \* a write after end(), or it is destroyed
             /\ \E err \in {"fatal", "retryable"} : FailAttempts({c}, err, attempt')
             /\ UNCHANGED <<link, requests>>
          \/ /\ link[k] \notin {"connected", "wedged"}
             /\ stage' = [stage EXCEPT ![c] = "connecting"]
             /\ link' = [link EXCEPT ![k] = IF @ = "closing" THEN @ ELSE "connecting"]
             /\ UNCHANGED <<lastError, requests>>
       /\ UNCHANGED <<answers, runs, unknown>>

Start(c) == stage[c] = "new" /\ Attempt(c)

\* A call of a service without endpoints: no attempt, or NO_ENDPOINT_AVAILABLE.
StartUnknown(c) ==
  /\ stage[c] = "new"
  /\ stage' = [stage EXCEPT ![c] = "failed"]
  /\ UNCHANGED <<poolVars, link, attempt, via, lastError, netVars, unknown>>

\* sleep() ends.
Retry(c) == stage[c] = "backoff" /\ Attempt(c)

\* Calls whose request was written and fails with an error that does not tell
\* whether the method ran.
CountUnknown(S) == unknown' = [c \in Calls |-> IF c \in S THEN unknown[c] + 1 ELSE unknown[c]]

\* RPC_TIMEOUT.
Timeout(c) ==
  /\ stage[c] = "sent"
  /\ FailAttempts({c}, "retryable", attempt)
  /\ CountUnknown({c})
  /\ UNCHANGED <<poolVars, link, attempt, via, netVars>>

\* An answer arrives: it is for the call that is pending with its id on the same
\* connection, whichever attempt that is.
Deliver(c, n, k, a) ==
  /\ link[k] = "connected"
  /\ <<c, n, k, a>> \in answers
  /\ answers' = answers \ {<<c, n, k, a>>}
  /\ IF ~(stage[c] = "sent" /\ via[c] = k)
     THEN UNCHANGED <<stage, lastError, unknown>>
     ELSE IF a = "ok"
     THEN /\ stage' = [stage EXCEPT ![c] = "fulfilled"]
          /\ UNCHANGED <<lastError, unknown>>
     ELSE FailAttempts({c}, a, attempt) /\ CountUnknown(IF a = "retryable" THEN {c} ELSE {})
  /\ UNCHANGED <<poolVars, link, attempt, via, requests, runs>>

-----------------------------------------------------------------------------
(* Connections and servers.                                                *)

Waiting(k) == {c \in Calls : stage[c] = "connecting" /\ via[c] = k}
Sent(k) == {c \in Calls : stage[c] = "sent" /\ via[c] = k}

\* The shared connect() succeeds: all who wait for it send.
ConnectDone(k) ==
  /\ link[k] = "connecting"
  /\ link' = [link EXCEPT ![k] = "connected"]
  /\ stage' = [c \in Calls |-> IF c \in Waiting(k) THEN "sent" ELSE stage[c]]
  /\ requests' = requests \cup {<<c, attempt[c], k>> : c \in Waiting(k)}
  /\ UNCHANGED <<poolVars, attempt, via, lastError, answers, runs, unknown>>

ConnectFails(k) ==
  /\ link[k] = "connecting"
  /\ link' = [link EXCEPT ![k] = "reconnecting"]
  /\ \E e \in {"retryable", "fatal"} : FailAttempts(Waiting(k), e, attempt)
  /\ UNCHANGED <<poolVars, attempt, via, netVars, unknown>>

\* The same after close(): a socket that connects has ended all the same, and one
\* that fails is not tried again.
ClosingEnds(k) ==
  /\ link[k] = "closing"
  /\ \E to \in {"wedged", "closed"} : link' = [link EXCEPT ![k] = to]
  /\ \E e \in {"retryable", "fatal"} : FailAttempts(Waiting(k), e, attempt)
  /\ UNCHANGED <<poolVars, attempt, via, netVars, unknown>>

\* The reconnect timer.
Reconnect(k) ==
  /\ link[k] = "reconnecting"
  /\ link' = [link EXCEPT ![k] = "connecting"]
  /\ UNCHANGED <<poolVars, callVars, netVars, unknown>>

\* handleUnexpectedDisconnect: every pending request is rejected.
LinkLost(k) ==
  /\ link[k] = "connected"
  /\ link' = [link EXCEPT ![k] = "reconnecting"]
  /\ \E e \in {"retryable", "fatal"} : FailAttempts(Sent(k), e, attempt)
  /\ CountUnknown(Sent(k))
  /\ UNCHANGED <<poolVars, attempt, via, runs>>

\* The socket ends: what servers answer to its requests reaches nobody.
Disconnected(k) ==
  /\ LinkLost(k)
  /\ requests' = {<<r[1], r[2], IF r[3] = k THEN NoConn ELSE r[3]>> : r \in requests}
  /\ answers' = {a \in answers : a[3] # k}

\* An older socket closes late: the current one may still deliver.  Which sockets are
\* still to close is left open.
StaleClose(k) == LinkLost(k) /\ UNCHANGED <<requests, answers>>

\* A server takes a request: it refuses it, or runs the method and answers.
Serve(c, n, k, a) ==
  /\ <<c, n, k>> \in requests
  /\ requests' = requests \ {<<c, n, k>>}
  /\ runs' = [runs EXCEPT ![c] = IF a = "draining" THEN @ ELSE @ + 1]
  /\ answers' = IF k = NoConn THEN answers ELSE answers \cup {<<c, n, k, a>>}
  /\ UNCHANGED <<poolVars, link, callVars, unknown>>

\* The state of connection k after close(): a connect() in progress goes on.
AfterClose(k) ==
  CASE link[k] = "idle" -> "idle"       \* not made yet
    [] link[k] \in {"connecting", "closing"} -> "closing"
    [] OTHER -> "closed"

\* client.close(): every connection is closed and what is pending on it rejected.
CloseClient ==
  LET pending == UNION {Sent(k) : k \in Conns}
  IN /\ link' = [k \in Conns |-> AfterClose(k)]
     /\ FailAttempts(pending, "retryable", attempt)
     /\ CountUnknown(pending)
     /\ UNCHANGED <<poolVars, attempt, via, netVars>>

-----------------------------------------------------------------------------
Call(c) == Start(c) \/ StartUnknown(c) \/ Retry(c) \/ Timeout(c)

Link(k) ==
  \/ ConnectDone(k) \/ ConnectFails(k) \/ ClosingEnds(k) \/ Reconnect(k)
  \/ Disconnected(k) \/ StaleClose(k)

Next ==
  \/ \E c \in Calls : Call(c)
  \/ \E k \in Conns : Link(k)
  \/ \E r \in requests, a \in Answers : Serve(r[1], r[2], r[3], a)
  \/ \E m \in answers : Deliver(m[1], m[2], m[3], m[4])
  \/ CloseClient

Spec == Init /\ [][Next]_vars

\* Timers fire and a connection attempt ends; nothing is assumed of servers.
Fairness ==
  /\ \A c \in Calls : WF_vars(Retry(c)) /\ WF_vars(Timeout(c))
  /\ \A k \in Conns : WF_vars(ConnectDone(k) \/ ConnectFails(k) \/ ClosingEnds(k))

\* Earlier calls, also of other services, have left connections in the pools.
WarmInit ==
  /\ \E made \in [Endpoints -> 0 .. MaxConnections] :
       /\ size = made
       /\ link = [k \in Conns |-> IF k[2] <= made[k[1]] THEN "connected" ELSE "idle"]
  /\ cursor \in 0 .. Len(Order) - 1
  /\ nextIndex = [e \in Endpoints |-> 0] /\ picks = <<>>
  /\ stage = [c \in Calls |-> "new"] /\ attempt = [c \in Calls |-> 0]
  /\ via = [c \in Calls |-> NoConn] /\ lastError = [c \in Calls |-> "none"]
  /\ requests = {} /\ answers = {} /\ runs = [c \in Calls |-> 0]
  /\ unknown = [c \in Calls |-> 0]

WarmSpec == WarmInit /\ [][Next]_vars /\ Fairness

-----------------------------------------------------------------------------
TypeOK ==
  /\ cursor \in 0 .. Len(Order) - 1
  /\ size \in [Endpoints -> 0 .. MaxConnections]
  /\ nextIndex \in [Endpoints -> 0 .. MaxConnections - 1]
  /\ link \in [Conns -> LinkStates]
  /\ stage \in [Calls -> Stages]
  /\ attempt \in [Calls -> 0 .. MaxAttempts]
  /\ via \in [Calls -> Conns \cup {NoConn}]
  /\ lastError \in [Calls -> {"none", "thrown"} \cup Errors]
  /\ requests \subseteq Calls \X (1 .. MaxAttempts) \X (Conns \cup {NoConn})
  /\ answers \subseteq Calls \X (1 .. MaxAttempts) \X Conns \X Answers
  /\ runs \in [Calls -> 0 .. MaxAttempts]
  /\ unknown \in [Calls -> 0 .. MaxAttempts]
  /\ picks \in Seq(Calls \X Conns)

PicksOf(c) == {i \in DOMAIN picks : picks[i][1] = c}
Tried(c) == {picks[i][2][1] : i \in PicksOf(c)}

\* No other call selected an endpoint between two attempts of c.
Alone(c) ==
  \A i, j \in PicksOf(c), m \in DOMAIN picks : i < m /\ m < j => m \in PicksOf(c)

\* With the default number of attempts and no call in between, round robin tries
\* every endpoint before a call fails for want of a working one.
LoneCallTriesAll ==
  \A c \in Calls :
    (/\ Balancer = "roundRobin" /\ RetryMaxAttempts = NotConfigured
     /\ stage[c] = "failed" /\ Alone(c)
     /\ lastError[c] \in {"draining", "retryable"})
      => Tried(c) = Endpoints

\* A method runs more than once for a call only as often as an earlier attempt
\* left it unknown whether it ran: definitive answers, refusals and failed
\* connects never lead to a second run, not even when the answer of one attempt
\* settles a later one.
RunsOncePerUnknown == \A c \in Calls : runs[c] <= 1 + unknown[c]

Uses(k) == Cardinality({i \in DOMAIN picks : picks[i][2] = k})

\* The connections of a pool are used evenly, while it grows and afterwards.
PoolIsEven ==
  \A e \in Endpoints, i, j \in 1 .. MaxConnections :
    i <= size[e] /\ j <= size[e] => Uses(<<e, i>>) <= Uses(<<e, j>>) + 1

\* Every call that has started ends, whatever servers and connections do.
CallsEnd ==
  \A c \in Calls : stage[c] # "new" ~> stage[c] \in {"fulfilled", "failed"}

=============================================================================
