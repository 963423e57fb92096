----------------------------- MODULE Deployment -----------------------------
(***************************************************************************)
(* A service on several RpcServers that are restarted while a client in    *)
(* discovery mode calls it: the client of Failover against servers that    *)
(* drain (rpc-server.ts) and answer through MethodInvoker and              *)
(* ServiceRegistry.  What the README promises of such a restart is that    *)
(* requests in progress are answered and new ones fail over.               *)
(*                                                                         *)
(* The network does nothing by itself here: a connection ends when its     *)
(* server stops or a handler on it throws, after everything that was       *)
(* written before has arrived, and a connect() is answered by the server   *)
(* as it is then.  No request times out, the client is not closed and no   *)
(* process crashes (Failover has the first two, RpcServer the last).       *)
(***************************************************************************)
EXTENDS Failover

CONSTANT MaxDrains   \* bound: restarts of servers

ASSUME MaxDrainsAssumption == MaxDrains \in Nat
ASSUME EveryAnswerAssumption == Answers = {"ok"} \cup Errors

VARIABLES
  phase,      \* the server of each endpoint: "up", "draining", "stopped"
  open,       \* connections whose socket is open at the server
  running,    \* requests whose method runs or whose answer is not yet written
  drains,     \* restarts begun
  disturbed,  \* history: endpoints not at rest at some time while each call ran
  excused     \* history: runs of each call whose answer was cut off, or an RpcError

serverVars == <<phase, open, running, drains>>
deployVars == <<vars, serverVars, disturbed, excused>>

Server(k) == k[1]
At(e) == {k \in Conns : Server(k) = e}

DeployInit ==
  /\ WarmInit
  /\ phase = [e \in Endpoints |-> "up"] /\ drains = 0
  /\ open = {k \in Conns : link[k] = "connected"} /\ running = {}
  /\ disturbed = [c \in Calls |-> {}] /\ excused = [c \in Calls |-> 0]

-----------------------------------------------------------------------------
(* A plausible slip, in place of Idle.                                     *)

StopsAtOnce(e) == TRUE

-----------------------------------------------------------------------------
(* The servers.                                                            *)

Unread(c, n, k) == <<c, n, k>> \in requests /\ k \in open

Refuses(e) == phase[e] = "draining"

\* A request is answered SERVER_DRAINING.
Refuse(c, n, k) ==
  /\ Unread(c, n, k) /\ Refuses(Server(k))
  /\ requests' = requests \ {<<c, n, k>>}
  /\ answers' = answers \cup {<<c, n, k, "draining">>}
  /\ UNCHANGED <<poolVars, link, callVars, runs, unknown, serverVars, disturbed, excused>>

\* MethodInvoker calls the method of the request.
Begin(c, n, k) ==
  /\ Unread(c, n, k) /\ ~Refuses(Server(k))
  /\ requests' = requests \ {<<c, n, k>>}
  /\ running' = running \cup {<<c, n, k>>}
  /\ runs' = [runs EXCEPT ![c] = @ + 1]
  /\ UNCHANGED <<poolVars, link, callVars, answers, unknown, phase, open, drains, disturbed, excused>>

(***************************************************************************)
(* What becomes of an invocation: a result; an unknown service or method,  *)
(* or an error of the method, both INTERNAL_ERROR or a code no client      *)
(* retries; or an RpcError, say of a call the method made, whose code is   *)
(* passed on.                                                              *)
(***************************************************************************)
Outcomes == {"result", "error", "RpcError"}

Response(outcome) ==
  CASE outcome = "result" -> "ok"
    [] outcome = "error" -> "fatal"
    [] outcome = "RpcError" -> "retryable"

IsExcuse(outcome) == outcome = "RpcError"

\* The answer of a method that has ended is written, if the socket is still there.
Finish(c, n, k, outcome) ==
  /\ <<c, n, k>> \in running
  /\ running' = running \ {<<c, n, k>>}
  /\ answers' = IF k \in open THEN answers \cup {<<c, n, k, Response(outcome)>>} ELSE answers
  /\ excused' = [excused EXCEPT ![c] = IF k \in open /\ IsExcuse(outcome) THEN @ + 1 ELSE @]
  /\ UNCHANGED <<poolVars, link, callVars, requests, runs, unknown, phase, open, drains, disturbed>>

\* The endpoint is disturbed while the calls that are in progress run.
DisturbedBy(e) ==
  [c \in Calls |->
     IF stage[c] \in {"new", "fulfilled", "failed"} THEN disturbed[c] ELSE disturbed[c] \cup {e}]

\* close({ graceful: true }), one server at a time.
Drain(e) ==
  /\ drains < MaxDrains
  /\ \A f \in Endpoints : phase[f] = "up"
  /\ phase' = [phase EXCEPT ![e] = "draining"]
  /\ drains' = drains + 1
  /\ disturbed' = DisturbedBy(e)
  /\ UNCHANGED <<vars, open, running, excused>>

RunningOn(K) == {r \in running : r[3] \in K}

\* Sockets are destroyed: what was not read from them is lost, and so are refusals
\* still being written and the answers of requests cut off, whose methods run on.
EndSockets(K, cutOff) ==
  /\ open' = open \ K
  /\ running' = (running \ cutOff) \cup {<<r[1], r[2], NoConn>> : r \in cutOff}
  /\ excused' = [c \in Calls |-> excused[c] + Cardinality({r \in cutOff : r[1] = c})]
  /\ \E lost \in SUBSET {m \in answers : m[3] \in K /\ m[4] = "draining"} :
       answers' = answers \ lost
  /\ UNCHANGED <<poolVars, link, callVars, requests, runs, unknown, drains>>

\* An answer cannot be encoded or a log call throws: the catch block destroys the
\* socket, whoever else's requests are on it.  The request that ends so stays among
\* those that run on.
HandlerThrows(k) ==
  /\ RunningOn({k}) # {}
  /\ EndSockets({k}, RunningOn({k}))
  /\ disturbed' = DisturbedBy(Server(k))
  /\ UNCHANGED phase

RunningAt(e) == RunningOn(At(e))

Idle(e) == RunningAt(e) = {}

StopWith(e, cutOff) ==
  /\ phase[e] = "draining"
  /\ phase' = [phase EXCEPT ![e] = "stopped"]
  /\ EndSockets(At(e), cutOff)
  /\ UNCHANGED disturbed

\* Nothing runs any more that could answer; methods whose socket is gone may run on,
\* when timeoutMs is over.
Stop(e) == Idle(e) /\ StopWith(e, {})

\* timeoutMs is over: the same, with requests running.
StopByTimeout(e) == RunningAt(e) # {} /\ StopWith(e, RunningAt(e))

\* A new RpcServer listens on the endpoint.
Restart(e) ==
  /\ phase[e] = "stopped"
  /\ phase' = [phase EXCEPT ![e] = "up"]
  /\ UNCHANGED <<vars, open, running, drains, disturbed, excused>>

-----------------------------------------------------------------------------
(* The client against these servers.                                       *)

\* An endpoint is at rest if its server is up and the client knows of no other.
AtRest(e) == phase[e] = "up" /\ \A k \in At(e) : link[k] = "connected" => k \in open

\* A connection whose socket is open takes the request.
SendsIfOpen(c) ==
  LET k == via'[c] IN link[k] = "connected" /\ k \in open => stage'[c] = "sent"

ClientStarts(c) ==
  /\ Start(c) /\ SendsIfOpen(c)
  /\ disturbed' = [disturbed EXCEPT ![c] = {e \in Endpoints : ~AtRest(e)}]
  /\ UNCHANGED <<serverVars, excused>>

ClientRetries(c) == Retry(c) /\ SendsIfOpen(c) /\ UNCHANGED <<serverVars, disturbed, excused>>

ClientHears(c, n, k, a) == Deliver(c, n, k, a) /\ UNCHANGED <<serverVars, disturbed, excused>>

Accepts(e) == phase[e] = "up"

Connects(k) ==
  /\ ConnectDone(k) /\ Accepts(Server(k))
  /\ open' = open \cup {k}
  /\ UNCHANGED <<phase, running, drains, disturbed, excused>>

\* All errors of these are retried.
NoFatal == \A c \in Calls : lastError'[c] = "fatal" => lastError[c] = "fatal"

ConnectionRefused(k) ==
  /\ ConnectFails(k) /\ NoFatal /\ ~Accepts(Server(k))
  /\ UNCHANGED <<serverVars, disturbed, excused>>

Redials(k) == Reconnect(k) /\ UNCHANGED <<serverVars, disturbed, excused>>

ConnectionEnds(k) ==
  /\ Disconnected(k) /\ NoFatal
  /\ k \notin open /\ \A a \in answers : a[3] # k
  /\ UNCHANGED <<serverVars, disturbed, excused>>

-----------------------------------------------------------------------------
DeployNext ==
  \/ \E r \in requests : Refuse(r[1], r[2], r[3]) \/ Begin(r[1], r[2], r[3])
  \/ \E r \in running, o \in Outcomes : Finish(r[1], r[2], r[3], o)
  \/ \E k \in Conns : HandlerThrows(k)
  \/ \E e \in Endpoints : Drain(e) \/ Stop(e) \/ StopByTimeout(e) \/ Restart(e)
  \/ \E c \in Calls : ClientStarts(c) \/ ClientRetries(c)
  \/ \E a \in answers : ClientHears(a[1], a[2], a[3], a[4])
  \/ \E k \in Conns : Connects(k) \/ ConnectionRefused(k) \/ Redials(k) \/ ConnectionEnds(k)

DeploySpec == DeployInit /\ [][DeployNext]_deployVars

-----------------------------------------------------------------------------
DeployTypeOK ==
  /\ TypeOK
  /\ phase \in [Endpoints -> {"up", "draining", "stopped"}]
  /\ open \subseteq Conns
  /\ running \subseteq Calls \X (1 .. MaxAttempts) \X (open \cup {NoConn})
  /\ drains \in 0 .. MaxDrains
  /\ disturbed \in [Calls -> SUBSET Endpoints]
  /\ excused \in [Calls -> 0 .. MaxAttempts]

\* A restart is not noticed: a call that no other call comes between fails for want
\* of a server only if every endpoint was restarting, had a connection left from
\* before, or lost one to a handler that threw, at some time while it ran.
RestartGoesUnnoticed ==
  \A c \in Calls :
    (/\ Balancer = "roundRobin" /\ RetryMaxAttempts = NotConfigured
     /\ stage[c] = "failed" /\ lastError[c] \notin {"fatal", "thrown"}
     /\ Alone(c) /\ excused[c] = 0)
      => disturbed[c] = Endpoints

\* A graceful restart makes no method run twice: it runs again only if its answer was
\* cut off, by the timeout of the drain or by a handler on its socket that threw, or
\* was itself an RpcError that is retried.
RunsOnceThroughRestarts == \A c \in Calls : runs[c] <= 1 + excused[c]

=============================================================================
