# TLA+ models of weisley-rpc

Models of the TypeScript RPC framework in `src/packages`, checked with TLC. Every
invariant and action property that the checks run is also proved with TLAPS; liveness
is only checked. The reference is the code: `PROJECT.json` maps every
definition that models code to the lines it stands for.

## 1. The system

A client calls methods of named services over TCP. One JavaScript thread runs on
each side, so nothing is concurrent inside a callback; what is hard is the order
of the callbacks: promise reactions, timers, socket events and user code.

| component | state it keeps | operations | talks to | hard behaviour | what makes it correct |
|---|---|---|---|---|---|
| `RpcConnection` (`core/src/client/connection.ts`) | state, socket, shared connect promise, pending map and request timers, reconnect timer and attempts, heartbeat, `manuallyClosed`, codec | `connect`, `send`, `close`; socket events; request, reconnect and heartbeat timers | Node sockets, the codec, `RpcClient` | events of an old socket after a new one was made; `close()` in every phase; reconnect callbacks that outlive what started them | callers, pending map and timers agree; nobody waits for nothing; every call settles; a lost connection comes back; a closed one stays closed |
| `RpcClient` (`rpc-client.ts`) | pools, metrics, options | `call`, `connect`, `close`, metrics | gates, pools, balancer, retry policy | retry with the same id, calls that share a connect, close during a retry | bounded attempts, no needless second run, an end for every call |
| `RpcConnectionPool` | connections, `nextIndex` | `getConnection`, `close` | `RpcConnection` | growth, then rotation, by interleaved calls | size bound, even use |
| `CircuitBreaker` | state, failure count and `openedAt` per method | `canRequest`, `recordSuccess`, `recordFailure` | `RpcClient.call` | results that arrive in a later era | trips exactly at the threshold, never stuck half-open |
| `TokenBucketRateLimiter` | tokens, `lastRefillAt` | `allow`, `getAvailableTokens` | wall clock | clock set back, remainders | at most capacity plus refills per window |
| retry policy, load balancers, `StaticRegistry` | a cursor per service | `shouldRetry`, `select`, `lookup` | `RpcClient` | a cursor shared by concurrent calls | a lone call tries every endpoint |
| `RpcServer` (`server/rpc-server.ts`) | state, listener, sockets, active requests, drain resolvers | `listen`, `close` (graceful or not), data handlers | Node sockets, `MethodInvoker` | a drain against handlers with messages left, failed writes, second `close()`, errors nobody catches | the count is exact, the drain waits for what is active, nothing is left open |
| `MethodInvoker`, `ServiceRegistry` | a map of services | `invoke`, `register` | user methods | errors as answers | every request gets an answer |
| codec, packets, `BufferQueue` (`protocol/src`) | a queue of bytes | `encode`, `push` | both sides | frames split and joined, an exception in the middle of a chunk | what is encoded is decoded, in order, however it is cut |
| serializers, gzip | none | conversions | codec | limits before and after compression | both peers accept what the other may send |
| proxy, logger, errors, benchmark, example | none of their own | | | | |

`PROJECT.json` lists the hazards of this code, each at its line.

## 2. The modules

| module | what it is |
|---|---|
| `RpcConnection` | One connection, its sockets and the calls over it. One action per callback or method. |
| `CallContract` | What a caller is promised: a call waits, is transmitted, and is fulfilled, refused or failed at most once; only a failed call is issued again. |
| `MCRpcConnection` + 4 cfg | Instances for TLC. |
| `CircuitBreaker`, `MCCircuitBreaker` + 1 cfg | The breaker with the calls that ask it and report to it. |
| `CallGate`, `MCCallGate` + 1 cfg | `RpcClient.call` around a call: limiter, breaker, metrics and a logger that may throw. Extends `CircuitBreaker`. |
| `TokenBucket`, `MCTokenBucket.cfg` | The limiter against a clock that may go back. |
| `RpcServer`, `MCRpcServer` + 1 cfg | The server's lifecycle, handlers and drain. |
| `ServerContract` | What the server promises: a drain that begins nothing, waits for what runs or for its time, and ends all sockets at once; a crash at any time. `RpcServer` implements it. |
| `Failover`, `MCFailover` + 2 cfg | Discovery calls: retry loop, balancers, pools, shared connections, `close()`, a logger that may throw. |
| `Deployment`, `MCDeployment` + 1 cfg | The client of `Failover` (extended) against servers that drain, stop and start again, with `MethodInvoker`'s answers. |
| `Serializers` | What JSON and protobuf write of a message and read back. |
| `Codec`, `MCCodec` + 1 cfg | Two codecs, the bytes between them and the `BufferQueue`. |
| `RpcConnectionProofs`, `CircuitBreakerProofs` (with `CallGate`), `TokenBucketProofs`, `RpcServerProofs`, `FailoverProofs`, `DeploymentProofs`, `CodecProofs` | The theorems of these modules, section 4. |
| `SequenceLemmas` | Lemmas about `FlattenSeq` that `FailoverProofs` and `CodecProofs` need. |

Each module has a section *Plausible slips*: variants of a helper as a likely bug
would have them. They are not used by the specification; each property is known
to fail when its helper is replaced by one of them (`mutants` in `PROJECT.json`).

### RpcConnection

Variables are the fields of the class under their names (`cur` is `this.socket`,
`connecting` says that `connectionPromise` is not null, a timer is a boolean) and,
outside of it, the phase of each call (`phase`), each socket as Node sees it
(`sock`), what was written and not yet answered (`wire`) and whose partial frame
the codec holds (`residue`). An action is one callback, or the part of an async
function between two awaits; where several promise reactions follow an event
without anything in between (`ConnectEvent`, `ErrorOn`) they are one action,
except that a caller resumed by `connect()` (`Resume`) and the catch block of the
reconnect callback (`CallbackCatch`) are actions of their own, since user code may
run before them.

The guards `MicrotasksDone` and `Quiet` keep the order Node guarantees: promise
reactions and next-tick callbacks first, and the `'close'` of a socket destroyed
by a poll-phase event before other sockets' events. Sockets destroyed otherwise
are "lingering": their `'close'` may come late. User code may run at any point.

### CircuitBreaker, CallGate, TokenBucket

A call holds the key it was admitted for until it settles, with any number of
results in between. `age` is the time an open breaker has been open, up to
`resetTimeoutMs`. `CallGate` runs the breaker's actions from where `call()` does:
a call that the limiter or the breaker refuses records nothing; one that settles
reports to the breaker, then to the metrics, then to the logger. `logger.info()`
stands inside the try block, so that `LoggerThrows` is a success and a failure at
once. The limiter of `CallGate` refuses at will: `TokenBucket` says how often it
really does, and nothing behind it depends on that. `TokenBucket` uses integers as they are in the code; `Clock`
sets the clock to any instant up to one past the latest.

### RpcServer

`handler`, `left` and `serves` are the program counter, the rest of the chunk and
the socket of each running data handler; `closer` is the program counter of each
`close()`. The write callback (`WriteDone`) and the continuation of the handler
(`Continue`) are separate, since other events run in between.

An accepted socket has no `'error'` listener, and nobody waits for the promise of a data
handler. A reset by the peer (`PeerResets`), an answer written to a socket whose peer has
ended it (`WritesAfterEnd`) and a logger that throws in the catch block (`WarnThrows`)
therefore end the process: `Crash` sets `crashed`, and nothing happens after it. A socket
that its peer ends in good order (`PeerEnds`) is ended by Node as well and destroyed when
what is being written is out (`EndFlushed`). `WriteFails` is left for sockets that this
side destroyed, whose writes fail without an `'error'`.

### Failover

A connection is reduced to what `RpcConnection` shows its users. Requests carry
the number of their attempt for the histories only; an answer finds a call by its
id and connection, as in the code, so that the answer to one attempt may settle a
later one. A socket that is lost ends its requests and answers (`Disconnected`), except that
the `'close'` of an old socket also disconnects the connection (`StaleClose`), whose current
socket is still open and goes on delivering. If `logger.warn()` throws between two attempts,
the call ends with what it threw (`lastError` "thrown"). `Answers` says which answers servers give; a request can always be
encoded (`Codec` says when it can). A connection hit by `close()` while connecting is "closing", then
"wedged": its state says connected over an ended socket.

### RpcServer and ServerContract

The refinement maps the phase of the server to what its `close()` calls do (not to
`this.state`, which a failed `close()` leaves behind), the active requests to the
handlers that are counted, each with the number of messages left, so that the handlers that are counted, each with the number of messages left, so that the next
message of a chunk is a new request, and the open sockets to the sockets. The contract says
nothing of a single socket: peers and handlers may end one at any time (`Lose`).

### Deployment

The servers are reduced to what `ServerContract` promises: phase, open sockets,
requests whose method runs. `Refuse`, `Begin` and `Finish` are the data handler,
`Drain`, `Stop` and `StopByTimeout` the graceful `close()`, `Restart` a new
`RpcServer` on the port. The client's actions are those of `Failover`, with the
outcome decided by the server: a connection is refused unless the server is up, a
socket ends only when the server stops or a handler on it throws, what was not read is
lost, and of what was written only refusals may be. `HandlerThrows` is an answer that
cannot be encoded or a log call that throws: the catch block destroys the socket, and every
request running on it is cut off and runs again at the client's next attempt.
`disturbed` and `excused` are histories that say what a call may blame. A method that
was cut off runs on without a socket; if it is the last to run, the server stops
when its `timeoutMs` is over (`Stop` does not wait for it). Premises: no process crashes
and the catch block's `logger.warn()` does not throw (`RpcServer` has both), and no
request times out (`Failover`).

### Codec and Serializers

A byte is its position in the stream, a chunk a sequence of positions, so that a
byte dropped or taken twice is seen wherever it happens. `Push` hands over any
number of the next bytes; `DecodeFrame` is one turn of the loop of `push()`, all its
checks included; `BadHeader` is an exception of `decodePacketHeader`, which leaves
the queue as it is. Only a peer of another protocol version makes one here. A
message is a record of the fields of its type with values of three kinds
(undefined, null, other), which is what the serializers treat differently. The
chunks of the queue are cut as `copy()` cuts them.

## 3. The runs

| run | what it asks | size |
|---|---|---|
| `connection` | ten properties of two calls over three sockets, all interleavings, frames cut by TCP included, up to a crash | 245 000 states |
| `connection-live` | every call settles; a lost connection comes back if the server is up | 3 600 |
| `breaker` | trip, probe, open period, metrics; half-open ends | 181 000 |
| `limiter` | requests per window, grid of refills | 14 000 |
| `server` | count, drain, closed; the contract, up to a crash; every close ends, unless the process does first | 780 000 |
| `failover` | attempts, endpoints tried, repeated runs | 1 210 000 |
| `failover-live` | even use of a pool; every discovery call ends | 365 000 |
| `codec` | what is decoded however the bytes are cut; limits of both sides | 320 000 |
| `deployment` | who notices two restarts and handlers that throw, and what runs twice | 1 440 000 |

The properties are stated with comments in the modules. The ones that say most:

- `PendingMatchesCallers`, `NoLostWaiter`, `AwaitedIsOnTheWire`: map, timers,
  promise, sockets and callers never disagree, through stale events included.
- `ReconnectArmed`, `CallsSettle`, `SelfHeals`: the chain of reconnects does not break.
- `TripsAtThreshold`, `HalfOpenHasProbe`, `OpenIsNotExtended`: late results are harmless.
- `WindowBound`: no clock makes the limiter allow more than it should.
- `MetricsTellResults`: what the metrics count, and what a throwing logger adds.
- `ActiveCounts`, `CloseCompletes`; `ImplementsContract`: a drain waits and begins nothing.
- `RunsOncePerUnknown`: a method runs again only when an attempt left its fate unknown.
- `RestartGoesUnnoticed`: with round robin a call that is alone survives restarts as long
  as one endpoint was at rest while it ran: up, without connections to an old server, and
  with no handler that threw.
- `RunsOnceThroughRestarts`: a graceful restart runs nothing twice, unless the answer was
  cut off, because the drain ran out of time or a handler on the same socket threw, or was
  itself an `RpcError` with a code that is retried.
- `InOrderWhole`: cut anywhere, `push()` returns what was sent, and an exception loses
  the messages of its own chunk only.
- `SameOptionsAgree`: peers with the same options accept each other's frames, but for
  one that compression made longer than `maxBodyLength`.

### Disagreements between code and documents

Three runs expect a violation, each of something a document, comment or test says.

| run | the code does |
|---|---|
| `connection-closed` | `close()` while connecting: the state becomes "connected" again, and later stays so over a dead socket. |
| `connection-crash` | the codec keeps a dead socket's partial frame; the next socket's bytes make it throw where nobody catches. |
| `breaker-oneprobe` | half-open admits every call. |

The models also reach the following, for which no run is kept. They are worth a
decision by the maintainers:

- An accepted socket has no `'error'` listener (`rpc-server.ts:104`). When the peer resets
  the connection, or an answer is written to one that has ended, the `'error'` ends the
  process, and every other connection with it; the README has "bad-connection isolation"
  (`README.md:217`) and "Server keeps serving new connections" (`:223`). In `RpcServer`
  it is three steps away: `Listen`, `Accept`, `PeerResets`.
- A call refused by a draining server is retried at the same one, if another call took
  its turn of the shared cursor (`rpc-client.ts:255`), and can fail with an endpoint untried;
  `README.zh-CN.md:407` says it goes to another endpoint. `LoneCallTriesAll` and
  `RestartGoesUnnoticed` therefore speak of a call that no other comes between.
- The listeners of a socket do not check that it is still `this.socket`
  (`connection.ts:162`): the late close of an old socket disconnects the
  connection, which then opens a second socket beside the one that is still open.
- A `close()` of the server during a graceful one returns at once, while the server
  still drains (`rpc-server.ts:74`).
- `activeRequests` does not count requests answered SERVER_DRAINING
  (`rpc-server.ts:85`): the end of the drain destroys their sockets although the
  answer is still being written.
- The retry of a refused call may select the endpoint that refused it also without other
  calls: with weights (`rpc-client.ts:255`), and always with the least-active balancer, to
  which no client reports counts.
- An answer that cannot be encoded is not turned into an error answer (`rpc-server.ts:172`):
  the socket is destroyed, and a discovery client runs the method again, and every other
  one that ran on that socket.
- The answer of a method that passes on the `RPC_TIMEOUT` of a call of its own is taken for
  a transport error, and the method runs again (`retry-policy.ts:34`).
- `logger.warn()` between two attempts stands in the catch block (`rpc-client.ts:286`): if it
  throws, the call ends although attempts are left.
- A logger that throws in `info()` makes a call that succeeded fail for its caller,
  the breaker and the metrics (`rpc-client.ts:131`).
- A frame that compression made longer than `maxBodyLength` is sent and refused by a
  peer with the same options (`codec.ts:57`, `:96`), and so is any large frame if
  `maxDecompressedBodyLength` is given and smaller than `maxBodyLength`.
- An exception in `push()` loses the messages decoded before it from the same chunk
  (`codec.ts:85`).
- The limits of the codec are checked after buffering and after decompressing
  (`codec.ts:107`): they bound what is accepted, not the memory used, which
  `README.zh-CN.md:251` and `:612` say the second one does. Memory is not modelled.
- A discovery call between two attempts connects again after `client.close()`
  (`rpc-client.ts:260`).

### Bounds

| bound | value | why it is enough |
|---|---|---|
| requests | 2 (1 in `connection-live`) | one to be disturbed, one to disturb it. For liveness one is enough: calls meet only in the shared promise, which settles for all of them in one step, and reconnects and `close()` disturb a lone call in the same ways |
| sockets | 3, 2 in `connection-live` | a stale one, the current one, and one still to come; identities are reused, so any number follow one another |
| `AttemptCap` | 2 (1 in `connection-live`) | below the cap, at the cap, reset |
| `Threshold`, `Reset` | 2 | one failure is not enough, two are; an open breaker before and after its timeout |
| keys, calls | 2 keys; 3 calls | keys are independent; two late results and a probe |
| `Modulus` | 2 | calls are counted modulo this: a call counted twice, or not at all, makes a difference of one |
| limiter | see `MCTokenBucket.cfg` | several intervals, refills smaller and larger than what is missing |
| `MaxListens`, sockets, handlers, closers | 2 each | a restart; one handler active while another refuses; a close during a close |
| `MaxMessages` | 2 | a handler with a message left |
| calls, endpoints, attempts | 2, 2, 2 (one endpoint, listed twice, in `failover-live`: `getMaxAttempts` allows no more attempts than entries) | the least in which calls disturb each other's cursor and connections |
| `MaxConnections` | 2 in `failover-live`, which begins with a pool of any size, since earlier calls may have filled it | four selections: two to fill an empty pool and one round, or two rounds of a full one, in which the `nextIndex` that went round is used |
| answers | draining and fatal in `failover`, none in `failover-live` | a result ends a call as an error that is not retried does, an error that is retried leaves the call where its timer does; `deployment` has all kinds |
| `MaxConnections` | 1 in `failover` and `deployment` | sharing |
| cursor at first | 0 in `deployment` | for two endpoints the other cursor is this one with the names swapped |
| `MaxDrains` | 2 | the same server twice, or both in turn; more only repeat it for two calls of two attempts |
| `MaxFrames` | 3 | one lost, one before and one after it, in one chunk or several |
| lengths, options | see `MCCodec` | header of 2, bodies up to 3 (longer or shorter when compressed), limits below, at and above them; both serializers, registered or not, two versions |

Symmetry (calls, sockets) is used in safety runs only. Deadlock is checked in
`connection-live`, `breaker` and `limiter`. It is off where the system may stop:
after a crash, when a bounded server has seen all its sockets and closes, when all
bounded calls have ended, and when all frames have been decoded.

### Fairness

- Connection: promise reactions run before anything else (WF); timers and
  `'close'` events are never lost, a connection attempt ends, a half-closed socket
  is closed (SF, because these wait for `Quiet`, which comes and goes). Nothing is
  assumed of users, of answers or of the heartbeat. `SelfHeals` has
  `ServerUp` as a premise, and `connection-live` takes frames whole: a crashed
  process heals nothing.
- Breaker: a call settles, which is `CallsSettle`.
- Server: as long as the process lives a destroyed socket is closed, timers and
  continuations run. Methods and writes may never finish.
- Failover: sleeps and request timers end, a connection attempt ends. Servers may
  never answer.

## 4. What is proved

Each theorem holds for all values of the constants under the named assumptions of the
modules. These say that special values are distinct and bounds positive, and:

- `CallsAssumption` (Failover), `HandlersAssumption` (RpcServer): calls and handlers
  are finitely many, so that they can be counted.
- `LookupAssumption`: the registry returns a list of endpoints that is not empty
  (for an empty one `call()` fails before anything that is modelled).
- `EveryAnswerAssumption` (Deployment): servers give every kind of answer. They are
  not restricted further, so that this is the general case.
- `MessagesAssumption` (Codec): a message has the fields of its type.

No theorem has a hypothesis beyond these, but for `GateLateFailuresAreHarmless`: its
`Threshold > 1` is needed, since with a threshold of 1 a success whose logger throws
closes the breaker and opens it again in one step, which starts its time anew.

Each section gives the inductive invariant and what the properties lack to be inductive
by themselves.

### RpcConnectionProofs

- `TypeCorrect`: `TypeOK` is inductive. Lemmas give the types that the helpers
  shared by several actions (`ScheduleReconnect`, `Send`, `ErrorOn`, ...) leave.
- `PendingCorrect`: `PendingMatchesCallers` is inductive relative to `TypeOK`; the
  work is in `rejectAll`, `send` and the answers.
- `WaitersCorrect`: `NoLostWaiter` is inductive relative to `TypeOK`. Its third
  conjunct (only the current socket can be connecting) is the strengthening: the
  error of any other socket then cannot settle the promise.
- `BackoffCorrect`, `ArmedCorrect`, `ReadableCorrect`, `HeartbeatCorrect`,
  `AwaitedCorrect`: from `SocketInv` (and `TypeOK`, `NoLostWaiter`). The properties speak
  of the time between events (`Quiet`). `SocketInv` says what holds during them too:
  either a socket owes its `'error'` or `'close'` (`Owed`), or state, heartbeat and
  what is pending fit the current socket; and a failed reconnect that has yet to be
  caught leaves nothing pending and no heartbeat.
- `ContractImplemented`: each step maps to a step of `CallContract` or leaves the
  outcomes alone, using `PendingMatchesCallers`.
- `ReopenedByUserOnly` needs no invariant: only `doConnect` clears `manuallyClosed`,
  and the reconnect callback gives up before it when the connection is closed.

### CircuitBreakerProofs

The breaker by itself (`Spec`): the inductive invariant is `TypeOK`, `TripsAtThreshold`,
`HalfOpenHasProbe` and `ProbesRun` (a probing call runs for some key); without the
last, a settled call could be taken for a probe. `OpenIsNotExtended` follows from
the shape of `Fail` under that invariant.

Behind the gates (`GateSpec`): the same invariant, which the limiter cannot disturb and a
throwing logger disturbs only as a success and a failure at once, and
`MetricsTellResults` with the ranges of the counters (`MetricsCorrect`). The counters
wrap, so sums are compared modulo `Modulus`.

### TokenBucketProofs

`WindowBound` bounds what was allowed by the time that has passed; what is inductive
is a bound by the refills on the grid (`GridBound`): tokens allowed and tokens left come
from the bucket and from the periods between that of the window's start and that of
`lastRefillAt`. A clock set back stops refills and changes neither.

### RpcServerProofs

`ActiveCounts` is inductive, by cardinality. The others need to know that one `close()` at
a time is in progress, of a server that is not `this.server` any more (`OneCloser`), that
requests are refused as long as it drains and none is active when it has drained
(`DrainRefuses`), and which sockets belong to which listener (`Listeners`).
`ContractImplemented` maps each action to an action of `ServerContract`: a continuation
that begins the next message of its chunk is an end and a beginning for the contract,
and both a drain and a plain `close()` end all sockets in one step; a crash is one of the contract.

### FailoverProofs

- `RunsCorrect`: `AttemptsAccounted` weighs, for each call, the runs there were and the
  requests and refusals still on their way against the attempts whose fate is unknown
  and the last one. Every action is one of a few moves of that account (`Moves`),
  which is all the invariant needs to know of it.
- `PoolCorrect`: `EvenUp` says how often each connection of an endpoint has been used: a
  common number, and one more for those before `nextIndex`. The modulo of
  `nextIndex` is the difficulty. It starts from empty pools; pools that earlier calls have
  filled are only model-checked.
- `TypeCorrect`: that attempts and runs stay within `getMaxAttempts` needs the same moves
  (`AttemptsCover`).
- `LoneCallCorrect`: with round robin the endpoints selected are consecutive
  ones of the list, starting anywhere (`SelectedInTurn`), and a call that gives up has
  made all its attempts (`GivesUpLate`): as many consecutive ones as the list is long
  are all of it.

### DeploymentProofs

On top of `RoundInv` of `FailoverProofs`, which still holds when servers decide the
outcomes.

- `RestartsRunOnce`: `FlightInv` says that a request is in one place at a time (on its way,
  in a method, answered), only while its call waits for this attempt, and that
  each earlier run is excused. A server that stops and a handler that throws end sockets
  in the same way (`EndSockets`), about which this is proved once (`EndFlight`).
- `RestartUnnoticed`: `VainInv` says that each endpoint a call has tried in vain was
  disturbed while it ran (by a restart or a handler that threw), or is the one it is at.
  With `RoundTriesAll` (all have been tried) the property follows.

### CodecProofs

The invariant says that frames follow one another in the stream (`Stream`), that the
chunks are the consecutive bytes from the first not read to the last arrived (`Queued`),
and that unless `push()` has thrown the first byte not read is the end of the last
frame decoded (`InStep`). The main lemmas: `FlattenConsecutive` and `ChunksRead` (what
`peek` sees and what `read` leaves, however the bytes were cut), `NextHeader` (the
header that is found is that of the next frame) and `RoundTrip` (either serializer
brings over what a message means).

### What a recursive definition computes

Weighted round robin and the `BufferQueue` flatten sequences, and `FlattenSeq` is a
recursive function. The library's induction theorems take an operator as a parameter
and cannot be used here, so `SequenceLemmas` proves what holds of every length from the
well-foundedness of the naturals: the set of the lengths for which it fails would have a
least element (`LeastNatural`), and the step from the one before it refutes that.

### Only model-checked

Liveness: `CallsSettle`, `SelfHeals`, `HalfOpenEnds`, `CloseCompletes`, `CallsEnd`. The
prover does not reason about ENABLED, which fairness is defined by. The refinements that
are proved are of specifications without fairness.

## 5. What is not modelled

- Time as such: delays, `heartbeatTimeoutMs` against `heartbeatIntervalMs`, durations
  in the metrics.
- gzip, JSON and protobufjs themselves: compression is a change of length, a value
  that both sides can represent is not looked into.
- Ids, names and what is logged. Memory.
- The proxy, which only forwards to `call()`; benchmarks and the example.
- `listen()` during a drain; user-supplied retry policies, registries that change.
- Node below its documented events. A socket that has called `end()` is taken to
  be closed by its peer in the end.

## 6. Plan

Left to model: a heartbeat with a clock (interval against timeout), registries that
change, and least-active counts that do.

Left to prove: nothing that a run checks, except liveness. Worth stating and proving next:
that the client of `Deployment`, its outcomes forgotten, is the one of `Failover`
(each step of `DeploySpec` is a step of `Failover!Spec` or a stutter), and that the
servers of `Deployment` implement `ServerContract` one by one, which now rests
on the reading of both modules.
