----------------------------- MODULE RpcServer -----------------------------
(***************************************************************************)
(* The server (packages/core/src/server/rpc-server.ts): its lifecycle, the *)
(* handlers of its sockets' 'data' events and graceful close().            *)
(*                                                                         *)
(* A 'data' handler is an async function that works through the messages   *)
(* of one chunk in order; several handlers run interleaved, also of one    *)
(* socket, and each close() call is an async function of its own.  An      *)
(* action is what runs between two awaits.                                 *)
(*                                                                         *)
(* An accepted socket has no 'error' listener and a data handler's promise *)
(* nobody who waits for it: an error that the socket emits, or that leaves *)
(* the catch block, ends the process.                                      *)
(*                                                                         *)
(* Abstractions: a chunk holds up to MaxMessages requests (pings change    *)
(* nothing here); what a method computes; the drain timer may fire at any  *)
(* time.  Assumed of the program: listen() is awaited, and called again    *)
(* only after every close() has returned.  Handlers are reused.            *)
(***************************************************************************)
EXTENDS Naturals, FiniteSets

CONSTANTS
  Conns,        \* accepted sockets, each used once
  Handlers,     \* running 'data' handlers
  Closers,      \* close() calls
  NoConn,       \* a handler that is not running
  MaxListens,   \* bound: calls of listen()
  MaxMessages   \* bound: requests in one chunk

ASSUME BoundsAssumption == MaxListens \in Nat \ {0} /\ MaxMessages \in Nat \ {0}
ASSUME NoConnAssumption == NoConn \notin Conns
ASSUME HandlersAssumption == IsFiniteSet(Handlers)

VARIABLES
  state,           \* this.state
  server,          \* this.server: the number of a listen() call, 0 for null
  listener,        \* the net.Server of each listen() call
  sockets,         \* this.sockets
  conn,            \* each socket as Node sees it
  owner,           \* the listen() call that accepted each socket
  activeRequests,  \* this.activeRequests
  drainResolvers,  \* this.drainResolvers: the close() calls they belong to
  handler,         \* what each handler awaits
  serves,          \* the socket of each handler
  left,            \* messages left in each handler's chunk, the current one included
  closer,          \* what each close() call awaits
  graceful,        \* options.graceful of each close() call
  closes,          \* the listen() call each close() call closes
  timedOut,        \* history: close() calls whose drain timer fired
  crashed          \* an error nobody caught has ended the process

serverVars == <<state, server, listener>>
connVars == <<sockets, conn, owner>>
handlerVars == <<handler, serves, left>>
closerVars == <<closer, graceful, closes, timedOut>>
vars == <<serverVars, connVars, handlerVars, closerVars, activeRequests, drainResolvers, crashed>>

(***************************************************************************)
(* A handler: "none", "invoking" a method, "answering" (awaits the write   *)
(* of the answer), "refusing" (awaits the write of SERVER_DRAINING), or    *)
(* "answered" and "refused" when that write succeeded and it is to go on.  *)
(* A close() call: "new", "draining" (awaits waitForActiveRequests),       *)
(* "drained" (to go on), "ending" (awaits closePromise), "returned" or     *)
(* "threw".                                                                *)
(***************************************************************************)
Counted == {"invoking", "answering", "answered"}
Stages == {"none", "refusing", "refused"} \cup Counted
InProgress == {"draining", "drained", "ending"}
CloserStages == {"new", "returned", "threw"} \cup InProgress

\* A socket has ended when its peer has sent FIN; until it is destroyed it may still
\* deliver what was written before.
Connected == {"open", "ended"}
Writing == {"answering", "refusing"}

Init ==
  /\ state = "idle" /\ server = 0
  /\ listener = [n \in 1 .. MaxListens |-> "new"]
  /\ sockets = {} /\ conn = [c \in Conns |-> "none"] /\ owner = [c \in Conns |-> 0]
  /\ activeRequests = 0 /\ drainResolvers = {}
  /\ handler = [h \in Handlers |-> "none"]
  /\ serves = [h \in Handlers |-> NoConn] /\ left = [h \in Handlers |-> 0]
  /\ closer = [k \in Closers |-> "new"] /\ graceful = [k \in Closers |-> FALSE]
  /\ closes = [k \in Closers |-> 0] /\ timedOut = {}
  /\ crashed = FALSE

-----------------------------------------------------------------------------
(* Plausible slips, one per helper they would replace.                     *)

NeverRefuses == FALSE
CountsEveryMessage(h) == TRUE
WakesBeforeDecrement(active) == activeRequests = 0
WokenByAnyEnd(active) == TRUE
KeepsCount(active) == active
ClearsOnlyTheSet == conn
DoesNotAwait(k) == listener[closes[k]] # "failed"

-----------------------------------------------------------------------------
(* The lifecycle.                                                          *)

\* listen() up to its await, and its outcome; also after one that failed, which leaves
\* its net.Server in this.server.
Listen ==
  /\ server # 0 => listener[server] = "failed"
  /\ \A k \in Closers : closer[k] \notin InProgress
  /\ \E n \in 1 .. MaxListens :
       /\ listener[n] = "new" /\ \A m \in 1 .. n - 1 : listener[m] # "new"
       /\ server' = n
       /\ \/ listener' = [listener EXCEPT ![n] = "listening"] /\ state' = "listening"
          \/ listener' = [listener EXCEPT ![n] = "failed"] /\ UNCHANGED state
  /\ UNCHANGED <<connVars, handlerVars, closerVars, activeRequests, drainResolvers, crashed>>

\* handleConnection.
Accept(c) ==
  /\ conn[c] = "none"
  /\ \E n \in 1 .. MaxListens :
       /\ listener[n] = "listening"
       /\ owner' = [owner EXCEPT ![c] = n]
  /\ conn' = [conn EXCEPT ![c] = "open"]
  /\ sockets' = sockets \cup {c}
  /\ UNCHANGED <<serverVars, handlerVars, closerVars, activeRequests, drainResolvers, crashed>>

\* The handler of an invalid chunk destroys the socket.
Destroy(c) ==
  /\ conn[c] = "open"
  /\ conn' = [conn EXCEPT ![c] = "destroyed"]
  /\ UNCHANGED <<serverVars, sockets, owner, handlerVars, closerVars, activeRequests, drainResolvers, crashed>>

\* The peer ends its side.  Node ends ours (allowHalfOpen is false) ...
PeerEnds(c) ==
  /\ conn[c] = "open"
  /\ conn' = [conn EXCEPT ![c] = "ended"]
  /\ UNCHANGED <<serverVars, sockets, owner, handlerVars, closerVars, activeRequests, drainResolvers, crashed>>

\* ... and destroys the socket when the writes that were under way are done.
EndFlushed(c) ==
  /\ conn[c] = "ended"
  /\ \A h \in Handlers : serves[h] = c => handler[h] \notin Writing
  /\ conn' = [conn EXCEPT ![c] = "destroyed"]
  /\ UNCHANGED <<serverVars, sockets, owner, handlerVars, closerVars, activeRequests, drainResolvers, crashed>>

\* The 'close' event of a socket.
CloseEvent(c) ==
  /\ conn[c] = "destroyed"
  /\ conn' = [conn EXCEPT ![c] = "closed"]
  /\ sockets' = sockets \ {c}
  /\ UNCHANGED <<serverVars, owner, handlerVars, closerVars, activeRequests, drainResolvers, crashed>>

\* The sockets after closeConnections, which destroys those of this.sockets.
AfterCloseConnections ==
  [c \in Conns |-> IF c \in sockets /\ conn[c] \in Connected THEN "destroyed" ELSE conn[c]]

-----------------------------------------------------------------------------
(* The handlers.                                                           *)

Refuses == state = "draining"

\* The next message of handler h, whose chunk has n left: nothing, a
\* SERVER_DRAINING answer, or an invocation.
StartMessage(h, n, active) ==
  /\ left' = [left EXCEPT ![h] = n]
  /\ IF n = 0
     THEN /\ handler' = [handler EXCEPT ![h] = "none"]
          /\ serves' = [serves EXCEPT ![h] = NoConn]
          /\ activeRequests' = active
     ELSE /\ handler' = [handler EXCEPT ![h] = IF Refuses THEN "refusing" ELSE "invoking"]
          /\ activeRequests' = IF Refuses THEN active ELSE active + 1
          /\ UNCHANGED serves

\* A chunk with n requests arrives.
Data(h, c, n) ==
  /\ handler[h] = "none"
  /\ conn[c] = "open"
  /\ serves' = [serves EXCEPT ![h] = c]
  /\ left' = [left EXCEPT ![h] = n]
  /\ handler' = [handler EXCEPT ![h] = IF Refuses THEN "refusing" ELSE "invoking"]
  /\ activeRequests' = IF Refuses THEN activeRequests ELSE activeRequests + 1
  /\ UNCHANGED <<serverVars, connVars, closerVars, drainResolvers, crashed>>

WakesDrain(active) == active = 0

\* resolveDrainIfIdle: every close() call with a resolver goes on.
ResolveDrainIfIdle(active) ==
  IF WakesDrain(active)
  THEN /\ closer' = [k \in Closers |->
                       IF k \in drainResolvers /\ closer[k] = "draining" THEN "drained" ELSE closer[k]]
       /\ drainResolvers' = {}
  ELSE UNCHANGED <<closer, drainResolvers>>

ActiveAfter(active) == active - 1

IsCounted(h) == handler[h] \in Counted

\* The exception of a failed write or encode: the finally block if the message
\* was counted, then the catch block destroys the socket.
Abort(h) ==
  /\ handler' = [handler EXCEPT ![h] = "none"]
  /\ serves' = [serves EXCEPT ![h] = NoConn]
  /\ left' = [left EXCEPT ![h] = 0]
  /\ conn' = [conn EXCEPT ![serves[h]] = IF @ \in Connected THEN "destroyed" ELSE @]
  /\ IF IsCounted(h)
     THEN /\ activeRequests' = ActiveAfter(activeRequests)
          /\ ResolveDrainIfIdle(ActiveAfter(activeRequests))
     ELSE UNCHANGED <<activeRequests, closer, drainResolvers>>
  /\ UNCHANGED <<serverVars, sockets, owner, graceful, closes, timedOut, crashed>>

\* The method settled and its answer is encoded and written, ...
InvokeDone(h) ==
  /\ handler[h] = "invoking" /\ conn[serves[h]] # "ended"
  /\ handler' = [handler EXCEPT ![h] = "answering"]
  /\ UNCHANGED <<serverVars, connVars, serves, left, closerVars, activeRequests, drainResolvers, crashed>>

\* ... unless the logger throws or the answer cannot be encoded.
EncodeFails(h) == handler[h] = "invoking" /\ Abort(h)

\* The socket's write callback.
WriteDone(h) ==
  /\ handler[h] \in Writing
  /\ conn[serves[h]] \in Connected
  /\ \/ handler[h] = "answering" /\ handler' = [handler EXCEPT ![h] = "answered"]
     \/ handler[h] = "refusing" /\ handler' = [handler EXCEPT ![h] = "refused"]
  /\ UNCHANGED <<serverVars, connVars, serves, left, closerVars, activeRequests, drainResolvers, crashed>>

\* A write to a socket destroyed on this side only gives its callback an error.
WriteFails(h) ==
  /\ handler[h] \in Writing
  /\ conn[serves[h]] \notin Connected
  /\ Abort(h)

\* The next message of the chunk is refused on a socket that has ended.
RefusesAfterEnd(h) ==
  handler[h] \in {"answered", "refused"} /\ left[h] > 1 /\ Refuses /\ conn[serves[h]] = "ended"

\* The handler goes on after a write: finally, then the next message.
Continue(h) ==
  /\ ~RefusesAfterEnd(h)
  /\ \/ /\ handler[h] = "answered"
        /\ ResolveDrainIfIdle(ActiveAfter(activeRequests))
        /\ StartMessage(h, left[h] - 1, ActiveAfter(activeRequests))
     \/ /\ handler[h] = "refused"
        /\ StartMessage(h, left[h] - 1, activeRequests)
        /\ UNCHANGED <<closer, drainResolvers>>
  /\ UNCHANGED <<serverVars, connVars, graceful, closes, timedOut, crashed>>

-----------------------------------------------------------------------------
(* close().                                                                *)

\* server.close() stops listening; without a listening server it is an error
\* that closePromise rejects with.
ListenersAfterClose(n) ==
  [listener EXCEPT ![n] = IF @ = "listening" THEN "closing" ELSE @]

\* close() up to its first await.
Close(k) ==
  /\ closer[k] = "new"
  /\ \E g \in BOOLEAN : graceful' = [graceful EXCEPT ![k] = g]
  /\ IF server = 0
     THEN /\ closer' = [closer EXCEPT ![k] = "returned"]
          /\ UNCHANGED <<serverVars, sockets, conn, closes, drainResolvers>>
     ELSE /\ server' = 0
          /\ closes' = [closes EXCEPT ![k] = server]
          /\ listener' = ListenersAfterClose(server)
          /\ IF graceful'[k]
             THEN /\ state' = "draining"
                  /\ IF activeRequests = 0
                     THEN closer' = [closer EXCEPT ![k] = "drained"] /\ UNCHANGED drainResolvers
                     ELSE /\ closer' = [closer EXCEPT ![k] = "draining"]
                          /\ drainResolvers' = drainResolvers \cup {k}
                  /\ UNCHANGED <<sockets, conn>>
             ELSE /\ state' = "closed"
                  /\ closer' = [closer EXCEPT ![k] = "ending"]
                  /\ conn' = AfterCloseConnections /\ sockets' = {}
                  /\ UNCHANGED drainResolvers
  /\ UNCHANGED <<owner, handlerVars, activeRequests, timedOut, crashed>>

\* The drain timer: removeDrainResolver is given resolve, which is not in the
\* list (resolver is), so the resolver stays.
DrainTimer(k) ==
  /\ closer[k] = "draining"
  /\ closer' = [closer EXCEPT ![k] = "drained"]
  /\ timedOut' = timedOut \cup {k}
  /\ UNCHANGED <<serverVars, connVars, handlerVars, graceful, closes, activeRequests, drainResolvers, crashed>>

\* A graceful close() goes on after the drain.
Drained(k) ==
  /\ closer[k] = "drained"
  /\ closer' = [closer EXCEPT ![k] = "ending"]
  /\ conn' = AfterCloseConnections
  /\ sockets' = {}
  /\ UNCHANGED <<serverVars, owner, handlerVars, graceful, closes, timedOut, activeRequests, drainResolvers, crashed>>

\* net.Server emits 'close' when its last socket has closed.
ListenerClosed(n) ==
  /\ listener[n] = "closing"
  /\ \A c \in Conns : owner[c] = n => conn[c] = "closed"
  /\ listener' = [listener EXCEPT ![n] = "closed"]
  /\ UNCHANGED <<state, server, connVars, handlerVars, closerVars, activeRequests, drainResolvers, crashed>>

ServerHasClosed(k) == listener[closes[k]] = "closed"

\* closePromise settled.
CloseEnds(k) ==
  /\ closer[k] = "ending"
  /\ \/ /\ ServerHasClosed(k)
        /\ closer' = [closer EXCEPT ![k] = "returned"]
        /\ state' = IF graceful[k] THEN "closed" ELSE state
     \/ /\ listener[closes[k]] = "failed"
        /\ closer' = [closer EXCEPT ![k] = "threw"]
        /\ UNCHANGED state
  /\ UNCHANGED <<server, listener, connVars, handlerVars, graceful, closes, timedOut, activeRequests, drainResolvers, crashed>>

-----------------------------------------------------------------------------
(* The process ends, and its listener, sockets and requests with it.       *)

Crash ==
  /\ crashed' = TRUE
  /\ state' = "idle" /\ server' = 0
  /\ listener' = [n \in 1 .. MaxListens |-> "new"]
  /\ sockets' = {} /\ conn' = [c \in Conns |-> "none"] /\ owner' = [c \in Conns |-> 0]
  /\ activeRequests' = 0 /\ drainResolvers' = {}
  /\ handler' = [h \in Handlers |-> "none"]
  /\ serves' = [h \in Handlers |-> NoConn] /\ left' = [h \in Handlers |-> 0]
  /\ closer' = [k \in Closers |-> "new"] /\ graceful' = [k \in Closers |-> FALSE]
  /\ closes' = [k \in Closers |-> 0] /\ timedOut' = {}

\* ECONNRESET, or EPIPE for a write under way: the socket emits 'error'.
PeerResets(c) == conn[c] \in Connected /\ Crash

\* An answer is written to a socket that has ended: Node's write emits EPIPE.
WritesAfterEnd(h) ==
  /\ \/ handler[h] = "invoking" /\ conn[serves[h]] = "ended"
     \/ RefusesAfterEnd(h)
  /\ Crash

\* The logger throws in the catch block: the handler's promise rejects.
WarnThrows(h) ==
  /\ handler[h] = "invoking" \/ (handler[h] \in Writing /\ conn[serves[h]] \notin Connected)
  /\ Crash

-----------------------------------------------------------------------------
Handle(h) ==
  \/ \E c \in Conns, n \in 1 .. MaxMessages : Data(h, c, n)
  \/ InvokeDone(h) \/ EncodeFails(h) \/ WriteDone(h) \/ WriteFails(h) \/ Continue(h)

SocketEvent(c) == Accept(c) \/ Destroy(c) \/ PeerEnds(c) \/ EndFlushed(c) \/ CloseEvent(c)

CloseStep(k) == Close(k) \/ DrainTimer(k) \/ Drained(k) \/ CloseEnds(k)

ProcessEnds ==
  \/ \E c \in Conns : PeerResets(c)
  \/ \E h \in Handlers : WritesAfterEnd(h) \/ WarnThrows(h)

Next ==
  /\ ~crashed
  /\ \/ Listen
     \/ \E c \in Conns : SocketEvent(c)
     \/ \E h \in Handlers : Handle(h)
     \/ \E k \in Closers : CloseStep(k)
     \/ \E n \in 1 .. MaxListens : ListenerClosed(n)
     \/ ProcessEnds

Spec == Init /\ [][Next]_vars

\* Timers fire, promise reactions run and a destroyed socket is closed.  Nothing
\* is assumed of peers, of methods (they may never settle) or of writes.
Alive(A) == ~crashed /\ A

Fairness ==
  /\ \A c \in Conns : WF_vars(Alive(CloseEvent(c)))
  /\ \A k \in Closers :
       /\ WF_vars(Alive(DrainTimer(k)))
       /\ WF_vars(Alive(Drained(k)))
       /\ WF_vars(Alive(CloseEnds(k)))
  /\ \A n \in 1 .. MaxListens : WF_vars(Alive(ListenerClosed(n)))

FairSpec == Spec /\ Fairness

-----------------------------------------------------------------------------
TypeOK ==
  /\ state \in {"idle", "listening", "draining", "closed"}
  /\ server \in 0 .. MaxListens
  /\ listener \in [1 .. MaxListens -> {"new", "listening", "failed", "closing", "closed"}]
  /\ sockets \subseteq Conns
  /\ conn \in [Conns -> {"none", "destroyed", "closed"} \cup Connected]
  /\ owner \in [Conns -> 0 .. MaxListens]
  /\ activeRequests \in Nat
  /\ drainResolvers \subseteq Closers
  /\ handler \in [Handlers -> Stages]
  /\ serves \in [Handlers -> Conns \cup {NoConn}]
  /\ left \in [Handlers -> 0 .. MaxMessages]
  /\ closer \in [Closers -> CloserStages]
  /\ graceful \in [Closers -> BOOLEAN]
  /\ closes \in [Closers -> 0 .. MaxListens]
  /\ timedOut \subseteq Closers
  /\ crashed \in BOOLEAN

\* activeRequests counts exactly the handlers between the start of a method and
\* the end of its answer's write, through failed writes, failed encodes, destroyed
\* sockets and restarts: the drain neither ends early nor waits for nothing.
ActiveCounts == activeRequests = Cardinality({h \in Handlers : handler[h] \in Counted})

\* A close() call that waits for the drain waits for a request that is active, and
\* its resolver is in place for when the last one ends.
DrainerWillWake ==
  \A k \in Closers : closer[k] = "draining" => k \in drainResolvers /\ activeRequests > 0

\* Once every close() call has returned and the state is "closed" the port is not
\* listened on and no socket is left open, not even one a handler still serves.
ClosedIsClosed ==
  (state = "closed" /\ \A k \in Closers : closer[k] \notin InProgress)
     => /\ \A n \in 1 .. MaxListens : listener[n] \notin {"listening", "closing"}
        /\ \A c \in Conns : conn[c] \notin Connected

IsDraining(k) == closer[k] \in {"draining", "drained"}

PhaseOfServer ==
  IF crashed THEN "crashed"
  ELSE IF \E k \in Closers : IsDraining(k) THEN "draining" ELSE IF server # 0 THEN "up" ELSE "down"

OpenSockets == {c \in Conns : conn[c] \in Connected}
ActiveSet == {<<h, left[h]>> : h \in {g \in Handlers : handler[g] \in Counted}}
DrainIsLate == \E k \in timedOut : IsDraining(k)

Contract == INSTANCE ServerContract WITH
  Requests <- Handlers \X (1 .. MaxMessages), phase <- PhaseOfServer,
  open <- OpenSockets, active <- ActiveSet, late <- DrainIsLate

\* The server keeps the contract of ServerContract: a graceful close() waits for the
\* active requests, each with its socket, unless its timer fires; while it waits no
\* method begins, not even for the rest of a chunk that came before; and whichever
\* way it goes down, also again and again, all sockets are ended in one step.
ImplementsContract == Contract!Spec

\* Every close() call comes to an end, whether or not methods and writes do, unless the
\* process does first: as each begins once, there comes again and again a time when none
\* is in progress.
CloseCompletes == []<>(crashed \/ \A k \in Closers : closer[k] \notin InProgress)

=============================================================================
