--------------------------- MODULE RpcConnection ---------------------------
(***************************************************************************)
(* One RpcConnection of the client (packages/core/src/client/connection.ts) *)
(* and the calls that RpcClient.callDirect or one attempt of               *)
(* callWithDiscoveryFailover run over it.                                  *)
(*                                                                         *)
(* JavaScript runs one callback at a time, so every action below is one    *)
(* callback, or the synchronous part of one.  What makes the component     *)
(* hard is the ORDER of the callbacks: a socket that was closed or         *)
(* destroyed still owes its 'error' and 'close' events, and they arrive    *)
(* after the connection may have moved on to another socket.               *)
(*                                                                         *)
(* Order kept by the event loop, and modelled by the guards MicrotasksDone *)
(* and Quiet:                                                              *)
(*  - promise reactions and process.nextTick run before the next event;    *)
(*  - a socket destroyed by an event of the poll phase emits 'close' in    *)
(*    the closing phase of the same turn of the loop ("destroyed");        *)
(*  - a socket destroyed by a timer or by user code may emit it after      *)
(*    other sockets' events of the next poll phase ("lingering").          *)
(* User code (Call, UserConnect, Close) may run at any point.              *)
(*                                                                         *)
(* Abstractions: the heartbeat's clock (a tick may find the pong overdue   *)
(* at any time), the values carried by calls, the delay of the reconnect   *)
(* timer (its exponent saturates at AttemptCap as the delay does at        *)
(* reconnectMaxDelayMs).  Socket identities are reused once closed.        *)
(***************************************************************************)
EXTENDS Naturals

CONSTANTS
  Reqs,         \* request ids
  Socks,        \* socket identities
  NoSock,       \* this.socket = null, and: no partial frame in the codec
  Orphan,       \* the codec holds bytes that no socket can complete any more
  Reconnect,    \* options.reconnect !== false
  Heartbeat,    \* options.heartbeatIntervalMs is set
  SplitFrames,  \* TCP may deliver a frame in several chunks
  AttemptCap    \* from this exponent on the delay is reconnectMaxDelayMs

ASSUME SocksAssumption == NoSock \notin Socks /\ Orphan \notin Socks /\ NoSock # Orphan
ASSUME OptionsAssumption == {Reconnect, Heartbeat, SplitFrames} \subseteq BOOLEAN
ASSUME AttemptCapAssumption == AttemptCap \in Nat \ {0}

VARIABLES
  state,           \* this.state
  cur,             \* this.socket
  connecting,      \* this.connectionPromise # null
  manuallyClosed,  \* this.manuallyClosed
  reconnectTimer,  \* this.reconnectTimer # null
  attempts,        \* this.reconnectAttempts, saturating at AttemptCap
  awaiting,        \* reconnect callbacks suspended in "await this.connect()"
  caught,          \* reconnect callbacks whose catch block is due
  heartbeat,       \* this.heartbeatTimer # null
  pending,         \* keys of this.pending
  timers,          \* request timers that are set
  phase,           \* what the caller of each request sees
  sock,            \* each socket as Node sees it
  wire,            \* requests written to each socket and not answered for good
  residue,         \* the socket whose partial frame is in this.codec, or Orphan
  crashed          \* an exception left an event listener: the process is gone

connVars == <<state, cur, connecting, manuallyClosed>>
retryVars == <<reconnectTimer, attempts, awaiting, caught>>
callVars == <<pending, timers, phase>>
netVars == <<sock, wire, residue>>
vars == <<connVars, retryVars, heartbeat, callVars, netVars, crashed>>

ConnectionStates == {"idle", "connecting", "connected", "reconnecting", "closed"}

(***************************************************************************)
(* A call: "new", waiting for connect() ("connecting"), connect() resolved *)
(* and send() due ("resume"), in the pending map ("pending"), or settled:  *)
(* "fulfilled" with a result, "refused" by an error answer that is not     *)
(* retried, "failed" with an error that a retry policy may retry.          *)
(***************************************************************************)
Waiting == {"connecting", "resume", "pending"}
Settled == {"fulfilled", "refused", "failed"}
Phases == {"new"} \cup Waiting \cup Settled

(***************************************************************************)
(* A socket: "connecting"; "abandoned" is connecting with end() already    *)
(* called; "open"; "half" has ended its writable side; "failing" is        *)
(* destroyed and its 'error' is due on the next tick; "destroyed" and      *)
(* "lingering" owe their 'close' only; "closed" owes nothing.              *)
(***************************************************************************)
Unconnected == {"connecting", "abandoned"}
Readable == {"open", "half"}
DestroyedStates == {"failing", "destroyed", "lingering", "closed"}
SockStates == {"free"} \cup Unconnected \cup Readable \cup DestroyedStates

Destroyed(s) == sock[s] \in DestroyedStates    \* socket.destroyed

Init ==
  /\ state = "idle" /\ cur = NoSock /\ connecting = FALSE /\ manuallyClosed = FALSE
  /\ reconnectTimer = FALSE /\ attempts = 0 /\ awaiting = 0 /\ caught = 0
  /\ heartbeat = FALSE
  /\ pending = {} /\ timers = {} /\ phase = [r \in Reqs |-> "new"]
  /\ sock = [s \in Socks |-> "free"] /\ wire = [s \in Socks |-> {}] /\ residue = NoSock
  /\ crashed = FALSE

-----------------------------------------------------------------------------
(* The event loop.                                                         *)

\* No promise reaction and no next-tick callback is due.
MicrotasksDone ==
  /\ caught = 0
  /\ \A r \in Reqs : phase[r] # "resume"
  /\ \A s \in Socks : sock[s] # "failing"

\* The loop may take its next event or timer.
Quiet == MicrotasksDone /\ \A s \in Socks : sock[s] # "destroyed"

-----------------------------------------------------------------------------
(* Plausible slips, one per helper they would replace.                     *)

UncappedBackoff(a) == a + 1
GivesUpAtMaxDelay(a) == ~reconnectTimer /\ Reconnect /\ a < AttemptCap
KeepsRequestTimers == timers
KeepsHeartbeat == heartbeat
StateOnlyWithNewTimer == IF reconnectTimer THEN state ELSE "reconnecting"
NeverForgetsPromise(s) == connecting
KeepsAttempts == attempts
IgnoresManualClose == FALSE
AnswersAnyone(r) == TRUE
SetsNoTimer(r) == timers
SendsWhileConnectedOnly == state = "connected"

-----------------------------------------------------------------------------
(* Helpers shared by several callbacks.                                    *)

\* The reconnectAttempts += 1 of scheduleReconnect.
Backoff(a) == IF a < AttemptCap THEN a + 1 ELSE a

\* scheduleReconnect sets a timer unless there is one or the option forbids it.
MaySchedule(a) == ~reconnectTimer /\ Reconnect

ScheduleReconnect ==
  IF MaySchedule(attempts)
  THEN reconnectTimer' = TRUE /\ attempts' = Backoff(attempts)
  ELSE UNCHANGED <<reconnectTimer, attempts>>

\* The entries rejectAll rejects and removes: every pending request, ...
Rejected == pending
\* ... whose timer it clears.
TimersLeft == timers \ Rejected

HeartbeatAfterDisconnect == FALSE   \* stopHeartbeat in handleUnexpectedDisconnect
StateAfterDisconnect == "reconnecting"

\* handleUnexpectedDisconnect; waiters also fail in the same event, because
\* connect() rejects for them.
HandleUnexpectedDisconnect(waiters) ==
  /\ heartbeat' = HeartbeatAfterDisconnect
  /\ pending' = pending \ Rejected
  /\ timers' = TimersLeft
  /\ phase' = [r \in Reqs |-> IF r \in Rejected \cup waiters THEN "failed" ELSE phase[r]]
  /\ IF manuallyClosed
     THEN UNCHANGED <<state, reconnectTimer, attempts>>
     ELSE state' = StateAfterDisconnect /\ ScheduleReconnect

\* connect() returns at once.
IsConnected == state = "connected" /\ cur # NoSock /\ ~Destroyed(cur)

\* doConnect up to its await: a new socket, its listeners, the pending promise.
DoConnect ==
  \E s \in Socks :
    /\ sock[s] \in {"free", "closed"}
    /\ manuallyClosed' = FALSE
    /\ state' = "connecting"
    /\ cur' = s
    /\ connecting' = TRUE
    /\ sock' = [sock EXCEPT ![s] = "connecting"]
    /\ residue' = IF residue = s THEN Orphan ELSE residue
    /\ UNCHANGED wire

\* connect() when it does not return at once: join the promise or make one.
JoinOrConnect == IF connecting THEN UNCHANGED <<connVars, netVars>> ELSE DoConnect

\* socket.write: a socket whose writable side has ended is destroyed by it.
Write(s, rs) ==
  IF sock[s] = "half"
  THEN sock' = [sock EXCEPT ![s] = "failing"] /\ wire' = [wire EXCEPT ![s] = {}]
  ELSE wire' = [wire EXCEPT ![s] = @ \cup rs] /\ UNCHANGED sock

\* The two checks send() makes.
CanSend == cur # NoSock /\ ~Destroyed(cur) /\ state = "connected"

\* The setTimeout of send().
TimersWith(r) == timers \cup {r}

Send(r) ==
  IF CanSend
  THEN /\ pending' = pending \cup {r}
       /\ timers' = TimersWith(r)
       /\ phase' = [phase EXCEPT ![r] = "pending"]
       /\ Write(cur, {r})
  ELSE phase' = [phase EXCEPT ![r] = "failed"] /\ UNCHANGED <<pending, timers, sock, wire>>

\* connectionPromise after an 'error' of s: the finally of connect().
PromiseAfterError(s) == connecting /\ sock[s] \notin Unconnected

\* An 'error' event of s: the disconnect handler first, then, if s was still
\* connecting, the rejection of the promise its callers wait for.
ErrorOn(s, after) ==
  LET rejects == sock[s] \in Unconnected
  IN /\ HandleUnexpectedDisconnect({r \in Reqs : rejects /\ phase[r] = "connecting"})
     /\ connecting' = PromiseAfterError(s)
     /\ awaiting' = IF rejects THEN 0 ELSE awaiting
     /\ caught' = IF rejects THEN caught + awaiting ELSE caught
     /\ sock' = [sock EXCEPT ![s] = after]
     /\ wire' = [wire EXCEPT ![s] = {}]
     /\ UNCHANGED <<cur, manuallyClosed, residue, crashed>>

-----------------------------------------------------------------------------
(* User code: RpcClient.call on this connection, connect() and close().    *)

\* One attempt at request r; a retry of a failed request keeps its id.
Call(r) ==
  /\ phase[r] \in {"new", "failed"}
  /\ IF state = "connected"
     THEN Send(r) /\ UNCHANGED <<connVars, residue>>
     ELSE /\ phase' = [phase EXCEPT ![r] = "connecting"]
          /\ JoinOrConnect
          /\ UNCHANGED <<pending, timers>>
  /\ UNCHANGED <<retryVars, heartbeat, crashed>>

UserConnect ==
  /\ IF IsConnected THEN UNCHANGED <<connVars, netVars>> ELSE JoinOrConnect
  /\ UNCHANGED <<retryVars, heartbeat, callVars, crashed>>

\* socket.end() of a socket in state st.
Ended(st) == CASE st = "connecting" -> "abandoned"
               [] st = "open" -> "half"
               [] OTHER -> st

Close ==
  /\ manuallyClosed' = TRUE
  /\ state' = "closed"
  /\ reconnectTimer' = FALSE
  /\ heartbeat' = FALSE
  /\ pending' = {}
  /\ timers' = timers \ pending
  /\ phase' = [r \in Reqs |-> IF r \in pending THEN "failed" ELSE phase[r]]
  /\ sock' = [s \in Socks |-> IF s = cur THEN Ended(sock[s]) ELSE sock[s]]
  /\ UNCHANGED <<cur, connecting, attempts, awaiting, caught, wire, residue, crashed>>

-----------------------------------------------------------------------------
(* Promise reactions and next-tick callbacks.                              *)

\* connect() resolved: the caller goes on to send().
Resume(r) ==
  /\ phase[r] = "resume"
  /\ Send(r)
  /\ UNCHANGED <<connVars, retryVars, heartbeat, residue, crashed>>

\* The catch block of the reconnect timer's callback.
CallbackCatch ==
  /\ caught > 0
  /\ caught' = caught - 1
  /\ state' = "reconnecting"
  /\ ScheduleReconnect
  /\ UNCHANGED <<cur, connecting, manuallyClosed, awaiting, heartbeat, callVars, netVars, crashed>>

\* The 'error' of a socket that a write after end() destroyed.
WriteError(s) == sock[s] = "failing" /\ ErrorOn(s, "lingering")

-----------------------------------------------------------------------------
(* Timers.                                                                 *)

RequestTimeout(r) ==
  /\ Quiet
  /\ r \in timers
  /\ timers' = timers \ {r}
  /\ pending' = pending \ {r}
  /\ phase' = [phase EXCEPT ![r] = IF @ = "pending" THEN "failed" ELSE @]
  /\ UNCHANGED <<connVars, retryVars, heartbeat, netVars, crashed>>

ReconnectGivesUp == manuallyClosed   \* the early return of the timer's callback

ReconnectFire ==
  /\ Quiet
  /\ reconnectTimer
  /\ reconnectTimer' = FALSE
  /\ \/ ReconnectGivesUp /\ UNCHANGED <<connVars, netVars, attempts, awaiting>>
     \/ /\ ~ReconnectGivesUp /\ IsConnected
        /\ attempts' = 0
        /\ UNCHANGED <<connVars, netVars, awaiting>>
     \/ /\ ~ReconnectGivesUp /\ ~IsConnected
        /\ JoinOrConnect
        /\ awaiting' = awaiting + 1
        /\ UNCHANGED attempts
  /\ UNCHANGED <<caught, heartbeat, callVars, crashed>>

\* The interval finds its socket destroyed, or the last pong recent enough.
HeartbeatTick ==
  /\ Quiet
  /\ heartbeat
  /\ IF cur = NoSock \/ Destroyed(cur)
     THEN heartbeat' = FALSE /\ UNCHANGED <<sock, wire>>
     ELSE Write(cur, {}) /\ UNCHANGED heartbeat
  /\ UNCHANGED <<connVars, retryVars, callVars, residue, crashed>>

\* The pong is overdue: handleUnexpectedDisconnect and destroy(error), whose
\* 'error' event on the next tick runs the handler again to no effect.
HeartbeatTimeout ==
  /\ Quiet
  /\ heartbeat
  /\ cur # NoSock /\ ~Destroyed(cur)
  /\ ErrorOn(cur, "lingering")

-----------------------------------------------------------------------------
(* Socket events.                                                          *)

AttemptsOnConnect == 0   \* this.reconnectAttempts = 0 in doConnect

\* 'connect' and the promise reactions of doConnect and connect().
ConnectEvent(s) ==
  /\ Quiet
  /\ sock[s] \in Unconnected
  /\ sock' = [sock EXCEPT ![s] = IF @ = "connecting" THEN "open" ELSE "half"]
  /\ state' = "connected"
  /\ attempts' = AttemptsOnConnect
  /\ heartbeat' = (heartbeat \/ Heartbeat)
  /\ connecting' = FALSE
  /\ phase' = [r \in Reqs |-> IF phase[r] = "connecting" THEN "resume" ELSE phase[r]]
  /\ awaiting' = 0
  /\ UNCHANGED <<cur, manuallyClosed, reconnectTimer, caught, pending, timers, wire, residue, crashed>>

\* The network destroys a socket: connection refused, reset, ...
NetworkError(s) ==
  /\ Quiet
  /\ sock[s] \in Unconnected \cup Readable
  /\ ErrorOn(s, "destroyed")

\* The peer ends its side; the socket answers with its own end().
PeerEnd(s) ==
  /\ Quiet
  /\ sock[s] = "open"
  /\ sock' = [sock EXCEPT ![s] = "half"]
  /\ wire' = [wire EXCEPT ![s] = {}]
  /\ UNCHANGED <<connVars, retryVars, heartbeat, callVars, residue, crashed>>

\* Both sides have ended: the socket is destroyed without an error.
Finish(s) ==
  /\ Quiet
  /\ sock[s] = "half"
  /\ sock' = [sock EXCEPT ![s] = "destroyed"]
  /\ wire' = [wire EXCEPT ![s] = {}]
  /\ UNCHANGED <<connVars, retryVars, heartbeat, callVars, residue, crashed>>

CloseEvent(s) ==
  /\ \/ sock[s] = "destroyed" /\ MicrotasksDone
     \/ sock[s] = "lingering" /\ Quiet
  /\ sock' = [sock EXCEPT ![s] = "closed"]
  /\ HandleUnexpectedDisconnect({})
  /\ UNCHANGED <<cur, connecting, manuallyClosed, awaiting, caught, wire, residue, crashed>>

-----------------------------------------------------------------------------
(* 'data' events and the codec.                                            *)

\* The next bytes from s continue what the codec holds.
Aligned(s) == residue \in {NoSock, s}

\* A chunk may arrive on s.
DataFrom(s) == Quiet /\ sock[s] \in Readable /\ wire[s] # {}

\* handleData drops an answer nobody waits for.
Expected(r) == r \in pending

\* An answer to r: a result, an error, or SERVER_DRAINING (which is retried).
\* wire does not count the copies a retried request has on s: one answer may
\* leave others to come.
Response(s, r, outcome) ==
  /\ DataFrom(s) /\ Aligned(s)
  /\ r \in wire[s]
  /\ \E rest \in {wire[s], wire[s] \ {r}} : wire' = [wire EXCEPT ![s] = rest]
  /\ residue' = NoSock
  /\ IF Expected(r)
     THEN /\ timers' = timers \ {r}
          /\ pending' = pending \ {r}
          /\ phase' = [phase EXCEPT ![r] = outcome]
     ELSE UNCHANGED callVars
  /\ UNCHANGED <<connVars, retryVars, heartbeat, sock, crashed>>

\* A chunk ends in the middle of a frame.
PartialFrame(s) ==
  /\ SplitFrames
  /\ DataFrom(s) /\ residue = NoSock
  /\ residue' = s
  /\ UNCHANGED <<connVars, retryVars, heartbeat, callVars, sock, wire, crashed>>

\* The codec completes the frame of a dead socket with bytes of s: it still
\* waits for more, and the answer that arrived is lost ...
Swallow(s, r) ==
  /\ DataFrom(s) /\ ~Aligned(s)
  /\ r \in wire[s]
  /\ wire' = [wire EXCEPT ![s] = @ \ {r}]
  /\ residue' = Orphan
  /\ UNCHANGED <<connVars, retryVars, heartbeat, callVars, sock, crashed>>

\* ... or it decodes the mixture and throws out of the 'data' listener.
CodecThrow(s) ==
  /\ DataFrom(s) /\ ~Aligned(s)
  /\ crashed' = TRUE
  /\ UNCHANGED <<connVars, retryVars, heartbeat, callVars, netVars>>

-----------------------------------------------------------------------------
User == (\E r \in Reqs : Call(r)) \/ UserConnect \/ Close

Microtask ==
  \/ \E r \in Reqs : Resume(r)
  \/ \E s \in Socks : WriteError(s)
  \/ CallbackCatch

Timer ==
  \/ \E r \in Reqs : RequestTimeout(r)
  \/ ReconnectFire \/ HeartbeatTick \/ HeartbeatTimeout

SocketEvent(s) ==
  \/ ConnectEvent(s) \/ NetworkError(s) \/ PeerEnd(s) \/ Finish(s) \/ CloseEvent(s)
  \/ \E r \in Reqs, outcome \in Settled : Response(s, r, outcome)
  \/ PartialFrame(s) \/ CodecThrow(s)
  \/ \E r \in Reqs : Swallow(s, r)

Next == ~crashed /\ (User \/ Microtask \/ Timer \/ \E s \in Socks : SocketEvent(s))

Spec == Init /\ [][Next]_vars

(***************************************************************************)
(* Node runs promise reactions before anything else and never loses a      *)
(* timer or a 'close'; a connection attempt ends, a half-closed socket is  *)
(* closed by its peer.  Events wait for Quiet, which comes and goes, hence *)
(* SF.  Nothing is assumed of the user, of the peer's answers or of the    *)
(* heartbeat.                                                              *)
(***************************************************************************)
ConnectOutcome(s) ==
  sock[s] \in Unconnected /\ (ConnectEvent(s) \/ NetworkError(s))

Alive(A) == ~crashed /\ A

Fairness ==
  /\ \A r \in Reqs : WF_vars(Alive(Resume(r))) /\ SF_vars(Alive(RequestTimeout(r)))
  /\ \A s \in Socks :
       /\ WF_vars(Alive(WriteError(s)))
       /\ SF_vars(Alive(ConnectOutcome(s)))
       /\ SF_vars(Alive(Finish(s)))
       /\ SF_vars(Alive(CloseEvent(s)))
  /\ WF_vars(Alive(CallbackCatch))
  /\ SF_vars(Alive(ReconnectFire))

FairSpec == Spec /\ Fairness

\* The server is up: it accepts a connection the client keeps asking for.
ServerUp == \A s \in Socks : SF_vars(Alive(ConnectEvent(s)))

-----------------------------------------------------------------------------
(* Properties.                                                             *)

TypeOK ==
  /\ state \in ConnectionStates
  /\ cur \in Socks \cup {NoSock}
  /\ connecting \in BOOLEAN /\ manuallyClosed \in BOOLEAN
  /\ reconnectTimer \in BOOLEAN
  /\ attempts \in 0 .. AttemptCap
  /\ awaiting \in Nat /\ caught \in Nat
  /\ heartbeat \in BOOLEAN
  /\ pending \subseteq Reqs /\ timers \subseteq Reqs
  /\ phase \in [Reqs -> Phases]
  /\ sock \in [Socks -> SockStates]
  /\ wire \in [Socks -> SUBSET Reqs]
  /\ residue \in Socks \cup {NoSock, Orphan}
  /\ crashed \in BOOLEAN

\* send() sets a timer and an entry of the pending map for each call that waits
\* for an answer, and every way a call settles removes both: an answer, its
\* timeout, close() and every disconnect.  A timer left behind would later delete
\* the entry of a retry, which keeps the id.
PendingMatchesCallers ==
  /\ pending = {r \in Reqs : phase[r] = "pending"}
  /\ timers = pending

\* Whoever waits for connect() waits for a promise that is still to be settled,
\* and that promise belongs to the only socket that is connecting: the
\* connectionPromise of connect() is never lost and never left behind.
NoLostWaiter ==
  /\ (awaiting > 0 \/ \E r \in Reqs : phase[r] = "connecting") => connecting
  /\ connecting => cur # NoSock /\ sock[cur] \in Unconnected
  /\ \A s \in Socks : sock[s] \in Unconnected => connecting /\ s = cur

\* Between events, a call that waits for an answer waits on the current socket,
\* which was sent its request or has begun to close and will fail it: whatever
\* was sent to an earlier socket was rejected, and nothing is sent to a dead one.
AwaitedIsOnTheWire ==
  (Quiet /\ pending # {}) =>
     /\ cur # NoSock
     /\ \/ sock[cur] = "half"
        \/ sock[cur] = "open" /\ (Aligned(cur) => pending \subseteq wire[cur])

\* A connection that says it is reconnecting is on its way: a reconnect timer is
\* set, a socket is connecting, or the failure of the last attempt is about to
\* be handled.  scheduleReconnect's early return never drops the last one.
ReconnectArmed ==
  (Reconnect /\ ~manuallyClosed /\ state = "reconnecting")
     => reconnectTimer \/ connecting \/ caught > 0

\* Between events, and unless close() intervened, the heartbeat runs exactly
\* while the connection is connected: startHeartbeat never finds an interval it
\* would leak, and stopHeartbeat never leaves a connection unwatched.
HeartbeatFollowsState ==
  (Quiet /\ ~manuallyClosed) => (heartbeat <=> Heartbeat /\ state = "connected")

\* Between events, and unless close() intervened, a connection that says it is
\* connected has a socket that can still be read, so callDirect, which skips
\* connect() in that state, does not send into a dead socket.
ConnectedIsReadable ==
  (Quiet /\ ~manuallyClosed /\ state = "connected")
     => cur # NoSock /\ sock[cur] \in Readable

\* The next outage starts from the initial delay: the back-off is reset by every
\* successful connect, whoever asked for it, and nothing raises it meanwhile.
BackoffReset == state = "connected" => attempts = 0

\* After close() only the user opens the connection again, never a reconnect
\* timer or a callback that was already waiting.
OnlyUserReopens == [][manuallyClosed /\ ~manuallyClosed' => User]_vars

\* What the callers see implements the contract of CallContract: a call is answered
\* only while it is in flight, and an answer is final.
outcomes ==
  [r \in Reqs |-> IF phase[r] \in {"connecting", "resume"} THEN "waiting" ELSE phase[r]]
Contract == INSTANCE CallContract WITH outcome <- outcomes
ImplementsContract == Contract!Spec

\* Every call settles: no interleaving of disconnects, retries, close() and late
\* answers leaves a caller of call() waiting forever.
CallsSettle == \A r \in Reqs : phase[r] \in Waiting ~> phase[r] \in Settled

\* With a server that is up, a connection that lost its socket is connected
\* again, without any help from its callers, unless it is closed.
SelfHeals ==
  ServerUp => (Reconnect /\ state = "reconnecting") ~> (state = "connected" \/ manuallyClosed)

\* Claimed by the test "does not reconnect after manual close": after close() the
\* state is "closed" until the connection is used again.
ClosedStaysClosed == manuallyClosed => state = "closed"

\* Claimed by the README: split packets are handled.
NoCrash == ~crashed

=============================================================================
