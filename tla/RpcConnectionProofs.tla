------------------------ MODULE RpcConnectionProofs ------------------------
(***************************************************************************)
(* What holds of a connection for any number of requests and sockets and   *)
(* every choice of the options.                                            *)
(***************************************************************************)
EXTENDS RpcConnection, TLAPS

USE DEF ConnectionStates, Waiting, Settled, Phases, Unconnected, Readable, DestroyedStates,
        SockStates

-----------------------------------------------------------------------------
(* The helpers preserve the types of what they assign.                     *)

LEMMA ScheduleType ==
  ASSUME TypeOK, ScheduleReconnect
  PROVE  reconnectTimer' \in BOOLEAN /\ attempts' \in 0 .. AttemptCap
<1>1. CASE MaySchedule(attempts)
  BY <1>1, AttemptCapAssumption DEF TypeOK, ScheduleReconnect, Backoff
<1>2. CASE ~MaySchedule(attempts)
  BY <1>2 DEF TypeOK, ScheduleReconnect
<1>3. QED BY <1>1, <1>2

LEMMA DisconnectType ==
  ASSUME TypeOK, NEW W \in SUBSET Reqs, HandleUnexpectedDisconnect(W)
  PROVE  /\ state' \in ConnectionStates /\ heartbeat' \in BOOLEAN
         /\ reconnectTimer' \in BOOLEAN /\ attempts' \in 0 .. AttemptCap
         /\ pending' \subseteq Reqs /\ timers' \subseteq Reqs
         /\ phase' \in [Reqs -> Phases]
BY ScheduleType
DEF TypeOK, HandleUnexpectedDisconnect, HeartbeatAfterDisconnect, StateAfterDisconnect,
    Rejected, TimersLeft

LEMMA DoConnectType ==
  ASSUME TypeOK, DoConnect
  PROVE  /\ state' \in ConnectionStates /\ cur' \in Socks \cup {NoSock}
         /\ connecting' \in BOOLEAN /\ manuallyClosed' \in BOOLEAN
         /\ sock' \in [Socks -> SockStates] /\ wire' \in [Socks -> SUBSET Reqs]
         /\ residue' \in Socks \cup {NoSock, Orphan}
BY DEF TypeOK, DoConnect

LEMMA JoinOrConnectType ==
  ASSUME TypeOK, JoinOrConnect
  PROVE  /\ state' \in ConnectionStates /\ cur' \in Socks \cup {NoSock}
         /\ connecting' \in BOOLEAN /\ manuallyClosed' \in BOOLEAN
         /\ sock' \in [Socks -> SockStates] /\ wire' \in [Socks -> SUBSET Reqs]
         /\ residue' \in Socks \cup {NoSock, Orphan}
<1>1. CASE connecting BY <1>1 DEF TypeOK, JoinOrConnect, connVars, netVars
<1>2. CASE ~connecting BY <1>2, DoConnectType DEF JoinOrConnect
<1>3. QED BY <1>1, <1>2

LEMMA WriteType ==
  ASSUME TypeOK, NEW s \in Socks, NEW R \in SUBSET Reqs, Write(s, R)
  PROVE  sock' \in [Socks -> SockStates] /\ wire' \in [Socks -> SUBSET Reqs]
BY DEF TypeOK, Write

LEMMA SendType ==
  ASSUME TypeOK, NEW r \in Reqs, Send(r)
  PROVE  /\ pending' \subseteq Reqs /\ timers' \subseteq Reqs
         /\ phase' \in [Reqs -> Phases]
         /\ sock' \in [Socks -> SockStates] /\ wire' \in [Socks -> SUBSET Reqs]
<1>1. CASE CanSend
  <2>1. cur \in Socks BY <1>1 DEF TypeOK, CanSend
  <2>2. QED BY <1>1, <2>1, WriteType DEF TypeOK, Send, TimersWith
<1>2. CASE ~CanSend BY <1>2 DEF TypeOK, Send
<1>3. QED BY <1>1, <1>2

LEMMA ErrorType ==
  ASSUME TypeOK, NEW s \in Socks, NEW after \in SockStates, ErrorOn(s, after)
  PROVE  TypeOK'
<1> DEFINE W == {r \in Reqs : sock[s] \in Unconnected /\ phase[r] = "connecting"}
<1>1. HandleUnexpectedDisconnect(W) BY DEF ErrorOn
<1>2. W \in SUBSET Reqs OBVIOUS
<1> HIDE DEF W
<1>3. QED BY <1>1, <1>2, DisconnectType DEF TypeOK, ErrorOn, PromiseAfterError

-----------------------------------------------------------------------------
(* Type correctness, one step per action.                                  *)

LEMMA NextType == TypeOK /\ [Next]_vars => TypeOK'
<1> SUFFICES ASSUME TypeOK, [Next]_vars PROVE TypeOK' OBVIOUS
<1>1. ASSUME NEW r \in Reqs, Call(r) PROVE TypeOK'
  <2>1. CASE state = "connected"
    BY <1>1, <2>1, SendType DEF TypeOK, Call, connVars, retryVars
  <2>2. CASE state # "connected"
    BY <1>1, <2>2, JoinOrConnectType DEF TypeOK, Call, retryVars
  <2>3. QED BY <2>1, <2>2
<1>2. ASSUME UserConnect PROVE TypeOK'
  <2>1. CASE IsConnected
    BY <1>2, <2>1 DEF TypeOK, UserConnect, connVars, retryVars, callVars, netVars
  <2>2. CASE ~IsConnected
    BY <1>2, <2>2, JoinOrConnectType DEF TypeOK, UserConnect, retryVars, callVars
  <2>3. QED BY <2>1, <2>2
<1>3. ASSUME Close PROVE TypeOK'
  BY <1>3 DEF TypeOK, Close, Ended
<1>4. ASSUME NEW r \in Reqs, Resume(r) PROVE TypeOK'
  BY <1>4, SendType DEF TypeOK, Resume, connVars, retryVars
<1>5. ASSUME NEW s \in Socks, WriteError(s) PROVE TypeOK'
  BY <1>5, ErrorType DEF WriteError
<1>6. ASSUME CallbackCatch PROVE TypeOK'
  BY <1>6, ScheduleType DEF TypeOK, CallbackCatch, callVars, netVars
<1>7. ASSUME NEW r \in Reqs, RequestTimeout(r) PROVE TypeOK'
  BY <1>7 DEF TypeOK, RequestTimeout, connVars, retryVars, netVars
<1>8. ASSUME ReconnectFire PROVE TypeOK'
  <2>0. reconnectTimer' \in BOOLEAN BY <1>8 DEF ReconnectFire
  <2>1. attempts' \in 0 .. AttemptCap /\ awaiting' \in Nat
    <3>1. attempts \in 0 .. AttemptCap /\ awaiting \in Nat /\ 0 \in 0 .. AttemptCap
      BY AttemptCapAssumption DEF TypeOK
    <3>2. awaiting' \in {awaiting, awaiting + 1} /\ attempts' \in {attempts, 0}
      BY <1>8 DEF ReconnectFire
    <3>3. QED BY <3>1, <3>2
  <2>2. UNCHANGED <<caught, heartbeat, callVars, crashed>> BY <1>8 DEF ReconnectFire
  <2>3. CASE UNCHANGED <<connVars, netVars>>
    BY <2>0, <2>1, <2>2, <2>3 DEF TypeOK, connVars, netVars, callVars
  <2>4. CASE JoinOrConnect
    BY <2>0, <2>1, <2>2, <2>4, JoinOrConnectType DEF TypeOK, callVars
  <2>5. QED BY <1>8, <2>3, <2>4 DEF ReconnectFire
<1>9. ASSUME HeartbeatTick PROVE TypeOK'
  <2>1. CASE cur = NoSock \/ Destroyed(cur)
    BY <1>9, <2>1 DEF TypeOK, HeartbeatTick, connVars, retryVars, callVars
  <2>2. CASE ~(cur = NoSock \/ Destroyed(cur))
    <3>1. cur \in Socks /\ {} \in SUBSET Reqs BY <2>2 DEF TypeOK
    <3>2. Write(cur, {}) BY <1>9, <2>2 DEF HeartbeatTick
    <3>3. QED BY <1>9, <2>2, <3>1, <3>2, WriteType
      DEF TypeOK, HeartbeatTick, connVars, retryVars, callVars
  <2>3. QED BY <2>1, <2>2
<1>10. ASSUME HeartbeatTimeout PROVE TypeOK'
  BY <1>10, ErrorType DEF TypeOK, HeartbeatTimeout
<1>11. ASSUME NEW s \in Socks, ConnectEvent(s) PROVE TypeOK'
  <2>1. heartbeat' \in BOOLEAN BY <1>11 DEF ConnectEvent
  <2>2. attempts' \in 0 .. AttemptCap
    BY <1>11, AttemptCapAssumption DEF ConnectEvent, AttemptsOnConnect
  <2>3. phase' \in [Reqs -> Phases] BY <1>11 DEF TypeOK, ConnectEvent
  <2>4. sock' \in [Socks -> SockStates] BY <1>11 DEF TypeOK, ConnectEvent
  <2>5. QED BY <1>11, <2>1, <2>2, <2>3, <2>4 DEF TypeOK, ConnectEvent
<1>12. ASSUME NEW s \in Socks, NetworkError(s) PROVE TypeOK'
  BY <1>12, ErrorType DEF NetworkError
<1>13. ASSUME NEW s \in Socks, PeerEnd(s) PROVE TypeOK'
  BY <1>13 DEF TypeOK, PeerEnd, connVars, retryVars, callVars
<1>14. ASSUME NEW s \in Socks, Finish(s) PROVE TypeOK'
  BY <1>14 DEF TypeOK, Finish, connVars, retryVars, callVars
<1>15. ASSUME NEW s \in Socks, CloseEvent(s) PROVE TypeOK'
  <2>1. HandleUnexpectedDisconnect({}) BY <1>15 DEF CloseEvent
  <2>2. QED BY <1>15, <2>1, DisconnectType DEF TypeOK, CloseEvent
<1>16. ASSUME NEW s \in Socks, NEW r \in Reqs, NEW o \in Settled, Response(s, r, o)
       PROVE  TypeOK'
  <2>1. wire' \in [Socks -> SUBSET Reqs] BY <1>16 DEF TypeOK, Response
  <2>2. pending' \subseteq Reqs /\ timers' \subseteq Reqs /\ phase' \in [Reqs -> Phases]
    BY <1>16 DEF TypeOK, Response, callVars
  <2>3. QED BY <1>16, <2>1, <2>2 DEF TypeOK, Response, connVars, retryVars
<1>17. ASSUME NEW s \in Socks, PartialFrame(s) PROVE TypeOK'
  BY <1>17 DEF TypeOK, PartialFrame, connVars, retryVars, callVars
<1>18. ASSUME NEW s \in Socks, CodecThrow(s) PROVE TypeOK'
  BY <1>18 DEF TypeOK, CodecThrow, connVars, retryVars, callVars, netVars
<1>19. ASSUME NEW s \in Socks, NEW r \in Reqs, Swallow(s, r) PROVE TypeOK'
  BY <1>19 DEF TypeOK, Swallow, connVars, retryVars, callVars
<1>20. ASSUME UNCHANGED vars PROVE TypeOK'
  BY <1>20 DEF TypeOK, vars, connVars, retryVars, callVars, netVars
<1>21. QED
  BY <1>1, <1>2, <1>3, <1>4, <1>5, <1>6, <1>7, <1>8, <1>9, <1>10, <1>11, <1>12, <1>13,
     <1>14, <1>15, <1>16, <1>17, <1>18, <1>19, <1>20
  DEF Next, User, Microtask, Timer, SocketEvent

\* The fields of RpcConnection keep their types: in particular the back-off exponent
\* stays within its bound and every request is in a phase the callers know.
THEOREM TypeCorrect == Spec => []TypeOK
<1>1. Init => TypeOK
  <2>1. 0 \in 0 .. AttemptCap BY AttemptCapAssumption
  <2> SUFFICES ASSUME Init PROVE TypeOK OBVIOUS
  <2>2. /\ state \in ConnectionStates /\ cur \in Socks \cup {NoSock}
        /\ residue \in Socks \cup {NoSock, Orphan}
        /\ attempts \in 0 .. AttemptCap /\ awaiting \in Nat /\ caught \in Nat
    BY <2>1 DEF Init
  <2>3. /\ connecting \in BOOLEAN /\ manuallyClosed \in BOOLEAN
        /\ reconnectTimer \in BOOLEAN /\ heartbeat \in BOOLEAN /\ crashed \in BOOLEAN
    BY Zenon DEF Init
  <2>4. /\ pending \subseteq Reqs /\ timers \subseteq Reqs /\ phase \in [Reqs -> Phases]
        /\ sock \in [Socks -> SockStates] /\ wire \in [Socks -> SUBSET Reqs]
    BY DEF Init
  <2>5. QED BY <2>2, <2>3, <2>4 DEF TypeOK
<1>2. QED BY <1>1, NextType, PTL DEF Spec

-----------------------------------------------------------------------------
(* The pending map, the request timers and the callers agree.              *)

LEMMA DisconnectPending ==
  ASSUME TypeOK, PendingMatchesCallers,
         NEW W \in SUBSET {r \in Reqs : phase[r] = "connecting"},
         HandleUnexpectedDisconnect(W)
  PROVE  PendingMatchesCallers'
<1>1. pending' = {} /\ timers' = {}
  BY DEF PendingMatchesCallers, HandleUnexpectedDisconnect, Rejected, TimersLeft
<1>2. \A r \in Reqs : phase'[r] # "pending"
  BY DEF TypeOK, PendingMatchesCallers, HandleUnexpectedDisconnect, Rejected
<1>3. QED BY <1>1, <1>2 DEF PendingMatchesCallers

LEMMA ErrorPending ==
  ASSUME TypeOK, PendingMatchesCallers, NEW s \in Socks, NEW after, ErrorOn(s, after)
  PROVE  PendingMatchesCallers'
<1> DEFINE W == {r \in Reqs : sock[s] \in Unconnected /\ phase[r] = "connecting"}
<1>1. HandleUnexpectedDisconnect(W) BY DEF ErrorOn
<1>2. W \in SUBSET {r \in Reqs : phase[r] = "connecting"} OBVIOUS
<1> HIDE DEF W
<1>3. QED BY <1>1, <1>2, DisconnectPending

LEMMA SendPending ==
  ASSUME TypeOK, PendingMatchesCallers, NEW r \in Reqs, phase[r] # "pending", Send(r)
  PROVE  PendingMatchesCallers'
<1>1. CASE CanSend BY <1>1 DEF TypeOK, PendingMatchesCallers, Send, TimersWith
<1>2. CASE ~CanSend BY <1>2 DEF TypeOK, PendingMatchesCallers, Send
<1>3. QED BY <1>1, <1>2

LEMMA NextPending ==
  TypeOK /\ PendingMatchesCallers /\ [Next]_vars => PendingMatchesCallers'
<1> SUFFICES ASSUME TypeOK, PendingMatchesCallers, [Next]_vars
             PROVE  PendingMatchesCallers'
  OBVIOUS
<1>0. UNCHANGED callVars => PendingMatchesCallers'
  BY DEF PendingMatchesCallers, callVars
<1>1. ASSUME NEW r \in Reqs, Call(r) PROVE PendingMatchesCallers'
  <2>1. phase[r] # "pending" BY <1>1 DEF Call
  <2>2. CASE state = "connected" BY <1>1, <2>1, <2>2, SendPending DEF Call
  <2>3. CASE state # "connected"
    BY <1>1, <2>1, <2>3 DEF TypeOK, PendingMatchesCallers, Call
  <2>4. QED BY <2>2, <2>3
<1>2. ASSUME Close PROVE PendingMatchesCallers'
  BY <1>2 DEF TypeOK, PendingMatchesCallers, Close
<1>3. ASSUME NEW r \in Reqs, Resume(r) PROVE PendingMatchesCallers'
  BY <1>3, SendPending DEF Resume
<1>4. ASSUME NEW r \in Reqs, RequestTimeout(r) PROVE PendingMatchesCallers'
  BY <1>4 DEF TypeOK, PendingMatchesCallers, RequestTimeout
<1>5. ASSUME NEW s \in Socks, WriteError(s) \/ NetworkError(s) PROVE PendingMatchesCallers'
  BY <1>5, ErrorPending DEF WriteError, NetworkError
<1>6. ASSUME HeartbeatTimeout PROVE PendingMatchesCallers'
  <2>1. cur \in Socks /\ ErrorOn(cur, "lingering") BY <1>6 DEF TypeOK, HeartbeatTimeout
  <2>2. QED BY <2>1, ErrorPending
<1>7. ASSUME NEW s \in Socks, ConnectEvent(s) PROVE PendingMatchesCallers'
  BY <1>7 DEF TypeOK, PendingMatchesCallers, ConnectEvent
<1>8. ASSUME NEW s \in Socks, CloseEvent(s) PROVE PendingMatchesCallers'
  <2>1. HandleUnexpectedDisconnect({}) BY <1>8 DEF CloseEvent
  <2>2. {} \in SUBSET {r \in Reqs : phase[r] = "connecting"} OBVIOUS
  <2>3. QED BY <2>1, <2>2, DisconnectPending
<1>9. ASSUME NEW s \in Socks, NEW r \in Reqs, NEW o \in Settled, Response(s, r, o)
      PROVE  PendingMatchesCallers'
  <2>1. CASE Expected(r)
    BY <1>9, <2>1 DEF TypeOK, PendingMatchesCallers, Response
  <2>2. CASE ~Expected(r)
    BY <1>9, <2>2, <1>0 DEF Response
  <2>3. QED BY <2>1, <2>2
<1>10. ASSUME UserConnect \/ CallbackCatch \/ ReconnectFire \/ HeartbeatTick
       PROVE  PendingMatchesCallers'
  BY <1>10, <1>0 DEF UserConnect, CallbackCatch, ReconnectFire, HeartbeatTick
<1>11. ASSUME NEW s \in Socks,
              \/ PeerEnd(s) \/ Finish(s) \/ PartialFrame(s) \/ CodecThrow(s)
              \/ \E r \in Reqs : Swallow(s, r)
       PROVE  PendingMatchesCallers'
  BY <1>11, <1>0 DEF PeerEnd, Finish, PartialFrame, CodecThrow, Swallow
<1>12. ASSUME UNCHANGED vars PROVE PendingMatchesCallers'
  BY <1>12, <1>0 DEF vars
<1>13. QED
  BY <1>1, <1>2, <1>3, <1>4, <1>5, <1>6, <1>7, <1>8, <1>9, <1>10, <1>11, <1>12
  DEF Next, User, Microtask, Timer, SocketEvent

\* A call waits for an answer exactly while it has an entry in the pending map and
\* a timer: send(), its timeout, handleData, rejectAll and close() keep the three
\* together, whatever the order of events.
THEOREM PendingCorrect == Spec => []PendingMatchesCallers
<1>1. Init => PendingMatchesCallers BY DEF Init, PendingMatchesCallers
<1>2. QED BY <1>1, NextPending, TypeCorrect, PTL DEF Spec

-----------------------------------------------------------------------------
(* Nobody waits for a connection attempt that is over.                     *)

\* What NoLostWaiter speaks of.
waiterVars == <<cur, connecting, awaiting, phase, sock>>

LEMMA DisconnectWaiters ==
  ASSUME TypeOK, NEW W \in SUBSET Reqs, HandleUnexpectedDisconnect(W)
  PROVE  \A r \in Reqs : phase'[r] = "connecting" => phase[r] = "connecting" /\ r \notin W
BY DEF TypeOK, HandleUnexpectedDisconnect

\* A step that starts no attempt, settles none and adds no waiter.
LEMMA SameAttempt ==
  ASSUME TypeOK, NoLostWaiter,
         UNCHANGED <<cur, connecting, awaiting>>,
         \A r \in Reqs : phase'[r] = "connecting" => phase[r] = "connecting",
         \A s \in Socks : sock'[s] \in Unconnected <=> sock[s] \in Unconnected
  PROVE  NoLostWaiter'
BY DEF TypeOK, NoLostWaiter

LEMMA ErrorWaiters ==
  ASSUME TypeOK, NoLostWaiter, NEW s \in Socks, NEW after \in DestroyedStates, ErrorOn(s, after)
  PROVE  NoLostWaiter'
<1> DEFINE W == {r \in Reqs : sock[s] \in Unconnected /\ phase[r] = "connecting"}
<1>1. HandleUnexpectedDisconnect(W) BY DEF ErrorOn
<1>2. \A r \in Reqs : phase'[r] = "connecting" => phase[r] = "connecting" /\ r \notin W
  BY <1>1, DisconnectWaiters
<1>3. sock' = [sock EXCEPT ![s] = after] /\ cur' = cur BY DEF ErrorOn
<1>4. CASE sock[s] \in Unconnected
  <2>1. \A r \in Reqs : phase'[r] # "connecting" BY <1>2, <1>4
  <2>2. ~connecting' /\ awaiting' = 0 BY <1>4 DEF ErrorOn, PromiseAfterError
  <2>3. \A t \in Socks : sock'[t] \notin Unconnected
    BY <1>3, <1>4 DEF TypeOK, NoLostWaiter
  <2>4. QED BY <2>1, <2>2, <2>3 DEF NoLostWaiter
<1>5. CASE sock[s] \notin Unconnected
  <2>1. UNCHANGED <<cur, awaiting>> /\ (connecting' <=> connecting)
    BY <1>5 DEF ErrorOn, PromiseAfterError
  <2>2. \A t \in Socks : sock'[t] \in Unconnected <=> sock[t] \in Unconnected
    BY <1>3, <1>5 DEF TypeOK
  <2>3. QED BY <1>2, <2>1, <2>2 DEF TypeOK, NoLostWaiter
<1>6. QED BY <1>4, <1>5

LEMMA WriteWaiters ==
  ASSUME TypeOK, NEW s \in Socks, NEW R, Write(s, R)
  PROVE  \A t \in Socks : sock'[t] \in Unconnected <=> sock[t] \in Unconnected
BY DEF TypeOK, Write

LEMMA SendWaiters ==
  ASSUME TypeOK, NEW r \in Reqs, Send(r)
  PROVE  /\ \A q \in Reqs : phase'[q] = "connecting" => phase[q] = "connecting"
         /\ \A t \in Socks : sock'[t] \in Unconnected <=> sock[t] \in Unconnected
<1>1. CASE CanSend
  <2>1. cur \in Socks /\ Write(cur, {r}) BY <1>1 DEF TypeOK, CanSend, Send
  <2>2. phase' = [phase EXCEPT ![r] = "pending"] BY <1>1 DEF Send
  <2>3. QED BY <2>1, <2>2, WriteWaiters DEF TypeOK
<1>2. CASE ~CanSend BY <1>2 DEF TypeOK, Send
<1>3. QED BY <1>1, <1>2

\* After connect() has not returned at once there is an attempt to wait for.
LEMMA JoinWaiters ==
  ASSUME TypeOK, NoLostWaiter, JoinOrConnect
  PROVE  /\ connecting' /\ cur' # NoSock /\ sock'[cur'] \in Unconnected
         /\ \A t \in Socks : sock'[t] \in Unconnected => t = cur'
<1>1. CASE connecting
  BY <1>1 DEF JoinOrConnect, NoLostWaiter, connVars, netVars
<1>2. CASE ~connecting
  <2>1. \A t \in Socks : sock[t] \notin Unconnected BY <1>2 DEF NoLostWaiter
  <2>2. PICK s \in Socks : cur' = s /\ connecting' = TRUE
                           /\ sock' = [sock EXCEPT ![s] = "connecting"]
    BY <1>2 DEF JoinOrConnect, DoConnect
  <2>3. QED BY <2>1, <2>2, SocksAssumption DEF TypeOK
<1>3. QED BY <1>1, <1>2

LEMMA NextWaiters == TypeOK /\ NoLostWaiter /\ [Next]_vars => NoLostWaiter'
<1> SUFFICES ASSUME TypeOK, NoLostWaiter, [Next]_vars PROVE NoLostWaiter' OBVIOUS
<1>0. UNCHANGED waiterVars => NoLostWaiter' BY DEF NoLostWaiter, waiterVars
<1>1. ASSUME NEW r \in Reqs, Call(r) PROVE NoLostWaiter'
  <2>1. CASE state = "connected"
    <3>1. Send(r) /\ UNCHANGED <<cur, connecting, awaiting>>
      BY <1>1, <2>1 DEF Call, connVars, retryVars
    <3>2. QED BY <3>1, SendWaiters, SameAttempt
  <2>2. CASE state # "connected"
    <3>1. JoinOrConnect BY <1>1, <2>2 DEF Call
    <3>2. QED BY <3>1, JoinWaiters DEF NoLostWaiter
  <2>3. QED BY <2>1, <2>2
<1>2. ASSUME UserConnect PROVE NoLostWaiter'
  <2>1. CASE IsConnected
    BY <1>2, <2>1, <1>0 DEF UserConnect, waiterVars, connVars, retryVars, callVars, netVars
  <2>2. CASE ~IsConnected
    BY <1>2, <2>2, JoinWaiters DEF UserConnect, NoLostWaiter
  <2>3. QED BY <2>1, <2>2
<1>3. ASSUME Close PROVE NoLostWaiter'
  <2>1. \A s \in Socks : sock'[s] \in Unconnected <=> sock[s] \in Unconnected
    BY <1>3 DEF TypeOK, Close, Ended
  <2>2. \A r \in Reqs : phase'[r] = "connecting" => phase[r] = "connecting"
    BY <1>3 DEF TypeOK, Close
  <2>3. QED BY <1>3, <2>1, <2>2, SameAttempt DEF Close
<1>4. ASSUME NEW r \in Reqs, Resume(r) PROVE NoLostWaiter'
  <2>1. Send(r) /\ UNCHANGED <<cur, connecting, awaiting>>
    BY <1>4 DEF Resume, connVars, retryVars
  <2>2. QED BY <2>1, SendWaiters, SameAttempt
<1>5. ASSUME NEW s \in Socks, WriteError(s) \/ NetworkError(s) PROVE NoLostWaiter'
  BY <1>5, ErrorWaiters DEF WriteError, NetworkError
<1>6. ASSUME CallbackCatch PROVE NoLostWaiter'
  BY <1>6, <1>0 DEF CallbackCatch, waiterVars, callVars, netVars
<1>7. ASSUME NEW r \in Reqs, RequestTimeout(r) PROVE NoLostWaiter'
  <2>1. \A q \in Reqs : phase'[q] = "connecting" => phase[q] = "connecting"
    BY <1>7 DEF TypeOK, RequestTimeout
  <2>2. QED BY <1>7, <2>1, SameAttempt DEF RequestTimeout, connVars, retryVars, netVars
<1>8. ASSUME ReconnectFire PROVE NoLostWaiter'
  <2>1. CASE UNCHANGED <<connVars, netVars, awaiting>>
    BY <1>8, <2>1, <1>0 DEF ReconnectFire, waiterVars, connVars, netVars, callVars
  <2>2. CASE JoinOrConnect
    BY <2>2, JoinWaiters DEF NoLostWaiter
  <2>3. QED BY <1>8, <2>1, <2>2 DEF ReconnectFire
<1>9. ASSUME HeartbeatTick PROVE NoLostWaiter'
  <2>1. UNCHANGED <<cur, connecting, awaiting, phase>>
    BY <1>9 DEF HeartbeatTick, connVars, retryVars, callVars
  <2>2. CASE cur = NoSock \/ Destroyed(cur)
    BY <1>9, <2>1, <2>2, <1>0 DEF HeartbeatTick, waiterVars
  <2>3. CASE ~(cur = NoSock \/ Destroyed(cur))
    <3>1. cur \in Socks /\ Write(cur, {}) BY <1>9, <2>3 DEF TypeOK, HeartbeatTick
    <3>2. QED BY <2>1, <3>1, WriteWaiters, SameAttempt
  <2>4. QED BY <2>2, <2>3
<1>10. ASSUME HeartbeatTimeout PROVE NoLostWaiter'
  <2>1. cur \in Socks /\ ErrorOn(cur, "lingering") BY <1>10 DEF TypeOK, HeartbeatTimeout
  <2>2. QED BY <2>1, ErrorWaiters
<1>11. ASSUME NEW s \in Socks, ConnectEvent(s) PROVE NoLostWaiter'
  <2>1. ~connecting' /\ awaiting' = 0 BY <1>11 DEF ConnectEvent
  <2>2. \A r \in Reqs : phase'[r] # "connecting" BY <1>11 DEF TypeOK, ConnectEvent
  <2>3. \A t \in Socks : sock'[t] \notin Unconnected
    BY <1>11 DEF TypeOK, NoLostWaiter, ConnectEvent
  <2>4. QED BY <2>1, <2>2, <2>3 DEF NoLostWaiter
<1>12. ASSUME NEW s \in Socks, PeerEnd(s) \/ Finish(s) PROVE NoLostWaiter'
  <2>1. \A t \in Socks : sock'[t] \in Unconnected <=> sock[t] \in Unconnected
    BY <1>12 DEF TypeOK, PeerEnd, Finish
  <2>2. QED BY <1>12, <2>1, SameAttempt DEF PeerEnd, Finish, connVars, retryVars, callVars
<1>13. ASSUME NEW s \in Socks, CloseEvent(s) PROVE NoLostWaiter'
  <2>1. HandleUnexpectedDisconnect({}) BY <1>13 DEF CloseEvent
  <2>2. \A r \in Reqs : phase'[r] = "connecting" => phase[r] = "connecting"
    BY <2>1, DisconnectWaiters
  <2>3. \A t \in Socks : sock'[t] \in Unconnected <=> sock[t] \in Unconnected
    BY <1>13 DEF TypeOK, CloseEvent
  <2>4. QED BY <1>13, <2>2, <2>3, SameAttempt DEF CloseEvent
<1>14. ASSUME NEW s \in Socks, NEW r \in Reqs, NEW o \in Settled, Response(s, r, o)
       PROVE  NoLostWaiter'
  <2>1. \A q \in Reqs : phase'[q] = "connecting" => phase[q] = "connecting"
    BY <1>14 DEF TypeOK, Response, callVars
  <2>2. QED BY <1>14, <2>1, SameAttempt DEF Response, connVars, retryVars
<1>15. ASSUME NEW s \in Socks,
              PartialFrame(s) \/ CodecThrow(s) \/ \E r \in Reqs : Swallow(s, r)
       PROVE  NoLostWaiter'
  BY <1>15, <1>0
  DEF PartialFrame, CodecThrow, Swallow, waiterVars, connVars, retryVars, callVars, netVars
<1>16. ASSUME UNCHANGED vars PROVE NoLostWaiter'
  BY <1>16, <1>0 DEF vars, waiterVars, connVars, retryVars, callVars, netVars
<1>17. QED
  BY <1>1, <1>2, <1>3, <1>4, <1>5, <1>6, <1>7, <1>8, <1>9, <1>10, <1>11, <1>12, <1>13,
     <1>14, <1>15, <1>16
  DEF Next, User, Microtask, Timer, SocketEvent

\* connectionPromise is never lost and never left behind: whoever waits for connect()
\* waits for the only socket that is connecting, the current one.
THEOREM WaitersCorrect == Spec => []NoLostWaiter
<1>1. Init => NoLostWaiter BY DEF Init, NoLostWaiter
<1>2. QED BY <1>1, NextWaiters, TypeCorrect, PTL DEF Spec

-----------------------------------------------------------------------------
(* The connection implements the contract of CallContract.                 *)

LEMMA SamePhases == UNCHANGED phase => UNCHANGED outcomes
BY DEF outcomes

LEMMA FailStep ==
  ASSUME TypeOK, NEW S \in SUBSET Reqs, \A r \in S : phase[r] \in Waiting,
         phase' = [r \in Reqs |-> IF r \in S THEN "failed" ELSE phase[r]]
  PROVE  Contract!Next
<1>1. \A r \in S : outcomes[r] \in {"waiting", "pending"} BY DEF outcomes
<1>2. outcomes' = [r \in Reqs |-> IF r \in S THEN "failed" ELSE outcomes[r]]
  BY DEF TypeOK, outcomes
<1>3. Contract!Fail(S) BY <1>1, <1>2 DEF Contract!Fail
<1>4. QED BY <1>3 DEF Contract!Next

LEMMA OneStep ==
  ASSUME TypeOK, NEW r \in Reqs, NEW p, phase' = [phase EXCEPT ![r] = p],
         \/ phase[r] \in {"new", "failed"} /\ p \in {"connecting", "pending", "failed"}
         \/ phase[r] = "resume" /\ p = "pending"
         \/ phase[r] = "pending" /\ p \in Settled
  PROVE  Contract!Next
<1> DEFINE o == IF p = "connecting" THEN "waiting" ELSE p
<1>1. outcomes' = [outcomes EXCEPT ![r] = o] BY DEF TypeOK, outcomes
<1>2. CASE phase[r] \in {"new", "failed"} /\ p \in {"connecting", "pending", "failed"}
  <2>1. Contract!Issue(r) BY <1>1, <1>2 DEF outcomes, Contract!Issue
  <2>2. QED BY <2>1 DEF Contract!Next
<1>3. CASE phase[r] = "resume" /\ p = "pending"
  <2>1. Contract!Transmit(r) BY <1>1, <1>3 DEF outcomes, Contract!Transmit
  <2>2. QED BY <2>1 DEF Contract!Next
<1>4. CASE phase[r] = "pending" /\ p \in Settled
  <2>1. Contract!Answer(r) BY <1>1, <1>4 DEF outcomes, Contract!Answer
  <2>2. QED BY <2>1 DEF Contract!Next
<1>5. QED BY <1>2, <1>3, <1>4

LEMMA DisconnectStep ==
  ASSUME TypeOK, PendingMatchesCallers,
         NEW W \in SUBSET {r \in Reqs : phase[r] = "connecting"},
         HandleUnexpectedDisconnect(W)
  PROVE  Contract!Next
<1>1. pending \cup W \in SUBSET Reqs /\ \A r \in pending \cup W : phase[r] \in Waiting
  BY DEF TypeOK, PendingMatchesCallers
<1>2. phase' = [r \in Reqs |-> IF r \in pending \cup W THEN "failed" ELSE phase[r]]
  BY DEF HandleUnexpectedDisconnect, Rejected
<1>3. QED BY <1>1, <1>2, FailStep

LEMMA ErrorStep ==
  ASSUME TypeOK, PendingMatchesCallers, NEW s \in Socks, NEW after, ErrorOn(s, after)
  PROVE  Contract!Next
<1> DEFINE W == {r \in Reqs : sock[s] \in Unconnected /\ phase[r] = "connecting"}
<1>1. HandleUnexpectedDisconnect(W) BY DEF ErrorOn
<1>2. W \in SUBSET {r \in Reqs : phase[r] = "connecting"} OBVIOUS
<1> HIDE DEF W
<1>3. QED BY <1>1, <1>2, DisconnectStep

LEMMA ContractStep ==
  TypeOK /\ PendingMatchesCallers /\ [Next]_vars => [Contract!Next]_outcomes
<1> SUFFICES ASSUME TypeOK, PendingMatchesCallers, [Next]_vars
             PROVE  [Contract!Next]_outcomes
  OBVIOUS
<1>1. ASSUME NEW r \in Reqs, Call(r) PROVE Contract!Next
  <2>1. phase[r] \in {"new", "failed"} BY <1>1 DEF Call
  <2>2. PICK p \in {"connecting", "pending", "failed"} : phase' = [phase EXCEPT ![r] = p]
    BY <1>1 DEF Call, Send
  <2>3. QED BY <2>1, <2>2, OneStep
<1>2. ASSUME Close PROVE Contract!Next
  <2>1. pending \in SUBSET Reqs /\ \A r \in pending : phase[r] \in Waiting
    BY DEF TypeOK, PendingMatchesCallers
  <2>2. phase' = [r \in Reqs |-> IF r \in pending THEN "failed" ELSE phase[r]]
    BY <1>2 DEF Close
  <2>3. QED BY <2>1, <2>2, FailStep
<1>3. ASSUME NEW r \in Reqs, Resume(r) PROVE Contract!Next
  <2>1. phase[r] = "resume" BY <1>3 DEF Resume
  <2>2. CASE phase' = [phase EXCEPT ![r] = "pending"] BY <2>1, <2>2, OneStep
  <2>3. CASE phase' = [phase EXCEPT ![r] = "failed"]
    <3>1. phase' = [q \in Reqs |-> IF q \in {r} THEN "failed" ELSE phase[q]]
      BY <2>3 DEF TypeOK
    <3>2. QED BY <2>1, <3>1, FailStep
  <2>4. QED BY <1>3, <2>2, <2>3 DEF Resume, Send
<1>4. ASSUME NEW r \in Reqs, RequestTimeout(r) PROVE Contract!Next
  <2>1. phase[r] = "pending" BY <1>4 DEF PendingMatchesCallers, RequestTimeout
  <2>2. phase' = [phase EXCEPT ![r] = "failed"] BY <1>4, <2>1 DEF TypeOK, RequestTimeout
  <2>3. QED BY <2>1, <2>2, OneStep
<1>5. ASSUME NEW s \in Socks, WriteError(s) \/ NetworkError(s) PROVE Contract!Next
  BY <1>5, ErrorStep DEF WriteError, NetworkError
<1>6. ASSUME HeartbeatTimeout PROVE Contract!Next
  <2>1. cur \in Socks /\ ErrorOn(cur, "lingering") BY <1>6 DEF TypeOK, HeartbeatTimeout
  <2>2. QED BY <2>1, ErrorStep
<1>7. ASSUME NEW s \in Socks, ConnectEvent(s) PROVE UNCHANGED outcomes
  BY <1>7 DEF TypeOK, ConnectEvent, outcomes
<1>8. ASSUME NEW s \in Socks, CloseEvent(s) PROVE Contract!Next
  <2>1. HandleUnexpectedDisconnect({}) BY <1>8 DEF CloseEvent
  <2>2. {} \in SUBSET {r \in Reqs : phase[r] = "connecting"} OBVIOUS
  <2>3. QED BY <2>1, <2>2, DisconnectStep
<1>9. ASSUME NEW s \in Socks, NEW r \in Reqs, NEW o \in Settled, Response(s, r, o)
      PROVE  Contract!Next \/ UNCHANGED outcomes
  <2>1. CASE Expected(r)
    <3>1. phase[r] = "pending" BY <2>1 DEF PendingMatchesCallers, Expected
    <3>2. phase' = [phase EXCEPT ![r] = o] BY <1>9, <2>1 DEF Response
    <3>3. QED BY <3>1, <3>2, OneStep
  <2>2. CASE ~Expected(r)
    BY <1>9, <2>2, SamePhases DEF Response, callVars
  <2>3. QED BY <2>1, <2>2
<1>10. ASSUME UserConnect \/ CallbackCatch \/ ReconnectFire \/ HeartbeatTick
       PROVE  UNCHANGED outcomes
  BY <1>10, SamePhases DEF UserConnect, CallbackCatch, ReconnectFire, HeartbeatTick, callVars
<1>11. ASSUME NEW s \in Socks,
              \/ PeerEnd(s) \/ Finish(s) \/ PartialFrame(s) \/ CodecThrow(s)
              \/ \E r \in Reqs : Swallow(s, r)
       PROVE  UNCHANGED outcomes
  BY <1>11, SamePhases DEF PeerEnd, Finish, PartialFrame, CodecThrow, Swallow, callVars
<1>12. ASSUME UNCHANGED vars PROVE UNCHANGED outcomes
  BY <1>12, SamePhases DEF vars, callVars
<1>13. QED
  BY <1>1, <1>2, <1>3, <1>4, <1>5, <1>6, <1>7, <1>8, <1>9, <1>10, <1>11, <1>12
  DEF Next, User, Microtask, Timer, SocketEvent

\* What callers of RpcClient.call see over a connection implements CallContract: a
\* late answer never settles a call that failed, and an answered call stays answered.
THEOREM ContractImplemented == Spec => ImplementsContract
<1>1. Init => Contract!Init BY DEF Init, Contract!Init, outcomes
<1>2. Spec => Contract!Spec
  BY <1>1, ContractStep, TypeCorrect, PendingCorrect, PTL DEF Spec, Contract!Spec
<1>3. QED BY <1>2 DEF ImplementsContract

-----------------------------------------------------------------------------
(* Manual close and the reconnect timer.                                   *)

\* Only doConnect clears manuallyClosed, and the reconnect timer does not call it on a
\* closed connection: after close() the connection reopens by a call or connect() only.
THEOREM ReopenedByUserOnly == Spec => OnlyUserReopens
<1> DEFINE A == manuallyClosed /\ ~manuallyClosed' => User
<1>1. [Next]_vars => [A]_vars
  <2> SUFFICES ASSUME [Next]_vars, manuallyClosed, ~manuallyClosed' PROVE User OBVIOUS
  <2>1. ~ReconnectFire BY DEF ReconnectFire, ReconnectGivesUp, connVars
  <2>2. ASSUME NEW s \in Socks PROVE ~SocketEvent(s) /\ ~WriteError(s)
    BY DEF SocketEvent, ConnectEvent, NetworkError, PeerEnd, Finish, CloseEvent, Response,
           PartialFrame, CodecThrow, Swallow, WriteError, ErrorOn, connVars
  <2>3. ~CallbackCatch /\ \A r \in Reqs : ~Resume(r) /\ ~RequestTimeout(r)
    BY DEF CallbackCatch, Resume, RequestTimeout, connVars
  <2>4. ~HeartbeatTick /\ ~HeartbeatTimeout
    BY DEF HeartbeatTick, HeartbeatTimeout, ErrorOn, connVars
  <2>5. ~UNCHANGED vars BY DEF vars, connVars
  <2>6. QED BY <2>1, <2>2, <2>3, <2>4, <2>5 DEF Next, Microtask, Timer
<1>2. QED BY <1>1, PTL DEF Spec, OnlyUserReopens

-----------------------------------------------------------------------------
(* The reconnect timer and its back-off.                                   *)

\* A disconnect leaves what was armed armed: it sets the timer if there is none.
LEMMA DisconnectArmed ==
  ASSUME TypeOK, NEW W, HandleUnexpectedDisconnect(W), UNCHANGED manuallyClosed
  PROVE  ReconnectArmed'
<1>1. SUFFICES ASSUME Reconnect, ~manuallyClosed PROVE reconnectTimer' BY DEF ReconnectArmed
<1>2. CASE reconnectTimer
  BY <1>1, <1>2 DEF HandleUnexpectedDisconnect, ScheduleReconnect, MaySchedule
<1>3. CASE ~reconnectTimer
  BY <1>1, <1>3 DEF HandleUnexpectedDisconnect, ScheduleReconnect, MaySchedule
<1>4. QED BY <1>2, <1>3

LEMMA NextArmed == TypeOK /\ NoLostWaiter /\ ReconnectArmed /\ [Next]_vars => ReconnectArmed'
<1> SUFFICES ASSUME TypeOK, NoLostWaiter, ReconnectArmed, [Next]_vars PROVE ReconnectArmed' OBVIOUS
<1>0. UNCHANGED <<state, manuallyClosed, reconnectTimer, connecting, caught>> => ReconnectArmed'
  BY DEF ReconnectArmed
<1>1. JoinOrConnect => connecting' BY JoinWaiters
<1>2. ASSUME NEW r \in Reqs, Call(r) \/ Resume(r) \/ RequestTimeout(r) PROVE ReconnectArmed'
  BY <1>0, <1>1, <1>2 DEF Call, Resume, RequestTimeout, connVars, retryVars, ReconnectArmed
<1>3. ASSUME UserConnect PROVE ReconnectArmed'
  BY <1>0, <1>1, <1>3 DEF UserConnect, connVars, retryVars, ReconnectArmed
<1>4. ASSUME Close PROVE ReconnectArmed' BY <1>4 DEF Close, ReconnectArmed
<1>5. ASSUME NEW s \in Socks, WriteError(s) \/ NetworkError(s) \/ CloseEvent(s) PROVE ReconnectArmed'
  BY <1>5, DisconnectArmed DEF WriteError, NetworkError, CloseEvent, ErrorOn
<1>6. ASSUME HeartbeatTimeout PROVE ReconnectArmed'
  BY <1>6, DisconnectArmed DEF HeartbeatTimeout, ErrorOn
<1>7. ASSUME CallbackCatch PROVE ReconnectArmed'
  BY <1>7 DEF CallbackCatch, ScheduleReconnect, MaySchedule, ReconnectArmed
<1>8. ASSUME ReconnectFire PROVE ReconnectArmed'
  <2>1. CASE ReconnectGivesUp /\ UNCHANGED connVars
    BY <2>1 DEF ReconnectGivesUp, connVars, ReconnectArmed
  <2>2. CASE IsConnected /\ UNCHANGED connVars BY <2>2 DEF IsConnected, connVars, ReconnectArmed
  <2>3. CASE JoinOrConnect BY <1>1, <2>3 DEF ReconnectArmed
  <2>4. QED BY <1>8, <2>1, <2>2, <2>3 DEF ReconnectFire
<1>9. ASSUME HeartbeatTick PROVE ReconnectArmed'
  BY <1>0, <1>9 DEF HeartbeatTick, connVars, retryVars
<1>10. ASSUME NEW s \in Socks, ConnectEvent(s) PROVE ReconnectArmed'
  BY <1>10 DEF ConnectEvent, ReconnectArmed
<1>11. ASSUME NEW s \in Socks,
              \/ PeerEnd(s) \/ Finish(s) \/ PartialFrame(s) \/ CodecThrow(s)
              \/ \E r \in Reqs : Swallow(s, r) \/ \E o \in Settled : Response(s, r, o)
       PROVE  ReconnectArmed'
  BY <1>0, <1>11 DEF PeerEnd, Finish, PartialFrame, CodecThrow, Swallow, Response, connVars, retryVars
<1>12. ASSUME UNCHANGED vars PROVE ReconnectArmed' BY <1>0, <1>12 DEF vars, connVars, retryVars
<1>13. QED
  BY <1>2, <1>3, <1>4, <1>5, <1>6, <1>7, <1>8, <1>9, <1>10, <1>11, <1>12
  DEF Next, User, Microtask, Timer, SocketEvent

\* A connection that says it is reconnecting has a timer, a socket or a catch block on its
\* way: no early return of scheduleReconnect or of the timer's callback drops the last one.
THEOREM ArmedCorrect == Spec => []ReconnectArmed
<1>1. Init => ReconnectArmed BY DEF Init, ReconnectArmed
<1>2. QED BY <1>1, NextArmed, TypeCorrect, WaitersCorrect, PTL DEF Spec

LEMMA NextBackoff == TypeOK /\ BackoffReset /\ [Next]_vars => BackoffReset'
<1> SUFFICES ASSUME TypeOK, BackoffReset, [Next]_vars PROVE BackoffReset' OBVIOUS
<1>0. UNCHANGED <<state, attempts>> => BackoffReset' BY DEF BackoffReset
<1>1. JoinOrConnect => state' = state \/ state' = "connecting"
  BY DEF JoinOrConnect, DoConnect, connVars
<1>2. \A W : HandleUnexpectedDisconnect(W) => BackoffReset'
  BY DEF HandleUnexpectedDisconnect, StateAfterDisconnect, BackoffReset
<1>3. ASSUME NEW r \in Reqs, Call(r) \/ Resume(r) \/ RequestTimeout(r) PROVE BackoffReset'
  BY <1>0, <1>1, <1>3 DEF Call, Resume, RequestTimeout, connVars, retryVars, BackoffReset
<1>4. ASSUME UserConnect \/ ReconnectFire PROVE BackoffReset'
  BY <1>0, <1>1, <1>4 DEF UserConnect, ReconnectFire, connVars, retryVars, BackoffReset
<1>5. ASSUME Close \/ CallbackCatch PROVE BackoffReset' BY <1>5 DEF Close, CallbackCatch, BackoffReset
<1>6. ASSUME NEW s \in Socks, WriteError(s) \/ NetworkError(s) \/ CloseEvent(s) PROVE BackoffReset'
  BY <1>2, <1>6 DEF WriteError, NetworkError, CloseEvent, ErrorOn
<1>7. ASSUME HeartbeatTimeout PROVE BackoffReset' BY <1>2, <1>7 DEF HeartbeatTimeout, ErrorOn
<1>8. ASSUME HeartbeatTick PROVE BackoffReset'
  BY <1>0, <1>8 DEF HeartbeatTick, connVars, retryVars
<1>9. ASSUME NEW s \in Socks, ConnectEvent(s) PROVE BackoffReset'
  BY <1>9 DEF ConnectEvent, AttemptsOnConnect, BackoffReset
<1>10. ASSUME NEW s \in Socks,
              \/ PeerEnd(s) \/ Finish(s) \/ PartialFrame(s) \/ CodecThrow(s)
              \/ \E r \in Reqs : Swallow(s, r) \/ \E o \in Settled : Response(s, r, o)
       PROVE  BackoffReset'
  BY <1>0, <1>10 DEF PeerEnd, Finish, PartialFrame, CodecThrow, Swallow, Response, connVars, retryVars
<1>11. ASSUME UNCHANGED vars PROVE BackoffReset' BY <1>0, <1>11 DEF vars, connVars, retryVars
<1>12. QED
  BY <1>3, <1>4, <1>5, <1>6, <1>7, <1>8, <1>9, <1>10, <1>11
  DEF Next, User, Microtask, Timer, SocketEvent

\* While the connection is connected the back-off is reset, whoever asked for the connection:
\* the next outage starts from the initial delay.
THEOREM BackoffCorrect == Spec => []BackoffReset
<1>1. Init => BackoffReset BY DEF Init, BackoffReset
<1>2. QED BY <1>1, NextBackoff, TypeCorrect, PTL DEF Spec

-----------------------------------------------------------------------------
(* The current socket, the heartbeat and the requests on the wire.         *)

\* Some socket's 'error' or 'close' comes before the next event of the loop.
Owed == \E s \in Socks : sock[s] \in {"failing", "destroyed"}

\* The current socket can be read, or is about to tell that it cannot.
CurrentServes == cur # NoSock /\ sock[cur] \in Readable \cup {"failing", "destroyed"}

AttemptInv ==
  /\ cur # NoSock => sock[cur] # "free"
  /\ connecting => state # "connected"
  /\ caught > 0 => state # "connected" /\ pending = {} /\ ~heartbeat
  /\ state = "connected" /\ ~manuallyClosed => CurrentServes

HeartbeatInv ==
  /\ heartbeat => Heartbeat /\ (Owed \/ state = "connected")
  /\ heartbeat /\ state = "connected" => CurrentServes
  /\ Heartbeat /\ state = "connected" /\ ~manuallyClosed => heartbeat

\* What is pending was written to the current socket, unless the codec is out of step for
\* good, or is rejected by the event that is owed.
WrittenInv ==
  pending # {} =>
    \/ Owed
    \/ /\ state = "connected" /\ cur # NoSock /\ sock[cur] \in Readable
       /\ sock[cur] = "open" /\ residue # Orphan => pending \subseteq wire[cur]

SocketInv == AttemptInv /\ HeartbeatInv /\ WrittenInv

\* The invariants of the sections above.
BaseInv == TypeOK /\ NoLostWaiter

\* A disconnect stops the heartbeat and rejects all that is pending.
LEMMA DisconnectSockets ==
  ASSUME BaseInv, SocketInv, NEW W, HandleUnexpectedDisconnect(W), UNCHANGED <<cur, manuallyClosed>>,
         connecting' => connecting, cur # NoSock => sock'[cur] # "free",
         caught' > 0 => caught > 0 \/ connecting
  PROVE  SocketInv'
<1>1. /\ ~heartbeat' /\ pending' = {}
      /\ state' = "reconnecting" \/ (manuallyClosed /\ state' = state)
  BY DEF HandleUnexpectedDisconnect, HeartbeatAfterDisconnect, StateAfterDisconnect, Rejected
<1>2. state' = "connected" => manuallyClosed /\ state = "connected" BY <1>1
<1>3. AttemptInv' BY <1>1, <1>2 DEF SocketInv, AttemptInv
<1>4. HeartbeatInv' BY <1>1, <1>2 DEF HeartbeatInv
<1>5. WrittenInv' BY <1>1 DEF WrittenInv
<1>6. QED BY <1>3, <1>4, <1>5 DEF SocketInv

LEMMA ErrorSockets ==
  ASSUME BaseInv, SocketInv, NEW s \in Socks, NEW after \in DestroyedStates, ErrorOn(s, after)
  PROVE  SocketInv'
<1> DEFINE W == {r \in Reqs : sock[s] \in Unconnected /\ phase[r] = "connecting"}
<1>1. HandleUnexpectedDisconnect(W) /\ UNCHANGED <<cur, manuallyClosed>> BY DEF ErrorOn
<1>2. connecting' => connecting BY DEF ErrorOn, PromiseAfterError
<1>3. cur # NoSock => sock'[cur] # "free"
  BY DEF ErrorOn, BaseInv, TypeOK, SocketInv, AttemptInv
<1>4. caught' > 0 => caught > 0 \/ connecting BY DEF ErrorOn, BaseInv, NoLostWaiter
<1> HIDE DEF W
<1>5. QED BY <1>1, <1>2, <1>3, <1>4, DisconnectSockets

\* connect() when it does not return at once: the current socket was gone.
LEMMA JoinSockets ==
  ASSUME BaseInv, SocketInv, JoinOrConnect, state # "connected" \/ cur = NoSock \/ Destroyed(cur),
         UNCHANGED <<caught, heartbeat, pending>>
  PROVE  SocketInv'
<1>1. CASE connecting
  BY <1>1 DEF JoinOrConnect, connVars, netVars, SocketInv, AttemptInv, HeartbeatInv, WrittenInv,
     Owed, CurrentServes
<1>2. CASE ~connecting
  <2>1. PICK s \in Socks : /\ sock[s] \in {"free", "closed"} /\ cur' = s
                           /\ sock' = [sock EXCEPT ![s] = "connecting"]
                           /\ state' = "connecting"
    BY <1>2 DEF JoinOrConnect, DoConnect
  <2>2. Owed => Owed' BY <2>1 DEF Owed, BaseInv, TypeOK
  <2>3. state = "connected" /\ CurrentServes => Owed
    BY DEF CurrentServes, Owed, Destroyed, BaseInv, TypeOK
  <2>4. AttemptInv' BY <2>1 DEF SocketInv, AttemptInv, BaseInv, TypeOK
  <2>5. HeartbeatInv' BY <2>1, <2>2, <2>3 DEF SocketInv, HeartbeatInv
  <2>6. WrittenInv' BY <2>1, <2>2, <2>3 DEF SocketInv, WrittenInv, CurrentServes
  <2>7. QED BY <2>4, <2>5, <2>6 DEF SocketInv
<1>3. QED BY <1>1, <1>2

\* A write to a socket that has ended its side destroys it.
LEMMA WriteSockets ==
  ASSUME BaseInv, NEW s \in Socks, NEW R \in SUBSET Reqs, Write(s, R)
  PROVE  /\ Owed => Owed'
         /\ CurrentServes /\ UNCHANGED cur => CurrentServes'
         /\ sock[s] = "half" => Owed'
         /\ \A t \in Socks : sock[t] # "half" => sock'[t] = sock[t]
         /\ \A t \in Socks : sock'[t] = "free" => sock[t] = "free"
         /\ \A t \in Socks : sock[t] = "half" => sock'[t] \in {"half", "failing"}
         /\ sock[s] # "half" => wire'[s] = wire[s] \cup R
         /\ \A t \in Socks : t # s => wire'[t] = wire[t] /\ sock'[t] = sock[t]
BY DEF Write, Owed, CurrentServes, BaseInv, TypeOK

LEMMA SendSockets ==
  ASSUME BaseInv, SocketInv, NEW r \in Reqs, Send(r), UNCHANGED <<connVars, caught, heartbeat, residue>>
  PROVE  SocketInv'
<1>1. CASE ~CanSend
  BY <1>1 DEF Send, connVars, SocketInv, AttemptInv, HeartbeatInv, WrittenInv, Owed, CurrentServes
<1>2. CASE CanSend
  <2>1. /\ cur \in Socks /\ state = "connected" /\ ~Destroyed(cur)
        /\ pending' = pending \cup {r} /\ Write(cur, {r})
    BY <1>2 DEF CanSend, Send, BaseInv, TypeOK
  <2>2. sock[cur] \in Readable
    <3>1. sock[cur] \notin Unconnected BY <2>1 DEF BaseInv, NoLostWaiter, SocketInv, AttemptInv
    <3>2. sock[cur] # "free" BY <2>1, SocksAssumption DEF SocketInv, AttemptInv
    <3>3. sock[cur] \in SockStates BY <2>1 DEF BaseInv, TypeOK
    <3>4. QED BY <2>1, <3>1, <3>2, <3>3 DEF Destroyed
  <2>3. {r} \in SUBSET Reqs OBVIOUS
  <2>4. /\ Owed => Owed'
        /\ CurrentServes => CurrentServes'
        /\ sock[cur] = "half" => Owed'
        /\ sock[cur] = "open" => sock'[cur] = "open" /\ wire'[cur] = wire[cur] \cup {r}
        /\ sock'[cur] # "free"
    BY <2>1, <2>2, <2>3, WriteSockets DEF connVars
  <2>5. AttemptInv' BY <2>1, <2>4 DEF connVars, SocketInv, AttemptInv
  <2>6. HeartbeatInv' BY <2>1, <2>4 DEF connVars, SocketInv, HeartbeatInv
  <2>7. WrittenInv'
    BY <2>1, <2>2, <2>4, SocksAssumption DEF connVars, SocketInv, WrittenInv
  <2>8. QED BY <2>5, <2>6, <2>7 DEF SocketInv
<1>3. QED BY <1>1, <1>2

LEMMA NextSockets == BaseInv /\ SocketInv /\ [Next]_vars => SocketInv'
<1> SUFFICES ASSUME BaseInv, SocketInv, [Next]_vars PROVE SocketInv' OBVIOUS
<1> USE SocksAssumption
<1>0. ASSUME UNCHANGED <<connVars, caught, heartbeat, sock, residue>>, pending' \subseteq pending,
             \A s \in Socks : wire'[s] = wire[s]
      PROVE  SocketInv'
  BY <1>0 DEF connVars, SocketInv, AttemptInv, HeartbeatInv, WrittenInv, Owed, CurrentServes,
     BaseInv, TypeOK
<1>1. ASSUME NEW r \in Reqs, Call(r) PROVE SocketInv'
  <2>1. CASE state = "connected" BY <1>1, <2>1, SendSockets DEF Call, retryVars
  <2>2. CASE state # "connected" BY <1>1, <2>2, JoinSockets DEF Call, retryVars
  <2>3. QED BY <2>1, <2>2
<1>2. ASSUME UserConnect PROVE SocketInv'
  <2>1. CASE IsConnected BY <1>0, <1>2, <2>1 DEF UserConnect, retryVars, callVars, netVars
  <2>2. CASE ~IsConnected BY <1>2, <2>2, JoinSockets DEF UserConnect, IsConnected, retryVars, callVars
  <2>3. QED BY <2>1, <2>2
<1>3. ASSUME Close PROVE SocketInv'
  <2>1. /\ state' = "closed" /\ manuallyClosed' /\ ~heartbeat' /\ pending' = {}
        /\ UNCHANGED <<cur, connecting, caught>>
    BY <1>3 DEF Close
  <2>2. cur # NoSock => sock'[cur] # "free"
    BY <1>3 DEF Close, Ended, SocketInv, AttemptInv, BaseInv, TypeOK
  <2>3. QED BY <2>1, <2>2 DEF SocketInv, AttemptInv, HeartbeatInv, WrittenInv
<1>4. ASSUME NEW r \in Reqs, Resume(r) PROVE SocketInv'
  BY <1>4, SendSockets DEF Resume, retryVars
<1>5. ASSUME NEW r \in Reqs, RequestTimeout(r) PROVE SocketInv'
  BY <1>0, <1>5 DEF RequestTimeout, retryVars, netVars
<1>6. ASSUME NEW s \in Socks, WriteError(s) \/ NetworkError(s) PROVE SocketInv'
  BY <1>6, ErrorSockets DEF WriteError, NetworkError
<1>7. ASSUME HeartbeatTimeout PROVE SocketInv'
  BY <1>7, ErrorSockets DEF HeartbeatTimeout, BaseInv, TypeOK
<1>8. ASSUME NEW s \in Socks, CloseEvent(s) PROVE SocketInv'
  <2>1. cur # NoSock => sock'[cur] # "free"
    BY <1>8 DEF CloseEvent, SocketInv, AttemptInv, BaseInv, TypeOK
  <2>2. QED BY <1>8, <2>1, DisconnectSockets DEF CloseEvent
<1>9. ASSUME CallbackCatch PROVE SocketInv'
  <2>1. /\ caught > 0 /\ state' = "reconnecting"
        /\ UNCHANGED <<cur, connecting, manuallyClosed, heartbeat, pending, sock>>
    BY <1>9 DEF CallbackCatch, callVars, netVars
  <2>2. ~heartbeat /\ pending = {} BY <2>1 DEF SocketInv, AttemptInv
  <2>3. QED BY <2>1, <2>2 DEF SocketInv, AttemptInv, HeartbeatInv, WrittenInv
<1>10. ASSUME ReconnectFire PROVE SocketInv'
  <2>1. CASE UNCHANGED <<connVars, netVars>>
    BY <1>0, <1>10, <2>1 DEF ReconnectFire, callVars, netVars
  <2>2. CASE ~IsConnected /\ JoinOrConnect
    BY <1>10, <2>2, JoinSockets DEF ReconnectFire, IsConnected, callVars
  <2>3. QED BY <1>10, <2>1, <2>2 DEF ReconnectFire
<1>11. ASSUME HeartbeatTick PROVE SocketInv'
  <2>1. UNCHANGED <<connVars, caught, pending, residue>> /\ Quiet /\ heartbeat
    BY <1>11 DEF HeartbeatTick, retryVars, callVars
  <2>2. ~Owed BY <2>1 DEF Quiet, MicrotasksDone, Owed
  <2>3. state = "connected" /\ CurrentServes /\ Heartbeat
    BY <2>1, <2>2 DEF SocketInv, HeartbeatInv
  <2>4. cur \in Socks /\ sock[cur] \in Readable
    BY <2>2, <2>3 DEF CurrentServes, Owed, BaseInv, TypeOK
  <2>5. Write(cur, {}) /\ heartbeat' = heartbeat
    BY <1>11, <2>4 DEF HeartbeatTick, Destroyed
  <2>6. {} \in SUBSET Reqs OBVIOUS
  <2>7. /\ CurrentServes' /\ sock'[cur] # "free"
        /\ sock[cur] = "half" => Owed'
        /\ sock[cur] = "open" => sock'[cur] = "open" /\ wire'[cur] = wire[cur]
    BY <2>1, <2>3, <2>4, <2>5, <2>6, WriteSockets DEF connVars
  <2>8. AttemptInv' BY <2>1, <2>5, <2>7 DEF connVars, SocketInv, AttemptInv
  <2>9. HeartbeatInv' BY <2>1, <2>3, <2>5, <2>7 DEF connVars, HeartbeatInv
  <2>10. WrittenInv' BY <2>1, <2>2, <2>4, <2>7 DEF connVars, SocketInv, WrittenInv
  <2>11. QED BY <2>8, <2>9, <2>10 DEF SocketInv
<1>12. ASSUME NEW s \in Socks, ConnectEvent(s) PROVE SocketInv'
  <2>1. /\ Quiet /\ sock[s] \in Unconnected /\ caught = 0
        /\ sock' = [sock EXCEPT ![s] = IF @ = "connecting" THEN "open" ELSE "half"]
        /\ state' = "connected" /\ ~connecting' /\ heartbeat' = (heartbeat \/ Heartbeat)
        /\ UNCHANGED <<cur, manuallyClosed, caught, pending>>
    BY <1>12 DEF ConnectEvent, Quiet, MicrotasksDone
  <2>2. s = cur /\ connecting BY <2>1 DEF BaseInv, NoLostWaiter
  <2>3. CurrentServes' /\ sock'[cur] # "free" BY <2>1, <2>2 DEF CurrentServes, BaseInv, TypeOK
  <2>4. ~Owed BY <2>1 DEF Quiet, MicrotasksDone, Owed
  <2>5. pending = {} BY <2>1, <2>2, <2>4 DEF SocketInv, WrittenInv
  <2>6. heartbeat => Heartbeat BY DEF SocketInv, HeartbeatInv
  <2>7. AttemptInv' BY <2>1, <2>3 DEF AttemptInv
  <2>8. HeartbeatInv' BY <2>1, <2>3, <2>6 DEF HeartbeatInv
  <2>9. WrittenInv' BY <2>1, <2>5 DEF WrittenInv
  <2>10. QED BY <2>7, <2>8, <2>9 DEF SocketInv
<1>13. ASSUME NEW s \in Socks, PeerEnd(s) \/ Finish(s) PROVE SocketInv'
  <2>1. /\ UNCHANGED <<connVars, caught, heartbeat, pending, residue>>
        /\ \A t \in Socks : t # s => sock'[t] = sock[t] /\ wire'[t] = wire[t]
        /\ \/ sock[s] = "open" /\ sock'[s] = "half"
           \/ sock[s] = "half" /\ sock'[s] = "destroyed"
    BY <1>13 DEF PeerEnd, Finish, retryVars, callVars, BaseInv, TypeOK
  <2>2. Owed => Owed' BY <2>1 DEF Owed
  <2>3. sock'[s] = "destroyed" => Owed' BY DEF Owed
  <2>4. CurrentServes => CurrentServes' BY <2>1 DEF CurrentServes, connVars, BaseInv, TypeOK
  <2>5. cur # NoSock /\ sock[cur] # "free" => sock'[cur] # "free"
    BY <2>1 DEF BaseInv, TypeOK
  <2>6. AttemptInv' BY <2>1, <2>4, <2>5 DEF connVars, SocketInv, AttemptInv
  <2>7. HeartbeatInv' BY <2>1, <2>2, <2>4 DEF connVars, SocketInv, HeartbeatInv
  <2>8. WrittenInv'
    BY <2>1, <2>2, <2>3 DEF connVars, SocketInv, WrittenInv, BaseInv, TypeOK
  <2>9. QED BY <2>6, <2>7, <2>8 DEF SocketInv
<1>14. ASSUME NEW s \in Socks, NEW r \in Reqs, NEW o \in Settled, Response(s, r, o)
       PROVE  SocketInv'
  <2>0. pending' = pending \ {r}
    <3>1. CASE r \in pending BY <1>14, <3>1 DEF Response, Expected
    <3>2. CASE r \notin pending BY <1>14, <3>2 DEF Response, Expected, callVars
    <3>3. QED BY <3>1, <3>2
  <2>1. /\ UNCHANGED <<connVars, caught, heartbeat, sock>> /\ Aligned(s)
        /\ pending' = pending \ {r}
        /\ wire' = [wire EXCEPT ![s] = wire[s]] \/ wire' = [wire EXCEPT ![s] = wire[s] \ {r}]
    BY <1>14, <2>0 DEF Response, retryVars
  <2>2. \A t \in Socks : wire[t] \ {r} \subseteq wire'[t] BY <2>1 DEF BaseInv, TypeOK
  <2>3. residue # Orphan BY <2>1 DEF Aligned
  <2>4. Owed' <=> Owed BY <2>1 DEF Owed
  <2>5. AttemptInv' /\ HeartbeatInv'
    BY <2>1, <2>4 DEF connVars, SocketInv, AttemptInv, HeartbeatInv, CurrentServes
  <2>6. WrittenInv'
    BY <2>1, <2>2, <2>3, <2>4 DEF connVars, SocketInv, WrittenInv, BaseInv, TypeOK
  <2>7. QED BY <2>5, <2>6 DEF SocketInv
<1>15. ASSUME NEW s \in Socks, PartialFrame(s) \/ CodecThrow(s) \/ \E r \in Reqs : Swallow(s, r)
       PROVE  SocketInv'
  <2>1. /\ UNCHANGED <<connVars, caught, heartbeat, pending, sock>>
        /\ \/ wire' = wire /\ (residue' # Orphan => residue # Orphan)
           \/ residue' = Orphan
    BY <1>15 DEF PartialFrame, CodecThrow, Swallow, retryVars, callVars, netVars
  <2>2. Owed' <=> Owed BY <2>1 DEF Owed
  <2>3. QED
    BY <2>1, <2>2 DEF connVars, SocketInv, AttemptInv, HeartbeatInv, WrittenInv, CurrentServes
<1>16. ASSUME UNCHANGED vars PROVE SocketInv' BY <1>0, <1>16 DEF vars, retryVars, callVars, netVars
<1>17. QED
  BY <1>1, <1>2, <1>3, <1>4, <1>5, <1>6, <1>7, <1>8, <1>9, <1>10, <1>11, <1>12, <1>13,
     <1>14, <1>15, <1>16
  DEF Next, User, Microtask, Timer, SocketEvent

LEMMA SocketsHold == Spec => []SocketInv
<1>1. Init => SocketInv
  BY DEF Init, SocketInv, AttemptInv, HeartbeatInv, WrittenInv
<1>2. BaseInv /\ SocketInv /\ [Next]_vars => SocketInv' BY NextSockets
<1>3. BaseInv <=> TypeOK /\ NoLostWaiter BY DEF BaseInv
<1>4. QED BY <1>1, <1>2, <1>3, TypeCorrect, WaitersCorrect, PTL DEF Spec

LEMMA QuietOwesNothing == Quiet => ~Owed
BY DEF Quiet, MicrotasksDone, Owed

\* callDirect does not send into a dead socket: between events a connection that says it is
\* connected has a socket that can be read, unless close() intervened.
THEOREM ReadableCorrect == Spec => []ConnectedIsReadable
<1>1. TypeOK /\ SocketInv => ConnectedIsReadable
  BY QuietOwesNothing DEF SocketInv, AttemptInv, CurrentServes, Owed, ConnectedIsReadable, TypeOK
<1>2. QED BY <1>1, TypeCorrect, SocketsHold, PTL

\* Between events the heartbeat runs exactly while the connection is connected, unless close()
\* intervened: no interval is leaked and no connection is left unwatched.
THEOREM HeartbeatCorrect == Spec => []HeartbeatFollowsState
<1>1. SocketInv => HeartbeatFollowsState
  BY QuietOwesNothing DEF SocketInv, HeartbeatInv, HeartbeatFollowsState
<1>2. QED BY <1>1, SocketsHold, PTL

\* Between events what is pending waits for the current socket: nothing that was sent to an
\* earlier one is left in the pending map, and nothing is sent to a dead one.
THEOREM AwaitedCorrect == Spec => []AwaitedIsOnTheWire
<1>1. TypeOK /\ SocketInv => AwaitedIsOnTheWire
  <2>1. SUFFICES ASSUME TypeOK, SocketInv, Quiet, pending # {}
                 PROVE  /\ cur # NoSock
                        /\ \/ sock[cur] = "half"
                           \/ sock[cur] = "open" /\ (Aligned(cur) => pending \subseteq wire[cur])
    BY DEF AwaitedIsOnTheWire
  <2>2. Aligned(cur) /\ cur \in Socks => residue # Orphan BY SocksAssumption DEF Aligned
  <2>3. QED BY <2>1, <2>2, QuietOwesNothing DEF SocketInv, WrittenInv, TypeOK
<1>2. QED BY <1>1, TypeCorrect, SocketsHold, PTL
=============================================================================
