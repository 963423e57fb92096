--------------------------- MODULE RpcServerProofs ---------------------------
(***************************************************************************)
(* What holds of the server for any number of sockets, handlers, close()   *)
(* calls, restarts and messages in a chunk, as long as its process lives.  *)
(***************************************************************************)
EXTENDS RpcServer, FiniteSetTheorems, TLAPS

-----------------------------------------------------------------------------
(* The inductive invariant, by parts.                                      *)

\* A running handler has a socket and a message.
HandlersServe == \A h \in Handlers : handler[h] # "none" => serves[h] \in Conns /\ left[h] # 0

\* There is one close() at a time, of a server that is not this.server any more.
OneCloser ==
  \A k \in Closers : closer[k] \in InProgress =>
    /\ server = 0
    /\ closes[k] # 0 /\ listener[closes[k]] \in {"closing", "closed", "failed"}
    /\ \A j \in Closers : closer[j] \in InProgress => j = k

\* While it drains, requests are refused; when it has drained, none is active.
DrainRefuses ==
  /\ \A k \in Closers : closer[k] \in {"draining", "drained"} => state = "draining" /\ graceful[k]
  /\ \A k \in Closers : closer[k] = "drained" /\ k \notin timedOut => activeRequests = 0
  /\ \A k \in timedOut : closer[k] \notin {"new", "draining"}

\* A listener listens for this.server and is closed by some close(); a socket that
\* has not closed keeps its listener, and is in this.sockets until it is destroyed.
Listeners ==
  /\ server # 0 => listener[server] \in {"listening", "failed"}
  /\ \A n \in 1 .. MaxListens :
       /\ listener[n] = "listening" => server = n /\ state = "listening"
       /\ listener[n] = "closing" => \E k \in Closers : closer[k] \in InProgress /\ closes[k] = n
  /\ \A c \in Conns :
       /\ conn[c] \in Connected \cup {"destroyed"} =>
            owner[c] # 0 /\ listener[owner[c]] \in {"listening", "closing"}
       /\ conn[c] \in Connected => c \in sockets

IInv ==
  /\ TypeOK /\ HandlersServe /\ ActiveCounts
  /\ OneCloser /\ DrainerWillWake /\ DrainRefuses /\ Listeners

USE BoundsAssumption, NoConnAssumption, HandlersAssumption
USE DEF Stages, Counted, InProgress, CloserStages, Connected, Writing

-----------------------------------------------------------------------------
(* Counting handlers.                                                      *)

CountedHandlers == {h \in Handlers : handler[h] \in Counted}

\* How the number of counted handlers changes when one handler moves on.
LEMMA CountChange ==
  ASSUME TypeOK, NEW h \in Handlers, NEW s \in Stages, handler' = [handler EXCEPT ![h] = s]
  PROVE  /\ Cardinality(CountedHandlers) \in Nat
         /\ handler[h] \in Counted => Cardinality(CountedHandlers) # 0
         /\ Cardinality(CountedHandlers') =
              IF handler[h] \in Counted
              THEN IF s \in Counted THEN Cardinality(CountedHandlers)
                                    ELSE Cardinality(CountedHandlers) - 1
              ELSE IF s \in Counted THEN Cardinality(CountedHandlers) + 1
                                    ELSE Cardinality(CountedHandlers)
<1> DEFINE others == CountedHandlers \ {h}
<1>1. IsFiniteSet(CountedHandlers) BY FS_Subset DEF CountedHandlers
<1>2. IsFiniteSet(others) BY <1>1, FS_Difference
<1>3. CountedHandlers = IF handler[h] \in Counted THEN others \cup {h} ELSE others
  BY DEF CountedHandlers
<1>4. CountedHandlers' = IF s \in Counted THEN others \cup {h} ELSE others
  BY DEF CountedHandlers, TypeOK
<1>5. h \notin others OBVIOUS
<1> HIDE DEF others
<1>6. Cardinality(others) \in Nat BY <1>2, FS_CardinalityType
<1>7. Cardinality(others \cup {h}) = Cardinality(others) + 1 BY <1>2, <1>5, FS_AddElement
<1>8. QED BY <1>3, <1>4, <1>6, <1>7

LEMMA CountsInv == IInv => TypeOK /\ activeRequests = Cardinality(CountedHandlers)
BY DEF IInv, ActiveCounts, CountedHandlers

LEMMA CountsNow == activeRequests' = Cardinality(CountedHandlers') => ActiveCounts'
BY DEF ActiveCounts, CountedHandlers

-----------------------------------------------------------------------------
(* The handlers.                                                           *)

\* The counter follows the handlers.
LEMMA DataCounts ==
  ASSUME IInv, NEW h \in Handlers, NEW c \in Conns, NEW n \in 1 .. MaxMessages, Data(h, c, n)
  PROVE  ActiveCounts' /\ activeRequests' \in Nat
<1> DEFINE s == IF Refuses THEN "refusing" ELSE "invoking"
<1>1. handler' = [handler EXCEPT ![h] = s] /\ handler[h] = "none" BY DEF Data
<1>2. activeRequests' = IF s \in Counted THEN activeRequests + 1 ELSE activeRequests
  BY DEF Data
<1>3. s \in Stages OBVIOUS
<1> HIDE DEF s
<1>4. TypeOK /\ activeRequests = Cardinality(CountedHandlers) BY CountsInv
<1>5. /\ Cardinality(CountedHandlers) \in Nat
      /\ handler[h] \in Counted => Cardinality(CountedHandlers) # 0
      /\ Cardinality(CountedHandlers') =
           IF handler[h] \in Counted
           THEN IF s \in Counted THEN activeRequests ELSE activeRequests - 1
           ELSE IF s \in Counted THEN activeRequests + 1 ELSE activeRequests
  BY <1>3, <1>1, <1>4, CountChange
<1>6. activeRequests' = Cardinality(CountedHandlers') /\ activeRequests' \in Nat
  BY <1>1, <1>2, <1>3, <1>4, <1>5
<1>7. QED BY <1>6, CountsNow

LEMMA AbortCounts ==
  ASSUME IInv, NEW h \in Handlers, Abort(h)
  PROVE  ActiveCounts' /\ activeRequests' \in Nat
<1>1. handler' = [handler EXCEPT ![h] = "none"] BY DEF Abort
<1>2. activeRequests' = IF handler[h] \in Counted THEN activeRequests - 1 ELSE activeRequests
  BY DEF Abort, IsCounted, ActiveAfter
<1>3. TypeOK /\ activeRequests = Cardinality(CountedHandlers) BY CountsInv
<1>4. /\ Cardinality(CountedHandlers) \in Nat
      /\ handler[h] \in Counted => Cardinality(CountedHandlers) # 0
      /\ Cardinality(CountedHandlers') =
           IF handler[h] \in Counted
           THEN IF "none" \in Counted THEN activeRequests ELSE activeRequests - 1
           ELSE IF "none" \in Counted THEN activeRequests + 1 ELSE activeRequests
  BY <1>1, <1>3, CountChange
<1>5. activeRequests' = Cardinality(CountedHandlers') /\ activeRequests' \in Nat
  BY <1>1, <1>2, <1>3, <1>4
<1>6. QED BY <1>5, CountsNow

LEMMA ContinueCounts ==
  ASSUME IInv, NEW h \in Handlers, Continue(h)
  PROVE  ActiveCounts' /\ activeRequests' \in Nat
<1> DEFINE s == IF left[h] - 1 = 0 THEN "none" ELSE IF Refuses THEN "refusing" ELSE "invoking"
<1> DEFINE rest == IF handler[h] = "answered" THEN activeRequests - 1 ELSE activeRequests
<1>1. handler' = [handler EXCEPT ![h] = s] /\ handler[h] \in {"answered", "refused"}
  BY DEF Continue, StartMessage
<1>2. activeRequests' = IF s = "invoking" THEN rest + 1 ELSE rest
  BY DEF Continue, StartMessage, ActiveAfter
<1>3. s \in Stages /\ (s \in Counted <=> s = "invoking") OBVIOUS
<1> HIDE DEF s
<1>4. TypeOK /\ activeRequests = Cardinality(CountedHandlers) BY CountsInv
<1>5. /\ Cardinality(CountedHandlers) \in Nat
      /\ handler[h] \in Counted => Cardinality(CountedHandlers) # 0
      /\ Cardinality(CountedHandlers') =
           IF handler[h] \in Counted
           THEN IF s \in Counted THEN activeRequests ELSE activeRequests - 1
           ELSE IF s \in Counted THEN activeRequests + 1 ELSE activeRequests
  BY <1>3, <1>1, <1>4, CountChange
<1>6. activeRequests' = Cardinality(CountedHandlers') /\ activeRequests' \in Nat
  BY <1>1, <1>2, <1>3, <1>4, <1>5
<1>7. QED BY <1>6, CountsNow

-----------------------------------------------------------------------------
(* Every step keeps the invariant.                                       *)

USE DEF serverVars, connVars, handlerVars, closerVars

LEMMA ListenInv == ASSUME IInv, Listen PROVE IInv'
<1>1. TypeOK'
  <2>1. PICK n \in 1 .. MaxListens :
          /\ server' = n
          /\ \E l \in {"listening", "failed"} : listener' = [listener EXCEPT ![n] = l]
          /\ state' \in {"listening", state}
    BY DEF Listen
  <2>2. listener' \in [1 .. MaxListens -> {"new", "listening", "failed", "closing", "closed"}]
    BY <2>1 DEF IInv, TypeOK
  <2>3. QED BY <2>1, <2>2 DEF IInv, TypeOK, Listen
<1>2. HandlersServe' BY DEF IInv, TypeOK, HandlersServe, Listen
<1>3. ActiveCounts' BY DEF IInv, ActiveCounts, Listen
<1>4. OneCloser' BY DEF IInv, TypeOK, OneCloser, Listen
<1>5. DrainerWillWake' BY DEF IInv, TypeOK, DrainerWillWake, DrainRefuses, OneCloser, Listen
<1>6. DrainRefuses' BY DEF IInv, TypeOK, OneCloser, DrainerWillWake, DrainRefuses, Listen
<1>7. Listeners' BY DEF IInv, TypeOK, OneCloser, Listeners, Listen
<1>8. QED BY <1>1, <1>2, <1>3, <1>4, <1>5, <1>6, <1>7 DEF IInv

LEMMA AcceptInv == ASSUME IInv, NEW c \in Conns, Accept(c) PROVE IInv'
<1>1. TypeOK' BY DEF IInv, TypeOK, HandlersServe, OneCloser, Accept
<1>2. HandlersServe' BY DEF IInv, TypeOK, HandlersServe, Accept
<1>3. ActiveCounts' BY DEF IInv, ActiveCounts, Accept
<1>4. OneCloser' BY DEF IInv, TypeOK, OneCloser, Accept
<1>5. DrainerWillWake' BY DEF IInv, TypeOK, DrainerWillWake, DrainRefuses, OneCloser, Accept
<1>6. DrainRefuses' BY DEF IInv, TypeOK, OneCloser, DrainerWillWake, DrainRefuses, Accept
<1>7. Listeners' BY DEF IInv, TypeOK, OneCloser, Listeners, Accept
<1>8. QED BY <1>1, <1>2, <1>3, <1>4, <1>5, <1>6, <1>7 DEF IInv

LEMMA DestroyInv == ASSUME IInv, NEW c \in Conns, Destroy(c) PROVE IInv'
<1>1. TypeOK' BY DEF IInv, TypeOK, HandlersServe, OneCloser, Destroy
<1>2. HandlersServe' BY DEF IInv, TypeOK, HandlersServe, Destroy
<1>3. ActiveCounts' BY DEF IInv, ActiveCounts, Destroy
<1>4. OneCloser' BY DEF IInv, TypeOK, OneCloser, Destroy
<1>5. DrainerWillWake' BY DEF IInv, TypeOK, DrainerWillWake, DrainRefuses, OneCloser, Destroy
<1>6. DrainRefuses' BY DEF IInv, TypeOK, OneCloser, DrainerWillWake, DrainRefuses, Destroy
<1>7. Listeners' BY DEF IInv, TypeOK, OneCloser, Listeners, Destroy
<1>8. QED BY <1>1, <1>2, <1>3, <1>4, <1>5, <1>6, <1>7 DEF IInv

LEMMA PeerEndsInv == ASSUME IInv, NEW c \in Conns, PeerEnds(c) PROVE IInv'
<1>1. TypeOK' BY DEF IInv, TypeOK, HandlersServe, OneCloser, PeerEnds
<1>2. HandlersServe' BY DEF IInv, TypeOK, HandlersServe, PeerEnds
<1>3. ActiveCounts' BY DEF IInv, ActiveCounts, PeerEnds
<1>4. OneCloser' BY DEF IInv, TypeOK, OneCloser, PeerEnds
<1>5. DrainerWillWake' BY DEF IInv, TypeOK, DrainerWillWake, DrainRefuses, OneCloser, PeerEnds
<1>6. DrainRefuses' BY DEF IInv, TypeOK, OneCloser, DrainerWillWake, DrainRefuses, PeerEnds
<1>7. Listeners' BY DEF IInv, TypeOK, OneCloser, Listeners, PeerEnds
<1>8. QED BY <1>1, <1>2, <1>3, <1>4, <1>5, <1>6, <1>7 DEF IInv

LEMMA EndFlushedInv == ASSUME IInv, NEW c \in Conns, EndFlushed(c) PROVE IInv'
<1>1. TypeOK' BY DEF IInv, TypeOK, HandlersServe, OneCloser, EndFlushed
<1>2. HandlersServe' BY DEF IInv, TypeOK, HandlersServe, EndFlushed
<1>3. ActiveCounts' BY DEF IInv, ActiveCounts, EndFlushed
<1>4. OneCloser' BY DEF IInv, TypeOK, OneCloser, EndFlushed
<1>5. DrainerWillWake' BY DEF IInv, TypeOK, DrainerWillWake, DrainRefuses, OneCloser, EndFlushed
<1>6. DrainRefuses' BY DEF IInv, TypeOK, OneCloser, DrainerWillWake, DrainRefuses, EndFlushed
<1>7. Listeners' BY DEF IInv, TypeOK, OneCloser, Listeners, EndFlushed
<1>8. QED BY <1>1, <1>2, <1>3, <1>4, <1>5, <1>6, <1>7 DEF IInv

LEMMA CloseEventInv == ASSUME IInv, NEW c \in Conns, CloseEvent(c) PROVE IInv'
<1>1. TypeOK' BY DEF IInv, TypeOK, HandlersServe, OneCloser, CloseEvent
<1>2. HandlersServe' BY DEF IInv, TypeOK, HandlersServe, CloseEvent
<1>3. ActiveCounts' BY DEF IInv, ActiveCounts, CloseEvent
<1>4. OneCloser' BY DEF IInv, TypeOK, OneCloser, CloseEvent
<1>5. DrainerWillWake' BY DEF IInv, TypeOK, DrainerWillWake, DrainRefuses, OneCloser, CloseEvent
<1>6. DrainRefuses' BY DEF IInv, TypeOK, OneCloser, DrainerWillWake, DrainRefuses, CloseEvent
<1>7. Listeners' BY DEF IInv, TypeOK, OneCloser, Listeners, CloseEvent
<1>8. QED BY <1>1, <1>2, <1>3, <1>4, <1>5, <1>6, <1>7 DEF IInv

LEMMA DataInv ==
  ASSUME IInv, NEW h \in Handlers, NEW c \in Conns, NEW n \in 1 .. MaxMessages, Data(h, c, n)
  PROVE  IInv'
<1>0. ActiveCounts' /\ activeRequests' \in Nat BY DataCounts
<1>1. TypeOK' BY <1>0 DEF IInv, TypeOK, HandlersServe, OneCloser, Data, Refuses
<1>2. HandlersServe' BY DEF IInv, TypeOK, HandlersServe, Data, Refuses
<1>3. ActiveCounts' BY <1>0
<1>4. OneCloser' BY DEF IInv, TypeOK, OneCloser, Data, Refuses
<1>5. DrainerWillWake'
  BY <1>0 DEF IInv, TypeOK, DrainerWillWake, DrainRefuses, OneCloser, Data, Refuses
<1>6. DrainRefuses'
  BY <1>0 DEF IInv, TypeOK, OneCloser, DrainerWillWake, DrainRefuses, Data, Refuses
<1>7. Listeners' BY DEF IInv, TypeOK, OneCloser, Listeners, Data, Refuses
<1>8. QED BY <1>1, <1>2, <1>3, <1>4, <1>5, <1>6, <1>7 DEF IInv

LEMMA InvokeDoneInv == ASSUME IInv, NEW h \in Handlers, InvokeDone(h) PROVE IInv'
<1>1. TypeOK' BY DEF IInv, TypeOK, HandlersServe, OneCloser, InvokeDone
<1>2. HandlersServe' BY DEF IInv, TypeOK, HandlersServe, InvokeDone
<1>3. ActiveCounts'
  <2>1. CountedHandlers' = CountedHandlers BY DEF IInv, TypeOK, InvokeDone, CountedHandlers
  <2>2. QED BY <2>1, CountsInv, CountsNow DEF InvokeDone
<1>4. OneCloser' BY DEF IInv, TypeOK, OneCloser, InvokeDone
<1>5. DrainerWillWake' BY DEF IInv, TypeOK, DrainerWillWake, DrainRefuses, OneCloser, InvokeDone
<1>6. DrainRefuses' BY DEF IInv, TypeOK, OneCloser, DrainerWillWake, DrainRefuses, InvokeDone
<1>7. Listeners' BY DEF IInv, TypeOK, OneCloser, Listeners, InvokeDone
<1>8. QED BY <1>1, <1>2, <1>3, <1>4, <1>5, <1>6, <1>7 DEF IInv

LEMMA WriteDoneInv == ASSUME IInv, NEW h \in Handlers, WriteDone(h) PROVE IInv'
<1>1. TypeOK'
  <2>1. \/ handler' = [handler EXCEPT ![h] = "answered"]
        \/ handler' = [handler EXCEPT ![h] = "refused"]
    BY DEF WriteDone
  <2>2. handler' \in [Handlers -> Stages] BY <2>1 DEF IInv, TypeOK
  <2>3. QED BY <2>2 DEF IInv, TypeOK, WriteDone
<1>2. HandlersServe' BY DEF IInv, TypeOK, HandlersServe, WriteDone
<1>3. ActiveCounts'
  <2>1. CountedHandlers' = CountedHandlers BY DEF IInv, TypeOK, WriteDone, CountedHandlers
  <2>2. QED BY <2>1, CountsInv, CountsNow DEF WriteDone
<1>4. OneCloser' BY DEF IInv, TypeOK, OneCloser, WriteDone
<1>5. DrainerWillWake' BY DEF IInv, TypeOK, DrainerWillWake, DrainRefuses, OneCloser, WriteDone
<1>6. DrainRefuses' BY DEF IInv, TypeOK, OneCloser, DrainerWillWake, DrainRefuses, WriteDone
<1>7. Listeners' BY DEF IInv, TypeOK, OneCloser, Listeners, WriteDone
<1>8. QED BY <1>1, <1>2, <1>3, <1>4, <1>5, <1>6, <1>7 DEF IInv

LEMMA AbortInv == ASSUME IInv, NEW h \in Handlers, handler[h] # "none", Abort(h) PROVE IInv'
<1>0. ActiveCounts' /\ activeRequests' \in Nat BY AbortCounts
<1>1. TypeOK'
  BY <1>0 DEF IInv, TypeOK, HandlersServe, OneCloser, Abort, IsCounted, ActiveAfter,
     ResolveDrainIfIdle, WakesDrain
<1>2. HandlersServe'
  BY DEF IInv, TypeOK, HandlersServe, Abort, IsCounted, ActiveAfter, ResolveDrainIfIdle,
     WakesDrain
<1>3. ActiveCounts' BY <1>0
<1>4. OneCloser'
  BY DEF IInv, TypeOK, OneCloser, Abort, IsCounted, ActiveAfter, ResolveDrainIfIdle, WakesDrain
<1>5. DrainerWillWake'
  BY <1>0 DEF IInv, TypeOK, DrainerWillWake, DrainRefuses, OneCloser, Abort, IsCounted,
     ActiveAfter, ResolveDrainIfIdle, WakesDrain
<1>6. DrainRefuses'
  BY <1>0 DEF IInv, TypeOK, OneCloser, DrainerWillWake, DrainRefuses, Abort, IsCounted,
     ActiveAfter, ResolveDrainIfIdle, WakesDrain
<1>7. Listeners'
  BY DEF IInv, TypeOK, OneCloser, Listeners, Abort, IsCounted, ActiveAfter, ResolveDrainIfIdle,
     WakesDrain
<1>8. QED BY <1>1, <1>2, <1>3, <1>4, <1>5, <1>6, <1>7 DEF IInv

LEMMA ContinueInv == ASSUME IInv, NEW h \in Handlers, Continue(h) PROVE IInv'
<1>0. ActiveCounts' /\ activeRequests' \in Nat BY ContinueCounts
<1>1. TypeOK'
  <2>1. left[h] - 1 \in 0 .. MaxMessages BY DEF IInv, TypeOK, HandlersServe, Continue
  <2>2. left' = [left EXCEPT ![h] = left[h] - 1] BY DEF Continue, StartMessage
  <2>3. left' \in [Handlers -> 0 .. MaxMessages] BY <2>1, <2>2 DEF IInv, TypeOK
  <2>4. handler' \in [Handlers -> Stages] /\ serves' \in [Handlers -> Conns \cup {NoConn}]
    BY DEF IInv, TypeOK, Continue, StartMessage
  <2>5. closer' \in [Closers -> CloserStages] /\ drainResolvers' \subseteq Closers
    BY DEF IInv, TypeOK, Continue, ResolveDrainIfIdle
  <2>6. QED BY <1>0, <2>3, <2>4, <2>5 DEF IInv, TypeOK, Continue
<1>2. HandlersServe'
  BY DEF IInv, TypeOK, HandlersServe, Continue, StartMessage, Refuses, ActiveAfter,
     ResolveDrainIfIdle, WakesDrain
<1>3. ActiveCounts' BY <1>0
<1>4. OneCloser'
  BY DEF IInv, TypeOK, OneCloser, Continue, StartMessage, Refuses, ActiveAfter,
     ResolveDrainIfIdle, WakesDrain
<1>5. DrainerWillWake'
  BY <1>0 DEF IInv, TypeOK, DrainerWillWake, DrainRefuses, OneCloser, Continue, StartMessage,
     Refuses, ActiveAfter, ResolveDrainIfIdle, WakesDrain
<1>6. DrainRefuses'
  BY <1>0 DEF IInv, TypeOK, OneCloser, DrainerWillWake, DrainRefuses, Continue, StartMessage,
     Refuses, ActiveAfter, ResolveDrainIfIdle, WakesDrain
<1>7. Listeners'
  BY DEF IInv, TypeOK, OneCloser, Listeners, Continue, StartMessage, Refuses, ActiveAfter,
     ResolveDrainIfIdle, WakesDrain
<1>8. QED BY <1>1, <1>2, <1>3, <1>4, <1>5, <1>6, <1>7 DEF IInv

LEMMA CloseInv == ASSUME IInv, NEW k \in Closers, Close(k) PROVE IInv'
<1>1. TypeOK'
  <2>1. server # 0 => ListenersAfterClose(server)
                        \in [1 .. MaxListens -> {"new", "listening", "failed", "closing", "closed"}]
    BY DEF IInv, TypeOK, ListenersAfterClose
  <2>2. AfterCloseConnections \in [Conns -> {"none", "destroyed", "closed"} \cup Connected]
    BY DEF IInv, TypeOK, AfterCloseConnections
  <2>3. closer' \in [Closers -> CloserStages] /\ graceful' \in [Closers -> BOOLEAN]
    <3>1. closer \in [Closers -> CloserStages] /\ graceful \in [Closers -> BOOLEAN]
      BY DEF IInv, TypeOK
    <3>2. \E g \in BOOLEAN : graceful' = [graceful EXCEPT ![k] = g]
      BY Zenon DEF Close
    <3>3. \/ closer' = [closer EXCEPT ![k] = "returned"]
          \/ closer' = [closer EXCEPT ![k] = "drained"]
          \/ closer' = [closer EXCEPT ![k] = "draining"]
          \/ closer' = [closer EXCEPT ![k] = "ending"]
      BY Zenon DEF Close
    <3>4. closer' \in [Closers -> CloserStages] BY <3>1, <3>3 DEF CloserStages
    <3>5. graceful' \in [Closers -> BOOLEAN] BY <3>1, <3>2
    <3>6. QED BY <3>4, <3>5
  <2>4. /\ server' \in 0 .. MaxListens /\ state' \in {"idle", "listening", "draining", "closed"}
        /\ closes' \in [Closers -> 0 .. MaxListens]
        /\ sockets' \subseteq Conns /\ drainResolvers' \subseteq Closers
    <3>1. /\ server \in 0 .. MaxListens /\ state \in {"idle", "listening", "draining", "closed"}
          /\ closes \in [Closers -> 0 .. MaxListens]
          /\ sockets \subseteq Conns /\ drainResolvers \subseteq Closers
      BY DEF IInv, TypeOK
    <3>2. QED BY <3>1 DEF Close
  <2>5. /\ listener' \in {listener, ListenersAfterClose(server)}
        /\ server = 0 => listener' = listener
        /\ conn' \in {conn, AfterCloseConnections}
    BY DEF Close
  <2>6. QED BY <2>1, <2>2, <2>3, <2>4, <2>5 DEF IInv, TypeOK, Close
<1>2. HandlersServe'
  BY DEF IInv, TypeOK, HandlersServe, Close, ListenersAfterClose, AfterCloseConnections
<1>3. ActiveCounts' BY DEF IInv, ActiveCounts, Close, ListenersAfterClose, AfterCloseConnections
<1>4. OneCloser'
  <2>1. CASE server = 0 BY <2>1 DEF IInv, TypeOK, OneCloser, Close
  <2>2. CASE server # 0
    <3>1. closer'[k] \in InProgress /\ closes'[k] = server /\ server' = 0
      BY <2>2 DEF IInv, TypeOK, Close
    <3>2. listener'[server] \in {"closing", "failed"}
      BY <2>2 DEF IInv, TypeOK, Listeners, Close, ListenersAfterClose
    <3>3. \A j \in Closers : j # k => closer'[j] \notin InProgress
      BY <2>2 DEF IInv, TypeOK, OneCloser, Close
    <3>4. QED BY <2>2, <3>1, <3>2, <3>3 DEF OneCloser
  <2>3. QED BY <2>1, <2>2
<1>5. DrainerWillWake'
  BY DEF IInv, TypeOK, DrainerWillWake, DrainRefuses, OneCloser, Close, ListenersAfterClose,
     AfterCloseConnections
<1>6. DrainRefuses'
  BY DEF IInv, TypeOK, OneCloser, DrainerWillWake, DrainRefuses, Close, ListenersAfterClose,
     AfterCloseConnections
<1>7. Listeners'
  <2>1. CASE server = 0
    <3>1. \A j \in Closers : closer[j] \in InProgress => closer'[j] \in InProgress /\ closes'[j] = closes[j]
      BY <2>1 DEF IInv, TypeOK, Close
    <3>2. UNCHANGED <<state, server, listener, conn, sockets, owner>> BY <2>1 DEF Close
    <3>3. QED BY <3>1, <3>2 DEF IInv, Listeners
  <2>2. CASE server # 0
    <3>1. server' = 0 /\ closer'[k] \in InProgress /\ closes'[k] = server
      BY <2>2 DEF IInv, TypeOK, Close
    <3>2. /\ listener' = ListenersAfterClose(server) /\ owner' = owner
          /\ \/ conn' = conn /\ sockets' = sockets
             \/ conn' = AfterCloseConnections /\ sockets' = {}
      BY <2>2 DEF Close
    <3>3. \A n \in 1 .. MaxListens :
            /\ listener'[n] # "listening"
            /\ listener'[n] = "closing" => n = server \/ listener[n] = "closing"
            /\ listener[n] \in {"listening", "closing"} => listener'[n] = "closing"
      BY <2>2, <3>2 DEF IInv, TypeOK, Listeners, ListenersAfterClose
    <3>4. \A n \in 1 .. MaxListens : listener[n] # "closing"
      BY <2>2 DEF IInv, OneCloser, Listeners
    <3>5. \A c \in Conns : conn'[c] \in Connected \cup {"destroyed"} => conn[c] \in Connected \cup {"destroyed"}
      BY <3>2 DEF IInv, TypeOK, AfterCloseConnections
    <3>6. \A c \in Conns : conn'[c] \in Connected => c \in sockets'
      BY <3>2 DEF IInv, TypeOK, Listeners, AfterCloseConnections
    <3>7. \A c \in Conns : owner[c] # 0 => owner[c] \in 1 .. MaxListens BY DEF IInv, TypeOK
    <3>8. QED BY <3>1, <3>2, <3>3, <3>4, <3>5, <3>6, <3>7 DEF IInv, Listeners
  <2>3. QED BY <2>1, <2>2
<1>8. QED BY <1>1, <1>2, <1>3, <1>4, <1>5, <1>6, <1>7 DEF IInv

LEMMA DrainTimerInv == ASSUME IInv, NEW k \in Closers, DrainTimer(k) PROVE IInv'
<1>1. TypeOK' BY DEF IInv, TypeOK, HandlersServe, OneCloser, DrainTimer
<1>2. HandlersServe' BY DEF IInv, TypeOK, HandlersServe, DrainTimer
<1>3. ActiveCounts' BY DEF IInv, ActiveCounts, DrainTimer
<1>4. OneCloser' BY DEF IInv, TypeOK, OneCloser, DrainTimer
<1>5. DrainerWillWake' BY DEF IInv, TypeOK, DrainerWillWake, DrainRefuses, OneCloser, DrainTimer
<1>6. DrainRefuses' BY DEF IInv, TypeOK, OneCloser, DrainerWillWake, DrainRefuses, DrainTimer
<1>7. Listeners' BY DEF IInv, TypeOK, OneCloser, Listeners, DrainTimer
<1>8. QED BY <1>1, <1>2, <1>3, <1>4, <1>5, <1>6, <1>7 DEF IInv

LEMMA DrainedInv == ASSUME IInv, NEW k \in Closers, Drained(k) PROVE IInv'
<1>1. TypeOK' BY DEF IInv, TypeOK, HandlersServe, OneCloser, Drained, AfterCloseConnections
<1>2. HandlersServe' BY DEF IInv, TypeOK, HandlersServe, Drained, AfterCloseConnections
<1>3. ActiveCounts' BY DEF IInv, ActiveCounts, Drained, AfterCloseConnections
<1>4. OneCloser' BY DEF IInv, TypeOK, OneCloser, Drained, AfterCloseConnections
<1>5. DrainerWillWake'
  BY DEF IInv, TypeOK, DrainerWillWake, DrainRefuses, OneCloser, Drained, AfterCloseConnections
<1>6. DrainRefuses'
  BY DEF IInv, TypeOK, OneCloser, DrainerWillWake, DrainRefuses, Drained, AfterCloseConnections
<1>7. Listeners' BY DEF IInv, TypeOK, OneCloser, Listeners, Drained, AfterCloseConnections
<1>8. QED BY <1>1, <1>2, <1>3, <1>4, <1>5, <1>6, <1>7 DEF IInv

LEMMA CloseEndsInv == ASSUME IInv, NEW k \in Closers, CloseEnds(k) PROVE IInv'
<1>1. TypeOK'
  <2>1. closer' \in [Closers -> CloserStages] /\ state' \in {state, "closed"}
    BY DEF IInv, TypeOK, CloseEnds
  <2>2. QED BY <2>1 DEF IInv, TypeOK, CloseEnds
<1>2. HandlersServe' BY DEF IInv, TypeOK, HandlersServe, CloseEnds, ServerHasClosed
<1>3. ActiveCounts' BY DEF IInv, ActiveCounts, CloseEnds, ServerHasClosed
<1>4. OneCloser' BY DEF IInv, TypeOK, OneCloser, CloseEnds, ServerHasClosed
<1>5. DrainerWillWake'
  BY DEF IInv, TypeOK, DrainerWillWake, DrainRefuses, OneCloser, CloseEnds, ServerHasClosed
<1>6. DrainRefuses'
  BY DEF IInv, TypeOK, OneCloser, DrainerWillWake, DrainRefuses, CloseEnds, ServerHasClosed
<1>7. Listeners' BY DEF IInv, TypeOK, OneCloser, Listeners, CloseEnds, ServerHasClosed
<1>8. QED BY <1>1, <1>2, <1>3, <1>4, <1>5, <1>6, <1>7 DEF IInv

LEMMA ListenerClosedInv == ASSUME IInv, NEW n \in 1 .. MaxListens, ListenerClosed(n) PROVE IInv'
<1>1. TypeOK' BY DEF IInv, TypeOK, HandlersServe, OneCloser, ListenerClosed
<1>2. HandlersServe' BY DEF IInv, TypeOK, HandlersServe, ListenerClosed
<1>3. ActiveCounts' BY DEF IInv, ActiveCounts, ListenerClosed
<1>4. OneCloser' BY DEF IInv, TypeOK, OneCloser, ListenerClosed
<1>5. DrainerWillWake'
  BY DEF IInv, TypeOK, DrainerWillWake, DrainRefuses, OneCloser, ListenerClosed
<1>6. DrainRefuses' BY DEF IInv, TypeOK, OneCloser, DrainerWillWake, DrainRefuses, ListenerClosed
<1>7. Listeners' BY DEF IInv, TypeOK, OneCloser, Listeners, ListenerClosed
<1>8. QED BY <1>1, <1>2, <1>3, <1>4, <1>5, <1>6, <1>7 DEF IInv

-----------------------------------------------------------------------------
(* The invariant holds.                                                    *)

LEMMA InitInv == ASSUME Init PROVE IInv
<1>1. {h \in Handlers : handler[h] \in Counted} = {} BY DEF Init
<1>2. ActiveCounts BY <1>1, FS_EmptySet DEF Init, ActiveCounts
<1>3. TypeOK
  <2>1. /\ left \in [Handlers -> 0 .. MaxMessages]
        /\ owner \in [Conns -> 0 .. MaxListens] /\ closes \in [Closers -> 0 .. MaxListens]
    BY DEF Init
  <2>2. /\ server \in 0 .. MaxListens /\ activeRequests \in Nat
        /\ listener \in [1 .. MaxListens -> {"new", "listening", "failed", "closing", "closed"}]
        /\ conn \in [Conns -> {"none", "destroyed", "closed"} \cup Connected]
        /\ handler \in [Handlers -> Stages] /\ closer \in [Closers -> CloserStages]
    BY DEF Init
  <2>3. /\ serves \in [Handlers -> Conns \cup {NoConn}] /\ graceful \in [Closers -> BOOLEAN]
        /\ sockets \subseteq Conns /\ drainResolvers \subseteq Closers /\ timedOut \subseteq Closers
    BY DEF Init
  <2>4. state \in {"idle", "listening", "draining", "closed"} /\ crashed \in BOOLEAN BY DEF Init
  <2>5. QED BY <2>1, <2>2, <2>3, <2>4 DEF TypeOK
<1>4. QED
  BY <1>2, <1>3 DEF Init, IInv, HandlersServe, OneCloser, DrainerWillWake, DrainRefuses, Listeners

\* A process that has ended is like one that has not begun.
LEMMA CrashInv == ASSUME Crash PROVE IInv'
<1>1. {h \in Handlers : handler'[h] \in Counted} = {} BY DEF Crash
<1>2. ActiveCounts' BY <1>1, FS_EmptySet DEF Crash, ActiveCounts
<1>3. TypeOK' BY DEF Crash, TypeOK
<1>4. QED
  BY <1>2, <1>3 DEF Crash, IInv, HandlersServe, OneCloser, DrainerWillWake, DrainRefuses, Listeners

LEMMA StutterInv == ASSUME IInv, UNCHANGED vars PROVE IInv'
<1>1. TypeOK' BY DEF IInv, TypeOK, vars
<1>2. HandlersServe' BY DEF IInv, HandlersServe, vars
<1>3. ActiveCounts' BY DEF IInv, ActiveCounts, vars
<1>4. OneCloser' BY DEF IInv, OneCloser, vars
<1>5. DrainerWillWake' /\ DrainRefuses' BY DEF IInv, DrainerWillWake, DrainRefuses, vars
<1>6. Listeners' BY DEF IInv, Listeners, vars
<1>7. QED BY <1>1, <1>2, <1>3, <1>4, <1>5, <1>6 DEF IInv

LEMMA NextInv == IInv /\ [Next]_vars => IInv'
<1> SUFFICES ASSUME IInv, [Next]_vars PROVE IInv' OBVIOUS
<1>1. CASE Listen BY <1>1, ListenInv
<1>2. ASSUME NEW c \in Conns, SocketEvent(c) PROVE IInv'
  BY <1>2, AcceptInv, DestroyInv, PeerEndsInv, EndFlushedInv, CloseEventInv DEF SocketEvent
<1>3. ASSUME NEW h \in Handlers, Handle(h) PROVE IInv'
  <2>1. CASE EncodeFails(h) \/ WriteFails(h)
    <3>1. handler[h] # "none" /\ Abort(h) BY <2>1 DEF EncodeFails, WriteFails
    <3>2. QED BY <3>1, AbortInv
  <2>2. QED BY <1>3, <2>1, DataInv, InvokeDoneInv, WriteDoneInv, ContinueInv DEF Handle
<1>4. ASSUME NEW k \in Closers, CloseStep(k) PROVE IInv'
  BY <1>4, CloseInv, DrainTimerInv, DrainedInv, CloseEndsInv DEF CloseStep
<1>5. ASSUME NEW n \in 1 .. MaxListens, ListenerClosed(n) PROVE IInv' BY <1>5, ListenerClosedInv
<1>6. CASE ProcessEnds BY <1>6, CrashInv DEF ProcessEnds, PeerResets, WritesAfterEnd, WarnThrows
<1>7. CASE UNCHANGED vars BY <1>7, StutterInv
<1>8. QED BY <1>1, <1>2, <1>3, <1>4, <1>5, <1>6, <1>7 DEF Next

LEMMA Invariance == Spec => []IInv
BY InitInv, NextInv, PTL DEF Spec

\* Every variable keeps its type; in particular activeRequests never goes below zero,
\* however the ends of handlers, failed writes and restarts fall.
THEOREM TypeCorrect == Spec => []TypeOK
<1>1. IInv => TypeOK BY DEF IInv
<1>2. QED BY <1>1, Invariance, PTL

\* The finally block of handleData decrements exactly once for each message counted:
\* activeRequests is the number of handlers between a method's start and its answer.
THEOREM CountCorrect == Spec => []ActiveCounts
<1>1. IInv => ActiveCounts BY DEF IInv
<1>2. QED BY <1>1, Invariance, PTL

\* waitForActiveRequests never waits for a request that has already ended: a resolver
\* is put in place before anything can call resolveDrainIfIdle for the last time.
THEOREM DrainerWakes == Spec => []DrainerWillWake
<1>1. IInv => DrainerWillWake BY DEF IInv
<1>2. QED BY <1>1, Invariance, PTL

\* After close() no server listens and no socket is open, though close() forgets
\* this.server first and a graceful one sets the state only when it has all ended.
THEOREM ClosedCorrect == Spec => []ClosedIsClosed
<1>1. ASSUME IInv, state = "closed", \A k \in Closers : closer[k] \notin InProgress
      PROVE  /\ \A n \in 1 .. MaxListens : listener[n] \notin {"listening", "closing"}
             /\ \A c \in Conns : conn[c] \notin Connected
  <2>1. \A n \in 1 .. MaxListens : listener[n] \notin {"listening", "closing"}
    BY <1>1 DEF IInv, Listeners
  <2>2. \A c \in Conns : owner[c] # 0 => owner[c] \in 1 .. MaxListens BY <1>1 DEF IInv, TypeOK
  <2>3. QED BY <1>1, <2>1, <2>2 DEF IInv, Listeners
<1>2. IInv => ClosedIsClosed BY <1>1 DEF ClosedIsClosed
<1>3. QED BY <1>2, Invariance, PTL
-----------------------------------------------------------------------------
(* The server keeps the contract, step by step.                            *)

LEMMA ActiveAreRequests == ASSUME IInv PROVE ActiveSet \subseteq Handlers \X (1 .. MaxMessages)
<1>1. \A h \in Handlers : handler[h] \in Counted => left[h] \in 1 .. MaxMessages
  BY DEF IInv, TypeOK, HandlersServe
<1>2. QED BY <1>1 DEF ActiveSet

Lives == ~crashed /\ ~crashed'

\* A step of one handler is a step Serve.
LEMMA ServeStep ==
  ASSUME IInv, IInv', Lives, NEW h \in Handlers,
         \A g \in Handlers \ {h} : handler'[g] = handler[g] /\ left'[g] = left[g],
         handler'[h] \in Counted /\ state = "draining" => handler[h] \in Counted /\ left'[h] = left[h],
         conn' = conn \/ \E c \in Conns : conn' = [conn EXCEPT ![c] = "destroyed"],
         UNCHANGED <<server, timedOut>>, \A k \in Closers : IsDraining(k)' <=> IsDraining(k)
  PROVE  Contract!Serve
<1>1. PhaseOfServer' = PhaseOfServer /\ DrainIsLate' = DrainIsLate
  BY DEF Lives, PhaseOfServer, DrainIsLate, IInv, TypeOK
<1>2. ActiveSet' \subseteq Handlers \X (1 .. MaxMessages)
  <2>1. HandlersServe' /\ left' \in [Handlers -> 0 .. MaxMessages] BY DEF IInv, TypeOK
  <2>2. \A g \in Handlers : handler'[g] \in Counted => left'[g] \in 1 .. MaxMessages
    BY <2>1 DEF HandlersServe
  <2>3. QED BY <2>2 DEF ActiveSet
<1>3. PhaseOfServer = "draining" => state = "draining"
  BY DEF PhaseOfServer, IsDraining, IInv, DrainRefuses
<1>4. state = "draining" => ActiveSet' \subseteq ActiveSet BY DEF ActiveSet
<1>5. OpenSockets' = OpenSockets \/ \E c \in Conns : OpenSockets' = OpenSockets \ {c}
  <2>1. CASE conn' = conn BY <2>1 DEF OpenSockets
  <2>2. ASSUME NEW c \in Conns, conn' = [conn EXCEPT ![c] = "destroyed"]
        PROVE  OpenSockets' = OpenSockets \ {c}
    BY <2>2 DEF OpenSockets, IInv, TypeOK
  <2>3. QED BY <2>1, <2>2
<1>6. QED BY <1>1, <1>2, <1>3, <1>4, <1>5 DEF Contract!Serve

\* resolveDrainIfIdle sets a waiting close() going; it is no other's drain that ends.
LEMMA ResolveKeepsDraining ==
  ASSUME IInv, NEW a \in Nat, ResolveDrainIfIdle(a), NEW k \in Closers
  PROVE  IsDraining(k)' <=> IsDraining(k)
BY DEF ResolveDrainIfIdle, IsDraining, IInv, TypeOK

LEMMA HandlerStep == ASSUME IInv, IInv', Lives, NEW h \in Handlers, Handle(h) PROVE Contract!Serve
<1>1. activeRequests \in Nat /\ (handler[h] \in Counted => ActiveAfter(activeRequests) \in Nat)
  <2>1. CountedHandlers \in SUBSET Handlers /\ (handler[h] \in Counted => h \in CountedHandlers)
    BY DEF CountedHandlers
  <2>2. activeRequests = Cardinality(CountedHandlers) BY CountsInv DEF IInv
  <2>3. CountedHandlers # {} => activeRequests # 0
    BY <2>1, <2>2, FS_EmptySet, FS_Subset, HandlersAssumption
  <2>4. QED BY <2>1, <2>3 DEF ActiveAfter, IInv, TypeOK
<1>2. ASSUME NEW c \in Conns, NEW n \in 1 .. MaxMessages, Data(h, c, n) PROVE Contract!Serve
  <2>1. \A g \in Handlers \ {h} : handler'[g] = handler[g] /\ left'[g] = left[g]
    BY <1>2 DEF Data, IInv, TypeOK
  <2>2. state = "draining" => handler'[h] \notin Counted BY <1>2 DEF Data, Refuses, IInv, TypeOK
  <2>3. conn' = conn /\ UNCHANGED <<server, timedOut>> BY <1>2 DEF Data
  <2>4. \A k \in Closers : IsDraining(k)' <=> IsDraining(k) BY <1>2 DEF Data, IsDraining
  <2>5. QED BY <2>1, <2>2, <2>3, <2>4, ServeStep
<1>3. CASE InvokeDone(h) \/ WriteDone(h)
  <2>1. \A g \in Handlers \ {h} : handler'[g] = handler[g] /\ left'[g] = left[g]
    BY <1>3 DEF InvokeDone, WriteDone, IInv, TypeOK
  <2>2. handler'[h] \in Counted => handler[h] \in Counted /\ left'[h] = left[h]
    BY <1>3 DEF InvokeDone, WriteDone, IInv, TypeOK
  <2>3. conn' = conn /\ UNCHANGED <<server, timedOut>> BY <1>3 DEF InvokeDone, WriteDone
  <2>4. \A k \in Closers : IsDraining(k)' <=> IsDraining(k)
    BY <1>3 DEF InvokeDone, WriteDone, IsDraining
  <2>5. QED BY <2>1, <2>2, <2>3, <2>4, ServeStep
<1>4. CASE EncodeFails(h) \/ WriteFails(h)
  <2>1. Abort(h) /\ serves[h] \in Conns
    BY <1>4 DEF EncodeFails, WriteFails, IInv, HandlersServe
  <2>2. \A g \in Handlers \ {h} : handler'[g] = handler[g] /\ left'[g] = left[g]
    BY <2>1 DEF Abort, IInv, TypeOK
  <2>3. handler'[h] \notin Counted BY <2>1 DEF Abort, IInv, TypeOK
  <2>4. UNCHANGED <<server, timedOut>> BY <2>1 DEF Abort
  <2>5. conn' = conn \/ conn' = [conn EXCEPT ![serves[h]] = "destroyed"]
    <3>1. conn' = [conn EXCEPT ![serves[h]] =
                     IF conn[serves[h]] \in Connected THEN "destroyed" ELSE conn[serves[h]]]
      BY <2>1 DEF Abort
    <3>2. [conn EXCEPT ![serves[h]] = conn[serves[h]]] = conn BY DEF IInv, TypeOK
    <3>3. QED BY <3>1, <3>2
  <2>6. \A k \in Closers : IsDraining(k)' <=> IsDraining(k)
    <3>1. CASE IsCounted(h)
      BY <2>1, <3>1, <1>1, ResolveKeepsDraining DEF Abort, IsCounted
    <3>2. CASE ~IsCounted(h) BY <2>1, <3>2 DEF Abort, IsDraining
    <3>3. QED BY <3>1, <3>2
  <2>7. QED BY <2>1, <2>2, <2>3, <2>4, <2>5, <2>6, ServeStep
<1>5. CASE Continue(h)
  <2>1. \A g \in Handlers \ {h} : handler'[g] = handler[g] /\ left'[g] = left[g]
    BY <1>5 DEF Continue, StartMessage, IInv, TypeOK
  <2>2. state = "draining" => handler'[h] \notin Counted
    BY <1>5 DEF Continue, StartMessage, Refuses, IInv, TypeOK
  <2>3. conn' = conn /\ UNCHANGED <<server, timedOut>> BY <1>5 DEF Continue
  <2>4. \A k \in Closers : IsDraining(k)' <=> IsDraining(k)
    <3>1. CASE handler[h] = "answered"
      BY <1>5, <3>1, <1>1, ResolveKeepsDraining DEF Continue
    <3>2. CASE handler[h] = "refused" BY <1>5, <3>2 DEF Continue, IsDraining
    <3>3. QED BY <1>5, <3>1, <3>2 DEF Continue
  <2>5. QED BY <2>1, <2>2, <2>3, <2>4, ServeStep
<1>6. QED BY <1>2, <1>3, <1>4, <1>5 DEF Handle

LEMMA SocketStep ==
  ASSUME IInv, Lives, NEW c \in Conns, SocketEvent(c)
  PROVE  [Contract!Next]_Contract!vars
<1>1. /\ PhaseOfServer' = PhaseOfServer /\ DrainIsLate' = DrainIsLate /\ ActiveSet' = ActiveSet
      /\ PhaseOfServer # "crashed"
  BY DEF Lives, SocketEvent, Accept, Destroy, PeerEnds, EndFlushed, CloseEvent, PhaseOfServer,
     DrainIsLate, IsDraining, ActiveSet
<1>2. CASE Accept(c)
  <2>1. server # 0 BY <1>2 DEF Accept, IInv, Listeners
  <2>2. PhaseOfServer = "up" BY <2>1 DEF Lives, PhaseOfServer, IsDraining, IInv, OneCloser
  <2>3. OpenSockets' = OpenSockets \cup {c} BY <1>2 DEF Accept, OpenSockets, IInv, TypeOK
  <2>4. QED BY <1>1, <2>2, <2>3 DEF Contract!Next, Contract!Accept
<1>3. CASE Destroy(c) \/ EndFlushed(c)
  <2>1. OpenSockets' = OpenSockets \ {c}
    BY <1>3 DEF Destroy, EndFlushed, OpenSockets, IInv, TypeOK
  <2>2. QED BY <1>1, <2>1 DEF Contract!Next, Contract!Lose
<1>4. CASE PeerEnds(c) \/ CloseEvent(c)
  <2>1. OpenSockets' = OpenSockets BY <1>4 DEF PeerEnds, CloseEvent, OpenSockets, IInv, TypeOK
  <2>2. QED BY <1>1, <2>1 DEF Contract!vars
<1>5. QED BY <1>2, <1>3, <1>4 DEF SocketEvent

\* closeConnections leaves no socket open.
LEMMA AllEnded == ASSUME IInv, conn' = AfterCloseConnections PROVE OpenSockets' = {}
BY DEF AfterCloseConnections, OpenSockets, IInv, Listeners

LEMMA CloserStep ==
  ASSUME IInv, IInv', Lives, NEW k \in Closers, CloseStep(k)
  PROVE  [Contract!Next]_Contract!vars
<1>1. ActiveSet' = ActiveSet /\ (PhaseOfServer = "crashed" <=> crashed)
  BY DEF CloseStep, Close, DrainTimer, Drained, CloseEnds, ActiveSet, PhaseOfServer
<1>2. CASE Close(k) /\ server = 0
  <2>1. \A j \in Closers : IsDraining(j)' <=> IsDraining(j)
    BY <1>2 DEF Close, IsDraining, IInv, TypeOK
  <2>2. UNCHANGED <<server, conn, timedOut>> BY <1>2 DEF Close
  <2>3. QED
    BY <1>1, <2>1, <2>2 DEF Lives, Contract!vars, PhaseOfServer, DrainIsLate, OpenSockets, IInv, TypeOK
<1>3. CASE Close(k) /\ server # 0
  <2>1. /\ \A j \in Closers : ~IsDraining(j) /\ (j # k => ~IsDraining(j)')
        /\ k \notin timedOut /\ timedOut' = timedOut /\ server' = 0
    BY <1>3 DEF Close, IsDraining, IInv, TypeOK, OneCloser, DrainRefuses
  <2>2. PhaseOfServer = "up" BY <1>3, <2>1 DEF Lives, PhaseOfServer
  <2>3. DrainIsLate = FALSE /\ DrainIsLate' = FALSE BY <2>1 DEF DrainIsLate, IInv, TypeOK
  <2>4. CASE graceful'[k]
    <3>1. IsDraining(k)' /\ conn' = conn BY <1>3, <2>4 DEF Close, IsDraining, IInv, TypeOK
    <3>2. PhaseOfServer' = "draining" BY <3>1 DEF Lives, PhaseOfServer
    <3>3. QED BY <1>1, <2>2, <2>3, <3>1, <3>2 DEF Lives, Contract!Next, Contract!Drain, OpenSockets
  <2>5. CASE ~graceful'[k]
    <3>1. ~IsDraining(k)' /\ conn' = AfterCloseConnections
      BY <1>3, <2>5 DEF Close, IsDraining, IInv, TypeOK
    <3>2. PhaseOfServer' = "down" BY <2>1, <3>1 DEF Lives, PhaseOfServer
    <3>3. QED BY <1>1, <2>2, <2>3, <3>1, <3>2, AllEnded DEF Lives, Contract!Next, Contract!Stop
  <2>6. QED BY <2>4, <2>5
<1>4. CASE DrainTimer(k)
  <2>1. IsDraining(k) /\ IsDraining(k)' /\ k \in timedOut' BY <1>4 DEF DrainTimer, IsDraining, IInv, TypeOK
  <2>2. PhaseOfServer = "draining" /\ PhaseOfServer' = "draining" /\ DrainIsLate' = TRUE
    BY <2>1 DEF Lives, PhaseOfServer, DrainIsLate
  <2>3. OpenSockets' = OpenSockets BY <1>4 DEF DrainTimer, OpenSockets
  <2>4. QED BY <1>1, <2>2, <2>3 DEF Lives, Contract!Next, Contract!DrainTimer
<1>5. CASE Drained(k)
  <2>1. /\ IsDraining(k) /\ \A j \in Closers : ~IsDraining(j)'
        /\ timedOut' = timedOut /\ server' = 0 /\ conn' = AfterCloseConnections
    BY <1>5 DEF Drained, IsDraining, IInv, TypeOK, OneCloser
  <2>2. PhaseOfServer = "draining" /\ PhaseOfServer' = "down" BY <2>1 DEF Lives, PhaseOfServer
  <2>3. DrainIsLate' = FALSE BY <2>1 DEF DrainIsLate, IInv, TypeOK
  <2>4. ActiveSet = {} \/ DrainIsLate
    <3>1. CASE k \in timedOut BY <2>1, <3>1 DEF DrainIsLate
    <3>2. CASE k \notin timedOut
      <4>1. activeRequests = 0 BY <1>5, <3>2 DEF Drained, IInv, DrainRefuses
      <4>2. CountedHandlers \in SUBSET Handlers /\ activeRequests = Cardinality(CountedHandlers)
        BY CountsInv DEF CountedHandlers, IInv
      <4>3. CountedHandlers = {} BY <4>1, <4>2, FS_EmptySet, FS_Subset, HandlersAssumption
      <4>4. QED BY <4>3 DEF ActiveSet, CountedHandlers
    <3>3. QED BY <3>1, <3>2
  <2>5. OpenSockets' = {} BY <2>1, AllEnded
  <2>6. QED BY <1>1, <2>2, <2>3, <2>4, <2>5 DEF Lives, Contract!Next, Contract!Stop
<1>6. CASE CloseEnds(k)
  <2>1. /\ \A j \in Closers : IsDraining(j)' <=> IsDraining(j)
        /\ UNCHANGED <<server, conn, timedOut>>
    BY <1>6 DEF CloseEnds, IsDraining, IInv, TypeOK
  <2>2. QED BY <1>1, <2>1 DEF Lives, Contract!vars, PhaseOfServer, DrainIsLate, OpenSockets, IInv, TypeOK
<1>7. QED BY <1>2, <1>3, <1>4, <1>5, <1>6 DEF CloseStep

LEMMA CrashStep == ASSUME ~crashed, Crash PROVE Contract!Next
<1>1. PhaseOfServer # "crashed" /\ PhaseOfServer' = "crashed" BY DEF Crash, PhaseOfServer
<1>2. OpenSockets' = {} /\ ActiveSet' = {} /\ DrainIsLate' = FALSE
  BY DEF Crash, OpenSockets, ActiveSet, DrainIsLate
<1>3. QED BY <1>1, <1>2 DEF Contract!Next, Contract!Crash

\* What the server has promised is about its listener, sockets, handlers and close() calls.
LEMMA SameContract ==
  ASSUME UNCHANGED <<server, connVars, handlerVars, closerVars, crashed>>
  PROVE  UNCHANGED Contract!vars
BY DEF Contract!vars, PhaseOfServer, DrainIsLate, IsDraining, OpenSockets, ActiveSet

LEMMA ListenStep == ASSUME IInv, Lives, Listen PROVE [Contract!Next]_Contract!vars
<1>1. \A k \in Closers : ~IsDraining(k) /\ ~IsDraining(k)' BY DEF Listen, IsDraining
<1>2. server' # 0 /\ PhaseOfServer' = "up" BY <1>1 DEF Lives, Listen, PhaseOfServer
<1>3. UNCHANGED <<OpenSockets, ActiveSet>> BY DEF Listen, OpenSockets, ActiveSet
<1>4. DrainIsLate = FALSE /\ DrainIsLate' = FALSE
  <2>1. timedOut \subseteq Closers /\ timedOut' = timedOut BY DEF Listen, IInv, TypeOK
  <2>2. QED BY <1>1, <2>1 DEF DrainIsLate
<1>5. CASE server = 0
  <2>1. PhaseOfServer = "down" BY <1>1, <1>5 DEF Lives, PhaseOfServer
  <2>2. QED BY <1>2, <1>3, <1>4, <2>1 DEF Contract!Next, Contract!Start
<1>6. CASE server # 0
  <2>1. PhaseOfServer = "up" BY <1>1, <1>6 DEF Lives, PhaseOfServer
  <2>2. QED BY <1>2, <1>3, <1>4, <2>1 DEF Contract!vars
<1>7. QED BY <1>5, <1>6

\* Only the last of the actions ends the process.
LEMMA StepLives ==
  /\ Listen => crashed' = crashed
  /\ \A c \in Conns : SocketEvent(c) => crashed' = crashed
  /\ \A h \in Handlers : Handle(h) => crashed' = crashed
  /\ \A k \in Closers : CloseStep(k) => crashed' = crashed
<1>1. Listen => crashed' = crashed BY DEF Listen
<1>2. ASSUME NEW c \in Conns, SocketEvent(c) PROVE crashed' = crashed
  BY <1>2 DEF SocketEvent, Accept, Destroy, PeerEnds, EndFlushed, CloseEvent
<1>3. ASSUME NEW h \in Handlers, Handle(h) PROVE crashed' = crashed
  BY <1>3, Zenon DEF Handle, Data, InvokeDone, EncodeFails, WriteDone, WriteFails, Abort, Continue
<1>4. ASSUME NEW k \in Closers, CloseStep(k) PROVE crashed' = crashed
  BY <1>4, Zenon DEF CloseStep, Close, DrainTimer, Drained, CloseEnds
<1>5. QED BY <1>1, <1>2, <1>3, <1>4

LEMMA ContractStep == IInv /\ IInv' /\ [Next]_vars => [Contract!Next]_Contract!vars
<1> SUFFICES ASSUME IInv, IInv', [Next]_vars PROVE [Contract!Next]_Contract!vars OBVIOUS
<1>1. CASE UNCHANGED vars BY <1>1, SameContract DEF vars
<1>2. CASE ~crashed /\ ProcessEnds
  BY <1>2, CrashStep DEF ProcessEnds, PeerResets, WritesAfterEnd, WarnThrows
<1>3. ASSUME NEW n \in 1 .. MaxListens, ListenerClosed(n) PROVE UNCHANGED Contract!vars
  BY <1>3, SameContract DEF ListenerClosed
<1>4. ASSUME ~crashed, Listen PROVE [Contract!Next]_Contract!vars
  BY <1>4, StepLives, ListenStep DEF Lives
<1>5. ASSUME ~crashed, NEW c \in Conns, SocketEvent(c) PROVE [Contract!Next]_Contract!vars
  BY <1>5, StepLives, SocketStep DEF Lives
<1>6. ASSUME ~crashed, NEW h \in Handlers, Handle(h) PROVE Contract!Next
  <2>1. Lives BY <1>6, StepLives DEF Lives
  <2>2. Contract!Serve BY <1>6, <2>1, HandlerStep
  <2>3. PhaseOfServer # "crashed" BY <2>1 DEF Lives, PhaseOfServer
  <2>4. QED BY <2>2, <2>3 DEF Contract!Next
<1>7. ASSUME ~crashed, NEW k \in Closers, CloseStep(k) PROVE [Contract!Next]_Contract!vars
  BY <1>7, StepLives, CloserStep DEF Lives
<1>8. QED BY <1>1, <1>2, <1>3, <1>4, <1>5, <1>6, <1>7 DEF Next

\* RpcServer implements ServerContract: a graceful close() lets the requests in progress
\* finish on sockets left alone and begins none meanwhile, and every way down ends all
\* sockets in one step, through any number of restarts.
THEOREM ContractImplemented == Spec => ImplementsContract
<1>1. Init => Contract!Init
  BY DEF Init, Contract!Init, PhaseOfServer, IsDraining, OpenSockets, ActiveSet, DrainIsLate
<1>2. Spec => Contract!Spec
  BY <1>1, ContractStep, Invariance, PTL DEF Spec, Contract!Spec
<1>3. QED BY <1>2 DEF ImplementsContract

=============================================================================
