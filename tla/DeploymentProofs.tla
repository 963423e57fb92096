--------------------------- MODULE DeploymentProofs ---------------------------
(***************************************************************************)
(* What holds of a service whose servers are restarted, for any number of  *)
(* calls, endpoints, connections and restarts.                             *)
(***************************************************************************)
EXTENDS Deployment, FailoverProofs

USE CallsAssumption, NoConnAssumption DEF Stages

ServerTypes ==
  /\ phase \in [Endpoints -> {"up", "draining", "stopped"}]
  /\ open \subseteq Conns
  /\ running \subseteq Calls \X (1 .. MaxAttempts) \X (Conns \cup {NoConn})
  /\ drains \in 0 .. MaxDrains
  /\ disturbed \in [Calls -> SUBSET Endpoints]
  /\ excused \in [Calls -> Nat]

-----------------------------------------------------------------------------
(* The one request of a call that may still be answered.                   *)

Mine(c) == <<c, attempt[c], via[c]>>
Answered(c, a) == <<c, attempt[c], via[c], a>> \in answers

\* A request or an answer on its way, except what is left of a socket that is gone, belongs
\* to the attempt its call awaits; a method that runs for it can still answer.
OfCurrentAttempt ==
  /\ \A r \in requests : r[3] # NoConn => stage[r[1]] = "sent" /\ r = Mine(r[1])
  /\ \A r \in running : r[3] # NoConn => stage[r[1]] = "sent" /\ r = Mine(r[1]) /\ r[3] \in open
  /\ \A m \in answers : stage[m[1]] = "sent" /\ <<m[1], m[2], m[3]>> = Mine(m[1])

\* It is in one place at most, and has one answer.
InOnePlace ==
  \A c \in Calls :
    stage[c] = "sent" =>
      /\ Mine(c) \in requests => Mine(c) \notin running /\ \A a : ~Answered(c, a)
      /\ Mine(c) \in running => \A a : ~Answered(c, a)
      /\ \A a, b : Answered(c, a) /\ Answered(c, b) => a = b

\* A call in progress has a connection, and one that has written a request has it open as
\* far as the client knows.
SentOnConnected ==
  /\ link \in [Conns -> {"idle", "connecting", "connected", "reconnecting"}]
  /\ \A c \in Calls :
       /\ stage[c] = "connecting" => via[c] \in Conns
       /\ stage[c] = "sent" => via[c] \in Conns /\ link[via[c]] = "connected"

\* The run of an attempt whose answer is still to come, or was the last.
IsDue(c) ==
  \/ stage[c] \in {"fulfilled", "failed"}
  \/ stage[c] = "sent" /\ (Mine(c) \in running \/ Answered(c, "ok") \/ Answered(c, "fatal"))
Due(c) == IF IsDue(c) THEN 1 ELSE 0

InProgress(c) == IF stage[c] = "sent" /\ Mine(c) \in running THEN 1 ELSE 0

\* A method has run for attempts that are excused, and for the last.
RunsExcused ==
  \A c \in Calls : runs[c] <= excused[c] + Due(c) /\ excused[c] + InProgress(c) <= runs[c]

FlightInv == OfCurrentAttempt /\ InOnePlace /\ SentOnConnected /\ RunsExcused

IInv == RoundInv /\ ServerTypes /\ FlightInv

LEMMA Facts ==
  ASSUME RoundInv, ServerTypes
  PROVE  /\ \A r \in requests : r = <<r[1], r[2], r[3]>> /\ r[1] \in Calls
                                /\ r[2] \in 1 .. MaxAttempts /\ r[3] \in Conns \cup {NoConn}
         /\ \A r \in running : r = <<r[1], r[2], r[3]>> /\ r[1] \in Calls
                               /\ r[2] \in 1 .. MaxAttempts /\ r[3] \in Conns \cup {NoConn}
         /\ \A m \in answers : m = <<m[1], m[2], m[3], m[4]>> /\ m[1] \in Calls
                               /\ m[2] \in 1 .. MaxAttempts /\ m[3] \in Conns
                               /\ m[4] \in {"ok", "draining", "retryable", "fatal"}
         /\ stage \in [Calls -> Stages] /\ attempt \in [Calls -> Nat]
         /\ via \in [Calls -> Conns \cup {NoConn}]
         /\ runs \in [Calls -> Nat] /\ excused \in [Calls -> Nat]
<1>1. requests \subseteq Calls \X (1 .. MaxAttempts) \X (Conns \cup {NoConn})
  BY Zenon DEF RoundInv, TypeInv, WireTypes
<1>2. running \subseteq Calls \X (1 .. MaxAttempts) \X (Conns \cup {NoConn})
  BY Zenon DEF ServerTypes
<1>3. answers \subseteq Calls \X (1 .. MaxAttempts) \X Conns \X Answers
  BY Zenon DEF RoundInv, TypeInv, WireTypes
<1>4. stage \in [Calls -> Stages] /\ attempt \in [Calls -> Nat] /\ runs \in [Calls -> Nat]
  BY DEF RoundInv, TypeInv, CoverInv, Shapes
<1>5. via \in [Calls -> Conns \cup {NoConn}] BY DEF RoundInv, TypeInv, WireTypes
<1>6. excused \in [Calls -> Nat] BY DEF ServerTypes
<1>7. \A r \in requests : r = <<r[1], r[2], r[3]>> /\ r[1] \in Calls
                          /\ r[2] \in 1 .. MaxAttempts /\ r[3] \in Conns \cup {NoConn}
  BY <1>1
<1>8. \A r \in running : r = <<r[1], r[2], r[3]>> /\ r[1] \in Calls
                         /\ r[2] \in 1 .. MaxAttempts /\ r[3] \in Conns \cup {NoConn}
  BY <1>2
<1>9. \A m \in answers : m = <<m[1], m[2], m[3], m[4]>> /\ m[1] \in Calls
                         /\ m[2] \in 1 .. MaxAttempts /\ m[3] \in Conns /\ m[4] \in Answers
  BY <1>3
<1>10. Answers = {"ok", "draining", "retryable", "fatal"}
  BY EveryAnswerAssumption DEF Errors
<1>11. QED BY <1>4, <1>5, <1>6, <1>7, <1>8, <1>9, <1>10

-----------------------------------------------------------------------------
(* The client's part of the state.                                         *)

\* The servers take requests and give or lose answers.
LEMMA ServersRound ==
  ASSUME RoundInv, Moves, UNCHANGED <<poolVars, link, callVars>>, requests' \subseteq requests,
         answers' \subseteq Calls \X (1 .. MaxAttempts) \X Conns \X Answers
  PROVE  RoundInv'
<1>1. CoverInv' BY CoverMoves DEF RoundInv, TypeInv
<1>2. WireTypes' BY DEF RoundInv, TypeInv, WireTypes, poolVars, callVars, Order, MaxAttempts
<1>3. SelectedInTurn' BY SameTurn DEF RoundInv, poolVars, callVars
<1>4. GivesUpLate' BY NoneGivesUp DEF RoundInv, TypeInv, CoverInv, callVars
<1>5. QED BY <1>1, <1>2, <1>3, <1>4 DEF RoundInv, TypeInv

\* Answers are given or lost, but no refusals given.
LEMMA AnswersMove ==
  ASSUME Shapes, UNCHANGED <<requests, stage, attempt, runs, unknown>>,
         NEW S, IsFiniteSet(S), answers' \subseteq answers \cup S,
         \A m \in S : /\ m = <<m[1], m[2], m[3], m[4]>> /\ m[1] \in Calls
                      /\ m[4] \in ({"ok"} \cup Errors) \ {"draining"}
  PROVE  Moves
<1>1. IsFiniteSet(answers')
  <2>1. IsFiniteSet(answers \cup S) BY FS_Union DEF Shapes
  <2>2. QED BY <2>1, FS_Subset
<1>2. Shapes' BY <1>1 DEF Shapes
<1>3. ASSUME NEW c \in Calls PROVE Load(c)' <= Load(c)
  <2>1. RequestsOf(c)' = RequestsOf(c) /\ RefusalsOf(c)' \subseteq RefusalsOf(c)
    BY DEF RequestsOf, RefusalsOf
  <2>2. QED BY <2>1, NotMore
<1>4. \A c \in Calls : GoesOn(c) BY <1>3 DEF GoesOn
<1>5. QED BY <1>2, <1>4 DEF Moves

LEMMA RefuseRound ==
  ASSUME RoundInv, ServerTypes, NEW r \in requests, Refuse(r[1], r[2], r[3])
  PROVE  RoundInv'
<1> DEFINE m == <<r[1], r[2], r[3], "draining">>
<1>1. r = <<r[1], r[2], r[3]>> /\ r \in Calls \X (1 .. MaxAttempts) \X Conns
  BY Facts DEF Refuse, Unread, ServerTypes
<1>2. /\ requests' = requests \ {r} /\ answers' = answers \cup {m}
      /\ UNCHANGED <<poolVars, link, callVars, runs, unknown>>
  BY <1>1 DEF Refuse
<1>3. Moves
  <2>1. "draining" \in {"ok"} \cup Errors BY DEF Errors
  <2>2. runs' = [runs EXCEPT ![r[1]] = IF "draining" = "draining" THEN @ ELSE @ + 1]
    BY <1>2 DEF RoundInv, TypeInv, CoverInv, Shapes
  <2>3. QED BY <1>2, <2>1, <2>2, TakeMoves DEF RoundInv, TypeInv, CoverInv, callVars
<1>4. m \in Calls \X (1 .. MaxAttempts) \X Conns \X Answers
  BY <1>1, EveryAnswerAssumption DEF Errors
<1>5. answers' \subseteq Calls \X (1 .. MaxAttempts) \X Conns \X Answers
  BY <1>2, <1>4 DEF RoundInv, TypeInv, WireTypes
<1>6. QED BY <1>2, <1>3, <1>5, ServersRound

LEMMA BeginRound ==
  ASSUME RoundInv, ServerTypes, NEW r \in requests, Begin(r[1], r[2], r[3])
  PROVE  RoundInv'
<1>1. r = <<r[1], r[2], r[3]>> BY Facts
<1>2. /\ requests' = requests \ {r} /\ runs' = [runs EXCEPT ![r[1]] = @ + 1]
      /\ UNCHANGED <<poolVars, link, callVars, answers, unknown>>
  BY <1>1 DEF Begin
<1>3. Moves
  <2>1. runs' = [runs EXCEPT ![r[1]] = IF "ok" = "draining" THEN @ ELSE @ + 1] BY <1>2
  <2>2. QED BY <1>2, <2>1, TakeMoves DEF RoundInv, TypeInv, CoverInv, callVars
<1>4. QED BY <1>2, <1>3, ServersRound DEF RoundInv, TypeInv, WireTypes

LEMMA FinishRound ==
  ASSUME RoundInv, ServerTypes, NEW r \in running, NEW o \in Outcomes,
         Finish(r[1], r[2], r[3], o)
  PROVE  RoundInv'
<1> DEFINE m == <<r[1], r[2], r[3], Response(o)>>
<1>1. r[1] \in Calls /\ r[2] \in 1 .. MaxAttempts BY Facts
<1>2. Response(o) \in {"ok", "fatal", "retryable"} BY DEF Response, Outcomes
<1>3. /\ answers' = IF r[3] \in open THEN answers \cup {m} ELSE answers
      /\ UNCHANGED <<poolVars, link, callVars, requests, runs, unknown>>
  BY DEF Finish
<1>4. Response(o) \in {"ok"} \cup Errors BY <1>2 DEF Errors
<1>5. Moves
  <2>1. IsFiniteSet({m}) /\ answers' \subseteq answers \cup {m} BY <1>3, FS_Singleton
  <2>2. m = <<m[1], m[2], m[3], m[4]>> /\ m[1] \in Calls /\ m[4] \in ({"ok"} \cup Errors) \ {"draining"}
    BY <1>1, <1>2, <1>4
  <2> HIDE DEF m
  <2>3. QED BY <1>3, <2>1, <2>2, AnswersMove DEF RoundInv, TypeInv, CoverInv, callVars
<1>6. r[3] \in open => m \in Calls \X (1 .. MaxAttempts) \X Conns \X Answers
  BY <1>1, <1>4, EveryAnswerAssumption DEF ServerTypes
<1>7. answers' \subseteq Calls \X (1 .. MaxAttempts) \X Conns \X Answers
  BY <1>3, <1>6 DEF RoundInv, TypeInv, WireTypes
<1>8. QED BY <1>3, <1>5, <1>7, ServersRound

LEMMA EndRound ==
  ASSUME RoundInv, NEW K, EndSockets(K, RunningOn(K))
  PROVE  RoundInv'
<1>1. answers' \subseteq answers /\ UNCHANGED <<poolVars, link, callVars, requests, runs, unknown>>
  BY DEF EndSockets
<1>2. Moves
  <2>1. IsFiniteSet({}) /\ answers' \subseteq answers \cup {} BY <1>1, FS_EmptySet
  <2>2. QED BY <1>1, <2>1, AnswersMove DEF RoundInv, TypeInv, CoverInv, callVars
<1>3. QED BY <1>1, <1>2, ServersRound DEF RoundInv, TypeInv, WireTypes

\* Every step of the client is one of Failover.
LEMMA ClientSteps ==
  ASSUME NEW c \in Calls, NEW k \in Conns, NEW m \in answers,
         \/ ClientStarts(c) \/ ClientRetries(c) \/ ClientHears(m[1], m[2], m[3], m[4])
         \/ Connects(k) \/ ConnectionRefused(k) \/ Redials(k) \/ ConnectionEnds(k)
  PROVE  Next
BY DEF Next, Call, Link, ClientStarts, ClientRetries, ClientHears, Connects, ConnectionRefused,
   Redials, ConnectionEnds

-----------------------------------------------------------------------------
(* The servers.                                                            *)

\* Unfolding what the count of runs says of one call.
LEMMA CountOf ==
  ASSUME IInv, NEW c \in Calls
  PROVE  /\ runs[c] \in Nat /\ excused[c] \in Nat /\ Due(c) \in {0, 1} /\ InProgress(c) \in {0, 1}
         /\ runs[c] <= excused[c] + Due(c) /\ excused[c] + InProgress(c) <= runs[c]
BY Facts DEF IInv, FlightInv, RunsExcused, Due, InProgress

\* A call whose tokens are where they were.
LEMMA SameCount ==
  ASSUME IInv, NEW c \in Calls, IsDue(c)' <=> IsDue(c),
         stage'[c] = "sent" /\ Mine(c)' \in running' => stage[c] = "sent" /\ Mine(c) \in running,
         runs'[c] = runs[c], excused'[c] = excused[c]
  PROVE  runs'[c] <= excused'[c] + Due(c)' /\ excused'[c] + InProgress(c)' <= runs'[c]
<1>1. Due(c)' = Due(c) /\ InProgress(c)' <= InProgress(c) /\ InProgress(c)' \in {0, 1}
  BY DEF Due, InProgress
<1>2. QED BY <1>1, CountOf

LEMMA RefuseFlight ==
  ASSUME IInv, NEW r \in requests, Refuse(r[1], r[2], r[3])
  PROVE  FlightInv'
<1> DEFINE m == <<r[1], r[2], r[3], "draining">>
           c == r[1]
<1>1. /\ requests' = requests \ {r} /\ answers' = answers \cup {m}
      /\ UNCHANGED <<link, stage, attempt, via, runs, running, open, excused>>
      /\ r[3] \in Conns /\ r[3] # NoConn /\ c \in Calls /\ r = <<r[1], r[2], r[3]>>
  BY Facts DEF Refuse, Unread, serverVars, callVars, IInv, ServerTypes
<1>2. stage[c] = "sent" /\ r = Mine(c) BY <1>1 DEF IInv, FlightInv, OfCurrentAttempt
<1>3. \A d : Mine(d)' = Mine(d) BY <1>1 DEF Mine
<1>4. OfCurrentAttempt'
  BY <1>1, <1>2, <1>3 DEF IInv, FlightInv, OfCurrentAttempt
<1>5. Mine(c) \notin running /\ \A a : ~Answered(c, a)
  BY <1>1, <1>2 DEF IInv, FlightInv, InOnePlace
<1>6. \A d \in Calls : \A a : Answered(d, a)' <=> Answered(d, a) \/ (d = c /\ a = "draining")
  BY <1>1, <1>2 DEF Answered, Mine
<1>7. InOnePlace'
  BY <1>1, <1>2, <1>3, <1>5, <1>6 DEF IInv, FlightInv, InOnePlace
<1>8. SentOnConnected' BY <1>1 DEF IInv, FlightInv, SentOnConnected
<1>9. RunsExcused'
  <2>1. ASSUME NEW d \in Calls PROVE IsDue(d)' <=> IsDue(d) BY <1>1, <1>3, <1>6 DEF IsDue
  <2>2. QED BY <1>1, <1>3, <2>1, SameCount DEF RunsExcused
<1>10. QED BY <1>4, <1>7, <1>8, <1>9 DEF FlightInv

LEMMA BeginFlight ==
  ASSUME IInv, NEW r \in requests, Begin(r[1], r[2], r[3])
  PROVE  FlightInv'
<1> DEFINE c == r[1]
<1>1. /\ requests' = requests \ {r} /\ running' = running \cup {r}
      /\ runs' = [runs EXCEPT ![c] = @ + 1]
      /\ UNCHANGED <<link, stage, attempt, via, answers, open, excused>>
      /\ r[3] \in open /\ r[3] # NoConn /\ c \in Calls /\ r = <<r[1], r[2], r[3]>>
  BY Facts DEF Begin, Unread, callVars, IInv, ServerTypes
<1>2. stage[c] = "sent" /\ r = Mine(c) BY <1>1 DEF IInv, FlightInv, OfCurrentAttempt
<1>3. \A d : Mine(d)' = Mine(d) BY <1>1 DEF Mine
<1>4. OfCurrentAttempt' BY <1>1, <1>2, <1>3 DEF IInv, FlightInv, OfCurrentAttempt
<1>5. Mine(c) \notin running /\ \A a : ~Answered(c, a)
  BY <1>1, <1>2 DEF IInv, FlightInv, InOnePlace
<1>6. \A d \in Calls : \A a : Answered(d, a)' <=> Answered(d, a) BY <1>1 DEF Answered
<1>7. \A d \in Calls : Mine(d) \in running' <=> Mine(d) \in running \/ d = c
  BY <1>1, <1>2 DEF Mine
<1>8. InOnePlace'
  BY <1>1, <1>2, <1>3, <1>5, <1>6, <1>7 DEF IInv, FlightInv, InOnePlace
<1>9. SentOnConnected' BY <1>1 DEF IInv, FlightInv, SentOnConnected
<1>10. RunsExcused'
  <2>1. ASSUME NEW d \in Calls
        PROVE  runs'[d] <= excused'[d] + Due(d)' /\ excused'[d] + InProgress(d)' <= runs'[d]
    <3>1. CASE d = c
      <4>1. Due(d) = 0 /\ InProgress(d) = 0
        BY <1>2, <1>5, <3>1 DEF Due, IsDue, InProgress
      <4>2. Due(d)' = 1 /\ InProgress(d)' = 1
        BY <1>1, <1>2, <1>3, <1>7, <3>1 DEF Due, IsDue, InProgress
      <4>3. runs'[d] = runs[d] + 1 /\ excused'[d] = excused[d]
        BY <1>1, <3>1, Facts DEF IInv
      <4>4. QED BY <4>1, <4>2, <4>3, CountOf
    <3>2. CASE d # c
      <4>1. IsDue(d)' <=> IsDue(d) BY <1>1, <1>3, <1>6, <1>7, <3>2 DEF IsDue
      <4>2. runs'[d] = runs[d] /\ excused'[d] = excused[d] BY <1>1, <3>2, Facts DEF IInv
      <4>3. QED BY <1>1, <1>3, <1>7, <3>2, <4>1, <4>2, SameCount
    <3>3. QED BY <3>1, <3>2
  <2>2. QED BY <2>1 DEF RunsExcused
<1>11. QED BY <1>4, <1>8, <1>9, <1>10 DEF FlightInv

\* A method ends whose socket is gone, or whose answer its call awaits.
LEMMA FinishFlight ==
  ASSUME IInv, NEW r \in running, NEW o \in Outcomes, Finish(r[1], r[2], r[3], o)
  PROVE  FlightInv'
<1> DEFINE c == r[1]
           m == <<r[1], r[2], r[3], Response(o)>>
<1>1. /\ running' = running \ {r}
      /\ answers' = IF r[3] \in open THEN answers \cup {m} ELSE answers
      /\ excused' = [excused EXCEPT ![c] = IF r[3] \in open /\ IsExcuse(o) THEN @ + 1 ELSE @]
      /\ UNCHANGED <<link, stage, attempt, via, requests, runs, open>>
      /\ c \in Calls /\ r = <<r[1], r[2], r[3]>>
  BY Facts DEF Finish, callVars, IInv
<1>2. \A d : Mine(d)' = Mine(d) BY <1>1 DEF Mine
<1>3. SentOnConnected' BY <1>1 DEF IInv, FlightInv, SentOnConnected
<1>4. CASE r[3] = NoConn
  <2>1. answers' = answers /\ excused' = excused
    BY <1>1, <1>4, Facts DEF IInv, ServerTypes
  <2>2. \A d \in Calls : stage[d] = "sent" => Mine(d) # r
    BY <1>4 DEF Mine, IInv, FlightInv, SentOnConnected
  <2>3. OfCurrentAttempt'
    BY <1>1, <1>2, <2>1 DEF IInv, FlightInv, OfCurrentAttempt
  <2>4. \A d \in Calls : \A a : Answered(d, a)' <=> Answered(d, a) BY <1>1, <2>1 DEF Answered
  <2>5. InOnePlace' BY <1>1, <1>2, <2>4 DEF IInv, FlightInv, InOnePlace
  <2>6. ASSUME NEW d \in Calls PROVE IsDue(d)' <=> IsDue(d)
    BY <1>1, <1>2, <2>2, <2>4 DEF IsDue
  <2>7. RunsExcused' BY <1>1, <1>2, <2>1, <2>6, SameCount DEF RunsExcused
  <2>8. QED BY <1>3, <2>3, <2>5, <2>7 DEF FlightInv
<1>5. CASE r[3] # NoConn
  <2>1. stage[c] = "sent" /\ r = Mine(c) /\ r[3] \in open
    BY <1>5 DEF IInv, FlightInv, OfCurrentAttempt
  <2>2. Mine(c) \notin requests /\ \A a : ~Answered(c, a)
    BY <1>1, <2>1 DEF IInv, FlightInv, InOnePlace
  <2>3. OfCurrentAttempt'
    BY <1>1, <1>2, <2>1 DEF IInv, FlightInv, OfCurrentAttempt
  <2>4. \A d \in Calls : \A a : Answered(d, a)' <=> Answered(d, a) \/ (d = c /\ a = Response(o))
    BY <1>1, <2>1 DEF Answered, Mine
  <2>5. \A d \in Calls : Mine(d) \in running' <=> Mine(d) \in running /\ d # c
    BY <1>1, <2>1 DEF Mine
  <2>6. InOnePlace'
    BY <1>1, <1>2, <2>1, <2>2, <2>4, <2>5 DEF IInv, FlightInv, InOnePlace
  <2>7. ASSUME NEW d \in Calls
        PROVE  runs'[d] <= excused'[d] + Due(d)' /\ excused'[d] + InProgress(d)' <= runs'[d]
    <3>1. CASE d = c
      <4>1. Due(d) = 1 /\ InProgress(d) = 1 /\ InProgress(d)' = 0
        BY <1>1, <1>2, <2>1, <2>5, <3>1 DEF Due, IsDue, InProgress
      <4>2. CASE o = "RpcError"
        <5>1. excused'[d] = excused[d] + 1 /\ runs'[d] = runs[d]
          BY <1>1, <2>1, <3>1, <4>2, Facts DEF IInv, IsExcuse
        <5>2. Due(d)' \in {0, 1} BY DEF Due
        <5>3. QED BY <4>1, <5>1, <5>2, CountOf
      <4>3. CASE o # "RpcError"
        <5>1. excused'[d] = excused[d] /\ runs'[d] = runs[d]
          BY <1>1, <2>1, <3>1, <4>3, Facts DEF IInv, IsExcuse
        <5>2. Response(o) \in {"ok", "fatal"} BY <4>3 DEF Response, Outcomes
        <5>3. Due(d)' = 1 BY <1>1, <2>1, <2>4, <3>1, <5>2 DEF Due, IsDue
        <5>4. QED BY <4>1, <5>1, <5>3, CountOf
      <4>4. QED BY <4>2, <4>3
    <3>2. CASE d # c
      <4>1. IsDue(d)' <=> IsDue(d) BY <1>1, <1>2, <2>4, <2>5, <3>2 DEF IsDue
      <4>2. runs'[d] = runs[d] /\ excused'[d] = excused[d] BY <1>1, <3>2, Facts DEF IInv
      <4>3. QED BY <1>1, <1>2, <2>5, <3>2, <4>1, <4>2, SameCount
    <3>3. QED BY <3>1, <3>2
  <2>8. RunsExcused' BY <2>7 DEF RunsExcused
  <2>9. QED BY <1>3, <2>3, <2>6, <2>8 DEF FlightInv
<1>6. QED BY <1>4, <1>5

\* Sockets are destroyed: a method that runs is cut off and excused.
LEMMA EndFlight ==
  ASSUME IInv, NEW K \in SUBSET Conns, EndSockets(K, RunningOn(K))
  PROVE  FlightInv'
<1> DEFINE cutOff == RunningOn(K)
           CutOff(c) == {r \in cutOff : r[1] = c}
<1>1. /\ open' = open \ K
      /\ running' = (running \ cutOff) \cup {<<r[1], r[2], NoConn>> : r \in cutOff}
      /\ excused' = [c \in Calls |-> excused[c] + Cardinality(CutOff(c))]
      /\ answers' \subseteq answers /\ \A m \in answers : m[4] # "draining" => m \in answers'
      /\ UNCHANGED <<link, stage, attempt, via, requests, runs>>
  BY DEF EndSockets, callVars
<1>2. \A r \in cutOff : /\ r \in running /\ r[1] \in Calls /\ r[3] \in K /\ r[3] # NoConn
                        /\ stage[r[1]] = "sent" /\ r = Mine(r[1])
  BY Facts DEF RunningOn, IInv, FlightInv, OfCurrentAttempt
<1>3. \A d : Mine(d)' = Mine(d) BY <1>1 DEF Mine
<1>4. \A r \in running' : r[3] # NoConn => r \in running /\ r[3] \notin K
  BY <1>1 DEF RunningOn
<1>5. \A d \in Calls : stage[d] = "sent" => (Mine(d) \in running' <=> Mine(d) \in running \ cutOff)
  BY <1>1 DEF Mine, IInv, FlightInv, SentOnConnected
<1>6. OfCurrentAttempt'
  BY <1>1, <1>3, <1>4 DEF IInv, FlightInv, OfCurrentAttempt
<1>7. \A d \in Calls : \A a :
         /\ Answered(d, a)' => Answered(d, a)
         /\ a # "draining" => (Answered(d, a)' <=> Answered(d, a))
  BY <1>1 DEF Answered
<1>8. InOnePlace' BY <1>1, <1>3, <1>5, <1>7 DEF IInv, FlightInv, InOnePlace
<1>9. SentOnConnected' BY <1>1 DEF IInv, FlightInv, SentOnConnected
<1>10. ASSUME NEW d \in Calls
       PROVE  runs'[d] <= excused'[d] + Due(d)' /\ excused'[d] + InProgress(d)' <= runs'[d]
  <2>1. CASE Mine(d) \in cutOff /\ stage[d] = "sent"
    <3>1. CutOff(d) = {Mine(d)} BY <1>2, <2>1 DEF Mine
    <3>2. Cardinality(CutOff(d)) = 1 BY <3>1, FS_Singleton
    <3>3. excused'[d] = excused[d] + 1 /\ runs'[d] = runs[d] BY <1>1, <3>2
    <3>4. Due(d) = 1 /\ InProgress(d) = 1 BY <1>2, <2>1 DEF Due, IsDue, InProgress
    <3>5. Due(d)' \in {0, 1} /\ InProgress(d)' = 0
      BY <1>1, <1>3, <1>5, <2>1 DEF Due, InProgress
    <3>6. QED BY <3>3, <3>4, <3>5, CountOf
  <2>2. CASE ~(Mine(d) \in cutOff /\ stage[d] = "sent")
    <3>1. CutOff(d) = {} BY <1>2, <2>2
    <3>2. Cardinality(CutOff(d)) = 0 BY <3>1, FS_EmptySet
    <3>3. excused'[d] = excused[d] /\ runs'[d] = runs[d] BY <1>1, <3>2, CountOf
    <3>4. IsDue(d)' <=> IsDue(d) BY <1>1, <1>3, <1>5, <1>7, <2>2 DEF IsDue
    <3>5. QED BY <1>1, <1>3, <1>5, <2>2, <3>3, <3>4, SameCount
  <2>3. QED BY <2>1, <2>2
<1>11. RunsExcused' BY <1>10 DEF RunsExcused
<1>12. QED BY <1>6, <1>8, <1>9, <1>11 DEF FlightInv

\* Who is cut off is counted.
LEMMA EndTypes ==
  ASSUME IInv, NEW K \in SUBSET Conns, EndSockets(K, RunningOn(K))
  PROVE  /\ open' \subseteq Conns /\ drains' \in 0 .. MaxDrains
         /\ running' \subseteq Calls \X (1 .. MaxAttempts) \X (Conns \cup {NoConn})
         /\ excused' \in [Calls -> Nat]
         /\ \A c \in Calls : excused'[c] = 0 => excused[c] = 0
<1> DEFINE cutOff == RunningOn(K)
           CutOff(c) == {r \in cutOff : r[1] = c}
<1>1. /\ open' = open \ K /\ drains' = drains
      /\ running' = (running \ cutOff) \cup {<<r[1], r[2], NoConn>> : r \in cutOff}
      /\ excused' = [c \in Calls |-> excused[c] + Cardinality(CutOff(c))]
  BY DEF EndSockets
<1>2. ASSUME NEW c \in Calls PROVE excused[c] \in Nat /\ Cardinality(CutOff(c)) \in Nat
  <2>1. CutOff(c) \subseteq {Mine(c)}
    BY Facts DEF RunningOn, IInv, FlightInv, OfCurrentAttempt, Mine
  <2>2. IsFiniteSet(CutOff(c)) BY <2>1, FS_Singleton, FS_Subset
  <2>3. QED BY <2>2, FS_CardinalityType, Facts DEF IInv
<1>3. running' \subseteq Calls \X (1 .. MaxAttempts) \X (Conns \cup {NoConn})
  BY <1>1, Facts DEF RunningOn, IInv, ServerTypes
<1> HIDE DEF CutOff
<1>4. /\ excused' \in [Calls -> Nat]
      /\ \A c \in Calls : excused'[c] = 0 => excused[c] = 0
  BY <1>1, <1>2
<1>5. QED BY <1>1, <1>3, <1>4 DEF IInv, ServerTypes

LEMMA SameFlight ==
  ASSUME IInv, UNCHANGED <<link, stage, attempt, via, requests, answers, runs, running, open, excused>>
  PROVE  FlightInv'
<1>1. \A d : Mine(d)' = Mine(d) /\ \A a : Answered(d, a)' <=> Answered(d, a) BY DEF Mine, Answered
<1>2. OfCurrentAttempt' /\ InOnePlace' /\ SentOnConnected'
  BY <1>1 DEF IInv, FlightInv, OfCurrentAttempt, InOnePlace, SentOnConnected
<1>3. \A d \in Calls : IsDue(d)' <=> IsDue(d) BY <1>1 DEF IsDue
<1>4. RunsExcused' BY <1>1, <1>3, SameCount DEF RunsExcused
<1>5. QED BY <1>2, <1>4 DEF FlightInv

-----------------------------------------------------------------------------
(* The client.                                                             *)

\* Nothing of a call that awaits no answer can still be answered.
LEMMA NothingLive ==
  ASSUME IInv, NEW c \in Calls, stage[c] # "sent"
  PROVE  /\ \A r \in requests : r[1] = c => r[3] = NoConn
         /\ \A r \in running : r[1] = c => r[3] = NoConn
         /\ \A m \in answers : m[1] # c
BY DEF IInv, FlightInv, OfCurrentAttempt

\* Calls of S stop waiting for an answer, with none on its way that would settle them.
LEMMA CountStops ==
  ASSUME IInv, NEW c \in Calls, stage'[c] # "sent", IsDue(c) => IsDue(c)',
         runs'[c] = runs[c], excused'[c] = excused[c]
  PROVE  runs'[c] <= excused'[c] + Due(c)' /\ excused'[c] + InProgress(c)' <= runs'[c]
<1>1. InProgress(c)' = 0 /\ Due(c) <= Due(c)' /\ Due(c)' \in {0, 1} BY DEF InProgress, Due
<1>2. QED BY <1>1, CountOf

LEMMA AttemptFlight ==
  ASSUME IInv, NEW c \in Calls, stage[c] \in {"new", "backoff"}, Attempt(c),
         UNCHANGED <<running, open, excused>>
  PROVE  FlightInv'
<1>1. PICK e \in Select, i \in 1 .. MaxConnections :
        LET k == <<e, i>>
        IN /\ attempt' = [attempt EXCEPT ![c] = @ + 1]
           /\ via' = [via EXCEPT ![c] = k]
           /\ \/ /\ link[k] = "connected"
                 /\ stage' = [stage EXCEPT ![c] = "sent"]
                 /\ requests' = requests \cup {<<c, attempt'[c], k>>}
                 /\ UNCHANGED link
              \/ /\ \E err : FailAttempts({c}, err, attempt')
                 /\ UNCHANGED <<link, requests>>
              \/ /\ link[k] # "connected"
                 /\ stage' = [stage EXCEPT ![c] = "connecting"]
                 /\ link' = [link EXCEPT ![k] = IF @ = "closing" THEN @ ELSE "connecting"]
                 /\ UNCHANGED requests
           /\ UNCHANGED <<answers, runs>>
  BY Zenon DEF Attempt
<1> DEFINE k == <<e, i>>
           r == <<c, attempt'[c], k>>
<1>2. k \in Conns BY SelectType DEF Conns, IInv, RoundInv, TypeInv, WireTypes
<1>3. stage'[c] \in {"sent", "connecting", "backoff", "failed"}
      /\ \A d \in Calls : d # c => stage'[d] = stage[d]
  <2>1. (\E err : FailAttempts({c}, err, attempt'))
          => /\ stage'[c] \in {"backoff", "failed"}
             /\ \A d \in Calls : d # c => stage'[d] = stage[d]
    BY DEF FailAttempts
  <2>2. QED BY <1>1, <2>1, Facts DEF IInv
<1>4. /\ via'[c] = k /\ \A d \in Calls : d # c => via'[d] = via[d]
      /\ \A d \in Calls : d # c => attempt'[d] = attempt[d]
  BY <1>1, Facts DEF IInv
<1>5. \/ requests' = requests
      \/ requests' = requests \cup {r} /\ stage'[c] = "sent"
  <2>1. stage' = [stage EXCEPT ![c] = "sent"] => stage'[c] = "sent" BY Facts DEF IInv
  <2>2. QED BY <1>1, <2>1
<1>6. \A d \in Calls : d # c => Mine(d)' = Mine(d) BY <1>4 DEF Mine
<1>7. Mine(c)' = r BY <1>4 DEF Mine
<1>8. /\ \A x \in requests : x[1] = c => x[3] = NoConn
      /\ \A x \in running : x[1] = c => x[3] = NoConn
      /\ \A m \in answers : m[1] # c
  BY NothingLive
<1>9. OfCurrentAttempt'
  <2>1. ASSUME NEW x \in requests', x[3] # NoConn PROVE stage'[x[1]] = "sent" /\ x = Mine(x[1])'
    <3>1. CASE x = r BY <1>5, <1>7, <1>8, <2>1, <3>1
    <3>2. CASE x # r
      <4>1. x \in requests /\ x[1] # c /\ x[1] \in Calls BY <1>5, <1>8, <2>1, <3>2, Facts DEF IInv
      <4>2. QED BY <1>3, <1>6, <2>1, <4>1 DEF IInv, FlightInv, OfCurrentAttempt
    <3>3. QED BY <3>1, <3>2
  <2>2. ASSUME NEW x \in running, x[3] # NoConn
        PROVE  stage'[x[1]] = "sent" /\ x = Mine(x[1])' /\ x[3] \in open
    <3>1. x[1] # c /\ x[1] \in Calls BY <1>8, <2>2, Facts DEF IInv
    <3>2. QED BY <1>3, <1>6, <2>2, <3>1 DEF IInv, FlightInv, OfCurrentAttempt
  <2>3. ASSUME NEW m \in answers
        PROVE  stage'[m[1]] = "sent" /\ <<m[1], m[2], m[3]>> = Mine(m[1])'
    <3>1. m[1] # c /\ m[1] \in Calls BY <1>8, Facts DEF IInv
    <3>2. QED BY <1>3, <1>6, <3>1 DEF IInv, FlightInv, OfCurrentAttempt
  <2>4. QED BY <1>1, <2>1, <2>2, <2>3 DEF OfCurrentAttempt
<1>10. \A d \in Calls : \A a : Answered(d, a)' <=> Answered(d, a) /\ d # c
  <2>1. \A d \in Calls : \A a : d # c => (Answered(d, a)' <=> Answered(d, a))
    BY <1>1, <1>4 DEF Answered
  <2>2. \A a : ~Answered(c, a)' BY <1>1, <1>8 DEF Answered
  <2>3. QED BY <2>1, <2>2
<1>11. InOnePlace'
  <2>1. ASSUME NEW d \in Calls, d # c
        PROVE  Mine(d)' \in requests' => Mine(d) \in requests
    BY <1>5, <1>6, <2>1 DEF Mine
  <2>2. Mine(c)' \notin running BY <1>2, <1>7, <1>8
  <2>3. QED BY <1>1, <1>3, <1>6, <1>10, <2>1, <2>2 DEF IInv, FlightInv, InOnePlace
<1>12. SentOnConnected'
  <2>1. link' \in [Conns -> {"idle", "connecting", "connected", "reconnecting"}]
    BY <1>1 DEF IInv, FlightInv, SentOnConnected
  <2>2. \A x \in Conns : link[x] = "connected" => link'[x] = "connected"
    BY <1>1 DEF IInv, FlightInv, SentOnConnected
  <2>3. stage'[c] = "sent" => link[k] = "connected"
    <3>1. (\E err : FailAttempts({c}, err, attempt')) => stage'[c] # "sent"
      BY DEF FailAttempts
    <3>2. QED BY <1>1, <3>1, Facts DEF IInv
  <2>4. QED BY <1>2, <1>3, <1>4, <2>1, <2>2, <2>3 DEF IInv, FlightInv, SentOnConnected
<1>13. ASSUME NEW d \in Calls
       PROVE  runs'[d] <= excused'[d] + Due(d)' /\ excused'[d] + InProgress(d)' <= runs'[d]
  <2>1. CASE d = c
    <3>1. Due(d) = 0 BY <2>1 DEF Due, IsDue
    <3>2. InProgress(d)' = 0 BY <1>2, <1>7, <1>8, <2>1 DEF InProgress
    <3>3. Due(d)' \in {0, 1} BY DEF Due
    <3>4. QED BY <1>1, <3>1, <3>2, <3>3, CountOf
  <2>2. CASE d # c
    <3>1. IsDue(d)' <=> IsDue(d) BY <1>1, <1>3, <1>6, <1>10, <2>2 DEF IsDue
    <3>2. QED BY <1>1, <1>3, <1>6, <2>2, <3>1, SameCount
  <2>3. QED BY <2>1, <2>2
<1>14. RunsExcused' BY <1>13 DEF RunsExcused
<1>15. QED BY <1>9, <1>11, <1>12, <1>14 DEF FlightInv

\* Every answer that arrives is the one its call awaits.
LEMMA DeliverFlight ==
  ASSUME IInv, NEW m \in answers, Deliver(m[1], m[2], m[3], m[4]),
         UNCHANGED <<running, open, excused>>
  PROVE  FlightInv'
<1> DEFINE c == m[1]
           a == m[4]
<1>1. /\ m = <<m[1], m[2], m[3], m[4]>> /\ c \in Calls
      /\ stage[c] = "sent" /\ <<m[1], m[2], m[3]>> = Mine(c) /\ via[c] = m[3]
      /\ Answered(c, a) /\ a \in {"ok", "draining", "retryable", "fatal"}
  BY Facts DEF IInv, FlightInv, OfCurrentAttempt, Mine, Answered
<1>2. /\ answers' = answers \ {m} /\ UNCHANGED <<link, attempt, via, requests, runs>>
  BY <1>1 DEF Deliver
<1>3. /\ stage'[c] \in {"fulfilled", "failed"} \cup IF a \in {"draining", "retryable"}
                                                   THEN {"backoff"} ELSE {}
      /\ \A d \in Calls : d # c => stage'[d] = stage[d]
  <2>1. CASE a = "ok"
    <3>1. stage' = [stage EXCEPT ![c] = "fulfilled"] BY <1>1, <2>1 DEF Deliver
    <3>2. QED BY <1>1, <3>1, Facts DEF IInv
  <2>2. CASE a # "ok"
    <3>1. FailAttempts({c}, a, attempt) BY <1>1, <2>2, Zenon DEF Deliver
    <3>2. QED BY <1>1, <2>2, <3>1 DEF FailAttempts, Retryable
  <2>3. QED BY <2>1, <2>2
<1>4. \A d : Mine(d)' = Mine(d) BY <1>2 DEF Mine
<1>5. /\ Mine(c) \notin requests /\ Mine(c) \notin running
      /\ \A b : Answered(c, b) => b = a
  BY <1>1 DEF IInv, FlightInv, InOnePlace
<1>6. ASSUME NEW x \in answers' PROVE x[1] # c /\ x[1] \in Calls /\ x \in answers
  <2>1. x \in answers /\ x # m /\ x = <<x[1], x[2], x[3], x[4]>> /\ x[1] \in Calls
    BY <1>2, Facts DEF IInv
  <2>2. <<x[1], x[2], x[3]>> = Mine(x[1]) BY <2>1 DEF IInv, FlightInv, OfCurrentAttempt
  <2>3. x[1] = c => Answered(c, x[4]) /\ <<x[1], x[2], x[3]>> = <<m[1], m[2], m[3]>>
    BY <1>1, <2>1, <2>2 DEF Answered, Mine
  <2>4. QED BY <1>1, <1>5, <2>1, <2>3
<1>7. OfCurrentAttempt'
  <2>1. \A x \in requests : x[3] # NoConn => x[1] # c /\ x[1] \in Calls
    BY <1>5, Facts DEF IInv, FlightInv, OfCurrentAttempt
  <2>2. \A x \in running : x[3] # NoConn => x[1] # c /\ x[1] \in Calls
    BY <1>5, Facts DEF IInv, FlightInv, OfCurrentAttempt
  <2>3. QED BY <1>2, <1>3, <1>4, <1>6, <2>1, <2>2 DEF IInv, FlightInv, OfCurrentAttempt
<1>8. \A d \in Calls : \A b : d # c => (Answered(d, b)' <=> Answered(d, b)) BY <1>1, <1>2 DEF Answered
<1>9. InOnePlace' BY <1>2, <1>3, <1>4, <1>8 DEF IInv, FlightInv, InOnePlace
<1>10. SentOnConnected' BY <1>2, <1>3 DEF IInv, FlightInv, SentOnConnected
<1>11. ASSUME NEW d \in Calls
       PROVE  runs'[d] <= excused'[d] + Due(d)' /\ excused'[d] + InProgress(d)' <= runs'[d]
  <2>1. CASE d = c
    <3>1. stage'[d] # "sent" BY <1>3, <2>1
    <3>2. IsDue(d) => IsDue(d)'
      <4>1. CASE a \in {"draining", "retryable"} BY <1>1, <1>5, <2>1, <4>1 DEF IsDue
      <4>2. CASE a \notin {"draining", "retryable"} BY <1>3, <2>1, <4>2 DEF IsDue
      <4>3. QED BY <4>1, <4>2
    <3>3. QED BY <1>2, <3>1, <3>2, CountStops
  <2>2. CASE d # c
    <3>1. IsDue(d)' <=> IsDue(d) BY <1>3, <1>4, <1>8, <2>2 DEF IsDue
    <3>2. QED BY <1>2, <1>3, <1>4, <2>2, <3>1, SameCount
  <2>3. QED BY <2>1, <2>2
<1>12. RunsExcused' BY <1>11 DEF RunsExcused
<1>13. QED BY <1>7, <1>9, <1>10, <1>12 DEF FlightInv

\* All who wait for a connection write their request.
LEMMA ConnectDoneFlight ==
  ASSUME IInv, NEW k \in Conns, ConnectDone(k), open \subseteq open', UNCHANGED <<running, excused>>
  PROVE  FlightInv'
<1>1. /\ link[k] = "connecting" /\ link' = [link EXCEPT ![k] = "connected"]
      /\ stage' = [c \in Calls |-> IF c \in Waiting(k) THEN "sent" ELSE stage[c]]
      /\ requests' = requests \cup {<<c, attempt[c], k>> : c \in Waiting(k)}
      /\ UNCHANGED <<attempt, via, answers, runs>>
  BY DEF ConnectDone
<1>2. \A c \in Waiting(k) : c \in Calls /\ stage[c] = "connecting" /\ Mine(c) = <<c, attempt[c], k>>
  BY DEF Waiting, Mine
<1>3. \A d : Mine(d)' = Mine(d) BY <1>1 DEF Mine
<1>4. \A c \in Waiting(k) : /\ Mine(c) \notin running
                            /\ \A m \in answers : m[1] # c
  BY <1>2, NothingLive DEF Mine
<1>5. \A r \in requests' : \/ r \in requests
                           \/ r[1] \in Waiting(k) /\ r = Mine(r[1])
  BY <1>1, <1>2
<1>6. \A d \in Calls : stage'[d] = IF d \in Waiting(k) THEN "sent" ELSE stage[d] BY <1>1
<1>7. OfCurrentAttempt'
  <2>1. ASSUME NEW r \in requests', r[3] # NoConn PROVE stage'[r[1]] = "sent" /\ r = Mine(r[1])
    <3>1. CASE r \in requests
      BY <1>6, <2>1, <3>1, Facts DEF IInv, FlightInv, OfCurrentAttempt
    <3>2. CASE r \notin requests BY <1>2, <1>5, <1>6, <3>2
    <3>3. QED BY <3>1, <3>2
  <2>2. \A r \in running : r[3] # NoConn =>
          stage'[r[1]] = "sent" /\ r = Mine(r[1]) /\ r[3] \in open'
    BY <1>6, Facts DEF IInv, FlightInv, OfCurrentAttempt
  <2>3. \A m \in answers : stage'[m[1]] = "sent" /\ <<m[1], m[2], m[3]>> = Mine(m[1])
    BY <1>6, Facts DEF IInv, FlightInv, OfCurrentAttempt
  <2>4. QED BY <1>1, <1>3, <2>1, <2>2, <2>3 DEF OfCurrentAttempt
<1>8. \A d \in Calls : \A a : Answered(d, a)' <=> Answered(d, a) BY <1>1 DEF Answered
<1>9. \A d \in Waiting(k) : \A a : ~Answered(d, a) BY <1>4 DEF Answered
<1>10. \A d \in Calls : d \notin Waiting(k) /\ Mine(d) \in requests' => Mine(d) \in requests
  BY <1>5 DEF Mine
<1>11. InOnePlace'
  BY <1>1, <1>3, <1>4, <1>6, <1>8, <1>9, <1>10 DEF IInv, FlightInv, InOnePlace
<1>12. SentOnConnected'
  <2>1. link' \in [Conns -> {"idle", "connecting", "connected", "reconnecting"}]
        /\ \A x \in Conns : link[x] = "connected" => link'[x] = "connected"
        /\ link'[k] = "connected"
    BY <1>1 DEF IInv, FlightInv, SentOnConnected
  <2>2. \A c \in Waiting(k) : via[c] = k BY DEF Waiting
  <2>3. QED BY <1>1, <1>6, <2>1, <2>2 DEF IInv, FlightInv, SentOnConnected
<1>13. ASSUME NEW d \in Calls
       PROVE  runs'[d] <= excused'[d] + Due(d)' /\ excused'[d] + InProgress(d)' <= runs'[d]
  <2>1. CASE d \in Waiting(k)
    <3>1. ~IsDue(d) /\ ~IsDue(d)' BY <1>1, <1>2, <1>3, <1>4, <1>6, <1>8, <1>9, <2>1 DEF IsDue
    <3>2. Mine(d)' \notin running BY <1>3, <1>4, <2>1
    <3>3. QED BY <1>1, <3>1, <3>2, SameCount
  <2>2. CASE d \notin Waiting(k)
    <3>1. IsDue(d)' <=> IsDue(d) BY <1>3, <1>6, <1>8, <2>2 DEF IsDue
    <3>2. QED BY <1>1, <1>3, <1>6, <2>2, <3>1, SameCount
  <2>3. QED BY <2>1, <2>2
<1>14. RunsExcused' BY <1>13 DEF RunsExcused
<1>15. QED BY <1>7, <1>11, <1>12, <1>14 DEF FlightInv

\* A connect() fails: none of those who wait for it has anything on its way.
LEMMA ConnectFailsFlight ==
  ASSUME IInv, NEW k \in Conns, ConnectFails(k), UNCHANGED <<running, open, excused>>
  PROVE  FlightInv'
<1>1. /\ link[k] = "connecting" /\ link' = [link EXCEPT ![k] = "reconnecting"]
      /\ \E e : FailAttempts(Waiting(k), e, attempt)
      /\ UNCHANGED <<attempt, via, requests, answers, runs>>
  BY DEF ConnectFails, netVars
<1>2. \A d \in Calls : /\ d \in Waiting(k) => stage[d] = "connecting" /\ stage'[d] \in {"backoff", "failed"}
                       /\ d \notin Waiting(k) => stage'[d] = stage[d]
  BY <1>1 DEF FailAttempts, Waiting
<1>3. \A d : Mine(d)' = Mine(d) /\ \A a : Answered(d, a)' <=> Answered(d, a)
  BY <1>1 DEF Mine, Answered
<1>4. \A d \in Calls : stage'[d] = "sent" <=> stage[d] = "sent" BY <1>2
<1>5. OfCurrentAttempt'
  BY <1>1, <1>3, <1>4, Facts DEF IInv, FlightInv, OfCurrentAttempt
<1>6. InOnePlace' BY <1>1, <1>3, <1>4 DEF IInv, FlightInv, InOnePlace
<1>7. SentOnConnected'
  <2>1. link' \in [Conns -> {"idle", "connecting", "connected", "reconnecting"}]
        /\ \A x \in Conns : link[x] = "connected" => link'[x] = "connected"
    BY <1>1 DEF IInv, FlightInv, SentOnConnected
  <2>2. QED BY <1>1, <1>2, <2>1 DEF IInv, FlightInv, SentOnConnected
<1>8. ASSUME NEW d \in Calls
      PROVE  runs'[d] <= excused'[d] + Due(d)' /\ excused'[d] + InProgress(d)' <= runs'[d]
  <2>1. CASE d \in Waiting(k)
    <3>1. stage'[d] # "sent" /\ ~IsDue(d) BY <1>2, <2>1 DEF IsDue
    <3>2. QED BY <1>1, <3>1, CountStops
  <2>2. CASE d \notin Waiting(k)
    <3>1. IsDue(d)' <=> IsDue(d) BY <1>2, <1>3, <2>2 DEF IsDue
    <3>2. QED BY <1>1, <1>2, <1>3, <2>2, <3>1, SameCount
  <2>3. QED BY <2>1, <2>2
<1>9. RunsExcused' BY <1>8 DEF RunsExcused
<1>10. QED BY <1>5, <1>6, <1>7, <1>9 DEF FlightInv

LEMMA ReconnectFlight ==
  ASSUME IInv, NEW k \in Conns, Reconnect(k), UNCHANGED <<running, open, excused>>
  PROVE  FlightInv'
<1>1. /\ link[k] = "reconnecting" /\ link' = [link EXCEPT ![k] = "connecting"]
      /\ UNCHANGED <<stage, attempt, via, requests, answers, runs>>
  BY DEF Reconnect, callVars, netVars
<1>2. \A d : Mine(d)' = Mine(d) /\ \A a : Answered(d, a)' <=> Answered(d, a)
  BY <1>1 DEF Mine, Answered
<1>3. OfCurrentAttempt' /\ InOnePlace'
  BY <1>1, <1>2 DEF IInv, FlightInv, OfCurrentAttempt, InOnePlace
<1>4. SentOnConnected'
  <2>1. link' \in [Conns -> {"idle", "connecting", "connected", "reconnecting"}]
        /\ \A x \in Conns : link[x] = "connected" => link'[x] = "connected"
    BY <1>1 DEF IInv, FlightInv, SentOnConnected
  <2>2. QED BY <1>1, <2>1 DEF IInv, FlightInv, SentOnConnected
<1>5. \A d \in Calls : IsDue(d)' <=> IsDue(d) BY <1>1, <1>2 DEF IsDue
<1>6. RunsExcused' BY <1>1, <1>2, <1>5, SameCount DEF RunsExcused
<1>7. QED BY <1>3, <1>4, <1>6 DEF FlightInv

\* A connection ends whose socket is gone: those who await an answer have none on its way,
\* and the method does not run for them.
LEMMA DisconnectedFlight ==
  ASSUME IInv, NEW k \in Conns, Disconnected(k), k \notin open, \A m \in answers : m[3] # k,
         UNCHANGED <<running, open, excused>>
  PROVE  FlightInv'
<1>1. /\ link' = [link EXCEPT ![k] = "reconnecting"]
      /\ \E e : FailAttempts(Sent(k), e, attempt)
      /\ requests' = {<<r[1], r[2], IF r[3] = k THEN NoConn ELSE r[3]>> : r \in requests}
      /\ answers' = answers
      /\ UNCHANGED <<attempt, via, runs>>
  BY DEF Disconnected, LinkLost
<1>2. \A d \in Calls : /\ d \in Sent(k) => /\ stage[d] = "sent" /\ via[d] = k
                                           /\ stage'[d] \in {"backoff", "failed"}
                       /\ d \notin Sent(k) => stage'[d] = stage[d]
  BY <1>1 DEF FailAttempts, Sent
<1>3. \A d : Mine(d)' = Mine(d) /\ \A a : Answered(d, a)' <=> Answered(d, a)
  BY <1>1 DEF Mine, Answered
<1>4. \A r \in requests' : r[3] # NoConn => r \in requests /\ r[3] # k BY <1>1, Facts DEF IInv
<1>5. OfCurrentAttempt'
  <2>1. ASSUME NEW r \in requests', r[3] # NoConn PROVE stage'[r[1]] = "sent" /\ r = Mine(r[1])
    <3>1. r \in requests /\ r[3] # k /\ r[1] \in Calls BY <1>4, <2>1, Facts DEF IInv
    <3>2. stage[r[1]] = "sent" /\ r = Mine(r[1])
      BY <2>1, <3>1 DEF IInv, FlightInv, OfCurrentAttempt
    <3>3. via[r[1]] = r[3] BY <3>2 DEF Mine
    <3>4. QED BY <1>2, <3>1, <3>2, <3>3
  <2>2. ASSUME NEW r \in running, r[3] # NoConn
        PROVE  stage'[r[1]] = "sent" /\ r = Mine(r[1]) /\ r[3] \in open
    <3>1. stage[r[1]] = "sent" /\ r = Mine(r[1]) /\ r[3] \in open /\ r[1] \in Calls
      BY <2>2, Facts DEF IInv, FlightInv, OfCurrentAttempt
    <3>2. via[r[1]] = r[3] /\ r[3] # k BY <3>1 DEF Mine
    <3>3. QED BY <1>2, <3>1, <3>2
  <2>3. ASSUME NEW m \in answers PROVE stage'[m[1]] = "sent" /\ <<m[1], m[2], m[3]>> = Mine(m[1])
    <3>1. stage[m[1]] = "sent" /\ <<m[1], m[2], m[3]>> = Mine(m[1]) /\ m[1] \in Calls
      BY Facts DEF IInv, FlightInv, OfCurrentAttempt
    <3>2. via[m[1]] = m[3] /\ m[3] # k BY <3>1 DEF Mine
    <3>3. QED BY <1>2, <3>1, <3>2
  <2>4. QED BY <1>1, <1>3, <2>1, <2>2, <2>3 DEF OfCurrentAttempt
<1>6. \A d \in Calls : stage'[d] = "sent" => stage[d] = "sent" /\ via[d] \in Conns
  BY <1>2 DEF IInv, FlightInv, SentOnConnected
<1>7. InOnePlace'
  <2>1. \A d \in Calls : stage'[d] = "sent" /\ Mine(d) \in requests' => Mine(d) \in requests
    BY <1>4, <1>6 DEF Mine
  <2>2. QED BY <1>1, <1>3, <1>6, <2>1 DEF IInv, FlightInv, InOnePlace
<1>8. SentOnConnected'
  <2>1. link' \in [Conns -> {"idle", "connecting", "connected", "reconnecting"}]
        /\ \A x \in Conns : link[x] = "connected" /\ x # k => link'[x] = "connected"
    BY <1>1 DEF IInv, FlightInv, SentOnConnected
  <2>2. \A d \in Calls : stage'[d] = "sent" => via[d] # k BY <1>2, <1>6 DEF Sent
  <2>3. QED BY <1>1, <1>2, <1>6, <2>1, <2>2 DEF IInv, FlightInv, SentOnConnected
<1>9. ASSUME NEW d \in Calls
      PROVE  runs'[d] <= excused'[d] + Due(d)' /\ excused'[d] + InProgress(d)' <= runs'[d]
  <2>1. CASE d \in Sent(k)
    <3>1. stage[d] = "sent" /\ via[d] = k /\ stage'[d] # "sent" BY <1>2, <2>1
    <3>2. Mine(d) \notin running BY <3>1 DEF Mine, IInv, FlightInv, OfCurrentAttempt
    <3>3. \A a : ~Answered(d, a) BY <3>1 DEF Answered
    <3>4. ~IsDue(d) BY <3>1, <3>2, <3>3 DEF IsDue
    <3>5. QED BY <1>1, <3>1, <3>4, CountStops
  <2>2. CASE d \notin Sent(k)
    <3>1. IsDue(d)' <=> IsDue(d) BY <1>2, <1>3, <2>2 DEF IsDue
    <3>2. QED BY <1>1, <1>2, <1>3, <2>2, <3>1, SameCount
  <2>3. QED BY <2>1, <2>2
<1>10. RunsExcused' BY <1>9 DEF RunsExcused
<1>11. QED BY <1>5, <1>7, <1>8, <1>10 DEF FlightInv

-----------------------------------------------------------------------------
(* Every step.                                                             *)

ServerSteps(e) == Drain(e) \/ Stop(e) \/ StopByTimeout(e) \/ Restart(e)

LEMMA StopIsStopWith ==
  ASSUME NEW e, Stop(e) \/ StopByTimeout(e)
  PROVE  /\ StopWith(e, RunningAt(e)) /\ EndSockets(At(e), RunningOn(At(e)))
         /\ At(e) \in SUBSET Conns
BY DEF Stop, StopByTimeout, StopWith, RunningAt, Idle, At

LEMMA InitInv == ASSUME DeployInit PROVE IInv
<1>1. NoneCalled /\ cursor \in 0 .. Len(Order) - 1 BY DEF DeployInit, WarmInit, NoneCalled
<1>2. PICK made \in [Endpoints -> 0 .. MaxConnections] :
        /\ size = made
        /\ link = [k \in Conns |-> IF k[2] <= made[k[1]] THEN "connected" ELSE "idle"]
  BY DEF DeployInit, WarmInit
<1>3. RoundInv
  <2>1. CoverInv BY <1>1, CoverInit
  <2>2. WireTypes
    <3>1. size \in [Endpoints -> 0 .. MaxConnections] /\ link \in [Conns -> LinkStates]
      BY <1>2 DEF LinkStates
    <3>2. nextIndex \in [Endpoints -> 0 .. MaxConnections - 1]
      BY MaxConnectionsAssumption DEF DeployInit, WarmInit
    <3>3. picks \in Seq(Calls \X Conns) BY <1>1, EmptySeq DEF NoneCalled
    <3>4. QED BY <1>1, <3>1, <3>2, <3>3 DEF NoneCalled, WireTypes
  <2>3. SelectedInTurn /\ GivesUpLate BY <1>1, RoundInit
  <2>4. QED BY <2>1, <2>2, <2>3 DEF RoundInv, TypeInv
<1>4. ServerTypes
  <2>1. open \subseteq Conns BY DEF DeployInit
  <2>2. QED BY <2>1, MaxDrainsAssumption DEF DeployInit, ServerTypes
<1>5. FlightInv
  <2>1. OfCurrentAttempt /\ InOnePlace
    BY <1>1 DEF DeployInit, NoneCalled, OfCurrentAttempt, InOnePlace
  <2>2. SentOnConnected BY <1>1, <1>2 DEF DeployInit, NoneCalled, SentOnConnected
  <2>3. RunsExcused
    BY <1>1 DEF DeployInit, NoneCalled, RunsExcused, Due, IsDue, InProgress
  <2>4. QED BY <2>1, <2>2, <2>3 DEF FlightInv
<1>6. QED BY <1>3, <1>4, <1>5 DEF IInv

LEMMA NextRound == ASSUME IInv, [DeployNext]_deployVars PROVE RoundInv'
<1>1. ASSUME [Next]_vars PROVE RoundInv'
  BY <1>1, EveryStepMoves, CoverMoves, WireNext, TurnNext, LateNext
     DEF IInv, RoundInv, TypeInv, CoverInv
<1>2. ASSUME NEW r \in requests, Refuse(r[1], r[2], r[3]) \/ Begin(r[1], r[2], r[3])
      PROVE  RoundInv'
  BY <1>2, RefuseRound, BeginRound DEF IInv
<1>3. ASSUME NEW r \in running, NEW o \in Outcomes, Finish(r[1], r[2], r[3], o) PROVE RoundInv'
  BY <1>3, FinishRound DEF IInv
<1>4. ASSUME NEW e \in Endpoints, ServerSteps(e) PROVE RoundInv'
  <2>1. CASE Drain(e) \/ Restart(e) BY <1>1, <2>1 DEF Drain, Restart
  <2>2. CASE Stop(e) \/ StopByTimeout(e) BY <2>2, StopIsStopWith, EndRound DEF IInv
  <2>3. QED BY <1>4, <2>1, <2>2 DEF ServerSteps
<1>5. ASSUME NEW c \in Calls, ClientStarts(c) \/ ClientRetries(c) PROVE RoundInv'
  BY <1>1, <1>5 DEF ClientStarts, ClientRetries, Next, Call
<1>6. ASSUME NEW m \in answers, ClientHears(m[1], m[2], m[3], m[4]) PROVE RoundInv'
  BY <1>1, <1>6 DEF ClientHears, Next
<1>7. ASSUME NEW k \in Conns, Connects(k) \/ ConnectionRefused(k) \/ Redials(k) \/ ConnectionEnds(k)
      PROVE  RoundInv'
  BY <1>1, <1>7 DEF Connects, ConnectionRefused, Redials, ConnectionEnds, Next, Link
<1>8. CASE UNCHANGED deployVars BY <1>1, <1>8 DEF deployVars
<1>9. ASSUME NEW k \in Conns, HandlerThrows(k) PROVE RoundInv'
  BY <1>9, EndRound DEF HandlerThrows, IInv
<1>10. QED BY <1>2, <1>3, <1>4, <1>5, <1>6, <1>7, <1>8, <1>9 DEF DeployNext, ServerSteps

LEMMA NextFlight == ASSUME IInv, [DeployNext]_deployVars PROVE FlightInv'
<1>1. ASSUME NEW r \in requests, Refuse(r[1], r[2], r[3]) \/ Begin(r[1], r[2], r[3])
      PROVE  FlightInv'
  BY <1>1, RefuseFlight, BeginFlight
<1>2. ASSUME NEW r \in running, NEW o \in Outcomes, Finish(r[1], r[2], r[3], o) PROVE FlightInv'
  BY <1>2, FinishFlight
<1>3. ASSUME NEW e \in Endpoints, ServerSteps(e) PROVE FlightInv'
  <2>1. CASE Drain(e) \/ Restart(e)
    BY <2>1, SameFlight DEF Drain, Restart, vars, callVars, netVars
  <2>2. CASE Stop(e) \/ StopByTimeout(e) BY <2>2, StopIsStopWith, EndFlight
  <2>3. QED BY <1>3, <2>1, <2>2 DEF ServerSteps
<1>4. ASSUME NEW c \in Calls, ClientStarts(c) \/ ClientRetries(c) PROVE FlightInv'
  BY <1>4, AttemptFlight DEF ClientStarts, ClientRetries, Start, Retry, serverVars
<1>5. ASSUME NEW m \in answers, ClientHears(m[1], m[2], m[3], m[4]) PROVE FlightInv'
  BY <1>5, DeliverFlight DEF ClientHears, serverVars
<1>6. ASSUME NEW k \in Conns, Connects(k) \/ ConnectionRefused(k) \/ Redials(k) \/ ConnectionEnds(k)
      PROVE  FlightInv'
  <2>1. CASE Connects(k) BY <2>1, ConnectDoneFlight DEF Connects
  <2>2. CASE ConnectionRefused(k) BY <2>2, ConnectFailsFlight DEF ConnectionRefused, serverVars
  <2>3. CASE Redials(k) BY <2>3, ReconnectFlight DEF Redials, serverVars
  <2>4. CASE ConnectionEnds(k) BY <2>4, DisconnectedFlight DEF ConnectionEnds, serverVars
  <2>5. QED BY <1>6, <2>1, <2>2, <2>3, <2>4
<1>7. CASE UNCHANGED deployVars
  BY <1>7, SameFlight DEF deployVars, vars, callVars, netVars, serverVars
<1>8. ASSUME NEW k \in Conns, HandlerThrows(k) PROVE FlightInv'
  BY <1>8, EndFlight DEF HandlerThrows
<1>9. QED BY <1>1, <1>2, <1>3, <1>4, <1>5, <1>6, <1>7, <1>8 DEF DeployNext, ServerSteps

LEMMA NextServers == ASSUME IInv, [DeployNext]_deployVars PROVE ServerTypes'
<1> USE DEF ServerTypes, IInv, serverVars, MaxAttempts
<1>1. ASSUME NEW r \in requests, Refuse(r[1], r[2], r[3]) \/ Begin(r[1], r[2], r[3])
      PROVE  ServerTypes'
  <2>1. CASE Refuse(r[1], r[2], r[3]) BY <2>1 DEF Refuse
  <2>2. CASE Begin(r[1], r[2], r[3])
    <3>1. running' = running \cup {<<r[1], r[2], r[3]>>}
          /\ UNCHANGED <<phase, open, drains, disturbed, excused>>
      BY <2>2 DEF Begin
    <3>2. <<r[1], r[2], r[3]>> \in Calls \X (1 .. MaxAttempts) \X (Conns \cup {NoConn}) BY Facts
    <3>3. QED BY <3>1, <3>2
  <2>3. QED BY <1>1, <2>1, <2>2
<1>2. ASSUME NEW r \in running, NEW o \in Outcomes, Finish(r[1], r[2], r[3], o) PROVE ServerTypes'
  BY <1>2 DEF Finish
<1>3. ASSUME NEW e \in Endpoints, ServerSteps(e) PROVE ServerTypes'
  <2>1. CASE Drain(e)
    <3>1. drains' \in 0 .. MaxDrains BY <2>1, MaxDrainsAssumption DEF Drain
    <3>2. disturbed' \in [Calls -> SUBSET Endpoints] BY <2>1 DEF Drain, DisturbedBy
    <3>3. phase' \in [Endpoints -> {"up", "draining", "stopped"}] BY <2>1 DEF Drain
    <3>4. QED BY <2>1, <3>1, <3>2, <3>3 DEF Drain
  <2>2. CASE Restart(e) BY <2>2 DEF Restart
  <2>3. CASE Stop(e) \/ StopByTimeout(e)
    <3>1. phase' = [phase EXCEPT ![e] = "stopped"] /\ UNCHANGED disturbed
      BY <2>3, StopIsStopWith DEF StopWith
    <3>2. QED BY <2>3, <3>1, StopIsStopWith, EndTypes
  <2>4. QED BY <1>3, <2>1, <2>2, <2>3 DEF ServerSteps
<1>4. ASSUME NEW c \in Calls, ClientStarts(c) \/ ClientRetries(c) PROVE ServerTypes'
  BY <1>4 DEF ClientStarts, ClientRetries
<1>5. ASSUME NEW m \in answers, ClientHears(m[1], m[2], m[3], m[4]) PROVE ServerTypes'
  BY <1>5 DEF ClientHears
<1>6. ASSUME NEW k \in Conns, Connects(k) \/ ConnectionRefused(k) \/ Redials(k) \/ ConnectionEnds(k)
      PROVE  ServerTypes'
  BY <1>6 DEF Connects, ConnectionRefused, Redials, ConnectionEnds
<1>7. CASE UNCHANGED deployVars BY <1>7 DEF deployVars
<1>8. ASSUME NEW k \in Conns, HandlerThrows(k) PROVE ServerTypes'
  <2>1. phase' = phase /\ disturbed' = DisturbedBy(Server(k)) BY <1>8 DEF HandlerThrows
  <2>2. disturbed' \in [Calls -> SUBSET Endpoints]
    BY <2>1 DEF DisturbedBy, Server, Conns
  <2>3. QED BY <1>8, <2>1, <2>2, EndTypes DEF HandlerThrows
<1>9. QED BY <1>1, <1>2, <1>3, <1>4, <1>5, <1>6, <1>7, <1>8 DEF DeployNext, ServerSteps

LEMMA Invariance == DeploySpec => []IInv
<1>1. DeployInit => IInv BY InitInv
<1>2. IInv /\ [DeployNext]_deployVars => IInv' BY NextRound, NextFlight, NextServers DEF IInv
<1>3. QED BY <1>1, <1>2, PTL DEF DeploySpec

\* Every variable of client and servers has its type; a request runs for a socket that is
\* open or for none, and no more runs are excused than attempts are made.
THEOREM DeployTypeCorrect == DeploySpec => []DeployTypeOK
<1>1. ASSUME IInv, NEW c \in Calls
      PROVE  /\ attempt[c] \in 0 .. MaxAttempts /\ runs[c] \in 0 .. MaxAttempts
             /\ unknown[c] \in 0 .. MaxAttempts /\ excused[c] \in 0 .. MaxAttempts
  <2>1. /\ attempt[c] \in Nat /\ runs[c] \in Nat /\ unknown[c] \in Nat /\ Underway(c) \in Nat
        /\ MaxAttempts \in Nat
    BY <1>1, UnderwayType, MaxAttemptsType DEF IInv, RoundInv, TypeInv, CoverInv, Shapes
  <2>2. /\ attempt[c] <= MaxAttempts
        /\ runs[c] + Underway(c) + (IF stage[c] = "connecting" THEN 1 ELSE 0) <= attempt[c]
        /\ unknown[c] + (IF stage[c] \in {"connecting", "sent"} THEN 1 ELSE 0) <= attempt[c]
    BY <1>1 DEF IInv, RoundInv, TypeInv, CoverInv, AttemptsCover, Load
  <2>3. excused[c] \in Nat /\ excused[c] <= runs[c] BY <1>1, CountOf
  <2>4. QED BY <2>1, <2>2, <2>3
<1>2. IInv => running \subseteq Calls \X (1 .. MaxAttempts) \X (open \cup {NoConn})
  BY Facts DEF IInv, FlightInv, OfCurrentAttempt
<1>3. IInv => DeployTypeOK
  BY <1>1, <1>2
     DEF IInv, RoundInv, TypeInv, CoverInv, Shapes, WireTypes, ServerTypes, TypeOK, DeployTypeOK
<1>4. QED BY <1>3, Invariance, PTL

\* Restarting the servers of a service gracefully never makes a method run twice for a
\* call, however many servers there are and however they are restarted: it runs again only
\* after its answer was cut off, by the timeout of the drain or by a handler on its socket
\* that threw, or was an RpcError that the client retries.  Refusals, lost requests and
\* reconnects do not.
THEOREM RestartsRunOnce == DeploySpec => []RunsOnceThroughRestarts
<1>1. ASSUME IInv, NEW c \in Calls PROVE runs[c] <= 1 + excused[c] BY <1>1, CountOf
<1>2. IInv => RunsOnceThroughRestarts BY <1>1 DEF RunsOnceThroughRestarts
<1>3. QED BY <1>2, Invariance, PTL
-----------------------------------------------------------------------------
(* What a call has met.                                                    *)

Active(c) == stage[c] \in {"connecting", "sent", "backoff"}

\* A call in progress knows what is not at rest; who refused it was not, and an answer
\* that is retried is excused.
KnowsDisturbed ==
  /\ \A c \in Calls, e \in Endpoints : Active(c) /\ ~AtRest(e) => e \in disturbed[c]
  /\ \A m \in answers : m[4] = "draining" => Server(m[3]) \in disturbed[m[1]]
  /\ \A m \in answers : m[4] = "retryable" => excused[m[1]] # 0

\* The endpoints that were disturbed, and the one a call is at.
Accounted(c, k) ==
  \/ Server(k) \in disturbed[c]
  \/ stage[c] \in {"connecting", "sent"} /\ k = via[c]

\* An endpoint tried in vain was disturbed, unless some answer was an excuse.
TriedInVain(c) ==
  /\ stage[c] = "new" => PicksOf(c) = {}
  /\ stage[c] = "failed" => lastError[c] # "none"
  /\ excused[c] = 0 /\ (Active(c) \/ (stage[c] = "failed" /\ lastError[c] \notin {"fatal", "thrown"}))
       => \A i \in PicksOf(c) : Accounted(c, picks[i][2])

InVain == \A c \in Calls : TriedInVain(c)

VainInv == IInv /\ KnowsDisturbed /\ InVain

\* A call fails an attempt at a disturbed endpoint, or for good.
FailsForCause(c) ==
  /\ stage[c] \in {"connecting", "sent"}
  /\ \/ stage'[c] = "backoff"
     \/ stage'[c] = "failed" /\ lastError'[c] # "none"
  /\ \/ stage'[c] = "failed" /\ lastError'[c] \in {"fatal", "thrown"}
     \/ excused[c] # 0
     \/ Server(via[c]) \in disturbed[c]

\* Nothing becomes of a call, or it goes on, or fails for a cause.
LEMMA VainStep ==
  ASSUME NEW c \in Calls, TriedInVain(c), UNCHANGED picks, via'[c] = via[c],
         excused'[c] = 0 => excused[c] = 0, disturbed[c] \subseteq disturbed'[c],
         \/ stage'[c] = stage[c] /\ lastError'[c] = lastError[c]
         \/ stage'[c] = "fulfilled"
         \/ stage[c] = "connecting" /\ stage'[c] = "sent"
         \/ FailsForCause(c)
  PROVE  TriedInVain(c)'
<1>1. PicksOf(c)' = PicksOf(c) BY DEF PicksOf
<1>2. CASE stage'[c] = stage[c] /\ lastError'[c] = lastError[c]
  <2>1. \A k : Accounted(c, k) => Accounted(c, k)' BY <1>2 DEF Accounted
  <2>2. QED BY <1>1, <1>2, <2>1 DEF TriedInVain, Active
<1>3. CASE stage'[c] = "fulfilled" BY <1>3 DEF TriedInVain, Active
<1>4. CASE stage[c] = "connecting" /\ stage'[c] = "sent"
  <2>1. \A k : Accounted(c, k) => Accounted(c, k)' BY <1>4 DEF Accounted
  <2>2. QED BY <1>1, <1>4, <2>1 DEF TriedInVain, Active
<1>5. CASE FailsForCause(c)
  <2>1. ASSUME excused'[c] = 0, ~(stage'[c] = "failed" /\ lastError'[c] \in {"fatal", "thrown"}),
               NEW i \in PicksOf(c)
        PROVE  Accounted(c, picks[i][2])'
    <3>1. Accounted(c, picks[i][2]) BY <1>5, <2>1 DEF FailsForCause, TriedInVain, Active
    <3>2. Server(via[c]) \in disturbed[c] BY <1>5, <2>1 DEF FailsForCause
    <3>3. Server(picks[i][2]) \in disturbed[c] BY <3>1, <3>2 DEF Accounted
    <3>4. QED BY <3>3 DEF Accounted
  <2>2. QED BY <1>1, <1>5, <2>1 DEF FailsForCause, TriedInVain, Active
<1>6. QED BY <1>2, <1>3, <1>4, <1>5

\* Nothing but the servers changes, and no endpoint is disturbed that the calls do not
\* know of.
LEMMA ServersVain ==
  ASSUME VainInv, UNCHANGED <<poolVars, callVars>>,
         \A c \in Calls : /\ excused'[c] = 0 => excused[c] = 0
                          /\ disturbed[c] \subseteq disturbed'[c],
         \A e \in Endpoints : ~AtRest(e)' =>
           ~AtRest(e) \/ \A c \in Calls : Active(c) => e \in disturbed'[c],
         \A m \in answers' : m \notin answers =>
           /\ m[4] = "draining" => Server(m[3]) \in disturbed'[m[1]]
           /\ m[4] = "retryable" => excused'[m[1]] # 0
  PROVE  KnowsDisturbed' /\ InVain'
<1>1. \A c \in Calls : Active(c)' <=> Active(c) BY DEF Active, callVars
<1>2. \A m \in answers : m[1] \in Calls BY Facts DEF VainInv, IInv
<1>3. KnowsDisturbed' BY <1>1, <1>2 DEF VainInv, KnowsDisturbed
<1>4. ASSUME NEW c \in Calls PROVE TriedInVain(c)'
  BY VainStep DEF VainInv, InVain, poolVars, callVars
<1>5. QED BY <1>3, <1>4 DEF InVain

LEMMA RefuseVain ==
  ASSUME VainInv, NEW r \in requests, Refuse(r[1], r[2], r[3])
  PROVE  KnowsDisturbed' /\ InVain'
<1> DEFINE m == <<r[1], r[2], r[3], "draining">>
<1>1. /\ UNCHANGED <<poolVars, callVars, link, phase, open, disturbed, excused>>
      /\ answers' = answers \cup {m}
      /\ r[1] \in Calls /\ r[3] \in Conns /\ phase[Server(r[3])] = "draining"
  BY Facts DEF Refuse, Unread, Refuses, serverVars, VainInv, IInv, ServerTypes
<1>2. \A e : AtRest(e)' <=> AtRest(e) BY <1>1 DEF AtRest
<1>3. stage[r[1]] = "sent" BY <1>1 DEF VainInv, IInv, FlightInv, OfCurrentAttempt
<1>4. Server(r[3]) \in Endpoints BY <1>1 DEF Server, Conns
<1>5. Server(r[3]) \in disturbed[r[1]]
  BY <1>1, <1>3, <1>4 DEF VainInv, KnowsDisturbed, Active, AtRest
<1>6. QED BY <1>1, <1>2, <1>5, ServersVain

LEMMA BeginVain ==
  ASSUME VainInv, NEW r \in requests, Begin(r[1], r[2], r[3])
  PROVE  KnowsDisturbed' /\ InVain'
<1>1. UNCHANGED <<poolVars, callVars, link, phase, open, disturbed, excused, answers>>
  BY DEF Begin
<1>2. \A e : AtRest(e)' <=> AtRest(e) BY <1>1 DEF AtRest
<1>3. QED BY <1>1, <1>2, ServersVain

LEMMA FinishVain ==
  ASSUME VainInv, NEW r \in running, NEW o \in Outcomes, Finish(r[1], r[2], r[3], o)
  PROVE  KnowsDisturbed' /\ InVain'
<1> DEFINE m == <<r[1], r[2], r[3], Response(o)>>
<1>1. /\ UNCHANGED <<poolVars, callVars, link, phase, open, disturbed>>
      /\ answers' = IF r[3] \in open THEN answers \cup {m} ELSE answers
      /\ excused' = [excused EXCEPT ![r[1]] = IF r[3] \in open /\ IsExcuse(o) THEN @ + 1 ELSE @]
      /\ r[1] \in Calls /\ excused \in [Calls -> Nat]
  BY Facts DEF Finish, VainInv, IInv
<1>2. \A e : AtRest(e)' <=> AtRest(e) BY <1>1 DEF AtRest
<1>3. \A c \in Calls : excused'[c] = 0 => excused[c] = 0 BY <1>1
<1>4. Response(o) \in {"ok", "fatal", "retryable"} /\ (Response(o) = "retryable" => IsExcuse(o))
  BY DEF Response, Outcomes, IsExcuse
<1>5. r[3] \in open /\ IsExcuse(o) => excused'[r[1]] # 0 BY <1>1
<1>6. \A x \in answers' : x \notin answers =>
        x[4] # "draining" /\ (x[4] = "retryable" => excused'[x[1]] # 0)
  BY <1>1, <1>4, <1>5
<1>7. QED BY <1>1, <1>2, <1>3, <1>6, ServersVain

\* The end of a drain disturbs no other server, and a handler that throws its own.
LEMMA StopVain ==
  ASSUME VainInv, NEW e \in Endpoints, Stop(e) \/ StopByTimeout(e)
  PROVE  KnowsDisturbed' /\ InVain'
<1>1. /\ UNCHANGED <<poolVars, callVars, link, disturbed>>
      /\ phase[e] = "draining" /\ phase' = [phase EXCEPT ![e] = "stopped"]
      /\ open' = open \ At(e)
      /\ answers' \subseteq answers
  BY StopIsStopWith DEF StopWith, EndSockets
<1>2. ASSUME NEW f \in Endpoints, AtRest(f) PROVE AtRest(f)'
  <2>1. f # e /\ phase'[f] = "up" BY <1>1, <1>2 DEF AtRest, VainInv, IInv, ServerTypes
  <2>2. \A k \in At(f) : k \notin At(e) BY <2>1 DEF At
  <2>3. At(f)' = At(f) BY DEF At
  <2>4. QED BY <1>1, <1>2, <2>1, <2>2, <2>3 DEF AtRest
<1>3. \A c \in Calls : excused'[c] = 0 => excused[c] = 0
  BY StopIsStopWith, EndTypes DEF VainInv
<1>4. QED BY <1>1, <1>2, <1>3, ServersVain

LEMMA ThrowVain ==
  ASSUME VainInv, NEW k \in Conns, HandlerThrows(k)
  PROVE  KnowsDisturbed' /\ InVain'
<1>1. /\ UNCHANGED <<poolVars, callVars, link, phase>>
      /\ disturbed' = DisturbedBy(Server(k)) /\ disturbed \in [Calls -> SUBSET Endpoints]
      /\ open' = open \ {k}
      /\ answers' \subseteq answers
  BY DEF HandlerThrows, EndSockets, VainInv, IInv, ServerTypes
<1>2. ASSUME NEW f \in Endpoints, f # Server(k), AtRest(f) PROVE AtRest(f)'
  BY <1>1, <1>2 DEF AtRest, At
<1>3. \A c \in Calls :
        /\ disturbed[c] \subseteq disturbed'[c]
        /\ Active(c) => Server(k) \in disturbed'[c]
  BY <1>1 DEF DisturbedBy, Active
<1>4. \A c \in Calls : excused'[c] = 0 => excused[c] = 0
  BY EndTypes DEF HandlerThrows, VainInv
<1>5. ASSUME NEW f \in Endpoints, ~AtRest(f)'
      PROVE  ~AtRest(f) \/ \A c \in Calls : Active(c) => f \in disturbed'[c]
  <2>1. CASE f = Server(k) BY <1>3, <2>1
  <2>2. CASE f # Server(k) BY <1>2, <1>5, <2>2
  <2>3. QED BY <2>1, <2>2
<1>6. \A m \in answers' : m \in answers BY <1>1
<1>7. QED BY <1>1, <1>3, <1>4, <1>5, <1>6, ServersVain

LEMMA DrainVain ==
  ASSUME VainInv, NEW e \in Endpoints, Drain(e) \/ Restart(e)
  PROVE  KnowsDisturbed' /\ InVain'
<1>1. UNCHANGED <<poolVars, callVars, link, open, answers, excused>>
  BY DEF Drain, Restart, vars, netVars
<1>2. \A f \in Endpoints : At(f)' = At(f) BY DEF At
<1>3. CASE Drain(e)
  <2>1. /\ phase' = [phase EXCEPT ![e] = "draining"] /\ phase \in [Endpoints -> {"up", "draining", "stopped"}]
        /\ disturbed' = [c \in Calls |->
             IF stage[c] \in {"new", "fulfilled", "failed"} THEN disturbed[c] ELSE disturbed[c] \cup {e}]
    BY <1>3 DEF Drain, DisturbedBy, VainInv, IInv, ServerTypes
  <2>2. \A f \in Endpoints : f # e => (AtRest(f)' <=> AtRest(f)) BY <1>1, <1>2, <2>1 DEF AtRest
  <2>3. \A c \in Calls : Active(c) => e \in disturbed'[c] BY <2>1 DEF Active
  <2>4. \A c \in Calls : disturbed[c] \subseteq disturbed'[c] BY <2>1
  <2>5. QED BY <1>1, <2>2, <2>3, <2>4, ServersVain
<1>4. CASE Restart(e)
  <2>1. /\ phase' = [phase EXCEPT ![e] = "up"] /\ phase \in [Endpoints -> {"up", "draining", "stopped"}]
        /\ disturbed' = disturbed
    BY <1>4 DEF Restart, VainInv, IInv, ServerTypes
  <2>2. \A f \in Endpoints : AtRest(f) => AtRest(f)' BY <1>1, <1>2, <2>1 DEF AtRest
  <2>3. QED BY <1>1, <2>1, <2>2, ServersVain
<1>5. QED BY <1>3, <1>4

\* What the client does disturbs no endpoint.
LEMMA ClientDisturbs ==
  ASSUME NEW e \in Endpoints, UNCHANGED phase, open \subseteq open',
         \A k \in Conns : link'[k] = "connected" => link[k] = "connected" \/ k \in open',
         AtRest(e)
  PROVE  AtRest(e)'
BY DEF AtRest, At

\* Calls of S fail their attempts, all others are as they were.
LEMMA FailVain ==
  ASSUME VainInv, NEW S, NEW err \in Errors, FailAttempts(S, err, attempt),
         UNCHANGED <<picks, via, phase, open, disturbed, excused>>, answers' \subseteq answers,
         \A k \in Conns : link'[k] = "connected" => link[k] = "connected",
         \A c \in S : /\ c \in Calls /\ stage[c] \in {"connecting", "sent"}
                      /\ err = "fatal" \/ excused[c] # 0 \/ Server(via[c]) \in disturbed[c]
  PROVE  KnowsDisturbed' /\ InVain'
<1>1. \A e \in Endpoints : AtRest(e) => AtRest(e)' BY ClientDisturbs
<1>2. ASSUME NEW c \in Calls
      PROVE  /\ c \in S => /\ lastError'[c] \in {err, "thrown"}
                            /\ stage'[c] \in {"backoff", "failed"}
             /\ c \in S /\ err = "fatal" => stage'[c] = "failed"
             /\ c \notin S => stage'[c] = stage[c] /\ lastError'[c] = lastError[c]
  BY DEF FailAttempts, Retryable
<1>3. \A c \in Calls : Active(c)' => Active(c) BY <1>2 DEF Active
<1>4. KnowsDisturbed' BY <1>1, <1>3 DEF VainInv, KnowsDisturbed
<1>5. ASSUME NEW c \in Calls PROVE TriedInVain(c)'
  <2>1. c \in S => FailsForCause(c) BY <1>2 DEF FailsForCause, Errors
  <2>2. TriedInVain(c) BY DEF VainInv, InVain
  <2>3. QED BY <1>2, <2>1, <2>2, VainStep
<1>6. QED BY <1>4, <1>5 DEF InVain

\* An attempt that fails at once has found its socket gone.
LEMMA AttemptVain ==
  ASSUME VainInv, NEW c \in Calls, ClientStarts(c) \/ ClientRetries(c)
  PROVE  KnowsDisturbed' /\ InVain'
<1>1. /\ Attempt(c) /\ stage[c] \in {"new", "backoff"} /\ SendsIfOpen(c)
      /\ UNCHANGED <<serverVars, excused>>
      /\ \/ stage[c] = "new" /\ disturbed' = [disturbed EXCEPT ![c] = {e \in Endpoints : ~AtRest(e)}]
         \/ stage[c] = "backoff" /\ disturbed' = disturbed
  BY DEF ClientStarts, ClientRetries, Start, Retry
<1>2. PICK e \in Select, i \in 1 .. MaxConnections :
        LET k == <<e, i>>
        IN /\ picks' = Append(picks, <<c, k>>)
           /\ via' = [via EXCEPT ![c] = k]
           /\ \/ /\ link[k] = "connected"
                 /\ stage' = [stage EXCEPT ![c] = "sent"]
                 /\ UNCHANGED <<link, lastError>>
              \/ /\ link[k] = "connected"
                 /\ FailAttempts({c}, "retryable", attempt')
                 /\ UNCHANGED link
              \/ /\ link[k] = "wedged"
                 /\ UNCHANGED link
              \/ /\ link[k] \notin {"connected", "wedged"}
                 /\ stage' = [stage EXCEPT ![c] = "connecting"]
                 /\ link' = [link EXCEPT ![k] = IF @ = "closing" THEN @ ELSE "connecting"]
                 /\ UNCHANGED lastError
           /\ answers' = answers
  BY <1>1, Zenon DEF Attempt
<1> DEFINE k == <<e, i>>
<1>3. k \in Conns /\ Server(k) = e /\ e \in Endpoints /\ via'[c] = k
      /\ \A d \in Calls : d # c => via'[d] = via[d]
  BY <1>2, SelectType, Facts DEF Conns, Server, VainInv, IInv, RoundInv, TypeInv, WireTypes
<1>4. link[k] # "wedged" BY <1>3 DEF VainInv, IInv, FlightInv, SentOnConnected
<1>5. /\ \A d \in Calls : d # c => stage'[d] = stage[d] /\ lastError'[d] = lastError[d]
      /\ \/ stage'[c] \in {"connecting", "sent"}
         \/ /\ link[k] = "connected" /\ stage'[c] \in {"backoff", "failed"}
            /\ lastError'[c] \in {"retryable", "thrown"}
  <2>1. CASE FailAttempts({c}, "retryable", attempt') /\ link[k] = "connected"
    BY <2>1 DEF FailAttempts
  <2>2. CASE ~(FailAttempts({c}, "retryable", attempt') /\ link[k] = "connected")
    BY <1>2, <1>4, <2>2, Facts DEF VainInv, IInv
  <2>3. QED BY <2>1, <2>2
<1>6. \A f \in Endpoints : AtRest(f) => AtRest(f)'
  <2>1. \A x \in Conns : link'[x] = "connected" => link[x] = "connected"
    BY <1>2, <1>4 DEF VainInv, IInv, FlightInv, SentOnConnected
  <2>2. QED BY <1>1, <2>1, ClientDisturbs DEF serverVars
<1>7. disturbed \in [Calls -> SUBSET Endpoints] BY DEF VainInv, IInv, ServerTypes
<1>8. \A d \in Calls : d # c => disturbed'[d] = disturbed[d] BY <1>1, <1>7
<1>9. \A f \in Endpoints : ~AtRest(f) => f \in disturbed'[c]
  BY <1>1, <1>7 DEF VainInv, KnowsDisturbed, Active
<1>10. KnowsDisturbed'
  <2>1. \A d \in Calls, f \in Endpoints : Active(d)' /\ ~AtRest(f)' => f \in disturbed'[d]
    BY <1>5, <1>6, <1>8, <1>9 DEF VainInv, KnowsDisturbed, Active
  <2>2. \A m \in answers : m[1] # c /\ m[1] \in Calls
    BY <1>1, NothingLive, Facts DEF VainInv, IInv
  <2>3. QED BY <1>1, <1>2, <1>8, <2>1, <2>2 DEF VainInv, KnowsDisturbed
<1>11. ASSUME NEW d \in Calls PROVE TriedInVain(d)'
  <2> DEFINE n == Len(picks)
  <2>1. /\ n \in Nat /\ DOMAIN picks = 1 .. n /\ DOMAIN picks' = 1 .. n + 1
        /\ \A j \in 1 .. n : picks'[j] = picks[j]
        /\ picks'[n + 1] = <<c, k>>
    BY <1>2, <1>3, AppendProperties, LenProperties DEF VainInv, IInv, RoundInv, TypeInv, WireTypes
  <2> HIDE DEF n
  <2>2. TriedInVain(d) BY DEF VainInv, InVain
  <2>3. CASE d # c
    <3>1. PicksOf(d)' = PicksOf(d) BY <2>1, <2>3 DEF PicksOf
    <3>2. \A j \in PicksOf(d) : picks'[j] = picks[j] BY <2>1 DEF PicksOf
    <3>3. \A x : Accounted(d, x)' <=> Accounted(d, x)
      BY <1>3, <1>5, <1>8, <2>3 DEF Accounted, Server
    <3>4. excused'[d] = excused[d] BY <1>1
    <3>5. QED BY <1>5, <2>2, <2>3, <3>1, <3>2, <3>3, <3>4 DEF TriedInVain, Active
  <2>4. CASE d = c
    <3>1. PicksOf(c)' = PicksOf(c) \cup {n + 1} /\ \A j \in PicksOf(c) : picks'[j] = picks[j]
      BY <2>1 DEF PicksOf
    <3>2. ASSUME excused[c] = 0, NEW j \in PicksOf(c) PROVE Accounted(c, picks[j][2])'
      <4>1. stage[c] = "backoff" /\ disturbed' = disturbed BY <1>1, <2>2, <2>4 DEF TriedInVain
      <4>2. Accounted(c, picks[j][2]) BY <2>2, <2>4, <3>2, <4>1 DEF TriedInVain, Active
      <4>3. Server(picks'[j][2]) \in disturbed[c] BY <3>1, <4>1, <4>2 DEF Accounted
      <4>4. QED BY <4>1, <4>3 DEF Accounted, Server
    <3>3. Accounted(c, k)'
      <4>1. CASE stage'[c] \in {"connecting", "sent"} BY <1>3, <4>1 DEF Accounted
      <4>2. CASE stage'[c] \notin {"connecting", "sent"}
        <5>1. link[k] = "connected" /\ k \notin open
          BY <1>1, <1>3, <1>5, <4>2 DEF SendsIfOpen
        <5>2. ~AtRest(e) BY <1>3, <5>1 DEF AtRest, At
        <5>3. Server(k) \in disturbed'[c] BY <1>3, <1>9, <5>2
        <5>4. QED BY <5>3 DEF Accounted, Server
      <4>3. QED BY <4>1, <4>2
    <3>4. picks'[n + 1][2] = k BY <2>1
    <3>5. excused'[c] = excused[c] BY <1>1
    <3>6. stage'[c] # "new" /\ (stage'[c] = "failed" => lastError'[c] # "none") BY <1>5
    <3> HIDE DEF k
    <3>7. QED BY <2>4, <3>1, <3>2, <3>3, <3>4, <3>5, <3>6 DEF TriedInVain
  <2>5. QED BY <2>3, <2>4
<1>12. QED BY <1>10, <1>11 DEF InVain

LEMMA DeliverVain ==
  ASSUME VainInv, NEW m \in answers, ClientHears(m[1], m[2], m[3], m[4])
  PROVE  KnowsDisturbed' /\ InVain'
<1>1. /\ m[1] \in Calls /\ m[4] \in {"ok"} \cup Errors
      /\ stage[m[1]] = "sent" /\ via[m[1]] = m[3]
  BY Facts DEF VainInv, IInv, FlightInv, OfCurrentAttempt, Mine, Errors
<1>2. /\ answers' = answers \ {<<m[1], m[2], m[3], m[4]>>}
      /\ UNCHANGED <<picks, via, link, attempt, phase, open, disturbed, excused>>
  BY DEF ClientHears, Deliver, poolVars, serverVars
<1>3. CASE m[4] = "ok"
  <2>1. stage' = [stage EXCEPT ![m[1]] = "fulfilled"] /\ lastError' = lastError
    BY <1>1, <1>3 DEF ClientHears, Deliver
  <2>2. \A c \in Calls : \/ stage'[c] = stage[c] /\ lastError'[c] = lastError[c]
                         \/ stage'[c] = "fulfilled"
    BY <2>1, Facts DEF VainInv, IInv
  <2>3. \A c \in Calls : Active(c)' => Active(c) BY <2>2 DEF Active
  <2>4. \A e \in Endpoints : AtRest(e) => AtRest(e)' BY <1>2, ClientDisturbs
  <2>5. KnowsDisturbed' BY <1>2, <2>3, <2>4 DEF VainInv, KnowsDisturbed
  <2>6. \A c \in Calls : TriedInVain(c)' BY <1>2, <2>2, VainStep DEF VainInv, InVain
  <2>7. QED BY <2>5, <2>6 DEF InVain
<1>4. CASE m[4] # "ok"
  <2>1. FailAttempts({m[1]}, m[4], attempt) /\ m[4] \in Errors
    BY <1>1, <1>4, Zenon DEF ClientHears, Deliver
  <2>2. m[4] = "fatal" \/ excused[m[1]] # 0 \/ Server(via[m[1]]) \in disturbed[m[1]]
    BY <1>1, <2>1 DEF VainInv, KnowsDisturbed, Errors
  <2>3. answers' \subseteq answers BY <1>2
  <2>4. QED BY <1>1, <1>2, <2>1, <2>2, <2>3, FailVain
<1>5. QED BY <1>3, <1>4

\* A connect() is refused only by a server that is not up, and a connection ends only with
\* its server.
LEMMA LinkVain ==
  ASSUME VainInv, NEW k \in Conns,
         Connects(k) \/ ConnectionRefused(k) \/ Redials(k) \/ ConnectionEnds(k)
  PROVE  KnowsDisturbed' /\ InVain'
<1>0. link \in [Conns -> {"idle", "connecting", "connected", "reconnecting"}] /\ Server(k) \in Endpoints
  BY DEF VainInv, IInv, FlightInv, SentOnConnected, Conns, Server
<1>1. CASE Connects(k)
  <2>1. /\ link' = [link EXCEPT ![k] = "connected"] /\ open' = open \cup {k}
        /\ stage' = [c \in Calls |-> IF c \in Waiting(k) THEN "sent" ELSE stage[c]]
        /\ UNCHANGED <<picks, via, lastError, answers, phase, disturbed, excused>>
    BY <1>1 DEF Connects, ConnectDone, poolVars
  <2>2. \A c \in Calls : \/ stage'[c] = stage[c]
                         \/ stage[c] = "connecting" /\ stage'[c] = "sent"
    BY <2>1 DEF Waiting
  <2>3. \A e \in Endpoints : AtRest(e) => AtRest(e)' BY <1>0, <2>1, ClientDisturbs
  <2>4. \A c \in Calls : Active(c)' <=> Active(c) BY <2>2 DEF Active
  <2>5. KnowsDisturbed' BY <2>1, <2>3, <2>4 DEF VainInv, KnowsDisturbed
  <2>6. \A c \in Calls : TriedInVain(c)' BY <2>1, <2>2, VainStep DEF VainInv, InVain
  <2>7. QED BY <2>5, <2>6 DEF InVain
<1>2. CASE ConnectionRefused(k) \/ ConnectionEnds(k)
  <2>1. PICK S \in {Waiting(k), Sent(k)}, err \in {"retryable", "fatal"} :
          /\ FailAttempts(S, err, attempt)
          /\ link' = [link EXCEPT ![k] = "reconnecting"] /\ answers' \subseteq answers
          /\ UNCHANGED <<picks, via, phase, open, disturbed, excused>>
    BY <1>2 DEF ConnectionRefused, ConnectFails, ConnectionEnds, Disconnected, LinkLost,
       poolVars, netVars, serverVars
  <2>2. ~AtRest(Server(k))
    BY <1>2 DEF ConnectionRefused, ConnectionEnds, Disconnected, LinkLost, Accepts,
       AtRest, At
  <2>3. ASSUME NEW c \in S
        PROVE  c \in Calls /\ stage[c] \in {"connecting", "sent"} /\ Server(via[c]) \in disturbed[c]
    <3>1. c \in Calls /\ stage[c] \in {"connecting", "sent"} /\ via[c] = k
      BY <2>3 DEF Waiting, Sent
    <3>2. QED BY <1>0, <2>2, <3>1 DEF VainInv, KnowsDisturbed, Active
  <2>4. \A x \in Conns : link'[x] = "connected" => link[x] = "connected" BY <1>0, <2>1
  <2>5. err \in Errors BY DEF Errors
  <2>6. QED BY <2>1, <2>3, <2>4, <2>5, FailVain
<1>3. CASE Redials(k)
  <2>1. /\ link' = [link EXCEPT ![k] = "connecting"]
        /\ UNCHANGED <<picks, stage, via, lastError, answers, phase, open, disturbed, excused>>
    BY <1>3 DEF Redials, Reconnect, poolVars, callVars, netVars, serverVars
  <2>2. \A e \in Endpoints : AtRest(e) => AtRest(e)' BY <1>0, <2>1, ClientDisturbs
  <2>3. KnowsDisturbed' BY <2>1, <2>2 DEF VainInv, KnowsDisturbed, Active
  <2>4. \A c \in Calls : TriedInVain(c)' BY <2>1, VainStep DEF VainInv, InVain
  <2>5. QED BY <2>3, <2>4 DEF InVain
<1>4. QED BY <1>1, <1>2, <1>3

LEMMA NextVain == ASSUME VainInv, [DeployNext]_deployVars PROVE KnowsDisturbed' /\ InVain'
<1>1. ASSUME NEW e \in Endpoints, ServerSteps(e) PROVE KnowsDisturbed' /\ InVain'
  BY <1>1, StopVain, DrainVain DEF ServerSteps
<1>2. CASE UNCHANGED deployVars
  <2>1. \A e : AtRest(e)' <=> AtRest(e) BY <1>2 DEF deployVars, vars, serverVars, AtRest
  <2>2. QED BY <1>2, <2>1, ServersVain DEF deployVars, vars, netVars
<1>3. QED
  BY <1>1, <1>2, RefuseVain, BeginVain, FinishVain, ThrowVain, AttemptVain, DeliverVain, LinkVain
     DEF DeployNext, ServerSteps

LEMMA InitVain == ASSUME DeployInit PROVE KnowsDisturbed /\ InVain
<1>1. \A c \in Calls : ~Active(c) /\ PicksOf(c) = {} /\ stage[c] # "failed"
  BY DEF DeployInit, WarmInit, Active, PicksOf
<1>2. InVain BY <1>1 DEF InVain, TriedInVain
<1>3. answers = {} BY DEF DeployInit, WarmInit
<1>4. QED BY <1>1, <1>2, <1>3 DEF KnowsDisturbed

\* Restarting servers gracefully is not noticed by a call that round robin serves alone: it
\* fails for want of a server only if every endpoint, however many there are, was restarting,
\* had a connection left from before, or lost one to a handler that threw, while it ran.
THEOREM RestartUnnoticed == DeploySpec => []RestartGoesUnnoticed
<1>1. DeployInit => VainInv BY InitInv, InitVain DEF VainInv
<1>2. VainInv /\ [DeployNext]_deployVars => VainInv'
  BY NextRound, NextFlight, NextServers, NextVain DEF VainInv, IInv
<1>3. VainInv => RestartGoesUnnoticed
  <2>1. SUFFICES ASSUME VainInv, NEW c \in Calls,
                        Balancer = "roundRobin", RetryMaxAttempts = NotConfigured,
                        stage[c] = "failed", lastError[c] \notin {"fatal", "thrown"}, Alone(c), excused[c] = 0
                 PROVE  disturbed[c] = Endpoints
    BY DEF RestartGoesUnnoticed
  <2>2. lastError[c] \in {"draining", "retryable"}
    BY <2>1 DEF VainInv, IInv, RoundInv, TypeInv, WireTypes, Errors, InVain, TriedInVain
  <2>3. ~MoreAttempts(attempt[c]) BY <2>1, <2>2 DEF VainInv, IInv, RoundInv, GivesUpLate
  <2>4. attempt[c] >= Len(Lookup)
    <3>1. attempt[c] \in Nat /\ Len(Lookup) \in Nat BY <2>1, Facts, LookupType DEF VainInv, IInv
    <3>2. MaxAttempts = Len(Lookup) BY <2>1 DEF MaxAttempts
    <3>3. QED BY <2>3, <3>1, <3>2 DEF MoreAttempts
  <2>5. Tried(c) = Endpoints BY <2>1, <2>4, RoundTriesAll DEF VainInv, IInv
  <2>6. \A i \in PicksOf(c) : picks[i][2][1] \in disturbed[c]
    BY <2>1 DEF VainInv, InVain, TriedInVain, Accounted, Server
  <2>7. disturbed[c] \subseteq Endpoints BY <2>1 DEF VainInv, IInv, ServerTypes
  <2>8. QED BY <2>5, <2>6, <2>7 DEF Tried
<1>4. QED BY <1>1, <1>2, <1>3, PTL DEF DeploySpec
=============================================================================
