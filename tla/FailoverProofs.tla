---------------------------- MODULE FailoverProofs ----------------------------
(***************************************************************************)
(* What holds of calls in discovery mode for any number of calls,          *)
(* endpoints and connections, any load balancer and any retry rule.        *)
(***************************************************************************)
EXTENDS Failover, SequenceLemmas

USE CallsAssumption

-----------------------------------------------------------------------------
(* Requests and what became of them.                                       *)

\* What is on its way is a request or an answer of some call.
Shapes ==
  /\ IsFiniteSet(requests) /\ \A r \in requests : r = <<r[1], r[2], r[3]>> /\ r[1] \in Calls
  /\ IsFiniteSet(answers)
  /\ \A m \in answers :
       m = <<m[1], m[2], m[3], m[4]>> /\ m[1] \in Calls /\ m[4] \in {"ok"} \cup Errors
  /\ stage \in [Calls -> Stages] /\ attempt \in [Calls -> Nat]
  /\ runs \in [Calls -> Nat] /\ unknown \in [Calls -> Nat]

RequestsOf(c) == {r \in requests : r[1] = c}
RefusalsOf(c) == {m \in answers : m[1] = c /\ m[4] = "draining"}

\* Requests of c that have been written and not been taken, and refusals on their way.
Underway(c) == Cardinality(RequestsOf(c)) + Cardinality(RefusalsOf(c))

\* The written attempts of c, except refusals that have arrived.
Load(c) == runs[c] + Underway(c)

LEMMA UnderwayType ==
  ASSUME Shapes, NEW c \in Calls
  PROVE  /\ IsFiniteSet(RequestsOf(c)) /\ Cardinality(RequestsOf(c)) \in Nat
         /\ IsFiniteSet(RefusalsOf(c)) /\ Cardinality(RefusalsOf(c)) \in Nat
         /\ Underway(c) \in Nat /\ Load(c) \in Nat
<1>1. RequestsOf(c) \in SUBSET requests /\ RefusalsOf(c) \in SUBSET answers
  BY DEF RequestsOf, RefusalsOf
<1>2. IsFiniteSet(RequestsOf(c)) /\ IsFiniteSet(RefusalsOf(c)) BY <1>1, FS_Subset DEF Shapes
<1>3. Cardinality(RequestsOf(c)) \in Nat /\ Cardinality(RefusalsOf(c)) \in Nat
  BY <1>2, FS_CardinalityType
<1>4. runs[c] \in Nat BY DEF Shapes
<1>5. QED BY <1>2, <1>3, <1>4 DEF Underway, Load

LEMMA UnderwayTypeNext ==
  ASSUME Shapes', NEW c \in Calls
  PROVE  /\ IsFiniteSet(RequestsOf(c)') /\ Cardinality(RequestsOf(c)') \in Nat
         /\ IsFiniteSet(RefusalsOf(c)') /\ Cardinality(RefusalsOf(c)') \in Nat
         /\ Underway(c)' \in Nat /\ Load(c)' \in Nat
<1>1. RequestsOf(c)' \in SUBSET requests' /\ RefusalsOf(c)' \in SUBSET answers'
  BY DEF RequestsOf, RefusalsOf
<1>2. IsFiniteSet(RequestsOf(c)') /\ IsFiniteSet(RefusalsOf(c)')
  BY <1>1, FS_Subset DEF Shapes
<1>3. Cardinality(RequestsOf(c)') \in Nat /\ Cardinality(RefusalsOf(c)') \in Nat
  BY <1>2, FS_CardinalityType
<1>4. runs'[c] \in Nat BY DEF Shapes
<1>5. QED BY <1>2, <1>3, <1>4 DEF Underway, Load

\* A request more.
LEMMA OneRequestMore ==
  ASSUME Shapes, NEW c \in Calls, NEW r, RequestsOf(c)' = RequestsOf(c) \cup {r}
  PROVE  Cardinality(RequestsOf(c)') <= Cardinality(RequestsOf(c)) + 1
<1>1. IsFiniteSet(RequestsOf(c)) /\ Cardinality(RequestsOf(c)) \in Nat BY UnderwayType
<1>2. Cardinality(RequestsOf(c) \cup {r})
        = IF r \in RequestsOf(c) THEN Cardinality(RequestsOf(c)) ELSE Cardinality(RequestsOf(c)) + 1
  BY <1>1, FS_AddElement
<1>3. QED BY <1>1, <1>2

\* No request more and no refusal more.
LEMMA NotMore ==
  ASSUME Shapes, NEW c \in Calls, runs'[c] = runs[c],
         RequestsOf(c)' \subseteq RequestsOf(c), RefusalsOf(c)' \subseteq RefusalsOf(c)
  PROVE  Load(c)' <= Load(c)
<1>1. /\ IsFiniteSet(RequestsOf(c)') /\ Cardinality(RequestsOf(c)') <= Cardinality(RequestsOf(c))
      /\ IsFiniteSet(RefusalsOf(c)') /\ Cardinality(RefusalsOf(c)') <= Cardinality(RefusalsOf(c))
  BY UnderwayType, FS_Subset
<1>2. Cardinality(RequestsOf(c)') \in Nat /\ Cardinality(RefusalsOf(c)') \in Nat
  BY <1>1, FS_CardinalityType
<1>3. runs[c] \in Nat BY DEF Shapes
<1>4. QED BY <1>1, <1>2, <1>3, UnderwayType DEF Underway, Load

-----------------------------------------------------------------------------
(* What a step means for a call.                                           *)

\* An attempt has failed: the call sleeps or ends.
Fails(c) == stage'[c] = "failed" \/ (stage'[c] = "backoff" /\ MoreAttempts(attempt'[c]))

\* It makes an attempt.
Tries(c) ==
  /\ stage[c] \in {"new", "backoff"}
  /\ attempt'[c] = attempt[c] + 1 /\ unknown'[c] = unknown[c]
  /\ \/ (stage'[c] = "connecting" \/ Fails(c)) /\ Load(c)' <= Load(c)
     \/ stage'[c] = "sent" /\ Load(c)' <= Load(c) + 1

\* It makes none: nothing happens to it, it finds no endpoint, its connect() fails or
\* succeeds, its request is lost, settled or refused.
GoesOn(c) ==
  /\ attempt'[c] = attempt[c]
  /\ \/ stage'[c] = stage[c] /\ unknown'[c] = unknown[c] /\ Load(c)' <= Load(c)
     \/ /\ stage[c] = "new" /\ stage'[c] = "failed"
        /\ unknown'[c] = unknown[c] /\ Load(c)' <= Load(c)
     \/ stage[c] = "connecting" /\ Fails(c) /\ unknown'[c] = unknown[c] /\ Load(c)' <= Load(c)
     \/ /\ stage[c] = "connecting" /\ stage'[c] = "sent"
        /\ unknown'[c] = unknown[c] /\ Load(c)' <= Load(c) + 1
     \/ stage[c] = "sent" /\ Fails(c) /\ unknown'[c] = unknown[c] + 1 /\ Load(c)' <= Load(c)
     \/ /\ stage[c] = "sent" /\ stage'[c] \in {"fulfilled", "failed"}
        /\ unknown'[c] = unknown[c] /\ Load(c)' <= Load(c)
     \/ stage[c] = "sent" /\ Fails(c) /\ unknown'[c] = unknown[c] /\ Load(c)' <= Load(c) - 1

Moves == Shapes' /\ \A c \in Calls : Tries(c) \/ GoesOn(c)

USE DEF Stages

\* The calls of S fail an attempt.
LEMMA FailStage ==
  ASSUME Shapes, NEW S, NEW e, FailAttempts(S, e, attempt')
  PROVE  /\ stage' \in [Calls -> Stages]
         /\ \A c \in Calls : c \in S => Fails(c)
         /\ \A c \in Calls : c \notin S => stage'[c] = stage[c]
<1>1. \A c \in Calls : c \in S => Fails(c) BY DEF FailAttempts, Fails
<1>2. \A c \in Calls : c \notin S => stage'[c] = stage[c] BY DEF FailAttempts
<1>3. stage' \in [Calls -> Stages]
  BY <1>1, <1>2, stage' = [c \in Calls |-> stage'[c]] DEF Shapes, FailAttempts, Fails
<1>4. QED BY <1>1, <1>2, <1>3

\* Attempts that were written fail and are counted as unknown.
LEMMA FailUnknown ==
  ASSUME Shapes, NEW S \in SUBSET Calls, \A c \in S : stage[c] = "sent",
         NEW e, FailAttempts(S, e, attempt), CountUnknown(S), UNCHANGED attempt,
         \A c \in Calls : Load(c)' <= Load(c)
  PROVE  /\ stage' \in [Calls -> Stages] /\ unknown' \in [Calls -> Nat]
         /\ \A c \in Calls : GoesOn(c)
<1>1. unknown' \in [Calls -> Nat] BY DEF CountUnknown, Shapes
<1>2. \A c \in Calls : unknown'[c] = IF c \in S THEN unknown[c] + 1 ELSE unknown[c]
  BY DEF CountUnknown
<1>3. /\ stage' \in [Calls -> Stages] /\ \A c \in Calls : c \in S => Fails(c)
      /\ \A c \in Calls : c \notin S => stage'[c] = stage[c]
  BY FailStage
<1>4. QED BY <1>1, <1>2, <1>3 DEF GoesOn

-----------------------------------------------------------------------------
(* Every step.                                                             *)

\* A call makes an attempt: a request is written, or none.
LEMMA AttemptMoves ==
  ASSUME Shapes, NEW c \in Calls, stage[c] \in {"new", "backoff"}, Attempt(c)
  PROVE  Moves
<1>1. PICK e \in Select, i \in 1 .. MaxConnections : 
        /\ attempt' = [attempt EXCEPT ![c] = @ + 1]
        /\ \/ /\ stage' = [stage EXCEPT ![c] = "sent"]
              /\ requests' = requests \cup {<<c, attempt'[c], <<e, i>>>>}
           \/ /\ \E err : FailAttempts({c}, err, attempt')
              /\ UNCHANGED requests
           \/ /\ stage' = [stage EXCEPT ![c] = "connecting"]
              /\ UNCHANGED requests
        /\ UNCHANGED <<answers, runs, unknown>>
  BY Zenon DEF Attempt
<1>2. \A d \in Calls : RefusalsOf(d)' = RefusalsOf(d) BY <1>1 DEF RefusalsOf
<1>3. /\ attempt' \in [Calls -> Nat] /\ attempt'[c] = attempt[c] + 1
      /\ \A d \in Calls : d # c => attempt'[d] = attempt[d]
  BY <1>1 DEF Shapes
<1>4. ASSUME NEW d \in Calls, RequestsOf(d)' = RequestsOf(d) PROVE Load(d)' <= Load(d)
  <2>1. Load(d)' = Load(d) BY <1>1, <1>2, <1>4 DEF Load, Underway
  <2>2. QED BY <2>1, UnderwayType
<1>5. CASE /\ stage' = [stage EXCEPT ![c] = "sent"]
           /\ requests' = requests \cup {<<c, attempt'[c], <<e, i>>>>}
  <2> DEFINE r == <<c, attempt'[c], <<e, i>>>>
  <2>1. Shapes'
    <3>1. IsFiniteSet(requests') BY <1>5, FS_AddElement DEF Shapes
    <3>2. QED BY <1>1, <1>3, <1>5, <3>1 DEF Shapes
  <2>2. RequestsOf(c)' = RequestsOf(c) \cup {r} BY <1>5 DEF RequestsOf
  <2>3. Load(c)' <= Load(c) + 1
    <3>1. Cardinality(RequestsOf(c)') <= Cardinality(RequestsOf(c)) + 1
      BY <2>2, OneRequestMore
    <3>2. runs'[c] = runs[c] /\ runs[c] \in Nat BY <1>1 DEF Shapes
    <3>3. QED BY <1>2, <2>1, <3>1, <3>2, UnderwayType, UnderwayTypeNext DEF Load, Underway
  <2>4. ASSUME NEW d \in Calls, d # c PROVE RequestsOf(d)' = RequestsOf(d)
    BY <1>5, <2>4 DEF RequestsOf
  <2>5. Tries(c) BY <1>1, <1>3, <1>5, <2>3 DEF Tries, Shapes
  <2>6. \A d \in Calls : d # c => GoesOn(d) BY <1>1, <1>3, <1>4, <1>5, <2>4 DEF GoesOn, Shapes
  <2>7. QED BY <2>1, <2>5, <2>6 DEF Moves
<1>6. CASE /\ UNCHANGED requests /\ stage' \in [Calls -> Stages]
           /\ stage'[c] = "connecting" \/ Fails(c)
           /\ \A d \in Calls : d # c => stage'[d] = stage[d]
  <2>1. Shapes' BY <1>1, <1>3, <1>6 DEF Shapes
  <2>2. \A d \in Calls : Load(d)' <= Load(d) BY <1>4, <1>6 DEF RequestsOf
  <2>3. Tries(c) BY <1>1, <1>3, <1>6, <2>2 DEF Tries
  <2>4. \A d \in Calls : d # c => GoesOn(d) BY <1>1, <1>3, <1>6, <2>2 DEF GoesOn
  <2>5. QED BY <2>1, <2>3, <2>4 DEF Moves
<1>7. CASE UNCHANGED requests /\ \E err : FailAttempts({c}, err, attempt')
  <2>1. PICK err : FailAttempts({c}, err, attempt') BY <1>7
  <2>2. /\ stage' \in [Calls -> Stages] /\ Fails(c)
        /\ \A d \in Calls : d # c => stage'[d] = stage[d]
    BY <2>1, FailStage
  <2>3. QED BY <1>6, <1>7, <2>2
<1>8. CASE UNCHANGED requests /\ stage' = [stage EXCEPT ![c] = "connecting"]
  BY <1>6, <1>8 DEF Shapes
<1>9. QED BY <1>1, <1>5, <1>7, <1>8

\* Nothing is written, taken or delivered.
LEMMA SameLoad ==
  ASSUME Shapes, UNCHANGED <<requests, answers, runs>>, NEW c \in Calls
  PROVE  Load(c)' <= Load(c)
<1>1. Load(c)' = Load(c) BY DEF Load, Underway, RequestsOf, RefusalsOf
<1>2. QED BY <1>1, UnderwayType

LEMMA StartUnknownMoves == ASSUME Shapes, NEW c \in Calls, StartUnknown(c) PROVE Moves
<1>1. /\ stage[c] = "new" /\ stage' = [stage EXCEPT ![c] = "failed"]
      /\ UNCHANGED <<attempt, requests, answers, runs, unknown>>
  BY DEF StartUnknown, netVars
<1>2. Shapes' BY <1>1 DEF Shapes
<1>3. \A d \in Calls : GoesOn(d) BY <1>1, SameLoad DEF GoesOn, Shapes
<1>4. QED BY <1>2, <1>3 DEF Moves

LEMMA TimeoutMoves == ASSUME Shapes, NEW c \in Calls, Timeout(c) PROVE Moves
<1>1. /\ FailAttempts({c}, "retryable", attempt) /\ CountUnknown({c})
      /\ {c} \in SUBSET Calls /\ \A d \in {c} : stage[d] = "sent"
      /\ UNCHANGED <<attempt, requests, answers, runs>>
  BY DEF Timeout, netVars
<1>2. /\ stage' \in [Calls -> Stages] /\ unknown' \in [Calls -> Nat]
      /\ \A d \in Calls : GoesOn(d)
  BY <1>1, SameLoad, FailUnknown
<1>3. QED BY <1>1, <1>2 DEF Shapes, Moves

LEMMA CloseClientMoves == ASSUME Shapes, CloseClient PROVE Moves
<1> DEFINE S == UNION {Sent(k) : k \in Conns}
<1>1. S \in SUBSET Calls /\ \A d \in S : stage[d] = "sent" BY DEF Sent
<1>2. /\ FailAttempts(S, "retryable", attempt) /\ CountUnknown(S)
      /\ UNCHANGED <<attempt, requests, answers, runs>>
  BY DEF CloseClient, netVars
<1> HIDE DEF S
<1>3. /\ stage' \in [Calls -> Stages] /\ unknown' \in [Calls -> Nat]
      /\ \A d \in Calls : GoesOn(d)
  BY <1>1, <1>2, SameLoad, FailUnknown
<1>4. QED BY <1>2, <1>3 DEF Shapes, Moves

\* What the old socket's server takes is still underway; its refusals are not.
LEMMA DisconnectedMoves == ASSUME Shapes, NEW k \in Conns, Disconnected(k) PROVE Moves
<1> DEFINE Moved(r) == <<r[1], r[2], IF r[3] = k THEN NoConn ELSE r[3]>>
<1>1. /\ requests' = {Moved(r) : r \in requests}
      /\ answers' = {m \in answers : m[3] # k}
      /\ UNCHANGED <<attempt, runs>>
  BY DEF Disconnected, LinkLost
<1>2. Sent(k) \in SUBSET Calls /\ \A d \in Sent(k) : stage[d] = "sent" BY DEF Sent
<1>3. PICK e : FailAttempts(Sent(k), e, attempt) /\ CountUnknown(Sent(k))
  BY DEF Disconnected, LinkLost
<1>4. ASSUME NEW c \in Calls PROVE Load(c)' <= Load(c)
  <2>1. RequestsOf(c)' = {Moved(r) : r \in RequestsOf(c)} BY <1>1 DEF RequestsOf
  <2>2. [r \in RequestsOf(c) |-> Moved(r)] \in Surjection(RequestsOf(c), RequestsOf(c)')
    BY <2>1 DEF Surjection
  <2>3. /\ IsFiniteSet(RequestsOf(c)')
        /\ Cardinality(RequestsOf(c)') <= Cardinality(RequestsOf(c))
    BY <2>2, UnderwayType, FS_Surjection
  <2>4. RefusalsOf(c)' \in SUBSET RefusalsOf(c) BY <1>1 DEF RefusalsOf
  <2>5. /\ IsFiniteSet(RefusalsOf(c)')
        /\ Cardinality(RefusalsOf(c)') <= Cardinality(RefusalsOf(c))
    BY <2>4, UnderwayType, FS_Subset
  <2>6. Cardinality(RequestsOf(c)') \in Nat /\ Cardinality(RefusalsOf(c)') \in Nat
    BY <2>3, <2>5, FS_CardinalityType
  <2>7. runs'[c] = runs[c] /\ runs[c] \in Nat BY <1>1 DEF Shapes
  <2>8. QED BY <2>3, <2>5, <2>6, <2>7, UnderwayType DEF Load, Underway
<1>5. /\ stage' \in [Calls -> Stages] /\ unknown' \in [Calls -> Nat]
      /\ \A d \in Calls : GoesOn(d)
  BY <1>1, <1>2, <1>3, <1>4, FailUnknown
<1>6. Shapes'
  <2>1. [r \in requests |-> Moved(r)] \in Surjection(requests, requests')
    BY <1>1 DEF Surjection
  <2>2. IsFiniteSet(requests') BY <2>1, FS_Surjection DEF Shapes
  <2>3. IsFiniteSet(answers') BY <1>1, FS_Subset DEF Shapes
  <2>4. \A r \in requests' : r = <<r[1], r[2], r[3]>> /\ r[1] \in Calls
    BY <1>1 DEF Shapes
  <2>5. QED BY <1>1, <1>5, <2>2, <2>3, <2>4 DEF Shapes
<1>7. QED BY <1>5, <1>6 DEF Moves

LEMMA StaleCloseMoves == ASSUME Shapes, NEW k \in Conns, StaleClose(k) PROVE Moves
<1>1. Sent(k) \in SUBSET Calls /\ \A d \in Sent(k) : stage[d] = "sent" BY DEF Sent
<1>2. UNCHANGED <<attempt, requests, answers, runs>> BY DEF StaleClose, LinkLost
<1>3. PICK e : FailAttempts(Sent(k), e, attempt) /\ CountUnknown(Sent(k))
  BY DEF StaleClose, LinkLost
<1>4. /\ stage' \in [Calls -> Stages] /\ unknown' \in [Calls -> Nat]
      /\ \A d \in Calls : GoesOn(d)
  BY <1>1, <1>2, <1>3, SameLoad, FailUnknown
<1>5. QED BY <1>2, <1>4 DEF Shapes, Moves

\* All who wait for a connection write a request each.
LEMMA ConnectDoneMoves == ASSUME Shapes, NEW k \in Conns, ConnectDone(k) PROVE Moves
<1> DEFINE R(c) == <<c, attempt[c], k>>
<1>1. /\ requests' = requests \cup {R(c) : c \in Waiting(k)}
      /\ stage' = [c \in Calls |-> IF c \in Waiting(k) THEN "sent" ELSE stage[c]]
      /\ UNCHANGED <<attempt, answers, runs, unknown>>
  BY DEF ConnectDone
<1>2. Waiting(k) \in SUBSET Calls /\ \A c \in Waiting(k) : stage[c] = "connecting" BY DEF Waiting
<1>3. Shapes'
  <2>1. [c \in Waiting(k) |-> R(c)] \in Surjection(Waiting(k), {R(c) : c \in Waiting(k)})
    BY DEF Surjection
  <2>2. IsFiniteSet({R(c) : c \in Waiting(k)}) BY <1>2, <2>1, FS_Subset, FS_Surjection
  <2>3. IsFiniteSet(requests') BY <1>1, <2>2, FS_Union DEF Shapes
  <2>4. \A r \in requests' : r = <<r[1], r[2], r[3]>> /\ r[1] \in Calls
    BY <1>1, <1>2 DEF Shapes
  <2>5. QED BY <1>1, <2>3, <2>4 DEF Shapes
<1>4. ASSUME NEW c \in Calls PROVE GoesOn(c)
  <2>1. RefusalsOf(c)' = RefusalsOf(c) BY <1>1 DEF RefusalsOf
  <2>2. runs'[c] = runs[c] /\ runs[c] \in Nat BY <1>1 DEF Shapes
  <2>3. CASE c \in Waiting(k)
    <3>1. RequestsOf(c)' = RequestsOf(c) \cup {R(c)} BY <1>1, <2>3 DEF RequestsOf
    <3>2. Cardinality(RequestsOf(c)') <= Cardinality(RequestsOf(c)) + 1
      BY <3>1, OneRequestMore
    <3>3. Load(c)' <= Load(c) + 1
      BY <1>3, <2>1, <2>2, <3>2, UnderwayType, UnderwayTypeNext DEF Load, Underway
    <3>4. QED BY <1>1, <1>2, <2>3, <3>3 DEF GoesOn
  <2>4. CASE c \notin Waiting(k)
    <3>1. RequestsOf(c)' = RequestsOf(c) BY <1>1, <2>4 DEF RequestsOf
    <3>2. Load(c)' <= Load(c) BY <2>1, <2>2, <3>1, NotMore
    <3>3. QED BY <1>1, <2>4, <3>2 DEF GoesOn
  <2>5. QED BY <2>3, <2>4
<1>5. QED BY <1>3, <1>4 DEF Moves

LEMMA ConnectFailsMoves ==
  ASSUME Shapes, NEW k \in Conns, ConnectFails(k) \/ ClosingEnds(k)
  PROVE  Moves
<1>1. /\ \E e : FailAttempts(Waiting(k), e, attempt)
      /\ UNCHANGED <<attempt, requests, answers, runs, unknown>>
  BY DEF ConnectFails, ClosingEnds, netVars
<1>2. \A c \in Waiting(k) : stage[c] = "connecting" BY DEF Waiting
<1>3. PICK e : FailAttempts(Waiting(k), e, attempt') BY <1>1
<1>4. /\ stage' \in [Calls -> Stages]
      /\ \A c \in Calls : c \in Waiting(k) => Fails(c)
      /\ \A c \in Calls : c \notin Waiting(k) => stage'[c] = stage[c]
  BY <1>3, FailStage
<1>5. Shapes' BY <1>1, <1>4 DEF Shapes
<1>6. \A c \in Calls : GoesOn(c) BY <1>1, <1>2, <1>4, SameLoad DEF GoesOn
<1>7. QED BY <1>5, <1>6 DEF Moves

\* A request is taken: it is refused, or the method runs and an answer may be given.
LEMMA TakeMoves ==
  ASSUME Shapes, NEW r \in requests, NEW a \in {"ok"} \cup Errors,
         requests' = requests \ {r},
         answers' \in {answers, answers \cup {<<r[1], r[2], r[3], a>>}},
         runs' = [runs EXCEPT ![r[1]] = IF a = "draining" THEN @ ELSE @ + 1],
         UNCHANGED <<stage, attempt, unknown>>
  PROVE  Moves
<1> DEFINE c == r[1]
           m == <<r[1], r[2], r[3], a>>
<1>1. r = <<r[1], r[2], r[3]>> /\ c \in Calls BY DEF Shapes
<1>2. /\ requests' = requests \ {r} /\ answers' \in {answers, answers \cup {m}}
      /\ runs' = [runs EXCEPT ![c] = IF a = "draining" THEN @ ELSE @ + 1]
      /\ UNCHANGED <<stage, attempt, unknown>>
  OBVIOUS
<1>3. Shapes'
  <2>1. IsFiniteSet(requests') BY <1>2, FS_RemoveElement DEF Shapes
  <2>2. IsFiniteSet(answers')
    <3>1. IsFiniteSet(answers \cup {m}) BY FS_AddElement DEF Shapes
    <3>2. QED BY <1>2, <3>1 DEF Shapes
  <2>3. \A x \in answers' :
          x = <<x[1], x[2], x[3], x[4]>> /\ x[1] \in Calls /\ x[4] \in {"ok"} \cup Errors
    BY <1>1, <1>2 DEF Shapes
  <2>4. QED BY <1>1, <1>2, <2>1, <2>2, <2>3 DEF Shapes
<1>4. ASSUME NEW d \in Calls PROVE Load(d)' <= Load(d)
  <2>1. runs[d] \in Nat BY DEF Shapes
  <2>2. /\ Cardinality(RequestsOf(d)) \in Nat /\ Cardinality(RefusalsOf(d)) \in Nat
        /\ Cardinality(RequestsOf(d)') \in Nat /\ Cardinality(RefusalsOf(d)') \in Nat
        /\ IsFiniteSet(RequestsOf(d)) /\ IsFiniteSet(RefusalsOf(d))
    BY <1>3, UnderwayType, UnderwayTypeNext
  <2>3. CASE d = c
    <3>1. RequestsOf(d)' = RequestsOf(d) \ {r} /\ r \in RequestsOf(d)
      BY <1>2, <2>3 DEF RequestsOf
    <3>2. Cardinality(RequestsOf(d)') = Cardinality(RequestsOf(d)) - 1
      BY <2>2, <3>1, FS_RemoveElement
    <3>3. CASE a = "draining"
      <4>1. RefusalsOf(d)' \in {RefusalsOf(d), RefusalsOf(d) \cup {m}} BY <1>2 DEF RefusalsOf
      <4>2. Cardinality(RefusalsOf(d)') <= Cardinality(RefusalsOf(d)) + 1
        <5>1. Cardinality(RefusalsOf(d) \cup {m})
                = IF m \in RefusalsOf(d) THEN Cardinality(RefusalsOf(d))
                                         ELSE Cardinality(RefusalsOf(d)) + 1
          BY <2>2, FS_AddElement
        <5> HIDE DEF m
        <5>2. Cardinality(RefusalsOf(d) \cup {m}) <= Cardinality(RefusalsOf(d)) + 1
          BY <2>2, <5>1
        <5>3. Cardinality(RefusalsOf(d)) <= Cardinality(RefusalsOf(d)) + 1 BY <2>2
        <5>4. QED BY <4>1, <5>2, <5>3
      <4>3. runs'[d] = runs[d] BY <1>2, <2>3, <3>3 DEF Shapes
      <4>4. QED BY <2>1, <2>2, <3>2, <4>2, <4>3 DEF Load, Underway
    <3>4. CASE a # "draining"
      <4>1. RefusalsOf(d)' = RefusalsOf(d) BY <1>2, <3>4 DEF RefusalsOf
      <4>2. runs'[d] = runs[d] + 1 BY <1>2, <2>3, <3>4 DEF Shapes
      <4>3. QED BY <2>1, <2>2, <3>2, <4>1, <4>2 DEF Load, Underway
    <3>5. QED BY <3>3, <3>4
  <2>4. CASE d # c
    <3>1. RequestsOf(d)' = RequestsOf(d) BY <1>2, <2>4 DEF RequestsOf
    <3>2. RefusalsOf(d)' = RefusalsOf(d) BY <1>2, <2>4 DEF RefusalsOf
    <3>3. runs'[d] = runs[d] BY <1>2, <2>4 DEF Shapes
    <3>4. QED BY <3>1, <3>2, <3>3, NotMore
  <2>5. QED BY <2>3, <2>4
<1>5. \A d \in Calls : GoesOn(d) BY <1>2, <1>4 DEF GoesOn
<1>6. QED BY <1>3, <1>5 DEF Moves

LEMMA ServeMoves ==
  ASSUME Shapes, NEW r \in requests, NEW a \in Answers, Serve(r[1], r[2], r[3], a)
  PROVE  Moves
<1>1. r = <<r[1], r[2], r[3]>> /\ a \in {"ok"} \cup Errors BY AnswersAssumption DEF Shapes
<1>2. /\ requests' = requests \ {r} /\ answers' \in {answers, answers \cup {<<r[1], r[2], r[3], a>>}}
      /\ runs' = [runs EXCEPT ![r[1]] = IF a = "draining" THEN @ ELSE @ + 1]
      /\ UNCHANGED <<stage, attempt, unknown>>
  BY <1>1 DEF Serve, callVars
<1>3. QED BY <1>1, <1>2, TakeMoves

\* An answer arrives, for the call that awaits it or for nobody.
LEMMA DeliverMoves ==
  ASSUME Shapes, NEW m \in answers, Deliver(m[1], m[2], m[3], m[4])
  PROVE  Moves
<1> DEFINE c == m[1]
           a == m[4]
<1>1. m = <<m[1], m[2], m[3], m[4]>> /\ c \in Calls /\ a \in {"ok", "draining", "retryable", "fatal"}
  BY DEF Shapes, Errors
<1>2. answers' = answers \ {m} /\ UNCHANGED <<attempt, requests, runs>> BY <1>1 DEF Deliver
<1>3. \A d \in Calls : RequestsOf(d)' = RequestsOf(d) /\ RefusalsOf(d)' = RefusalsOf(d) \ {m}
  BY <1>2 DEF RequestsOf, RefusalsOf
<1>4. \A d \in Calls : Load(d)' <= Load(d) BY <1>2, <1>3, NotMore
<1>5. ASSUME stage' \in [Calls -> Stages], unknown' \in [Calls -> Nat], \A d \in Calls : GoesOn(d)
      PROVE  Moves
  <2>1. IsFiniteSet(answers') BY <1>2, FS_RemoveElement DEF Shapes
  <2>2. Shapes' BY <1>2, <1>5, <2>1 DEF Shapes
  <2>3. QED BY <1>5, <2>2 DEF Moves
<1>6. CASE ~(stage[c] = "sent" /\ via[c] = m[3])
  <2>1. UNCHANGED <<stage, unknown>> BY <1>6 DEF Deliver
  <2>2. \A d \in Calls : GoesOn(d) BY <1>2, <1>4, <2>1 DEF GoesOn
  <2>3. QED BY <1>5, <2>1, <2>2 DEF Shapes
<1>7. CASE stage[c] = "sent" /\ via[c] = m[3] /\ a = "ok"
  <2>1. stage' = [stage EXCEPT ![c] = "fulfilled"] /\ UNCHANGED unknown BY <1>7 DEF Deliver
  <2>2. \A d \in Calls : GoesOn(d) BY <1>2, <1>4, <1>7, <2>1 DEF GoesOn, Shapes
  <2>3. QED BY <1>5, <2>1, <2>2 DEF Shapes
<1>8. CASE stage[c] = "sent" /\ via[c] = m[3] /\ a = "retryable"
  <2>1. FailAttempts({c}, a, attempt) /\ CountUnknown({c}) BY <1>8 DEF Deliver
  <2>2. {c} \in SUBSET Calls /\ \A d \in {c} : stage[d] = "sent" BY <1>1, <1>8
  <2>3. QED BY <1>2, <1>4, <1>5, <2>1, <2>2, FailUnknown
<1>9. CASE stage[c] = "sent" /\ via[c] = m[3] /\ a \in {"draining", "fatal"}
  <2>1. FailAttempts({c}, a, attempt) /\ unknown' = [d \in Calls |-> unknown[d]]
    BY <1>9 DEF Deliver, CountUnknown
  <2>2. unknown' = unknown BY <2>1 DEF Shapes
  <2>3. /\ stage' \in [Calls -> Stages] /\ Fails(c)
        /\ \A d \in Calls : d # c => stage'[d] = stage[d]
    BY <1>1, <1>2, <2>1, FailStage
  <2>4. \A d \in Calls : d # c => GoesOn(d) BY <1>2, <1>4, <2>2, <2>3 DEF GoesOn
  <2>5. CASE a = "fatal"
    <3>1. stage'[c] = "failed" BY <1>1, <2>1, <2>5 DEF FailAttempts, Retryable
    <3>2. GoesOn(c) BY <1>1, <1>2, <1>4, <1>9, <2>2, <3>1 DEF GoesOn
    <3>3. QED BY <1>5, <2>2, <2>3, <2>4, <3>2 DEF Shapes
  <2>6. CASE a = "draining"
    <3>1. m \in RefusalsOf(c) BY <2>6 DEF RefusalsOf
    <3>2. Cardinality(RefusalsOf(c)') = Cardinality(RefusalsOf(c)) - 1
      BY <1>1, <1>3, <3>1, UnderwayType, FS_RemoveElement
    <3>3. RequestsOf(c)' = RequestsOf(c) /\ runs'[c] = runs[c] /\ runs[c] \in Nat
      BY <1>1, <1>2, <1>3 DEF Shapes
    <3>4. Load(c)' <= Load(c) - 1
      BY <1>1, <3>2, <3>3, UnderwayType DEF Underway, Load
    <3>5. GoesOn(c) BY <1>1, <1>2, <1>9, <2>2, <2>3, <3>4 DEF GoesOn
    <3>6. QED BY <1>5, <2>2, <2>3, <2>4, <3>5 DEF Shapes
  <2>7. QED BY <1>9, <2>5, <2>6
<1>10. QED BY <1>1, <1>6, <1>7, <1>8, <1>9

LEMMA StutterMoves ==
  ASSUME Shapes, UNCHANGED <<requests, answers, stage, attempt, runs, unknown>>
  PROVE  Moves
<1>1. Shapes' BY DEF Shapes
<1>2. \A c \in Calls : GoesOn(c) BY SameLoad DEF GoesOn
<1>3. QED BY <1>1, <1>2 DEF Moves

LEMMA EveryStepMoves == ASSUME Shapes, [Next]_vars PROVE Moves
<1>1. ASSUME NEW c \in Calls, Call(c) PROVE Moves
  <2>1. Start(c) \/ Retry(c) => stage[c] \in {"new", "backoff"} /\ Attempt(c)
    BY DEF Start, Retry
  <2>2. QED BY <1>1, <2>1, AttemptMoves, StartUnknownMoves, TimeoutMoves DEF Call
<1>2. ASSUME NEW k \in Conns, Link(k) PROVE Moves
  <2>1. CASE Reconnect(k) BY <2>1, StutterMoves DEF Reconnect, callVars, netVars
  <2>2. QED BY <1>2, <2>1, ConnectDoneMoves, ConnectFailsMoves, DisconnectedMoves,
    StaleCloseMoves DEF Link
<1>3. ASSUME NEW r \in requests, NEW a \in Answers, Serve(r[1], r[2], r[3], a) PROVE Moves
  BY <1>3, ServeMoves
<1>4. ASSUME NEW m \in answers, Deliver(m[1], m[2], m[3], m[4]) PROVE Moves
  BY <1>4, DeliverMoves
<1>5. CASE CloseClient BY <1>5, CloseClientMoves
<1>6. CASE UNCHANGED vars BY <1>6, StutterMoves DEF vars, callVars, netVars
<1>7. QED BY <1>1, <1>2, <1>3, <1>4, <1>5, <1>6 DEF Next

-----------------------------------------------------------------------------
(* No run but one is not accounted for by an unknown attempt.              *)

\* A call that awaits an answer or has had its last has an attempt that is none of
\* those counted by unknown.
LastAttempt(c) == IF stage[c] \in {"new", "connecting", "backoff"} THEN 0 ELSE 1

\* Every attempt written has run, or may still run, or was refused; and all but the last
\* of them ended as unknown or by a refusal that has arrived.
AttemptsAccounted == \A c \in Calls : Load(c) <= unknown[c] + LastAttempt(c)

AccountInv == Shapes /\ AttemptsAccounted

\* No call has started.
NoneCalled ==
  /\ stage = [c \in Calls |-> "new"] /\ attempt = [c \in Calls |-> 0]
  /\ via = [c \in Calls |-> NoConn] /\ lastError = [c \in Calls |-> "none"]
  /\ requests = {} /\ answers = {} /\ runs = [c \in Calls |-> 0]
  /\ unknown = [c \in Calls |-> 0] /\ picks = <<>>

LEMMA ShapesInit == ASSUME NoneCalled PROVE Shapes /\ \A c \in Calls : Load(c) = 0
<1>1. Shapes BY FS_EmptySet DEF NoneCalled, Shapes
<1>2. ASSUME NEW c \in Calls PROVE Load(c) = 0
  <2>1. RequestsOf(c) = {} /\ RefusalsOf(c) = {} BY DEF NoneCalled, RequestsOf, RefusalsOf
  <2>2. QED BY <2>1, FS_EmptySet DEF NoneCalled, Underway, Load
<1>3. QED BY <1>1, <1>2

LEMMA AccountMoves == ASSUME AccountInv, Moves PROVE AccountInv'
<1>1. ASSUME NEW c \in Calls PROVE Load(c)' <= unknown'[c] + LastAttempt(c)'
  <2>1. Load(c) \in Nat /\ Load(c)' \in Nat BY UnderwayType, UnderwayTypeNext DEF AccountInv, Moves
  <2>2. unknown[c] \in Nat /\ unknown'[c] \in Nat BY DEF AccountInv, Moves, Shapes
  <2>3. Load(c) <= unknown[c] + LastAttempt(c) BY DEF AccountInv, AttemptsAccounted
  <2>4. CASE Tries(c) BY <2>1, <2>2, <2>3, <2>4 DEF Tries, Fails, LastAttempt
  <2>5. CASE GoesOn(c) BY <2>1, <2>2, <2>3, <2>5 DEF GoesOn, Fails, LastAttempt
  <2>6. QED BY <2>4, <2>5 DEF Moves
<1>2. QED BY <1>1 DEF AccountInv, AttemptsAccounted, Moves

LEMMA AccountHolds == Spec => []AccountInv
<1>1. Init => AccountInv
  BY ShapesInit DEF Init, NoneCalled, AccountInv, AttemptsAccounted, LastAttempt
<1>2. AccountInv /\ [Next]_vars => AccountInv' BY AccountMoves, EveryStepMoves DEF AccountInv
<1>3. QED BY <1>1, <1>2, PTL DEF Spec

\* A method runs again for a call only for an attempt that failed without telling whether
\* it ran, although every attempt carries the same request id, so that the answer to one
\* may settle the next: no refusal, failed connect() or definitive answer is retried twice.
THEOREM RunsCorrect == Spec => []RunsOncePerUnknown
<1>1. ASSUME AccountInv, NEW c \in Calls PROVE runs[c] <= 1 + unknown[c]
  <2>1. runs[c] + Underway(c) <= unknown[c] + LastAttempt(c)
    BY <1>1 DEF AccountInv, AttemptsAccounted, Load
  <2>2. /\ Underway(c) \in Nat /\ LastAttempt(c) \in {0, 1}
        /\ runs[c] \in Nat /\ unknown[c] \in Nat
    BY <1>1, UnderwayType DEF AccountInv, Shapes, LastAttempt
  <2>3. QED BY <2>1, <2>2
<1>2. AccountInv => RunsOncePerUnknown BY <1>1 DEF RunsOncePerUnknown
<1>3. QED BY <1>2, AccountHolds, PTL

-----------------------------------------------------------------------------
(* The pool.                                                               *)

USE MaxConnectionsAssumption

InUse(e) == IF HasRoom(e) THEN size[e] ELSE nextIndex[e]

\* How often the connections of an endpoint have been selected: once each while the pool
\* grows, afterwards in turn from the first to the one before nextIndex.
EvenUp(e, base) ==
  /\ HasRoom(e) => base = 0 /\ nextIndex[e] = 0
  /\ \A i \in 1 .. MaxConnections : Uses(<<e, i>>) = base + IF i <= InUse(e) THEN 1 ELSE 0

InTurn ==
  /\ size \in [Endpoints -> 0 .. MaxConnections]
  /\ nextIndex \in [Endpoints -> 0 .. MaxConnections - 1]
  /\ \A e \in Endpoints : \E base \in Nat : EvenUp(e, base)

PoolInv == picks \in Seq(Range(picks)) /\ InTurn

\* The cursor of a list of n, and nextIndex of a full pool.
LEMMA NextOfRing ==
  ASSUME NEW n \in Nat \ {0}, NEW i \in 0 .. n - 1
  PROVE  (i + 1) % n = IF i + 1 = n THEN 0 ELSE i + 1
<1> DEFINE q == (i + 1) \div n
           r == (i + 1) % n
<1>1. /\ i + 1 \in Int /\ n \in Nat /\ n > 0
  OBVIOUS
<1>2. q \in Int /\ r = i + 1 - n * q /\ 0 <= r /\ r < n BY <1>1
<1> HIDE DEF q, r
<1>3. ~(q < 0)
  <2>1. SUFFICES ASSUME q < 0 PROVE FALSE OBVIOUS
  <2>2. n * (0 - q - 1) >= 0 BY <1>2, <2>1
  <2>3. n * (0 - q - 1) = 0 - n * q - n BY <1>2
  <2>4. QED BY <1>2, <2>2, <2>3
<1>4. ~(q > 1)
  <2>1. SUFFICES ASSUME q > 1 PROVE FALSE OBVIOUS
  <2>2. n * (q - 2) >= 0 BY <1>2, <2>1
  <2>3. n * (q - 2) = n * q - 2 * n BY <1>2
  <2>4. QED BY <1>2, <2>2, <2>3
<1>5. q = 0 \/ q = 1 BY <1>2, <1>3, <1>4
<1>6. r = IF i + 1 = n THEN 0 ELSE i + 1 BY <1>2, <1>5
<1>7. QED BY <1>6 DEF r

\* A selection uses its connection once more.
LEMMA PickUses ==
  ASSUME picks \in Seq(Range(picks)), NEW c, NEW k, picks' = Append(picks, <<c, k>>), NEW j
  PROVE  /\ picks' \in Seq(Range(picks)') /\ Uses(j) \in Nat
         /\ Uses(j)' = IF j = k THEN Uses(j) + 1 ELSE Uses(j)
<1> DEFINE S == Range(picks) \cup {<<c, k>>}
           n == Len(picks)
           U == {i \in DOMAIN picks : picks[i][2] = j}
           V == {i \in DOMAIN picks' : picks'[i][2] = j}
<1>1. picks \in Seq(S) /\ <<c, k>> \in S BY SeqMonotonic
<1>2. /\ picks' \in Seq(S) /\ Len(picks') = n + 1 /\ n \in Nat
      /\ DOMAIN picks = 1 .. n /\ DOMAIN picks' = 1 .. n + 1
      /\ \A i \in 1 .. n : picks'[i] = picks[i]
      /\ picks'[n + 1] = <<c, k>>
  BY <1>1, AppendProperties, LenProperties
<1>3. picks' \in Seq(Range(picks')) BY <1>2, SeqOfRange
<1>4. V = IF j = k THEN U \cup {n + 1} ELSE U BY <1>2
<1>5. IsFiniteSet(U) /\ n + 1 \notin U /\ Cardinality(U) \in Nat
  <2>1. IsFiniteSet(1 .. n) /\ U \in SUBSET (1 .. n) BY <1>2, FS_Interval
  <2>2. QED BY <1>2, <2>1, FS_Subset, FS_CardinalityType
<1> HIDE DEF U, V, n
<1>6. Cardinality(V) = IF j = k THEN Cardinality(U) + 1 ELSE Cardinality(U)
  BY <1>4, <1>5, FS_AddElement
<1>7. Uses(j) = Cardinality(U) /\ Uses(j)' = Cardinality(V) BY DEF Uses, U, V
<1>8. QED BY <1>3, <1>5, <1>6, <1>7 DEF Range

LEMMA PickInv ==
  ASSUME PoolInv, NEW c \in Calls, NEW e, NEW i \in 1 .. MaxConnections,
         GetConnection(e, i), picks' = Append(picks, <<c, <<e, i>>>>)
  PROVE  PoolInv'
<1>0. /\ size \in [Endpoints -> 0 .. MaxConnections]
      /\ nextIndex \in [Endpoints -> 0 .. MaxConnections - 1]
  BY DEF PoolInv, InTurn
<1>1. \A j : /\ picks' \in Seq(Range(picks)') /\ Uses(j) \in Nat
             /\ Uses(j)' = IF j = <<e, i>> THEN Uses(j) + 1 ELSE Uses(j)
  BY PickUses DEF PoolInv
<1>2. ASSUME NEW f \in Endpoints, f # e PROVE \E base \in Nat : EvenUp(f, base)'
  <2>1. PICK base \in Nat : EvenUp(f, base) BY DEF PoolInv, InTurn
  <2>2. size'[f] = size[f] /\ nextIndex'[f] = nextIndex[f]
    BY <1>2 DEF PoolInv, InTurn, GetConnection
  <2>3. \A j \in 1 .. MaxConnections : Uses(<<f, j>>)' = Uses(<<f, j>>) BY <1>1, <1>2
  <2>4. EvenUp(f, base)' BY <2>1, <2>2, <2>3 DEF EvenUp, InUse, HasRoom
  <2>5. QED BY <2>4
<1>3. ASSUME e \in Endpoints, HasRoom(e)
      PROVE  /\ size' = [size EXCEPT ![e] = i] /\ nextIndex' = nextIndex
             /\ \E base \in Nat : EvenUp(e, base)'
  <2>1. size' = [size EXCEPT ![e] = i] /\ nextIndex' = nextIndex /\ i = size[e] + 1
    BY <1>3 DEF GetConnection
  <2>2. /\ size[e] \in 0 .. MaxConnections /\ size'[e] = i /\ nextIndex'[e] = 0
        /\ \A j \in 1 .. MaxConnections : Uses(<<e, j>>) = IF j <= size[e] THEN 1 ELSE 0
    BY <1>3, <2>1 DEF PoolInv, InTurn, EvenUp, InUse
  <2>3. \A j \in 1 .. MaxConnections : Uses(<<e, j>>)' = IF j <= i THEN 1 ELSE 0
    BY <1>1, <2>1, <2>2
  <2>4. CASE i < MaxConnections
    <3>1. EvenUp(e, 0)' BY <2>2, <2>3, <2>4 DEF EvenUp, InUse, HasRoom
    <3>2. QED BY <2>1, <3>1
  <2>5. CASE i = MaxConnections
    <3>1. EvenUp(e, 1)' BY <2>2, <2>3, <2>5 DEF EvenUp, InUse, HasRoom
    <3>2. QED BY <2>1, <3>1
  <2>6. QED BY <2>4, <2>5
<1>4. ASSUME e \in Endpoints, ~HasRoom(e)
      PROVE  /\ size' = size /\ nextIndex' \in [Endpoints -> 0 .. MaxConnections - 1]
             /\ \E base \in Nat : EvenUp(e, base)'
  <2>1. /\ size' = size /\ i = nextIndex[e] + 1
        /\ nextIndex' = [nextIndex EXCEPT ![e] = NextIndexAfter(e)]
    BY <1>4 DEF GetConnection
  <2>2. size[e] = MaxConnections /\ nextIndex[e] \in 0 .. MaxConnections - 1
    BY <1>4 DEF PoolInv, InTurn, HasRoom
  <2>3. NextIndexAfter(e) = IF i = MaxConnections THEN 0 ELSE i
    BY <2>1, <2>2, NextOfRing DEF NextIndexAfter
  <2>4. /\ nextIndex' \in [Endpoints -> 0 .. MaxConnections - 1]
        /\ nextIndex'[e] = IF i = MaxConnections THEN 0 ELSE i
    BY <1>0, <1>4, <2>1, <2>3
  <2>5. PICK base \in Nat : EvenUp(e, base) BY <1>4 DEF PoolInv, InTurn
  <2>6. \A j \in 1 .. MaxConnections : Uses(<<e, j>>) = base + IF j < i THEN 1 ELSE 0
    BY <1>4, <2>1, <2>2, <2>5 DEF EvenUp, InUse
  <2>7. \A j \in 1 .. MaxConnections : Uses(<<e, j>>)' = base + IF j <= i THEN 1 ELSE 0
    BY <1>1, <2>6
  <2>8. ~HasRoom(e)' BY <1>4, <2>1 DEF HasRoom
  <2>9. CASE i = MaxConnections
    <3>1. EvenUp(e, base + 1)' BY <2>4, <2>7, <2>8, <2>9 DEF EvenUp, InUse
    <3>2. QED BY <2>1, <2>4, <3>1
  <2>10. CASE i # MaxConnections
    <3>1. EvenUp(e, base)' BY <2>4, <2>7, <2>8, <2>10 DEF EvenUp, InUse
    <3>2. QED BY <2>1, <2>4, <3>1
  <2>11. QED BY <2>9, <2>10
<1>5. size' \in [Endpoints -> 0 .. MaxConnections]
  <2>1. CASE e \in Endpoints BY <2>1, <1>0, <1>3, <1>4
  <2>2. CASE e \notin Endpoints BY <2>2, <1>0 DEF GetConnection
  <2>3. QED BY <2>1, <2>2
<1>6. nextIndex' \in [Endpoints -> 0 .. MaxConnections - 1]
  <2>1. CASE e \in Endpoints BY <2>1, <1>0, <1>3, <1>4
  <2>2. CASE e \notin Endpoints BY <2>2, <1>0 DEF GetConnection
  <2>3. QED BY <2>1, <2>2
<1>7. \A f \in Endpoints : \E base \in Nat : EvenUp(f, base)' BY <1>2, <1>3, <1>4
<1>8. QED BY <1>1, <1>5, <1>6, <1>7 DEF PoolInv, InTurn

LEMMA PoolUnchanged == ASSUME PoolInv, UNCHANGED poolVars PROVE PoolInv'
<1>1. UNCHANGED <<size, nextIndex, picks>> BY DEF poolVars
<1>2. \A j : Uses(j)' = Uses(j) BY <1>1 DEF Uses
<1>3. \A e \in Endpoints, base \in Nat : EvenUp(e, base)' <=> EvenUp(e, base)
  BY <1>1, <1>2 DEF EvenUp, InUse, HasRoom
<1>4. QED BY <1>1, <1>3 DEF PoolInv, InTurn, Range

LEMMA PoolInit == ASSUME Init PROVE PoolInv
<1>1. picks \in Seq(Range(picks)) BY EmptySeq DEF Init
<1>2. ASSUME NEW j PROVE Uses(j) = 0
  <2>1. {i \in DOMAIN picks : picks[i][2] = j} = {} BY DEF Init
  <2>2. QED BY <2>1, FS_EmptySet DEF Uses
<1>3. ASSUME NEW e \in Endpoints PROVE EvenUp(e, 0)
  BY <1>2 DEF Init, EvenUp, InUse, HasRoom
<1>4. QED BY <1>1, <1>3 DEF Init, PoolInv, InTurn

LEMMA PoolNext == PoolInv /\ [Next]_vars => PoolInv'
<1> SUFFICES ASSUME PoolInv, [Next]_vars PROVE PoolInv' OBVIOUS
<1>1. ASSUME NEW c \in Calls, Call(c) PROVE PoolInv'
  <2>1. CASE Attempt(c)
    <3>1. PICK e \in Select, i \in 1 .. MaxConnections :
            GetConnection(e, i) /\ picks' = Append(picks, <<c, <<e, i>>>>)
      BY <2>1 DEF Attempt
    <3>2. QED BY <3>1, PickInv
  <2>2. CASE ~Attempt(c)
    BY <1>1, <2>2, PoolUnchanged DEF Call, Start, Retry, StartUnknown, Timeout
  <2>3. QED BY <2>1, <2>2
<1>2. ASSUME NEW k \in Conns, Link(k) PROVE PoolInv'
  BY <1>2, PoolUnchanged DEF Link, ConnectDone, ConnectFails, ClosingEnds, Reconnect,
     Disconnected, StaleClose, LinkLost
<1>3. ASSUME NEW r \in requests, NEW a \in Answers, Serve(r[1], r[2], r[3], a) PROVE PoolInv'
  BY <1>3, PoolUnchanged DEF Serve
<1>4. ASSUME NEW m \in answers, Deliver(m[1], m[2], m[3], m[4]) PROVE PoolInv'
  BY <1>4, PoolUnchanged DEF Deliver
<1>5. CASE CloseClient BY <1>5, PoolUnchanged DEF CloseClient
<1>6. CASE UNCHANGED vars BY <1>6, PoolUnchanged DEF vars
<1>7. QED BY <1>1, <1>2, <1>3, <1>4, <1>5, <1>6 DEF Next

LEMMA PoolHolds == Spec => []PoolInv
BY PoolInit, PoolNext, PTL DEF Spec

\* RpcConnectionPool.getConnection uses the connections of an endpoint evenly, at every
\* size of the pool, while it grows and when nextIndex goes round.
THEOREM PoolCorrect == Spec => []PoolIsEven
<1>1. ASSUME PoolInv, NEW e \in Endpoints, NEW i \in 1 .. MaxConnections,
             NEW j \in 1 .. MaxConnections, i <= size[e], j <= size[e]
      PROVE  Uses(<<e, i>>) <= Uses(<<e, j>>) + 1
  <2>1. PICK base \in Nat : EvenUp(e, base) BY <1>1 DEF PoolInv, InTurn
  <2>2. QED BY <2>1 DEF EvenUp
<1>2. PoolInv => PoolIsEven BY <1>1 DEF PoolIsEven
<1>3. QED BY <1>2, PoolHolds, PTL

-----------------------------------------------------------------------------
(* Constants.                                                              *)

USE LookupAssumption DEF Endpoints

LEMMA LookupType ==
  /\ Lookup \in Seq(Endpoints) /\ Len(Lookup) \in Nat \ {0} /\ DOMAIN Lookup = 1 .. Len(Lookup)
  /\ \A i \in 1 .. Len(Lookup) : Lookup[i] \in Endpoints
<1>1. Lookup \in Seq(Endpoints) /\ Lookup # <<>> OBVIOUS
<1> HIDE DEF Endpoints
<1>2. QED BY <1>1, EmptySeq, LenProperties, ElementOfSeq

LEMMA OrderType == Order \in Seq(Endpoints) /\ Len(Order) \in Nat \ {0}
<1>1. CASE Balancer # "weighted" BY <1>1, LookupType DEF Order
<1>2. CASE Balancer = "weighted"
  <2> DEFINE Copies(i) == [j \in 1 .. Weight[Lookup[i]] |-> Lookup[i]]
             seqs == [i \in DOMAIN Lookup |-> Copies(i)]
  <2>1. ASSUME NEW i \in DOMAIN Lookup PROVE Copies(i) \in Seq(Endpoints) \ {<<>>}
    <3>1. Lookup[i] \in Endpoints /\ Weight[Lookup[i]] \in Nat \ {0}
      BY LookupType, WeightAssumption
    <3> HIDE DEF Endpoints
    <3>2. Copies(i) \in Seq(Endpoints) BY <3>1, IsASeq
    <3>3. Copies(i)[1] = Lookup[i] /\ DOMAIN Copies(i) # {} BY <3>1
    <3>4. Copies(i) # <<>> BY <3>3, EmptySeq, DOMAIN <<>> = {}
    <3>5. QED BY <3>2, <3>4
  <2> HIDE DEF Copies
  <2> DEFINE S == Seq(Endpoints) \ {<<>>}
  <2>2. seqs \in Seq(S) /\ Len(seqs) = Len(Lookup)
    <3> HIDE DEF S
    <3>1. \A i \in 1 .. Len(Lookup) : Copies(i) \in S BY <2>1, LookupType DEF S
    <3>2. Len(Lookup) \in Nat /\ seqs = [i \in 1 .. Len(Lookup) |-> Copies(i)] BY LookupType
    <3> HIDE DEF seqs
    <3>3. seqs \in Seq(S) BY <3>1, <3>2, IsASeq
    <3>4. DOMAIN seqs = 1 .. Len(Lookup) BY <3>2
    <3>5. QED BY <3>2, <3>3, <3>4, LenProperties
  <2>3. seqs # <<>> BY <2>2, LookupType, EmptySeq
  <2>4. FlattenSeq(seqs) \in S
    <3> HIDE DEF seqs
    <3>1. QED BY <2>2, <2>3, FlattenType
  <2>5. Order = FlattenSeq(seqs) BY <1>2 DEF Order, Copies
  <2>6. Order \in Seq(Endpoints) /\ Order # <<>> BY <2>4, <2>5
  <2> HIDE DEF Endpoints
  <2>7. QED BY <2>6, EmptySeq, LenProperties
<1>3. QED BY <1>1, <1>2

\* An endpoint of least count exists, and one is the first.
LEMMA LeastActiveType == LeastActive \in Endpoints
<1> DEFINE Count(i) == ActiveCount[Lookup[i]]
           Counts == {Count(i) : i \in 1 .. Len(Lookup)}
<1>1. Len(Lookup) \in Nat /\ 1 \in 1 .. Len(Lookup) BY LookupType
<1>2. \A i \in 1 .. Len(Lookup) : Count(i) \in Nat BY LookupType, ActiveCountAssumption
<1> HIDE DEF Count
<1>3. Counts \in SUBSET Nat /\ Counts # {} BY <1>1, <1>2
<1>4. PICK m \in Counts : \A n \in Counts : m <= n
  <2> HIDE DEF Counts
  <2>1. QED BY <1>3, LeastNatural
<1> DEFINE First == {i \in 1 .. Len(Lookup) : Count(i) = m}
<1>5. First \in SUBSET Nat /\ First # {} OBVIOUS
<1>6. PICK i \in First : \A j \in First : i <= j
  <2> HIDE DEF First
  <2>1. QED BY <1>5, LeastNatural
<1>7. ASSUME NEW j \in 1 .. Len(Lookup) PROVE Count(i) <= Count(j) /\ (j < i => Count(i) < Count(j))
  <2>1. i \in 1 .. Len(Lookup) /\ Count(i) = m /\ Count(j) \in Counts /\ m <= Count(j)
    BY <1>4
  <2>2. Count(i) \in Nat /\ Count(j) \in Nat /\ i \in Nat /\ j \in Nat BY <1>2, <2>1
  <2>3. j < i => j \notin First BY <1>6, <2>2
  <2>4. QED BY <2>1, <2>2, <2>3
<1>8. \E x \in DOMAIN Lookup : \A j \in DOMAIN Lookup :
        Count(x) <= Count(j) /\ (j < x => Count(x) < Count(j))
  BY <1>7, LookupType
<1>9. LeastActive = Lookup[CHOOSE x \in DOMAIN Lookup : \A j \in DOMAIN Lookup :
                             Count(x) <= Count(j) /\ (j < x => Count(x) < Count(j))]
  BY DEF LeastActive, Count
<1>10. QED BY <1>8, <1>9, LookupType

LEMMA MaxAttemptsType == MaxAttempts \in Nat \ {0}
<1>1. Len(Lookup) \in Nat \ {0} BY LookupType
<1>2. CASE RetryMaxAttempts = NotConfigured BY <1>1, <1>2 DEF MaxAttempts
<1>3. CASE RetryMaxAttempts # NotConfigured
  BY <1>1, <1>3, AttemptsAssumption DEF MaxAttempts
<1>4. QED BY <1>2, <1>3

-----------------------------------------------------------------------------
(* How many attempts a call makes.                                         *)

\* The attempts of a call cover those written and the one that is to be, and the unknown
\* ones and the one in progress.
AttemptsCover ==
  \A c \in Calls :
    /\ attempt[c] <= MaxAttempts
    /\ stage[c] = "new" => attempt[c] = 0
    /\ stage[c] = "backoff" => MoreAttempts(attempt[c])
    /\ Load(c) + (IF stage[c] = "connecting" THEN 1 ELSE 0) <= attempt[c]
    /\ unknown[c] + (IF stage[c] \in {"connecting", "sent"} THEN 1 ELSE 0) <= attempt[c]

CoverInv == Shapes /\ AttemptsCover

LEMMA CoverMoves == ASSUME CoverInv, Moves PROVE CoverInv'
<1> DEFINE Covered(c) ==
      /\ attempt[c] <= MaxAttempts
      /\ stage[c] = "new" => attempt[c] = 0
      /\ stage[c] = "backoff" => MoreAttempts(attempt[c])
      /\ Load(c) + (IF stage[c] = "connecting" THEN 1 ELSE 0) <= attempt[c]
      /\ unknown[c] + (IF stage[c] \in {"connecting", "sent"} THEN 1 ELSE 0) <= attempt[c]
<1>1. ASSUME NEW c \in Calls PROVE Covered(c)'
  <2>1. Load(c) \in Nat /\ Load(c)' \in Nat BY UnderwayType, UnderwayTypeNext DEF CoverInv, Moves
  <2>2. /\ unknown[c] \in Nat /\ unknown'[c] \in Nat /\ stage[c] \in Stages
        /\ attempt[c] \in Nat /\ attempt'[c] \in Nat
    BY DEF CoverInv, Moves, Shapes
  <2>3. Covered(c) BY DEF CoverInv, AttemptsCover
  <2>4. MaxAttempts' = MaxAttempts /\ MaxAttempts \in Nat \ {0} BY MaxAttemptsType DEF MaxAttempts
  <2>5. CASE Tries(c)
    <3>1. /\ stage[c] \in {"new", "backoff"} /\ attempt'[c] = attempt[c] + 1
          /\ unknown'[c] = unknown[c]
      BY <2>5 DEF Tries
    <3>2. /\ attempt[c] < MaxAttempts /\ Load(c) <= attempt[c] /\ unknown[c] <= attempt[c]
      BY <2>1, <2>2, <2>3, <2>4, <3>1 DEF MoreAttempts
    <3>3. CASE (stage'[c] = "connecting" \/ Fails(c)) /\ Load(c)' <= Load(c)
      BY <2>1, <2>2, <2>4, <3>1, <3>2, <3>3 DEF Fails
    <3>4. CASE stage'[c] = "sent" /\ Load(c)' <= Load(c) + 1
      BY <2>1, <2>2, <2>4, <3>1, <3>2, <3>4
    <3>5. QED BY <2>5, <3>3, <3>4 DEF Tries
  <2>6. CASE GoesOn(c)
    <3>1. attempt'[c] = attempt[c] /\ attempt'[c] <= MaxAttempts' BY <2>3, <2>4, <2>6 DEF GoesOn
    <3>2. CASE stage'[c] = stage[c] /\ unknown'[c] = unknown[c] /\ Load(c)' <= Load(c)
      BY <2>1, <2>2, <2>3, <2>4, <3>1, <3>2 DEF MoreAttempts
    <3>3. CASE stage[c] = "new" /\ stage'[c] = "failed"
      BY <2>1, <2>2, <2>3, <2>6, <3>1, <3>3 DEF GoesOn
    <3>4. CASE stage[c] = "connecting" /\ stage'[c] # "connecting"
      <4>1. /\ unknown'[c] = unknown[c]
            /\ \/ stage'[c] = "sent" /\ Load(c)' <= Load(c) + 1
               \/ Fails(c) /\ Load(c)' <= Load(c)
        BY <2>6, <3>4 DEF GoesOn
      <4>2. Load(c) + 1 <= attempt[c] /\ unknown[c] + 1 <= attempt[c]
        BY <2>2, <2>3, <3>4
      <4>3. CASE stage'[c] = "sent" /\ Load(c)' <= Load(c) + 1
        BY <2>1, <2>2, <3>1, <4>1, <4>2, <4>3
      <4>4. CASE Fails(c) /\ Load(c)' <= Load(c)
        BY <2>1, <2>2, <2>4, <3>1, <4>1, <4>2, <4>4 DEF Fails, MoreAttempts
      <4>5. QED BY <4>1, <4>3, <4>4
    <3>5. CASE stage[c] = "sent" /\ stage'[c] # "sent"
      BY <2>1, <2>2, <2>3, <2>4, <2>6, <3>1, <3>5 DEF GoesOn, Fails, MoreAttempts
    <3>6. QED BY <2>6, <3>2, <3>3, <3>4, <3>5 DEF GoesOn, Fails
  <2>7. QED BY <2>5, <2>6 DEF Moves
<1>2. QED BY <1>1 DEF CoverInv, AttemptsCover, Moves

LEMMA CoverInit == ASSUME NoneCalled PROVE CoverInv
BY ShapesInit, MaxAttemptsType DEF NoneCalled, CoverInv, AttemptsCover

-----------------------------------------------------------------------------
(* Types.                                                                  *)

WireTypes ==
  /\ cursor \in 0 .. Len(Order) - 1
  /\ size \in [Endpoints -> 0 .. MaxConnections]
  /\ nextIndex \in [Endpoints -> 0 .. MaxConnections - 1]
  /\ link \in [Conns -> LinkStates]
  /\ via \in [Calls -> Conns \cup {NoConn}]
  /\ lastError \in [Calls -> {"none", "thrown"} \cup Errors]
  /\ requests \subseteq Calls \X (1 .. MaxAttempts) \X (Conns \cup {NoConn})
  /\ answers \subseteq Calls \X (1 .. MaxAttempts) \X Conns \X Answers
  /\ picks \in Seq(Calls \X Conns)

TypeInv == CoverInv /\ WireTypes

LEMMA GetConnectionTypes ==
  ASSUME WireTypes, NEW e \in Endpoints, NEW i \in 1 .. MaxConnections, GetConnection(e, i)
  PROVE  /\ size' \in [Endpoints -> 0 .. MaxConnections]
         /\ nextIndex' \in [Endpoints -> 0 .. MaxConnections - 1]
<1>0. /\ size \in [Endpoints -> 0 .. MaxConnections]
      /\ nextIndex \in [Endpoints -> 0 .. MaxConnections - 1]
  BY DEF WireTypes
<1>1. CASE HasRoom(e)
  <2>1. size' = [size EXCEPT ![e] = i] /\ nextIndex' = nextIndex BY <1>1 DEF GetConnection
  <2>2. i \in 0 .. MaxConnections OBVIOUS
  <2>3. QED BY <1>0, <2>1, <2>2
<1>2. CASE ~HasRoom(e)
  <2>1. size[e] = MaxConnections /\ nextIndex[e] \in 0 .. MaxConnections - 1
    BY <1>2 DEF WireTypes, HasRoom
  <2>2. NextIndexAfter(e) \in 0 .. MaxConnections - 1
    BY <2>1, NextOfRing DEF NextIndexAfter
  <2>3. QED BY <1>2, <2>2 DEF WireTypes, GetConnection
<1>3. QED BY <1>1, <1>2

LEMMA SelectType == ASSUME cursor \in 0 .. Len(Order) - 1 PROVE Select \subseteq Endpoints
<1>1. CASE Balancer \in {"random", "leastActive"} BY <1>1, LeastActiveType DEF Select
<1>2. CASE Balancer \notin {"random", "leastActive"}
  <2>1. cursor + 1 \in 1 .. Len(Order) BY OrderType
  <2> HIDE DEF Endpoints
  <2>2. Order[cursor + 1] \in Endpoints BY <2>1, OrderType, ElementOfSeq
  <2>3. QED BY <1>2, <2>2 DEF Select
<1>3. QED BY <1>1, <1>2

\* The numbers of attempts that may be written.
LEMMA AttemptNumbers ==
  ASSUME CoverInv, Moves, NEW c \in Calls, stage'[c] = "sent", stage[c] # "sent"
  PROVE  attempt'[c] \in 1 .. MaxAttempts
<1>1. CoverInv' BY CoverMoves
<1>2. /\ attempt'[c] \in Nat /\ MaxAttempts' = MaxAttempts /\ MaxAttempts \in Nat
      /\ attempt'[c] <= MaxAttempts'
      /\ unknown'[c] + 1 <= attempt'[c] /\ unknown'[c] \in Nat
  BY <1>1, MaxAttemptsType DEF CoverInv, AttemptsCover, Shapes, MaxAttempts
<1>3. QED BY <1>2

LEMMA ErrorType ==
  ASSUME WireTypes, NEW S, NEW e \in Errors, NEW made, FailAttempts(S, e, made)
  PROVE  lastError' \in [Calls -> {"none", "thrown"} \cup Errors]
BY DEF WireTypes, FailAttempts

LEMMA AttemptTypes ==
  ASSUME WireTypes, CoverInv, Moves, NEW c \in Calls, stage[c] \in {"new", "backoff"}, Attempt(c)
  PROVE  WireTypes'
<1>1. PICK e \in Select, i \in 1 .. MaxConnections :
        LET k == <<e, i>>
        IN /\ GetConnection(e, i)
           /\ cursor' = CursorAfter
           /\ picks' = Append(picks, <<c, k>>)
           /\ via' = [via EXCEPT ![c] = k]
           /\ \/ /\ stage' = [stage EXCEPT ![c] = "sent"]
                 /\ requests' = requests \cup {<<c, attempt'[c], k>>}
                 /\ UNCHANGED <<link, lastError>>
              \/ /\ \E err \in {"fatal", "retryable"} : FailAttempts({c}, err, attempt')
                 /\ UNCHANGED <<link, requests>>
              \/ /\ link' = [link EXCEPT ![k] = IF @ = "closing" THEN @ ELSE "connecting"]
                 /\ UNCHANGED <<lastError, requests>>
           /\ UNCHANGED <<answers, runs, unknown>>
  BY Zenon DEF Attempt
<1> DEFINE k == <<e, i>>
<1>2. k \in Conns BY SelectType DEF WireTypes, Conns
<1>3. cursor' \in 0 .. Len(Order)' - 1
  <2>1. CursorAfter = IF cursor + 1 = Len(Order) THEN 0 ELSE cursor + 1
    BY OrderType, NextOfRing DEF CursorAfter, WireTypes
  <2>2. Len(Order)' = Len(Order) BY DEF Order
  <2>3. cursor' = CursorAfter BY <1>1
  <2>4. cursor \in 0 .. Len(Order) - 1 BY DEF WireTypes
  <2>5. Len(Order) \in Nat \ {0} BY OrderType
  <2>6. CursorAfter \in 0 .. Len(Order) - 1 BY <2>1, <2>4, <2>5
  <2>7. QED BY <2>2, <2>3, <2>6
<1>4. link' \in [Conns -> LinkStates] BY <1>1, <1>2 DEF WireTypes, LinkStates, FailAttempts
<1>5. via' \in [Calls -> Conns \cup {NoConn}] BY <1>1, <1>2 DEF WireTypes
<1>6. lastError' \in [Calls -> {"none", "thrown"} \cup Errors]
  <2>1. CASE UNCHANGED lastError BY <2>1 DEF WireTypes
  <2>2. CASE \E err \in {"fatal", "retryable"} : FailAttempts({c}, err, attempt')
    <3>1. PICK err \in {"fatal", "retryable"} : FailAttempts({c}, err, attempt') BY <2>2
    <3>2. err \in Errors BY DEF Errors
    <3>3. QED BY <3>1, <3>2, ErrorType
  <2>3. QED BY <1>1, <2>1, <2>2
<1>7. picks' \in Seq(Calls \X Conns) BY <1>1, <1>2, AppendProperties DEF WireTypes
<1>8. requests' \subseteq Calls \X (1 .. MaxAttempts) \X (Conns \cup {NoConn})
  <2>1. CASE UNCHANGED requests BY <2>1 DEF WireTypes
  <2>2. CASE /\ stage' = [stage EXCEPT ![c] = "sent"]
             /\ requests' = requests \cup {<<c, attempt'[c], k>>}
    <3>1. attempt'[c] \in 1 .. MaxAttempts BY <2>2, AttemptNumbers DEF CoverInv, Shapes
    <3>2. <<c, attempt'[c], k>> \in Calls \X (1 .. MaxAttempts) \X (Conns \cup {NoConn})
      BY <1>2, <3>1
    <3>3. QED BY <2>2, <3>2 DEF WireTypes
  <2>3. QED BY <1>1, <2>1, <2>2
<1>9. /\ size' \in [Endpoints -> 0 .. MaxConnections]
      /\ nextIndex' \in [Endpoints -> 0 .. MaxConnections - 1]
  BY <1>1, <1>2, SelectType, GetConnectionTypes DEF WireTypes
<1>10. QED BY <1>1, <1>3, <1>4, <1>5, <1>6, <1>7, <1>8, <1>9 DEF WireTypes, MaxAttempts

LEMMA ConnectDoneTypes ==
  ASSUME WireTypes, CoverInv, Moves, NEW k \in Conns, ConnectDone(k)
  PROVE  WireTypes'
<1>1. ASSUME NEW c \in Waiting(k) PROVE <<c, attempt[c], k>> \in Calls \X (1 .. MaxAttempts) \X Conns
  <2>1. c \in Calls /\ stage[c] = "connecting" /\ stage'[c] = "sent" /\ attempt' = attempt
    BY DEF Waiting, ConnectDone
  <2>2. QED BY <2>1, AttemptNumbers
<1>2. /\ requests' = requests \cup {<<c, attempt[c], k>> : c \in Waiting(k)}
      /\ link' = [link EXCEPT ![k] = "connected"]
      /\ UNCHANGED <<cursor, size, nextIndex, picks, via, lastError, answers>>
  BY DEF ConnectDone, poolVars
<1>3. link' \in [Conns -> LinkStates] BY <1>2 DEF WireTypes, LinkStates
<1>4. requests' \subseteq Calls \X (1 .. MaxAttempts) \X (Conns \cup {NoConn})
  BY <1>1, <1>2 DEF WireTypes
<1>5. QED BY <1>2, <1>3, <1>4 DEF WireTypes, Order, MaxAttempts

LEMMA WireNext == ASSUME WireTypes, CoverInv, Moves, [Next]_vars PROVE WireTypes'
<1> USE DEF WireTypes, Order, MaxAttempts
<1>1. ASSUME NEW c \in Calls, Call(c) PROVE WireTypes'
  <2>1. CASE Start(c) \/ Retry(c) BY <2>1, AttemptTypes DEF Start, Retry
  <2>2. CASE StartUnknown(c) BY <2>2 DEF StartUnknown, poolVars, netVars
  <2>3. CASE Timeout(c)
    <3>1. lastError' \in [Calls -> {"none", "thrown"} \cup Errors]
      BY <2>3, ErrorType, "retryable" \in Errors DEF Timeout, Errors
    <3>2. QED BY <2>3, <3>1 DEF Timeout, poolVars, netVars
  <2>4. QED BY <1>1, <2>1, <2>2, <2>3 DEF Call
<1>2. ASSUME NEW k \in Conns, Link(k) PROVE WireTypes'
  <2>1. CASE ConnectDone(k) BY <2>1, ConnectDoneTypes
  <2>2. CASE ConnectFails(k) \/ ClosingEnds(k) \/ Disconnected(k) \/ StaleClose(k)
    <3>1. lastError' \in [Calls -> {"none", "thrown"} \cup Errors]
      <4>1. \E e \in {"retryable", "fatal"} :
              FailAttempts(Waiting(k), e, attempt) \/ FailAttempts(Sent(k), e, attempt)
        BY <2>2 DEF ConnectFails, ClosingEnds, Disconnected, StaleClose, LinkLost
      <4>2. PICK e \in {"retryable", "fatal"} :
              FailAttempts(Waiting(k), e, attempt) \/ FailAttempts(Sent(k), e, attempt)
        BY <4>1
      <4>3. e \in Errors BY DEF Errors
      <4>4. QED BY <4>2, <4>3, ErrorType
    <3>2. link' \in [Conns -> LinkStates] /\ UNCHANGED <<poolVars, via>>
      BY <2>2 DEF ConnectFails, ClosingEnds, Disconnected, StaleClose, LinkLost, poolVars,
         LinkStates
    <3>3. requests' \subseteq Calls \X (1 .. MaxAttempts) \X (Conns \cup {NoConn})
      BY <2>2 DEF ConnectFails, ClosingEnds, Disconnected, StaleClose, LinkLost, netVars
    <3>4. answers' \subseteq answers
      BY <2>2 DEF ConnectFails, ClosingEnds, Disconnected, StaleClose, LinkLost, netVars
    <3>5. QED BY <3>1, <3>2, <3>3, <3>4 DEF poolVars
  <2>3. CASE Reconnect(k) BY <2>3 DEF Reconnect, poolVars, callVars, netVars, LinkStates
  <2>4. QED BY <1>2, <2>1, <2>2, <2>3 DEF Link
<1>3. ASSUME NEW r \in requests, NEW a \in Answers, Serve(r[1], r[2], r[3], a) PROVE WireTypes'
  <2>1. r[1] \in Calls /\ r[2] \in 1 .. MaxAttempts /\ r[3] \in Conns \cup {NoConn} OBVIOUS
  <2>2. /\ requests' \subseteq requests
        /\ answers' = IF r[3] = NoConn THEN answers ELSE answers \cup {<<r[1], r[2], r[3], a>>}
        /\ UNCHANGED <<poolVars, link, callVars>>
    BY <1>3 DEF Serve
  <2>3. answers' \subseteq Calls \X (1 .. MaxAttempts) \X Conns \X Answers BY <2>1, <2>2
  <2>4. QED BY <2>2, <2>3 DEF poolVars, callVars
<1>4. ASSUME NEW m \in answers, Deliver(m[1], m[2], m[3], m[4]) PROVE WireTypes'
  <2>1. /\ answers' \subseteq answers /\ UNCHANGED <<poolVars, link, attempt, via, requests>>
        /\ lastError' = lastError \/ (m[4] # "ok" /\ FailAttempts({m[1]}, m[4], attempt))
    <3>1. answers' \subseteq answers /\ UNCHANGED <<poolVars, link, attempt, via, requests>>
      BY <1>4 DEF Deliver
    <3>2. lastError' = lastError \/ (m[4] # "ok" /\ FailAttempts({m[1]}, m[4], attempt))
      BY <1>4, Zenon DEF Deliver
    <3>3. QED BY <3>1, <3>2
  <2>2. m[4] # "ok" => m[4] \in Errors BY AnswersAssumption
  <2>3. lastError' \in [Calls -> {"none", "thrown"} \cup Errors] BY <2>1, <2>2, ErrorType
  <2>4. QED BY <2>1, <2>3 DEF poolVars
<1>5. CASE CloseClient
  <2>1. lastError' \in [Calls -> {"none", "thrown"} \cup Errors]
    BY <1>5, ErrorType, "retryable" \in Errors DEF CloseClient, Errors
  <2>2. link' \in [Conns -> LinkStates] BY <1>5 DEF CloseClient, AfterClose, LinkStates
  <2>3. QED BY <1>5, <2>1, <2>2 DEF CloseClient, poolVars, netVars
<1>6. CASE UNCHANGED vars BY <1>6 DEF vars, poolVars, callVars, netVars
<1>7. QED BY <1>1, <1>2, <1>3, <1>4, <1>5, <1>6 DEF Next

LEMMA TypeHolds == Spec => []TypeInv
<1>1. Init => TypeInv
  BY CoverInit, OrderType, EmptySeq DEF Init, NoneCalled, TypeInv, WireTypes, LinkStates
<1>2. TypeInv /\ [Next]_vars => TypeInv'
  BY EveryStepMoves, CoverMoves, WireNext DEF TypeInv, CoverInv
<1>3. QED BY <1>1, <1>2, PTL DEF Spec

\* Every variable has its type; among others no call makes more attempts than
\* getMaxAttempts allows and no method runs more often than that for a call, whatever
\* connections and servers do.
THEOREM TypeCorrect == Spec => []TypeOK
<1>1. ASSUME TypeInv, NEW c \in Calls
      PROVE  /\ attempt[c] \in 0 .. MaxAttempts /\ runs[c] \in 0 .. MaxAttempts
             /\ unknown[c] \in 0 .. MaxAttempts
  <2>1. /\ attempt[c] \in Nat /\ runs[c] \in Nat /\ unknown[c] \in Nat /\ Underway(c) \in Nat
        /\ MaxAttempts \in Nat
    BY <1>1, UnderwayType, MaxAttemptsType DEF TypeInv, CoverInv, Shapes
  <2>2. /\ attempt[c] <= MaxAttempts
        /\ runs[c] + Underway(c) + (IF stage[c] = "connecting" THEN 1 ELSE 0) <= attempt[c]
        /\ unknown[c] + (IF stage[c] \in {"connecting", "sent"} THEN 1 ELSE 0) <= attempt[c]
    BY <1>1 DEF TypeInv, CoverInv, AttemptsCover, Load
  <2>3. QED BY <2>1, <2>2
<1>2. TypeInv => TypeOK BY <1>1 DEF TypeInv, TypeOK, CoverInv, Shapes, WireTypes
<1>3. QED BY <1>2, TypeHolds, PTL

-----------------------------------------------------------------------------
(* Round robin.                                                            *)

\* What is left when n is taken out of x as often as possible.
LEMMA ModIs ==
  ASSUME NEW n \in Nat \ {0}, NEW x \in Int, NEW q \in Int, NEW r \in 0 .. n - 1, x = n * q + r
  PROVE  x % n = r
<1> DEFINE Q == x \div n
           R == x % n
<1>1. x \in Int /\ n \in Nat /\ n > 0 OBVIOUS
<1>2. Q \in Int /\ R \in Int /\ x = n * Q + R /\ 0 <= R /\ R < n BY <1>1
<1> HIDE DEF Q, R
<1>3. ~(Q > q)
  <2>1. SUFFICES ASSUME Q > q PROVE FALSE OBVIOUS
  <2>2. n * (Q - q - 1) >= 0 BY <1>2, <2>1
  <2>3. n * (Q - q - 1) = n * Q - n * q - n BY <1>2
  <2>4. QED BY <1>2, <2>2, <2>3
<1>4. ~(Q < q)
  <2>1. SUFFICES ASSUME Q < q PROVE FALSE OBVIOUS
  <2>2. n * (q - Q - 1) >= 0 BY <1>2, <2>1
  <2>3. n * (q - Q - 1) = n * q - n * Q - n BY <1>2
  <2>4. QED BY <1>2, <2>2, <2>3
<1>5. Q = q BY <1>2, <1>3, <1>4
<1>6. R = r BY <1>2, <1>5
<1>7. QED BY <1>6 DEF R

\* The cursor comes to any place of the list in less than a round.
LEMMA ModReaches ==
  ASSUME NEW n \in Nat \ {0}, NEW x \in Nat, NEW t \in 0 .. n - 1
  PROVE  \E d \in 0 .. n - 1 : (x + d) % n = t
<1> DEFINE q == x \div n
           r == x % n
           d == IF t >= r THEN t - r ELSE t - r + n
           p == IF t >= r THEN q ELSE q + 1
<1>1. x \in Int /\ n \in Nat /\ n > 0 OBVIOUS
<1>2. q \in Int /\ r \in 0 .. n - 1 /\ x = n * q + r BY <1>1
<1> HIDE DEF q, r
<1>3. d \in 0 .. n - 1 /\ p \in Int BY <1>2
<1>4. x + d = n * p + t
  <2>1. n * (q + 1) = n * q + n BY <1>2
  <2>2. QED BY <1>2, <2>1
<1> HIDE DEF d, p
<1>5. x + d \in Int BY <1>3
<1>6. QED BY <1>3, <1>4, <1>5, ModIs

\* One more than what is left of x.
LEMMA ModNext ==
  ASSUME NEW n \in Nat \ {0}, NEW x \in Nat
  PROVE  x % n \in 0 .. n - 1 /\ (x + 1) % n = ((x % n) + 1) % n
<1> DEFINE q == x \div n
           r == x % n
           s == (r + 1) % n
           p == IF r + 1 = n THEN q + 1 ELSE q
<1>1. x \in Int /\ n \in Nat /\ n > 0 OBVIOUS
<1>2. q \in Int /\ r \in 0 .. n - 1 /\ x = n * q + r BY <1>1
<1> HIDE DEF q, r
<1>3. s = IF r + 1 = n THEN 0 ELSE r + 1 BY <1>2, NextOfRing
<1> HIDE DEF s
<1>4. p \in Int /\ s \in 0 .. n - 1 BY <1>2, <1>3
<1>5. x + 1 = n * p + s
  <2>1. n * (q + 1) = n * q + n BY <1>2
  <2>2. QED BY <1>2, <1>3, <2>1
<1> HIDE DEF p
<1>6. x + 1 \in Int OBVIOUS
<1>7. (x + 1) % n = s BY <1>4, <1>5, <1>6, ModIs
<1>8. QED BY <1>2, <1>7 DEF r, s

\* The selections so far went round the list, from place start to the cursor.
GoneRound(start) ==
  /\ cursor = (start + Len(picks)) % Len(Lookup)
  /\ \A i \in DOMAIN picks : picks[i][2][1] = Lookup[((start + i - 1) % Len(Lookup)) + 1]

SelectedInTurn ==
  /\ \A c \in Calls : attempt[c] = Cardinality(PicksOf(c))
  /\ Balancer = "roundRobin" => \E start \in 0 .. Len(Lookup) - 1 : GoneRound(start)

\* A call ends with an error that is retried only when it has no attempts left.
GivesUpLate ==
  \A c \in Calls :
    /\ stage[c] = "new" => lastError[c] = "none"
    /\ stage[c] = "failed" /\ lastError[c] \in {"draining", "retryable"} => ~MoreAttempts(attempt[c])

RoundInv == TypeInv /\ SelectedInTurn /\ GivesUpLate

\* A selection is one more pick of its call.
LEMMA PickOfCall ==
  ASSUME picks \in Seq(Calls \X Conns), NEW c \in Calls, NEW k \in Conns,
         picks' = Append(picks, <<c, k>>), NEW d \in Calls
  PROVE  Cardinality(PicksOf(d))' = Cardinality(PicksOf(d)) + IF d = c THEN 1 ELSE 0
<1> DEFINE n == Len(picks)
<1>1. /\ n \in Nat /\ Len(picks') = n + 1 /\ DOMAIN picks = 1 .. n /\ DOMAIN picks' = 1 .. n + 1
      /\ \A i \in 1 .. n : picks'[i] = picks[i]
      /\ picks'[n + 1] = <<c, k>>
  BY AppendProperties, LenProperties
<1> HIDE DEF n
<1>2. PicksOf(d)' = IF d = c THEN PicksOf(d) \cup {n + 1} ELSE PicksOf(d) BY <1>1 DEF PicksOf
<1>3. IsFiniteSet(PicksOf(d)) /\ n + 1 \notin PicksOf(d) /\ Cardinality(PicksOf(d)) \in Nat
  <2>1. IsFiniteSet(1 .. n) /\ PicksOf(d) \in SUBSET (1 .. n) BY <1>1, FS_Interval DEF PicksOf
  <2>2. QED BY <1>1, <2>1, FS_Subset, FS_CardinalityType
<1>4. Cardinality(PicksOf(d) \cup {n + 1}) = Cardinality(PicksOf(d)) + 1 BY <1>3, FS_AddElement
<1>5. QED BY <1>2, <1>3, <1>4

LEMMA AttemptInTurn ==
  ASSUME TypeInv, SelectedInTurn, NEW c \in Calls, Attempt(c)
  PROVE  SelectedInTurn'
<1>0. cursor \in 0 .. Len(Order) - 1 /\ picks \in Seq(Calls \X Conns) /\ attempt \in [Calls -> Nat]
  BY DEF TypeInv, WireTypes, CoverInv, Shapes
<1>1. PICK e \in Select, i \in 1 .. MaxConnections :
        /\ cursor' = CursorAfter /\ picks' = Append(picks, <<c, <<e, i>>>>)
        /\ attempt' = [attempt EXCEPT ![c] = @ + 1]
  BY DEF Attempt
<1>2. <<e, i>> \in Conns BY <1>0, SelectType DEF Conns
<1>3. ASSUME NEW d \in Calls PROVE attempt'[d] = Cardinality(PicksOf(d)')
  <2>1. Cardinality(PicksOf(d)') = Cardinality(PicksOf(d)) + IF d = c THEN 1 ELSE 0
    BY <1>0, <1>1, <1>2, PickOfCall
  <2>2. attempt[d] = Cardinality(PicksOf(d)) /\ attempt[d] \in Nat BY <1>0 DEF SelectedInTurn
  <2>3. QED BY <1>0, <1>1, <2>1, <2>2
<1>4. ASSUME Balancer = "roundRobin", NEW start \in 0 .. Len(Lookup) - 1, GoneRound(start)
      PROVE  GoneRound(start)'
  <2> DEFINE n == Len(picks)
  <2>1. /\ n \in Nat /\ Len(picks') = n + 1 /\ DOMAIN picks = 1 .. n /\ DOMAIN picks' = 1 .. n + 1
        /\ \A j \in 1 .. n : picks'[j] = picks[j]
        /\ picks'[n + 1] = <<c, <<e, i>>>>
    <3>1. <<c, <<e, i>>>> \in Calls \X Conns BY <1>2
    <3>2. QED BY <1>0, <1>1, <3>1, AppendProperties, LenProperties
  <2>2. Order = Lookup /\ e = Lookup[cursor + 1] /\ Len(Lookup) \in Nat \ {0}
    BY <1>1, <1>4, LookupType DEF Select, Order
  <2>3. cursor = (start + n) % Len(Lookup) BY <1>4 DEF GoneRound
  <2> HIDE DEF n
  <2>4. start + n \in Nat /\ start \in Nat BY <2>1, <2>2
  <2>5. (start + n + 1) % Len(Lookup) = (cursor + 1) % Len(Lookup)
    BY <2>2, <2>3, <2>4, ModNext
  <2>6. cursor' = (start + Len(picks')) % Len(Lookup)
    <3>1. start + (n + 1) = start + n + 1 BY <2>1, <2>4
    <3>2. cursor' = (cursor + 1) % Len(Lookup) BY <1>1, <2>2 DEF CursorAfter
    <3>3. QED BY <2>1, <2>5, <3>1, <3>2
  <2>7. ASSUME NEW j \in 1 .. n + 1
        PROVE  picks'[j][2][1] = Lookup[((start + j - 1) % Len(Lookup)) + 1]
    <3>1. CASE j \in 1 .. n BY <1>4, <2>1, <3>1 DEF GoneRound
    <3>2. CASE j = n + 1
      <4>1. start + (n + 1) - 1 = start + n BY <2>1, <2>4
      <4>2. picks'[n + 1][2][1] = e BY <2>1
      <4>3. QED BY <2>2, <2>3, <3>2, <4>1, <4>2
    <3>3. QED BY <2>1, <3>1, <3>2
  <2>8. QED BY <2>1, <2>6, <2>7 DEF GoneRound
<1>5. QED BY <1>3, <1>4 DEF SelectedInTurn

LEMMA SameTurn ==
  ASSUME SelectedInTurn, UNCHANGED <<cursor, picks, attempt>>
  PROVE  SelectedInTurn'
<1>1. \A c \in Calls : PicksOf(c)' = PicksOf(c) BY DEF PicksOf
<1>2. \A start \in 0 .. Len(Lookup) - 1 : GoneRound(start)' <=> GoneRound(start) BY DEF GoneRound
<1>3. QED BY <1>1, <1>2 DEF SelectedInTurn

LEMMA TurnNext == ASSUME TypeInv, SelectedInTurn, [Next]_vars PROVE SelectedInTurn'
<1> USE DEF poolVars
<1>1. ASSUME NEW c \in Calls, Call(c) PROVE SelectedInTurn'
  BY <1>1, AttemptInTurn, SameTurn DEF Call, Start, Retry, StartUnknown, Timeout
<1>2. ASSUME NEW k \in Conns, Link(k) PROVE SelectedInTurn'
  BY <1>2, SameTurn DEF Link, ConnectDone, ConnectFails, ClosingEnds, Reconnect, Disconnected,
     StaleClose, LinkLost, callVars
<1>3. ASSUME NEW r \in requests, NEW a \in Answers, Serve(r[1], r[2], r[3], a)
      PROVE  SelectedInTurn'
  BY <1>3, SameTurn DEF Serve, callVars
<1>4. ASSUME NEW m \in answers, Deliver(m[1], m[2], m[3], m[4]) PROVE SelectedInTurn'
  BY <1>4, SameTurn DEF Deliver
<1>5. CASE CloseClient BY <1>5, SameTurn DEF CloseClient
<1>6. CASE UNCHANGED vars BY <1>6, SameTurn DEF vars, callVars
<1>7. QED BY <1>1, <1>2, <1>3, <1>4, <1>5, <1>6 DEF Next

\* Whoever fails an attempt ends only with the last one, or with an error that is final.
LEMMA FailLate ==
  ASSUME Shapes, GivesUpLate, NEW S, NEW e, FailAttempts(S, e, attempt'),
         \A c \in Calls : c \notin S => attempt'[c] = attempt[c]
  PROVE  GivesUpLate'
<1> DEFINE Late(c) ==
      /\ stage[c] = "new" => lastError[c] = "none"
      /\ stage[c] = "failed" /\ lastError[c] \in {"draining", "retryable"}
           => ~MoreAttempts(attempt[c])
<1>1. \A n : MoreAttempts(n)' <=> MoreAttempts(n') BY DEF MoreAttempts, MaxAttempts
<1>2. ASSUME NEW c \in Calls PROVE Late(c)'
  <2>1. CASE c \in S
    <3>1. lastError'[c] \in {e, "thrown"} BY <2>1 DEF FailAttempts
    <3>2. /\ stage'[c] \in {"backoff", "failed"}
          /\ stage'[c] = "failed" /\ Retryable(e) /\ lastError'[c] # "thrown"
               => ~MoreAttempts(attempt'[c])
      BY <2>1 DEF FailAttempts
    <3>3. QED BY <1>1, <3>1, <3>2 DEF Retryable
  <2>2. CASE c \notin S
    <3>1. lastError'[c] = lastError[c] /\ stage'[c] = stage[c] /\ attempt'[c] = attempt[c]
      BY <2>2 DEF FailAttempts
    <3>2. QED BY <1>1, <3>1 DEF GivesUpLate
  <2>3. QED BY <2>1, <2>2
<1>3. QED BY <1>2 DEF GivesUpLate

\* Nobody ends but one that has not started or is answered.
LEMMA NoneGivesUp ==
  ASSUME Shapes, GivesUpLate, UNCHANGED lastError,
         \A c \in Calls :
           \/ stage'[c] = stage[c] /\ attempt'[c] = attempt[c]
           \/ stage'[c] \in {"connecting", "sent", "fulfilled"}
           \/ stage[c] = "new" /\ stage'[c] = "failed"
  PROVE  GivesUpLate'
<1>1. \A n : MoreAttempts(n)' <=> MoreAttempts(n') BY DEF MoreAttempts, MaxAttempts
<1>2. QED BY <1>1 DEF GivesUpLate

LEMMA LateNext == ASSUME Shapes, GivesUpLate, [Next]_vars PROVE GivesUpLate'
<1> USE DEF Shapes
<1>1. ASSUME NEW c \in Calls, Call(c) PROVE GivesUpLate'
  <2>1. CASE Attempt(c)
    <3>1. /\ attempt' = [attempt EXCEPT ![c] = @ + 1]
          /\ \/ stage' = [stage EXCEPT ![c] = "sent"] /\ UNCHANGED lastError
             \/ \E err : FailAttempts({c}, err, attempt')
             \/ stage' = [stage EXCEPT ![c] = "connecting"] /\ UNCHANGED lastError
      BY <2>1, Zenon DEF Attempt
    <3>2. CASE \E err : FailAttempts({c}, err, attempt')
      <4>1. PICK err : FailAttempts({c}, err, attempt') BY <3>2
      <4>2. \A d \in Calls : d \notin {c} => attempt'[d] = attempt[d] BY <3>1
      <4>3. QED BY <4>1, <4>2, FailLate
    <3>3. CASE stage' \in {[stage EXCEPT ![c] = "sent"], [stage EXCEPT ![c] = "connecting"]}
               /\ UNCHANGED lastError
      BY <3>1, <3>3, NoneGivesUp
    <3>4. QED BY <3>1, <3>2, <3>3
  <2>2. CASE StartUnknown(c) BY <2>2, NoneGivesUp DEF StartUnknown
  <2>3. CASE Timeout(c)
    <3>1. FailAttempts({c}, "retryable", attempt') /\ attempt' = attempt BY <2>3 DEF Timeout
    <3>2. QED BY <3>1, FailLate
  <2>4. QED BY <1>1, <2>1, <2>2, <2>3 DEF Call, Start, Retry
<1>2. ASSUME NEW k \in Conns, Link(k) PROVE GivesUpLate'
  <2>1. CASE ConnectDone(k) BY <2>1, NoneGivesUp DEF ConnectDone
  <2>2. CASE ConnectFails(k) \/ ClosingEnds(k) \/ Disconnected(k) \/ StaleClose(k)
    <3>1. /\ \E e : FailAttempts(Waiting(k), e, attempt') \/ FailAttempts(Sent(k), e, attempt')
          /\ attempt' = attempt
      BY <2>2 DEF ConnectFails, ClosingEnds, Disconnected, StaleClose, LinkLost
    <3>2. QED BY <3>1, FailLate
  <2>3. CASE Reconnect(k) BY <2>3, NoneGivesUp DEF Reconnect, callVars
  <2>4. QED BY <1>2, <2>1, <2>2, <2>3 DEF Link
<1>3. ASSUME NEW r \in requests, NEW a \in Answers, Serve(r[1], r[2], r[3], a) PROVE GivesUpLate'
  BY <1>3, NoneGivesUp DEF Serve, callVars
<1>4. ASSUME NEW m \in answers, Deliver(m[1], m[2], m[3], m[4]) PROVE GivesUpLate'
  <2>1. /\ attempt' = attempt
        /\ \/ UNCHANGED <<stage, lastError>>
           \/ stage' = [stage EXCEPT ![m[1]] = "fulfilled"] /\ UNCHANGED lastError
           \/ FailAttempts({m[1]}, m[4], attempt)
    BY <1>4, Zenon DEF Deliver
  <2>2. CASE FailAttempts({m[1]}, m[4], attempt) BY <2>1, <2>2, FailLate
  <2>3. CASE ~FailAttempts({m[1]}, m[4], attempt) BY <2>1, <2>3, NoneGivesUp
  <2>4. QED BY <2>2, <2>3
<1>5. CASE CloseClient
  <2>1. /\ FailAttempts(UNION {Sent(k) : k \in Conns}, "retryable", attempt')
        /\ attempt' = attempt
    BY <1>5 DEF CloseClient
  <2>2. QED BY <2>1, FailLate
<1>6. CASE UNCHANGED vars BY <1>6, NoneGivesUp DEF vars, callVars
<1>7. QED BY <1>1, <1>2, <1>3, <1>4, <1>5, <1>6 DEF Next

LEMMA RoundInit ==
  ASSUME NoneCalled, cursor \in 0 .. Len(Order) - 1
  PROVE  SelectedInTurn /\ GivesUpLate
<1>1. \A c \in Calls : PicksOf(c) = {} BY DEF NoneCalled, PicksOf
<1>2. \A c \in Calls : attempt[c] = Cardinality(PicksOf(c)) BY <1>1, FS_EmptySet DEF NoneCalled
<1>3. ASSUME Balancer = "roundRobin" PROVE cursor \in 0 .. Len(Lookup) - 1 /\ GoneRound(cursor)
  <2>1. Len(picks) = 0 /\ DOMAIN picks = {} BY EmptySeq DEF NoneCalled
  <2>2. cursor \in 0 .. Len(Lookup) - 1 BY <1>3 DEF Order
  <2>3. cursor = Len(Lookup) * 0 + cursor /\ cursor \in Int /\ Len(Lookup) \in Nat \ {0}
    BY <2>2, LookupType
  <2>4. cursor % Len(Lookup) = cursor BY <2>2, <2>3, ModIs
  <2>5. cursor = (cursor + Len(picks)) % Len(Lookup) BY <2>1, <2>3, <2>4
  <2>6. QED BY <2>1, <2>2, <2>5 DEF GoneRound
<1>4. QED BY <1>2, <1>3 DEF NoneCalled, SelectedInTurn, GivesUpLate

LEMMA RoundHolds == Spec => []RoundInv
<1>1. Init => SelectedInTurn /\ GivesUpLate BY RoundInit, OrderType DEF Init, NoneCalled
<1>2. TypeInv /\ SelectedInTurn /\ GivesUpLate /\ [Next]_vars => SelectedInTurn' /\ GivesUpLate'
  BY TurnNext, LateNext DEF TypeInv, CoverInv
<1>3. QED BY <1>1, <1>2, TypeHolds, PTL DEF Spec, RoundInv

\* As many selections in a row as the list is long go to every endpoint.
LEMMA RoundTriesAll ==
  ASSUME RoundInv, Balancer = "roundRobin", NEW c \in Calls, Alone(c), attempt[c] >= Len(Lookup)
  PROVE  Tried(c) = Endpoints
<1> DEFINE n == Len(Lookup)
           P == PicksOf(c)
<1>1. /\ picks \in Seq(Calls \X Conns) /\ Len(picks) \in Nat /\ DOMAIN picks = 1 .. Len(picks)
      /\ n \in Nat \ {0}
  BY LookupType, LenProperties DEF RoundInv, TypeInv, WireTypes
<1>2. PICK start \in 0 .. n - 1 : GoneRound(start) BY DEF RoundInv, SelectedInTurn
<1>3. P \in SUBSET (1 .. Len(picks)) /\ IsFiniteSet(P) /\ Cardinality(P) \in Nat
      /\ Cardinality(P) >= n
  <2>1. P \in SUBSET (1 .. Len(picks)) BY <1>1 DEF PicksOf
  <2>2. IsFiniteSet(P)
    <3>1. IsFiniteSet(1 .. Len(picks)) BY <1>1, FS_Interval
    <3>2. QED BY <2>1, <3>1, FS_Subset
  <2>3. attempt[c] = Cardinality(P) BY DEF RoundInv, SelectedInTurn
  <2>4. QED BY <2>1, <2>2, <2>3, FS_CardinalityType
<1> HIDE DEF n, P
<1>4. P # {} BY <1>1, <1>3, FS_EmptySet
<1>5. PICK a \in P : \A i \in P : a <= i
  <2>1. P \in SUBSET Nat BY <1>3
  <2>2. QED BY <1>4, <2>1, LeastNatural
<1>6. ASSUME NEW i \in a .. a + n - 1 PROVE i \in P
  <2>1. SUFFICES ASSUME i \notin P PROVE FALSE OBVIOUS
  <2>2. a \in Nat /\ i \in Nat /\ a <= i /\ i <= a + n - 1 /\ a >= 1 /\ a # i
    BY <1>1, <1>3, <2>1
  <2>3. ASSUME NEW j \in P PROVE j \in a .. i - 1
    <3>1. j \in 1 .. Len(picks) /\ a <= j /\ j # i BY <1>3, <1>5, <2>1
    <3>2. ~(i < j)
      <4>1. SUFFICES ASSUME i < j PROVE FALSE OBVIOUS
      <4>2. i \in DOMAIN picks /\ a < i BY <1>1, <2>2, <3>1, <4>1
      <4>3. a \in PicksOf(c) /\ j \in PicksOf(c) /\ i \in PicksOf(c)
        BY <4>1, <4>2 DEF Alone, P
      <4>4. QED BY <2>1, <4>3 DEF P
    <3>3. QED BY <2>2, <3>1, <3>2
  <2>4. /\ IsFiniteSet(a .. i - 1) /\ Cardinality(a .. i - 1) = i - a
    <3>1. a \in Int /\ i - 1 \in Int /\ ~(a > i - 1) /\ (i - 1) - a + 1 = i - a BY <2>2
    <3>2. /\ IsFiniteSet(a .. i - 1)
          /\ Cardinality(a .. i - 1) = IF a > i - 1 THEN 0 ELSE (i - 1) - a + 1
      BY <3>1, FS_Interval
    <3>3. QED BY <3>1, <3>2
  <2>5. P \in SUBSET (a .. i - 1) BY <2>3
  <2>6. Cardinality(P) <= i - a BY <2>4, <2>5, FS_Subset
  <2>7. QED BY <1>1, <1>3, <2>2, <2>6
<1>7. ASSUME NEW e \in Endpoints PROVE e \in Tried(c)
  <2>1. PICK t \in 0 .. n - 1 : e = Lookup[t + 1]
    <3>1. PICK j \in 1 .. n : e = Lookup[j] BY LookupType DEF Range, n
    <3>2. j - 1 \in 0 .. n - 1 /\ (j - 1) + 1 = j BY <1>1
    <3>3. QED BY <3>1, <3>2
  <2>2. start + a - 1 \in Nat /\ a \in Nat /\ start \in Nat BY <1>1, <1>2, <1>3
  <2>3. PICK d \in 0 .. n - 1 : (start + a - 1 + d) % n = t BY <1>1, <2>2, ModReaches
  <2>4. a + d \in a .. a + n - 1 /\ start + a - 1 + d = start + (a + d) - 1 BY <1>1, <2>2
  <2>5. a + d \in P BY <1>6, <2>4
  <2>6. picks[a + d][2][1] = Lookup[((start + (a + d) - 1) % n) + 1]
    BY <1>1, <1>2, <1>3, <2>5 DEF GoneRound, n
  <2>7. picks[a + d][2][1] = e BY <2>1, <2>3, <2>4, <2>6
  <2>8. QED BY <2>5, <2>7 DEF Tried, P
<1>8. ASSUME NEW i \in P PROVE picks[i][2][1] \in Endpoints
  <2>1. picks[i] \in Calls \X Conns BY <1>1, <1>3, ElementOfSeq
  <2>2. QED BY <2>1 DEF Conns
<1>9. QED BY <1>7, <1>8 DEF Tried, P

\* With round robin and the default number of attempts a call that no other comes between
\* gives up for want of a working endpoint only after it has tried each of them, whatever
\* the length of the list and wherever the cursor was.
THEOREM LoneCallCorrect == Spec => []LoneCallTriesAll
<1>1. ASSUME RoundInv, NEW c \in Calls, Balancer = "roundRobin", RetryMaxAttempts = NotConfigured,
             stage[c] = "failed", Alone(c), lastError[c] \in {"draining", "retryable"}
      PROVE  Tried(c) = Endpoints
  <2>1. ~(attempt[c] < Len(Lookup))
    BY <1>1 DEF RoundInv, GivesUpLate, MoreAttempts, MaxAttempts
  <2>2. attempt[c] \in Nat /\ Len(Lookup) \in Nat
    BY <1>1, LookupType DEF RoundInv, TypeInv, CoverInv, Shapes
  <2>3. attempt[c] >= Len(Lookup) BY <2>1, <2>2
  <2>4. QED BY <1>1, <2>3, RoundTriesAll
<1>2. RoundInv => LoneCallTriesAll BY <1>1 DEF LoneCallTriesAll
<1>3. QED BY <1>2, RoundHolds, PTL
=============================================================================
