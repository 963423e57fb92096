---------------------------- MODULE CallContract ----------------------------
(***************************************************************************)
(* What RpcConnection promises to the callers of RpcClient.call            *)
(* (rpc-client.ts, connection.ts), whatever the network does: a call is    *)
(* answered only while it is in flight, an answer is final, and everything *)
(* else that may happen to it is to fail with an error its caller sees and *)
(* may retry.  A disconnect or close() may fail many calls in one step.    *)
(***************************************************************************)
CONSTANT Reqs

VARIABLE outcome   \* what the caller of each request sees

Outcomes == {"new", "waiting", "pending", "fulfilled", "refused", "failed"}

Init == outcome = [r \in Reqs |-> "new"]

\* The caller makes an attempt: it is sent, waits for the connection, or fails.
Issue(r) ==
  /\ outcome[r] \in {"new", "failed"}
  /\ \E o \in {"waiting", "pending", "failed"} : outcome' = [outcome EXCEPT ![r] = o]

\* The connection is there: the request is sent.
Transmit(r) ==
  /\ outcome[r] = "waiting"
  /\ outcome' = [outcome EXCEPT ![r] = "pending"]

\* The server's answer settles a request that was sent and has not failed.
Answer(r) ==
  /\ outcome[r] = "pending"
  /\ \E o \in {"fulfilled", "refused", "failed"} : outcome' = [outcome EXCEPT ![r] = o]

\* A timeout, a disconnect or close() fails some of the calls in flight.
Fail(S) ==
  /\ \A r \in S : outcome[r] \in {"waiting", "pending"}
  /\ outcome' = [r \in Reqs |-> IF r \in S THEN "failed" ELSE outcome[r]]

Next ==
  \/ \E r \in Reqs : Issue(r) \/ Transmit(r) \/ Answer(r)
  \/ \E S \in SUBSET Reqs : Fail(S)

Spec == Init /\ [][Next]_outcome
=============================================================================
