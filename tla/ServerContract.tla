--------------------------- MODULE ServerContract ---------------------------
(***************************************************************************)
(* What RpcServer promises of its life (rpc-server.ts, and "why the server *)
(* drains" in README.zh-CN.md): close({ graceful: true }) first lets every *)
(* request in progress finish on a socket that is left alone, begins none  *)
(* meanwhile, and only then, or when its time is over, ends the sockets,   *)
(* all at once.                                                            *)
(***************************************************************************)
CONSTANTS Conns, Requests

VARIABLES
  phase,    \* "down", "up", "draining", "crashed"
  open,     \* open sockets
  active,   \* requests whose method has begun and whose answer is not written
  late      \* the drain has taken timeoutMs

vars == <<phase, open, active, late>>

Init == phase = "down" /\ open = {} /\ active = {} /\ late = FALSE

Start ==
  /\ phase = "down" /\ phase' = "up"
  /\ UNCHANGED <<open, active, late>>

Accept(c) ==
  /\ phase = "up" /\ open' = open \cup {c}
  /\ UNCHANGED <<phase, active, late>>

Lose(c) == open' = open \ {c} /\ UNCHANGED <<phase, active, late>>

\* A request ends, with its socket if the answer cannot be written, or the next of a
\* socket begins, or both.
Serve ==
  /\ active' \subseteq Requests
  /\ (phase = "draining" => active' \subseteq active)
  /\ open' = open \/ \E c \in Conns : open' = open \ {c}
  /\ UNCHANGED <<phase, late>>

Drain ==
  /\ phase = "up" /\ phase' = "draining"
  /\ UNCHANGED <<open, active, late>>

DrainTimer ==
  /\ phase = "draining" /\ late' = TRUE
  /\ UNCHANGED <<phase, open, active>>

\* Both ways to go down leave no socket open.
Stop ==
  /\ phase = "up" \/ (phase = "draining" /\ (active = {} \/ late))
  /\ phase' = "down" /\ open' = {} /\ late' = FALSE
  /\ UNCHANGED active

\* An error that nobody caught ends the process at any time, and with it every promise.
Crash == phase' = "crashed" /\ open' = {} /\ active' = {} /\ late' = FALSE

Next ==
  /\ phase # "crashed"
  /\ \/ Start \/ Serve \/ Drain \/ DrainTimer \/ Stop \/ Crash
     \/ \E c \in Conns : Accept(c) \/ Lose(c)

Spec == Init /\ [][Next]_vars
=============================================================================
