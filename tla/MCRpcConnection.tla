-------------------------- MODULE MCRpcConnection --------------------------
(* Small instances of RpcConnection for TLC.                               *)
EXTENDS RpcConnection, TLC

CONSTANTS r1, r2, s1, s2, s3

OneReq == {r1}
TwoReqs == {r1, r2}
TwoSocks == {s1, s2}
ThreeSocks == {s1, s2, s3}

\* Requests are interchangeable, and so are sockets (safety runs only).
Symmetry == Permutations({r1, r2}) \cup Permutations({s1, s2, s3})
=============================================================================
