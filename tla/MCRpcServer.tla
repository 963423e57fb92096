---------------------------- MODULE MCRpcServer ----------------------------
(* Small instances of RpcServer for TLC.                                   *)
EXTENDS RpcServer

CONSTANTS c1, c2, h1, h2, k1, k2

TwoConns == {c1, c2}
TwoHandlers == {h1, h2}
TwoClosers == {k1, k2}
=============================================================================
