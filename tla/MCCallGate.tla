----------------------------- MODULE MCCallGate -----------------------------
(* A small instance of CallGate for TLC.                                   *)
EXTENDS CallGate

CONSTANTS c1, c2, c3, k1, k2

TwoKeys == {k1, k2}
ThreeCalls == {c1, c2, c3}
=============================================================================
