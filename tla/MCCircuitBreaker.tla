-------------------------- MODULE MCCircuitBreaker --------------------------
(* Small instances of CircuitBreaker for TLC.                              *)
EXTENDS CircuitBreaker, TLC

CONSTANTS c1, c2, c3, k1, k2

OneKey == {k1}
TwoKeys == {k1, k2}
ThreeCalls == {c1, c2, c3}
Symmetry == Permutations(ThreeCalls) \cup Permutations(TwoKeys)
=============================================================================
