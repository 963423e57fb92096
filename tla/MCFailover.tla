----------------------------- MODULE MCFailover -----------------------------
(* Small instances of Failover for TLC.                                    *)
EXTENDS Failover

CONSTANTS a, b, c1, c2

TwoCalls == {c1, c2}
TwoEndpoints == <<a, b>>
ListedTwice == <<a, a>>
NoWeights == [e \in Endpoints |-> 1]
NotReported == [e \in Endpoints |-> 0]
RefusedOrFatal == {"draining", "fatal"}
None == {}
Symmetry == Permutations(Calls)
=============================================================================
