---------------------------- MODULE MCDeployment ----------------------------
(* A small instance of Deployment for TLC.                                 *)
EXTENDS Deployment

CONSTANTS a, b, c1, c2

TwoCalls == {c1, c2}
TwoEndpoints == <<a, b>>
NoWeights == [e \in Endpoints |-> 1]
NotReported == [e \in Endpoints |-> 0]
AllAnswers == {"ok"} \cup Errors
\* The other cursor is this one with the names of the endpoints swapped.
FirstIsNext == DeployInit /\ cursor = 0
MCSpec == FirstIsNext /\ [][DeployNext]_deployVars
Symmetry == Permutations(Calls)
=============================================================================
