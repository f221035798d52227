---------------------------- MODULE MCHubServer ----------------------------
\* Instances of HubServer for TLC.
EXTENDS HubServer, TLC

CONSTANTS c1, c2, c3   \* model values

TwoConns == {c1, c2}
ThreeConns == {c1, c2, c3}
ClipsOnly == {"Publish"}
ClipsAndFiles == {"Publish", "PublishFile"}
NoConns == {}
TwoSteady == {c1, c2}
OnlyC1 == {c1}

ConnSymmetry == Permutations(Conns)
SteadySymmetry == Permutations(Steady)
============================================================================
