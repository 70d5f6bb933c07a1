---------------------------- MODULE MCPfClients ----------------------------
EXTENDS PfClients, TLC

CONSTANTS c1, c2, k1, k2, w1, w2

OneEach == c1 :> k1 @@ c2 :> k2
SameKey == c1 :> k1 @@ c2 :> k1

\* With one key, the connections are alike, and the workers always are.
Symmetry == Permutations({c1, c2}) \cup Permutations({w1, w2})
=============================================================================
