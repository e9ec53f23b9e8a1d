--------------------------- MODULE MCTunLoopback ----------------------------
EXTENDS TunLoopback, TLC

MCSymmetry == Permutations(Ref) \union Permutations(Node)
=============================================================================
