--------------------------- MODULE MCSessionReuse ---------------------------
EXTENDS SessionReuse, TLC

MCSymmetry == Permutations(Ref) \union Permutations(Conn)
=============================================================================
