---------------------------- MODULE MCTunGateway ----------------------------
EXTENDS TunGateway, TLC

MCConn == SvrConn \union GwyConn
MCSymmetry == Permutations(Ref) \union Permutations(SvrConn) \union Permutations(GwyConn)

\* Bound: what follows a signal is left to the other run.
MCNoShutdown == signal = "waiting"
=============================================================================
