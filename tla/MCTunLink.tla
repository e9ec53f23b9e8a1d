------------------------------ MODULE MCTunLink ------------------------------
EXTENDS TunLink

MCConn == SvrConn \union GwyConn
=============================================================================
