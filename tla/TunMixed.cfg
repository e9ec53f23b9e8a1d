SPECIFICATION Spec
CONSTANTS
  Ref = {r1, r2}
  SvrConn = {s1}
  GwyConn = {g1, g2}
  Conn <- MCConn
  Tun = tun
  NoSession = NoSession
  LCIMin = 1
  LCIMax = 1
  lciStart = 1
  lciEnd = 1
  GFIs = {1}
  GFIMod128 = 1
  PeerLCIs = {1}
  TunLCIs = {0, 1}
  KernelLCIs = {0, 1}
SYMMETRY MCSymmetry
CONSTRAINT MCNoShutdown
CHECK_DEADLOCK FALSE
INVARIANTS IndexedIsRegistered FoundByItsConn
