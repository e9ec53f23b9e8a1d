SPECIFICATION Spec
CONSTANTS
  Ref = {r1, r2}
  SvrConn = {s1, s2}
  GwyConn = {}
  Conn <- MCConn
  Tun = tun
  NoSession = NoSession
  LCIMin = 1
  LCIMax = 3
  lciStart = 2
  lciEnd = 3
  GFIs = {1}
  GFIMod128 = 1
  PeerLCIs = {1}
  TunLCIs = {2, 3}
  KernelLCIs = {}
SYMMETRY MCSymmetry
CHECK_DEADLOCK FALSE
INVARIANTS TypeOK ClosedConnHasNoSession AllocatedChannelsUnique
