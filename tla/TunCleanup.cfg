SPECIFICATION Spec
CONSTANTS
  Ref = {r1, r2}
  SvrConn = {s1, s2}
  GwyConn = {}
  Conn <- MCConn
  Tun = tun
  NoSession = NoSession
  LCIMin = 1
  LCIMax = 2
  lciStart = 2
  lciEnd = 2
  GFIs = {1}
  GFIMod128 = 1
  PeerLCIs = {1}
  TunLCIs = {2}
  KernelLCIs = {}
CHECK_DEADLOCK FALSE
PROPERTIES CleanupClearsOwnChannel
