SPECIFICATION LinkSpec
CONSTANTS
  Ref = {r1, r2}
  SvrConn = {s1}
  GwyConn = {}
  Conn <- MCConn
  Tun = tun
  NoSession = NoSession
  LCIMin = 1
  LCIMax = 1
  lciStart = 1
  lciEnd = 1
  GFIs = {1}
  GFIMod128 = 1
  PeerLCIs = {1}
  TunLCIs = {1}
  KernelLCIs = {}
  MaxQueue = 4
  Hasty = TRUE
PROPERTIES LinkComesUp
