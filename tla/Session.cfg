SPECIFICATION ReuseSpec
CONSTANTS
  Ref = {r1, r2, r3}
  Conn = {c1, c2}
  NoSession = NoSession
  LCIMin = 1
  LCIMax = 3
  lciStart = 2
  lciEnd = 9
  GFIs = {1}
  GFIMod128 = 1
  CallLCIs = {1, 2}
  PeerLCIs = {0, 1}
  NewStates = {"p5"}
SYMMETRY MCSymmetry
INVARIANTS TypeOK IndexedIsRegistered RegisteredIsReachable
PROPERTIES AllocatorNeverRebinds ImplementsTable RoundRobin
