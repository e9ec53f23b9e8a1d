SPECIFICATION Spec
CONSTANTS
  Stream = "far"
  Locked = FALSE
  MaxInterrupts = 1
  PeerPackets = {"CALL_CONN", "CLR_REQ", "CLR_CONF"}
  Keepalive = TRUE
CHECK_DEADLOCK FALSE
INVARIANTS NoUnaskedConfirmation ConfirmationsBalance
PROPERTIES KeeperUnwinds CrossingClearsEnd SilentCallEnds
