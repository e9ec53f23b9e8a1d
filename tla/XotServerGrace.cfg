SPECIFICATION ServerSpec
CONSTANTS
  Stream = "near"
  Locked = TRUE
CHECK_DEADLOCK FALSE
PROPERTIES GraceIsGranted
