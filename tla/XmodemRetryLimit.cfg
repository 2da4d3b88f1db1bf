SPECIFICATION Spec
CONSTANTS
  MAXRETRANS = 2
  MAX_BYTE_RETRIES = 2
  XMODEM_PACKET_SIZE = 1
  XMODEM1K_PACKET_SIZE = 2
  BlockNumbers = 3
  DestSz = 4
  FileSize = 5
  WriteMayFail = FALSE
  NoiseLooks = {"plain", "SOH", "STX", "CAN"}
  FaultKinds = {"body", "control", "reply"}
  MaxFaults = 1
  PunctualHost = TRUE
  HostPatience = 1
  HostRetries = 4
  HostPersists = FALSE
  MaxLine = 0
INVARIANTS
  RetryLimit
CHECK_DEADLOCK FALSE
