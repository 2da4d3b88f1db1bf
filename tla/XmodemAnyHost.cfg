SPECIFICATION FairReceiver
CONSTANTS
  MAXRETRANS = 2
  MAX_BYTE_RETRIES = 2
  XMODEM_PACKET_SIZE = 1
  XMODEM1K_PACKET_SIZE = 2
  BlockNumbers = 5
  DestSz = 3
  FileSize = 3
  WriteMayFail = TRUE
  NoiseLooks = {"plain", "SOH", "STX", "EOT", "CAN"}
  FaultKinds = {"header", "body", "control", "reply"}
  MaxFaults = 1
  PunctualHost = FALSE
  HostPatience = 1
  HostRetries = 0
  HostPersists = TRUE
  MaxLine = 4
INVARIANTS
  PrefixIntegrity
  FlashMatchesHash
PROPERTIES
  ReturnsOnceQuiet
CHECK_DEADLOCK FALSE
