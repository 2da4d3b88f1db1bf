SPECIFICATION LineSpec
CONSTANTS
  MAXRETRANS = 3
  MAX_BYTE_RETRIES = 5
  XMODEM_PACKET_SIZE = 1
  XMODEM1K_PACKET_SIZE = 2
  BlockNumbers = 8
  DestSz = 4
  FileSize = 5
  WriteMayFail = FALSE
  NoiseLooks = {"plain", "SOH", "STX", "CAN"}
  FaultKinds = {"body", "control", "reply"}
  MaxFaults = 5
  PunctualHost = TRUE
  HostPatience = 1
  HostRetries = 4
  HostPersists = FALSE
  MaxLine = 0
  MaxUploads = 2
INVARIANTS
  DataStaysInUpload
  HostDoneMeansWhole
PROPERTIES
  UploadCompletes
CHECK_DEADLOCK FALSE
