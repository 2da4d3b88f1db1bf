SPECIFICATION Spec
CONSTANTS
  Images = {"a", "b"}
  ImageLen = 2
  FlashLen = 4
  Starts <- MCStarts
  XMODEM_BUF_SIZE = 2
  WriteMayFail = TRUE
  ReadMayFail = TRUE
  InitMayFail = TRUE
INVARIANTS
  TypeOK
  VerdictIsOfLastUpload
  VerdictHoldsForFlash
  HashesAgree
CHECK_DEADLOCK FALSE
