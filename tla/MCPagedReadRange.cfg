SPECIFICATION Spec
CONSTANTS
  XMODEM_BUF_SIZE = 3
  DefaultLen = 4
  Starts = {0, 5}
  Sizes <- MCSizes
  ReadMayFail = FALSE
INVARIANTS
  RangeCovered
CHECK_DEADLOCK FALSE
