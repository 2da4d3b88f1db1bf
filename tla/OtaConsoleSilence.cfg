SPECIFICATION Spec
CONSTANTS
  BUF_LEN = 4
  SIGN_LEN = 4
  Word = "word"
  Number = "number"
  HexDigits = {"number"}
  MaxKeys = 4
INVARIANTS
  HandedInTime
CHECK_DEADLOCK FALSE
