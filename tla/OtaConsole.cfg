SPECIFICATION FairSpec
CONSTANTS
  BUF_LEN = 4
  SIGN_LEN = 4
  Word = "word"
  Number = "number"
  HexDigits = {"number"}
  MaxKeys = 10
INVARIANTS
  TypeOK
  LineIsString
  SignInBounds
  SignIsTyped
PROPERTIES
  ReturnsToPreamble
CHECK_DEADLOCK FALSE
