SPECIFICATION Spec
CONSTANTS
  Readers = {r1, r2}
  UART_RX_BUF = 3
  MaxBytes = 2
INVARIANTS
  NobodyStranded
CHECK_DEADLOCK FALSE
