SPECIFICATION FairSpec
CONSTANTS
  UART_RX_BUF = 4
  HW_FIFO_SIZE = 2
  Requests = {2, 5}
  MaxRequest = 5
  ReadTimeouts = {"finite", "forever"}
  BufTimeouts = {"zero", "finite"}
  MaxBytes = 7
INVARIANTS
  TypeOK
  CallerBufferGuarded
  FifoOrder
  Conservation
  ShortReadOnlyOnTimeout
  NoLostWakeup
PROPERTIES
  RefinesChannel
  WaitForeverReads
  BufReadReturns
CHECK_DEADLOCK FALSE
