SPECIFICATION Spec
CONSTANTS
  QUEUEBUF_NUM = 3
  max_send_dups = 2
  max_recv_dups = 2
  POLITE_INTERVAL = 1
  Intervals = {0, 1}
  CSMA_MAX_BACKOFF = 1
  max_transmissions = 2
  MaxCalls = 6
INVARIANTS TypeOK ResendBudget
PROPERTIES IdleCancelSticks Quiesces
CHECK_DEADLOCK FALSE
