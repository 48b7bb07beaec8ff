SPECIFICATION Spec
CONSTANTS
  my_addr = 2
  my_degree = 2
  InitialDegree <- Degrees
  NUM_CH_MAX = 2
  NUM_CB_MAX = 3
  NUM_BL_MAX = 1
  NUM_CONS_SLOTS = 3
  NUM_CONS_CTRL_ITERATIONS = 2
  IDLE_SLOT_INTERVAL = 1
  DISC_TO_EREV_INTERVAL = 1
  MAX_RX_SYNC_DISCOVERY = 1
  LongAgo = 5
  Messages <- AllMessages
  Dates <- AnyDates
  Skew = {0, 1, 2, 3, 4, 5, 6, 7}
  SlotSkew = {0}
  Diffs = {"below"}
  MaxMsgs <- TwoMsgs
  MaxLate = 0
  Jumps = {"small", "past"}
  MaxAdjust = 1
INVARIANT WakeUpComes
CHECK_DEADLOCK FALSE
PROPERTY ImplementsClusterLists
