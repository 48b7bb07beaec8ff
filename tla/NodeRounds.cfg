SPECIFICATION FairSpec
CONSTANTS
  my_addr = 2
  my_degree = 2
  InitialDegree <- Degrees
  NUM_CH_MAX = 2
  NUM_CB_MAX = 3
  NUM_BL_MAX = 1
  NUM_CONS_SLOTS = 4
  NUM_CONS_CTRL_ITERATIONS = 2
  IDLE_SLOT_INTERVAL = 1
  DISC_TO_EREV_INTERVAL = 1
  MAX_RX_SYNC_DISCOVERY = 1
  LongAgo = 6
  Messages <- AllMessages
  Dates = {0, 1}
  Skew = {0}
  SlotSkew = {0}
  Diffs = {"below"}
  MaxMsgs <- FourThenOne
  MaxLate = 0
  Jumps = {"small"}
  MaxAdjust = 1
INVARIANTS TypeOK NoFault InStep NothingStaleAnnounced HeadsRanked PhasesKeepTime BridgeSlotsDistinct BridgeDeclaresItsHeads PoolsCoverLists
PROPERTIES RoundsComplete IterationsAgree InitiatorSends
