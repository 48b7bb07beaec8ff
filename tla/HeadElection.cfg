SPECIFICATION ElectionSpec
CONSTANTS
  NUM_CH_MAX = 4
  NUM_CB_MAX = 8
  Heads <- EightHeads
INVARIANTS PoolExact KeepsBestHeads
