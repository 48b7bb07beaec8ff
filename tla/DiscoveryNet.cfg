SPECIFICATION FairSpec
CONSTANTS
  Nodes = {a, b, c}
  Newcomers = {c}
  MAX_RX_SYNC_DISCOVERY = 1
  DISC_TO_EREV_INTERVAL = 2
  MaxTransit = 1
  LongAgo = 3
INVARIANT NotBefore
PROPERTY DateComes
