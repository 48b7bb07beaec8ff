SPECIFICATION Spec
CONSTANTS
  Period = 8
  Periods = 4
  CoarseWord = 8
  MARGIN = 1
  RESCHEDULE = 1
  Diffs <- JumpDiffs
  CoarseDiffs <- UnitDiffs
  Intervals = {1, 9}
  Ahead <- SomeDates
  MaxCoarse = 2
  MaxAdjust = 2
  THRESHOLD = 3
INVARIANT OffsetInRange
CHECK_DEADLOCK FALSE
