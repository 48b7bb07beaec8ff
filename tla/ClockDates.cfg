SPECIFICATION Spec
CONSTANTS
  Period = 8
  Periods = 4
  CoarseWord = 8
  MARGIN = 1
  RESCHEDULE = 1
  Diffs <- FarDiffs
  CoarseDiffs <- UnitDiffs
  Intervals = {1, 9}
  Ahead <- SomeDates
  MaxCoarse = 1
  MaxAdjust = 2
  THRESHOLD = 3
INVARIANTS OffsetKept FiresOnDate MeasuredRight
PROPERTIES LogicalClockSteady AdjustmentsExact
CHECK_DEADLOCK FALSE
