SPECIFICATION Spec
CONSTANTS
  W = 8
  NumEvents = 2
  Procs = {"p", "ctimer_process"}
  Timers = {"a", "c"}
  CTimers = {"c"}
  Owner <- OneEach
  Intervals = {0, 2}
  Diffs <- BothWays
  Jumps = {1, 2}
  MaxLate = 1
INVARIANTS TypeOK NeverForgotten WillBeCalled
PROPERTIES NeverEarly EarlyOnlyIfRedone EachComes
