\* Two ticks per second; five seconds are more than the register can hold.
SPECIFICATION Spec
CONSTANTS
  Ticks = 2
  Word = 8
  MaxSeconds = 5
  MaxElapsed = 9
CHECK_DEADLOCK FALSE
INVARIANT
  TimeoutIsInMilliseconds
