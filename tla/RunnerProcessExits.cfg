\* Three exits within three ticks are a loop; the signal has a window of two.
SPECIFICATION ExitsSpec
CONSTANTS
  maxCount = 3
  restartsWindow = 3
  MaxTime = 7
  MaxExits = 6
  Window = 2
INVARIANTS NoFalseAlarm DenseLoopIsFound 
CHECK_DEADLOCK FALSE
