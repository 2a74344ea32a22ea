SPECIFICATION Spec
CONSTANTS
  Caller = {t1, t2}
  MaxStarts = 3
PROPERTIES
  StopEndsServeBlocking
CHECK_DEADLOCK FALSE
