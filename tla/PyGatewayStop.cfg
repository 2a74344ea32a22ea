SPECIFICATION Spec
CONSTANTS
  Caller = {t1, t2}
  MaxStarts = 3
INVARIANTS
  DrainsOnlyWhenStopped
CHECK_DEADLOCK FALSE
