SPECIFICATION ProcessSpec
CONSTANTS
  Caller = {t1, t2}
  Main = t1
  MaxStarts = 2
  MaxLines = 2
  Tries = 2
  RUST_LOG = FALSE
INVARIANTS
  NoOrphan
  LinesInOrder
  ExitDrains
PROPERTIES
  NothingHangs
CHECK_DEADLOCK FALSE
