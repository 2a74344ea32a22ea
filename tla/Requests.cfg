SPECIFICATION RequestsSpec
CONSTANTS
  Conn = {c1, c2}
  Req = {r1, r2}
  Limits = {1, 2}
  Signals = {"SIGINT", "SIGTERM"}
  Micros = {0}
  MaxLogged = 2
  auth_secret = TRUE
  None = None
INVARIANTS
  PermitsAccounted
  CutOnlyAfterTimeout
  LogTellsTheStory
PROPERTIES
  ShutdownReturns
  SlotsComeBack
  StartedIsCompleted
CHECK_DEADLOCK FALSE
