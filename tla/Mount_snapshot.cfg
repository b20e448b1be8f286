SPECIFICATION Spec
CONSTANTS
  Addr <- MCAddr
  Layouts <- MCLayouts
  Slots = 2
  MaxXid = 3
  Requests <- MCRequests
  NONE = NONE
INVARIANTS
  TypeOK
  MountsNewestSnapshot
  FailsOnlyWithReason
CONSTRAINT WhileRunning
CHECK_DEADLOCK FALSE
