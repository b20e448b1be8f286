SPECIFICATION FairSpec
CONSTANTS
  c1 = c1
  c2 = c2
  p1 = p1
  Lines <- MCLines
  MaxInt = 39
  AUTO = AUTO
  BAD = BAD
  STDOUT = STDOUT
  Addr <- MCAddr
  Places = 20
  Refs <- MCRefs
  Height = 1
  Devices <- MCDevices
  Answers <- MCAnswers
  Width = 4
  MaxTyped = 2
  ANY_XID = 9
  LOST = LOST
  BEYOND = BEYOND
  NULL = NULL
  NONE = NONE
INVARIANTS
  TypeOK
  
  ShowsChosen
  StopsOnlyForReason
PROPERTIES
  EndsUnlessUnanswerable
CHECK_DEADLOCK FALSE
