SPECIFICATION FairSpec
CONSTANTS
  Addr <- MCAddr
  Oid <- MCOid
  Xid <- MCXid
  Images <- MCImages
  Heights = {1, 2, 3}
  LostBlocks = 1
  Damages = {"emptied", "variable", "loop", "reversed"}
  NULL = NULL
INVARIANTS
  TypeOK
PROPERTIES
  RefinesContract
  Descends
  Terminates
CHECK_DEADLOCK FALSE
