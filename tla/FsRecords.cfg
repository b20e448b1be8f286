SPECIFICATION FairSpec
CONSTANTS
  Oid <- MCOid
  Xid <- MCXid
  Images <- MCImages
  Heights = {1, 2, 3}
  MaxRecords = 4
  MaxDamaged = 3
  Damages = {"unmapped", "unreadable", "invalid", "emptied", "fixed", "rooted", "level"}
  NULL = NULL
  Uninit = Uninit
INVARIANTS
  TypeOK
  CompleteListing
  PathInitialised
  AbortsOnlyOnDamage
PROPERTIES
  WalksForwards
  Terminates
CHECK_DEADLOCK FALSE
