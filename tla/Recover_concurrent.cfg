SPECIFICATION FairSpec
CONSTANTS
  Procs = {p1, p2}
  Files <- MCFiles
  MaxSize = 5
  BlockSize = 2
  OldFile = OldFile
  Width = 24
  Piped <- MCPiped
  NONE = NONE
INVARIANTS
  TypeOK
  OwnsTemp
  OutputIsPrefix
  DoneIsWhole
PROPERTIES
  StaleTempBlocks
  ReplacesOnlyByWhole
  Terminates
CHECK_DEADLOCK FALSE
