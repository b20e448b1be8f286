SPECIFICATION Spec
CONSTANTS
  Procs = {p1}
  Files <- DenseFiles
  MaxSize = 2
  BlockSize = 2
  OldFile = OldFile
  Width = 24
  Piped <- MCPiped
  NONE = NONE
INVARIANTS
  TargetFullyRecovered
CHECK_DEADLOCK FALSE
