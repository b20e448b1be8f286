SPECIFICATION Spec
CONSTANTS
  a = a
  b = b
  x = x
  y = y
  MaxPath = 3
  Oid = {ROOT, a, b, INVALID}
  ROOT_DIR_INO_NUM = ROOT
  INVALID = INVALID
  Name = {x, y}
  EMPTY = EMPTY
  Volumes <- MCVolumes
  Paths <- MCPaths
  NONE = NONE
  LOST = LOST
INVARIANTS TypeOK   DiesOnlyOfDangling
CHECK_DEADLOCK FALSE
