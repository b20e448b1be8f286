SPECIFICATION Spec
CONSTANTS
  MaxSize = 7
  MaxStart = 7
  Containers <- MCContainers
  Options = {0, 2}
  NX_DEFAULT_BLOCK_SIZE = 2
  Modulus = 32
  Requests <- MCRequests
  MaxBlocks = 3
INVARIANTS TypeOK ReadsNamedBlocks ShortOnlyForReason FlagsClearBetweenCalls
CHECK_DEADLOCK FALSE
