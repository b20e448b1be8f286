SPECIFICATION SearchSpec
CONSTANTS
  MaxSize = 8
  Containers <- MCContainers
  Disks <- MCDisks
  Options = {0, 2}
  NX_DEFAULT_BLOCK_SIZE = 2
  Modulus = 64
  Requests <- MCRequests
  MaxBlocks = 1
  start_addr = 1
  end_addr = 5
INVARIANTS CountsExactly
CHECK_DEADLOCK FALSE
