SPECIFICATION Spec
CONSTANTS
  xp_desc_blocks = 5
  MaxXid = 3
  MapLists <- MCMapLists
  VolumeLists <- MCVolumeLists
  NUM_QUERIES = 2
  Faults <- MCFaults
INVARIANTS LoadsLastCheckpoint  StopsOnlyForReason
CHECK_DEADLOCK FALSE
