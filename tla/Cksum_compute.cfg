SPECIFICATION CksumSpec
CONSTANTS
  Width = 16
  num_words = 6
  Words = {0, 1, 5, 15}
INVARIANTS CksumTypeOK ComputesCksum DetectsDamage
CHECK_DEADLOCK FALSE
