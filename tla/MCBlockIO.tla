------------------------------ MODULE MCBlockIO ------------------------------
(***************************************************************************)
(* Containers for BlockIO: of every length around the end of a block, with *)
(* up to one bad sector, as a file or as a device.  Calls begin anywhere   *)
(* up to the end and beyond, or where the product of address and block     *)
(* size wraps around, in the first block or a later one, to offsets before *)
(* or after the end.                                                       *)
(***************************************************************************)
EXTENDS BlockIO

CONSTANTS MaxSize, MaxStart

MCContainers ==
  UNION {[size : {n}, nx_block_size : {0, 1, 3},
          bad : {{}} \union {{s} : s \in 0 .. n - 1}, strict : BOOLEAN] : n \in 0 .. MaxSize}

MCRequests == [start : 0 .. MaxStart \union {10, 15, 16, 31}, num : 0 .. MaxBlocks]
=============================================================================
