------------------------------ MODULE MCRecover ------------------------------
(***************************************************************************)
(* Files for Recover: every size around the block boundaries, with extents *)
(* that hold less than it, exactly it, or more.                            *)
(***************************************************************************)
EXTENDS Recover

CONSTANT MaxSize

Extents ==
  {<<>>,
   <<[phys_block_num |-> 10, len |-> 2]>>,
   <<[phys_block_num |-> 10, len |-> 1], [phys_block_num |-> 30, len |-> 0],
     [phys_block_num |-> 20, len |-> 2]>>}

(* The records an APFS may hold for a file of the size: the size with the  *)
(* inode, if the file is compressed, or in a data stream, alone or after   *)
(* fields of 5 or of 8 and 11 bytes.  Elsewhere other things would be read.*)
Fields(keys, at, size) ==
  [has_uncompressed_size |-> FALSE, uncompressed_size |-> 0, xf_keys |-> keys,
   xf_values |-> [n \in 0 .. Width |-> IF n = at THEN size ELSE 3]]
DStream == [x_type |-> "dstream", x_size |-> 40]
NameField(n) == [x_type |-> "name", x_size |-> n]
Inodes(size) ==
  <<[Fields(<<>>, 0, 3) EXCEPT !.has_uncompressed_size = TRUE, !.uncompressed_size = size],
    Fields(<<DStream>>, 0, size),
    Fields(<<NameField(5), DStream, NameField(5)>>, 8, size),
    Fields(<<[x_type |-> "sparse", x_size |-> 8], NameField(11), DStream>>, 24, size)>>

(* A file without extents, one in one piece, and one in three of which the *)
(* middle one is empty; with each, a kind of inode for every size.  A file *)
(* of size 0 may also have an inode without fields or none.                *)
MCFiles ==
  {[size |-> s, inode |-> Inodes(s)[((s + l + Len(x)) % 4) + 1], nlink |-> l, extents |-> x] :
     s \in 0 .. MaxSize, l \in 1 .. 2, x \in Extents}
   \union {[size |-> 0, inode |-> i, nlink |-> 1, extents |-> <<>>] : i \in {NONE, Fields(<<>>, 0, 3)}}

(* Files whose extents hold all their bytes.                               *)
DenseFiles == {f \in MCFiles : f.extents # <<>> /\ f.size <= 2 * BlockSize}

(* Which invocations write to stdout: none, or one of them.                *)
MCPiped == {{}, {CHOOSE p \in Procs : TRUE}}

=============================================================================
