------------------------------ MODULE XFields -------------------------------
(***************************************************************************)
(* The size of a file: get_file_size() (src/include/drat/func/j.c:12-39)   *)
(* and the extended fields in which it looks, get_xf_pairs_array()         *)
(* (src/include/drat/func/xf.c:28-75).  An inode record ends in an array   *)
(* of keys, each with the length of its value, and an area with the        *)
(* values, each of which begins at a multiple of eight bytes.  Where is    *)
(* not recorded: it follows from the lengths of all the values before.     *)
(***************************************************************************)
EXTENDS Integers, Sequences

CONSTANT Width      \* the last offset at which a value may begin
ASSUME WidthAssumption == Width \in Nat /\ Width < 65536

(* A value is read as a j_dstream_t: values[n] is the size that one at     *)
(* offset n of the area would state.                                       *)
Key == [x_type : {"dstream", "name", "sparse"}, x_size : Nat]
Inode ==
  [has_uncompressed_size : BOOLEAN, uncompressed_size : Nat, xf_keys : Seq(Key),
   xf_values : [0 .. Width -> Nat]]

(* xf_value_cursor_index is a uint16_t.                                    *)
Aligned(n) == (IF n % 8 = 0 THEN n ELSE n + (8 - (n % 8))) % 65536

(* Mutant: the values follow one another without a gap.                    *)
xf_value_cursor_index_packed(keys, i) ==
  LET end[k \in 0 .. Len(keys)] == IF k = 0 THEN 0 ELSE end[k - 1] + keys[k].x_size
  IN end[i - 1]

(* The offset at which value i is taken to begin.                          *)
xf_value_cursor_index(keys, i) ==
  LET end[k \in 0 .. Len(keys)] ==
        IF k = 0 THEN 0 ELSE (Aligned(end[k - 1]) + keys[k].x_size) % 65536
  IN Aligned(end[i - 1])

(* What lies beyond the last offset is never asked for.                    *)
Size(inode, offset) == IF offset \in 0 .. Width THEN inode.xf_values[offset] ELSE 0

DStreams(inode) == {i \in DOMAIN inode.xf_keys : inode.xf_keys[i].x_type = "dstream"}

(* Where the values up to the first data stream are, as they are written:  *)
(* each begins at the first multiple of eight bytes that is not before the *)
(* end of the one in front of it.                                          *)
AreOffsets(at, keys, first) ==
  /\ at[1] = 0
  /\ \A i \in 2 .. first :
       /\ at[i] % 8 = 0
       /\ at[i] - (at[i - 1] + keys[i - 1].x_size) \in 0 .. 7

(* An inode that states the size of its file.                              *)
HoldsSize(inode, size) ==
  IF inode.has_uncompressed_size THEN inode.uncompressed_size = size
  ELSE IF DStreams(inode) = {} THEN size = 0
  ELSE \E first \in DStreams(inode) :
         /\ \A i \in DStreams(inode) : first <= i
         /\ \E at \in [1 .. first -> 0 .. Width] :
              AreOffsets(at, inode.xf_keys, first) /\ inode.xf_values[at[first]] = size

(* The first data stream counts; without one the size is 0.                *)
get_file_size(inode) ==
  IF inode.has_uncompressed_size THEN inode.uncompressed_size
  ELSE IF DStreams(inode) = {} THEN 0
  ELSE LET first == CHOOSE i \in DStreams(inode) : \A j \in DStreams(inode) : i <= j
       IN Size(inode, xf_value_cursor_index(inode.xf_keys, first))

=============================================================================
