------------------------------- MODULE BlockIO -------------------------------
(***************************************************************************)
(* The container as every command reads it (src/include/drat/io.c:71-193): *)
(* a stdio stream `nx', opened once, from which read_blocks() takes blocks *)
(* of globals.block_size one by one.  Addresses are multiplied in 64 bits  *)
(* and handed to fseeko() as a signed offset; fread() comes back short at  *)
(* the end of the stream, at a sector that cannot be read, or not at all.  *)
(*                                                                         *)
(* Offsets and sizes count sectors.  What a block in the caller's buffer   *)
(* holds is told by the offset it was read from.                           *)
(***************************************************************************)
EXTENDS Integers

CONSTANTS
  Containers,        \* the containers there may be
  Options,           \* values of --block-size, 0 if not given
  NX_DEFAULT_BLOCK_SIZE,
  Modulus,           \* 2^64, in sectors
  Requests,          \* the calls of read_blocks(): [start, num]
  MaxBlocks          \* the largest num among them

(* size and nx_block_size in sectors; the sectors that cannot be read; and *)
(* whether seeking past the end is refused, as Linux does for devices but  *)
(* not for files.                                                          *)
Container ==
  [size : Nat, nx_block_size : Nat, bad : SUBSET Nat, strict : BOOLEAN]

ASSUME WidthAssumption == Modulus \in Nat \ {0} /\ NX_DEFAULT_BLOCK_SIZE \in Nat \ {0}
ASSUME ContainerAssumption == \A c \in Containers : c \in Container /\ 2 * c.size < Modulus
ASSUME RequestAssumption ==
  MaxBlocks \in Nat /\ Options \subseteq Nat /\ Requests \subseteq [start : Nat, num : 0 .. MaxBlocks]

VARIABLES
  container,         \* the container opened
  block_size,        \* globals.block_size
  eof, error,        \* the stream's flags
  status,            \* "opening", "idle", "reading", "failed" or "aborted"
  request,           \* the arguments of the last call
  num_blocks_read,   \* its progress, then its result
  buffer             \* the caller's buffer, block by block

stream == <<eof, error>>
vars == <<container, block_size, stream, status, request, num_blocks_read, buffer>>

Junk == -1

Init ==
  /\ container \in Containers
  /\ block_size \in Options
  /\ eof = FALSE /\ error = FALSE
  /\ status = "opening"
  /\ request = [start |-> 0, num |-> 0]
  /\ num_blocks_read = 0
  /\ buffer = [b \in 0 .. MaxBlocks - 1 |-> Junk]

-----------------------------------------------------------------------------
(* stdio (external).                                                       *)

SeekFails(offset) ==
  \/ offset >= Modulus \div 2                              \* negative
  \/ container.strict /\ offset > container.size

Sectors(offset, size) == offset .. offset + size - 1

(* fread() takes sectors until one is bad or the stream ends.              *)
ReadSucceeds(offset, size) ==
  \A s \in Sectors(offset, size) : s < container.size /\ s \notin container.bad

ReadHitsError(offset, size) ==
  \E s \in Sectors(offset, size) : s < container.size /\ s \in container.bad

ReadHitsEnd(offset, size) ==
  ~ReadSucceeds(offset, size) /\ ~ReadHitsError(offset, size)

-----------------------------------------------------------------------------
(* open_container()                                                        *)

(* There is no such file, or it may not be read.                           *)
CannotOpen ==
  /\ status = "opening"
  /\ status' = "failed"
  /\ UNCHANGED <<container, block_size, stream, request, num_blocks_read, buffer>>

(* --block-size was given.                                                 *)
OpenWithOption ==
  /\ status = "opening"
  /\ block_size # 0
  /\ status' = "idle"
  /\ UNCHANGED <<container, block_size, stream, request, num_blocks_read, buffer>>

(* Block 0, read at the default size, says what the size is.               *)
OpenWithField ==
  /\ status = "opening"
  /\ block_size = 0
  /\ ReadSucceeds(0, NX_DEFAULT_BLOCK_SIZE)
  /\ block_size' = IF container.nx_block_size # 0 THEN container.nx_block_size
                                                  ELSE NX_DEFAULT_BLOCK_SIZE
  /\ status' = "idle"
  /\ UNCHANGED <<container, stream, request, num_blocks_read, buffer>>

(* Block 0 cannot be read: -1, and the command returns.                    *)
OpenFails ==
  /\ status = "opening"
  /\ block_size = 0
  /\ ReadHitsError(0, NX_DEFAULT_BLOCK_SIZE)
  /\ block_size' = NX_DEFAULT_BLOCK_SIZE
  /\ status' = "failed"
  /\ UNCHANGED <<container, stream, request, num_blocks_read, buffer>>

(* The container is shorter than that: the assertion fails.                *)
OpenHitsEnd ==
  /\ status = "opening"
  /\ block_size = 0
  /\ ReadHitsEnd(0, NX_DEFAULT_BLOCK_SIZE)
  /\ block_size' = NX_DEFAULT_BLOCK_SIZE
  /\ eof' = TRUE
  /\ status' = "aborted"
  /\ UNCHANGED <<container, error, request, num_blocks_read, buffer>>

-----------------------------------------------------------------------------
(* read_blocks(buffer, start_block, num_blocks)                            *)

Call(r) ==
  /\ status = "idle"
  /\ request' = r
  /\ num_blocks_read' = 0
  /\ status' = IF r.num = 0 THEN "idle" ELSE "reading"
  /\ UNCHANGED <<container, block_size, stream, buffer>>

(* Mutant: start_block is not advanced.                                    *)
OffsetOfFirst == (request.start * block_size) % Modulus

(* Where fseeko() goes: a product of unsigned 64-bit numbers.              *)
Offset == ((request.start + num_blocks_read) * block_size) % Modulus

(* Mutant: the loop ends one block early.                                  *)
ReturnEarly(n) ==
  /\ num_blocks_read' = n
  /\ status' = IF n = num_blocks_read \/ n + 1 >= request.num THEN "idle" ELSE "reading"
  /\ UNCHANGED <<container, block_size, request>>

Return(n) ==
  /\ num_blocks_read' = n
  /\ status' = IF n = num_blocks_read \/ n = request.num THEN "idle" ELSE "reading"
  /\ UNCHANGED <<container, block_size, request>>

(* The block cannot be read in full: what the buffer holds instead is of   *)
(* no use, and what has been read so far is the result.                    *)
SeekRefused ==
  /\ status = "reading"
  /\ SeekFails(Offset)
  /\ Return(num_blocks_read)
  /\ UNCHANGED <<stream, buffer>>

(* Mutant: it is one block too many.                                       *)
ReadBlockOneMore ==
  /\ status = "reading"
  /\ ~SeekFails(Offset)
  /\ ReadSucceeds(Offset, block_size)
  /\ buffer' = [buffer EXCEPT ![num_blocks_read] = Offset]
  /\ num_blocks_read' = num_blocks_read + 1
  /\ status' = IF num_blocks_read = request.num THEN "idle" ELSE "reading"
  /\ eof' = FALSE
  /\ UNCHANGED <<container, block_size, request, error>>

ReadBlock ==
  /\ status = "reading"
  /\ ~SeekFails(Offset)
  /\ ReadSucceeds(Offset, block_size)
  /\ buffer' = [buffer EXCEPT ![num_blocks_read] = Offset]
  /\ Return(num_blocks_read + 1)
  /\ eof' = FALSE
  /\ UNCHANGED error

(* Mutant: clearerr() is not called.                                       *)
ReadErrorKept ==
  /\ status = "reading"
  /\ ~SeekFails(Offset)
  /\ ReadHitsError(Offset, block_size)
  /\ buffer' = [buffer EXCEPT ![num_blocks_read] = Junk]
  /\ Return(num_blocks_read)
  /\ eof' = FALSE /\ error' = TRUE

(* fread() sets the error flag; the assertion holds; clearerr() resets it. *)
ReadError ==
  /\ status = "reading"
  /\ ~SeekFails(Offset)
  /\ ReadHitsError(Offset, block_size)
  /\ buffer' = [buffer EXCEPT ![num_blocks_read] = Junk]
  /\ Return(num_blocks_read)
  /\ eof' = FALSE /\ error' = FALSE

(* fread() sets the end-of-file flag, which assert() excludes.             *)
ReadPastEnd ==
  /\ status = "reading"
  /\ ~SeekFails(Offset)
  /\ ReadHitsEnd(Offset, block_size)
  /\ buffer' = [buffer EXCEPT ![num_blocks_read] = Junk]
  /\ eof' = TRUE
  /\ status' = "aborted"
  /\ UNCHANGED <<container, block_size, request, error, num_blocks_read>>

end_of_container == eof

Open == CannotOpen \/ OpenWithOption \/ OpenWithField \/ OpenFails \/ OpenHitsEnd
Read == SeekRefused \/ ReadBlock \/ ReadError \/ ReadPastEnd

Next == Open \/ Read \/ \E r \in Requests : Call(r)

Spec == Init /\ [][Next]_vars

-----------------------------------------------------------------------------
(* Properties.                                                             *)

TypeOK ==
  /\ container \in Containers
  /\ block_size \in Nat
  /\ eof \in BOOLEAN /\ error \in BOOLEAN
  /\ status \in {"opening", "idle", "reading", "failed", "aborted"}
  /\ request \in [start : Nat, num : 0 .. MaxBlocks]
  /\ num_blocks_read \in 0 .. request.num
  /\ buffer \in [0 .. MaxBlocks - 1 -> Nat \union {Junk}]

(* "On success, returns 0": the blocks reported as read are, each in its   *)
(* place, the ones at the addresses asked for (io.c:131-138, 172-178), as  *)
(* far as these times the block size fit into 64 bits.  While the call     *)
(* goes on this holds of the blocks read so far, and the blocks read       *)
(* before one that does not fit stay right.                                *)
Named(b) == (request.start + b) * block_size

ReadsNamedBlocks ==
  \A b \in 0 .. num_blocks_read - 1 : Named(b) < Modulus => buffer[b] = Named(b)

(* A call comes back short only when the first block that is missing       *)
(* cannot be read: not for what an earlier call has left in the stream.    *)
ShortOnlyForReason ==
  status = "idle" /\ num_blocks_read < request.num =>
    \/ SeekFails(Offset)
    \/ ReadHitsError(Offset, block_size)

(* Between calls both flags are clear, whatever failed before: the         *)
(* assertion about the next failure can rely on them -- and                *)
(* end_of_container(), which search asks then (search.c:178), never holds. *)
FlagsClearBetweenCalls ==
  status = "idle" => ~error /\ ~end_of_container

(* "This cannot be EOF, since we never read more than 1 block, so if it    *)
(* were EOF, this should've been detected as `EINVAL` in the earlier call  *)
(* to `fseeko()`." (io.c:147-151): the assertion after it holds.           *)
NeverEof == status # "aborted"

=============================================================================
