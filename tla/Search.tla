------------------------------- MODULE Search -------------------------------
(***************************************************************************)
(* cmd_search() (src/src/commands/search.c:74-509): every block in a range *)
(* of addresses is read over the same buffer and held against the criteria *)
(* that are switched on; what matches is counted and reported.  A block    *)
(* that cannot be read is skipped.                                         *)
(*                                                                         *)
(* The reads are those of BlockIO, one block per call.  A criterion is one *)
(* step; the criteria switched off in the source are left out.             *)
(***************************************************************************)
EXTENDS BlockIO, Sequences, FiniteSets

CONSTANTS
  Disks,                  \* what the containers may hold
  start_addr, end_addr    \* the range searched

(* A record of a file-system tree: whether its OID is one sought, whether  *)
(* it is a directory entry, and whether its name or target is one sought.  *)
Record == [oid : BOOLEAN, dentry : BOOLEAN, name : BOOLEAN, target : BOOLEAN]

(* A block: checksum, whether it is the virtual object sought, whether it  *)
(* is a node of a file-system tree and of which kind, and its records.     *)
Contents == [valid : BOOLEAN, virtual : BOOLEAN, fs_node : BOOLEAN,
             fixed : BOOLEAN, leaf : BOOLEAN, records : Seq(Record)]

(* disk[s] is the block that begins at sector s.                           *)
ASSUME RangeAssumption == start_addr \in Nat \ {0} /\ end_addr \in Nat /\ start_addr <= end_addr
ASSUME CallAssumption == [start : 0 .. end_addr, num : {1}] \subseteq Requests
ASSUME DiskAssumption ==
  \A d \in Disks, c \in Containers : \A s \in 0 .. c.size - 1 : s \in DOMAIN d /\ d[s] \in Contents

VARIABLES
  disk,          \* what the container holds
  phase,         \* the step of the command that is next, "done" or "ended"
  addr,          \* the address searched
  num_matches

search_vars == <<vars, disk, phase, addr, num_matches>>

(* The block in memory.                                                    *)
Current == disk[buffer[0]]

SearchInit ==
  /\ Init
  /\ disk \in Disks
  /\ phase = "open"
  /\ addr = start_addr
  /\ num_matches = 0

OpenContainer ==
  /\ phase = "open"
  /\ Open
  /\ phase' = IF status' = "idle" THEN "block count" ELSE "ended"
  /\ UNCHANGED <<disk, addr, num_matches>>

(* Block 0 is read for the number of blocks, which is printed; the range   *)
(* does not depend on it.                                                  *)
StartReadBlockCount ==
  /\ phase = "block count"
  /\ Call([start |-> 0, num |-> 1])
  /\ phase' = "reading block count"
  /\ UNCHANGED <<disk, addr, num_matches>>

ReadingBlockCount ==
  /\ phase = "reading block count"
  /\ Read
  /\ phase' = IF status' = "idle" /\ num_blocks_read' = 1 THEN "loop" ELSE "ended"
  /\ UNCHANGED <<disk, addr, num_matches>>

StartRead ==
  /\ phase = "loop"
  /\ addr < end_addr
  /\ Call([start |-> addr, num |-> 1])
  /\ phase' = "reading"
  /\ UNCHANGED <<disk, addr, num_matches>>

Reading ==
  /\ phase = "reading"
  /\ Read
  /\ phase' = IF status' = "aborted" THEN "ended"
              ELSE IF num_blocks_read' = 1 THEN "virtual objects" ELSE "unreadable"
  /\ UNCHANGED <<disk, addr, num_matches>>

NextAddr == phase' = "loop" /\ addr' = addr + 1

(* "Reached end of container; search complete.", or a warning.             *)
SkipUnreadable ==
  /\ phase = "unreadable"
  /\ IF end_of_container THEN phase' = "done" /\ UNCHANGED addr ELSE NextAddr
  /\ UNCHANGED <<vars, disk, num_matches>>

(* Virtual objects with a given OID.                                       *)
MatchVirtual ==
  /\ phase = "virtual objects"
  /\ num_matches' = num_matches + (IF Current.valid /\ Current.virtual THEN 1 ELSE 0)
  /\ phase' = "records"
  /\ UNCHANGED <<vars, disk, addr>>

IsFsNode == Current.valid /\ Current.fs_node

(* Every criterion about records goes on to the next block when it meets a *)
(* node that is not a leaf with entries of variable size.                  *)
SkippedNode == IsFsNode /\ (Current.fixed \/ ~Current.leaf)

SkipNode ==
  /\ phase \in {"records", "names", "targets"}
  /\ SkippedNode
  /\ NextAddr
  /\ UNCHANGED <<vars, disk, num_matches>>

(* Leaf nodes with records of certain objects: the first one counts.       *)
MatchRecords ==
  /\ phase = "records"
  /\ ~SkippedNode
  /\ num_matches' = num_matches +
       (IF IsFsNode /\ \E i \in DOMAIN Current.records : Current.records[i].oid THEN 1 ELSE 0)
  /\ phase' = "names"
  /\ UNCHANGED <<vars, disk, addr>>

(* Mutant: whatever type the record is of, its name is compared.           *)
MatchAnyNames ==
  /\ phase = "names"
  /\ ~SkippedNode
  /\ num_matches' = num_matches +
       (IF IsFsNode THEN Cardinality({i \in DOMAIN Current.records : Current.records[i].name}) ELSE 0)
  /\ phase' = "targets"
  /\ UNCHANGED <<vars, disk, addr>>

(* Directory entries with certain names.                                   *)
WithName(b) == {i \in DOMAIN b.records : b.records[i].dentry /\ b.records[i].name}

MatchNames ==
  /\ phase = "names"
  /\ ~SkippedNode
  /\ num_matches' = num_matches +
       (IF IsFsNode THEN Cardinality(WithName(Current)) ELSE 0)
  /\ phase' = "targets"
  /\ UNCHANGED <<vars, disk, addr>>

(* Directory entries that lead to certain objects.                         *)
WithTarget(b) == {i \in DOMAIN b.records : b.records[i].dentry /\ b.records[i].target}

MatchTargets ==
  /\ phase = "targets"
  /\ ~SkippedNode
  /\ num_matches' = num_matches +
       (IF IsFsNode THEN Cardinality(WithTarget(Current)) ELSE 0)
  /\ NextAddr
  /\ UNCHANGED <<vars, disk>>

Finish ==
  /\ phase = "loop"
  /\ addr >= end_addr
  /\ phase' = "done"
  /\ UNCHANGED <<vars, disk, addr, num_matches>>

SearchNext ==
  \/ OpenContainer
  \/ StartReadBlockCount
  \/ ReadingBlockCount
  \/ StartRead
  \/ Reading
  \/ SkipUnreadable
  \/ MatchVirtual
  \/ SkipNode
  \/ MatchRecords
  \/ MatchNames
  \/ MatchTargets
  \/ Finish

SearchSpec == SearchInit /\ [][SearchNext]_search_vars

-----------------------------------------------------------------------------
(* Properties.                                                             *)

(* Reference: the sectors of the block at address a, and what there is to  *)
(* be found in it.                                                         *)
Readable(a) ==
  \A s \in a * block_size .. (a + 1) * block_size - 1 :
    s < container.size /\ s \notin container.bad

Hits(b) ==
  IF ~b.valid THEN {} ELSE
  {h \in {<<"virtual", 0>>} : b.virtual} \union
  (IF ~b.fs_node \/ b.fixed \/ ~b.leaf THEN {} ELSE
     {h \in {<<"record", 0>>} : \E i \in DOMAIN b.records : b.records[i].oid}
     \union ({"name"} \X {i \in DOMAIN b.records : b.records[i].dentry /\ b.records[i].name})
     \union ({"target"} \X {i \in DOMAIN b.records : b.records[i].dentry /\ b.records[i].target}))

HitsAt(a) == IF Readable(a) THEN Cardinality(Hits(disk[a * block_size])) ELSE 0

FoundBefore[a \in start_addr .. end_addr] ==
  IF a = start_addr THEN 0 ELSE FoundBefore[a - 1] + HitsAt(a - 1)

(* The number of results is that of the hits in all the readable blocks    *)
(* passed so far: no block is searched twice, no block is searched on what *)
(* an earlier one has left in the buffer, and what one criterion skips is  *)
(* of no interest to the next (search.c:174-477).  Claimed of block sizes  *)
(* with which no address of the range wraps around, see ReadsNamedBlocks:  *)
(* in the code, those below eight terabytes.                               *)
CountsExactly ==
  end_addr * block_size <= Modulus =>
    /\ phase = "loop" => num_matches = FoundBefore[addr]
    /\ phase = "done" => num_matches = FoundBefore[end_addr]

=============================================================================
