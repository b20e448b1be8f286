------------------------------- MODULE Inspect -------------------------------
(***************************************************************************)
(* cmd_inspect() (src/src/commands/inspect.c:79-687): the newest           *)
(* checkpoint is copied out of the checkpoint descriptor area, a ring, and *)
(* everything it leads to is read and shown, one kind of object after the  *)
(* other: its blocks, the Ephemeral objects in its checkpoint maps, the    *)
(* container's object map, the volume superblocks, and volume by volume    *)
(* the object map, the root of the file-system tree and the records of a   *)
(* few objects.  At the first thing that is missing or damaged the command *)
(* ends; only the nodes of object map trees may fail their checksum.       *)
(*                                                                         *)
(* The ring is filled by the file system's writer, which is not part of    *)
(* drat: checkpoint after checkpoint, of any number of maps followed by    *)
(* the superblock, without touching the last complete one; it may crash in *)
(* any block.  The command then finds the container at rest.               *)
(***************************************************************************)
EXTENDS Integers, Sequences, SequencesExt

CONSTANTS
  xp_desc_blocks,    \* the length of the ring
  MaxXid,            \* the bound on checkpoints, for model checking
  MapLists,          \* the checkpoint maps a checkpoint may have
  VolumeLists,       \* values of nx_fs_oid; 0 for no volume
  NUM_QUERIES,       \* the objects whose records are shown
  Faults             \* [thing, kind]: what may be wrong with one object

(* Something read or looked up by the command: a kind, and whose it is.    *)
Ephemeral(a) == <<"ephemeral", a>>
BlockZero == <<"block 0", 0>>
Area == <<"checkpoint descriptor area", 0>>
ContainerOmap == <<"nx_omap", 0>>
ContainerTree == <<"nx_omap_btree", 0>>
Volume(o) == <<"apsb", o>>
VolumeOmap(o) == <<"fs_omap", o>>
VolumeTree(o) == <<"fs_omap_btree", o>>
Root(o) == <<"fs_root_btree", o>>
Query(o, j) == <<"records", o, j>>

ASSUME RingAssumption == xp_desc_blocks \in Nat \ {0} /\ MaxXid \in Nat
ASSUME QueryAssumption == NUM_QUERIES \in Nat
ASSUME MapAssumption == \A maps \in MapLists : maps \in Seq(Seq(Nat))
ASSUME VolumeAssumption == \A list \in VolumeLists : list \in Seq(Nat)

(* What can be wrong with what.  Blocks at a given address can be          *)
(* unreadable, what is looked up can be missing as well.  Only of object   *)
(* maps is a type looked at.  Of block 0, of the area, and of the nodes    *)
(* below a root, checksums do not matter.                                  *)
KindsOf(thing) ==
  CASE thing[1] \in {"block 0", "checkpoint descriptor area"} -> {"unreadable"}
    [] thing[1] \in {"ephemeral", "nx_omap_btree", "fs_omap_btree"} -> {"unreadable", "invalid"}
    [] thing[1] \in {"nx_omap", "fs_omap"} -> {"unreadable", "invalid", "not physical"}
    [] thing[1] \in {"apsb", "fs_root_btree"} -> {"missing", "unreadable", "invalid"}
    [] thing[1] = "records" -> {"missing", "unreadable"}
    [] OTHER -> {"invalid"}

ASSUME FaultAssumption == \A f \in Faults : f.kind \in KindsOf(f.thing)

(* A block of the ring: a superblock says where its checkpoint is, a map   *)
(* lists the addresses of Ephemeral objects.                               *)
Slot == 0 .. xp_desc_blocks - 1
Block == [kind : {"nxsb", "map", "other"}, valid : BOOLEAN, xid : 0 .. MaxXid,
          index : Slot, len : 0 .. xp_desc_blocks, cpm_map : Seq(Nat)]

VARIABLES
  ring,              \* the checkpoint descriptor area
  head,              \* where the writer begins the next checkpoint
  checkpoint,        \* the blocks of the last complete one, in order
  nx_fs_oid,         \* the volumes in its superblock
  contiguous,        \* nx_xp_desc_blocks says so
  fault,             \* what is wrong with an object
  phase,             \* the step of the command, or how it ended
  xp_desc,           \* its copy of the ring
  nxsb,              \* the superblock in use
  xp,                \* the blocks of its checkpoint
  xp_obj,            \* the Ephemeral objects read
  num_file_systems,
  apsbs,             \* the volume superblocks read
  i, j               \* the volume and the object whose turn it is

container == <<ring, head, checkpoint, nx_fs_oid, contiguous, fault>>
vars == <<container, phase, xp_desc, nxsb, xp, xp_obj, num_file_systems, apsbs, i, j>>

Is(thing, kind) == fault.thing = thing /\ fault.kind = kind

Blank == [kind |-> "other", valid |-> FALSE, xid |-> 0, index |-> 0, len |-> 0, cpm_map |-> <<>>]

Init ==
  /\ ring = [s \in Slot |-> Blank]
  /\ head = 0
  /\ checkpoint = <<>>
  /\ nx_fs_oid \in VolumeLists
  /\ contiguous \in BOOLEAN
  /\ fault \in Faults
  /\ phase = "not run yet"
  /\ xp_desc = ring
  /\ nxsb = Blank
  /\ xp = <<>> /\ xp_obj = <<>> /\ apsbs = <<>>
  /\ num_file_systems = 0
  /\ i = 1 /\ j = 1

-----------------------------------------------------------------------------
(* The writer (external).                                                  *)

committed == IF checkpoint = <<>> THEN 0 ELSE Last(checkpoint).xid

NewCheckpoint(maps) ==
  LET block == [Blank EXCEPT !.valid = TRUE, !.xid = committed + 1]
  IN [k \in 1 .. Len(maps) + 1 |->
       IF k <= Len(maps)
         THEN [block EXCEPT !.kind = "map", !.cpm_map = maps[k]]
         ELSE [block EXCEPT !.kind = "nxsb", !.index = head, !.len = Len(maps) + 1]]

(* The first n blocks of a checkpoint are written, then half a block if    *)
(* that is not all of them.                                                *)
WriteCheckpoint(maps, n) ==
  LET new == NewCheckpoint(maps)
      At(k) == (head + k - 1) % xp_desc_blocks
      Written(k) == IF k <= n THEN new[k] ELSE [new[k] EXCEPT !.valid = FALSE]
      written == 1 .. (IF n < Len(new) THEN n + 1 ELSE n)
  IN /\ phase = "not run yet"
     /\ committed < MaxXid
     /\ Len(checkpoint) + Len(new) <= xp_desc_blocks
     /\ n \in 0 .. Len(new)
     /\ ring' = [s \in Slot |-> IF \E k \in written : At(k) = s
                                  THEN Written(CHOOSE k \in written : At(k) = s) ELSE ring[s]]
     /\ IF n = Len(new)
          THEN checkpoint' = new /\ head' = (head + n) % xp_desc_blocks
          ELSE UNCHANGED <<checkpoint, head>>
     /\ UNCHANGED <<nx_fs_oid, contiguous, fault, phase, xp_desc, nxsb, xp, xp_obj,
                    num_file_systems, apsbs, i, j>>

-----------------------------------------------------------------------------
(* The command, up to the checkpoint.                                      *)

(* The command ends: "failed" for -1, "ended" for 0 after an END message,  *)
(* "aborted" by an assertion.                                              *)
Stop(how) ==
  /\ phase' = how
  /\ UNCHANGED <<container, xp_desc, nxsb, xp, xp_obj, num_file_systems, apsbs, i, j>>

(* Block 0 is used whatever it is, if it can be read.                      *)
ReadBlockZero ==
  /\ phase = "not run yet"
  /\ IF Is(BlockZero, "unreadable") THEN Stop("failed")
     ELSE IF contiguous THEN Stop("area") ELSE Stop("ended")

ReadArea ==
  /\ phase = "area"
  /\ IF Is(Area, "unreadable") THEN Stop("failed")
     ELSE /\ xp_desc' = ring
          /\ phase' = "scan"
          /\ UNCHANGED <<container, nxsb, xp, xp_obj, num_file_systems, apsbs, i, j>>

Acceptable(s) == xp_desc[s].valid /\ xp_desc[s].kind = "nxsb" /\ xp_desc[s].xid > 0

(* Mutant: the last acceptable superblock of the ring is taken.            *)
LatestInRing(s) == Acceptable(s) /\ \A t \in Slot : Acceptable(t) => t <= s

(* i_latest_nx: there is no bound on the XID, --max-xid is not looked at.  *)
Latest(s) ==
  /\ Acceptable(s)
  /\ \A t \in Slot : Acceptable(t) =>
       xp_desc[t].xid < xp_desc[s].xid \/ (xp_desc[t].xid = xp_desc[s].xid /\ s <= t)

Scan ==
  /\ phase = "scan"
  /\ IF \A s \in Slot : ~Acceptable(s) THEN Stop("ended")
     ELSE /\ \E s \in Slot : Latest(s) /\ nxsb' = xp_desc[s]
          /\ phase' = "copy"
          /\ UNCHANGED <<container, xp_desc, xp, xp_obj, num_file_systems, apsbs, i, j>>

(* n blocks of the ring, from block s on.                                  *)
Segment(s, n) == [k \in 1 .. n |-> xp_desc[s + k - 1]]

(* Mutant: both segments are as long as the first one.                     *)
CopyTwice ==
  LET segment_1_len == xp_desc_blocks - nxsb.index
  IN Segment(nxsb.index, segment_1_len) \o Segment(0, segment_1_len)

(* The second part of a checkpoint that goes beyond the end of the ring is *)
(* copied from the start of it.                                            *)
CopyWrapped ==
  LET segment_1_len == xp_desc_blocks - nxsb.index
      segment_2_len == nxsb.len - segment_1_len
  IN Segment(nxsb.index, segment_1_len) \o Segment(0, segment_2_len)

Copy ==
  /\ phase = "copy"
  /\ xp' = IF nxsb.index + nxsb.len <= xp_desc_blocks
             THEN Segment(nxsb.index, nxsb.len) ELSE CopyWrapped
  /\ phase' = "checkpoint"
  /\ UNCHANGED <<container, xp_desc, nxsb, xp_obj, num_file_systems, apsbs, i, j>>

(* Every block but the superblock must be a map.                           *)
ShowCheckpoint ==
  /\ phase = "checkpoint"
  /\ IF \A k \in DOMAIN xp : xp[k].kind \in {"nxsb", "map"}
       THEN Stop("ephemeral objects") ELSE Stop("aborted")

-----------------------------------------------------------------------------
(* The Ephemeral objects.                                                  *)

(* The addresses in all maps of the checkpoint, in order.                  *)
Mappings(blocks) ==
  FlattenSeq([k \in DOMAIN blocks |-> IF blocks[k].kind = "map" THEN blocks[k].cpm_map ELSE <<>>])

xp_obj_len == Len(Mappings(xp))

ReadEphemeral ==
  /\ phase = "ephemeral objects"
  /\ Len(xp_obj) < xp_obj_len
  /\ LET paddr == Mappings(xp)[Len(xp_obj) + 1] IN
     IF Is(Ephemeral(paddr), "unreadable") THEN Stop("failed")
     ELSE /\ xp_obj' = Append(xp_obj, paddr)
          /\ UNCHANGED <<container, phase, xp_desc, nxsb, xp, num_file_systems, apsbs, i, j>>

(* Mutant: the first object is not validated.                              *)
ValidateMostEphemeral ==
  /\ phase = "ephemeral objects"
  /\ Len(xp_obj) = xp_obj_len
  /\ IF xp_obj_len = 0 THEN Stop("aborted")
     ELSE IF \E k \in 2 .. xp_obj_len : Is(Ephemeral(xp_obj[k]), "invalid") THEN Stop("ended")
     ELSE Stop("nx_omap")

(* The assertion is an assignment, whose value is the number of objects;   *)
(* then all of them are validated.                                         *)
ValidateEphemeral ==
  /\ phase = "ephemeral objects"
  /\ Len(xp_obj) = xp_obj_len
  /\ IF xp_obj_len = 0 THEN Stop("aborted")
     ELSE IF \E k \in 1 .. xp_obj_len : Is(Ephemeral(xp_obj[k]), "invalid") THEN Stop("ended")
     ELSE Stop("nx_omap")

-----------------------------------------------------------------------------
(* The container object map and the volume superblocks.                    *)

(* An object map and the root of its tree: the map must be valid and its   *)
(* tree of the Physical storage type; the tree may fail its checksum.      *)
StopAtOmap(omap, tree, then) ==
  IF Is(omap, "unreadable") THEN Stop("failed")
  ELSE IF Is(omap, "invalid") \/ Is(omap, "not physical") THEN Stop("ended")
  ELSE IF Is(tree, "unreadable") THEN Stop("failed")
  ELSE then

ReadContainerOmap ==
  /\ phase = "nx_omap"
  /\ StopAtOmap(ContainerOmap, ContainerTree, Stop("count volumes"))

(* Up to the first 0.                                                      *)
CountVolumes ==
  /\ phase = "count volumes"
  /\ \E n \in 0 .. Len(nx_fs_oid) :
       /\ \A k \in 1 .. n : nx_fs_oid[k] # 0
       /\ n < Len(nx_fs_oid) => nx_fs_oid[n + 1] = 0
       /\ num_file_systems' = n
  /\ phase' = "volumes"
  /\ UNCHANGED <<container, xp_desc, nxsb, xp, xp_obj, apsbs, i, j>>

(* The superblock of each volume is looked up and read.                    *)
ReadVolume ==
  /\ phase = "volumes"
  /\ Len(apsbs) < num_file_systems
  /\ LET oid == nx_fs_oid[Len(apsbs) + 1] IN
     IF Is(Volume(oid), "missing") \/ Is(Volume(oid), "unreadable") THEN Stop("failed")
     ELSE /\ apsbs' = Append(apsbs, oid)
          /\ UNCHANGED <<container, phase, xp_desc, nxsb, xp, xp_obj, num_file_systems, i, j>>

(* All of them are validated, checksum and magic number.                   *)
ValidateVolumes ==
  /\ phase = "volumes"
  /\ Len(apsbs) = num_file_systems
  /\ IF \E k \in DOMAIN apsbs : Is(Volume(apsbs[k]), "invalid") THEN Stop("ended")
     ELSE Stop("volume")

-----------------------------------------------------------------------------
(* One volume after the other.                                             *)

ReadVolumeOmap ==
  /\ phase = "volume"
  /\ i <= num_file_systems
  /\ StopAtOmap(VolumeOmap(apsbs[i]), VolumeTree(apsbs[i]), Stop("root"))

(* The root is looked up and read, and must be valid.                      *)
ReadRoot ==
  /\ phase = "root"
  /\ IF Is(Root(apsbs[i]), "missing") \/ Is(Root(apsbs[i]), "unreadable") THEN Stop("failed")
     ELSE IF Is(Root(apsbs[i]), "invalid") THEN Stop("ended")
     ELSE Stop("records")

(* An object without records ends the command: -1.                         *)
ShowRecords ==
  /\ phase = "records"
  /\ j <= NUM_QUERIES
  /\ IF Is(Query(apsbs[i], j), "missing") \/ Is(Query(apsbs[i], j), "unreadable")
       THEN Stop("failed")
     ELSE /\ j' = j + 1
          /\ UNCHANGED <<container, phase, xp_desc, nxsb, xp, xp_obj, num_file_systems, apsbs, i>>

(* Mutant: `j' is not reset.                                               *)
NextVolumeKeepsQuery ==
  /\ phase = "records"
  /\ j > NUM_QUERIES
  /\ i' = i + 1
  /\ phase' = "volume"
  /\ UNCHANGED <<container, xp_desc, nxsb, xp, xp_obj, num_file_systems, apsbs, j>>

NextVolume ==
  /\ phase = "records"
  /\ j > NUM_QUERIES
  /\ i' = i + 1
  /\ j' = 1
  /\ phase' = "volume"
  /\ UNCHANGED <<container, xp_desc, nxsb, xp, xp_obj, num_file_systems, apsbs>>

AllDone ==
  /\ phase = "volume"
  /\ i > num_file_systems
  /\ Stop("done")

Next ==
  \/ \E maps \in MapLists : \E n \in 0 .. Len(maps) + 1 : WriteCheckpoint(maps, n)
  \/ ReadBlockZero
  \/ ReadArea
  \/ Scan
  \/ Copy
  \/ ShowCheckpoint
  \/ ReadEphemeral
  \/ ValidateEphemeral
  \/ ReadContainerOmap
  \/ CountVolumes
  \/ ReadVolume
  \/ ValidateVolumes
  \/ ReadVolumeOmap
  \/ ReadRoot
  \/ ShowRecords
  \/ NextVolume
  \/ AllDone

Spec == Init /\ [][Next]_vars

-----------------------------------------------------------------------------
(* Properties.                                                             *)

(* What is copied out of the ring is the last checkpoint that was written  *)
(* completely, block by block, wherever in the ring it begins and whatever *)
(* crashes have left around it (inspect.c:142-214).                        *)
LoadsLastCheckpoint == xp # <<>> => xp = checkpoint

Volumes == {nx_fs_oid[k] : k \in 1 .. num_file_systems}

(* Everything that the last checkpoint leads to.                           *)
Reached ==
  {Ephemeral(a) : a \in ToSet(Mappings(checkpoint))} \union
  {BlockZero, Area, ContainerOmap, ContainerTree} \union
  UNION {{Volume(o), VolumeOmap(o), VolumeTree(o), Root(o)} \union
         {Query(o, k) : k \in 1 .. NUM_QUERIES} : o \in Volumes}

Tolerated == fault.kind = "invalid" /\ fault.thing[1] \in {"nx_omap_btree", "fs_omap_btree"}

(* "END: All done." is said only after everything that the checkpoint      *)
(* leads to was found, read and -- but for the object map trees -- valid,  *)
(* in every volume.                                                        *)
DoneOnlyIfSound == phase = "done" => fault.thing \notin Reached \/ Tolerated

(* The command ends before that only because of something the checkpoint   *)
(* leads to, or because there is none; an assertion fails only if it has   *)
(* no Ephemeral object at all (inspect.c:267), not because a block of the  *)
(* checkpoint is of the wrong type (inspect.c:226).                        *)
StopsOnlyForReason ==
  /\ phase = "failed" =>
       fault.thing \in Reached /\ fault.kind \in {"unreadable", "missing"}
  /\ phase = "ended" =>
       \/ ~contiguous \/ checkpoint = <<>>
       \/ fault.thing \in Reached /\ ~Tolerated /\ fault.kind \in {"invalid", "not physical"}
  /\ phase = "aborted" => checkpoint # <<>> /\ Mappings(checkpoint) = <<>>

=============================================================================
