-------------------------------- MODULE Mount --------------------------------
(***************************************************************************)
(* How cmd_recover() (src/src/commands/recover.c:252-473) and cmd_list()   *)
(* (src/src/commands/list.c:160-385) find the file-system tree of a        *)
(* volume, and cmd_resolver() (src/src/commands/resolver.c:181-440) the    *)
(* object map in which it looks up object identifiers.  The checkpoint     *)
(* descriptor area is copied into memory, block by block (src/include/     *)
(* drat/io.c:180-193), and the newest acceptable superblock is taken from  *)
(* the copy;                                                               *)
(* from it lead, one block read each, the container's object map and its   *)
(* tree, the volume superblock, the volume's object map and its tree, and  *)
(* the root of the file-system tree.  Nothing says that these blocks still *)
(* are what the superblock once referred to: their                         *)
(* headers (o_oid, o_xid) are not compared with anything, and a wrong      *)
(* checksum is reported but accepted.                                      *)
(*                                                                         *)
(* The container may be in use (docs/global-arguments/container.md:15-16)  *)
(* or have been left by a crash.  The file system that writes it is not    *)
(* part of drat; it is assumed to copy on write: a transaction goes to     *)
(* blocks the last checkpoint does not use, and its superblock is written  *)
(* when they are complete.  Blocks of older checkpoints are used again.    *)
(***************************************************************************)
EXTENDS Integers, Sequences

CONSTANTS
  Addr,       \* the blocks for objects
  Layouts,    \* where a transaction may put its objects
  Slots,      \* nx_xp_desc_blocks
  MaxXid,     \* the bound on transactions, for model checking
  Requests,   \* command lines
  NONE        \* no address

(* The objects a mount passes through, in the order of the reads.          *)
nx_omap == 1
nx_omap_btree == 2
apsb == 3
fs_omap == 4
fs_omap_btree == 5
fs_root_btree == 6
Kind == nx_omap .. fs_root_btree

Xid == 1 .. MaxXid

ASSUME RingAssumption == Slots \in Nat \ {0, 1} /\ MaxXid \in Nat \ {0}
ASSUME NoneAssumption == NONE \notin Addr \union (Addr \X Nat)

(* The length of nx_fs_oid, the container's array of volumes.              *)
NX_MAX_FILE_SYSTEMS == 100

(* A command line.  A bound above MaxXid does for none; -1 is no volume,   *)
(* and volume 1 is the only one there is.  An object identifier is one of  *)
(* the two that object maps have, for apsb and fs_root_btree, or 0.        *)
Request ==
  [command : {"list", "recover", "resolver"}, bound : Nat \ {0}, volume : Int,
   volume_name : BOOLEAN, omap : Addr \union {NONE}, oids : Seq({0, apsb, fs_root_btree})]

ASSUME RequestAssumption ==
  /\ Requests \subseteq Request
  /\ \A q \in Requests :
       IF q.command = "resolver"
         THEN q.omap = NONE => q.volume # -1 \/ q.volume_name
         ELSE q.omap = NONE /\ q.volume # -1
ASSUME LayoutAssumption ==
  \A f \in Layouts : f \in [Kind -> Addr] /\ \A j, k \in Kind : f[j] = f[k] => j = k

(* What matters of a block: type, transaction, checksum, and the block it  *)
(* leads to, by an address in it or through the object map it is.          *)
Object == [kind : Kind, xid : 0 .. MaxXid, valid : BOOLEAN, next : Addr]
Superblock == [xid : 0 .. MaxXid, valid : BOOLEAN, next : Addr]

VARIABLES
  ring,           \* the checkpoint descriptor area
  disk,           \* the other blocks
  committed,      \* the XID of the last checkpoint
  home,           \* the blocks of that checkpoint, by kind
  fresh,          \* the blocks of the transaction being written, if any
  done,           \* which of them are written
  begun,          \* the XID of the last transaction begun, complete or not
  contiguous,     \* what block 0 says of the descriptor area; never changes
  request,        \* the command line
  xp_desc,        \* the copy of the checkpoint descriptor area
  copied,         \* how many blocks of it have been read
  stage,          \* which block has been read last; 0 after, -1 before the scan
  status,         \* "running", or how the command has ended
  nxsb,           \* the superblock chosen
  object,         \* the object read last
  next,           \* the block it leads to
  limit,          \* the bound for the next object map lookup
  answers,        \* what resolver says of each OID: address and XID, or NONE
  newest          \* the value of committed when the copying began

container == <<ring, disk, committed, home, fresh, done, begun, contiguous>>
scan == <<xp_desc, copied, newest>>
tool == <<request, stage, status, nxsb, object, next, limit, answers, scan>>
vars == <<container, tool>>

-----------------------------------------------------------------------------
(* The writer (external).                                                  *)

Disjoint(f, g) == \A j, k \in Kind : f[j] # g[k]

Written(layout, k, x, ok) ==
  [kind |-> k, xid |-> x, valid |-> ok,
   next |-> layout[IF k = fs_root_btree THEN k ELSE k + 1]]

Begin ==
  /\ fresh = <<>>
  /\ committed < MaxXid
  /\ \E layout \in Layouts : Disjoint(layout, home) /\ fresh' = layout
  /\ done' = {}
  /\ begun' = committed + 1
  /\ UNCHANGED <<ring, disk, committed, home, contiguous, tool>>

(* A block of the transaction is written, or half of it, in a crash; what  *)
(* refers to a block is written after it.                                  *)
WriteObject(k, ok) ==
  /\ fresh # <<>> /\ k \notin done
  /\ \A j \in Kind : j > k => j \in done
  /\ disk' = [disk EXCEPT ![fresh[k]] = Written(fresh, k, committed + 1, ok)]
  /\ done' = IF ok THEN done \union {k} ELSE {}
  /\ fresh' = IF ok THEN fresh ELSE <<>>
  /\ UNCHANGED <<ring, committed, home, begun, contiguous, tool>>

(* The superblock is written, or half of it.                               *)
WriteSuperblock(ok) ==
  /\ fresh # <<>> /\ done = Kind
  /\ ring' = [ring EXCEPT ![(committed + 1) % Slots] =
               [xid |-> committed + 1, valid |-> ok, next |-> fresh[nx_omap]]]
  /\ committed' = IF ok THEN committed + 1 ELSE committed
  /\ home' = IF ok THEN fresh ELSE home
  /\ fresh' = <<>>
  /\ done' = {}
  /\ UNCHANGED <<disk, begun, contiguous, tool>>

Writer ==
  \/ Begin
  \/ \E k \in Kind, ok \in BOOLEAN : WriteObject(k, ok)
  \/ \E ok \in BOOLEAN : WriteSuperblock(ok)

-----------------------------------------------------------------------------
(* The command.                                                            *)

AnyAddr == CHOOSE a \in Addr : TRUE
NoSuperblock == [xid |-> 0, valid |-> FALSE, next |-> AnyAddr]
Unread == [s \in 0 .. Slots - 1 |-> NoSuperblock]
Zeroes == [kind |-> fs_root_btree, xid |-> 0, valid |-> FALSE, next |-> AnyAddr]

Init ==
  /\ home \in Layouts
  /\ ring = [s \in 0 .. Slots - 1 |->
              IF s = 1 THEN [xid |-> 1, valid |-> TRUE, next |-> home[nx_omap]] ELSE NoSuperblock]
  /\ disk = [a \in Addr |->
              IF \E k \in Kind : home[k] = a
                THEN Written(home, CHOOSE k \in Kind : home[k] = a, 1, TRUE) ELSE Zeroes]
  /\ committed = 1
  /\ begun = 1
  /\ fresh = <<>>
  /\ done = {}
  /\ contiguous \in BOOLEAN
  /\ request \in Requests
  /\ xp_desc = Unread
  /\ copied = 0
  /\ stage = -1
  /\ status = "running"
  /\ nxsb = NoSuperblock
  /\ object = Zeroes
  /\ next = AnyAddr
  /\ limit = 0
  /\ answers = <<>>
  /\ newest = 0

volume == request.volume
bound == request.bound

(* The block at which the command arrives, a tree.                         *)
goal ==
  IF request.command # "resolver" THEN fs_root_btree
  ELSE IF request.omap = NONE /\ (volume > 0 \/ request.volume_name)
    THEN fs_omap_btree ELSE nx_omap_btree

Running == status = "running"

(* Before the scan.  resolver --omap has no need of it.                    *)
Scanning == Running /\ stage = -1 /\ request.omap = NONE

(* read_blocks() reads the descriptor area one block after another, and    *)
(* the writer may go on between any two of them.                           *)
ReadDescriptor ==
  /\ Scanning /\ contiguous
  /\ copied < Slots
  /\ xp_desc' = [xp_desc EXCEPT ![copied] = ring[copied]]
  /\ copied' = copied + 1
  /\ newest' = IF copied = 0 THEN committed ELSE newest
  /\ UNCHANGED <<container, request, stage, status, nxsb, object, next, limit, answers>>

Acceptable(s) == xp_desc[s].valid /\ xp_desc[s].xid > 0 /\ xp_desc[s].xid <= bound

(* Mutant: the last acceptable superblock, whatever its XID.               *)
LastAcceptable(s) == Acceptable(s) /\ \A t \in DOMAIN xp_desc : Acceptable(t) => t <= s

(* Of the acceptable superblocks with the highest XID the first one.       *)
Latest(s) ==
  /\ Acceptable(s)
  /\ \A t \in DOMAIN xp_desc : Acceptable(t) =>
       \/ xp_desc[t].xid < xp_desc[s].xid
       \/ xp_desc[t].xid = xp_desc[s].xid /\ s <= t

(* Mutant: the superblock of block 0 is not replaced by the one found, as  *)
(* far as its XID goes.                                                    *)
ScanOldXid(s) ==
  /\ Scanning /\ copied = Slots
  /\ Latest(s)
  /\ nxsb' = xp_desc[s]
  /\ next' = xp_desc[s].next
  /\ stage' = 0
  /\ xp_desc' = Unread
  /\ UNCHANGED <<container, request, status, object, limit, answers, copied, newest>>

(* When all of it is in memory it is searched, and the copy freed.         *)
Scan(s) ==
  /\ Scanning /\ copied = Slots
  /\ Latest(s)
  /\ nxsb' = xp_desc[s]
  /\ next' = xp_desc[s].next
  /\ limit' = xp_desc[s].xid
  /\ stage' = 0
  /\ xp_desc' = Unread
  /\ UNCHANGED <<container, request, status, object, answers, copied, newest>>

Stop(how) ==
  /\ status' = how
  /\ UNCHANGED <<container, request, stage, nxsb, object, next, limit, answers, scan>>

(* A descriptor area that is a B-tree is not supported.                    *)
NotContiguous == Scanning /\ ~contiguous /\ Stop("ended")

NoAcceptableSuperblock ==
  /\ Scanning /\ copied = Slots
  /\ \A s \in DOMAIN xp_desc : ~Acceptable(s)
  /\ Stop("ended")

(* The next block is wanted: the last one is not where the command arrives *)
(* and is, by type and content, what it is taken for.                      *)
Continues == Running /\ stage \in 0 .. goal - 1 /\ (stage = 0 \/ object.kind = stage)

Choosing == stage = nx_omap_btree /\ goal # nx_omap_btree

(* nx_fs_oid[volume - 1] is not in the array.  With resolver, volume -1    *)
(* comes with a name, and the command ends before it.                      *)
OutsideArray == volume \notin {-1} \union 1 .. NX_MAX_FILE_SYSTEMS

(* nx_fs_oid[volume - 1] is 0, or, outside the array, whatever is there:   *)
(* 0, or a number that is not in the object map.  A name is not looked     *)
(* for.                                                                    *)
NoSuchVolume == Running /\ Choosing /\ volume # 1 /\ Stop("ended")

(* Far enough from the array there is no memory.                           *)
ReadsOutside == Running /\ Choosing /\ OutsideArray /\ volume # 0 /\ Stop("crashed")

(* An OID is found that the object map is asked for.  What is there        *)
(* outside the array may be that of volume 1.                              *)
HasVolume == Choosing => volume = 1 \/ OutsideArray

(* An object map tree just read has an entry for what is wanted next,      *)
(* unless that is too new.                                                 *)
Found == stage \in {nx_omap_btree, fs_omap_btree} => object.xid <= limit

LookupFails ==
  /\ Continues /\ ~Found
  /\ HasVolume
  /\ Stop("ended")

(* The block read last is what the command takes it for; with --omap, the  *)
(* tree of any map is.                                                     *)
Sound ==
  /\ object.valid
  /\ \/ object.kind = stage
     \/ request.omap # NONE /\ object.kind = fs_omap_btree

(* A block that is not of the type expected, or is only half written, is   *)
(* used all the same.  Where this leads is not followed any further.       *)
GoesAstray ==
  /\ Running /\ stage \in Kind /\ ~Sound
  /\ Stop("astray")

Arrived(k) == k = goal /\ request.command # "resolver"

(* Mutant: the bound of the second lookup is one too high.                 *)
ReadNextLaxLimit ==
  /\ Continues /\ Found
  /\ HasVolume
  /\ object' = disk[next]
  /\ next' = disk[next].next
  /\ limit' = IF stage + 1 = apsb THEN disk[next].xid + 1 ELSE limit
  /\ stage' = stage + 1
  /\ status' = IF Arrived(stage + 1) THEN "mounted" ELSE status
  /\ UNCHANGED <<container, request, nxsb, answers, scan>>

(* The next block is read, whatever is in it by now.                       *)
ReadNext ==
  /\ Continues /\ Found
  /\ HasVolume
  /\ object' = disk[next]
  /\ next' = disk[next].next
  /\ limit' = IF stage + 1 = apsb THEN disk[next].xid ELSE limit
  /\ stage' = stage + 1
  /\ status' = IF Arrived(stage + 1) THEN "mounted" ELSE status
  /\ UNCHANGED <<container, request, nxsb, answers, scan>>

(* resolver --omap: the block that is named is taken for a map's tree.     *)
ReadGivenMap ==
  /\ Running /\ stage = -1 /\ request.omap # NONE
  /\ object' = disk[request.omap]
  /\ next' = disk[request.omap].next
  /\ stage' = nx_omap_btree
  /\ UNCHANGED <<container, request, status, nxsb, limit, answers, scan>>

(* The OIDs are looked up one by one; for one that is missing there is a   *)
(* warning, and the next one is tried.  The bound is --max-xid itself, not *)
(* the XID of the superblock as in the lookups on the way.                 *)
Resolve ==
  /\ Running /\ request.command = "resolver" /\ stage = goal /\ Sound
  /\ answers' = [i \in DOMAIN request.oids |->
       IF request.oids[i] = object.kind + 1 /\ object.xid <= bound
         THEN <<object.next, object.xid>> ELSE NONE]
  /\ status' = "resolved"
  /\ UNCHANGED <<container, request, stage, nxsb, object, next, limit, scan>>

ReadFails == Running /\ Stop("failed")

Tool ==
  \/ ReadDescriptor
  \/ \E s \in DOMAIN xp_desc : Scan(s)
  \/ NotContiguous
  \/ NoAcceptableSuperblock
  \/ NoSuchVolume
  \/ ReadsOutside
  \/ LookupFails
  \/ GoesAstray
  \/ ReadNext
  \/ ReadGivenMap
  \/ Resolve
  \/ ReadFails

Next == Writer \/ Tool

Spec == Init /\ [][Next]_vars

-----------------------------------------------------------------------------
(* Properties.                                                             *)

TypeOK ==
  /\ ring \in [0 .. Slots - 1 -> Superblock]
  /\ disk \in [Addr -> Object]
  /\ committed \in Xid /\ begun \in Xid
  /\ home \in [Kind -> Addr]
  /\ fresh = <<>> \/ fresh \in [Kind -> Addr]
  /\ done \subseteq Kind
  /\ contiguous \in BOOLEAN
  /\ request \in Requests
  /\ xp_desc \in [0 .. Slots - 1 -> Superblock] /\ copied \in 0 .. Slots
  /\ stage \in -1 .. fs_root_btree
  /\ status \in {"running", "mounted", "resolved", "ended", "astray", "failed", "crashed"}
  /\ nxsb \in Superblock /\ object \in Object /\ next \in Addr
  /\ limit \in 0 .. MaxXid /\ newest \in 0 .. MaxXid
  /\ answers = <<>> \/ answers \in [DOMAIN request.oids -> (Addr \X Xid) \union {NONE}]

(* The checkpoint a command should work on: the newest one that --max-xid  *)
(* allows, as it begins to look.                                           *)
Expected == IF bound < newest THEN bound ELSE newest

(* The writer may have used blocks of checkpoint x again: it has begun the *)
(* second transaction after it.                                            *)
Overtaken(x) == begun > x + 1

(* Wherever the writer has crashed before, and however its writes fall     *)
(* between the reads of the descriptor area and of what it leads to, none  *)
(* of which says of which checkpoint it is (recover.c:288-325 chooses the  *)
(* superblock, 343-471 follow it blindly):                                 *)
(* - the superblock chosen is no older than the newest that --max-xid      *)
(*   allowed as the copying began, unless the writer has overtaken that,   *)
(*   and never one that it does not allow;                                 *)
(* - a mount that is not overtaken yields the file-system tree of exactly  *)
(*   the checkpoint of that superblock, which may be one that was          *)
(*   completed while the area was being copied; and with resolver the      *)
(*   object map asked for and answers for all the identifiers, in their    *)
(*   order, whether a lookup before has missed or not (resolver.c:         *)
(*   420-432): the object of that checkpoint for the one the map has,      *)
(*   nothing for others;                                                   *)
(* - no volume of the array that does not exist is taken for another.      *)
MountsNewestSnapshot ==
  /\ stage >= 0 /\ request.omap = NONE =>
       nxsb.xid <= bound /\ (nxsb.xid < Expected => Overtaken(Expected))
  /\ status = "mounted" /\ ~Overtaken(nxsb.xid) =>
       /\ object.kind = fs_root_btree /\ object.valid /\ object.xid = nxsb.xid
       /\ volume \in 1 .. NX_MAX_FILE_SYSTEMS => volume = 1
  /\ status = "resolved" /\ request.omap = NONE /\ ~Overtaken(nxsb.xid) =>
       LET named == volume > 0 \/ request.volume_name IN
       /\ object.kind = IF named THEN fs_omap_btree ELSE nx_omap_btree
       /\ DOMAIN answers = DOMAIN request.oids
       /\ \A i \in DOMAIN answers :
            IF request.oids[i] = IF named THEN fs_root_btree ELSE apsb
              THEN answers[i] # NONE /\ answers[i][2] = nxsb.xid
              ELSE answers[i] = NONE

(* A mount fails for no other reason than the volume, the device or a      *)
(* writer that has overtaken it: a superblock is found (recover.c:327-330) *)
(* although the one looked for last may be overwritten, or half            *)
(* overwritten, while others are copied; no lookup misses (recover.c:      *)
(* 384-388, 449-453) and no block is misread.  Of resolver's volumes 0 and *)
(* below are the container itself, unless there is a name.                 *)
FailsOnlyWithReason ==
  request.omap = NONE =>
    /\ status = "ended" /\ stage = -1 => ~contiguous \/ Overtaken(Expected)
    /\ status = "astray" => Overtaken(nxsb.xid)
    /\ status = "ended" /\ stage >= 0 /\ ~Overtaken(nxsb.xid) =>
         /\ volume # 1
         /\ request.command = "resolver" => volume > 1 \/ request.volume_name

=============================================================================
