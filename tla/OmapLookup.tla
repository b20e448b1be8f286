----------------------------- MODULE OmapLookup -----------------------------
(***************************************************************************)
(* get_btree_phys_omap_entry(root, oid, max_xid), src/include/drat/func/   *)
(* btree.c:48-154: the floor lookup in an object map B-tree whose nodes    *)
(* refer to their children by block address.  Every other part of drat     *)
(* that follows a Virtual OID goes through it.                             *)
(*                                                                         *)
(* One step of the model is one turn of the code's loop: it scans the TOC  *)
(* of the node held in memory and either returns or reads the next block   *)
(* over that node.  The tree lies in an image whose blocks may be lost; a  *)
(* block whose checksum is wrong is used like any other (btree.c:146-148   *)
(* only prints a warning), so checksums do not appear here.                *)
(***************************************************************************)
EXTENDS Integers, Sequences

CONSTANTS
  Addr,      \* block addresses
  Oid,       \* Virtual OIDs
  Xid,       \* transaction IDs, the bound ~0 included
  Images,    \* the images lookups run on
  NULL

Entry == [oid : Oid, xid : Xid, v : Addr]

(* btree_node_phys_t: v is a child's address in an inner node and the      *)
(* object's address (omap_val_t) in a leaf.                                *)
Node == [fixed : BOOLEAN, leaf : BOOLEAN, toc : Seq(Entry)]

(* A container image: the readable blocks and, beside them, what the       *)
(* writer of the tree put there: the entries below each address and the    *)
(* level of the node at it.  The code reads `disk' only.                   *)
IsImage(img) ==
  /\ img.root \in DOMAIN img.disk
  /\ DOMAIN img.disk \subseteq Addr
  /\ \A a \in DOMAIN img.disk : img.disk[a] \in Node
  /\ img.entries \in [Addr -> SUBSET Entry]
  /\ img.level \in [Addr -> Nat]

ASSUME DomainAssumption ==
  /\ Oid \subseteq Nat
  /\ Xid \subseteq Nat
  /\ NULL \notin Entry

ASSUME ImageAssumption == \A img \in Images : IsImage(img)

-----------------------------------------------------------------------------
(* The B-tree invariant, node by node: entries ascend strictly by (OID,    *)
(* XID); a leaf holds its entries; an inner entry carries the least key    *)
(* below its child, and everything below that child precedes the next      *)
(* entry.  Children that are not readable still count.                     *)

Precedes(j, k) == j.oid < k.oid \/ (j.oid = k.oid /\ j.xid < k.xid)

WellFormedNode(img, a) ==
  LET n == img.disk[a] IN
  /\ n.fixed
  /\ n.toc # <<>>
  /\ n.leaf <=> img.level[a] = 0
  /\ \A i, j \in DOMAIN n.toc : i < j => Precedes(n.toc[i], n.toc[j])
  /\ n.leaf => img.entries[a] = {n.toc[i] : i \in DOMAIN n.toc}
  /\ ~n.leaf =>
       /\ \A e \in img.entries[a] : \E i \in DOMAIN n.toc : e \in img.entries[n.toc[i].v]
       /\ \A i \in DOMAIN n.toc :
            /\ img.level[n.toc[i].v] < img.level[a]
            /\ img.entries[n.toc[i].v] \subseteq img.entries[a]
            /\ \E e \in img.entries[n.toc[i].v] : e.oid = n.toc[i].oid /\ e.xid = n.toc[i].xid
            /\ \A e \in img.entries[n.toc[i].v] :
                 /\ ~Precedes(e, n.toc[i])
                 /\ \A j \in DOMAIN n.toc : i < j => Precedes(e, n.toc[j])

WellFormed(img) == \A a \in DOMAIN img.disk : WellFormedNode(img, a)

(* Every child that a node refers to can be read.                          *)
Whole(img) ==
  \A a \in DOMAIN img.disk : LET n == img.disk[a] IN
    ~n.leaf => \A i \in DOMAIN n.toc : n.toc[i].v \in DOMAIN img.disk

-----------------------------------------------------------------------------
VARIABLES
  img,       \* the image
  oid,       \* the argument oid
  max_xid,   \* the argument max_xid
  block,     \* the address of the block that `node' holds a copy of
  status,    \* "pending" while in the loop, then "returned" or "aborted"
  result     \* the value returned

vars == <<img, oid, max_xid, block, status, result>>

node == img.disk[block]

Init ==
  /\ img \in Images
  /\ oid \in Oid
  /\ max_xid \in Xid
  /\ block = img.root
  /\ status = "pending"
  /\ result = NULL

(* Mutant: the XID is not looked at.                                       *)
BeyondByOid(key) == key.oid > oid

(* The condition that ends the scan of the TOC.                            *)
Beyond(key) == key.oid > oid \/ (key.oid = oid /\ key.xid > max_xid)

(* toc_entry, as a number of entries: the scan stops before the first      *)
(* entry beyond the target, or at the last one if there is none beyond     *)
(* (case (b) turned into case (c)).  0 is case (a).                        *)
Scanned(i) ==
  /\ \A j \in 1 .. i : ~Beyond(node.toc[j])
  /\ i < Len(node.toc) => Beyond(node.toc[i + 1])

Return(r) ==
  /\ status' = "returned"
  /\ result' = r
  /\ UNCHANGED <<img, oid, max_xid, block>>

Abort ==
  /\ status' = "aborted"
  /\ UNCHANGED <<img, oid, max_xid, block, result>>

(* Variable-size keys and values are not supported.                        *)
VariableSizeNode ==
  /\ status = "pending"
  /\ ~node.fixed
  /\ Return(NULL)

(* Case (a): every entry lies beyond the target.                           *)
NothingBefore ==
  /\ status = "pending"
  /\ node.fixed
  /\ node.toc # <<>>
  /\ Scanned(0)
  /\ Return(NULL)

(* A node without entries: case (a) is tested before case (b) moves the    *)
(* cursor back, so the TOC entry is read from in front of the TOC.  What   *)
(* is found there is arbitrary: nothing, a key that happens to match, a    *)
(* child address, or memory that is not mapped.                            *)
EmptyNode ==
  /\ status = "pending"
  /\ node.fixed
  /\ node.toc = <<>>
  /\ \/ node.leaf /\ Return(NULL)
     \/ node.leaf /\ \E e \in Entry : e.oid = oid /\ e.xid <= max_xid /\ Return(e)
     \/ /\ ~node.leaf
        /\ block' \in DOMAIN img.disk
        /\ UNCHANGED <<img, oid, max_xid, status, result>>
     \/ Abort

(* The leaf entry found is of another object: no match.  Its XID cannot be *)
(* above the bound here, but the code tests that too.                      *)
LeafMiss ==
  /\ status = "pending"
  /\ node.fixed /\ node.leaf
  /\ \E i \in 1 .. Len(node.toc) :
       /\ Scanned(i)
       /\ node.toc[i].oid # oid \/ node.toc[i].xid > max_xid
  /\ Return(NULL)

LeafMatch ==
  /\ status = "pending"
  /\ node.fixed /\ node.leaf
  /\ \E i \in 1 .. Len(node.toc) :
       /\ Scanned(i)
       /\ node.toc[i].oid = oid /\ node.toc[i].xid <= max_xid
       /\ Return(node.toc[i])

(* Mutant: the result of read_blocks() is not looked at.                   *)
ReadChildUnchecked ==
  /\ status = "pending"
  /\ node.fixed /\ ~node.leaf
  /\ \E i \in 1 .. Len(node.toc) : Scanned(i) /\ block' = node.toc[i].v
  /\ UNCHANGED <<img, oid, max_xid, status, result>>

(* Mutant: val_end is not moved after the root, so that further down the   *)
(* child's address is read from the wrong place.                           *)
ReadChildOldValEnd ==
  /\ status = "pending"
  /\ node.fixed /\ ~node.leaf
  /\ \E i \in 1 .. Len(node.toc) :
       /\ Scanned(i)
       /\ block' \in IF block = img.root THEN {node.toc[i].v} ELSE Addr
       /\ block' \in DOMAIN img.disk
  /\ UNCHANGED <<img, oid, max_xid, status, result>>

(* Mutant: the child is read into some other buffer than `node'.           *)
ReadChildElsewhere ==
  /\ status = "pending"
  /\ node.fixed /\ ~node.leaf
  /\ UNCHANGED vars

(* Read the child over the node and loop.                                  *)
ReadChild ==
  /\ status = "pending"
  /\ node.fixed /\ ~node.leaf
  /\ \E i \in 1 .. Len(node.toc) :
       /\ Scanned(i)
       /\ node.toc[i].v \in DOMAIN img.disk
       /\ block' = node.toc[i].v
  /\ UNCHANGED <<img, oid, max_xid, status, result>>

(* The child cannot be read: exit(-1).                                     *)
ChildUnreadable ==
  /\ status = "pending"
  /\ node.fixed /\ ~node.leaf
  /\ \E i \in 1 .. Len(node.toc) : Scanned(i) /\ node.toc[i].v \notin DOMAIN img.disk
  /\ Abort

Next ==
  \/ VariableSizeNode
  \/ NothingBefore
  \/ EmptyNode
  \/ LeafMiss
  \/ LeafMatch
  \/ ReadChild
  \/ ChildUnreadable

Spec == Init /\ [][Next]_vars

(* drat is a sequential program: it does not stop inside the loop.         *)
FairSpec == Spec /\ WF_vars(Next)

-----------------------------------------------------------------------------
(* Properties.                                                             *)

TypeOK ==
  /\ IsImage(img)
  /\ oid \in Oid
  /\ max_xid \in Xid
  /\ block \in DOMAIN img.disk
  /\ status \in {"pending", "returned", "aborted"}
  /\ result \in Entry \union {NULL}

Contract ==
  INSTANCE OmapContract WITH omap <- img.entries[img.root],
                             sound <- WellFormed(img), whole <- Whole(img)

(* The promise of the comment at btree.c:28-46: on well-formed trees, even *)
(* ones that have lost blocks, whatever the function returns is the entry  *)
(* of the OID with the highest XID not above max_xid, and NULL is returned *)
(* only if there is no such entry; the process is given up only if a block *)
(* cannot be read.  On any image at all -- nodes emptied, of the wrong     *)
(* kind, pointing back up the tree -- an entry that is returned is a       *)
(* version of the requested object not newer than the bound.               *)
RefinesContract == Contract!Spec

(* A well-formed tree is descended strictly: no block is read twice, so    *)
(* the number of reads is bounded by the height of the tree.               *)
Descends ==
  [][WellFormed(img) /\ block' # block => img.level[block'] < img.level[block]]_vars

(* A lookup in a well-formed tree comes to an end.                         *)
Terminates == WellFormed(img) => <>(status # "pending")

=============================================================================
