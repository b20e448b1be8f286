------------------------------ MODULE FsRecords ------------------------------
(***************************************************************************)
(* get_fs_records(vol_omap_root, fs_root, oid, max_xid), src/include/drat/ *)
(* func/btree.c:208-560: collect all records of one file-system object     *)
(* from a B-tree whose nodes refer to their children by Virtual OID and    *)
(* have no sibling links.  A first descent finds where the records start   *)
(* and leaves the way there in desc_path; the walk then descends from the  *)
(* root again and again, moving desc_path on each time a node is used up.  *)
(*                                                                         *)
(* One step of the model is one turn of the descent loop or of the inner   *)
(* loop of the walk.  Children are resolved by the object map lookup of    *)
(* OmapLookup, which appears here as its contract.                         *)
(***************************************************************************)
EXTENDS ObjectMap, Sequences

CONSTANTS
  Oid,       \* OIDs of file-system objects
  Xid,       \* bounds on the transaction ID
  Images,    \* the volumes
  Uninit     \* the content of an element of desc_path before it is assigned

(* btree_node_phys_t: its btn_flags, whether its checksum is right, its    *)
(* btn_level, and its entries; v is a child's Virtual OID or a record.     *)
Record == [oid : Oid, v : Nat]
Node == [root : BOOLEAN, leaf : BOOLEAN, fixed : BOOLEAN, valid : BOOLEAN,
         level : Nat, toc : Seq(Record)]

(* An entry of the object map: the block where an object is from xid on.   *)
Mapping == [oid : Nat, xid : Nat, v : Nat]

ASSUME NumberAssumption == Oid \subseteq Nat /\ Xid \subseteq Nat

(* NULL is no value the function handles otherwise, Uninit no index.       *)
ASSUME NullAssumption == NULL \notin Mapping /\ NULL \notin Seq(Record)
ASSUME UninitAssumption == Uninit \notin Nat

(* A volume as this function sees it: the object map, the readable blocks, *)
(* and the root node that belongs to each bound, which is marked as one.   *)
(* The code sees neither listing, the sequence of records stored in the    *)
(* tree of each bound, nor span, the part of it that is stored below each  *)
(* Virtual OID: from after position lo to position hi.                     *)
IsImage(image) ==
  /\ image.omap \subseteq Mapping
  /\ \A e, f \in image.omap : e.oid = f.oid /\ e.xid = f.xid => e = f
  /\ \A a \in DOMAIN image.disk : image.disk[a] \in Node
  /\ image.root \in [Xid -> Node]
  /\ \A x \in Xid : image.root[x].root
  /\ image.listing \in [Xid -> Seq(Record)]

ASSUME ImageAssumption == \A image \in Images : IsImage(image)

(* The nodes of the tree as of x that can be read.                         *)
Newest(image, x) == {e \in image.omap : IsAnswer(image.omap, e.oid, x, e)}

Readable(image, x) == {e \in Newest(image, x) : e.v \in DOMAIN image.disk}

TreeNodes(image, x) ==
  {image.root[x]} \union {image.disk[e.v] : e \in Readable(image, x)}

(* The tree is sound if every node of it that can be read is of the right  *)
(* kind and on its level, and inner nodes have entries.                    *)
SoundAt(image, x) ==
  \A n \in TreeNodes(image, x) :
    /\ ~n.fixed
    /\ n.leaf <=> n.level = 0
    /\ ~n.leaf =>
         /\ n.toc # <<>>
         /\ \A j \in DOMAIN n.toc, e \in Readable(image, x) :
              e.oid = n.toc[j].v =>
                image.disk[e.v].level = n.level - 1 /\ ~image.disk[e.v].root

(* The part of the listing below entry number j of node n.                 *)
Part(image, x, n, j) == image.span[x][n.toc[j].v]

(* Below node n lies the part of the listing between lo and hi: in a leaf, *)
(* its entries; below an inner node, the parts of its children in turn,    *)
(* each kept apart from what is in front of it by the key of its entry.    *)
Covers(image, x, n, lo, hi) ==
  LET list == image.listing[x]
      Under(j) == Part(image, x, n, j)
  IN /\ lo \in 0 .. Len(list) /\ hi \in lo .. Len(list)
     /\ n.leaf => hi - lo = Len(n.toc) /\ \A j \in DOMAIN n.toc : n.toc[j] = list[lo + j]
     /\ ~n.leaf =>
          /\ \A j \in DOMAIN n.toc : n.toc[j].v \in DOMAIN image.span[x]
          /\ \A j \in DOMAIN n.toc : Under(j).lo \in lo .. hi /\ Under(j).hi \in Under(j).lo .. hi
          /\ Under(1).lo = lo /\ Under(Len(n.toc)).hi = hi
          /\ \A j \in 1 .. Len(n.toc) - 1 : Under(j + 1).lo = Under(j).hi
          /\ \A j \in DOMAIN n.toc, q \in DOMAIN list :
               IF q <= Under(j).lo THEN list[q].oid <= n.toc[j].oid
                                   ELSE n.toc[j].oid <= list[q].oid

(* listing and span say what is stored in the tree, in key order.          *)
IsListing(image, x) ==
  LET list == image.listing[x]
      span == image.span[x]
  IN /\ \A p, q \in DOMAIN list : p <= q => list[p].oid <= list[q].oid
     /\ Covers(image, x, image.root[x], 0, Len(list))
     /\ \A e \in Readable(image, x) :
          e.oid \in DOMAIN span => Covers(image, x, image.disk[e.v], span[e.oid].lo, span[e.oid].hi)

ASSUME ListingAssumption ==
  \A image \in Images, x \in Xid : SoundAt(image, x) => IsListing(image, x)

VARIABLES
  img,        \* the volume
  oid,        \* the argument oid
  max_xid,    \* the argument max_xid
  pc,         \* "descent", "walk", "returned" or "aborted"
  i,          \* the level reached below the root, in either loop
  node,       \* the working node
  desc_path,  \* the way down: an entry index, from 0, for each level
  records,    \* the records collected
  result      \* the value returned: a sequence of records or NULL

arguments == <<img, oid, max_xid>>
vars == <<img, oid, max_xid, pc, i, node, desc_path, records, result>>

vol_fs_root_node == img.root[max_xid]
tree_height == vol_fs_root_node.level + 1
nkeys == Len(node.toc)

(* Mutant: desc_path has btn_level elements.                               *)
InitShortPath ==
  /\ img \in Images
  /\ oid \in Oid
  /\ max_xid \in Xid
  /\ pc = "descent"
  /\ i = 0
  /\ node = vol_fs_root_node
  /\ desc_path = [l \in 0 .. tree_height - 2 |-> Uninit]
  /\ records = <<>>
  /\ result = NULL

Init ==
  /\ img \in Images
  /\ oid \in Oid
  /\ max_xid \in Xid
  /\ pc = "descent"
  /\ i = 0
  /\ node = vol_fs_root_node
  /\ desc_path = [l \in 0 .. tree_height - 1 |-> Uninit]
  /\ records = <<>>
  /\ result = NULL

Return(r) ==
  /\ pc' = "returned"
  /\ result' = r
  /\ UNCHANGED <<arguments, i, node, desc_path, records>>

Abort ==
  /\ pc' = "aborted"
  /\ UNCHANGED <<arguments, i, node, desc_path, records, result>>

-----------------------------------------------------------------------------
(* Reading the child with Virtual OID o over the working node.             *)

(* Mutant: only the version of exactly that transaction is looked for.     *)
FoundExact(o) == {e \in img.omap : e.oid = o /\ e.xid = max_xid}

Found(o) == {e \in img.omap : IsAnswer(img.omap, o, max_xid, e)}

Usable(o) == {e \in Found(o) : e.v \in DOMAIN img.disk /\ img.disk[e.v].valid}

ReadChild(o) ==
  /\ \E e \in Usable(o) : node' = img.disk[e.v]
  /\ i' = i + 1

(* Not in the object map, not readable, or a bad checksum: exit(-1).       *)
CannotReadChild(o) ==
  /\ Usable(o) = {}
  /\ Abort

-----------------------------------------------------------------------------
(* The descent loop (btree.c:258-399).                                     *)

(* The scan of the TOC has passed k entries, those with a lower OID.       *)
Passed(k) ==
  /\ k \in 0 .. nkeys
  /\ \A j \in 1 .. k : node.toc[j].oid < oid
  /\ k < nkeys => node.toc[k + 1].oid >= oid

Descending == pc = "descent" /\ i < tree_height

DescendFixedSize ==
  /\ Descending
  /\ node.fixed
  /\ Abort

(* A leaf, or the first entry of an inner node, is already past the OID.   *)
DescendNoRecord ==
  /\ Descending
  /\ ~node.fixed
  /\ \E k \in 0 .. nkeys - 1 :
       /\ Passed(k)
       /\ node.toc[k + 1].oid > oid
       /\ node.leaf \/ k = 0
  /\ Return(NULL)

(* Each turn of the walk begins at the root with desc_path.                *)
StartWalkWith(path) ==
  /\ pc' = "walk"
  /\ i' = 0
  /\ node' = vol_fs_root_node
  /\ desc_path' = path
  /\ UNCHANGED <<arguments, result>>

(* Mutant: the index in the leaf is not left in desc_path.                 *)
DescendLeafKeepsPath ==
  /\ Descending
  /\ ~node.fixed /\ node.leaf
  /\ \E k \in 0 .. nkeys : Passed(k) /\ (k < nkeys => node.toc[k + 1].oid = oid)
  /\ StartWalkWith(desc_path)
  /\ UNCHANGED records

(* The first record of the object, or the end of the leaf: the walk is     *)
(* left to find out.                                                       *)
DescendLeaf ==
  /\ Descending
  /\ ~node.fixed /\ node.leaf
  /\ \E k \in 0 .. nkeys :
       /\ Passed(k)
       /\ k < nkeys => node.toc[k + 1].oid = oid
       /\ StartWalkWith([desc_path EXCEPT ![i] = k])
  /\ UNCHANGED records

(* Mutant: an entry that carries the OID is descended, not the one before. *)
ChosenEqual(c) ==
  \E k \in 0 .. nkeys :
    /\ Passed(k)
    /\ IF k < nkeys /\ node.toc[k + 1].oid = oid THEN c = k ELSE c = k - 1

(* The entry of an inner node to descend: the last one with a lower OID,   *)
(* since records with the OID may start below it, else the first one if it *)
(* carries the OID itself.                                                 *)
Chosen(c) ==
  \E k \in 0 .. nkeys :
    /\ Passed(k)
    /\ \/ k > 0 /\ c = k - 1
       \/ k = 0 /\ nkeys > 0 /\ node.toc[1].oid = oid /\ c = 0

DescendInner ==
  /\ Descending
  /\ ~node.fixed /\ ~node.leaf
  /\ \E c \in 0 .. nkeys - 1 :
       /\ Chosen(c)
       /\ \/ /\ ReadChild(node.toc[c + 1].v)
             /\ desc_path' = [desc_path EXCEPT ![i] = c]
             /\ UNCHANGED <<arguments, pc, records, result>>
          \/ CannotReadChild(node.toc[c + 1].v)

(* 0 - 1 in uint32_t; any index no node has will do.                       *)
Wrapped == 65536

(* An inner node without entries: the index is decremented below 0 and the *)
(* child's OID is read from in front of the TOC, so that any node may      *)
(* follow or none.                                                         *)
DescendEmptyInner ==
  /\ Descending
  /\ ~node.fixed /\ ~node.leaf /\ nkeys = 0
  /\ \/ \E e \in img.omap :
          /\ ReadChild(e.oid)
          /\ desc_path' = [desc_path EXCEPT ![i] = Wrapped]
          /\ UNCHANGED <<arguments, pc, records, result>>
     \/ Abort

(* The root claims a lower tree than it is: no leaf was reached.           *)
DescentEnds ==
  /\ pc = "descent" /\ i = tree_height
  /\ StartWalkWith(desc_path)
  /\ UNCHANGED records

-----------------------------------------------------------------------------
(* The walk loop (btree.c:421-559).                                        *)

Walking == pc = "walk" /\ i < tree_height

WalkFixedSize ==
  /\ Walking
  /\ node.fixed
  /\ Return(NULL)

Index == desc_path[i]
UsedUp == Index >= nkeys

WalkEnd ==
  /\ Walking
  /\ ~node.fixed /\ UsedUp /\ node.root
  /\ Return(records)

(* Mutant: the parent's index is not moved on.                             *)
WalkSameNode ==
  /\ Walking
  /\ ~node.fixed /\ UsedUp /\ ~node.root
  /\ StartWalkWith([l \in DOMAIN desc_path |-> IF l >= i THEN 0 ELSE desc_path[l]])
  /\ UNCHANGED records

(* Mutant: desc_path is left as it is.                                     *)
WalkStays ==
  /\ Walking
  /\ ~node.fixed /\ UsedUp /\ ~node.root
  /\ StartWalkWith(desc_path)
  /\ UNCHANGED records

(* On to the leftmost leaf below the next entry of the parent.             *)
WalkNextNode ==
  /\ Walking
  /\ ~node.fixed /\ UsedUp /\ ~node.root
  /\ StartWalkWith([l \in DOMAIN desc_path |->
       IF l = i - 1 THEN desc_path[l] + 1 ELSE IF l >= i THEN 0 ELSE desc_path[l]])
  /\ UNCHANGED records

(* The records of the object in this leaf, from entry number Index on.     *)
Run(len) ==
  /\ Index + len <= nkeys
  /\ \A j \in Index + 1 .. Index + len : node.toc[j].oid = oid
  /\ Index + len < nkeys => node.toc[Index + len + 1].oid # oid

WalkLeaf ==
  /\ Walking
  /\ ~node.fixed /\ ~UsedUp /\ node.leaf
  /\ \E len \in 0 .. nkeys - Index :
       /\ Run(len)
       /\ records' = records \o SubSeq(node.toc, Index + 1, Index + len)
       /\ IF Index + len < nkeys
            THEN /\ pc' = "returned"
                 /\ result' = records'
                 /\ desc_path' = [desc_path EXCEPT ![i] = Index + len]
                 /\ UNCHANGED <<arguments, i, node>>
            ELSE StartWalkWith([desc_path EXCEPT ![i] = nkeys])

WalkInner ==
  /\ Walking
  /\ ~node.fixed /\ ~UsedUp /\ ~node.leaf
  /\ \/ /\ ReadChild(node.toc[Index + 1].v)
        /\ UNCHANGED <<arguments, pc, desc_path, records, result>>
     \/ CannotReadChild(node.toc[Index + 1].v)

(* No leaf within tree_height levels: the walk starts over, unchanged.     *)
WalkFallsThrough ==
  /\ pc = "walk" /\ i = tree_height
  /\ StartWalkWith(desc_path)
  /\ UNCHANGED records

Next ==
  \/ DescendFixedSize
  \/ DescendNoRecord
  \/ DescendLeaf
  \/ DescendInner
  \/ DescendEmptyInner
  \/ DescentEnds
  \/ WalkFixedSize
  \/ WalkEnd
  \/ WalkNextNode
  \/ WalkLeaf
  \/ WalkInner
  \/ WalkFallsThrough

Spec == Init /\ [][Next]_vars

(* drat is sequential: it does not stop inside the function.               *)
FairSpec == Spec /\ WF_vars(Next)

-----------------------------------------------------------------------------
(* Properties.                                                             *)

TypeOK ==
  /\ IsImage(img)
  /\ oid \in Oid
  /\ max_xid \in Xid
  /\ pc \in {"descent", "walk", "returned", "aborted"}
  /\ i \in 0 .. tree_height
  /\ node \in Node
  /\ desc_path \in [0 .. tree_height - 1 -> Nat \union {Uninit}]
  /\ records \in Seq(Record)
  /\ result = NULL \/ result \in Seq(Record)

Sound == SoundAt(img, max_xid)

(* The tree is intact if moreover every node of it can be read.            *)
Intact ==
  /\ Sound
  /\ \A e \in Newest(img, max_xid) : e \in Readable(img, max_xid) /\ img.disk[e.v].valid
  /\ \A n \in TreeNodes(img, max_xid) :
       ~n.leaf => \A j \in DOMAIN n.toc : \E e \in Newest(img, max_xid) : e.oid = n.toc[j].v

(* r is the stretch of the listing that holds the records of object o.     *)
Whole(list, o, r) ==
  \E a, b \in 0 .. Len(list) :
    /\ r = SubSeq(list, a + 1, b)
    /\ \A p \in DOMAIN list : list[p].oid = o <=> p \in a + 1 .. b

(* What is returned is all there is: every record of the object, each once *)
(* and in key order, even when they run over many leaves, when leaves are  *)
(* empty, when a separator no longer equals the first key below it, and    *)
(* when other versions of a node are in the object map.  A node that is    *)
(* missing, unreadable or bad never makes the list shorter.                *)
CompleteListing ==
  LET list == img.listing[max_xid]
  IN pc = "returned" /\ Sound =>
       IF result = NULL THEN \A p \in DOMAIN list : list[p].oid # oid
                        ELSE Whole(list, oid, result)

(* No element of the uninitialised array desc_path is used before it was   *)
(* assigned (btree.c:233), wherever the descent loop was left, whatever    *)
(* the nodes are.                                                          *)
PathInitialised == pc = "walk" /\ i < tree_height => desc_path[i] # Uninit

(* The process exits only for a node that is really missing or damaged.    *)
AbortsOnlyOnDamage == pc = "aborted" => ~Intact

(* The walk moves forwards through the tree, in whatever nodes below the   *)
(* root: it never goes back to a record it has passed (btree.c:462-468).   *)
Before(p, q) == \E l \in DOMAIN p : p[l] < q[l] /\ \A m \in 0 .. l - 1 : p[m] = q[m]

WalksForwards ==
  [][pc = "walk" => desc_path' = desc_path \/ Before(desc_path, desc_path')]_vars

(* The call comes to an end, in every sound tree.                          *)
Terminates == Sound => <>(pc \in {"returned", "aborted"})

=============================================================================
