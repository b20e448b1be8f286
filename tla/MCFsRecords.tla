---------------------------- MODULE MCFsRecords ----------------------------
(***************************************************************************)
(* Volumes for FsRecords.  A file-system tree cuts a sequence of records   *)
(* into nodes; a second version of one leaf, from a later transaction, may *)
(* have one record more or one fewer.                                      *)
(***************************************************************************)
EXTENDS FsRecords, FiniteSets, SequencesExt

CONSTANTS
  Heights,      \* the heights of the trees, at most 3
  MaxRecords,   \* the number of records in the first version of a tree
  MaxDamaged,   \* the number of records in a tree that is damaged
  Damages       \* the ways in which one node of a volume may be damaged

MCOid == 1 .. 3
MCXid == 1 .. 2

Ascending(s) == \A j \in 1 .. Len(s) - 1 : s[j] <= s[j + 1]
OidSeqs == {s \in UNION {[1 .. n -> MCOid] : n \in 1 .. MaxRecords} : Ascending(s)}

(* The Virtual OID of the node at level h above record number j: new nodes *)
(* start after record j at the cut[j] lowest levels.                       *)
NodeOid(height, cut, h, j) ==
  IF h = height - 1 THEN 1 ELSE 20 - 10 * h + Cardinality({m \in 1 .. j - 1 : cut[m] > h})

Tree(oids, height, cut) ==
  LET n == Len(oids)
      At(h, j) == NodeOid(height, cut, h, j)
      First(h, j) == j = 1 \/ At(h, j) # At(h, j - 1)
      Toc(h, o) ==
        LET slots == {j \in 1 .. n : At(h, j) = o /\ (h = 0 \/ First(h - 1, j))}
            order == SetToSortSeq(slots, <)
        IN [s \in 1 .. Len(order) |->
             [oid |-> oids[order[s]], v |-> IF h = 0 THEN order[s] ELSE At(h - 1, order[s])]]
      NodeAt(h, o) == [root |-> h = height - 1, leaf |-> h = 0, fixed |-> FALSE,
                       valid |-> TRUE, level |-> h, toc |-> Toc(h, o)]
      Nodes == UNION {{[oid |-> At(h, j), node |-> NodeAt(h, At(h, j))] : j \in 1 .. n} :
                        h \in 0 .. height - 1}
      Below(o) == {j \in 1 .. n : \E h \in 0 .. height - 1 : At(h, j) = o}
      Root == (CHOOSE m \in Nodes : m.oid = 1).node
      Inner == {m \in Nodes : m.oid # 1}
  IN [omap    |-> {[oid |-> m.oid, xid |-> 1, v |-> m.oid] : m \in Inner},
      disk    |-> [a \in {m.oid : m \in Inner} |-> (CHOOSE m \in Inner : m.oid = a).node],
      root    |-> [x \in MCXid |-> Root],
      listing |-> [x \in MCXid |-> [j \in 1 .. n |-> [oid |-> oids[j], v |-> j]]],
      span    |-> [x \in MCXid |-> [o \in {m.oid : m \in Inner} |->
                    [lo |-> Min(Below(o)) - 1, hi |-> Max(Below(o))]]]]

Trees ==
  UNION {UNION {{Tree(oids, h, cut) : cut \in [1 .. Len(oids) - 1 -> 0 .. h - 1]} :
                  oids \in OidSeqs} : h \in Heights}

(* The parts when leaf o gets delta records more.                          *)
Moved(span, o, delta) ==
  LET end == span[o].hi
  IN [c \in DOMAIN span |->
       [lo |-> IF span[c].lo >= end THEN span[c].lo + delta ELSE span[c].lo,
        hi |-> IF span[c].hi >= end THEN span[c].hi + delta ELSE span[c].hi]]

(* Version 2 of leaf node o: its last record is followed by another one of *)
(* the same object, or its first record is gone; the separators above it   *)
(* stay as they are.  Address o + 100 holds it.                            *)
Leaves(tree) == {o \in DOMAIN tree.disk : tree.disk[o].leaf}

Extended(toc) == Append(toc, [oid |-> toc[Len(toc)].oid, v |-> 99])

Rewrite(tree, o, toc, listing) ==
  [omap    |-> tree.omap \union {[oid |-> o, xid |-> 2, v |-> o + 100]},
   disk    |-> [a \in DOMAIN tree.disk \union {o + 100} |->
                 IF a = o + 100 THEN [tree.disk[o] EXCEPT !.toc = toc] ELSE tree.disk[a]],
   root    |-> tree.root,
   listing |-> [tree.listing EXCEPT ![2] = listing],
   span    |-> [tree.span EXCEPT ![2] = Moved(@, o, Len(listing) - Len(tree.listing[2]))]]

TwoVersions ==
  UNION {UNION {LET toc == tree.disk[o].toc
                    old == tree.listing[1]
                    last == toc[Len(toc)].v
                    new == Extended(toc)
                IN {Rewrite(tree, o, new, InsertAt(old, last + 1, new[Len(new)])),
                    Rewrite(tree, o, Tail(toc), RemoveAt(old, toc[1].v))} :
                o \in Leaves(tree)} : tree \in Trees}

(* A node may be missing from the object map, unreadable, fail its         *)
(* checksum, be emptied, or be of the wrong kind; the root may claim to be *)
(* lower than it is.  The listing is that of the leaves the tree has: a    *)
(* leaf that was emptied is an empty leaf.                                 *)
Damage(tree, o, kind) ==
  LET emptied == IF tree.disk[o].leaf THEN {r : r \in ToSet(tree.disk[o].toc)} ELSE {}
      Left(s) == SelectSeq(s, LAMBDA r : r \notin emptied)
  IN CASE kind = "unmapped"   -> [tree EXCEPT !.omap = {e \in @ : e.oid # o}]
       [] kind = "unreadable" -> [tree EXCEPT !.disk = [a \in DOMAIN @ \ {o} |-> @[a]]]
       [] kind = "invalid"    -> [tree EXCEPT !.disk[o].valid = FALSE]
       [] kind = "fixed"      -> [tree EXCEPT !.disk[o].fixed = TRUE]
       [] kind = "rooted"     -> [tree EXCEPT !.disk[o].root = TRUE]
       [] kind = "emptied"    -> [tree EXCEPT !.disk[o].toc = <<>>,
                                              !.listing = [x \in MCXid |-> Left(@[x])],
                                              !.span = [x \in MCXid |->
                                                         Moved(@[x], o, -Cardinality(emptied))]]

(* The root itself, which the caller has read.                             *)
DamagedRoot(tree, kind) ==
  CASE kind = "fixed" -> {[tree EXCEPT !.root = [x \in MCXid |-> [@[x] EXCEPT !.fixed = TRUE]]]}
    [] kind = "level" -> {[tree EXCEPT !.root = [x \in MCXid |-> [@[x] EXCEPT !.level = 0]]]}
    [] OTHER          -> {}

DamagedTrees ==
  UNION {UNION {DamagedRoot(tree, kind) \union
                (IF kind = "level" THEN {} ELSE {Damage(tree, o, kind) : o \in DOMAIN tree.disk}) :
                  kind \in Damages} :
           tree \in {t \in Trees : Len(t.listing[1]) <= MaxDamaged}}

(* A volume without any record: the root is a leaf that is empty.          *)
EmptyVolume ==
  LET root == [root |-> TRUE, leaf |-> TRUE, fixed |-> FALSE, valid |-> TRUE, level |-> 0, toc |-> <<>>]
  IN [omap |-> {}, disk |-> <<>>, root |-> [x \in MCXid |-> root],
      listing |-> [x \in MCXid |-> <<>>], span |-> [x \in MCXid |-> <<>>]]

MCImages == Trees \union TwoVersions \union DamagedTrees \union {EmptyVolume}

=============================================================================
