-------------------------- MODULE FsRecords_proofs --------------------------
(***************************************************************************)
(* Theorems about FsRecords, for every volume, OID and bound: desc_path is *)
(* assigned where it is used and only moves forwards, whatever the nodes   *)
(* are; the process exits only for damage; and what is returned in a sound *)
(* tree is all there is.                                                   *)
(***************************************************************************)
EXTENDS FsRecords, SequenceTheorems, WellFoundedInduction, TLAPS

-----------------------------------------------------------------------------
(* The inductive invariant.  All of it is said of a volume image, a bound  *)
(* x, and a path through the tree, so that the lemmas are about constants. *)

(* m is the node read when entry number c, from 0, of node n is descended. *)
Child(image, x, n, c, m) ==
  \E e \in image.omap :
    /\ IsAnswer(image.omap, n.toc[c + 1].v, x, e)
    /\ e.v \in DOMAIN image.disk /\ image.disk[e.v].valid
    /\ m = image.disk[e.v]

(* t is the sequence of nodes from the root to level d that path leads by. *)
Trail(image, x, path, t, d) ==
  /\ t \in [0 .. d -> TreeNodes(image, x)]
  /\ t[0] = image.root[x]
  /\ \A l \in 0 .. d - 1 :
       /\ path[l] \in Nat /\ path[l] < Len(t[l].toc)
       /\ ~t[l].leaf
       /\ Child(image, x, t[l], path[l], t[l + 1])

Trails(d) == [0 .. d -> TreeNodes(img, max_xid)]

(* The walk along path goes no further down than node n, on level d.       *)
Halts(path, n, d) == path[d] \in Nat /\ (n.leaf \/ path[d] >= Len(n.toc))

(* Every element of desc_path is assigned that the walk may come to: all,  *)
(* or those down to a level where the walk turns back, since it meets the  *)
(* nodes that the descent has met.                                         *)
AllAssigned == \A l \in 0 .. tree_height - 1 : desc_path[l] \in Nat

WalkHalts ==
  \E d \in 0 .. tree_height - 1 : \E t \in Trails(d) :
    /\ Trail(img, max_xid, desc_path, t, d)
    /\ Halts(desc_path, t[d], d)
    /\ pc = "descent" => d < i
    /\ pc = "walk" => i <= d /\ node = t[i]

OnTheWayDown ==
  /\ pc = "descent"
  /\ \E t \in Trails(i) : Trail(img, max_xid, desc_path, t, i) /\ node = t[i]

PathInv ==
  /\ node \in TreeNodes(img, max_xid)
  /\ pc = "walk" /\ i = 0 => node = vol_fs_root_node
  /\ pc = "descent" => \A l \in 0 .. i - 1 : desc_path[l] \in Nat
  /\ pc \in {"descent", "walk"} => AllAssigned \/ WalkHalts \/ OnTheWayDown

(* The part of the listing below node t[l].                                *)
Lo(image, x, path, t, l) == IF l = 0 THEN 0 ELSE Part(image, x, t[l - 1], path[l - 1] + 1).lo
Hi(image, x, path, t, l) ==
  IF l = 0 THEN Len(image.listing[x]) ELSE Part(image, x, t[l - 1], path[l - 1] + 1).hi

(* The walk along path comes to the records after position p: in a leaf,   *)
(* at the end of an inner node, or at the first one below an entry.        *)
At(image, x, path, t, d, p) ==
  /\ path[d] \in Nat
  /\ \/ /\ t[d].leaf /\ path[d] <= Len(t[d].toc)
        /\ p = Lo(image, x, path, t, d) + path[d]
     \/ /\ ~t[d].leaf /\ path[d] = Len(t[d].toc)
        /\ p = Hi(image, x, path, t, d)
     \/ /\ ~t[d].leaf /\ path[d] < Len(t[d].toc)
        /\ p = Part(image, x, t[d], path[d] + 1).lo
        /\ \A l \in d + 1 .. image.root[x].level : path[l] = 0

(* r is what list holds of object o up to position p, and there is nothing *)
(* of lower objects behind.                                                *)
Collected(list, o, r, p) ==
  /\ p \in 0 .. Len(list)
  /\ \E a \in 0 .. p :
       /\ r = SubSeq(list, a + 1, p)
       /\ \A q \in 1 .. a : list[q].oid < o
       /\ \A q \in a + 1 .. p : list[q].oid = o
  /\ \A q \in p + 1 .. Len(list) : list[q].oid >= o

(* The descent has left nothing of the object to its left or right.        *)
Between(list, o, lo, hi) ==
  /\ \A q \in 1 .. lo : list[q].oid < o
  /\ \A q \in hi + 1 .. Len(list) : list[q].oid >= o

DescentInv ==
  /\ records = <<>>
  /\ i < tree_height
  /\ \E t \in Trails(i) :
       /\ Trail(img, max_xid, desc_path, t, i)
       /\ node = t[i]
       /\ Between(img.listing[max_xid], oid, Lo(img, max_xid, desc_path, t, i),
                  Hi(img, max_xid, desc_path, t, i))

WalkInv ==
  \E d \in i .. tree_height - 1 : \E t \in Trails(d) :
    /\ Trail(img, max_xid, desc_path, t, d)
    /\ node = t[i]
    /\ \E p \in 0 .. Len(img.listing[max_xid]) :
         /\ At(img, max_xid, desc_path, t, d, p)
         /\ Collected(img.listing[max_xid], oid, records, p)

ListInv ==
  /\ img \in Images
  /\ Sound => /\ pc = "descent" => DescentInv
              /\ pc = "walk" => WalkInv
              /\ CompleteListing

-----------------------------------------------------------------------------
(* Lemmas about images, nodes and trails.                                  *)

(* A set of natural numbers has a least element.                           *)
LEMMA Least ==
  ASSUME NEW T \in SUBSET Nat, T # {}
  PROVE  \E n \in T : \A m \in T : n <= m
<1> DEFINE R == OpToRel(<, Nat)
<1>1. IsWellFoundedOn(R, Nat)
  BY NatLessThanWellFounded
<1>2. \A m, n \in Nat : m < n => <<m, n>> \in R
  BY DEF OpToRel
<1> HIDE DEF R
<1>3. PICK n \in T : \A m \in T : <<m, n>> \notin R
  <2>1. \E n \in T : \A m \in T : ~ (<<m, n>> \in R)
    BY <1>1, WFMin
  <2> QED BY <2>1
<1>4. \A m \in T : ~ (m < n)
  BY <1>2, <1>3
<1> QED BY <1>3, <1>4

(* A set of numbers up to d that holds 0 and the successor of each number  *)
(* below d in it holds them all.                                           *)
LEMMA UpTo ==
  ASSUME NEW d \in Nat, NEW T, 0 \in T, \A l \in 0 .. d - 1 : l \in T => l + 1 \in T
  PROVE  \A l \in 0 .. d : l \in T
<1> SUFFICES ASSUME {l \in 0 .. d : l \notin T} # {}
             PROVE  FALSE
  OBVIOUS
<1>1. PICK n \in {l \in 0 .. d : l \notin T} : \A m \in {l \in 0 .. d : l \notin T} : n <= m
  BY Least, {l \in 0 .. d : l \notin T} \in SUBSET Nat
<1>2. n # 0 /\ n - 1 \in 0 .. d - 1
  BY <1>1
<1>3. n - 1 \in T
  BY <1>1, <1>2
<1> QED BY <1>1, <1>2, <1>3

LEMMA NodesAreNodes ==
  ASSUME NEW image, IsImage(image), NEW x \in Xid
  PROVE  TreeNodes(image, x) \subseteq Node
BY DEF IsImage, TreeNodes, Readable

LEMMA NodeFields ==
  ASSUME NEW n \in Node
  PROVE  /\ n.root \in BOOLEAN /\ n.leaf \in BOOLEAN /\ n.fixed \in BOOLEAN
         /\ n.valid \in BOOLEAN /\ n.level \in Nat
         /\ n.toc \in Seq(Record) /\ Len(n.toc) \in Nat /\ DOMAIN n.toc = 1 .. Len(n.toc)
         /\ \A j \in 1 .. Len(n.toc) : n.toc[j] \in Record /\ n.toc[j].oid \in Nat
<1>1. n.toc \in Seq(Record)
  BY DEF Node
<1>2. \A j \in 1 .. Len(n.toc) : n.toc[j] \in Record
  BY <1>1, ElementOfSeq
<1>3. \A r \in Record : r.oid \in Nat
  BY NumberAssumption DEF Record
<1> QED BY <1>1, <1>2, <1>3, LenProperties DEF Node

(* The child is a node of the tree, the newest that the bound allows.      *)
LEMMA ChildInTree ==
  ASSUME NEW image, IsImage(image), NEW x \in Xid, NEW n, NEW c, NEW m, Child(image, x, n, c, m)
  PROVE  /\ m \in TreeNodes(image, x)
         /\ \E e \in Readable(image, x) : e.oid = n.toc[c + 1].v /\ m = image.disk[e.v]
<1>1. PICK e \in image.omap : /\ IsAnswer(image.omap, n.toc[c + 1].v, x, e)
                              /\ e.v \in DOMAIN image.disk
                              /\ m = image.disk[e.v]
  BY DEF Child
<1>2. e # NULL
  BY NullAssumption DEF IsImage
<1>3. e.oid = n.toc[c + 1].v
  BY <1>1, <1>2 DEF IsAnswer, Visible
<1>4. e \in Readable(image, x)
  BY <1>1, <1>3 DEF Readable, Newest
<1> QED BY <1>1, <1>3, <1>4 DEF TreeNodes

(* There is one child: the walk comes to the nodes the descent has met.    *)
LEMMA OneChild ==
  ASSUME NEW image, IsImage(image), NEW x \in Xid, NEW n, NEW c, NEW m1, NEW m2,
         Child(image, x, n, c, m1), Child(image, x, n, c, m2)
  PROVE  m1 = m2
<1> DEFINE o == n.toc[c + 1].v
<1>1. PICK e \in image.omap : IsAnswer(image.omap, o, x, e) /\ m1 = image.disk[e.v]
  BY DEF Child
<1>2. PICK f \in image.omap : IsAnswer(image.omap, o, x, f) /\ m2 = image.disk[f.v]
  BY DEF Child
<1>3. e \in Mapping /\ f \in Mapping /\ e # NULL /\ f # NULL
  BY NullAssumption DEF IsImage
<1>4. e.oid = f.oid /\ e.xid <= f.xid /\ f.xid <= e.xid
  BY <1>1, <1>2, <1>3 DEF IsAnswer, Visible
<1>5. e.xid = f.xid
  BY <1>3, <1>4 DEF Mapping
<1>6. e = f
  BY <1>4, <1>5 DEF IsImage
<1> QED BY <1>1, <1>2, <1>6

(* A trail is that of every path that agrees with it above its end.        *)
LEMMA TrailKept ==
  ASSUME NEW image, NEW x \in Xid, NEW d \in Nat, NEW path, NEW new, NEW t,
         Trail(image, x, path, t, d),
         \A l \in 0 .. d - 1 : new[l] = path[l]
  PROVE  Trail(image, x, new, t, d)
BY DEF Trail

LEMMA TrailCut ==
  ASSUME NEW image, NEW x \in Xid, NEW d \in Nat, NEW path, NEW t,
         Trail(image, x, path, t, d), NEW c \in 0 .. d
  PROVE  LET s == [l \in 0 .. c |-> t[l]]
         IN Trail(image, x, path, s, c) /\ \A l \in 0 .. c : s[l] = t[l]
BY DEF Trail

Longer(t, d, m) == [l \in 0 .. d + 1 |-> IF l <= d THEN t[l] ELSE m]

LEMMA TrailExtended ==
  ASSUME NEW image, IsImage(image), NEW x \in Xid, NEW d \in Nat, NEW path, NEW t, NEW m,
         Trail(image, x, path, t, d), Child(image, x, t[d], path[d], m),
         path[d] \in Nat, path[d] < Len(t[d].toc), ~t[d].leaf
  PROVE  LET s == Longer(t, d, m)
         IN Trail(image, x, path, s, d + 1) /\ s[d + 1] = m /\ \A l \in 0 .. d : s[l] = t[l]
<1> DEFINE s == Longer(t, d, m)
<1>1. m \in TreeNodes(image, x)
  BY ChildInTree
<1>2. s \in [0 .. d + 1 -> TreeNodes(image, x)]
  BY <1>1 DEF Trail, Longer
<1>3. s[d + 1] = m /\ \A l \in 0 .. d : s[l] = t[l]
  BY DEF Longer
<1> HIDE DEF s
<1>4. ASSUME NEW l \in 0 .. d
      PROVE  /\ path[l] \in Nat /\ path[l] < Len(s[l].toc)
             /\ ~s[l].leaf
             /\ Child(image, x, s[l], path[l], s[l + 1])
  <2>1. CASE l = d
    BY <1>3, <2>1
  <2>2. CASE l # d
    BY <1>3, <2>2, l \in 0 .. d - 1, l + 1 \in 0 .. d DEF Trail
  <2> QED BY <2>1, <2>2
<1>5. s[0] = image.root[x]
  BY <1>3 DEF Trail
<1>6. Trail(image, x, path, s, d + 1)
  BY <1>2, <1>4, <1>5 DEF Trail
<1> QED BY <1>3, <1>6 DEF s

(* A trail in a sound tree: the nodes are of the right kind and level, the *)
(* root is the first one alone, and each covers its part of the listing.   *)
Placed(image, x, path, t, l) ==
  /\ l <= image.root[x].level
  /\ t[l].level = image.root[x].level - l
  /\ t[l].root <=> l = 0
  /\ Covers(image, x, t[l], Lo(image, x, path, t, l), Hi(image, x, path, t, l))

LEMMA SoundNode ==
  ASSUME NEW image, IsImage(image), NEW x \in Xid, SoundAt(image, x),
         NEW n \in TreeNodes(image, x)
  PROVE  /\ n \in Node /\ ~n.fixed
         /\ n.leaf <=> n.level = 0
         /\ ~n.leaf => Len(n.toc) > 0
<1>1. n \in Node
  BY NodesAreNodes
<1>2. Len(n.toc) \in Nat /\ (n.toc # <<>> => Len(n.toc) # 0)
  BY <1>1, NodeFields, EmptySeq
<1> QED BY <1>1, <1>2 DEF SoundAt

LEMMA OnTheTrail ==
  ASSUME NEW image, IsImage(image), NEW x \in Xid, SoundAt(image, x), IsListing(image, x),
         NEW d \in Nat, NEW path, NEW t, Trail(image, x, path, t, d)
  PROVE  \A l \in 0 .. d : Placed(image, x, path, t, l)
<1> DEFINE T == {l \in Nat : Placed(image, x, path, t, l)}
<1>1. 0 \in T
  <2>1. t[0] = image.root[x] /\ image.root[x] \in Node /\ image.root[x].root
    BY DEF Trail, IsImage
  <2>2. image.root[x].level \in Nat
    BY <2>1, NodeFields
  <2> QED BY <2>1, <2>2 DEF Placed, Lo, Hi, IsListing
<1>2. ASSUME NEW l \in 0 .. d - 1, l \in T
      PROVE  l + 1 \in T
  <2>0. t[l] \in TreeNodes(image, x) /\ path[l] \in Nat /\ path[l] < Len(t[l].toc) /\ ~t[l].leaf
    BY DEF Trail
  <2>1. PICK e \in Readable(image, x) : e.oid = t[l].toc[path[l] + 1].v /\ t[l + 1] = image.disk[e.v]
    BY ChildInTree DEF Trail
  <2>2. t[l + 1] \in TreeNodes(image, x)
    BY <2>1 DEF TreeNodes
  <2>3. Len(t[l].toc) \in Nat /\ path[l] + 1 \in DOMAIN t[l].toc
    BY <2>0, NodesAreNodes, NodeFields
  <2>4. t[l + 1].level = t[l].level - 1 /\ ~t[l + 1].root
    BY <2>0, <2>1, <2>3 DEF SoundAt
  <2>5. t[l].level \in Nat /\ t[l + 1].level \in Nat /\ image.root[x].level \in Nat
    BY <2>0, <2>2, NodesAreNodes, NodeFields DEF TreeNodes
  <2>6. e.oid \in DOMAIN image.span[x]
    BY <1>2, <2>0, <2>1, <2>3 DEF Placed, Covers
  <2>7. Covers(image, x, t[l + 1], image.span[x][e.oid].lo, image.span[x][e.oid].hi)
    BY <2>1, <2>6 DEF IsListing
  <2>8. /\ Lo(image, x, path, t, l + 1) = image.span[x][e.oid].lo
        /\ Hi(image, x, path, t, l + 1) = image.span[x][e.oid].hi
    BY <2>1, (l + 1) - 1 = l, l + 1 # 0 DEF Lo, Hi, Part
  <2>9. t[l].level = image.root[x].level - l
    BY <1>2 DEF Placed
  <2> QED BY <2>4, <2>5, <2>7, <2>8, <2>9 DEF Placed
<1> HIDE DEF T
<1>3. \A l \in 0 .. d : l \in T
  BY <1>1, <1>2, UpTo
<1> QED BY <1>3 DEF T

-----------------------------------------------------------------------------
(* Lemmas about the listing.  Ascending is what IsListing says of it.      *)

Ascending(list) == \A p, q \in DOMAIN list : p <= q => list[p].oid <= list[q].oid

LEMMA ListFacts ==
  ASSUME NEW list \in Seq(Record)
  PROVE  /\ Len(list) \in Nat /\ DOMAIN list = 1 .. Len(list)
         /\ \A q \in 1 .. Len(list) : list[q] \in Record /\ list[q].oid \in Nat
<1>1. \A q \in 1 .. Len(list) : list[q] \in Record
  BY ElementOfSeq
<1> QED BY <1>1, LenProperties, NumberAssumption DEF Record

(* The child to descend has everything of the object between its ends.     *)
LEMMA BetweenChild ==
  ASSUME NEW image, IsImage(image), NEW x \in Xid, NEW o \in Nat, NEW n \in Node, ~n.leaf,
         NEW lo, NEW hi, Covers(image, x, n, lo, hi), Between(image.listing[x], o, lo, hi),
         NEW k \in 0 .. Len(n.toc), NEW c \in 0 .. Len(n.toc) - 1,
         \A j \in 1 .. k : n.toc[j].oid < o,
         k < Len(n.toc) => n.toc[k + 1].oid >= o,
         (k > 0 /\ c = k - 1) \/ (k = 0 /\ c = 0 /\ n.toc[1].oid = o)
  PROVE  Between(image.listing[x], o, Part(image, x, n, c + 1).lo, Part(image, x, n, c + 1).hi)
<1> DEFINE list == image.listing[x]
           Under(j) == Part(image, x, n, j)
<1>1. list \in Seq(Record)
  BY DEF IsImage
<1>2. /\ Len(list) \in Nat /\ DOMAIN list = 1 .. Len(list)
      /\ \A q \in 1 .. Len(list) : list[q].oid \in Nat
  BY <1>1, ListFacts
<1>3. /\ Len(n.toc) \in Nat /\ DOMAIN n.toc = 1 .. Len(n.toc)
      /\ \A j \in 1 .. Len(n.toc) : n.toc[j].oid \in Nat
  BY NodeFields
<1>4. /\ lo \in 0 .. Len(list) /\ hi \in lo .. Len(list)
      /\ \A j \in 1 .. Len(n.toc) : Under(j).lo \in lo .. hi /\ Under(j).hi \in Under(j).lo .. hi
      /\ Under(1).lo = lo /\ Under(Len(n.toc)).hi = hi
      /\ \A j \in 1 .. Len(n.toc) - 1 : Under(j + 1).lo = Under(j).hi
      /\ \A j \in 1 .. Len(n.toc), q \in 1 .. Len(list) :
           IF q <= Under(j).lo THEN list[q].oid <= n.toc[j].oid
                               ELSE n.toc[j].oid <= list[q].oid
  BY <1>2, <1>3 DEF Covers
<1>5. /\ \A q \in 1 .. lo : list[q].oid < o
      /\ \A q \in hi + 1 .. Len(list) : list[q].oid >= o
  BY DEF Between
<1> HIDE DEF list, Under
<1>6. ASSUME NEW q \in 1 .. Under(c + 1).lo
      PROVE  list[q].oid < o
  <2>1. q \in 1 .. Len(list)
    BY <1>2, <1>3, <1>4
  <2>2. CASE k > 0 /\ c = k - 1
    <3>1. c + 1 = k /\ k \in 1 .. Len(n.toc) /\ n.toc[k].oid < o
      BY <1>3, <2>2
    <3>2. list[q].oid <= n.toc[k].oid
      BY <1>4, <2>1, <3>1
    <3> QED BY <1>2, <1>3, <2>1, <3>1, <3>2
  <2>3. CASE k = 0 /\ c = 0
    BY <1>4, <1>5, <2>3
  <2> QED BY <2>2, <2>3
<1>7. ASSUME NEW q \in Under(c + 1).hi + 1 .. Len(list)
      PROVE  list[q].oid >= o
  <2>1. q \in 1 .. Len(list) /\ q > Under(c + 1).lo
    BY <1>2, <1>3, <1>4
  <2>2. CASE k = 0 /\ c = 0 /\ n.toc[1].oid = o
    BY <1>2, <1>3, <1>4, <2>1, <2>2
  <2>3. CASE c + 1 = Len(n.toc)
    BY <1>4, <1>5, <2>3
  <2>4. CASE k > 0 /\ c = k - 1 /\ c + 1 < Len(n.toc)
    <3>1. Under(c + 2).lo = Under(c + 1).hi
      BY <1>3, <1>4, <2>4
    <3>2. n.toc[c + 2].oid <= list[q].oid
      BY <1>2, <1>3, <1>4, <2>1, <2>4, <3>1
    <3> QED BY <1>2, <1>3, <2>1, <2>4, <3>2
  <2> QED BY <1>3, <2>2, <2>3, <2>4
<1> QED BY <1>6, <1>7 DEF Between, list, Under

(* A descent that ends in a leaf has everything of lower objects behind.   *)
LEMMA CollectedByDescent ==
  ASSUME NEW image, IsImage(image), NEW x \in Xid, IsListing(image, x), NEW o \in Nat,
         NEW n \in Node, n.leaf,
         NEW lo, NEW hi, Covers(image, x, n, lo, hi), Between(image.listing[x], o, lo, hi),
         NEW k \in 0 .. Len(n.toc),
         \A j \in 1 .. k : n.toc[j].oid < o,
         k < Len(n.toc) => n.toc[k + 1].oid = o
  PROVE  Collected(image.listing[x], o, <<>>, lo + k)
<1> DEFINE list == image.listing[x]
<1>1. list \in Seq(Record)
  BY DEF IsImage
<1>2. /\ Len(list) \in Nat /\ DOMAIN list = 1 .. Len(list)
      /\ \A q \in 1 .. Len(list) : list[q].oid \in Nat
  BY <1>1, ListFacts
<1>3. Len(n.toc) \in Nat /\ DOMAIN n.toc = 1 .. Len(n.toc)
  BY NodeFields
<1>4. /\ lo \in 0 .. Len(list) /\ hi \in lo .. Len(list) /\ hi - lo = Len(n.toc)
      /\ \A j \in 1 .. Len(n.toc) : n.toc[j] = list[lo + j]
  BY <1>3 DEF Covers
<1>5. /\ \A q \in 1 .. lo : list[q].oid < o
      /\ \A q \in hi + 1 .. Len(list) : list[q].oid >= o
  BY DEF Between
<1>6. \A p, q \in 1 .. Len(list) : p <= q => list[p].oid <= list[q].oid
  BY <1>2 DEF IsListing
<1> HIDE DEF list
<1>7. lo + k \in 0 .. Len(list)
  BY <1>2, <1>3, <1>4
<1>8. ASSUME NEW q \in 1 .. lo + k
      PROVE  list[q].oid < o
  <2>1. CASE q <= lo
    BY <1>4, <1>5, <2>1
  <2>2. CASE q > lo
    <3>1. q - lo \in 1 .. k /\ lo + (q - lo) = q
      BY <1>3, <1>4, <2>2
    <3>2. list[q] = n.toc[q - lo] /\ n.toc[q - lo].oid < o
      BY <1>3, <1>4, <3>1
    <3> QED BY <3>2
  <2> QED BY <1>4, <2>1, <2>2
<1>9. ASSUME NEW q \in lo + k + 1 .. Len(list)
      PROVE  list[q].oid >= o
  <2>1. CASE k < Len(n.toc)
    <3>1. list[lo + (k + 1)] = n.toc[k + 1] /\ lo + (k + 1) \in 1 .. Len(list)
      BY <1>3, <1>4, <2>1
    <3>2. list[lo + (k + 1)].oid <= list[q].oid
      BY <1>4, <1>6, <3>1
    <3> QED BY <2>1, <3>1, <3>2
  <2>2. CASE k = Len(n.toc)
    BY <1>3, <1>4, <1>5, <2>2
  <2> QED BY <1>3, <2>1, <2>2
<1>10. <<>> = SubSeq(list, lo + k + 1, lo + k)
  BY <1>4, SubSeqEmpty
<1>11. \E a \in 0 .. lo + k :
         /\ <<>> = SubSeq(list, a + 1, lo + k)
         /\ \A q \in 1 .. a : list[q].oid < o
         /\ \A q \in a + 1 .. lo + k : list[q].oid = o
  <2>1. lo + k \in 0 .. lo + k
    BY <1>4
  <2>2. \A q \in (lo + k) + 1 .. lo + k : list[q].oid = o
    BY <1>4
  <2> QED BY <1>8, <1>10, <2>1, <2>2
<1> QED BY <1>7, <1>9, <1>11 DEF Collected, list

(* A leaf, or the first entry of an inner node, past the OID.              *)
LEMMA NothingThere ==
  ASSUME NEW image, IsImage(image), NEW x \in Xid, IsListing(image, x), NEW o \in Nat,
         NEW n \in Node,
         NEW lo, NEW hi, Covers(image, x, n, lo, hi), Between(image.listing[x], o, lo, hi),
         NEW k \in 0 .. Len(n.toc) - 1,
         \A j \in 1 .. k : n.toc[j].oid < o,
         n.toc[k + 1].oid > o,
         n.leaf \/ k = 0
  PROVE  \A q \in DOMAIN image.listing[x] : image.listing[x][q].oid # o
<1> DEFINE list == image.listing[x]
<1>1. list \in Seq(Record)
  BY DEF IsImage
<1>2. /\ Len(list) \in Nat /\ DOMAIN list = 1 .. Len(list)
      /\ \A q \in 1 .. Len(list) : list[q].oid \in Nat
  BY <1>1, ListFacts
<1>3. /\ Len(n.toc) \in Nat /\ DOMAIN n.toc = 1 .. Len(n.toc)
      /\ \A j \in 1 .. Len(n.toc) : n.toc[j].oid \in Nat
  BY NodeFields
<1>4. lo \in 0 .. Len(list) /\ hi \in lo .. Len(list)
  BY DEF Covers
<1>5. \A q \in 1 .. lo : list[q].oid < o
  BY DEF Between
<1>6. \A p, q \in 1 .. Len(list) : p <= q => list[p].oid <= list[q].oid
  BY <1>2 DEF IsListing
<1>7. n.leaf => hi - lo = Len(n.toc) /\ \A j \in 1 .. Len(n.toc) : n.toc[j] = list[lo + j]
  BY <1>3 DEF Covers
<1>8. ~n.leaf => \A q \in 1 .. Len(list) : q > lo => n.toc[1].oid <= list[q].oid
  <2>1. ~n.leaf => Part(image, x, n, 1).lo = lo
    BY DEF Covers
  <2>2. ~n.leaf => \A q \in 1 .. Len(list) :
          IF q <= Part(image, x, n, 1).lo THEN list[q].oid <= n.toc[1].oid
                                          ELSE n.toc[1].oid <= list[q].oid
    <3>1. 1 \in DOMAIN n.toc
      BY <1>3
    <3> QED BY <1>2, <3>1 DEF Covers
  <2> QED BY <1>4, <2>1, <2>2
<1> HIDE DEF list
<1>9. ASSUME NEW q \in 1 .. Len(list), q > lo
      PROVE  list[q].oid # o
  <2>1. CASE ~n.leaf
    BY <1>2, <1>3, <1>8, <1>9, <2>1
  <2>2. CASE n.leaf /\ q <= lo + k
    <3>1. q - lo \in 1 .. k /\ lo + (q - lo) = q
      BY <1>3, <1>4, <1>9, <2>2
    <3>2. list[q] = n.toc[q - lo]
      BY <1>3, <1>7, <2>2, <3>1
    <3> QED BY <1>3, <3>1, <3>2
  <2>3. CASE n.leaf /\ q > lo + k
    <3>1. list[lo + (k + 1)] = n.toc[k + 1] /\ lo + (k + 1) \in 1 .. Len(list)
      BY <1>2, <1>3, <1>4, <1>7, <2>3
    <3>2. list[lo + (k + 1)].oid <= list[q].oid
      BY <1>4, <1>6, <2>3, <3>1
    <3> QED BY <1>2, <1>3, <3>1, <3>2
  <2> QED BY <1>4, <2>1, <2>2, <2>3
<1>10. \A q \in 1 .. Len(list) : list[q].oid # o
  BY <1>2, <1>4, <1>5, <1>9
<1> QED BY <1>2, <1>10 DEF list

(* len records of the object are added to what was collected.              *)
LEMMA CollectMore ==
  ASSUME NEW list \in Seq(Record), NEW o \in Nat, NEW r, NEW p, Collected(list, o, r, p),
         NEW len \in Nat, p + len <= Len(list),
         \A q \in p + 1 .. p + len : list[q].oid = o
  PROVE  Collected(list, o, r \o SubSeq(list, p + 1, p + len), p + len)
<1>1. p \in 0 .. Len(list) /\ Len(list) \in Nat
  BY ListFacts DEF Collected
<1>2. PICK a \in 0 .. p : /\ r = SubSeq(list, a + 1, p)
                          /\ \A q \in 1 .. a : list[q].oid < o
                          /\ \A q \in a + 1 .. p : list[q].oid = o
  BY DEF Collected
<1>3. r \o SubSeq(list, p + 1, p + len) = SubSeq(list, a + 1, p + len)
  <2>1. a + 1 \in 1 .. Len(list) + 1 /\ p \in (a + 1) - 1 .. Len(list) /\ p + len \in p .. Len(list)
    BY <1>1
  <2> QED BY <1>2, <2>1, ConcatAdjacentSubSeq
<1>4. \A q \in a + 1 .. p + len : list[q].oid = o
  BY <1>1, <1>2
<1>5. \A q \in p + len + 1 .. Len(list) : list[q].oid >= o
  BY <1>1 DEF Collected
<1>6. p + len \in 0 .. Len(list) /\ a \in 0 .. p + len
  BY <1>1
<1> QED BY <1>2, <1>3, <1>4, <1>5, <1>6 DEF Collected

(* At the end of the listing or in front of another object's record, what  *)
(* was collected is all there is.                                          *)
LEMMA CollectedAll ==
  ASSUME NEW list \in Seq(Record), Ascending(list), NEW o \in Nat, NEW r, NEW p,
         Collected(list, o, r, p), p < Len(list) => list[p + 1].oid # o
  PROVE  Whole(list, o, r)
<1>1. /\ p \in 0 .. Len(list) /\ Len(list) \in Nat /\ DOMAIN list = 1 .. Len(list)
      /\ \A q \in 1 .. Len(list) : list[q].oid \in Nat
  BY ListFacts DEF Collected
<1>2. PICK a \in 0 .. p : /\ r = SubSeq(list, a + 1, p)
                          /\ \A q \in 1 .. a : list[q].oid < o
                          /\ \A q \in a + 1 .. p : list[q].oid = o
  BY DEF Collected
<1>3. ASSUME NEW q \in p + 1 .. Len(list)
      PROVE  list[q].oid # o
  <2>1. p + 1 \in 1 .. Len(list) /\ q \in 1 .. Len(list) /\ p + 1 <= q /\ p < Len(list)
    BY <1>1
  <2>2. list[p + 1].oid <= list[q].oid
    BY <1>1, <2>1 DEF Ascending
  <2>3. list[p + 1].oid >= o /\ list[p + 1].oid # o
    BY <1>1, <2>1 DEF Collected
  <2> QED BY <1>1, <2>1, <2>2, <2>3
<1>4. \A q \in 1 .. Len(list) : list[q].oid = o <=> q \in a + 1 .. p
  BY <1>1, <1>2, <1>3
<1>5. a \in 0 .. Len(list) /\ p \in 0 .. Len(list)
  BY <1>1
<1> QED BY <1>1, <1>2, <1>4, <1>5 DEF Whole

(* Some entries of a leaf are the records of its part.                     *)
LEMMA LeafEntries ==
  ASSUME NEW list \in Seq(Record), NEW toc \in Seq(Record), NEW lo \in Nat,
         lo + Len(toc) <= Len(list), \A j \in 1 .. Len(toc) : toc[j] = list[lo + j],
         NEW k \in Nat, NEW len \in Nat, k + len <= Len(toc)
  PROVE  SubSeq(toc, k + 1, k + len) = SubSeq(list, lo + k + 1, lo + k + len)
<1> DEFINE s == SubSeq(toc, k + 1, k + len)
           u == SubSeq(list, lo + k + 1, lo + k + len)
<1>1. Len(list) \in Nat /\ Len(toc) \in Nat
  BY ListFacts
<1>2. /\ \A j \in k + 1 .. k + len : toc[j] \in Record
      /\ \A j \in lo + k + 1 .. lo + k + len : list[j] \in Record
  BY <1>1, ListFacts
<1>3. /\ s \in Seq(Record)
      /\ Len(s) = IF k + 1 <= k + len THEN (k + len) - (k + 1) + 1 ELSE 0
      /\ \A j \in 1 .. (k + len) - (k + 1) + 1 : s[j] = toc[k + 1 + j - 1]
  BY <1>2, SubSeqProperties, k + 1 \in Int, k + len \in Int
<1>4. /\ u \in Seq(Record)
      /\ Len(u) = IF lo + k + 1 <= lo + k + len THEN (lo + k + len) - (lo + k + 1) + 1 ELSE 0
      /\ \A j \in 1 .. (lo + k + len) - (lo + k + 1) + 1 : u[j] = list[lo + k + 1 + j - 1]
  BY <1>2, SubSeqProperties, lo + k + 1 \in Int, lo + k + len \in Int
<1> HIDE DEF s, u
<1>5. Len(s) = len /\ Len(u) = len
  BY <1>3, <1>4
<1>6. /\ (k + len) - (k + 1) + 1 = len
      /\ (lo + k + len) - (lo + k + 1) + 1 = len
      /\ \A j \in Nat : k + 1 + j - 1 = k + j /\ lo + k + 1 + j - 1 = lo + (k + j)
  OBVIOUS
<1>7. ASSUME NEW j \in 1 .. len
      PROVE  s[j] = u[j]
  <2>1. s[j] = toc[k + j]
    BY <1>3, <1>6
  <2>2. u[j] = list[lo + (k + j)]
    BY <1>4, <1>6
  <2>3. k + j \in 1 .. Len(toc)
    BY <1>1
  <2> QED BY <2>1, <2>2, <2>3
<1>8. s = u
  BY <1>3, <1>4, <1>5, <1>7, SeqEqual
<1> QED BY <1>8 DEF s, u

-----------------------------------------------------------------------------
(* The walk moves on in a sound tree.                                      *)

(* A node that is used up leaves the walk at the end of its part.          *)
LEMMA AtTheEnd ==
  ASSUME NEW image, IsImage(image), NEW x \in Xid, SoundAt(image, x), IsListing(image, x),
         NEW d \in Nat, NEW path, NEW t, Trail(image, x, path, t, d),
         NEW p, At(image, x, path, t, d, p), path[d] >= Len(t[d].toc)
  PROVE  p = Hi(image, x, path, t, d)
<1>1. t[d] \in Node /\ Placed(image, x, path, t, d)
  BY OnTheTrail, NodesAreNodes, d \in 0 .. d DEF Trail
<1>2. /\ Covers(image, x, t[d], Lo(image, x, path, t, d), Hi(image, x, path, t, d))
      /\ Len(t[d].toc) \in Nat
  BY <1>1, NodeFields DEF Placed
<1>3. CASE t[d].leaf
  <2>1. p = Lo(image, x, path, t, d) + path[d] /\ path[d] = Len(t[d].toc)
    BY <1>2, <1>3 DEF At
  <2>2. image.listing[x] \in Seq(Record)
    BY DEF IsImage
  <2>3. Len(image.listing[x]) \in Nat
    BY <2>2, ListFacts
  <2>4. /\ Hi(image, x, path, t, d) - Lo(image, x, path, t, d) = Len(t[d].toc)
        /\ Lo(image, x, path, t, d) \in Int /\ Hi(image, x, path, t, d) \in Int
    BY <1>2, <1>3, <2>3 DEF Covers
  <2> QED BY <1>2, <2>1, <2>4
<1>4. CASE ~t[d].leaf
  BY <1>2, <1>4 DEF At
<1> QED BY <1>3, <1>4

(* The leaf or inner node at the end of the trail is used up: the parent's *)
(* index is moved on, and the walk comes to the same position again.       *)
LEMMA MoveOn ==
  ASSUME NEW image, IsImage(image), NEW x \in Xid, SoundAt(image, x), IsListing(image, x),
         NEW d \in Nat \ {0}, NEW path, NEW t, Trail(image, x, path, t, d),
         NEW p, At(image, x, path, t, d, p), path[d] >= Len(t[d].toc),
         NEW new, new[d - 1] = path[d - 1] + 1,
         \A l \in 0 .. d - 2 : new[l] = path[l],
         \A l \in d .. image.root[x].level : new[l] = 0
  PROVE  \E s \in [0 .. d - 1 -> TreeNodes(image, x)] :
           /\ Trail(image, x, new, s, d - 1)
           /\ At(image, x, new, s, d - 1, p)
<1> DEFINE s == [l \in 0 .. d - 1 |-> t[l]]
           n == t[d - 1]
           c == path[d - 1]
<1>1. /\ \A l \in 0 .. d : t[l] \in TreeNodes(image, x) /\ Placed(image, x, path, t, l)
      /\ n \in Node /\ t[d] \in Node
      /\ c \in Nat /\ c < Len(n.toc) /\ ~n.leaf
  <2>1. \A l \in 0 .. d : t[l] \in TreeNodes(image, x) /\ Placed(image, x, path, t, l)
    BY OnTheTrail DEF Trail
  <2>2. d - 1 \in 0 .. d - 1 /\ d \in 0 .. d /\ d - 1 \in 0 .. d
    OBVIOUS
  <2> QED BY <2>1, <2>2, NodesAreNodes DEF Trail
<1>2. Trail(image, x, path, s, d - 1) /\ s[d - 1] = n /\ \A l \in 0 .. d - 1 : s[l] = t[l]
  <2>1. d - 1 \in 0 .. d /\ d - 1 \in 0 .. d - 1
    OBVIOUS
  <2> QED BY <2>1, TrailCut
<1> HIDE DEF s
<1>3. Trail(image, x, new, s, d - 1)
  <2>1. d - 1 \in Nat /\ \A l \in 0 .. (d - 1) - 1 : new[l] = path[l]
    OBVIOUS
  <2> QED BY <1>2, <2>1, TrailKept
<1>4. /\ Lo(image, x, new, s, d - 1) = Lo(image, x, path, t, d - 1)
      /\ Hi(image, x, new, s, d - 1) = Hi(image, x, path, t, d - 1)
  <2>1. CASE d - 1 = 0
    BY <2>1 DEF Lo, Hi
  <2>2. CASE d - 1 # 0
    <3>1. (d - 1) - 1 \in 0 .. d - 2 /\ (d - 1) - 1 \in 0 .. d - 1
      BY <2>2
    <3>2. new[(d - 1) - 1] = path[(d - 1) - 1] /\ s[(d - 1) - 1] = t[(d - 1) - 1]
      BY <1>2, <3>1
    <3> QED BY <2>2, <3>2 DEF Lo, Hi
  <2> QED BY <2>1, <2>2
<1>5. p = Part(image, x, n, c + 1).hi
  BY AtTheEnd DEF Hi
<1>6. /\ Covers(image, x, n, Lo(image, x, path, t, d - 1), Hi(image, x, path, t, d - 1))
      /\ Len(n.toc) \in Nat
  BY <1>1, NodeFields, d - 1 \in 0 .. d DEF Placed
<1>7. new[d - 1] = c + 1 /\ c + 1 \in Nat
  BY <1>1
<1>8. CASE c + 1 = Len(n.toc)
  <2>1. Part(image, x, n, Len(n.toc)).hi = Hi(image, x, path, t, d - 1)
    BY <1>1, <1>6 DEF Covers
  <2>2. At(image, x, new, s, d - 1, p)
    BY <1>1, <1>2, <1>4, <1>5, <1>7, <1>8, <2>1 DEF At
  <2> QED BY <1>3, <2>2 DEF Trail
<1>9. CASE c + 1 < Len(n.toc)
  <2>1. Part(image, x, n, (c + 1) + 1).lo = Part(image, x, n, c + 1).hi
    <3>1. c + 1 \in 1 .. Len(n.toc) - 1
      BY <1>1, <1>6, <1>9
    <3> QED BY <1>1, <1>6, <3>1 DEF Covers
  <2>2. \A l \in (d - 1) + 1 .. image.root[x].level : new[l] = 0
    BY (d - 1) + 1 = d
  <2>3. At(image, x, new, s, d - 1, p)
    BY <1>1, <1>2, <1>5, <1>7, <1>9, <2>1, <2>2 DEF At
  <2> QED BY <1>3, <2>3 DEF Trail
<1> QED BY <1>1, <1>6, <1>8, <1>9

(* The walk goes down to the next child, where it comes to the position of *)
(* that child's first record.                                              *)
LEMMA GoDown ==
  ASSUME NEW image, IsImage(image), NEW x \in Xid, SoundAt(image, x), IsListing(image, x),
         NEW d \in Nat, NEW path, NEW t, Trail(image, x, path, t, d),
         NEW p, At(image, x, path, t, d, p), ~t[d].leaf, path[d] < Len(t[d].toc),
         NEW m, Child(image, x, t[d], path[d], m)
  PROVE  /\ d + 1 <= image.root[x].level
         /\ LET s == Longer(t, d, m)
            IN /\ Trail(image, x, path, s, d + 1)
               /\ s[d + 1] = m
               /\ At(image, x, path, s, d + 1, p)
<1>1. /\ path[d] \in Nat
      /\ p = Part(image, x, t[d], path[d] + 1).lo
      /\ \A l \in d + 1 .. image.root[x].level : path[l] = 0
  <2>1. t[d] \in TreeNodes(image, x) /\ Len(t[d].toc) \in Nat
    BY NodesAreNodes, NodeFields DEF Trail
  <2> QED BY <2>1 DEF At
<1> DEFINE s == Longer(t, d, m)
<1>2. Trail(image, x, path, s, d + 1) /\ s[d + 1] = m /\ \A l \in 0 .. d : s[l] = t[l]
  BY <1>1, TrailExtended
<1> HIDE DEF s
<1>3. Placed(image, x, path, s, d + 1)
  BY <1>2, OnTheTrail, d + 1 \in Nat, d + 1 \in 0 .. d + 1
<1>4. /\ d + 1 <= image.root[x].level
      /\ Covers(image, x, m, Lo(image, x, path, s, d + 1), Hi(image, x, path, s, d + 1))
  BY <1>2, <1>3 DEF Placed
<1>5. Lo(image, x, path, s, d + 1) = p
  BY <1>1, <1>2, (d + 1) - 1 = d, d + 1 # 0, d \in 0 .. d DEF Lo
<1>6. m \in TreeNodes(image, x) /\ m \in Node /\ image.root[x].level \in Nat
  BY <1>2, ChildInTree, NodesAreNodes, NodeFields DEF TreeNodes
<1>7. Len(m.toc) \in Nat /\ (~m.leaf => Len(m.toc) > 0)
  BY <1>6, SoundNode, NodeFields
<1>8. path[d + 1] = 0
  BY <1>1, <1>4, <1>6
<1>9. At(image, x, path, s, d + 1, p)
  <2>1. CASE m.leaf
    <3>1. p \in Int
      <4>1. image.listing[x] \in Seq(Record)
        BY DEF IsImage
      <4>2. Len(image.listing[x]) \in Nat
        BY <4>1, ListFacts
      <4> QED BY <1>4, <1>5, <4>2 DEF Covers
    <3> QED BY <1>2, <1>5, <1>7, <1>8, <2>1, <3>1 DEF At
  <2>2. CASE ~m.leaf
    <3>1. Part(image, x, m, 1).lo = p
      BY <1>4, <1>5, <2>2 DEF Covers
    <3>2. \A l \in (d + 1) + 1 .. image.root[x].level : path[l] = 0
      BY <1>1, <1>6
    <3> QED BY <1>2, <1>7, <1>8, <2>2, <3>1, <3>2, 0 + 1 = 1 DEF At
  <2> QED BY <2>1, <2>2
<1> QED BY <1>2, <1>4, <1>9 DEF s

-----------------------------------------------------------------------------
(* Type correctness, together with where desc_path is assigned.            *)

Path == [0 .. tree_height - 1 -> Nat \union {Uninit}]

LEMMA RootFacts ==
  ASSUME TypeOK
  PROVE  /\ vol_fs_root_node \in TreeNodes(img, max_xid) /\ vol_fs_root_node \in Node
         /\ vol_fs_root_node.root
         /\ vol_fs_root_node.level \in Nat
         /\ tree_height \in Nat \ {0} /\ tree_height - 1 = img.root[max_xid].level
<1>1. vol_fs_root_node \in Node /\ vol_fs_root_node.root
  BY DEF TypeOK, IsImage, vol_fs_root_node
<1>2. vol_fs_root_node.level \in Nat
  BY <1>1, NodeFields
<1> QED BY <1>1, <1>2 DEF TreeNodes, vol_fs_root_node, tree_height

LEMMA NodeFacts ==
  ASSUME TypeOK
  PROVE  /\ nkeys \in Nat /\ DOMAIN node.toc = 1 .. nkeys
         /\ node.toc \in Seq(Record)
         /\ \A j \in 1 .. nkeys : node.toc[j] \in Record /\ node.toc[j].oid \in Nat
BY NodeFields DEF TypeOK, nkeys

LEMMA ReadsChild ==
  ASSUME NEW c, ReadChild(node.toc[c + 1].v)
  PROVE  Child(img, max_xid, node, c, node')
BY DEF ReadChild, Usable, Found, Child

LEMMA ReadsTree ==
  ASSUME TypeOK, NEW o, ReadChild(o)
  PROVE  node' \in TreeNodes(img, max_xid)
<1>1. PICK e \in img.omap : IsAnswer(img.omap, o, max_xid, e) /\ e.v \in DOMAIN img.disk /\ node' = img.disk[e.v]
  BY DEF ReadChild, Usable, Found
<1>2. e # NULL
  BY NullAssumption DEF TypeOK, IsImage
<1>3. e.oid = o
  BY <1>1, <1>2 DEF IsAnswer, Visible
<1> QED BY <1>1, <1>3 DEF TreeNodes, Readable, Newest

LEMMA ArgumentsStay ==
  ASSUME [Next]_vars
  PROVE  /\ img' = img /\ oid' = oid /\ max_xid' = max_xid
         /\ vol_fs_root_node' = vol_fs_root_node /\ tree_height' = tree_height
<1>1. img' = img /\ oid' = oid /\ max_xid' = max_xid
  BY DEF Next, vars, arguments, Return, Abort, StartWalkWith, CannotReadChild,
         DescendFixedSize, DescendNoRecord, DescendLeaf, DescendInner, DescendEmptyInner,
         DescentEnds, WalkFixedSize, WalkEnd, WalkNextNode, WalkLeaf, WalkInner, WalkFallsThrough
<1> QED BY <1>1 DEF vol_fs_root_node, tree_height

(* The walk finds the element of its level assigned, and those above it.   *)
LEMMA WalkFindsAssigned ==
  ASSUME TypeOK, PathInv, Walking
  PROVE  \A l \in 0 .. i : desc_path[l] \in Nat
<1>0. i \in Nat /\ tree_height \in Nat /\ i < tree_height
  BY RootFacts DEF TypeOK, Walking
<1>1. CASE AllAssigned
  BY <1>0, <1>1 DEF AllAssigned
<1>2. CASE WalkHalts
  <2>1. PICK d \in 0 .. tree_height - 1 : \E t \in Trails(d) :
           /\ Trail(img, max_xid, desc_path, t, d)
           /\ Halts(desc_path, t[d], d)
           /\ i <= d
    BY <1>2 DEF WalkHalts, Walking
  <2>2. ASSUME NEW l \in 0 .. i
        PROVE  desc_path[l] \in Nat
    <3>1. CASE l = d
      BY <2>1, <3>1 DEF Halts
    <3>2. CASE l # d
      BY <1>0, <2>1, <3>2, l \in 0 .. d - 1 DEF Trail
    <3> QED BY <3>1, <3>2
  <2> QED BY <2>2
<1> QED BY <1>1, <1>2 DEF PathInv, OnTheWayDown, Walking

LEMMA WalkStarts ==
  ASSUME TypeOK, NEW path \in Path, StartWalkWith(path), records' \in Seq(Record)
  PROVE  TypeOK'
<1>1. vol_fs_root_node' = vol_fs_root_node /\ tree_height' = tree_height
  BY DEF StartWalkWith, arguments, vol_fs_root_node, tree_height
<1>2. i' \in 0 .. tree_height' /\ node' \in Node
  BY <1>1, RootFacts DEF StartWalkWith
<1> QED BY <1>1, <1>2 DEF TypeOK, StartWalkWith, arguments, Path

LEMMA TypeStep ==
  ASSUME TypeOK, PathInv, [Next]_vars
  PROVE  TypeOK'
<1>0. /\ tree_height \in Nat \ {0} /\ vol_fs_root_node \in Node
      /\ nkeys \in Nat /\ node.toc \in Seq(Record) /\ i \in 0 .. tree_height
      /\ desc_path \in Path /\ DOMAIN desc_path = 0 .. tree_height - 1
      /\ records \in Seq(Record)
  BY RootFacts, NodeFacts DEF TypeOK, Path
<1>1. /\ img' = img /\ oid' = oid /\ max_xid' = max_xid
      /\ vol_fs_root_node' = vol_fs_root_node /\ tree_height' = tree_height
  BY ArgumentsStay
<1>2. ASSUME Abort PROVE TypeOK'
  BY <1>1, <1>2 DEF Abort, TypeOK
<1>3. ASSUME NEW r, Return(r), r = NULL \/ r \in Seq(Record) PROVE TypeOK'
  BY <1>1, <1>3 DEF Return, TypeOK
<1>4. ASSUME NEW o, NEW c \in Nat, Descending, ReadChild(o),
             desc_path' = [desc_path EXCEPT ![i] = c], UNCHANGED <<arguments, pc, records, result>>
      PROVE  TypeOK'
  <2>1. node' \in Node
    BY <1>4, ReadsTree, NodesAreNodes DEF TypeOK
  <2>2. i' \in 0 .. tree_height'
    BY <1>0, <1>1, <1>4 DEF ReadChild, Descending
  <2>3. desc_path' \in [0 .. tree_height' - 1 -> Nat \union {Uninit}]
    BY <1>0, <1>1, <1>4 DEF Path
  <2> QED BY <1>1, <1>4, <2>1, <2>2, <2>3 DEF TypeOK
<1>5. CASE DescendFixedSize
  BY <1>2, <1>5 DEF DescendFixedSize
<1>6. CASE DescendNoRecord
  BY <1>3, <1>6 DEF DescendNoRecord
<1>7. CASE DescendLeaf
  <2>1. PICK k \in 0 .. nkeys : StartWalkWith([desc_path EXCEPT ![i] = k])
    BY <1>7 DEF DescendLeaf
  <2>2. [desc_path EXCEPT ![i] = k] \in Path
    BY <1>0 DEF Path
  <2> QED BY <1>0, <1>7, <2>1, <2>2, WalkStarts DEF DescendLeaf
<1>8. CASE DescendInner
  BY <1>0, <1>2, <1>4, <1>8 DEF DescendInner, CannotReadChild
<1>9. CASE DescendEmptyInner
  BY <1>0, <1>2, <1>4, <1>9 DEF DescendEmptyInner, Wrapped
<1>10. CASE DescentEnds
  BY <1>0, <1>10, WalkStarts DEF DescentEnds
<1>11. CASE WalkFixedSize
  BY <1>3, <1>11 DEF WalkFixedSize
<1>12. CASE WalkEnd
  BY <1>0, <1>3, <1>12 DEF WalkEnd
<1>13. CASE WalkNextNode
  <2> DEFINE path == [l \in DOMAIN desc_path |->
               IF l = i - 1 THEN desc_path[l] + 1 ELSE IF l >= i THEN 0 ELSE desc_path[l]]
  <2>1. \A l \in 0 .. i : desc_path[l] \in Nat
    BY <1>13, WalkFindsAssigned DEF WalkNextNode
  <2>2. path \in Path
    BY <1>0, <2>1 DEF Path
  <2>3. StartWalkWith(path) /\ records' = records
    BY <1>13 DEF WalkNextNode
  <2> QED BY <1>0, <2>2, <2>3, WalkStarts
<1>14. CASE WalkLeaf
  <2>1. Index \in Nat
    BY <1>0, <1>14, WalkFindsAssigned DEF WalkLeaf, Walking, Index
  <2>2. PICK len \in 0 .. nkeys - Index :
          /\ records' = records \o SubSeq(node.toc, Index + 1, Index + len)
          /\ IF Index + len < nkeys
               THEN /\ pc' = "returned"
                    /\ result' = records'
                    /\ desc_path' = [desc_path EXCEPT ![i] = Index + len]
                    /\ UNCHANGED <<arguments, i, node>>
               ELSE StartWalkWith([desc_path EXCEPT ![i] = nkeys])
    BY <1>14 DEF WalkLeaf
  <2>3. records' \in Seq(Record)
    <3>1. \A j \in Index + 1 .. Index + len : node.toc[j] \in Record
      BY <1>0, <2>1, NodeFacts
    <3>2. SubSeq(node.toc, Index + 1, Index + len) \in Seq(Record)
      BY <1>0, <2>1, <3>1, SubSeqProperties, Index + 1 \in Int, Index + len \in Int
    <3> QED BY <1>0, <2>2, <3>2, ConcatProperties
  <2>4. \A k \in Nat : [desc_path EXCEPT ![i] = k] \in Path
    BY <1>0 DEF Path
  <2>5. CASE Index + len < nkeys
    <3>1. desc_path' \in [0 .. tree_height' - 1 -> Nat \union {Uninit}]
      BY <1>0, <1>1, <2>1, <2>2, <2>4, <2>5, Index + len \in Nat DEF Path
    <3> QED BY <1>1, <2>2, <2>3, <2>5, <3>1 DEF TypeOK
  <2>6. CASE ~(Index + len < nkeys)
    BY <1>0, <2>2, <2>3, <2>4, <2>6, WalkStarts
  <2> QED BY <2>5, <2>6
<1>15. CASE WalkInner
  <2>1. CASE ReadChild(node.toc[Index + 1].v) /\ UNCHANGED <<arguments, pc, desc_path, records, result>>
    <3>1. node' \in Node
      BY <2>1, ReadsTree, NodesAreNodes DEF TypeOK
    <3>2. i' \in 0 .. tree_height'
      BY <1>0, <1>1, <1>15, <2>1 DEF WalkInner, Walking, ReadChild
    <3> QED BY <1>1, <2>1, <3>1, <3>2 DEF TypeOK
  <2> QED BY <1>2, <1>15, <2>1 DEF WalkInner, CannotReadChild
<1>16. CASE WalkFallsThrough
  BY <1>0, <1>16, WalkStarts DEF WalkFallsThrough
<1>17. CASE UNCHANGED vars
  BY <1>1, <1>17 DEF vars, TypeOK
<1> QED BY <1>5, <1>6, <1>7, <1>8, <1>9, <1>10, <1>11, <1>12, <1>13, <1>14, <1>15, <1>16, <1>17 DEF Next

-----------------------------------------------------------------------------
(* The path is assigned where the walk comes, step by step.                *)

(* Elements of the path below the end of a trail do not matter to it.      *)
LEMMA HaltsKept ==
  ASSUME WalkHalts, pc = "descent", i \in Nat, tree_height \in Nat,
         img' = img, max_xid' = max_xid, tree_height' = tree_height,
         \A l \in 0 .. tree_height - 1 : l # i => desc_path'[l] = desc_path[l],
         pc' = "descent" => i' = i + 1,
         pc' = "walk" => i' = 0 /\ node' = vol_fs_root_node
  PROVE  WalkHalts'
<1>1. PICK d \in 0 .. tree_height - 1 : \E t \in Trails(d) :
         /\ Trail(img, max_xid, desc_path, t, d)
         /\ Halts(desc_path, t[d], d)
         /\ d < i
  BY DEF WalkHalts
<1>2. PICK t \in Trails(d) : Trail(img, max_xid, desc_path, t, d) /\ Halts(desc_path, t[d], d)
  BY <1>1
<1>3. \A l \in 0 .. d : desc_path'[l] = desc_path[l]
  BY <1>1
<1>4. Trail(img, max_xid, desc_path', t, d) /\ Halts(desc_path', t[d], d)
  BY <1>2, <1>3, d \in 0 .. d DEF Trail, Halts
<1>5. t[0] = vol_fs_root_node
  BY <1>2 DEF Trail, vol_fs_root_node
<1>6. /\ pc' = "descent" => d < i'
      /\ pc' = "walk" => i' <= d /\ node' = t[i']
  BY <1>1, <1>5
<1> QED BY <1>1, <1>2, <1>4, <1>6 DEF WalkHalts, Trails

(* The walk begins with a path that is assigned.                           *)
LEMMA WalkAllAssigned ==
  ASSUME TypeOK, NEW path, StartWalkWith(path), \A l \in 0 .. tree_height - 1 : path[l] \in Nat
  PROVE  PathInv'
<1>1. vol_fs_root_node' = vol_fs_root_node /\ tree_height' = tree_height /\ img' = img /\ max_xid' = max_xid
  BY DEF StartWalkWith, arguments, vol_fs_root_node, tree_height
<1>2. node' = vol_fs_root_node /\ node' \in TreeNodes(img', max_xid')
  BY <1>1, RootFacts DEF StartWalkWith
<1>3. AllAssigned'
  BY <1>1 DEF AllAssigned, StartWalkWith
<1> QED BY <1>1, <1>2, <1>3 DEF PathInv, StartWalkWith

(* Descending to a child leaves the path assigned down to it.              *)
LEMMA DescentStep ==
  ASSUME TypeOK, PathInv, Descending, NEW o, ReadChild(o), NEW c \in Nat,
         desc_path' = [desc_path EXCEPT ![i] = c], UNCHANGED <<arguments, pc, records, result>>,
         \/ c >= nkeys
         \/ c < nkeys /\ ~node.leaf /\ o = node.toc[c + 1].v
  PROVE  PathInv'
<1>1. /\ tree_height \in Nat \ {0} /\ i \in 0 .. tree_height - 1 /\ i' = i + 1
      /\ desc_path \in Path /\ nkeys \in Nat /\ pc = "descent" /\ pc' = "descent"
  BY RootFacts, NodeFacts DEF TypeOK, Path, Descending, ReadChild
<1>2. img' = img /\ max_xid' = max_xid /\ vol_fs_root_node' = vol_fs_root_node /\ tree_height' = tree_height
  BY DEF arguments, vol_fs_root_node, tree_height
<1>3. node' \in TreeNodes(img', max_xid')
  BY <1>2, ReadsTree
<1>4. desc_path'[i] = c /\ \A l \in 0 .. tree_height - 1 : l # i => desc_path'[l] = desc_path[l]
  BY <1>1 DEF Path
<1>5. \A l \in 0 .. i' - 1 : desc_path'[l] \in Nat
  BY <1>1, <1>4 DEF PathInv
<1>6. CASE AllAssigned
  <2>1. AllAssigned'
    BY <1>1, <1>2, <1>4, <1>6 DEF AllAssigned
  <2> QED BY <1>1, <1>3, <1>5, <2>1 DEF PathInv
<1>7. CASE WalkHalts
  <2>1. WalkHalts'
    BY <1>1, <1>2, <1>4, <1>7, HaltsKept
  <2> QED BY <1>1, <1>3, <1>5, <2>1 DEF PathInv
<1>8. CASE OnTheWayDown
  <2>1. PICK t \in Trails(i) : Trail(img, max_xid, desc_path, t, i) /\ node = t[i]
    BY <1>8 DEF OnTheWayDown
  <2>2. Trail(img, max_xid, desc_path', t, i)
    BY <1>1, <1>4, <2>1 DEF Trail
  <2>3. CASE c >= nkeys
    <3>1. Halts(desc_path', t[i], i)
      BY <1>4, <2>1, <2>3 DEF Halts, nkeys
    <3>2. WalkHalts'
      BY <1>1, <1>2, <2>2, <3>1 DEF WalkHalts, Trails
    <3> QED BY <1>1, <1>3, <1>5, <3>2 DEF PathInv
  <2>4. CASE c < nkeys /\ ~node.leaf /\ o = node.toc[c + 1].v
    <3> DEFINE s == Longer(t, i, node')
    <3>1. Child(img, max_xid, t[i], desc_path'[i], node')
      BY <1>4, <2>1, <2>4, ReadsChild
    <3>2. Trail(img, max_xid, desc_path', s, i + 1) /\ s[i + 1] = node'
      <4>1. /\ IsImage(img) /\ max_xid \in Xid /\ i \in Nat
            /\ desc_path'[i] \in Nat /\ desc_path'[i] < Len(t[i].toc) /\ ~t[i].leaf
        BY <1>1, <1>4, <2>1, <2>4 DEF TypeOK, nkeys
      <4>2. ASSUME NEW path, path = desc_path', NEW m, m = node'
            PROVE  LET u == Longer(t, i, m)
                   IN Trail(img, max_xid, path, u, i + 1) /\ u[i + 1] = m
        <5>1. Trail(img, max_xid, path, t, i) /\ Child(img, max_xid, t[i], path[i], m)
          BY <2>2, <3>1, <4>2
        <5>2. path[i] \in Nat /\ path[i] < Len(t[i].toc)
          BY <4>1, <4>2
        <5> QED BY <4>1, <5>1, <5>2, TrailExtended
      <4> QED BY <4>2
    <3> HIDE DEF s
    <3>3. OnTheWayDown'
      BY <1>1, <1>2, <3>2 DEF OnTheWayDown, Trails, Trail
    <3> QED BY <1>1, <1>3, <1>5, <3>3 DEF PathInv
  <2> QED BY <2>3, <2>4
<1> QED BY <1>1, <1>6, <1>7, <1>8 DEF PathInv

LEMMA PathStep ==
  ASSUME TypeOK, PathInv, [Next]_vars
  PROVE  PathInv'
<1>0. /\ tree_height \in Nat \ {0} /\ vol_fs_root_node \in TreeNodes(img, max_xid)
      /\ nkeys \in Nat /\ i \in 0 .. tree_height
      /\ desc_path \in Path /\ DOMAIN desc_path = 0 .. tree_height - 1
      /\ IsImage(img) /\ max_xid \in Xid
  BY RootFacts, NodeFacts DEF TypeOK, Path
<1>1. /\ img' = img /\ max_xid' = max_xid
      /\ vol_fs_root_node' = vol_fs_root_node /\ tree_height' = tree_height
  BY ArgumentsStay
<1>2. ASSUME node' = node, pc' \in {"returned", "aborted"} PROVE PathInv'
  BY <1>1, <1>2 DEF PathInv
<1>3. ASSUME Abort PROVE PathInv'
  BY <1>2, <1>3 DEF Abort
<1>4. ASSUME NEW r, Return(r) PROVE PathInv'
  BY <1>2, <1>4 DEF Return
<1>5. CASE DescendFixedSize
  BY <1>3, <1>5 DEF DescendFixedSize
<1>6. CASE DescendNoRecord
  BY <1>4, <1>6 DEF DescendNoRecord
<1>7. CASE DescendLeaf
  <2>1. PICK k \in 0 .. nkeys : StartWalkWith([desc_path EXCEPT ![i] = k])
    BY <1>7 DEF DescendLeaf
  <2>2. /\ pc = "descent" /\ i \in 0 .. tree_height - 1
        /\ desc_path'[i] = k /\ \A l \in 0 .. tree_height - 1 : l # i => desc_path'[l] = desc_path[l]
        /\ pc' = "walk" /\ i' = 0 /\ node' = vol_fs_root_node
    BY <1>0, <1>7, <2>1 DEF DescendLeaf, Descending, StartWalkWith, Path
  <2>3. CASE AllAssigned
    <3>1. AllAssigned'
      BY <1>0, <1>1, <2>2, <2>3 DEF AllAssigned
    <3> QED BY <1>0, <1>1, <2>2, <3>1 DEF PathInv
  <2>4. CASE WalkHalts
    <3>1. WalkHalts'
      BY <1>0, <1>1, <2>2, <2>4, HaltsKept
    <3> QED BY <1>0, <1>1, <2>2, <3>1 DEF PathInv
  <2>5. CASE OnTheWayDown
    <3>1. PICK t \in Trails(i) : Trail(img, max_xid, desc_path, t, i) /\ node = t[i]
      BY <2>5 DEF OnTheWayDown
    <3>2. Trail(img, max_xid, desc_path', t, i) /\ t[0] = vol_fs_root_node
      BY <1>0, <2>2, <3>1 DEF Trail, vol_fs_root_node
    <3>3. Halts(desc_path', t[i], i)
      BY <1>7, <2>2, <3>1 DEF Halts, DescendLeaf
    <3>4. WalkHalts'
      BY <1>0, <1>1, <2>2, <3>2, <3>3 DEF WalkHalts, Trails
    <3> QED BY <1>0, <1>1, <2>2, <3>4 DEF PathInv
  <2> QED BY <2>2, <2>3, <2>4, <2>5 DEF PathInv
<1>8. CASE DescendInner
  <2>1. PICK c \in 0 .. nkeys - 1 :
          \/ /\ ReadChild(node.toc[c + 1].v)
             /\ desc_path' = [desc_path EXCEPT ![i] = c]
             /\ UNCHANGED <<arguments, pc, records, result>>
          \/ CannotReadChild(node.toc[c + 1].v)
    BY <1>8 DEF DescendInner
  <2>2. Descending /\ ~node.leaf /\ c \in Nat /\ c < nkeys
    BY <1>0, <1>8 DEF DescendInner
  <2> QED BY <1>3, <2>1, <2>2, DescentStep DEF CannotReadChild
<1>9. CASE DescendEmptyInner
  <2>1. Descending /\ Wrapped \in Nat /\ Wrapped >= nkeys
    BY <1>0, <1>9 DEF DescendEmptyInner, Wrapped
  <2> QED BY <1>3, <1>9, <2>1, DescentStep DEF DescendEmptyInner
<1>10. CASE DescentEnds
  <2>1. \A l \in 0 .. tree_height - 1 : desc_path[l] \in Nat
    BY <1>0, <1>10 DEF DescentEnds, PathInv
  <2> QED BY <1>10, <2>1, WalkAllAssigned DEF DescentEnds
<1>11. CASE WalkFixedSize
  BY <1>4, <1>11 DEF WalkFixedSize
<1>12. CASE WalkEnd
  BY <1>4, <1>12 DEF WalkEnd
<1>13. CASE WalkNextNode
  <2> DEFINE path == [l \in DOMAIN desc_path |->
               IF l = i - 1 THEN desc_path[l] + 1 ELSE IF l >= i THEN 0 ELSE desc_path[l]]
  <2>1. \A l \in 0 .. i : desc_path[l] \in Nat
    BY <1>13, WalkFindsAssigned DEF WalkNextNode
  <2>2. \A l \in 0 .. tree_height - 1 : path[l] \in Nat
    BY <1>0, <2>1
  <2>3. StartWalkWith(path)
    BY <1>13 DEF WalkNextNode
  <2> HIDE DEF path
  <2> QED BY <2>2, <2>3, WalkAllAssigned
<1>14. CASE WalkLeaf
  <2>1. \A l \in 0 .. i : desc_path[l] \in Nat
    BY <1>14, WalkFindsAssigned DEF WalkLeaf
  <2>2. pc = "walk" /\ i \in 0 .. tree_height - 1 /\ node.leaf /\ Index \in Nat /\ Index < nkeys
    BY <1>0, <1>14, <2>1 DEF WalkLeaf, Walking, Index, UsedUp
  <2>3. CASE pc' = "returned" /\ node' = node
    BY <1>2, <2>3
  <2>4. CASE StartWalkWith([desc_path EXCEPT ![i] = nkeys])
    <3> DEFINE path == [desc_path EXCEPT ![i] = nkeys]
    <3>1. path[i] = nkeys /\ \A l \in 0 .. tree_height - 1 : l # i => path[l] = desc_path[l]
      BY <1>0, <2>2 DEF Path
    <3> HIDE DEF path
    <3>2. StartWalkWith(path)
      BY <2>4 DEF path
    <3>3. CASE AllAssigned
      BY <1>0, <3>1, <3>2, <3>3, WalkAllAssigned DEF AllAssigned
    <3>4. CASE WalkHalts
      <4>0. PICK d \in 0 .. tree_height - 1 : \E t \in Trails(d) :
               /\ Trail(img, max_xid, desc_path, t, d)
               /\ Halts(desc_path, t[d], d)
               /\ i <= d /\ node = t[i]
        BY <2>2, <3>4 DEF WalkHalts
      <4>1. PICK t \in Trails(d) :
               /\ Trail(img, max_xid, desc_path, t, d)
               /\ Halts(desc_path, t[d], d)
               /\ i <= d /\ node = t[i]
        BY <4>0
      <4>2. i = d
        BY <2>2, <4>1 DEF Trail
      <4>3. Trail(img, max_xid, path, t, d) /\ t[0] = vol_fs_root_node
        <5>1. \A l \in 0 .. d - 1 : path[l] = desc_path[l]
          BY <1>0, <3>1, <4>2
        <5> QED BY <4>1, <5>1 DEF Trail, vol_fs_root_node
      <4>4. Halts(path, t[d], d)
        BY <1>0, <2>2, <3>1, <4>1, <4>2 DEF Halts
      <4>5. pc' = "walk" /\ i' = 0 /\ node' = vol_fs_root_node /\ desc_path' = path
        BY <3>2 DEF StartWalkWith
      <4>6. WalkHalts'
        BY <1>0, <1>1, <4>1, <4>3, <4>4, <4>5 DEF WalkHalts, Trails
      <4> QED BY <1>0, <1>1, <4>5, <4>6 DEF PathInv
    <3> QED BY <2>2, <3>3, <3>4 DEF PathInv, OnTheWayDown
  <2> QED BY <1>14, <2>3, <2>4 DEF WalkLeaf
<1>15. CASE WalkInner
  <2>1. \A l \in 0 .. i : desc_path[l] \in Nat
    BY <1>15, WalkFindsAssigned DEF WalkInner
  <2>2. pc = "walk" /\ i \in 0 .. tree_height - 1 /\ ~node.leaf /\ Index \in Nat /\ Index < nkeys
    BY <1>0, <1>15, <2>1 DEF WalkInner, Walking, Index, UsedUp
  <2>3. CASE ReadChild(node.toc[Index + 1].v) /\ UNCHANGED <<arguments, pc, desc_path, records, result>>
    <3>1. node' \in TreeNodes(img', max_xid') /\ i' = i + 1 /\ pc' = "walk" /\ desc_path' = desc_path
      BY <1>1, <2>2, <2>3, ReadsTree DEF ReadChild
    <3>2. CASE AllAssigned
      <4>1. AllAssigned'
        BY <1>1, <3>1, <3>2 DEF AllAssigned
      <4> QED BY <2>2, <3>1, <4>1 DEF PathInv
    <3>3. CASE WalkHalts
      <4>0. PICK d \in 0 .. tree_height - 1 : \E t \in Trails(d) :
               /\ Trail(img, max_xid, desc_path, t, d)
               /\ Halts(desc_path, t[d], d)
               /\ i <= d /\ node = t[i]
        BY <2>2, <3>3 DEF WalkHalts
      <4>1. PICK t \in Trails(d) :
               /\ Trail(img, max_xid, desc_path, t, d)
               /\ Halts(desc_path, t[d], d)
               /\ i <= d /\ node = t[i]
        BY <4>0
      <4>2. i # d
        BY <2>2, <4>1 DEF Halts, Index, nkeys
      <4>3. Child(img, max_xid, node, desc_path[i], t[i + 1])
        BY <2>2, <4>1, <4>2, i \in 0 .. d - 1 DEF Trail
      <4>4. Child(img, max_xid, node, desc_path[i], node')
        BY <2>3, ReadsChild DEF Index
      <4>5. node' = t[i + 1]
        BY <1>0, <4>3, <4>4, OneChild
      <4>6. i + 1 <= d
        BY <2>2, <4>1, <4>2
      <4>7. WalkHalts'
        BY <1>0, <1>1, <3>1, <4>1, <4>5, <4>6 DEF WalkHalts, Trails
      <4> QED BY <2>2, <3>1, <4>7 DEF PathInv
    <3> QED BY <2>2, <3>2, <3>3 DEF PathInv, OnTheWayDown
  <2> QED BY <1>3, <1>15, <2>3 DEF WalkInner, CannotReadChild
<1>16. CASE WalkFallsThrough
  <2>1. pc = "walk" /\ i = tree_height /\ StartWalkWith(desc_path)
    BY <1>16 DEF WalkFallsThrough
  <2>2. ~WalkHalts
    BY <1>0, <2>1 DEF WalkHalts
  <2> QED BY <2>1, <2>2, WalkAllAssigned DEF PathInv, OnTheWayDown, AllAssigned
<1>17. CASE UNCHANGED vars
  BY <1>17 DEF vars, PathInv, AllAssigned, WalkHalts, OnTheWayDown, Trails, tree_height,
               vol_fs_root_node
<1> QED BY <1>5, <1>6, <1>7, <1>8, <1>9, <1>10, <1>11, <1>12, <1>13, <1>14, <1>15, <1>16, <1>17 DEF Next

LEMMA Start ==
  Init => TypeOK /\ PathInv
<1> SUFFICES ASSUME Init PROVE TypeOK /\ PathInv
  OBVIOUS
<1>1. IsImage(img) /\ max_xid \in Xid /\ oid \in Oid
  BY ImageAssumption DEF Init
<1>2. vol_fs_root_node \in Node /\ vol_fs_root_node \in TreeNodes(img, max_xid)
  BY <1>1 DEF IsImage, vol_fs_root_node, TreeNodes
<1>3. tree_height \in Nat /\ tree_height >= 1
  BY <1>2, NodeFields DEF tree_height
<1>4. TypeOK
  <2>1. desc_path \in [0 .. tree_height - 1 -> Nat \union {Uninit}]
    BY DEF Init
  <2>2. i \in 0 .. tree_height /\ node \in Node /\ records \in Seq(Record)
    BY <1>2, <1>3, EmptySeq DEF Init
  <2> QED BY <1>1, <2>1, <2>2 DEF Init, TypeOK
<1>5. OnTheWayDown
  <2> DEFINE t == [l \in 0 .. 0 |-> vol_fs_root_node]
  <2>1. t \in Trails(0) /\ t[0] = vol_fs_root_node
    BY <1>2 DEF Trails
  <2>2. Trail(img, max_xid, desc_path, t, 0)
    BY <2>1 DEF Trail, Trails, vol_fs_root_node
  <2> HIDE DEF t
  <2> QED BY <2>1, <2>2 DEF Init, OnTheWayDown
<1> QED BY <1>2, <1>4, <1>5 DEF PathInv, Init

THEOREM PathHolds == Spec => [](TypeOK /\ PathInv)
<1>1. TypeOK /\ PathInv /\ [Next]_vars => (TypeOK /\ PathInv)'
  BY TypeStep, PathStep
<1> QED BY <1>1, Start, PTL DEF Spec

(* TypeOK: every variable keeps its type: the level reached stays within   *)
(* desc_path, which has one element for each level of the tree.            *)
THEOREM TypeCorrect == Spec => []TypeOK
BY PathHolds, PTL

(* PathInitialised: an element of desc_path is assigned before the walk    *)
(* loop uses it, although the array is not initialised (btree.c:233).      *)
THEOREM PathIsAssigned == Spec => []PathInitialised
<1>1. TypeOK /\ PathInv => PathInitialised
  <2> SUFFICES ASSUME TypeOK, PathInv, pc = "walk", i < tree_height
               PROVE  desc_path[i] # Uninit
    BY DEF PathInitialised
  <2>1. i \in 0 .. i
    BY RootFacts DEF TypeOK
  <2>2. desc_path[i] \in Nat
    BY <2>1, WalkFindsAssigned DEF Walking
  <2> QED BY <2>2, UninitAssumption
<1> QED BY <1>1, PathHolds, PTL

(* WalksForwards: the walk loop only moves desc_path on, in whatever nodes *)
(* it meets (btree.c:462-468).                                             *)
THEOREM Forwards == Spec => WalksForwards
<1>1. TypeOK /\ PathInv /\ [Next]_vars =>
        [pc = "walk" => desc_path' = desc_path \/ Before(desc_path, desc_path')]_vars
  <2> SUFFICES ASSUME TypeOK, PathInv, Next, pc = "walk", desc_path' # desc_path
               PROVE  Before(desc_path, desc_path')
    OBVIOUS
  <2>0. /\ tree_height \in Nat \ {0} /\ i \in 0 .. tree_height /\ nkeys \in Nat
        /\ DOMAIN desc_path = 0 .. tree_height - 1 /\ vol_fs_root_node.root
        /\ desc_path \in Path
    BY RootFacts, NodeFacts DEF TypeOK, Path
  <2>1. Walking => \A l \in 0 .. i : desc_path[l] \in Nat
    BY WalkFindsAssigned
  <2>2. CASE WalkNextNode
    <3>1. i \in 1 .. tree_height - 1
      BY <2>0, <2>2 DEF WalkNextNode, Walking, PathInv
    <3>2. /\ desc_path'[i - 1] = desc_path[i - 1] + 1
          /\ \A l \in 0 .. (i - 1) - 1 : desc_path'[l] = desc_path[l]
      BY <2>0, <2>2, <3>1 DEF WalkNextNode, StartWalkWith
    <3>3. desc_path[i - 1] < desc_path'[i - 1] /\ i - 1 \in DOMAIN desc_path
      BY <2>0, <2>1, <2>2, <3>1, <3>2, i - 1 \in 0 .. i DEF WalkNextNode
    <3> QED BY <3>2, <3>3 DEF Before
  <2>3. CASE WalkLeaf
    <3>1. i \in 0 .. tree_height - 1 /\ desc_path[i] \in Nat /\ desc_path[i] < nkeys
      BY <2>0, <2>1, <2>3, i \in 0 .. i DEF WalkLeaf, Walking, UsedUp, Index
    <3>2. PICK k \in Nat : k >= desc_path[i] /\ desc_path' = [desc_path EXCEPT ![i] = k]
      <4>1. PICK len \in 0 .. nkeys - Index :
              IF Index + len < nkeys THEN desc_path' = [desc_path EXCEPT ![i] = Index + len]
                                     ELSE desc_path' = [desc_path EXCEPT ![i] = nkeys]
        BY <2>3 DEF WalkLeaf, StartWalkWith
      <4>2. Index = desc_path[i] /\ Index + len \in Nat /\ Index + len >= desc_path[i]
        BY <2>0, <3>1, <4>1 DEF Index
      <4> QED BY <2>0, <3>1, <4>1, <4>2
    <3>3. /\ desc_path'[i] = k
          /\ \A l \in 0 .. i - 1 : desc_path'[l] = desc_path[l]
      BY <2>0, <3>1, <3>2 DEF Path
    <3>4. k # desc_path[i]
      BY <2>0, <3>1, <3>2 DEF Path
    <3> QED BY <2>0, <3>1, <3>2, <3>3, <3>4 DEF Before
  <2>4. CASE WalkFixedSize \/ WalkEnd \/ WalkInner \/ WalkFallsThrough
    BY <2>4 DEF WalkFixedSize, WalkEnd, WalkInner, WalkFallsThrough, Return, CannotReadChild, Abort,
                StartWalkWith
  <2>5. ~(DescendFixedSize \/ DescendNoRecord \/ DescendLeaf \/ DescendInner \/ DescendEmptyInner
          \/ DescentEnds)
    BY DEF DescendFixedSize, DescendNoRecord, DescendLeaf, DescendInner, DescendEmptyInner,
           DescentEnds, Descending
  <2> QED BY <2>2, <2>3, <2>4, <2>5 DEF Next
<1> QED BY <1>1, PathHolds, PTL DEF Spec, WalksForwards

(* AbortsOnlyOnDamage: the process exits only where a node is missing or   *)
(* damaged, in either loop.                                                *)
THEOREM ExitsOnlyForDamage == Spec => []AbortsOnlyOnDamage
<1>1. Init => AbortsOnlyOnDamage
  BY DEF Init, AbortsOnlyOnDamage
<1>2. TypeOK /\ PathInv /\ AbortsOnlyOnDamage /\ [Next]_vars => AbortsOnlyOnDamage'
  <2> SUFFICES ASSUME TypeOK, PathInv, AbortsOnlyOnDamage, [Next]_vars, pc' = "aborted", Intact'
               PROVE  FALSE
    BY DEF AbortsOnlyOnDamage
  <2>0. Intact
    BY ArgumentsStay DEF Intact, Sound
  <2>1. pc # "aborted"
    BY <2>0 DEF AbortsOnlyOnDamage
  <2>2. /\ IsImage(img) /\ max_xid \in Xid /\ node \in TreeNodes(img, max_xid)
        /\ nkeys \in Nat /\ DOMAIN node.toc = 1 .. nkeys
    BY NodeFacts DEF TypeOK, PathInv
  <2>3. ~node.fixed /\ (~node.leaf => nkeys > 0)
    BY <2>0, <2>2, SoundNode DEF Intact, Sound, nkeys
  <2>4. ASSUME ~node.leaf, NEW c \in 0 .. nkeys - 1
        PROVE  Usable(node.toc[c + 1].v) # {}
    <3>1. c + 1 \in DOMAIN node.toc
      BY <2>2
    <3>2. PICK e \in Newest(img, max_xid) : e.oid = node.toc[c + 1].v
      BY <2>0, <2>2, <2>4, <3>1 DEF Intact
    <3>3. e \in Usable(node.toc[c + 1].v)
      BY <2>0, <3>2 DEF Intact, Readable, Newest, Usable, Found
    <3> QED BY <3>3
  <2>5. CASE DescendInner
    BY <2>1, <2>4, <2>5 DEF DescendInner, CannotReadChild
  <2>6. CASE WalkInner
    <3>1. Index \in 0 .. nkeys - 1
      <4>1. Index \in Nat
        <5>1. Walking /\ i \in 0 .. i
          BY <2>6, RootFacts DEF WalkInner, TypeOK
        <5> QED BY <5>1, WalkFindsAssigned DEF Index
      <4> QED BY <2>2, <2>6, <4>1 DEF WalkInner, UsedUp
    <3> QED BY <2>1, <2>4, <2>6, <3>1 DEF WalkInner, CannotReadChild
  <2> QED
    BY <2>1, <2>3, <2>5, <2>6
    DEF Next, vars, DescendFixedSize, DescendNoRecord, DescendLeaf, DescendEmptyInner, DescentEnds,
        WalkFixedSize, WalkEnd, WalkNextNode, WalkLeaf, WalkFallsThrough, Return, StartWalkWith,
        Descending, Walking
<1> QED BY <1>1, <1>2, PathHolds, PTL DEF Spec

-----------------------------------------------------------------------------
(* What is returned is complete, step by step.                             *)

List == img.listing[max_xid]

LEMMA ListingFacts ==
  ASSUME TypeOK, ListInv, Sound
  PROVE  /\ IsImage(img) /\ max_xid \in Xid /\ SoundAt(img, max_xid) /\ IsListing(img, max_xid)
         /\ List \in Seq(Record) /\ Len(List) \in Nat /\ DOMAIN List = 1 .. Len(List)
         /\ Ascending(List)
         /\ oid \in Nat
<1>1. IsImage(img) /\ max_xid \in Xid /\ oid \in Nat /\ SoundAt(img, max_xid)
  BY NumberAssumption DEF TypeOK, Sound
<1>2. IsListing(img, max_xid)
  BY <1>1, ListingAssumption DEF ListInv
<1>3. List \in Seq(Record)
  BY <1>1 DEF IsImage, List
<1>4. Ascending(List)
  BY <1>2 DEF IsListing, Ascending, List
<1> QED BY <1>1, <1>2, <1>3, <1>4, ListFacts

(* Where the descent is in a sound tree.                                   *)
LEMMA DescentFacts ==
  ASSUME TypeOK, ListInv, Sound, pc = "descent"
  PROVE  /\ records = <<>> /\ i \in Nat /\ i <= tree_height - 1
         /\ node \in Node /\ ~node.fixed /\ (~node.leaf => nkeys > 0)
         /\ \E t \in Trails(i) :
              /\ Trail(img, max_xid, desc_path, t, i) /\ node = t[i]
              /\ Covers(img, max_xid, node, Lo(img, max_xid, desc_path, t, i),
                        Hi(img, max_xid, desc_path, t, i))
              /\ Between(List, oid, Lo(img, max_xid, desc_path, t, i),
                         Hi(img, max_xid, desc_path, t, i))
<1>1. DescentInv /\ i \in Nat /\ tree_height \in Nat
  BY RootFacts DEF ListInv, TypeOK
<1>2. PICK t \in Trails(i) :
        /\ Trail(img, max_xid, desc_path, t, i)
        /\ node = t[i]
        /\ Between(List, oid, Lo(img, max_xid, desc_path, t, i), Hi(img, max_xid, desc_path, t, i))
  BY <1>1 DEF DescentInv, List
<1>3. Placed(img, max_xid, desc_path, t, i)
  BY <1>1, <1>2, ListingFacts, OnTheTrail, i \in 0 .. i
<1>4. Covers(img, max_xid, node, Lo(img, max_xid, desc_path, t, i), Hi(img, max_xid, desc_path, t, i))
  BY <1>2, <1>3 DEF Placed
<1>5. node \in TreeNodes(img, max_xid)
  BY <1>1, <1>2, i \in 0 .. i DEF Trails
<1>6. node \in Node /\ ~node.fixed /\ (~node.leaf => nkeys > 0)
  BY <1>5, ListingFacts, SoundNode DEF nkeys
<1> QED BY <1>1, <1>2, <1>4, <1>6 DEF DescentInv

(* Where the walk is in a sound tree.                                      *)
OnTheWalk(d, t, p) ==
  /\ Trail(img, max_xid, desc_path, t, d)
  /\ node = t[i]
  /\ At(img, max_xid, desc_path, t, d, p)
  /\ Collected(List, oid, records, p)

LEMMA WalkFacts ==
  ASSUME TypeOK, ListInv, Sound, pc = "walk"
  PROVE  /\ \E d \in i .. tree_height - 1 : \E t \in Trails(d) : \E p \in 0 .. Len(List) :
              OnTheWalk(d, t, p)
         /\ i \in Nat /\ i <= tree_height - 1
         /\ ~node.fixed
<1>1. i \in Nat /\ tree_height \in Nat
  BY RootFacts DEF TypeOK
<1>2. PICK d \in i .. tree_height - 1 : \E t \in Trails(d) : \E p \in 0 .. Len(List) :
         OnTheWalk(d, t, p)
  BY DEF ListInv, WalkInv, OnTheWalk, List
<1>3. PICK t \in Trails(d) : node = t[i]
  BY <1>2 DEF OnTheWalk
<1>4. node \in TreeNodes(img, max_xid)
  BY <1>1, <1>3 DEF Trails
<1> QED BY <1>1, <1>2, <1>4, ListingFacts, SoundNode

(* A node above the end of the trail is an inner one that is not used up.  *)
LEMMA AboveTheEnd ==
  ASSUME TypeOK, i \in Nat, NEW d \in Nat, i < d, NEW t, NEW p, OnTheWalk(d, t, p)
  PROVE  /\ Index \in Nat /\ Index < nkeys /\ ~node.leaf
         /\ Child(img, max_xid, node, Index, t[i + 1])
BY i \in 0 .. d - 1 DEF OnTheWalk, Trail, Index, nkeys

(* The walk sets out for a place up to which everything was collected.     *)
LEMMA SetsOut ==
  ASSUME TypeOK, ListInv, Sound, NEW path, StartWalkWith(path),
         NEW d \in 0 .. tree_height - 1, NEW t \in Trails(d), Trail(img, max_xid, path, t, d),
         NEW p \in 0 .. Len(List), At(img, max_xid, path, t, d, p),
         Collected(List, oid, records', p)
  PROVE  ListInv'
<1>1. /\ img' = img /\ max_xid' = max_xid /\ oid' = oid /\ tree_height' = tree_height
      /\ pc' = "walk" /\ i' = 0 /\ node' = vol_fs_root_node /\ desc_path' = path
  BY DEF StartWalkWith, arguments, tree_height, vol_fs_root_node
<1>2. t[0] = vol_fs_root_node
  BY DEF Trail, vol_fs_root_node
<1>3. WalkInv'
  BY <1>1, <1>2 DEF WalkInv, Trails, List
<1> QED BY <1>1, <1>3 DEF ListInv, CompleteListing

(* What is returned is the whole stretch of the listing, or nothing.       *)
LEMMA Returns ==
  ASSUME ListInv, img' = img, max_xid' = max_xid, oid' = oid, pc' = "returned",
         Sound => \/ /\ result' = NULL
                     /\ \A q \in DOMAIN List : List[q].oid # oid
                  \/ /\ result' # NULL
                     /\ Whole(List, oid, result')
  PROVE  ListInv'
<1>1. Sound' = Sound
  BY DEF Sound
<1>2. CompleteListing'
  BY <1>1 DEF CompleteListing, List
<1> QED BY <1>2 DEF ListInv

LEMMA ListStep ==
  ASSUME TypeOK, PathInv, ListInv, [Next]_vars
  PROVE  ListInv'
<1>0. /\ tree_height \in Nat \ {0} /\ tree_height - 1 = img.root[max_xid].level
      /\ nkeys \in Nat /\ DOMAIN node.toc = 1 .. nkeys /\ node.toc \in Seq(Record) /\ node \in Node
      /\ \A j \in 1 .. nkeys : node.toc[j].oid \in Nat
      /\ desc_path \in Path /\ DOMAIN desc_path = 0 .. tree_height - 1
      /\ records \in Seq(Record)
  BY RootFacts, NodeFacts DEF TypeOK, Path
<1>1. /\ img' = img /\ max_xid' = max_xid /\ oid' = oid /\ tree_height' = tree_height
      /\ vol_fs_root_node' = vol_fs_root_node /\ Sound' = Sound
  BY ArgumentsStay DEF Sound
<1>2. ASSUME pc' = "aborted" PROVE ListInv'
  BY <1>1, <1>2 DEF ListInv, CompleteListing
<1>3. ASSUME ~Sound PROVE ListInv'
  BY <1>1, <1>3 DEF ListInv
<1>4. CASE UNCHANGED vars
  BY <1>4 DEF vars, ListInv, Sound, CompleteListing, DescentInv, WalkInv, Trails, tree_height,
              vol_fs_root_node
<1> SUFFICES ASSUME Next, Sound, pc' # "aborted"
             PROVE  ListInv'
  BY <1>2, <1>3, <1>4
<1>5. /\ IsImage(img) /\ max_xid \in Xid /\ SoundAt(img, max_xid) /\ IsListing(img, max_xid)
      /\ List \in Seq(Record) /\ Len(List) \in Nat /\ DOMAIN List = 1 .. Len(List)
      /\ Ascending(List) /\ oid \in Nat
  BY ListingFacts
<1>6. CASE DescendNoRecord
  <2>1. PICK k \in 0 .. nkeys - 1 : Passed(k) /\ node.toc[k + 1].oid > oid /\ (node.leaf \/ k = 0)
    BY <1>6 DEF DescendNoRecord
  <2>2. /\ pc = "descent" /\ pc' = "returned" /\ result' = NULL
        /\ \A j \in 1 .. k : node.toc[j].oid < oid
    BY <1>6, <2>1 DEF DescendNoRecord, Descending, Return, Passed
  <2>3. PICK lo, hi : Covers(img, max_xid, node, lo, hi) /\ Between(List, oid, lo, hi)
    BY <2>2, DescentFacts
  <2>4. \A q \in DOMAIN List : List[q].oid # oid
    BY <1>0, <1>5, <2>1, <2>2, <2>3, NothingThere DEF List, nkeys
  <2> QED BY <1>1, <2>2, <2>4, Returns
<1>7. CASE DescendLeaf
  <2>1. PICK k \in 0 .. nkeys : /\ Passed(k)
                                /\ k < nkeys => node.toc[k + 1].oid = oid
                                /\ StartWalkWith([desc_path EXCEPT ![i] = k])
    BY <1>7 DEF DescendLeaf
  <2>2. /\ pc = "descent" /\ node.leaf /\ records' = records
        /\ \A j \in 1 .. k : node.toc[j].oid < oid
    BY <1>7, <2>1 DEF DescendLeaf, Descending, Passed
  <2>3. records = <<>> /\ i \in 0 .. tree_height - 1
    BY <1>0, <2>2, DescentFacts
  <2> DEFINE path == [desc_path EXCEPT ![i] = k]
  <2>4. PICK t \in Trails(i) :
          /\ Trail(img, max_xid, desc_path, t, i) /\ node = t[i]
          /\ Covers(img, max_xid, node, Lo(img, max_xid, desc_path, t, i),
                    Hi(img, max_xid, desc_path, t, i))
          /\ Between(List, oid, Lo(img, max_xid, desc_path, t, i),
                     Hi(img, max_xid, desc_path, t, i))
    BY <2>2, DescentFacts
  <2> DEFINE p == Lo(img, max_xid, desc_path, t, i) + k
  <2>5. path[i] = k /\ \A l \in 0 .. i - 1 : path[l] = desc_path[l]
    BY <1>0, <2>3 DEF Path
  <2>6. StartWalkWith(path)
    BY <2>1
  <2> HIDE DEF path
  <2>7. Collected(List, oid, <<>>, p)
    BY <1>0, <1>5, <2>1, <2>2, <2>4, CollectedByDescent DEF List, nkeys
  <2>8. p \in 0 .. Len(List)
    BY <2>7 DEF Collected
  <2>9. Trail(img, max_xid, path, t, i)
    BY <2>3, <2>4, <2>5 DEF Trail
  <2>10. Lo(img, max_xid, path, t, i) = Lo(img, max_xid, desc_path, t, i)
    BY <2>3, <2>5, i # 0 => i - 1 \in 0 .. i - 1 DEF Lo
  <2>11. At(img, max_xid, path, t, i, p)
    BY <2>1, <2>2, <2>4, <2>5, <2>10 DEF At, nkeys
  <2> HIDE DEF p
  <2> QED BY <2>2, <2>3, <2>6, <2>7, <2>8, <2>9, <2>11, SetsOut
<1>8. CASE DescendInner
  <2>1. PICK c \in 0 .. nkeys - 1 :
          /\ Chosen(c)
          /\ ReadChild(node.toc[c + 1].v)
          /\ desc_path' = [desc_path EXCEPT ![i] = c]
          /\ UNCHANGED <<arguments, pc, records, result>>
    BY <1>8 DEF DescendInner, CannotReadChild, Abort
  <2>2. pc = "descent" /\ pc' = "descent" /\ ~node.leaf /\ i' = i + 1
    BY <1>8, <2>1 DEF DescendInner, Descending, ReadChild
  <2>3. records = <<>> /\ i \in 0 .. tree_height - 1
    BY <1>0, <2>2, DescentFacts
  <2>4. PICK t \in Trails(i) :
          /\ Trail(img, max_xid, desc_path, t, i) /\ node = t[i]
          /\ Covers(img, max_xid, node, Lo(img, max_xid, desc_path, t, i),
                    Hi(img, max_xid, desc_path, t, i))
          /\ Between(List, oid, Lo(img, max_xid, desc_path, t, i),
                     Hi(img, max_xid, desc_path, t, i))
    BY <2>2, DescentFacts
  <2>5. Between(List, oid, Part(img, max_xid, node, c + 1).lo, Part(img, max_xid, node, c + 1).hi)
    <3>1. PICK k \in 0 .. nkeys : /\ Passed(k)
                                  /\ \/ k > 0 /\ c = k - 1
                                     \/ k = 0 /\ nkeys > 0 /\ node.toc[1].oid = oid /\ c = 0
      BY <2>1 DEF Chosen
    <3>2. /\ \A j \in 1 .. k : node.toc[j].oid < oid
          /\ k < nkeys => node.toc[k + 1].oid >= oid
      BY <3>1 DEF Passed
    <3> QED BY <1>0, <1>5, <2>2, <2>4, <3>1, <3>2, BetweenChild DEF List, nkeys
  <2>6. /\ desc_path'[i] = c /\ \A l \in 0 .. i - 1 : desc_path'[l] = desc_path[l]
    BY <1>0, <2>1, <2>3 DEF Path
  <2>7. Child(img, max_xid, node, c, node')
    BY <2>1, ReadsChild
  <2> DEFINE s == Longer(t, i, node')
  <2>8. /\ Trail(img, max_xid, desc_path', s, i + 1)
        /\ s[i + 1] = node' /\ s[i] = node
    <3>1. ASSUME NEW path, path = desc_path', NEW m, m = node'
          PROVE  LET u == Longer(t, i, m)
                 IN Trail(img, max_xid, path, u, i + 1) /\ u[i + 1] = m /\ u[i] = t[i]
      <4>1. Trail(img, max_xid, path, t, i)
        BY <2>3, <2>4, <2>6, <3>1 DEF Trail
      <4>2. Child(img, max_xid, t[i], path[i], m)
        BY <2>4, <2>6, <2>7, <3>1
      <4>3. path[i] \in Nat /\ path[i] < Len(t[i].toc) /\ ~t[i].leaf
        BY <1>0, <2>2, <2>4, <2>6, <3>1 DEF nkeys
      <4> QED BY <1>5, <2>3, <4>1, <4>2, <4>3, TrailExtended, i \in 0 .. i
    <3> QED BY <2>4, <3>1
  <2> HIDE DEF s
  <2>9. i + 1 <= tree_height - 1
    <3>1. Placed(img, max_xid, desc_path', s, i + 1)
      BY <1>5, <2>3, <2>8, OnTheTrail, i + 1 \in Nat, i + 1 \in 0 .. i + 1
    <3> QED BY <1>0, <3>1 DEF Placed
  <2>10. /\ Lo(img, max_xid, desc_path', s, i + 1) = Part(img, max_xid, node, c + 1).lo
         /\ Hi(img, max_xid, desc_path', s, i + 1) = Part(img, max_xid, node, c + 1).hi
    BY <2>3, <2>6, <2>8, (i + 1) - 1 = i, i + 1 # 0 DEF Lo, Hi
  <2>11. s \in Trails(i + 1)
    BY <2>8 DEF Trail, Trails
  <2>12. DescentInv'
    <3>1. records' = <<>> /\ i' < tree_height'
      BY <1>0, <1>1, <2>1, <2>2, <2>3, <2>9
    <3> QED BY <1>1, <2>2, <2>5, <2>8, <2>10, <2>11, <3>1 DEF DescentInv, Trails, List
  <2> QED BY <1>1, <2>2, <2>12 DEF ListInv, CompleteListing
<1>9. CASE WalkEnd
  <2>1. /\ pc = "walk" /\ pc' = "returned" /\ result' = records /\ node.root /\ Index >= nkeys
    BY <1>9 DEF WalkEnd, Walking, Return, UsedUp
  <2>2. i \in Nat /\ i <= tree_height - 1
    BY <2>1, WalkFacts
  <2>3. PICK d \in i .. tree_height - 1 : \E t \in Trails(d) : \E p \in 0 .. Len(List) :
           OnTheWalk(d, t, p)
    BY <2>1, WalkFacts
  <2>4. PICK t \in Trails(d), p \in 0 .. Len(List) : OnTheWalk(d, t, p)
    BY <2>3
  <2>5. d \in Nat /\ d = i
    BY <1>0, <2>1, <2>2, <2>4, AboveTheEnd
  <2>6. Placed(img, max_xid, desc_path, t, d)
    BY <1>5, <2>4, <2>5, OnTheTrail, d \in 0 .. d DEF OnTheWalk
  <2>7. d = 0
    BY <2>1, <2>4, <2>5, <2>6 DEF OnTheWalk, Placed
  <2>8. p = Hi(img, max_xid, desc_path, t, d)
    BY <1>5, <2>1, <2>4, <2>5, AtTheEnd DEF OnTheWalk, Index, nkeys
  <2>9. p = Len(List)
    BY <2>7, <2>8 DEF Hi, List
  <2>10. Whole(List, oid, records)
    BY <1>5, <2>4, <2>9, CollectedAll DEF OnTheWalk
  <2>11. result' # NULL
    BY <1>0, <2>1, NullAssumption
  <2> QED BY <1>1, <2>1, <2>10, <2>11, Returns
<1>10. CASE WalkNextNode
  <2> DEFINE path == [l \in DOMAIN desc_path |->
               IF l = i - 1 THEN desc_path[l] + 1 ELSE IF l >= i THEN 0 ELSE desc_path[l]]
  <2>1. /\ pc = "walk" /\ ~node.root /\ Index >= nkeys /\ StartWalkWith(path) /\ records' = records
    BY <1>10 DEF WalkNextNode, Walking, UsedUp
  <2>2. i \in Nat /\ i <= tree_height - 1
    BY <2>1, WalkFacts
  <2>3. PICK d \in i .. tree_height - 1 : \E t \in Trails(d) : \E p \in 0 .. Len(List) :
           OnTheWalk(d, t, p)
    BY <2>1, WalkFacts
  <2>4. PICK t \in Trails(d), p \in 0 .. Len(List) : OnTheWalk(d, t, p)
    BY <2>3
  <2>5. d \in Nat /\ d = i
    BY <1>0, <2>1, <2>2, <2>4, AboveTheEnd
  <2>6. Placed(img, max_xid, desc_path, t, d)
    BY <1>5, <2>4, <2>5, OnTheTrail, d \in 0 .. d DEF OnTheWalk
  <2>7. d \in Nat \ {0} /\ d - 1 \in 0 .. tree_height - 1
    BY <1>0, <2>1, <2>2, <2>4, <2>5, <2>6 DEF OnTheWalk, Placed
  <2>8. /\ path[d - 1] = desc_path[d - 1] + 1
        /\ \A l \in 0 .. d - 2 : path[l] = desc_path[l]
        /\ \A l \in d .. img.root[max_xid].level : path[l] = 0
    BY <1>0, <2>2, <2>5, <2>7
  <2> HIDE DEF path
  <2>9. PICK s \in Trails(d - 1) : /\ Trail(img, max_xid, path, s, d - 1)
                                   /\ At(img, max_xid, path, s, d - 1, p)
    BY <1>5, <2>1, <2>4, <2>5, <2>7, <2>8, MoveOn DEF OnTheWalk, Index, nkeys, Trails
  <2>10. Collected(List, oid, records', p)
    BY <2>1, <2>4 DEF OnTheWalk
  <2> QED BY <2>1, <2>7, <2>9, <2>10, SetsOut
<1>11. CASE WalkLeaf
  <2>1. pc = "walk" /\ node.leaf
    BY <1>11 DEF WalkLeaf, Walking
  <2>2. i \in Nat /\ i <= tree_height - 1
    BY <2>1, WalkFacts
  <2>3. PICK d \in i .. tree_height - 1 : \E t \in Trails(d) : \E p \in 0 .. Len(List) :
           OnTheWalk(d, t, p)
    BY <2>1, WalkFacts
  <2>4. PICK t \in Trails(d), p \in 0 .. Len(List) : OnTheWalk(d, t, p)
    BY <2>3
  <2>5. d \in Nat /\ d = i
    BY <1>0, <2>1, <2>2, <2>4, AboveTheEnd
  <2> DEFINE lo == Lo(img, max_xid, desc_path, t, d)
             hi == Hi(img, max_xid, desc_path, t, d)
  <2>6. /\ lo \in 0 .. Len(List) /\ hi \in lo .. Len(List) /\ hi - lo = nkeys
        /\ \A j \in 1 .. nkeys : node.toc[j] = List[lo + j]
    <3>1. Placed(img, max_xid, desc_path, t, d)
      BY <1>5, <2>4, <2>5, OnTheTrail, d \in 0 .. d DEF OnTheWalk
    <3>2. Covers(img, max_xid, node, lo, hi)
      BY <2>4, <2>5, <3>1 DEF OnTheWalk, Placed
    <3> QED BY <1>0, <2>1, <3>2 DEF Covers, List, nkeys
  <2> HIDE DEF lo, hi
  <2>7. Index \in Nat /\ Index < nkeys /\ p = lo + Index
    <3>1. /\ Index \in Nat /\ p = lo + Index
      BY <2>1, <2>4, <2>5 DEF OnTheWalk, At, Index, lo
    <3> QED BY <1>0, <1>11, <3>1 DEF WalkLeaf, UsedUp
  <2>8. PICK len \in 0 .. nkeys - Index :
          /\ Run(len)
          /\ records' = records \o SubSeq(node.toc, Index + 1, Index + len)
          /\ IF Index + len < nkeys
               THEN pc' = "returned" /\ result' = records'
               ELSE StartWalkWith([desc_path EXCEPT ![i] = nkeys])
    BY <1>11 DEF WalkLeaf
  <2>9. len \in Nat /\ Index + len <= nkeys /\ p + len <= Len(List) /\ p + len \in Nat
    BY <1>0, <1>5, <2>6, <2>7
  <2>10. SubSeq(node.toc, Index + 1, Index + len) = SubSeq(List, p + 1, p + len)
    <3>1. lo \in Nat /\ lo + Len(node.toc) <= Len(List)
      BY <1>0, <1>5, <2>6 DEF nkeys
    <3>2. SubSeq(node.toc, Index + 1, Index + len) = SubSeq(List, lo + Index + 1, lo + Index + len)
      BY <1>0, <1>5, <2>6, <2>7, <2>9, <3>1, LeafEntries DEF nkeys
    <3> QED BY <2>7, <3>2
  <2>11. \A q \in p + 1 .. p + len : List[q].oid = oid
    <3> SUFFICES ASSUME NEW q \in p + 1 .. p + len
                 PROVE  List[q].oid = oid
      OBVIOUS
    <3>1. /\ q - lo \in Index + 1 .. Index + len /\ q - lo \in 1 .. nkeys /\ lo + (q - lo) = q
      BY <1>0, <1>5, <2>6, <2>7, <2>9
    <3> QED BY <2>6, <2>8, <3>1 DEF Run
  <2>12. Collected(List, oid, records', p + len)
    BY <1>5, <2>4, <2>8, <2>9, <2>10, <2>11, CollectMore DEF OnTheWalk
  <2>13. CASE Index + len < nkeys
    <3>1. List[(p + len) + 1].oid # oid
      <4>1. /\ Index + len + 1 \in 1 .. nkeys /\ lo + (Index + len + 1) = (p + len) + 1
        BY <1>0, <1>5, <2>6, <2>7, <2>9, <2>13
      <4>2. List[(p + len) + 1] = node.toc[Index + len + 1]
        BY <2>6, <4>1
      <4> QED BY <2>8, <2>13, <4>2 DEF Run
    <3>2. Whole(List, oid, records')
      BY <1>5, <2>12, <3>1, CollectedAll
    <3>3. records' # NULL
      <4>1. records' \in Seq(Record)
        BY TypeStep DEF TypeOK
      <4> QED BY <4>1, NullAssumption
    <3> QED BY <1>1, <2>8, <2>13, <3>2, <3>3, Returns
  <2>14. CASE ~(Index + len < nkeys)
    <3> DEFINE path == [desc_path EXCEPT ![i] = nkeys]
    <3>1. path[d] = nkeys /\ \A l \in 0 .. d - 1 : path[l] = desc_path[l]
      BY <1>0, <2>2, <2>5 DEF Path
    <3>2. StartWalkWith(path)
      BY <2>8, <2>14
    <3> HIDE DEF path
    <3>3. Trail(img, max_xid, path, t, d)
      BY <2>4, <3>1 DEF OnTheWalk, Trail
    <3>4. Lo(img, max_xid, path, t, d) = lo
      BY <2>5, <3>1, d # 0 => d - 1 \in 0 .. d - 1 DEF Lo, lo
    <3>5. p + len = lo + nkeys
      BY <1>0, <1>5, <2>6, <2>7, <2>9, <2>14
    <3>6. At(img, max_xid, path, t, d, p + len)
      BY <1>0, <2>1, <2>4, <2>5, <3>1, <3>4, <3>5 DEF At, OnTheWalk, nkeys
    <3>7. d \in 0 .. tree_height - 1 /\ p + len \in 0 .. Len(List)
      BY <1>5, <2>2, <2>5, <2>9
    <3> QED BY <2>12, <3>2, <3>3, <3>6, <3>7, SetsOut
  <2> QED BY <2>13, <2>14
<1>12. CASE WalkInner
  <2>1. /\ pc = "walk" /\ pc' = "walk" /\ ~node.leaf /\ ~(Index >= nkeys) /\ i' = i + 1
        /\ ReadChild(node.toc[Index + 1].v) /\ UNCHANGED <<desc_path, records>>
    BY <1>12 DEF WalkInner, Walking, UsedUp, CannotReadChild, Abort, ReadChild
  <2>2. i \in Nat /\ i <= tree_height - 1
    BY <2>1, WalkFacts
  <2>3. PICK d \in i .. tree_height - 1 : \E t \in Trails(d) : \E p \in 0 .. Len(List) :
           OnTheWalk(d, t, p)
    BY <2>1, WalkFacts
  <2>4. PICK t \in Trails(d), p \in 0 .. Len(List) : OnTheWalk(d, t, p)
    BY <2>3
  <2>5. Child(img, max_xid, node, Index, node')
    BY <2>1, ReadsChild
  <2>6. CASE i < d
    <3>1. node' = t[i + 1]
      BY <1>5, <2>2, <2>3, <2>4, <2>5, <2>6, AboveTheEnd, OneChild
    <3>2. WalkInv'
      <4>1. d \in i' .. tree_height' - 1
        BY <1>1, <2>1, <2>2, <2>6
      <4> QED BY <1>1, <2>1, <2>4, <3>1, <4>1 DEF WalkInv, Trails, OnTheWalk, List
    <3> QED BY <1>1, <2>1, <3>2 DEF ListInv, CompleteListing
  <2>7. CASE i = d
    <3>1. /\ d \in Nat /\ ~t[d].leaf /\ desc_path[d] < Len(t[d].toc)
          /\ Child(img, max_xid, t[d], desc_path[d], node')
      BY <1>0, <2>1, <2>2, <2>4, <2>5, <2>7 DEF OnTheWalk, At, Index, nkeys
    <3>2. ASSUME NEW m, m = node'
          PROVE  /\ d + 1 <= img.root[max_xid].level
                 /\ LET s == Longer(t, d, m)
                    IN /\ Trail(img, max_xid, desc_path, s, d + 1)
                       /\ s[d + 1] = m
                       /\ At(img, max_xid, desc_path, s, d + 1, p)
      <4>1. /\ Trail(img, max_xid, desc_path, t, d) /\ At(img, max_xid, desc_path, t, d, p)
            /\ Child(img, max_xid, t[d], desc_path[d], m)
        BY <2>4, <3>1, <3>2 DEF OnTheWalk
      <4> QED BY <1>5, <3>1, <4>1, GoDown
    <3> DEFINE s == Longer(t, d, node')
    <3>3. /\ Trail(img, max_xid, desc_path, s, d + 1) /\ s \in Trails(d + 1)
          /\ s[d + 1] = node'
          /\ At(img, max_xid, desc_path, s, d + 1, p)
      BY <3>2 DEF Trails, Trail
    <3> HIDE DEF s
    <3>4. d + 1 \in i' .. tree_height' - 1 /\ i' = d + 1
      BY <1>0, <1>1, <2>1, <2>7, <3>1, <3>2
    <3>5. WalkInv'
      BY <1>1, <2>1, <2>4, <3>3, <3>4 DEF WalkInv, Trails, OnTheWalk, List
    <3> QED BY <1>1, <2>1, <3>5 DEF ListInv, CompleteListing
  <2> QED BY <2>2, <2>6, <2>7
<1>13. ~(DescendFixedSize \/ DescendEmptyInner \/ DescentEnds)
  <2>1. CASE pc = "descent"
    BY <1>0, <2>1, DescentFacts
    DEF DescendFixedSize, DescendEmptyInner, DescentEnds
  <2> QED BY <2>1 DEF DescendFixedSize, DescendEmptyInner, DescentEnds, Descending
<1>14. ~(WalkFixedSize \/ WalkFallsThrough)
  <2>1. CASE pc = "walk"
    BY <1>0, <2>1, WalkFacts DEF WalkFixedSize, WalkFallsThrough
  <2> QED BY <2>1 DEF WalkFixedSize, WalkFallsThrough, Walking
<1> QED BY <1>6, <1>7, <1>8, <1>9, <1>10, <1>11, <1>12, <1>13, <1>14 DEF Next

LEMMA ListStart ==
  Init => ListInv
<1> SUFFICES ASSUME Init PROVE ListInv
  OBVIOUS
<1>1. /\ TypeOK /\ img \in Images /\ pc = "descent" /\ i = 0 /\ node = vol_fs_root_node
      /\ records = <<>>
  BY Start DEF Init
<1>2. tree_height \in Nat \ {0} /\ vol_fs_root_node \in TreeNodes(img, max_xid)
  BY <1>1, RootFacts
<1> DEFINE t == [l \in 0 .. 0 |-> vol_fs_root_node]
<1>3. t \in Trails(0) /\ t[0] = vol_fs_root_node
  BY <1>2 DEF Trails
<1>4. Trail(img, max_xid, desc_path, t, 0)
  BY <1>3 DEF Trail, Trails, vol_fs_root_node
<1> HIDE DEF t
<1>5. img.listing[max_xid] \in Seq(Record)
  BY <1>1 DEF TypeOK, IsImage
<1>6. Between(img.listing[max_xid], oid, 0, Len(img.listing[max_xid]))
  BY <1>5, ListFacts DEF Between
<1>7. DescentInv
  BY <1>1, <1>2, <1>3, <1>4, <1>6 DEF DescentInv, Lo, Hi
<1> QED BY <1>1, <1>7 DEF ListInv, CompleteListing

(* CompleteListing: in a sound tree, what is returned is the whole stretch *)
(* of the records of the object, wherever the leaves begin and end and     *)
(* whatever versions of the nodes there are besides.                       *)
THEOREM ListingIsComplete == Spec => []CompleteListing
<1>1. TypeOK /\ PathInv /\ ListInv /\ [Next]_vars => ListInv'
  BY ListStep
<1>2. ListInv => CompleteListing
  BY DEF ListInv, CompleteListing
<1> QED BY <1>1, <1>2, ListStart, PathHolds, PTL DEF Spec

=============================================================================
