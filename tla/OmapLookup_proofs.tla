-------------------------- MODULE OmapLookup_proofs --------------------------
(***************************************************************************)
(* The object map lookup returns what its comment promises, for every set  *)
(* of images, OIDs and XIDs.                                               *)
(***************************************************************************)
EXTENDS OmapLookup, TLAPS

(* Every state of a lookup, on any image, is well typed.                   *)
THEOREM TypeCorrect == Spec => []TypeOK
<1>1. Init => TypeOK
  BY ImageAssumption DEF Init, TypeOK, IsImage
<1>2. TypeOK /\ [Next]_vars => TypeOK'
  <2> SUFFICES ASSUME TypeOK, [Next]_vars
               PROVE  TypeOK'
    OBVIOUS
  <2> USE DEF TypeOK, Return, Abort
  <2>0. node \in Node
    BY DEF IsImage, node
  <2>1. \A i \in 1 .. Len(node.toc) : node.toc[i] \in Entry
    BY <2>0 DEF Node
  <2>2. CASE VariableSizeNode
    BY <2>2 DEF VariableSizeNode
  <2>3. CASE NothingBefore
    BY <2>3 DEF NothingBefore
  <2>4. CASE EmptyNode
    BY <2>4 DEF EmptyNode
  <2>5. CASE LeafMiss
    BY <2>5 DEF LeafMiss
  <2>6. CASE LeafMatch
    BY <2>1, <2>6 DEF LeafMatch
  <2>7. CASE ReadChild
    BY <2>7 DEF ReadChild
  <2>8. CASE ChildUnreadable
    BY <2>8 DEF ChildUnreadable
  <2>9. CASE UNCHANGED vars
    BY <2>9 DEF vars
  <2> QED
    BY <2>2, <2>3, <2>4, <2>5, <2>6, <2>7, <2>8, <2>9 DEF Next
<1> QED
  BY <1>1, <1>2, PTL DEF Spec

-----------------------------------------------------------------------------
(* The inductive invariant.                                                *)

(* The key the lookup looks for.                                           *)
Target == [oid |-> oid, xid |-> max_xid]

(* Why the lookup is right: the entry to be returned, if there is one,     *)
(* lies below the node in memory.  That node is part of the tree, and any  *)
(* entry up to the target that does not lie below it is superseded by one  *)
(* that does.                                                              *)
AnswerBelowBlock ==
  WellFormed(img) =>
    /\ img.entries[block] \subseteq img.entries[img.root]
    /\ \A e \in img.entries[img.root] :
         ~Precedes(Target, e) /\ e \notin img.entries[block] =>
           \E f \in img.entries[block] : Precedes(e, f) /\ ~Precedes(Target, f)

-----------------------------------------------------------------------------
(* Keys are ordered totally.                                               *)
IsKey(k) == k.oid \in Nat /\ k.xid \in Nat

LEMMA KeysAreOrdered ==
  ASSUME NEW a, NEW b, NEW c, IsKey(a), IsKey(b), IsKey(c)
  PROVE  /\ Precedes(a, b) /\ Precedes(b, c) => Precedes(a, c)
         /\ Precedes(a, b) /\ ~Precedes(c, b) => Precedes(a, c)
BY DEF IsKey, Precedes

LEMMA EntriesAreKeys ==
  /\ \A e \in Entry : IsKey(e)
  /\ TypeOK => IsKey(Target)
BY DomainAssumption DEF IsKey, Entry, Target, TypeOK

(* The scan of a node of a well-formed tree (btree.c:82-109).              *)

(* The entries up to the place where the scan stopped are not beyond the   *)
(* target; all the later ones are.                                         *)
LEMMA ScanSplits ==
  ASSUME TypeOK, WellFormed(img),
         NEW i \in 0 .. Len(node.toc), Scanned(i)
  PROVE  \A j \in DOMAIN node.toc :
           /\ node.toc[j] \in Entry
           /\ j <= i => ~Precedes(Target, node.toc[j])
           /\ i < j => Precedes(Target, node.toc[j])
<1>0. node \in Node /\ WellFormedNode(img, block)
  BY DEF TypeOK, IsImage, node, WellFormed
<1>1. ASSUME NEW j \in DOMAIN node.toc
      PROVE  j \in 1 .. Len(node.toc) /\ node.toc[j] \in Entry
  BY <1>0, <1>1 DEF Node
<1>2. ASSUME NEW j \in DOMAIN node.toc
      PROVE  Beyond(node.toc[j]) <=> Precedes(Target, node.toc[j])
  BY <1>1, DomainAssumption DEF Beyond, Precedes, Target, Entry, TypeOK
<1>3. ASSUME NEW j \in DOMAIN node.toc, j <= i
      PROVE  ~Precedes(Target, node.toc[j])
  BY <1>1, <1>2, <1>3 DEF Scanned
<1>4. ASSUME NEW j \in DOMAIN node.toc, i < j
      PROVE  Precedes(Target, node.toc[j])
  <2>1. i + 1 \in DOMAIN node.toc /\ Len(node.toc) \in Nat
    BY <1>0, <1>1, <1>4 DEF Node
  <2>2. Precedes(Target, node.toc[i + 1])
    BY <1>1, <1>2, <1>4, <2>1 DEF Scanned
  <2>3. CASE j = i + 1
    BY <2>2, <2>3
  <2>4. CASE i + 1 < j
    <3>1. Precedes(node.toc[i + 1], node.toc[j])
      BY <1>0, <1>4, <2>1, <2>4 DEF WellFormedNode, node
    <3> QED
      BY <1>1, <2>1, <2>2, <3>1, EntriesAreKeys, KeysAreOrdered
  <2> QED
    BY <1>1, <1>4, <2>3, <2>4
<1> QED
  BY <1>1, <1>3, <1>4

(* If the scan stops at the i-th entry of an inner node, the answer lies   *)
(* below that entry.                                                       *)
LEMMA AnswerBelowChild ==
  ASSUME TypeOK, WellFormed(img), ~node.leaf,
         NEW i \in 1 .. Len(node.toc), Scanned(i),
         NEW e \in img.entries[block], ~Precedes(Target, e),
         e \notin img.entries[node.toc[i].v]
  PROVE  \E f \in img.entries[node.toc[i].v] : Precedes(e, f) /\ ~Precedes(Target, f)
<1>0. node \in Node /\ WellFormedNode(img, block) /\ i \in DOMAIN node.toc
  BY DEF TypeOK, IsImage, node, WellFormed, Node
<1>1. e \in Entry
  BY DEF TypeOK, IsImage
<1>2. PICK f \in img.entries[node.toc[i].v] : f.oid = node.toc[i].oid /\ f.xid = node.toc[i].xid
  BY <1>0 DEF WellFormedNode, node
<1>3. ~Precedes(Target, f)
  BY <1>0, <1>2, ScanSplits DEF Precedes
<1>4. PICK j \in DOMAIN node.toc : e \in img.entries[node.toc[j].v]
  BY <1>0 DEF WellFormedNode, node
<1>5. j # i
  BY <1>4
<1>6. CASE j < i
  <2>1. Precedes(e, node.toc[i])
    BY <1>0, <1>4, <1>6 DEF WellFormedNode, node
  <2> QED
    BY <1>2, <1>3, <2>1 DEF Precedes
<1>7. CASE i < j
  <2>1. Precedes(Target, node.toc[j]) /\ node.toc[j] \in Entry
    BY <1>0, <1>4, <1>7, ScanSplits
  <2>2. ~Precedes(e, node.toc[j])
    BY <1>0, <1>4 DEF WellFormedNode, node
  <2>3. FALSE
    BY <1>1, <2>1, <2>2, EntriesAreKeys, KeysAreOrdered
  <2> QED
    BY <2>3
<1> QED
  BY <1>0, <1>4, <1>5, <1>6, <1>7 DEF Node

-----------------------------------------------------------------------------
(* The descent of a well-formed tree never leaves the answer behind: it    *)
(* lies below the node in memory until the function returns.               *)
THEOREM AnswerStaysBelow == Spec => []AnswerBelowBlock
<1>1. Init => AnswerBelowBlock
  BY DEF Init, AnswerBelowBlock
<1>2. TypeOK /\ AnswerBelowBlock /\ [Next]_vars => AnswerBelowBlock'
  <2> SUFFICES ASSUME TypeOK, AnswerBelowBlock, [Next]_vars, WellFormed(img)'
               PROVE  AnswerBelowBlock'
    BY DEF AnswerBelowBlock
  <2>1. UNCHANGED <<img, oid, max_xid>>
    BY DEF Next, VariableSizeNode, NothingBefore, EmptyNode, LeafMiss, LeafMatch, ReadChild,
           ChildUnreadable, Return, Abort, vars
  <2>2. WellFormed(img) /\ node.toc # <<>>
    <3>1. WellFormed(img)
      BY <2>1
    <3>2. block \in DOMAIN img.disk
      BY DEF TypeOK
    <3>3. WellFormedNode(img, block)
      BY <3>1, <3>2 DEF WellFormed
    <3> QED
      BY <3>1, <3>3 DEF WellFormedNode, node
  <2>3. CASE ReadChild
    <3>1. PICK i \in 1 .. Len(node.toc) : Scanned(i) /\ block' = node.toc[i].v
      BY <2>3 DEF ReadChild
    <3>0. img.entries[block'] \subseteq img.entries[img.root]
      <4>1. WellFormedNode(img, block) /\ node \in Node
        BY <2>2 DEF WellFormed, TypeOK, IsImage, node
      <4>2. img.entries[block'] \subseteq img.entries[block]
        <5>1. ~node.leaf /\ i \in DOMAIN node.toc
          BY <2>3, <4>1 DEF ReadChild, Node
        <5> QED
          BY <3>1, <4>1, <5>1 DEF WellFormedNode, node
      <4> QED
        BY <2>2, <4>2 DEF AnswerBelowBlock
    <3>2. SUFFICES ASSUME NEW e \in img.entries[img.root], ~Precedes(Target, e),
                          e \notin img.entries[block']
                   PROVE  \E f \in img.entries[block'] : Precedes(e, f) /\ ~Precedes(Target, f)
      BY <2>1, <3>0 DEF AnswerBelowBlock, Target
    <3>3. ~node.leaf
      BY <2>3 DEF ReadChild
    <3>4. CASE e \in img.entries[block]
      BY <2>2, <3>1, <3>2, <3>3, <3>4, AnswerBelowChild
    <3>5. CASE e \notin img.entries[block]
      <4>1. PICK f \in img.entries[block] : Precedes(e, f) /\ ~Precedes(Target, f)
        BY <2>2, <3>2, <3>5 DEF AnswerBelowBlock
      <4>2. CASE f \in img.entries[block']
        BY <4>1, <4>2
      <4>3. CASE f \notin img.entries[block']
        <5>1. PICK g \in img.entries[block'] : Precedes(f, g) /\ ~Precedes(Target, g)
          BY <2>2, <3>1, <3>3, <4>1, <4>3, AnswerBelowChild
        <5>2. Precedes(e, g)
          <6>1. \A a \in Addr : img.entries[a] \subseteq Entry
            BY DEF TypeOK, IsImage
          <6>2. block \in Addr /\ block' \in Addr /\ img.root \in Addr
            BY <2>3, <3>1 DEF TypeOK, IsImage, ReadChild
          <6> QED
            BY <3>2, <4>1, <5>1, <6>1, <6>2, EntriesAreKeys, KeysAreOrdered
        <5> QED
          BY <5>1, <5>2
      <4> QED
        BY <4>2, <4>3
    <3> QED
      BY <3>4, <3>5
  <2>4. CASE UNCHANGED block
    BY <2>1, <2>2, <2>4 DEF AnswerBelowBlock, Target
  <2> QED
    BY <2>2, <2>3, <2>4 DEF Next, VariableSizeNode, NothingBefore, EmptyNode, LeafMiss, LeafMatch,
                            ChildUnreadable, Return, Abort, vars
<1> QED
  BY <1>1, <1>2, TypeCorrect, PTL DEF Spec

(* A block of a well-formed tree is not read twice: the level goes down.   *)
THEOREM DescentIsStrict == Spec => Descends
<1>1. TypeOK /\ [Next]_vars =>
        [WellFormed(img) /\ block' # block => img.level[block'] < img.level[block]]_vars
  <2> SUFFICES ASSUME TypeOK, Next, WellFormed(img), block' # block
               PROVE  img.level[block'] < img.level[block]
    OBVIOUS
  <2>1. node \in Node /\ WellFormedNode(img, block)
    BY DEF TypeOK, IsImage, WellFormed, node
  <2>2. ReadChild
    <3>1. ~EmptyNode
      BY <2>1 DEF EmptyNode, WellFormedNode, node
    <3>2. VariableSizeNode \/ NothingBefore \/ LeafMiss \/ LeafMatch \/ ChildUnreadable
            => block' = block
      BY DEF VariableSizeNode, NothingBefore, LeafMiss, LeafMatch, ChildUnreadable, Return, Abort
    <3> QED
      BY <3>1, <3>2 DEF Next
  <2>3. PICK i \in 1 .. Len(node.toc) : block' = node.toc[i].v
    BY <2>2 DEF ReadChild
  <2>4. ~node.leaf /\ i \in DOMAIN node.toc
    BY <2>1, <2>2 DEF ReadChild, Node
  <2>5. \A j \in DOMAIN node.toc : img.level[node.toc[j].v] < img.level[block]
    BY <2>1, <2>4 DEF WellFormedNode, node
  <2> QED
    BY <2>3, <2>4, <2>5
<1> QED
  BY <1>1, TypeCorrect, PTL DEF Spec, Descends

-----------------------------------------------------------------------------
(* The answers, at a leaf.                                                 *)

(* Everything that may be returned precedes the target or equals it.       *)
LEMMA VisibleNotBeyond ==
  ASSUME NEW e \in Entry, TypeOK, e.oid = oid, e.xid <= max_xid
  PROVE  ~Precedes(Target, e)
<1>1. IsKey(e) /\ Target.oid = oid /\ Target.xid = max_xid /\ max_xid \in Nat
  BY EntriesAreKeys DEF Target, IsKey
<1> QED
  BY <1>1 DEF IsKey, Precedes

(* No entry up to the target: NULL is the right answer.                    *)
LEMMA NullAtFirstEntry ==
  ASSUME TypeOK, WellFormed(img), AnswerBelowBlock, Scanned(0)
  PROVE  Contract!IsAnswer(img.entries[img.root], oid, max_xid, NULL)
<1> DEFINE E == img.entries[img.root]
<1>0. node \in Node /\ WellFormedNode(img, block) /\ node.toc # <<>> /\ block \in Addr
  BY DEF TypeOK, IsImage, node, WellFormed, WellFormedNode
<1>1. \A j \in DOMAIN node.toc : Precedes(Target, node.toc[j]) /\ node.toc[j] \in Entry
  BY <1>0, ScanSplits DEF Node
<1>2. \A e \in img.entries[block] : Precedes(Target, e)
  <2> SUFFICES ASSUME NEW e \in img.entries[block]
               PROVE  Precedes(Target, e)
    OBVIOUS
  <2>1. CASE node.leaf
    BY <1>0, <1>1, <2>1 DEF WellFormedNode, node
  <2>2. CASE ~node.leaf
    <3>1. PICK j \in DOMAIN node.toc : e \in img.entries[node.toc[j].v]
      BY <1>0, <2>2 DEF WellFormedNode, node
    <3>2. ~Precedes(e, node.toc[j])
      BY <1>0, <2>2, <3>1 DEF WellFormedNode, node
    <3>3. e \in Entry
      BY <1>0 DEF TypeOK, IsImage
    <3> QED
      BY <1>1, <3>2, <3>3, EntriesAreKeys, KeysAreOrdered
  <2> QED
    BY <2>1, <2>2
<1>3. \A e \in E : Precedes(Target, e)
  BY <1>2 DEF AnswerBelowBlock
<1>4. E \subseteq Entry
  BY DEF TypeOK, IsImage
<1> QED
  BY <1>3, <1>4, VisibleNotBeyond DEF Contract!IsAnswer, Contract!Visible

(* At a leaf, the entry where the scan stopped is the greatest one of the  *)
(* whole tree that is not beyond the target.                               *)
LEMMA LeafEntryIsGreatest ==
  ASSUME TypeOK, WellFormed(img), AnswerBelowBlock, node.leaf,
         NEW i \in 1 .. Len(node.toc), Scanned(i)
  PROVE  /\ node.toc[i] \in Entry
         /\ ~Precedes(Target, node.toc[i])
         /\ \A e \in img.entries[img.root] :
              ~Precedes(Target, e) => e = node.toc[i] \/ Precedes(e, node.toc[i])
<1>0. node \in Node /\ WellFormedNode(img, block) /\ i \in DOMAIN node.toc
  BY DEF TypeOK, IsImage, node, WellFormed, Node
<1>1. \A a \in Addr : img.entries[a] \subseteq Entry
  BY DEF TypeOK, IsImage
<1>2. block \in Addr /\ img.root \in Addr
  BY DEF TypeOK, IsImage
<1>3. ASSUME NEW f \in img.entries[block], ~Precedes(Target, f)
      PROVE  f = node.toc[i] \/ Precedes(f, node.toc[i])
  <2>1. PICK j \in DOMAIN node.toc : f = node.toc[j]
    BY <1>0 DEF WellFormedNode, node
  <2>2. j <= i /\ j \in Int /\ i \in Int
    BY <1>0, <1>3, <2>1, ScanSplits DEF Node
  <2>3. CASE j = i
    BY <2>1, <2>3
  <2>4. CASE j < i
    BY <1>0, <2>1, <2>4 DEF WellFormedNode, node
  <2> QED
    BY <2>2, <2>3, <2>4
<1>4. node.toc[i] \in Entry /\ ~Precedes(Target, node.toc[i])
  BY <1>0, ScanSplits
<1>5. ASSUME NEW e \in img.entries[img.root], ~Precedes(Target, e)
      PROVE  e = node.toc[i] \/ Precedes(e, node.toc[i])
  <2>1. CASE e \in img.entries[block]
    BY <1>3, <1>5, <2>1
  <2>2. CASE e \notin img.entries[block]
    <3>1. PICK f \in img.entries[block] : Precedes(e, f) /\ ~Precedes(Target, f)
      BY <1>5, <2>2 DEF AnswerBelowBlock
    <3>2. f = node.toc[i] \/ Precedes(f, node.toc[i])
      BY <1>3, <3>1
    <3> QED
      BY <1>1, <1>2, <1>4, <3>1, <3>2, EntriesAreKeys, KeysAreOrdered
  <2> QED
    BY <2>1, <2>2
<1> QED
  BY <1>4, <1>5

-----------------------------------------------------------------------------
(* A step in a tree that is not a B-tree: only a version of the requested  *)
(* object within the bound is ever returned (the checks at btree.c:118).   *)
LEMMA DamagedStep ==
  ASSUME ~WellFormed(img), [Next]_vars
  PROVE  [Contract!Next]_Contract!vars
<1> USE DEF Return, Abort, Contract!vars, Contract!Next
<1>1. CASE VariableSizeNode
  BY <1>1 DEF VariableSizeNode, Contract!Answer
<1>2. CASE NothingBefore
  BY <1>2 DEF NothingBefore, Contract!Answer
<1>3. CASE EmptyNode
  <2>1. CASE Return(NULL)
    BY <1>3, <2>1 DEF EmptyNode, Contract!Answer
  <2>2. ASSUME NEW e \in Entry, e.oid = oid, e.xid <= max_xid, Return(e)
        PROVE  Contract!Answer
    BY <1>3, <2>2 DEF EmptyNode, Contract!Answer
  <2>3. CASE UNCHANGED <<img, oid, max_xid, status, result>>
    BY <2>3
  <2>4. CASE Abort
    BY <1>3, <2>4 DEF EmptyNode, Contract!Exit
  <2> QED
    BY <1>3, <2>1, <2>2, <2>3, <2>4 DEF EmptyNode
<1>4. CASE LeafMiss
  BY <1>4 DEF LeafMiss, Contract!Answer
<1>5. CASE LeafMatch
  BY <1>5 DEF LeafMatch, Contract!Answer
<1>6. CASE ReadChild
  BY <1>6 DEF ReadChild
<1>7. CASE ChildUnreadable
  BY <1>7 DEF ChildUnreadable, Contract!Exit
<1>8. CASE UNCHANGED vars
  BY <1>8 DEF vars
<1> QED
  BY <1>1, <1>2, <1>3, <1>4, <1>5, <1>6, <1>7, <1>8 DEF Next

(* On every image the lookup implements its contract: the right answer     *)
(* from a B-tree, no exit unless a block is lost, and never an entry of    *)
(* another object or beyond the bound.                                     *)
THEOREM Implements == Spec => RefinesContract
<1>1. Init => Contract!Init
  BY DEF Init, Contract!Init
<1>2. WellFormed(img) /\ TypeOK /\ AnswerBelowBlock /\ [Next]_vars => [Contract!Next]_Contract!vars
  <2> SUFFICES ASSUME WellFormed(img), TypeOK, AnswerBelowBlock, [Next]_vars
               PROVE  [Contract!Next]_Contract!vars
    OBVIOUS
  <2> USE DEF Return, Abort, Contract!vars
  <2>0. node \in Node /\ WellFormedNode(img, block)
    BY DEF TypeOK, IsImage, node, WellFormed
  <2>1. node.fixed /\ node.toc # <<>>
    BY <2>0 DEF WellFormedNode, node
  <2>2. ~VariableSizeNode /\ ~EmptyNode
    BY <2>1 DEF VariableSizeNode, EmptyNode
  <2>3. CASE NothingBefore
    BY <2>3, NullAtFirstEntry DEF NothingBefore, Contract!Next, Contract!Answer
  <2>4. CASE LeafMiss
    <3>1. PICK i \in 1 .. Len(node.toc) :
            Scanned(i) /\ (node.toc[i].oid # oid \/ node.toc[i].xid > max_xid)
      BY <2>4 DEF LeafMiss
    <3>2. ASSUME NEW e \in Contract!Visible(img.entries[img.root], oid, max_xid)
          PROVE  FALSE
      <4>1. e \in img.entries[img.root] /\ e \in Entry /\ e.oid = oid /\ e.xid <= max_xid
        BY <3>2 DEF Contract!Visible, TypeOK, IsImage
      <4>2. e = node.toc[i] \/ Precedes(e, node.toc[i])
        BY <2>4, <3>1, <4>1, VisibleNotBeyond, LeafEntryIsGreatest DEF LeafMiss
      <4>3. ~Precedes(Target, node.toc[i]) /\ node.toc[i] \in Entry
        BY <2>4, <3>1, LeafEntryIsGreatest DEF LeafMiss
      <4> QED
        BY <3>1, <4>1, <4>2, <4>3, DomainAssumption DEF Precedes, Target, Entry, TypeOK
    <3>3. Contract!IsAnswer(img.entries[img.root], oid, max_xid, NULL)
      BY <3>2 DEF Contract!IsAnswer
    <3> QED
      BY <2>4, <3>3 DEF LeafMiss, Contract!Next, Contract!Answer
  <2>5. CASE LeafMatch
    <3>1. PICK i \in 1 .. Len(node.toc) :
            Scanned(i) /\ node.toc[i].oid = oid /\ node.toc[i].xid <= max_xid /\ Return(node.toc[i])
      BY <2>5 DEF LeafMatch
    <3>2. node.leaf /\ node.toc[i] \in Entry
      BY <2>5, <3>1, LeafEntryIsGreatest DEF LeafMatch
    <3>3. node.toc[i] \in img.entries[img.root]
      <4>1. node.toc[i] \in img.entries[block]
        BY <2>0, <3>1, <3>2 DEF WellFormedNode, node, Node
      <4> QED
        BY <4>1 DEF AnswerBelowBlock
    <3>4. ASSUME NEW e \in Contract!Visible(img.entries[img.root], oid, max_xid)
          PROVE  e.xid <= node.toc[i].xid
      <4>1. e \in img.entries[img.root] /\ e \in Entry /\ e.oid = oid /\ e.xid <= max_xid
        BY <3>4 DEF Contract!Visible, TypeOK, IsImage
      <4>2. e = node.toc[i] \/ Precedes(e, node.toc[i])
        BY <3>1, <3>2, <4>1, VisibleNotBeyond, LeafEntryIsGreatest
      <4> QED
        BY <3>1, <3>2, <4>1, <4>2, EntriesAreKeys DEF Precedes, IsKey
    <3>5. Contract!IsAnswer(img.entries[img.root], oid, max_xid, node.toc[i])
      BY <3>1, <3>3, <3>4 DEF Contract!IsAnswer, Contract!Visible
    <3> QED
      BY <2>5, <3>1, <3>5 DEF LeafMatch, Contract!Next, Contract!Answer
  <2>6. CASE ReadChild
    BY <2>6 DEF ReadChild
  <2>7. CASE ChildUnreadable
    <3>1. ~Whole(img)
      <4>1. PICK i \in 1 .. Len(node.toc) : node.toc[i].v \notin DOMAIN img.disk
        BY <2>7 DEF ChildUnreadable
      <4>2. ~node.leaf /\ i \in DOMAIN node.toc /\ block \in DOMAIN img.disk
        BY <2>0, <2>7 DEF ChildUnreadable, Node, TypeOK
      <4> QED
        BY <4>1, <4>2 DEF Whole, node
    <3> QED
      BY <2>7, <3>1 DEF ChildUnreadable, Contract!Next, Contract!Exit
  <2>8. CASE UNCHANGED vars
    BY <2>8 DEF vars
  <2> QED
    BY <2>2, <2>3, <2>4, <2>5, <2>6, <2>7, <2>8 DEF Next
<1> QED
  BY <1>1, <1>2, DamagedStep, TypeCorrect, AnswerStaysBelow, PTL
     DEF Spec, RefinesContract, Contract!Spec

=============================================================================
