---------------------------- MODULE MCOmapLookup ----------------------------
(***************************************************************************)
(* Trees for OmapLookup.  An object map is a set of (OID, XID) keys; a     *)
(* tree over it cuts the ascending sequence of keys into nodes.            *)
(***************************************************************************)
EXTENDS OmapLookup, FiniteSets, SequencesExt

CONSTANTS
  Heights,     \* the heights of the trees, at most 3
  LostBlocks,  \* the number of unreadable blocks an image may have
  Damages      \* the ways in which a block of an image may be damaged

MCOid == 1 .. 3
MCXid == 1 .. 3                \* 3, the highest stored XID, does for ~0
MCAddr == 0 .. 26

(* Several versions of the middle object, one of its neighbours.           *)
Key == {[oid |-> 1, xid |-> 2], [oid |-> 3, xid |-> 2]} \union [oid : {2}, xid : MCXid]
KeySets == SUBSET Key \ {{}}

Stored(key) == [oid |-> key.oid, xid |-> key.xid, v |-> 0]

(* The address of the node at level h above key number i: new nodes start  *)
(* after key j at the cut[j] lowest levels.                                *)
NodeAddr(height, cut, h, i) ==
  IF h = height - 1 THEN 1 ELSE 20 - 10 * h + Cardinality({j \in 1 .. i - 1 : cut[j] > h})

TreeOver(keySet, height, cut) ==
  LET keys  == SetToSortSeq(keySet, LAMBDA j, k : Precedes(j, k))
      n     == Len(keys)
      At(h, i)  == NodeAddr(height, cut, h, i)
      Levels    == 0 .. height - 1
      Below(a)  == {i \in 1 .. n : \E h \in Levels : At(h, i) = a}
      Level(a)  == IF Below(a) = {} THEN 0 ELSE CHOOSE h \in Levels : \E i \in 1 .. n : At(h, i) = a
      First(h, i) == i = 1 \/ At(h, i) # At(h, i - 1)
      Toc(a)    ==
        LET h == Level(a)
            slots == {i \in Below(a) : h = 0 \/ First(h - 1, i)}
            order == SetToSortSeq(slots, <)
        IN [s \in 1 .. Len(order) |->
             [Stored(keys[order[s]]) EXCEPT !.v = IF h = 0 THEN 0 ELSE At(h - 1, order[s])]]
  IN [root    |-> 1,
      disk    |-> [a \in {x \in MCAddr : Below(x) # {}} |->
                    [fixed |-> TRUE, leaf |-> Level(a) = 0, toc |-> Toc(a)]],
      entries |-> [a \in MCAddr |-> {Stored(keys[i]) : i \in Below(a)}],
      level   |-> [a \in MCAddr |-> Level(a)]]

(* Every tree of the given heights over every set of keys.                 *)
WholeTrees ==
  UNION {UNION {{TreeOver(S, h, cut) : cut \in [1 .. Cardinality(S) - 1 -> 0 .. h - 1]} :
                  S \in KeySets} : h \in Heights}

Lose(tree, lost) == [tree EXCEPT !.disk = [a \in DOMAIN tree.disk \ lost |-> tree.disk[a]]]

LossyTrees ==
  UNION {{Lose(tree, lost) : lost \in {L \in SUBSET (DOMAIN tree.disk \ {tree.root}) :
                                        Cardinality(L) <= LostBlocks}} : tree \in WholeTrees}

(* A block may be emptied, be of the wrong kind, lead back to itself, or   *)
(* hold its entries in descending order.                                   *)
Damage(tree, a, kind) ==
  [tree EXCEPT !.disk[a] =
    CASE kind = "emptied"  -> [@ EXCEPT !.toc = <<>>]
      [] kind = "variable" -> [@ EXCEPT !.fixed = FALSE]
      [] kind = "loop"     -> [@ EXCEPT !.toc = [i \in DOMAIN @ |-> [@[i] EXCEPT !.v = a]]]
      [] kind = "reversed" -> [@ EXCEPT !.toc = Reverse(@)]]

Damageable(tree, kind) == DOMAIN tree.disk \ (IF kind = "loop" THEN {tree.root} ELSE {})

MCImages ==
  LossyTrees \union
  UNION {UNION {{Damage(tree, a, kind) : a \in Damageable(tree, kind)} : kind \in Damages} :
           tree \in WholeTrees}

=============================================================================
