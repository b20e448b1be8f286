------------------------------- MODULE MCDrat -------------------------------
(***************************************************************************)
(* Command lines and containers for Drat.                                  *)
(***************************************************************************)
EXTENDS Drat, SequencesExt

CONSTANTS c1, c2, p1

W(k, v) == [key |-> k, arg |-> v]
Name(c) == W("name", c)

(* What each command needs.                                                *)
Needed(c) ==
  CASE c = "list" -> <<W("volume", 1), W("path", p1)>>
    [] c = "recover" -> <<W("fsoid", 2), W("volume", 0)>>
    [] c = "resolver" -> <<W("omap", 2), W("oids", <<4, 99>>)>>
    [] c = "explore-fs-tree" -> <<W("fs", 1), W("omap", 2)>>
    [] c = "explore-omap-tree" -> <<W("omap", 2)>>
    [] c = "read" -> <<W("block", 3)>>
    [] OTHER -> <<>>

(* One word more, right or wrong.                                          *)
Extra ==
  {Name("list"), Name(p1), W("help", NONE), W("unknown", NONE), W("container", c2),
   W("max-xid", 99), W("max-xid", BAD), W("block-size", AUTO), W("block-size", BAD),
   W("volume", -1), W("volume", -99), W("volume", AUTO), W("volume-name", p1),
   W("path", p1), W("path", BAD), W("fsoid", -1), W("fsoid", 5), W("output", p1),
   W("skip-multilinked-inodes", TRUE), W("oids", <<>>), W("oids", <<-99, -1>>),
   W("oids", <<3>>), W("oids", <<3, BAD>>), W("fs", 99), W("fs", -1), W("omap", 7),
   W("omap", BAD), W("block", -1), W("block", 9), W("block", 25)}

(* The name first, or the container first and the rest backwards.          *)
Complete(c) ==
  {<<Name(c), W("container", c1)>> \o Needed(c),
   <<W("container", c1), Name(c)>> \o Reverse(Needed(c))}

MCCommands ==
  {"explore-fs-tree", "explore-omap-tree", "inspect", "list", "read", "recover", "resolver",
   "search", "version"}

(* For the commands whose sessions are followed, only the words that make  *)
(* a difference to these.                                                  *)
Words(c) ==
  IF c \notin {"explore-fs-tree", "explore-omap-tree", "read"} THEN Extra
  ELSE {w \in Extra : w.key \in {"name", "help", "unknown", "volume-name", "fs", "omap", "block"}}

MCLines ==
  {<<>>, <<W("help", NONE)>>, <<W("container", c1)>>, <<W("unknown", NONE)>>, <<Name(p1)>>,
   <<Name("version")>>}
    \union UNION {Complete(c) : c \in MCCommands}
    \union UNION {{RemoveAt(l, i) : i \in DOMAIN l} : l \in UNION {Complete(c) : c \in MCCommands}}
    \union UNION {UNION {{InsertAt(l, i, w) : i \in 1 .. Len(l) + 1, w \in Words(c)} :
                        l \in Complete(c)} : c \in MCCommands}

-----------------------------------------------------------------------------
Entry(o, x, to) == [oid |-> o, xid |-> x, to |-> to]
NodeOf(kind, leaf, x, entries) == [fixed |-> kind, leaf |-> leaf, xid |-> x, entries |-> entries]

FsLeaf(x, n) == NodeOf(FALSE, TRUE, x, [i \in 1 .. n |-> Entry(x, i, i + 3)])
FsInner(x, children) ==
  NodeOf(FALSE, FALSE, x, [i \in DOMAIN children |-> Entry(i, 0, children[i])])

(* Blocks 0 to 8; an offset has room for 20, of which 10 can be sought.    *)
MCAddr == 0 .. 8
MCRefs == 1 .. 9

(* A file-system tree of three levels in block 1.  Its root was written by *)
(* transaction x, its inner node, object 1, by transaction 2, and the leaf *)
(* below, object 3, by 1, 3 and 4.  Object 2 is not mapped.  In block 2    *)
(* there is the object map, a tree of two levels.                          *)
Disk(x) ==
  <<FsInner(x, <<1, 2>>),
    NodeOf(TRUE, FALSE, 4, <<Entry(1, 2, 7), Entry(3, 4, 8)>>),
    FsInner(2, <<3>>), FsLeaf(1, 1), FsLeaf(3, 2), FsLeaf(4, 1),
    NodeOf(TRUE, TRUE, 3, <<Entry(1, 2, 3), Entry(3, 1, 4), Entry(3, 3, 5)>>),
    NodeOf(TRUE, TRUE, 4, <<Entry(3, 4, 6)>>)>>

(* The readable nodes that a fixed-size node in block a leads to; what the *)
(* object map rooted there maps; and whether none of its nodes is empty.   *)
IsNode(disk, a) == a \in DOMAIN disk /\ disk[a] # LOST
Leaves(disk, a) ==
  IF ~IsNode(disk, a) \/ ~disk[a].fixed \/ disk[a].leaf THEN {}
  ELSE {disk[c] : c \in {b \in {e.to : e \in ToSet(disk[a].entries)} : IsNode(disk, b)}}

Mapped(disk, a) ==
  {[oid |-> e.oid, xid |-> e.xid, v |-> e.to] :
     e \in UNION {ToSet(n.entries) : n \in {m \in Leaves(disk, a) : m.fixed}}}

IsMap(disk) == IsNode(disk, 2) /\ \A n \in Leaves(disk, 2) : n.entries # <<>>

Container(disk) ==
  [disk |-> [a \in MCAddr |-> IF a = 0 THEN NodeOf(FALSE, TRUE, 0, <<>>) ELSE disk[a]],
   roots |-> {a \in DOMAIN disk : IsNode(disk, a) /\ ~disk[a].fixed}
               \union IF IsMap(disk) THEN {2} ELSE {},
   map |-> [a \in MCAddr |-> IF a = 2 THEN Mapped(disk, a) ELSE {}]]

(* Whole, with a root older or newer than its child, or with one block     *)
(* lost, of the other kind, or empty, or with an address beyond the end in *)
(* the object map: of the child's newest version, of an older one, or of a *)
(* leaf of the map.                                                        *)
MCDevices ==
  {Container(Disk(x)) : x \in 1 .. 3}
    \union {Container([Disk(3) EXCEPT ![a] = LOST]) : a \in 1 .. 8}
    \union {Container([Disk(3) EXCEPT ![a].fixed = ~@]) : a \in {1, 3, 5, 7}}
    \union {Container([Disk(3) EXCEPT ![a].entries = <<>>]) : a \in {1, 3, 5, 8}}
    \union {Container([Disk(3) EXCEPT ![8].entries[1].to = 9]),
            Container([Disk(3) EXCEPT ![7].entries[3].to = 9]),
            Container([Disk(3) EXCEPT ![2].entries[2].to = 9])}

MCAnswers == {-4, 0, 1, 2}
=============================================================================
