------------------------------- MODULE Explore -------------------------------
(***************************************************************************)
(* The commands that show single blocks: read (src/src/commands/read.c:    *)
(* 114-162) and the two explorers of B-trees, explore-fs-tree              *)
(* (explore-fs-tree.c:141-424) and explore-omap-tree (explore-omap-tree.c: *)
(* 114-266).  An explorer lists the entries of a node, looking at the      *)
(* block each of them refers to, asks which to take, and goes on to that   *)
(* child or, in a leaf, shows the record and ends.                         *)
(*                                                                         *)
(* Children in a file-system tree are Virtual OIDs, looked up in an object *)
(* map whose nodes are read from the container, too.  Blocks are used      *)
(* whatever their checksum.                                                *)
(***************************************************************************)
EXTENDS ObjectMap, Sequences

CONSTANTS
  Addr,       \* the addresses of the container's blocks
  Places,     \* 2^64 divided by the block size: the blocks a 64-bit offset has room for
  Refs,       \* the addresses and the object identifiers that occur in blocks
  Height,     \* the levels of an object map below its root
  Devices,    \* the containers there may be
  Answers,    \* numbers a user may type
  Width,      \* the number of values a uint32_t has
  MaxTyped,   \* the bound on invalid answers, for model checking
  ANY_XID,    \* ~0 as a transaction ID: none is above it
  LOST,       \* a block that cannot be read
  BEYOND,     \* what is read beyond the end of the container
  NONE        \* no container, no number, nothing shown

(* An entry of a node: `to' is the address or the Virtual OID of a child,  *)
(* in a leaf of an object map the address of the object.  In a file-system *)
(* tree oid and xid stand for the parts of the record's key.               *)
Entry == [oid : Refs, xid : Nat, to : Refs]
Node == [fixed : BOOLEAN, leaf : BOOLEAN, xid : 0 .. ANY_XID, entries : Seq(Entry)]

(* An entry of an object map: the block where an object is from xid on.    *)
Mapping == [oid : Refs, xid : 0 .. ANY_XID, v : Refs]

(* read_blocks() of one block.  The byte offset, a product modulo 2^64, is *)
(* seekable if it is no negative off_t; reading beyond the end of the file *)
(* fails the assertion that it cannot happen (io.c:140-160).               *)
Place(a) == a % Places

BlockOf(d, a) ==
  IF Place(a) \in Addr THEN d.disk[Place(a)]
  ELSE IF 2 * Place(a) < Places THEN BEYOND
  ELSE LOST

Unread == {LOST, BEYOND}

-----------------------------------------------------------------------------
(* get_btree_phys_omap_entry(): the lookup in the object map.              *)

(* How many entries come before the first that is beyond OID o and XID x.  *)
Beyond(e, o, x) == e.oid > o \/ (e.oid = o /\ e.xid > x)
Scanned(n, o, x) ==
  CHOOSE k \in 0 .. Len(n.entries) :
    /\ \A i \in 1 .. k : ~Beyond(n.entries[i], o, x)
    /\ k < Len(n.entries) => Beyond(n.entries[k + 1], o, x)

Settled(n, o, x) == n \in Unread \/ ~n.fixed \/ n.leaf \/ Scanned(n, o, x) = 0

(* The node the lookup ends at, or what it meets instead of a node.        *)
NodeFound(d, root, o, x) ==
  LET from[n \in Node \union Unread, h \in 0 .. Height] ==
        IF h = 0 \/ Settled(n, o, x) THEN n
        ELSE from[BlockOf(d, n.entries[Scanned(n, o, x)].to), h - 1]
  IN from[BlockOf(d, root), Height]

(* The address it answers with; LOST or BEYOND where the program ends.     *)
LookupIn(d, root, o, x) ==
  LET answer[n \in Node \union Unread] ==
        IF n \in Unread THEN n
        ELSE LET k == Scanned(n, o, x) IN
             IF ~n.fixed \/ k = 0 \/ n.entries[k].oid # o THEN NULL ELSE n.entries[k].to
  IN answer[NodeFound(d, root, o, x)]

Newest(seen) == CHOOSE e \in seen : \A f \in seen : f.xid <= e.xid

(* What the lookup in a well-formed map answers, which is what OmapLookup  *)
(* shows of it.                                                            *)
LooksUp(d, root, o, x) ==
  LET n == NodeFound(d, root, o, x)
      seen == Visible(d.map[root], o, x)
  IN n \in Unread \/
       /\ Settled(n, o, x) /\ (n.fixed => n.entries # <<>>)
       /\ LookupIn(d, root, o, x) = IF seen = {} THEN NULL ELSE Newest(seen).v

(* A container: its blocks; where a lookup may begin, which are the roots  *)
(* of well-formed object maps and what is no node of such a map at all;    *)
(* and what is mapped there.                                               *)
IsDevice(d) ==
  /\ DOMAIN d.disk = Addr /\ \A a \in Addr : d.disk[a] = LOST \/ d.disk[a] \in Node
  /\ d.roots \subseteq Addr
  /\ d.map \in [Addr -> SUBSET Mapping]
  /\ \A a \in d.roots, o \in Refs, x \in 0 .. ANY_XID : LooksUp(d, a, o, x)

(* What the constants are.                                                 *)
Parameters ==
  /\ Addr \subseteq Nat /\ Places \in Nat \ {0} /\ \A a \in Addr : a < Places
  /\ Height \in Nat
  /\ Refs \subseteq Nat
  /\ \A d \in Devices : IsDevice(d)
  /\ Width \in Nat \ {0} /\ Answers \subseteq Int
  /\ MaxTyped \in Nat /\ ANY_XID \in Nat
  /\ NULL \notin Refs \union Node \union Unread /\ Unread \intersect Refs = {}
  /\ NONE \notin Devices

VARIABLES
  device,       \* the container, or NONE if it cannot be opened
  explorer,     \* the command
  address,      \* its options: the blocks named on the command line
  node,         \* the node (or, for read, the block) in memory
  entry_index,  \* NONE as long as nothing has been assigned to it
  typed,        \* the numbers the user has typed
  stuck,        \* the input holds something that is no number, or has ended
  shown,        \* the entry shown in the end
  state         \* where the command is, or how it ended

session == <<device, explorer, address>>
vars == <<session, node, entry_index, typed, stuck, shown, state>>

NoNode == [fixed |-> FALSE, leaf |-> TRUE, xid |-> 0, entries |-> <<>>]

Init ==
  /\ device = NONE
  /\ explorer = NONE
  /\ address = [fs |-> NONE, omap |-> NONE, block |-> NONE]
  /\ node = NoNode
  /\ entry_index = NONE
  /\ typed = <<>>
  /\ stuck = FALSE
  /\ shown = NONE
  /\ state = "idle"

(* The call of the command with its options, and the container the path    *)
(* leads to.  What explore-fs-tree is given as --omap is to be the root    *)
(* node of an object map.                                                  *)
Call(c, options) ==
  /\ state = "idle"
  /\ explorer' = c
  /\ address' = options
  /\ device' \in Devices \union {NONE}
  /\ c = "explore-fs-tree" /\ device' # NONE =>
       BlockOf(device', options.omap) \in Unread \/ Place(options.omap) \in device'.roots
  /\ state' = "opening"
  /\ UNCHANGED <<node, entry_index, typed, stuck, shown>>

End(how) ==
  /\ state' = how
  /\ UNCHANGED <<session, node, entry_index, typed, stuck, shown>>

(* The block options a command has, in the order they are read.            *)
Roots == CASE explorer = "explore-fs-tree" -> <<"fs", "omap">>
           [] explorer = "explore-omap-tree" -> <<"omap">>
           [] OTHER -> <<"block">>

Block(a) == BlockOf(device, a)

(* What the reads of the roots come to: the first that fails.              *)
RootsMeet(what) ==
  \E i \in DOMAIN Roots :
    /\ Block(address[Roots[i]]) = what
    /\ \A j \in 1 .. i - 1 : Block(address[Roots[j]]) \notin Unread

RootsReadable ==
  device # NONE /\ \A i \in DOMAIN Roots : Block(address[Roots[i]]) \notin Unread

(* open_container() or a read of a root fails: EX_NOINPUT ...              *)
NoInput ==
  /\ state = "opening"
  /\ device # NONE => RootsMeet(LOST)
  /\ End("noinput")

(* ... but for a root beyond the end the program aborts.                   *)
RootBeyond ==
  /\ state = "opening"
  /\ device # NONE /\ RootsMeet(BEYOND)
  /\ End("aborted")

(* read: whatever the block is, it is shown.                               *)
ShowBlock ==
  /\ state = "opening"
  /\ explorer = "read"
  /\ RootsReadable
  /\ node' = Block(address.block)
  /\ state' = "done"
  /\ UNCHANGED <<session, entry_index, typed, stuck, shown>>

ReadRoots ==
  /\ state = "opening"
  /\ explorer # "read"
  /\ RootsReadable
  /\ node' = Block(address[Roots[1]])
  /\ state' = "listing"
  /\ UNCHANGED <<session, entry_index, typed, stuck, shown>>

-----------------------------------------------------------------------------
(* One turn of the loop: the node is listed.                               *)

ExploresFs == explorer = "explore-fs-tree"
Root == Block(address[Roots[1]])

Lookup(o, x) == LookupIn(device, Place(address.omap), o, x)

(* Variable-size entries in an object map or fixed-size ones elsewhere.    *)
WrongKind ==
  /\ state = "listing"
  /\ node.fixed = ExploresFs
  /\ End("ended")

(* assert(node->btn_nkeys > 0), in explore-fs-tree only.                   *)
NoEntries ==
  /\ state = "listing"
  /\ ExploresFs /\ ~node.fixed
  /\ node.entries = <<>>
  /\ End("aborted")

Entries == node.entries

(* The block behind what a lookup answers.                                 *)
Follow(v) == IF v = NULL \/ v \in Unread THEN v ELSE Block(v)

(* What listing entry i comes to.  In a leaf of an object map the object   *)
(* is read, in a file-system tree the child: its newest version, whatever  *)
(* transaction the root is of.                                             *)
Listed(i) ==
  CASE ExploresFs /\ ~node.leaf -> Follow(Lookup(Entries[i].to, ANY_XID))
    [] ~ExploresFs /\ node.leaf -> Block(Entries[i].to)
    [] OTHER -> NULL

Listable ==
  /\ state = "listing"
  /\ node.fixed # ExploresFs
  /\ ExploresFs => Entries # <<>>

(* How the program ends when it meets no block: an error of its own, or    *)
(* the failing assertion.                                                  *)
Ending(what) == IF what = LOST THEN "failed" ELSE "aborted"

(* The first entry that comes to nothing ends the command.                 *)
CannotList ==
  /\ Listable
  /\ \E i \in DOMAIN Entries :
       /\ Listed(i) \in Unread
       /\ \A j \in 1 .. i - 1 : Listed(j) \notin Unread
       /\ End(Ending(Listed(i)))

(* entry_index is declared anew in every turn of the loop.                 *)
ListNode ==
  /\ Listable
  /\ \A i \in DOMAIN Entries : Listed(i) \notin Unread
  /\ entry_index' = NONE
  /\ state' = "asking"
  /\ UNCHANGED <<session, node, typed, stuck, shown>>

-----------------------------------------------------------------------------
(* The choice of an entry.                                                 *)

(* Mutant: the bound is that of the node, not of the root.                 *)
ChildAsOfNode(to) == Follow(IF ExploresFs THEN Lookup(to, node.xid) ELSE to)

(* Mutant: the bound of the lookup is exclusive.                           *)
ChildBeforeRoot(to) == Follow(IF ExploresFs THEN Lookup(to, Root.xid - 1) ELSE to)

(* The block of a child: in a file-system tree, as of the root's XID.      *)
Child(to) == Follow(IF ExploresFs THEN Lookup(to, Root.xid) ELSE to)

(* Entry i (from 0) is taken.                                              *)
ShowEntry(i) ==
  /\ node.leaf
  /\ shown' = Entries[i + 1]
  /\ state' = "done"
  /\ UNCHANGED node

ChildUnmapped(i) ==
  /\ ~node.leaf
  /\ Child(Entries[i + 1].to) = NULL
  /\ state' = "ended"
  /\ UNCHANGED <<node, shown>>

ChildUnreadable(i) ==
  /\ ~node.leaf
  /\ Child(Entries[i + 1].to) \in Unread
  /\ state' = Ending(Child(Entries[i + 1].to))
  /\ UNCHANGED <<node, shown>>

Descend(i) ==
  /\ ~node.leaf
  /\ LET child == Child(Entries[i + 1].to) IN
       /\ child # NULL /\ child \notin Unread
       /\ node' = child
  /\ state' = "listing"
  /\ UNCHANGED shown

Take(i) == ShowEntry(i) \/ ChildUnmapped(i) \/ ChildUnreadable(i) \/ Descend(i)

AskAgain == UNCHANGED <<node, shown, state>>

(* Mutant: the last entry cannot be chosen.                                *)
InRangeLessOne(i) == i < Len(Entries) - 1

InRange(i) == i < Len(Entries)

(* scanf("%u") reads a number: it is taken modulo 2^32, so that a negative *)
(* or a very large one may name an entry.                                  *)
ValidChoice(n) ==
  /\ state = "asking" /\ ~stuck
  /\ InRange(n % Width)
  /\ entry_index' = n % Width
  /\ typed' = Append(typed, n)
  /\ Take(n % Width)
  /\ UNCHANGED <<session, stuck>>

InvalidChoice(n) ==
  /\ state = "asking" /\ ~stuck
  /\ ~InRange(n % Width)
  /\ Len(typed) < MaxTyped
  /\ entry_index' = n % Width
  /\ typed' = Append(typed, n)
  /\ AskAgain
  /\ UNCHANGED <<session, stuck>>

(* scanf() finds something else than a number, or the end of the input,    *)
(* and leaves it there.  entry_index keeps the invalid number it has, or   *)
(* it has none yet and may be anything: an entry nobody chose is taken, or *)
(* the question is repeated for ever.                                      *)
ScanFails ==
  /\ state = "asking"
  /\ entry_index = NONE
  /\ stuck' = TRUE
  /\ \E i \in 0 .. Width - 1 :
       /\ entry_index' = i
       /\ IF InRange(i) THEN Take(i) ELSE AskAgain
  /\ UNCHANGED <<session, typed>>

ScanFailsAgain ==
  /\ state = "asking" /\ ~stuck
  /\ entry_index # NONE
  /\ stuck' = TRUE
  /\ AskAgain
  /\ UNCHANGED <<session, entry_index, typed>>

Choose(n) == ValidChoice(n) \/ InvalidChoice(n)

Step ==
  \/ NoInput
  \/ RootBeyond
  \/ ShowBlock
  \/ ReadRoots
  \/ WrongKind
  \/ NoEntries
  \/ CannotList
  \/ ListNode

User ==
  \/ \E n \in Answers : Choose(n)
  \/ ScanFails
  \/ ScanFailsAgain

Next == Step \/ User

-----------------------------------------------------------------------------
(* Properties.                                                             *)

TypeOK ==
  /\ device \in Devices \union {NONE}
  /\ explorer \in {NONE, "read", "explore-fs-tree", "explore-omap-tree"}
  /\ \A k \in {"fs", "omap", "block"} : address[k] \in Int \union {NONE}
  /\ node \in Node
  /\ entry_index \in 0 .. Width - 1 \union {NONE}
  /\ typed \in Seq(Answers)
  /\ stuck \in BOOLEAN
  /\ shown \in Entry \union {NONE}
  /\ state \in {"idle", "opening", "listing", "asking", "done", "ended", "aborted",
                "failed", "noinput"}

(* What the object map has of an object as of transaction x.               *)
Seen(o, x) == Visible(device.map[Place(address.omap)], o, x)

(* Reference: the nodes that the valid ones among the numbers typed lead   *)
(* to from the root, children being resolved as of the root's transaction. *)
Trail(end) ==
  LET upTo[k \in 0 .. Len(typed)] ==
        IF k = 0 THEN Root
        ELSE LET n == upTo[k - 1]
                 i == typed[k] % Width
             IN IF n \in Unread \/ i >= Len(n.entries) \/ n.leaf THEN n
                ELSE LET to == n.entries[i + 1].to IN
                     IF ~ExploresFs THEN Block(to)
                     ELSE LET seen == Seen(to, Root.xid) IN
                          IF seen = {} THEN LOST ELSE Block(Newest(seen).v)
  IN upTo[end]

(* What is shown in the end is what the user has chosen: the block named,  *)
(* or the entry that the valid numbers lead to, however many invalid ones  *)
(* were in between.  Claimed as long as numbers are all that is typed: see *)
(* ScanFails; and of read as long as the address is one of the container:  *)
(* another may, times the block size, wrap around to one (io.c:141).       *)
ShowsChosen ==
  state = "done" /\ ~stuck =>
    IF explorer = "read" THEN address.block \in Addr => node = device.disk[address.block]
    ELSE LET leaf == Trail(Len(typed) - 1)
             choice == typed[Len(typed)] % Width
         IN
         /\ typed # <<>> /\ leaf \notin Unread /\ leaf.leaf
         /\ choice < Len(leaf.entries) /\ shown = leaf.entries[choice + 1]

(* As of transaction x, object o leads to no block: its lookup meets none  *)
(* among the nodes of the object map, or what is mapped is none.           *)
LeadsTo(o, x, what) ==
  \/ NodeFound(device, Place(address.omap), o, x) = what
  \/ Seen(o, x) # {} /\ Block(Newest(Seen(o, x)).v) = what

(* An entry of n leads to a block that is lost, or beyond the end: to the  *)
(* child of an object map's node, or to an object as of the root's         *)
(* transaction or in its newest version.                                   *)
Dangling(n, what) ==
  \E i \in DOMAIN n.entries :
    LET to == n.entries[i].to IN
    IF ExploresFs THEN ~n.leaf /\ \E x \in {ANY_XID, Root.xid} : LeadsTo(to, x, what)
    ELSE Block(to) = what

(* An exploration that stops short has its reason in the container.  It    *)
(* fails for a block that is lost, of a child or of the object map, and    *)
(* aborts for one beyond the end, or at an empty node; it ends at a node   *)
(* of the wrong kind, or at a child which the object map does not have as  *)
(* of the root's transaction.  A lost block stops it already where its     *)
(* parent is listed, if it is a child's newest version; that the version   *)
(* to be explored is another one makes no difference                       *)
(* (explore-fs-tree.c:252-263).                                            *)
StopsOnlyForReason ==
  /\ state = "noinput" /\ device # NONE => RootsMeet(LOST)
  /\ state = "failed" => Dangling(node, LOST)
  /\ state = "aborted" =>
       \/ RootsMeet(BEYOND)
       \/ ExploresFs /\ node.entries = <<>>
       \/ Dangling(node, BEYOND)
  /\ state = "ended" =>
       \/ node.fixed = ExploresFs
       \/ ExploresFs /\ ~node.leaf /\ \E i \in DOMAIN Entries :
            Seen(Entries[i].to, Root.xid) = {}

(* In trees without cycles, a session that has begun comes to an end if    *)
(* its user goes on to choose entries, unless the input gets stuck or the  *)
(* node has no entry to be chosen, which explore-omap-tree does not look   *)
(* at (explore-omap-tree.c:163, 217-222).                                  *)
EndsUnlessUnanswerable ==
  state = "opening" ~>
    \/ state \notin {"opening", "listing", "asking"}
    \/ state = "asking" /\ (stuck \/ Entries = <<>>)

=============================================================================
