# drat: a TLA+ model

drat is a command-line tool that reads APFS containers, healthy or damaged, and
recovers files from them. It is one sequential C program per invocation, and none
of its commands writes to the container. What makes it hard is that everything it
reads may be old, damaged, half written or being written by somebody else, and
that it follows pointers from block to block without a file system's guarantees.

Paths below are relative to `src/`; `recover.c` and its like are in
`src/commands/`, `btree.c` and its like in `include/drat/func/`.

## Inventory

| Part | Code | State | Operations | Correct if | Modelled in |
|---|---|---|---|---|---|
| Block I/O | `include/drat/io.c` | the stream `nx`, its flags, `globals.block_size` | open, `read_block`, `read_blocks`, close | what is reported as read is what was asked for; a failure leaves no trace | `BlockIO` |
| Checksum | `cksum.c` | two running sums | `fletcher_cksum`, `is_cksum_valid` | it is APFS's checksum; damage is noticed | `Cksum` |
| Object map lookup | `btree.c:48` | working node | descend, scan, return | it answers with the newest visible version | `OmapLookup` |
| Record search | `btree.c:208` | working node, `desc_path`, records | descent loop, walk loop | the list is complete | `FsRecords` |
| Mount | `recover.c:252-473`, `list.c:160-385`, variants in `resolver.c`, `inspect.c` | superblock, object maps, bounds | scan of the descriptor area, seven reads, two lookups | all of it belongs to one checkpoint, the newest that is allowed | `Mount` |
| Path navigation | `recover.c:475-547`, `list.c:389-461` | FSOID, records | next element, match, fetch | the object is the one the path names | `Navigate` |
| Recovery | `recover.c:163-234`, `536-663` | temporary file, stream buffer, bytes remaining | create, prompt, copy, rename, close | the output is the file; invocations do not disturb each other | `Recover` |
| `search` | `search.c` | address, matches | read, four criteria | every hit is counted, once | `Search` |
| `inspect` | `inspect.c` | copy of the ring, Ephemeral objects, volumes | copy, read, validate, show | the checkpoint is the last one; "All done" is true | `Inspect` |
| explorers, `read` | `explore-*.c`, `read.c` | working node, the entry chosen | list, prompt, descend, show | what is shown is what was chosen | `Explore` |
| `resolver` | `resolver.c` | object map address, OIDs | choose a map, resolve OIDs | the map is the volume's; every OID gets its own answer | `Mount` |
| Extended fields | `xf.c`, `j.c` | none | find a field | the size found is the file's | `XFields`, within `Recover` |
| Arguments | `argp.c`, `globals.c`, the parsers of the commands | `globals`, `options` | parse, word by word | a command runs with what the line says | `Args` |
| Dispatch, `version` | `drat.c`, `commands.c` | `globals.command_name` | find and call the command | it is the command named | `Args`, `Drat` |
| `modify` | `modify.c` | none | copy one block onto another | | not: nothing calls it |
| Object type tests | `boolean.c` | none | compare header fields | | not: single comparisons |
| Formatting | `string/*.c`, `print-fs-records.c`, `time.c` | none | | | not: output only |

The commands mount the container, or are told addresses; mounting uses the
object map lookup twice; the record search uses it for every node; navigation
searches records for every element of a path; recovery walks the records found.
All of them read through `read_blocks()`, which is where `globals.block_size`
and the stream are shared. There are no threads and no callbacks. Concurrency
comes from outside: the container may be mounted and written by its file system
(`docs/global-arguments/container.md:15-16`), and several invocations may write
to the same directory. `PROJECT.json` lists, line by line, what can go wrong.

## Modules

Data are abstracted to what control depends on: a name, an OID or a block is a
member of a small set; a checksum is right or wrong (but in `Cksum`); printing is
left out. Allocation never fails. The assertions are active: nothing defines
`NDEBUG`.

**`ObjectMap`, `OmapContract`, `OmapLookup`.** `ObjectMap` says what the answer of
a lookup is; `OmapContract` is the abstract specification, one step from question
to answer; `OmapLookup` is `get_btree_phys_omap_entry()`, one turn of its loop a
step. An image is a function from addresses to nodes, partial because blocks may
be unreadable. Beside it stands what the writer of the tree meant (the entries
below each address, and its level), which only the properties read: it is in
terms of it that a tree is well-formed. A lost block ends the process; a wrong
checksum does not, so checksums do not occur, but blocks with wrong contents do.
The refinement mapping is in `OmapLookup` (`RefinesContract`).

**`FsRecords`** is `get_fs_records()`, one turn of the descent loop or of the inner
loop of the walk a step. The lookups appear as the contract of `ObjectMap`.
`desc_path` begins as an array of `Uninit`, for the variable-length array in the
code. An image says beside its blocks what the writer stored: the records in the
tree of each bound, and which part of them is below each Virtual OID. Only the
properties read that.

**`Mount`** is the way from the descriptor area to the root of a volume's tree, as
`recover` and `list` go it, and to an object map and its answers, as `resolver`
goes it, against a writer. A request holds the options that matter for this. The
writer is not part of drat. It is assumed to copy on write, to write a block after
those it refers to and a superblock last, and to keep the blocks of the last
checkpoint until the next one is complete; it may crash in any write, after which
somebody may mount the volume and go on. It may do so between any two reads, those
of the single blocks of the descriptor area (`ReadDescriptor`, from `io.c:180-193`)
included: `xp_desc` is the copy the command has of that area, of which `copied`
blocks are read, and it may never have been on the disk as a whole. What a damaged
mount does in the end is not followed (`"astray"`). A volume number outside the
array of volumes reads whatever is beside it (`nx_fs_oid[-1]` for 0): no volume, one
that is not mapped, the OID of volume 1, or nothing at all (`"crashed"`). The
variables `committed`, `home`, `fresh`, `done` and `begun` are the writer's own
view, which drat cannot see; `newest` remembers, for the properties, which
checkpoint was the last when the copying of the descriptor area began.

**`Navigate`** is what follows until the records of one object are in hand. A
volume says for every object which records `get_fs_records()` returns, or that
the search ends the process (`LOST`); `<<>>` stands for NULL too, since the
function never returns an array without a record.

**`Recover`** is what `cmd_recover()` does to the directory it writes to, by several
processes at once, some of which may write to the standard output instead. The
directory has two names, the temporary and the final one. stdio may write its
buffer at any time during the copy. A final write that fails goes unnoticed, as in
the code: such an invocation is done like any other (`CloseFails`), and `buffer` is
then what it has lost. `answer` remembers what the user said about hard links. How the file is found is one step here,
`Mount` and `Navigate` elsewhere. The size comes from the file's inode by way of
**`XFields`**: the offset of a value follows from the lengths of all the values
before it, in sixteen bits. `HoldsSize` is the writer's side of it: an inode states
the size of its file, or has a data stream that does, at a multiple of eight bytes.

**`BlockIO`** is `io.c` over a model of stdio: a seek may be refused or go past the
end, a read may hit the end or a bad sector and then takes what is before it.
Addresses are multiplied modulo a power of two, as in the code.

**`Search`** composes `BlockIO`, which it extends, with the loop of `cmd_search()`:
its reads are calls for one block.

**`Inspect`** is `cmd_inspect()` and, before it, the history of the ring it reads:
checkpoints of several lengths that wrap around its end, and crashes in any block.
Of everything the command looks up or reads, one thing may be missing,
unreadable, damaged or of the wrong storage type (`fault`).

**`Cksum`** is the loop of `fletcher_cksum()` for words of any width, computing and
validating; `is_cksum_valid()` compares what is computed with what is stored. Its
constant `Words` says which words blocks are made of, so that not all have to be
tried.

**`Args`** goes over the words of a command line: once for the name of the command,
as `main()` does, and once more for all of its options, as the command does. argp
itself is external. **`Explore`** is `read` and both explorers, a turn of the loop a
step but for the question, which is one step for every answer. `scanf()` that finds no number leaves
`entry_index` as it is: invalid, or, in the first attempt of a turn, anything at
all. A block that is lost ends the program with an error, one beyond the end of the
container with the failing assertion of `io.c:152` (`LOST`, `BEYOND`, `Ending`;
`Places` is the number of blocks after which a 64-bit offset wraps around). The object
map is blocks too: a lookup reads its nodes as `get_btree_phys_omap_entry()` does
(`NodeFound`, `LookupIn`), and the program ends if one of them is lost. What is
assumed of a map is what `OmapLookup` shows of well-formed ones (`LooksUp`); the
block named by `--omap` is to be the root of such a map, or no node of a map at all
(`roots`). Maps with empty nodes are left out, since `btree.c` reads in front of
the table there. **`Drat`** composes the two: a session begins with the options with which the
parsing of a line ends.

`MC*` modules construct the instances; `*_proofs` hold the theorems. Operators
marked *Mutant* are faulty variants of the definition that follows them. No
specification uses them: they stand for mistakes the properties have been seen
to catch.

## Runs

| Run | Question | Bounds, and why they do |
|---|---|---|
| `OmapLookup` | Does the lookup implement its contract, on sound trees, on trees with a lost block, and as far as can be on damaged ones? Does the descent always go down, and end? | Three OIDs under three bounds; every set of five keys, with three versions of the middle object and a neighbour on either side; every way to cut them into nodes of up to three levels. The scan of a node compares with its neighbours only, so that five keys give every position of the target: before, at, between, after, in another node. |
| `FsRecords` | Is the list complete? Is `desc_path` used only where it was assigned? Does the walk go forwards and end? Does the process exit only for damage? | All ascending sequences of up to four records of three objects, up to three levels; a second version of any leaf, longer or shorter than its separators tell; any one node missing, unreadable, bad, empty, or of the wrong kind (up to three records). An object's records cover up to four leaves, so that the carry in `desc_path` goes over both levels. |
| `Recover_concurrent` | Do two invocations keep out of each other's file? Is the output right, whatever fails, and a file replaced only by a whole one? Do they end? | Sizes up to two and a half blocks, around every boundary; no extent, one, or three with an empty one in the middle; linked once and twice; killed anywhere; none or one of them with the standard output. The size of the file is in its inode, or in a data stream behind none, one or two other fields whose lengths need padding or not. |
| `Mount_snapshot` | Does a mount see one checkpoint, while there is a writer? Does `resolver` ask the right object map, and answer for every OID? | Three transactions over two superblock slots: enough to overwrite the superblock in use, and the blocks of an older checkpoint with objects of the same or another kind. Any number of these writes between the reads of the two slots. Eight command lines: bounds above, at and below the last checkpoint; a volume that exists, 0 and 101, which are beside the array, or the container; a volume's name; a map that is named. The state constraint follows no mount that has been overtaken, of which nothing is claimed, but with `--max-xid 1`: what becomes of these is to be reached by the actions for damage. |
| `BlockIO_inrange` | Are the blocks the ones asked for, where their offsets fit? Do failures leave traces? | Containers of 0 to 7 sectors with up to one bad one, block sizes of 1 to 3 sectors, calls of up to three blocks, beginning anywhere up to the end and beyond, or where the product wraps around in the first or a later block. |
| `Search_range` | Is every hit counted, once? | Blocks of six kinds in every rotation, one bad sector, containers longer and shorter than the range, block sizes given and not. |
| `Navigate_paths` | Is the object the one the path names? Are the ends and deaths of the command justified? | Three elements, empty ones among them; three objects with cycles, dangling entries, names used twice. |
| `Inspect_ring` | Is the checkpoint copied the last one? Is "All done" only said of a sound container, and is there a reason whenever it is not? | A ring of five blocks, three checkpoints of one to three blocks, a crash in any block of any attempt: they begin everywhere and wrap with one or two blocks. Two volumes, two objects shown of each (six in the code, all treated alike). |
| `Drat_sessions` | Does a command run with what its line says? Is what an explorer shows what was chosen, does it stop only for damage, and does it end? | Every command with what it needs, the name first or an option first, with any word left out or any of 29 others put in anywhere, among them numbers out of range, -1, and words that are no number. A tree of three levels with three versions of a leaf, its root older than, as old as and newer than its child; an object map of two levels; one block of either lost, of the wrong kind or empty (a leaf of the map, with the map then not named); an address beyond the end in the root or in a leaf of the map. 2^64 stands at 20 blocks and `INT64_MAX` at 39; block 0 stands for a block that is no node. Two invalid answers at the most, one of them valid modulo 2^32; or no number at all. |
| `Cksum_compute` | Is the sum the one the comment describes, and never 0? Exactly what damage does it notice? | Every block of six words out of 0, 1, 5 and 15, of four bits: like 2^32 - 1, the modulus 15 is divisible by 3, so that words three apart may be exchanged unnoticed (0 and 5) or not (0 and 1), and 0 and the modulus occur. Damage is to any of the sixteen words. |

Two more runs show where the program does not do what a comment or its
documentation says; each is described in the next section: `Recover_rename`,
`BlockIO_end`.

Deadlock is not checked: every command ends, and then the model stops. That it
does not stop before is what the liveness properties say where there is one.

### Fairness

`OmapLookup`, `FsRecords`: `WF(Next)`, since the function is sequential and a call
has nothing to wait for. `Recover`: each process goes on (`WF(Proceed)`), and the
user answers the question (`WF(User)`); without the latter the prompt is repeated
for ever, at the end of input indeed (see below). Being killed and flushing
a buffer are never required. `Drat`: the program goes on, and as long as a question
has a valid answer the user will at some time give one; that a session then ends
is claimed for trees without cycles, since nothing in the explorers bounds a
descent. The other modules have no liveness property: their commands visibly go
through a fixed number of steps or a bounded range.

## Where code and documentation differ

With a run:

* `recover.c:648`: the file is renamed before its stream is closed, so that its
  last bytes are written, or lost, under the final name, with exit status 0 either
  way (`:659-662`). `docs/commands/recover.md:36-38` has it renamed "once they have been fully recovered". (`Recover_rename`)
* `io.c:152`: a read that reaches the end of the container aborts the process; the
  comment above the assertion explains why it could not. (`BlockIO_end`)

Known from the modelling, without a run of their own:

* `recover.c:345`, like every read of a mount: the XID of a block is not compared
  with anything. With `--max-xid` naming an older checkpoint whose blocks were
  used again, later objects are used, which `docs/global-arguments/max-xid.md:8-9`
  says are ignored. `MountsNewestSnapshot` therefore excludes mounts that are
  overtaken.
* `recover.c:638`: where the extents hold fewer bytes than the size of the file, what
  there is is renamed all the same. The files of `Recover_rename` are not of this
  kind; `DoneIsWhole` counts what the extents hold.
* `recover.c:375`, `list.c:289`, `resolver.c:335`: `--volume 0` (but with `resolver`,
  where it is the container) reads `nx_fs_oid[-1]`, and a volume above 100 what is
  behind the array; what is there is taken for a volume's OID. The model leaves the
  outcome open (`OutsideArray`), and no property claims anything of it.
* `argp.c:80`: `strtoimax()` makes numbers that do not fit the nearest ones that do,
  unnoticed. `--max-xid 0xffffffffffffffff`, which the documentation has equivalent
  to -1 (`docs/global-arguments/max-xid.md:11-14`), is 2^63 - 1. `RunsAsAsked` claims
  nothing of a number that does not fit.
* `argp.c:38-42`: the message says that `--volume` must not be negative, but a negative
  number is accepted. `RunsAsAsked` claims nothing of those either.
* `explore-omap-tree.md:25` (of `docs/commands/`) has `--volume 0 --max-xid -1` for a
  default of that command, `explore-fs-tree.md:34-37` has `--volume 1`, and
  `recover.md:20` likewise; the parsers insist on `--omap`, on `--fs` and `--omap`, and
  on `--volume` (so does that of `list`). No property is about which lines are
  refused. The default of `--output` is `-`, not `./` (`recover.md:30`). With `-`, `rename()` is called with two null pointers all the same
  (`recover.c:648`); with `--fsoid` and a directory for output, `strrchr()` is
  called with one (`:183`).
* `drat.c`: the branch for a missing command is never reached, since
  `globals.command_name` begins as the name of the program; that is looked up and
  reported as an unknown command (`NoCommand`).
* `explore-*.c`: what `scanf()` returns is not looked at. An answer that is no number
  makes the prompt repeat itself for ever, or takes an entry by a number that was
  never assigned (`ScanFails`); `ShowsChosen` is claimed of sessions without one.
  `explore-omap-tree.c:163`: of an empty node no answer is valid.
* `explore-fs-tree.c:252`: the children listed are the newest versions (bound `~0`),
  the child descended to is the one as of the root's transaction (`:392`); a lost
  newest version ends an exploration that would not have read it.
* `resolver.c`: the OIDs are looked up as of `--max-xid` itself, unlike everything
  on the way, which is as of the superblock's transaction. `--volume-name` is
  accepted and then reported as not yet implemented.
* `btree.c:462`: a root that is not marked as one has `desc_path[i - 1]` written
  with `i = 0`, in front of the array. The images of `FsRecords` have marked roots.
* `btree.c:294`, `329`: `get_fs_records()` returns NULL for an object without
  records, where its comment (`197-202`) promises an array; `recover.c:502`, `543`
  and `list.c` walk it. `DiesOnlyOfDangling` says when that is reached.
* `recover.c:648`: `rename()` replaces a file at the target name;
  `docs/commands/recover.md:41-42` says that it is not overwritten unless that is asked for.
* `recover.c:571-578`: at end of input the prompt is repeated without end.
* `io.c:141`: the product of address and block size may wrap around, whereupon
  another block is read in silence. `ReadsNamedBlocks` is about the blocks whose
  product fits.
* `search.c:177`: for the same reason `search` reads other blocks in silence where the
  end of its range times the block size is more than 2^64, which is a block size
  of terabytes. `CountsExactly` excludes that.
* `cksum.c:40-43`: two words that have changed places go unnoticed where their
  difference times their distance is a multiple of 2^32 - 1 = 3 * 5 * 17 * 257 *
  65537, for example when they are three apart and differ by a third of it
  (`DetectsDamage`). Neighbours that differ are told apart.
* `search.c:178`: `end_of_container()` never holds where it is asked
  (`FlagsClearBetweenCalls`).
* `cksum.c:24-25`: `fletcher_cksum(block, false)` is said to be 0 for a valid
  block; it is never 0 (`DetectsDamage`). `is_cksum_valid()` compares differently and
  is right.
* `inspect.c:267`: the assertion is an assignment. It checks nothing, and fails for
  a checkpoint without Ephemeral objects (`StopsOnlyForReason`).
* `inspect.c:140`: `--max-xid` is accepted and not used.

## Proofs

The theorems hold for all values of the constants under the assumptions stated
in the modules, none of which restricts sizes.

* `OmapLookup_proofs`: for every image. `AnswerBelowBlock` is the inductive
  invariant: in a well-formed tree, the answer is among the entries below the
  block in memory, if there is one at all. `ScanSplits` says where the scan of a
  node stops, `AnswerBelowChild` that the child taken keeps the answer below it;
  the contract's answer follows at the leaf (`NullAtFirstEntry`,
  `LeafEntryIsGreatest`). For images that are not well-formed, `DamagedStep` maps
  each step to what the contract leaves open. Together they give `Implements`
  (`Spec => RefinesContract`). `DescentIsStrict` needs the level part of
  well-formedness only.
* `FsRecords_proofs`: for trees of any height and size. The assumptions are that an
  object map has one entry for an OID and XID and that the root is marked as one,
  and `ListingAssumption`, which is what it means that a volume's tree holds its
  records: each node those between its parent's neighbouring entries. It is made of
  sound trees only. On every image, damaged or not, `PathInv` says that each element
  of `desc_path` is assigned, or that the walk turns back above the first that is
  not, because it meets the nodes that the descent has met (`Trail`): hence
  `PathIsAssigned`, and `Forwards`. In a sound tree, `ListInv` says that what has been
  collected is all there is of the object before the place where the walk is
  (`At`, `Collected`). `BetweenChild` has the descent leave nothing of the object to
  its left, `MoveOn` and `GoDown` have the carry in `desc_path` lead to the place
  where the last node ended. `ListingIsComplete` follows at the three ways to return.
* `Inspect_proofs`: for a ring of any length, any checkpoints, volumes and faults.
  `RingInv` is the writer's part: of the superblocks in the ring, the one with the
  greatest XID ends the last complete checkpoint, which lies right before the place
  where the writer goes on, however often it has crashed there (`AtDiffers`,
  `AtBehind`: places in the ring are apart modulo its length). `MemoryInv` compares
  what the command has in memory with it, and `PassedInv` says that what it has
  passed is not what is wrong, or wrong in a way it puts up with. `FaultAssumption`
  says which faults there are. `FlattenTyped` is the one induction over data: that
  all maps together list addresses, by the lengths of their prefixes.
* `Drat_proofs`: for all command lines, containers and answers. `LineInv`: what has
  been parsed is in the options (`OptionIs`: the last word that names one, or the
  default), and in the OIDs, with a witness for what each prefix of the line
  contributes (`AreSeen`). The properties are defined by recursion over the line;
  `AllSeen` shows that the witness is that recursion. What is mandatory and has not
  been found missing at the end was given (`MissingIs`).
  `SessionInv` has a witness too, the nodes that the numbers typed so far lead to
  (`IsPath`, `TrailIs`): the node in memory is the last of them, whatever invalid
  numbers are among them (`GoesOn`, `Takes`). From `LooksUp` it follows what a lookup
  answers, or which block it could not read (`LookupIs`), what is then read
  (`FollowIs`), and that where the program ends an entry of the node leads to a block
  that is lost, or beyond the end (`LookupStops`, `DanglingStops`). The assumptions
  (`Parameters` of both modules) are types, that the container's blocks fit in 64
  bits, and that lookups in well-formed maps answer as in `OmapLookup`, whose
  theorem `Implements` is the reason; TLC checks it of each container of the run.
* `Recover_proofs`: for any number of processes and all files. `TypeCorrect` needs
  that no more bytes are taken than remain, and that the size found is a number,
  whatever the fields. `OwnsTemp` is inductive: while one
  process owns the temporary name, exclusive creation keeps all others at its
  beginning. `StaleTempStays` follows from it, and with the count below `OnlyWholeReplaces`: what
  `rename()` finds under the temporary name is the caller's own file. For the output, `CopyInv` counts: in
  the copy, the blocks written are those of the extents passed and `index` more,
  and their bytes and those remaining make up the size, or nothing where the user has
  declined; from there to the end they are what `IsWhole` says (`WholeIs`).
  `OutputIsBeginning` and `DoneMeansWhole` follow, given that the file's inode states its size
  (`SizeAssumption`) and that the area of extended fields is shorter than 2^16 bytes
  (`WidthAssumption`), as its 16-bit length has it: then the cursor in
  `get_xf_pairs_array()` does not wrap around before it is where the writer has put
  the value, whatever fields are in front (`SizeIsFound`). `Recursion` shows that the
  sums over the extents and the fields exist and are what their equations say.
* `Mount_proofs`: for any number of transactions and slots, all layouts and command
  lines. The invariant has the writer's part and the command's. The writer keeps
  the last checkpoint intact, and the one before as long as nothing is begun since
  (`LastCheckpoint`, `CheckpointBefore`); what is complete of the transaction under
  way is as it should be (`DoneIsWritten`); and a superblock that looks complete is
  in the slot of its XID and not newer than the last checkpoint (`SlotsByXid`).
  The copy of the descriptor area is of several moments: `Copy` says that each
  superblock in it that looks complete is of a checkpoint that is complete, and, unless
  overtaken since, still where it says (`Located`); and that the one expected is in
  the copy once its slot has been read, unless it has been overtaken
  (`ExpectedCopied`). Hence a scan finds the checkpoint expected or a newer one
  (`CheckpointIsThere`), and from there the command follows one layout, that of the
  superblock chosen, block by block, until it is overtaken (`OnTheWay`, `Follows`).
  `NextSlot`, which says that two XIDs in a row have different slots, is why there
  must be two slots. The assumptions about the writer are what its actions are; a
  writer that used blocks of the last checkpoint would break `LastCheckpoint`.
* `Blocks_proofs`, on `BlockIO`: for all containers, block sizes and calls. The
  invariant adds to the properties that the flags are clear at all times but in a
  process that has been aborted, and that a call that goes on has a block left to
  read. `OffsetIsNamed` carries the modulus.
* `Blocks_proofs`, on `Search`: for all disks, bad sectors and ranges.
  `SearchUsesBlockIO` shows that every step of a search is a step of `BlockIO` or
  none, so that its invariant holds. `PhaseInv` says where the search is; `CountInv`
  says that the block in the buffer is the one at the address, and that what has
  been counted is what is found before the address and by the criteria that have
  had their turn. `OneBlock` is why a block that is not read cannot be read,
  `HitsAdd` that the criteria together find the hits of a block, each once.
* `Blocks_proofs`, on `Cksum`: for words of any width and blocks of any length.
  Modular arithmetic is by way of `Cong`, differing by a multiple of the modulus.
  `LoopSums`: at every word the two sums are congruent to the plain sum so far and
  to the sum weighted by the distance from the next word. So two blocks have the
  same checksum just if their sums from end to end are congruent (`SameChecksum`),
  and a sum changes by what the word changes by (`OneChanged`).
* `Navigate_proofs`: for every volume and path. `FollowsPath` says that the object
  in hand ends a walk over the elements taken and that its records are in hand;
  `IInv` adds what is known of `--fsoid` and the ends. `EndIsOfAbsence` needs
  moreover that the walk is the only one where names are unique (`OnlyWay`),
  which `LeadsTo`'s lemmas (`WalkExtends`, `WalkShortens`, `WalkPasses`) carry
  from element to element.

Each of these inductive invariants that is not itself a property has been checked
by TLC on the instance of its run (`PathInv` and `ListInv`, which quantify over
trails, with two records instead of four). Sums, prefixes and paths
are recursive functions; the library's induction theorems cannot be used here,
so inductions over numbers are by way of a set of numbers without a least element
(`UpTo`, `Least`).

Only model-checked: all liveness (`Terminates` of three modules and
`EndsUnlessUnanswerable`), which is out of the prover's reach. Every invariant and
every action property of the runs is a theorem.

## Not modelled, and what is next

* Failing allocations: a message and an exit, or `ABORT`, everywhere.
* `modify`: it is commented out in the table of commands (`commands.c:8`), so that
  nothing calls it; it is a notebook of one-off repairs with addresses written
  into the code. Nor is the code under `if (false)` in `search.c`.
* The tests of object types (`boolean.c`): each compares a field with a
  constant; a block's kind stands for their results.
* Formatting (`string/*.c`, `print-fs-records.c`, `time.c`): nothing depends on what
  is printed.
* `write_blocks()`: only `modify` calls it.

Next: the composition of `Mount` with `Navigate` and `Recover` into one invocation
against one writer.
