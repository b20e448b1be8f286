--------------------------- MODULE Inspect_proofs ---------------------------
(***************************************************************************)
(* Theorems about Inspect, for a ring of every length, any checkpoints,    *)
(* volumes and faults: the last checkpoint that is complete is loaded, the *)
(* command is done only if all that it leads to is in order, and ends      *)
(* before only for a reason.                                               *)
(***************************************************************************)
EXTENDS Inspect, SequenceTheorems, WellFoundedInduction, TLAPS

-----------------------------------------------------------------------------
(* The inductive invariant.                                                *)

(* The ring holds the last checkpoint, and its superblock is the newest    *)
(* one that is valid.                                                      *)
IsCheckpoint(blocks) ==
  /\ blocks \in Seq(Block)
  /\ Len(blocks) \in 1 .. xp_desc_blocks
  /\ LET last == blocks[Len(blocks)] IN
       /\ last.kind = "nxsb" /\ last.valid /\ last.xid > 0
       /\ last.len = Len(blocks)
       /\ \A k \in 1 .. Len(blocks) - 1 : blocks[k].kind = "map"

At(index, k) == (index + k - 1) % xp_desc_blocks

RingInv ==
  /\ ring \in [Slot -> Block]
  /\ head \in Slot
  /\ checkpoint # <<>> => IsCheckpoint(checkpoint)
  /\ \A s \in Slot :
       ring[s].valid /\ ring[s].kind = "nxsb" => checkpoint # <<>> /\ ring[s].xid <= committed
  /\ checkpoint # <<>> =>
       LET last == checkpoint[Len(checkpoint)] IN
         /\ \A k \in 1 .. Len(checkpoint) : ring[At(last.index, k)] = checkpoint[k]
         /\ \A s \in Slot : ring[s].valid /\ ring[s].kind = "nxsb" /\ ring[s].xid = last.xid
                               => s = At(last.index, Len(checkpoint))
         /\ head = (last.index + Len(checkpoint)) % xp_desc_blocks

(* The phases, from the end backwards, of a run that does not end early.   *)
WithVolumes == {"volume", "root", "records", "done"}
WithCount == {"volumes"} \union WithVolumes
WithContainerOmap == {"count volumes"} \union WithCount
WithEphemeral == {"nx_omap"} \union WithContainerOmap
WithCheckpoint == {"checkpoint", "ephemeral objects"} \union WithEphemeral
WithSuperblock == {"copy"} \union WithCheckpoint
WithArea == {"scan"} \union WithSuperblock
Ends == {"failed", "ended", "aborted"}

(* What the command has in memory, compared with the container.            *)
MemoryInv ==
  /\ phase \in {"not run yet", "area"} \union WithArea \union Ends
  /\ nx_fs_oid \in VolumeLists /\ fault \in Faults
  /\ phase \in {"not run yet", "area", "scan", "copy"} => xp = <<>>
  /\ phase \notin (WithCheckpoint \ {"checkpoint"}) \union Ends => xp_obj = <<>>
  /\ phase \notin WithCount \union Ends => apsbs = <<>>
  /\ phase \in WithArea => xp_desc = ring
  /\ phase \in WithSuperblock => checkpoint # <<>> /\ nxsb = Last(checkpoint)
  /\ xp \in {<<>>, checkpoint}
  /\ phase \in WithCheckpoint => xp = checkpoint
  /\ xp_obj \in Seq(Nat)
  /\ phase \in WithCheckpoint =>
       /\ Len(xp_obj) <= Len(Mappings(checkpoint))
       /\ \A k \in 1 .. Len(xp_obj) : xp_obj[k] = Mappings(checkpoint)[k]
  /\ num_file_systems \in 0 .. Len(nx_fs_oid)
  /\ apsbs \in Seq(Nat)
  /\ phase \in WithCount =>
       /\ Len(apsbs) <= num_file_systems
       /\ \A k \in 1 .. Len(apsbs) : apsbs[k] = nx_fs_oid[k]
  /\ phase \in WithVolumes => Len(apsbs) = num_file_systems
  /\ i \in Nat \ {0} /\ j \in Nat \ {0}
  /\ phase \notin WithVolumes \union Ends => i = 1
  /\ phase \in WithVolumes => i <= num_file_systems + 1
  /\ phase \in {"root", "records"} => i <= num_file_systems
  /\ phase = "done" => i = num_file_systems + 1
  /\ phase \notin {"records"} \union Ends => j = 1
  /\ phase = "records" => j <= NUM_QUERIES + 1

(* What the command has passed is not what is wrong, or not in a way that  *)
(* it does not put up with.                                                *)
Fine(thing) == fault.thing # thing \/ Tolerated
FineOmap(o) == Fine(VolumeOmap(o)) /\ Fine(VolumeTree(o))
FineVolume(o) == FineOmap(o) /\ Fine(Root(o)) /\ \A k \in 1 .. NUM_QUERIES : Fine(Query(o, k))

PassedInv ==
  /\ phase \notin {"not run yet"} \union Ends => contiguous /\ Fine(BlockZero)
  /\ phase \in WithArea => Fine(Area)
  /\ \A k \in 1 .. Len(xp_obj) : ~Is(Ephemeral(xp_obj[k]), "unreadable")
  /\ phase \in WithEphemeral =>
       \A k \in 1 .. Len(Mappings(checkpoint)) : Fine(Ephemeral(Mappings(checkpoint)[k]))
  /\ phase \in WithContainerOmap => Fine(ContainerOmap) /\ Fine(ContainerTree)
  /\ \A k \in 1 .. Len(apsbs) : fault.thing = Volume(apsbs[k]) => fault.kind = "invalid"
  /\ phase \in WithVolumes =>
       /\ \A k \in 1 .. Len(apsbs) : Fine(Volume(apsbs[k]))
       /\ \A k \in 1 .. i - 1 : FineVolume(apsbs[k])
  /\ phase \in {"root", "records"} => FineOmap(apsbs[i])
  /\ phase = "records" => Fine(Root(apsbs[i])) /\ \A k \in 1 .. j - 1 : Fine(Query(apsbs[i], k))

Inv == RingInv /\ MemoryInv /\ PassedInv /\ StopsOnlyForReason

-----------------------------------------------------------------------------
(* Lemmas about sequences and about the ring.                              *)

(* A set of numbers up to d that holds 1 and the successor of each number  *)
(* below d in it holds them all.                                           *)
LEMMA UpTo ==
  ASSUME NEW d \in Nat, NEW T, 1 \in T, \A l \in 1 .. d - 1 : l \in T => l + 1 \in T
  PROVE  \A l \in 1 .. d : l \in T
<1> DEFINE Out == {l \in 1 .. d : l \notin T}
           R == OpToRel(<, Nat)
<1> SUFFICES ASSUME Out # {}
             PROVE  FALSE
  OBVIOUS
<1>1. IsWellFoundedOn(R, Nat)
  BY NatLessThanWellFounded
<1>2. \A m, n \in Nat : m < n => <<m, n>> \in R
  BY DEF OpToRel
<1> HIDE DEF R
<1>3. Out \in SUBSET Nat
  OBVIOUS
<1>4. PICK n \in Out : \A m \in Out : <<m, n>> \notin R
  <2>1. \E n \in Out : \A m \in Out : ~ (<<m, n>> \in R)
    BY <1>1, <1>3, WFMin
  <2> QED
    BY <2>1
<1>5. n - 1 \in 1 .. d - 1 /\ n - 1 \in T
  <2>1. n # 1
    OBVIOUS
  <2>2. n \in Nat /\ n - 1 \in Nat /\ n - 1 < n
    BY <2>1
  <2>3. n - 1 \notin Out
    BY <1>2, <1>4, <2>2
  <2> QED
    BY <2>1, <2>2, <2>3
<1>6. (n - 1) + 1 \in T
  BY <1>5
<1>7. (n - 1) + 1 = n
  OBVIOUS
<1> QED
  BY <1>6, <1>7

(* FlattenSeq makes a sequence of numbers of sequences of numbers.         *)
LEMMA FlattenTyped ==
  ASSUME NEW seqs \in Seq(Seq(Nat))
  PROVE  FlattenSeq(seqs) \in Seq(Nat)
<1>0. CASE Len(seqs) = 0
  <2>1. seqs = <<>>
    BY <1>0
  <2> QED
    BY <1>0, <2>1 DEF FlattenSeq
<1>1. CASE Len(seqs) # 0
  <2> DEFINE D == 1 .. Len(seqs)
             Body(f, k) == IF k = 1 THEN seqs[k] ELSE f[k - 1] \o seqs[k]
             Upto(n) == {f \in [1 .. n -> Seq(Nat)] : \A k \in 1 .. n : f[k] = Body(f, k)}
             T == {n \in D : Upto(n) # {}}
             flatten == CHOOSE f : f = [k \in D |-> Body(f, k)]
  <2>0. Len(seqs) \in Nat \ {0} /\ \A k \in D : seqs[k] \in Seq(Nat)
    BY <1>1
  <2>1. 1 \in T
    <3>1. [k \in 1 .. 1 |-> seqs[1]] \in Upto(1)
      BY <2>0
    <3>2. Upto(1) # {} /\ 1 \in D
      BY <2>0, <3>1
    <3> QED
      BY <3>2
  <2>2. ASSUME NEW n \in 1 .. Len(seqs) - 1, n \in T
        PROVE  n + 1 \in T
    <3>1. PICK f : f \in Upto(n)
      BY <2>2
    <3> DEFINE g == [k \in 1 .. n + 1 |-> IF k <= n THEN f[k] ELSE f[n] \o seqs[n + 1]]
    <3>2. n \in Nat /\ n >= 1 /\ n + 1 \in D
      BY <2>0
    <3>3. f[n] \in Seq(Nat) /\ seqs[n + 1] \in Seq(Nat)
      BY <2>0, <3>1, <3>2
    <3>4. g \in [1 .. n + 1 -> Seq(Nat)]
      <4>1. ASSUME NEW k \in 1 .. n + 1
            PROVE  g[k] \in Seq(Nat)
        <5>1. CASE k <= n
          BY <3>1, <5>1
        <5>2. CASE k = n + 1
          BY <3>2, <3>3, <5>2
        <5> QED
          BY <5>1, <5>2, <3>2
      <4> QED
        BY <4>1
    <3>5. ASSUME NEW k \in 1 .. n + 1
          PROVE  g[k] = Body(g, k)
      <4>1. CASE k <= n
        <5>0. k \in 1 .. n
          BY <3>2, <4>1
        <5>1. f[k] = Body(f, k) /\ g[k] = f[k]
          BY <3>1, <4>1, <5>0
        <5>2. k # 1 => k - 1 \in 1 .. n /\ g[k - 1] = f[k - 1]
          BY <3>2, <4>1
        <5> QED
          BY <5>1, <5>2
      <4>2. CASE k = n + 1
        <5>0. ~(k <= n) /\ k \in 1 .. n + 1
          BY <3>2, <4>2
        <5>1. g[k] = f[n] \o seqs[n + 1]
          BY <5>0
        <5>2. k # 1 /\ k - 1 = n /\ n \in 1 .. n + 1
          BY <3>2, <4>2
        <5>3. g[n] = f[n]
          BY <3>2, <5>2
        <5> QED
          BY <4>2, <5>1, <5>2, <5>3
      <4> QED
        BY <4>1, <4>2, <3>2
    <3>6. g \in Upto(n + 1)
      BY <3>4, <3>5
    <3> HIDE DEF Upto
    <3> QED
      BY <3>2, <3>6
  <2>3. Len(seqs) \in T
    <3> HIDE DEF T
    <3>1. \A l \in 1 .. Len(seqs) : l \in T
      BY <2>0, <2>1, <2>2, UpTo
    <3> QED
      BY <2>0, <3>1
  <2>4. PICK f : f \in Upto(Len(seqs))
    BY <2>3
  <2>5. f = [k \in D |-> Body(f, k)]
    BY <2>4
  <2>6. flatten = [k \in D |-> Body(flatten, k)]
    BY <2>5
  <2>7. FlattenSeq(seqs) = flatten[Len(seqs)]
    BY <1>1 DEF FlattenSeq
  <2> DEFINE S == {k \in D : flatten[k] \in Seq(Nat)}
  <2> HIDE DEF flatten
  <2>8. 1 \in S
    BY <2>0, <2>6
  <2>9. ASSUME NEW n \in 1 .. Len(seqs) - 1, n \in S
        PROVE  n + 1 \in S
    <3>1. n + 1 \in D /\ n + 1 # 1 /\ (n + 1) - 1 = n
      BY <2>0
    <3>2. flatten[n + 1] = flatten[n] \o seqs[n + 1]
      BY <2>6, <3>1
    <3>3. flatten[n] \in Seq(Nat) /\ seqs[n + 1] \in Seq(Nat)
      BY <2>0, <2>9, <3>1
    <3>4. flatten[n] \o seqs[n + 1] \in Seq(Nat)
      BY <3>3
    <3> QED
      BY <3>1, <3>2, <3>4
  <2>10. Len(seqs) \in S
    <3> HIDE DEF S
    <3>1. \A l \in 1 .. Len(seqs) : l \in S
      BY <2>0, <2>8, <2>9, UpTo
    <3> QED
      BY <2>0, <3>1
  <2> QED
    BY <2>7, <2>10
<1> QED
  BY <1>0, <1>1

(* The addresses in the maps of a checkpoint.                              *)
LEMMA MappingsTyped ==
  ASSUME NEW blocks \in Seq(Block)
  PROVE  Mappings(blocks) \in Seq(Nat)
<1> DEFINE maps == [k \in DOMAIN blocks |->
                      IF blocks[k].kind = "map" THEN blocks[k].cpm_map ELSE <<>>]
<1>1. Len(blocks) \in Nat /\ DOMAIN blocks = 1 .. Len(blocks)
  OBVIOUS
<1>2. \A k \in DOMAIN blocks : blocks[k] \in Block
  OBVIOUS
<1>3. \A k \in DOMAIN blocks : blocks[k].cpm_map \in Seq(Nat)
  BY <1>2 DEF Block
<1>4. \A k \in DOMAIN blocks : maps[k] \in Seq(Nat)
  BY <1>3
<1>5. maps \in Seq(Seq(Nat))
  BY <1>1, <1>4
<1> QED
  BY <1>5, FlattenTyped DEF Mappings

(* Indices into the ring.                                                  *)
LEMMA Wrap ==
  ASSUME NEW x \in 0 .. 2 * xp_desc_blocks - 1
  PROVE  x % xp_desc_blocks = IF x < xp_desc_blocks THEN x ELSE x - xp_desc_blocks
<1> DEFINE n == xp_desc_blocks
<1>1. n \in Nat \ {0}
  BY RingAssumption
<1>2. CASE x < n
  BY <1>1, <1>2
<1>3. CASE x >= n
  BY <1>1, <1>3
<1> QED
  BY <1>1, <1>2, <1>3

(* A sequence with one more element.                                       *)
LEMMA Longer ==
  ASSUME NEW s \in Seq(Nat), NEW a \in Nat
  PROVE  /\ Append(s, a) \in Seq(Nat) /\ Len(Append(s, a)) = Len(s) + 1
         /\ \A k \in 1 .. Len(Append(s, a)) :
              \/ k \in 1 .. Len(s) /\ Append(s, a)[k] = s[k]
              \/ k = Len(s) + 1 /\ Append(s, a)[k] = a
<1>1. Append(s, a) \in Seq(Nat) /\ Len(Append(s, a)) = Len(s) + 1 /\ Len(s) \in Nat
  OBVIOUS
<1>2. \A k \in 1 .. Len(s) + 1 : k \in 1 .. Len(s) \/ k = Len(s) + 1
  BY <1>1
<1>3. \A k \in 1 .. Len(s) : Append(s, a)[k] = s[k]
  OBVIOUS
<1>4. Append(s, a)[Len(s) + 1] = a
  OBVIOUS
<1> QED
  BY <1>1, <1>2, <1>3, <1>4

(* Where the blocks from one on are that is i blocks away.                 *)
LEMMA AtIs ==
  ASSUME NEW index \in Slot, NEW k \in 1 .. xp_desc_blocks
  PROVE  /\ At(index, k) \in Slot
         /\ At(index, k) = IF index + k - 1 < xp_desc_blocks THEN index + k - 1
                           ELSE index + k - 1 - xp_desc_blocks
<1>1. xp_desc_blocks \in Nat \ {0}
  BY RingAssumption
<1>2. index + k - 1 \in 0 .. 2 * xp_desc_blocks - 1
  BY <1>1 DEF Slot
<1> QED
  BY <1>1, <1>2, Wrap DEF At, Slot

(* Different blocks of a checkpoint, and blocks of two checkpoints one     *)
(* behind the other, are in different places.                              *)
LEMMA AtDiffers ==
  ASSUME NEW index \in Slot, NEW k \in 1 .. xp_desc_blocks, NEW l \in 1 .. xp_desc_blocks,
         At(index, k) = At(index, l)
  PROVE  k = l
<1>1. xp_desc_blocks \in Nat \ {0}
  BY RingAssumption
<1>2. At(index, k) = IF index + k - 1 < xp_desc_blocks THEN index + k - 1
                     ELSE index + k - 1 - xp_desc_blocks
  BY AtIs
<1>3. At(index, l) = IF index + l - 1 < xp_desc_blocks THEN index + l - 1
                     ELSE index + l - 1 - xp_desc_blocks
  BY AtIs
<1>4. (IF index + k - 1 < xp_desc_blocks THEN index + k - 1 ELSE index + k - 1 - xp_desc_blocks)
      = (IF index + l - 1 < xp_desc_blocks THEN index + l - 1 ELSE index + l - 1 - xp_desc_blocks)
  BY <1>2, <1>3, Zenon
<1> QED
  BY <1>1, <1>4 DEF Slot

(* So is a block behind the checkpoint.                                    *)
LEMMA AtBehind ==
  ASSUME NEW index \in Slot, NEW len \in 1 .. xp_desc_blocks, NEW m \in 1 .. xp_desc_blocks,
         len + m <= xp_desc_blocks
  PROVE  /\ (index + len) % xp_desc_blocks \in Slot
         /\ \A k \in 1 .. len :
              At(index, k) # At((index + len) % xp_desc_blocks, m)
<1>1. xp_desc_blocks \in Nat \ {0}
  BY RingAssumption
<1> DEFINE x == index + len
           end == x % xp_desc_blocks
<1>2. x \in 0 .. 2 * xp_desc_blocks - 1
  BY <1>1 DEF Slot
<1>3. end = IF x < xp_desc_blocks THEN x ELSE x - xp_desc_blocks
  <2> HIDE DEF x
  <2> QED
    BY <1>2, Wrap
<1>4. end \in Slot
  BY <1>1, <1>2, <1>3 DEF Slot
<1> HIDE DEF end
<1>5. ASSUME NEW k \in 1 .. len
      PROVE  At(index, k) # At(end, m)
  <2>1. k \in 1 .. xp_desc_blocks
    BY <1>1
  <2>2. At(index, k) = IF index + k - 1 < xp_desc_blocks THEN index + k - 1
                       ELSE index + k - 1 - xp_desc_blocks
    BY <2>1, AtIs
  <2>3. At(end, m) = IF end + m - 1 < xp_desc_blocks THEN end + m - 1
                     ELSE end + m - 1 - xp_desc_blocks
    BY <1>4, AtIs
  <2> QED
    BY <1>1, <1>3, <2>2, <2>3 DEF Slot
<1> QED
  BY <1>4, <1>5 DEF end

(* A checkpoint as the writer makes it.                                    *)
LEMMA NewCheckpointTyped ==
  ASSUME NEW maps \in MapLists, committed \in Nat, committed < MaxXid, head \in Slot,
         Len(maps) + 1 <= xp_desc_blocks
  PROVE  LET new == NewCheckpoint(maps) IN
         /\ new \in Seq(Block) /\ Len(new) = Len(maps) + 1 /\ Len(new) \in 1 .. xp_desc_blocks
         /\ IsCheckpoint(new)
         /\ \A k \in 1 .. Len(new) : new[k].kind = (IF k = Len(new) THEN "nxsb" ELSE "map")
         /\ new[Len(new)].xid = committed + 1 /\ new[Len(new)].index = head
<1> DEFINE new == NewCheckpoint(maps)
           L == Len(maps) + 1
<1>1. xp_desc_blocks \in Nat \ {0} /\ MaxXid \in Nat
  BY RingAssumption
<1>2. maps \in Seq(Seq(Nat)) /\ Len(maps) \in Nat
  BY MapAssumption
<1> DEFINE block == [Blank EXCEPT !.valid = TRUE, !.xid = committed + 1]
<1>3. 0 \in 0 .. MaxXid /\ 0 \in Slot /\ 0 \in 0 .. xp_desc_blocks /\ <<>> \in Seq(Nat)
      /\ committed + 1 \in 0 .. MaxXid /\ L \in 0 .. xp_desc_blocks /\ L \in 1 .. xp_desc_blocks
  BY <1>1, <1>2 DEF Slot
<1>4. block \in Block /\ block.valid /\ block.xid = committed + 1
  BY <1>3 DEF Block, Blank
<1>5. /\ DOMAIN new = 1 .. L
      /\ \A k \in 1 .. Len(maps) : new[k] = [block EXCEPT !.kind = "map", !.cpm_map = maps[k]]
      /\ new[L] = [block EXCEPT !.kind = "nxsb", !.index = head, !.len = L]
  <2>1. DOMAIN new = 1 .. L
    BY DEF NewCheckpoint
  <2>2. ASSUME NEW k \in 1 .. Len(maps)
        PROVE  new[k] = [block EXCEPT !.kind = "map", !.cpm_map = maps[k]]
    <3>1. k \in 1 .. L /\ k <= Len(maps)
      BY <1>2
    <3> QED
      BY <3>1, Zenon DEF NewCheckpoint
  <2>3. new[L] = [block EXCEPT !.kind = "nxsb", !.index = head, !.len = L]
    <3>1. L \in 1 .. L /\ ~(L <= Len(maps))
      BY <1>2
    <3> QED
      BY <3>1, Zenon DEF NewCheckpoint
  <2> QED
    BY <2>1, <2>2, <2>3
<1>6. new = [k \in 1 .. L |-> new[k]]
  BY <1>5 DEF NewCheckpoint
<1> HIDE DEF new, block
<1>7. \A k \in 1 .. Len(maps) : new[k] \in Block /\ new[k].kind = "map"
  <2>1. \A maps_k \in Seq(Nat) :
          LET b == [block EXCEPT !.kind = "map", !.cpm_map = maps_k]
          IN b \in Block /\ b.kind = "map"
    BY <1>4 DEF Block
  <2>2. \A k \in 1 .. Len(maps) : maps[k] \in Seq(Nat)
    BY <1>2
  <2>3. ASSUME NEW k \in 1 .. Len(maps)
        PROVE  new[k] \in Block /\ new[k].kind = "map"
    <3> DEFINE b == [block EXCEPT !.kind = "map", !.cpm_map = maps[k]]
    <3>1. b \in Block /\ b.kind = "map"
      BY <2>1, <2>2
    <3>2. new[k] = b
      BY <1>5
    <3> HIDE DEF b
    <3> QED
      BY <3>1, <3>2
  <2> QED
    BY <2>3
<1>8. /\ new[L] \in Block /\ new[L].kind = "nxsb" /\ new[L].valid /\ new[L].xid = committed + 1
      /\ new[L].index = head /\ new[L].len = L
  <2> DEFINE b == [block EXCEPT !.kind = "nxsb", !.index = head, !.len = L]
  <2>1. /\ b \in Block /\ b.kind = "nxsb" /\ b.valid /\ b.xid = committed + 1
        /\ b.index = head /\ b.len = L
    BY <1>3, <1>4 DEF Block
  <2>2. new[L] = b
    BY <1>5
  <2> HIDE DEF b
  <2> QED
    BY <2>1, <2>2
<1>9. \A k \in 1 .. L : (k \in 1 .. Len(maps) /\ k # L) \/ k = L
  BY <1>2
<1>10. new \in Seq(Block) /\ Len(new) = L
  <2>1. \A k \in 1 .. L : new[k] \in Block
    BY <1>7, <1>8, <1>9
  <2>2. [k \in 1 .. L |-> new[k]] \in Seq(Block) /\ Len([k \in 1 .. L |-> new[k]]) = L
    BY <1>2, <2>1
  <2> QED
    BY <1>6, <2>2
<1>11. \A k \in 1 .. L : new[k].kind = (IF k = L THEN "nxsb" ELSE "map")
  BY <1>7, <1>8, <1>9
<1>12. IsCheckpoint(new)
  <2>1. \A k \in 1 .. L - 1 : new[k].kind = "map"
    BY <1>2, <1>7
  <2>2. new[L].xid > 0
    BY <1>8
  <2> QED
    BY <1>3, <1>8, <1>10, <2>1, <2>2 DEF IsCheckpoint
<1> QED
  BY <1>3, <1>8, <1>10, <1>11, <1>12 DEF new

(* However far the writer comes, the ring holds the last checkpoint.       *)
LEMMA WriterKeepsRing ==
  ASSUME RingInv, NEW maps \in MapLists, NEW n \in 0 .. Len(maps) + 1, WriteCheckpoint(maps, n)
  PROVE  RingInv'
<1> DEFINE new == NewCheckpoint(maps)
           L == Len(new)
           Written(k) == IF k <= n THEN new[k] ELSE [new[k] EXCEPT !.valid = FALSE]
           written == 1 .. (IF n < L THEN n + 1 ELSE n)
           last == checkpoint[Len(checkpoint)]
<1>1. xp_desc_blocks \in Nat \ {0} /\ MaxXid \in Nat /\ Len(maps) \in Nat
  BY RingAssumption, MapAssumption
<1>2. /\ committed \in Nat
      /\ checkpoint # <<>> => /\ committed = last.xid /\ last \in Block
                              /\ checkpoint \in Seq(Block) /\ Len(checkpoint) \in 1 .. xp_desc_blocks
      /\ checkpoint = <<>> => committed = 0
  <2>1. CASE checkpoint = <<>>
    BY <2>1 DEF committed
  <2>2. CASE checkpoint # <<>>
    <3>1. checkpoint \in Seq(Block) /\ Len(checkpoint) \in 1 .. xp_desc_blocks
      BY <2>2 DEF RingInv, IsCheckpoint
    <3>2. last \in Block
      BY <3>1
    <3> QED
      BY <2>2, <3>1, <3>2, <1>1 DEF committed, Last, Block
  <2> QED
    BY <2>1, <2>2
<1>3. Len(checkpoint) \in Nat
  BY <1>2
<1>4. committed < MaxXid /\ Len(checkpoint) + L <= xp_desc_blocks /\ head \in Slot
  BY DEF WriteCheckpoint, RingInv
<1>5. /\ new \in Seq(Block) /\ L = Len(maps) + 1 /\ L \in 1 .. xp_desc_blocks
      /\ IsCheckpoint(new)
      /\ \A k \in 1 .. L : new[k].kind = (IF k = L THEN "nxsb" ELSE "map")
      /\ new[L].xid = committed + 1 /\ new[L].index = head
  <2>1. Len(new) = Len(maps) + 1
    BY <1>1 DEF NewCheckpoint
  <2>2. Len(maps) + 1 <= xp_desc_blocks
    BY <1>1, <1>3, <1>4, <2>1
  <2> QED
    BY <1>2, <1>4, <2>2, NewCheckpointTyped
<1>6. ring' = [s \in Slot |-> IF \E k \in written : At(head, k) = s
                                THEN Written(CHOOSE k \in written : At(head, k) = s) ELSE ring[s]]
  BY DEF WriteCheckpoint, At
<1>7. IF n = L THEN checkpoint' = new /\ head' = (head + n) % xp_desc_blocks
               ELSE checkpoint' = checkpoint /\ head' = head
  BY DEF WriteCheckpoint
<1> HIDE DEF new
<1>8. n \in 0 .. L /\ written \subseteq 1 .. L /\ written \subseteq 1 .. xp_desc_blocks
      /\ (n = L => written = 1 .. L)
  BY <1>1, <1>5
<1>9. \A k \in 1 .. L : new[k] \in Block /\ Written(k) \in Block
  <2>1. \A k \in 1 .. L : new[k] \in Block
    BY <1>5
  <2>2. \A b \in Block : [b EXCEPT !.valid = FALSE] \in Block
    BY DEF Block
  <2> QED
    BY <2>1, <2>2
<1>10. \A k \in written : At(head, k) \in Slot /\ ring'[At(head, k)] = Written(k)
  <2> SUFFICES ASSUME NEW k \in written
               PROVE  At(head, k) \in Slot /\ ring'[At(head, k)] = Written(k)
    OBVIOUS
  <2>1. At(head, k) \in Slot
    BY <1>4, <1>8, AtIs
  <2> DEFINE c == CHOOSE m \in written : At(head, m) = At(head, k)
  <2>2. c \in written /\ At(head, c) = At(head, k)
    OBVIOUS
  <2>3. c = k
    BY <1>4, <1>8, <2>2, AtDiffers
  <2>4. ring'[At(head, k)] = Written(c)
    BY <1>6, <2>1
  <2> QED
    BY <2>1, <2>3, <2>4
<1>11. \A s \in Slot : (\A k \in written : At(head, k) # s) => ring'[s] = ring[s]
  BY <1>6
<1>12. ring' \in [Slot -> Block]
  <2>1. ASSUME NEW s \in Slot
        PROVE  ring'[s] \in Block
    <3>1. CASE \E k \in written : At(head, k) = s
      BY <1>8, <1>9, <1>10, <3>1
    <3>2. CASE \A k \in written : At(head, k) # s
      BY <1>11, <3>2 DEF RingInv
    <3> QED
      BY <3>1, <3>2
  <2> QED
    BY <1>6, <2>1
<1> HIDE DEF Written, written
<1>13. ASSUME n = L
       PROVE  RingInv'
  <2>1. checkpoint' = new /\ head' = (head + L) % xp_desc_blocks /\ committed' = committed + 1
    <3>1. checkpoint' = new /\ new # <<>>
      BY <1>5, <1>7, <1>13
    <3> QED
      BY <1>5, <1>7, <1>13, <3>1 DEF committed, Last
  <2>2. \A k \in 1 .. L : Written(k) = new[k] /\ ring'[At(head, k)] = new[k]
    BY <1>8, <1>10, <1>13, <1>5 DEF Written
  <2>3. head' \in Slot
    <3> DEFINE x == head + L
    <3>1. x \in 0 .. 2 * xp_desc_blocks - 1
      BY <1>1, <1>4, <1>5 DEF Slot
    <3>2. x % xp_desc_blocks = IF x < xp_desc_blocks THEN x ELSE x - xp_desc_blocks
      <4> HIDE DEF x
      <4> QED
        BY <3>1, Wrap
    <3> QED
      BY <1>1, <2>1, <3>1, <3>2 DEF Slot
  <2>4. \A s \in Slot : ring'[s].valid /\ ring'[s].kind = "nxsb" =>
          \/ s = At(head, L) /\ ring'[s].xid = committed + 1
          \/ ring'[s].xid <= committed
    <3> SUFFICES ASSUME NEW s \in Slot, ring'[s].valid, ring'[s].kind = "nxsb"
                 PROVE  \/ s = At(head, L) /\ ring'[s].xid = committed + 1
                        \/ ring'[s].xid <= committed
      OBVIOUS
    <3>1. CASE \E k \in 1 .. L : At(head, k) = s
      <4>1. PICK k \in 1 .. L : At(head, k) = s
        BY <3>1
      <4>2. ring'[s] = new[k]
        BY <2>2, <4>1
      <4>3. k = L
        BY <1>5, <4>2
      <4> QED
        BY <1>5, <4>1, <4>2, <4>3
    <3>2. CASE \A k \in 1 .. L : At(head, k) # s
      <4>1. ring'[s] = ring[s]
        BY <1>8, <1>11, <1>13, <3>2
      <4> QED
        BY <4>1 DEF RingInv
    <3> QED
      BY <3>1, <3>2
  <2>5. \A s \in Slot : ring'[s].valid /\ ring'[s].kind = "nxsb" =>
          ring'[s].xid <= committed + 1 /\ (ring'[s].xid = committed + 1 => s = At(head, L))
    <3>1. \A s \in Slot : ring'[s].xid \in Nat
      BY <1>1, <1>12 DEF Block
    <3> QED
      BY <1>2, <2>4, <3>1
  <2>6. new # <<>>
    BY <1>5
  <2> QED
    BY <1>5, <1>12, <2>1, <2>2, <2>3, <2>5, <2>6 DEF RingInv
<1>14. ASSUME n # L
       PROVE  RingInv'
  <2>1. checkpoint' = checkpoint /\ head' = head /\ committed' = committed
    <3>1. checkpoint' = checkpoint /\ head' = head
      BY <1>7, <1>14
    <3> QED
      BY <3>1 DEF committed
  <2>2. ASSUME NEW s \in Slot, ring'[s].valid, ring'[s].kind = "nxsb"
        PROVE  ring'[s] = ring[s]
    <3>1. CASE \E k \in written : At(head, k) = s
      <4>1. PICK k \in written : At(head, k) = s
        BY <3>1
      <4>2. ring'[s] = Written(k)
        BY <1>10, <4>1
      <4>3. k \in 1 .. L /\ k <= n + 1 /\ n < L /\ new[k] \in Block
        BY <1>5, <1>8, <1>9, <1>14, <4>1 DEF written
      <4>4. CASE k <= n
        <5>1. ring'[s] = new[k] /\ k # L
          BY <1>8, <4>2, <4>3, <4>4 DEF Written
        <5> QED
          BY <1>5, <2>2, <4>3, <5>1
      <4>5. CASE ~ (k <= n)
        <5>1. ring'[s] = [new[k] EXCEPT !.valid = FALSE]
          BY <4>2, <4>5 DEF Written
        <5> QED
          BY <2>2, <4>3, <5>1 DEF Block
      <4> QED
        BY <4>4, <4>5
    <3>2. CASE \A k \in written : At(head, k) # s
      BY <1>11, <3>2
    <3> QED
      BY <3>1, <3>2
  <2>3. ASSUME checkpoint # <<>>, NEW k \in 1 .. Len(checkpoint)
        PROVE  ring'[At(last.index, k)] = ring[At(last.index, k)]
    <3>1. last.index \in Slot /\ k \in 1 .. xp_desc_blocks
      BY <1>1, <1>2, <2>3 DEF Block
    <3>2. At(last.index, k) \in Slot
      BY <3>1, AtIs
    <3>3. head = (last.index + Len(checkpoint)) % xp_desc_blocks
      BY <2>3 DEF RingInv
    <3>4. ASSUME NEW m \in written
          PROVE  At(head, m) # At(last.index, k)
      <4>1. m \in 1 .. xp_desc_blocks /\ Len(checkpoint) + m <= xp_desc_blocks
        BY <1>1, <1>3, <1>4, <1>5, <1>8
      <4>2. Len(checkpoint) \in 1 .. xp_desc_blocks
        BY <1>2, <2>3
      <4> QED
        BY <2>3, <3>1, <3>3, <4>1, <4>2, AtBehind
    <3> QED
      BY <1>11, <3>2, <3>4
  <2> QED
    BY <1>12, <2>1, <2>2, <2>3 DEF RingInv
<1> QED
  BY <1>13, <1>14

-----------------------------------------------------------------------------
(* Lemmas about the command.                                               *)

(* The superblock of the last checkpoint is its last block.                *)
LEMMA LastTyped ==
  ASSUME RingInv, checkpoint # <<>>
  PROVE  LET last == checkpoint[Len(checkpoint)] IN
         /\ checkpoint \in Seq(Block) /\ Len(checkpoint) \in 1 .. xp_desc_blocks
         /\ last \in Block /\ last = Last(checkpoint) /\ committed = last.xid
         /\ At(last.index, Len(checkpoint)) \in Slot
<1>1. checkpoint \in Seq(Block) /\ Len(checkpoint) \in 1 .. xp_desc_blocks
  BY DEF RingInv, IsCheckpoint
<1>2. checkpoint[Len(checkpoint)] \in Block
  BY <1>1
<1>3. checkpoint[Len(checkpoint)].index \in Slot
  BY <1>2 DEF Block
<1> QED
  BY <1>1, <1>2, <1>3, AtIs DEF Last, committed

(* The newest superblock in the ring is that of the last checkpoint.       *)
LEMMA NewestIsLast ==
  ASSUME RingInv, xp_desc = ring, NEW s \in Slot, Latest(s)
  PROVE  checkpoint # <<>> /\ xp_desc[s] = Last(checkpoint)
<1> DEFINE last == checkpoint[Len(checkpoint)]
           t == At(last.index, Len(checkpoint))
<1>1. checkpoint # <<>> /\ ring[s].xid <= committed
  BY DEF Latest, Acceptable, RingInv
<1>2. /\ Len(checkpoint) \in 1 .. xp_desc_blocks
      /\ last \in Block /\ last = Last(checkpoint) /\ committed = last.xid /\ t \in Slot
  BY <1>1, LastTyped
<1>3. ring[t] = last
  BY <1>1, <1>2 DEF RingInv
<1>4. last.kind = "nxsb" /\ last.valid /\ last.xid > 0
  BY <1>1 DEF RingInv, IsCheckpoint
<1>5. last.xid <= ring[s].xid
  <2>1. Acceptable(t)
    BY <1>3, <1>4 DEF Acceptable
  <2>2. ring[s] \in Block
    BY DEF RingInv
  <2> HIDE DEF t
  <2>3. xp_desc[t].xid < xp_desc[s].xid \/ xp_desc[t].xid = xp_desc[s].xid
    BY <1>2, <2>1 DEF Latest
  <2> QED
    BY <1>2, <1>3, <2>2, <2>3, RingAssumption DEF Block
<1>6. ring[s].xid = last.xid
  <2>1. ring[s] \in Block
    BY DEF RingInv
  <2> QED
    BY <1>1, <1>2, <1>5, <2>1, RingAssumption DEF Block
<1>7. s = t
  BY <1>1, <1>6 DEF RingInv, Latest, Acceptable
<1> QED
  BY <1>1, <1>2, <1>3, <1>7

(* If there is a checkpoint, there is a superblock to be found.            *)
LEMMA LastIsAcceptable ==
  ASSUME RingInv, xp_desc = ring, checkpoint # <<>>
  PROVE  \E s \in Slot : Acceptable(s)
<1> DEFINE last == checkpoint[Len(checkpoint)]
           t == At(last.index, Len(checkpoint))
<1>1. Len(checkpoint) \in 1 .. xp_desc_blocks /\ t \in Slot
  BY LastTyped
<1>2. ring[t] = last
  BY <1>1 DEF RingInv
<1>3. last.kind = "nxsb" /\ last.valid /\ last.xid > 0
  BY DEF RingInv, IsCheckpoint
<1> QED
  BY <1>1, <1>2, <1>3 DEF Acceptable

(* Its blocks are copied in one part or in two, always completely.         *)
LEMMA CopiesCheckpoint ==
  ASSUME RingInv, xp_desc = ring, checkpoint # <<>>, nxsb = Last(checkpoint)
  PROVE  checkpoint = IF nxsb.index + nxsb.len <= xp_desc_blocks
                        THEN Segment(nxsb.index, nxsb.len) ELSE CopyWrapped
<1> DEFINE n == xp_desc_blocks
           len == Len(checkpoint)
           index == nxsb.index
<1>1. n \in Nat \ {0}
  BY RingAssumption
<1>2. /\ checkpoint \in Seq(Block) /\ len \in 1 .. n
      /\ nxsb \in Block /\ nxsb = checkpoint[len] /\ nxsb.len = len
  BY LastTyped DEF RingInv, IsCheckpoint
<1>3. index \in 0 .. n - 1
  BY <1>2 DEF Block, Slot
<1>4. \A k \in 1 .. len : checkpoint[k] =
        ring[IF index + k - 1 < n THEN index + k - 1 ELSE index + k - 1 - n]
  <2> SUFFICES ASSUME NEW k \in 1 .. len
               PROVE  checkpoint[k] = ring[IF index + k - 1 < n THEN index + k - 1
                                           ELSE index + k - 1 - n]
    OBVIOUS
  <2>1. checkpoint[k] = ring[At(index, k)]
    BY <1>2 DEF RingInv
  <2>2. k \in 1 .. n /\ index \in Slot
    BY <1>1, <1>2, <1>3 DEF Slot
  <2>3. At(index, k) = IF index + k - 1 < n THEN index + k - 1 ELSE index + k - 1 - n
    BY <2>2, AtIs
  <2> QED
    BY <2>1, <2>3
<1> HIDE DEF n, len, index
<1>5. CASE index + len <= n
  <2>1. Segment(index, len) = [k \in 1 .. len |-> ring[index + k - 1]]
    BY DEF Segment
  <2>2. \A k \in 1 .. len : checkpoint[k] = ring[index + k - 1]
    <3>1. \A k \in 1 .. len : index + k - 1 < n
      BY <1>1, <1>2, <1>3, <1>5
    <3> QED
      BY <1>4, <3>1
  <2>3. checkpoint = [k \in 1 .. len |-> checkpoint[k]]
    BY <1>2 DEF len
  <2>4. checkpoint = Segment(index, len)
    BY <2>1, <2>2, <2>3
  <2> QED
    BY <1>2, <1>5, <2>4 DEF n, len, index
<1>6. CASE ~ (index + len <= n)
  <2> DEFINE one == [k \in 1 .. n - index |-> ring[index + k - 1]]
             two == [k \in 1 .. len - (n - index) |-> ring[0 + k - 1]]
  <2>1. CopyWrapped = one \o two
    BY <1>2 DEF CopyWrapped, Segment, n, index
  <2>2. n - index \in Nat /\ len - (n - index) \in Nat /\ len \in Nat
    BY <1>1, <1>2, <1>3, <1>6
  <2>3. one \in Seq(Block) /\ Len(one) = n - index
    <3>1. \A k \in 1 .. n - index : ring[index + k - 1] \in Block
      <4>1. \A k \in 1 .. n - index : index + k - 1 \in Slot
        BY <1>1, <1>3 DEF Slot, n
      <4> QED
        BY <4>1 DEF RingInv
    <3> QED
      BY <2>2, <3>1
  <2>4. two \in Seq(Block) /\ Len(two) = len - (n - index)
    <3>1. \A k \in 1 .. len - (n - index) : ring[0 + k - 1] \in Block
      <4>1. \A k \in 1 .. len - (n - index) : 0 + k - 1 \in Slot
        BY <1>1, <1>2, <1>3 DEF Slot, n
      <4> QED
        BY <4>1 DEF RingInv
    <3> QED
      BY <2>2, <3>1
  <2>5. /\ one \o two \in Seq(Block) /\ Len(one \o two) = len
        /\ \A k \in 1 .. len : (one \o two)[k] = IF k <= n - index THEN one[k]
                                                 ELSE two[k - (n - index)]
    <3> HIDE DEF one, two
    <3> QED
      BY <2>2, <2>3, <2>4
  <2>6. ASSUME NEW k \in 1 .. len
        PROVE  checkpoint[k] = (one \o two)[k]
    <3>1. CASE k <= n - index
      <4>1. k \in 1 .. n - index /\ index + k - 1 < n
        BY <1>1, <1>3, <2>2, <3>1
      <4>2. one[k] = ring[index + k - 1]
        BY <4>1
      <4> QED
        BY <1>4, <2>5, <3>1, <4>1, <4>2
    <3>2. CASE ~ (k <= n - index)
      <4>1. /\ k - (n - index) \in 1 .. len - (n - index) /\ ~ (index + k - 1 < n)
            /\ 0 + (k - (n - index)) - 1 = index + k - 1 - n
        BY <1>1, <1>3, <2>2, <3>2
      <4>2. two[k - (n - index)] = ring[index + k - 1 - n]
        BY <4>1
      <4> QED
        BY <1>4, <2>5, <3>2, <4>1, <4>2
    <3> QED
      BY <3>1, <3>2
  <2>7. checkpoint = one \o two
    <3>1. ASSUME NEW blocks \in Seq(Block), Len(blocks) = len,
                 \A k \in 1 .. len : checkpoint[k] = blocks[k]
          PROVE  checkpoint = blocks
      <4>1. Len(checkpoint) = Len(blocks) /\ Len(blocks) \in Nat
        BY <3>1, <1>2 DEF len
      <4>2. \A k \in 1 .. Len(checkpoint) : checkpoint[k] = blocks[k]
        BY <3>1 DEF len
      <4> QED
        BY <1>2, <3>1, <4>1, <4>2, SeqEqual
    <3> HIDE DEF one, two
    <3> QED
      BY <2>5, <2>6, <3>1
  <2> QED
    BY <1>2, <1>6, <2>1, <2>7 DEF n, len, index
<1> QED
  BY <1>5, <1>6

(* What can be wrong with what, and what the command puts up with.         *)
LEMMA FaultKinds ==
  ASSUME Inv
  PROVE  /\ fault.thing \in {BlockZero, Area} => fault.kind = "unreadable" /\ ~Tolerated
         /\ \A a : fault.thing = Ephemeral(a) =>
              fault.kind \in {"unreadable", "invalid"} /\ ~Tolerated
         /\ fault.thing = ContainerOmap =>
              fault.kind \in {"unreadable", "invalid", "not physical"} /\ ~Tolerated
         /\ \A o : fault.thing = VolumeOmap(o) =>
              fault.kind \in {"unreadable", "invalid", "not physical"} /\ ~Tolerated
         /\ fault.thing = ContainerTree =>
              fault.kind \in {"unreadable", "invalid"} /\ (Tolerated <=> fault.kind = "invalid")
         /\ \A o : fault.thing = VolumeTree(o) =>
              fault.kind \in {"unreadable", "invalid"} /\ (Tolerated <=> fault.kind = "invalid")
         /\ \A o : fault.thing = Volume(o) =>
              fault.kind \in {"missing", "unreadable", "invalid"} /\ ~Tolerated
         /\ \A o : fault.thing = Root(o) =>
              fault.kind \in {"missing", "unreadable", "invalid"} /\ ~Tolerated
         /\ \A o, k : fault.thing = Query(o, k) =>
              fault.kind \in {"missing", "unreadable"} /\ ~Tolerated
<1>0. fault.kind \in KindsOf(fault.thing)
  BY FaultAssumption DEF Inv, MemoryInv
<1>1. /\ BlockZero[1] = "block 0" /\ Area[1] = "checkpoint descriptor area"
      /\ ContainerOmap[1] = "nx_omap" /\ ContainerTree[1] = "nx_omap_btree"
  BY DEF BlockZero, Area, ContainerOmap, ContainerTree
<1>2. \A o, k :
        /\ Ephemeral(o)[1] = "ephemeral" /\ Volume(o)[1] = "apsb" /\ VolumeOmap(o)[1] = "fs_omap"
        /\ VolumeTree(o)[1] = "fs_omap_btree" /\ Root(o)[1] = "fs_root_btree"
        /\ Query(o, k)[1] = "records"
  BY DEF Ephemeral, Volume, VolumeOmap, VolumeTree, Root, Query
<1>3. /\ fault.thing[1] \in {"block 0", "checkpoint descriptor area"} =>
           fault.kind = "unreadable" /\ ~Tolerated
      /\ fault.thing[1] = "ephemeral" => fault.kind \in {"unreadable", "invalid"} /\ ~Tolerated
      /\ fault.thing[1] \in {"nx_omap", "fs_omap"} =>
           fault.kind \in {"unreadable", "invalid", "not physical"} /\ ~Tolerated
      /\ fault.thing[1] \in {"nx_omap_btree", "fs_omap_btree"} =>
           fault.kind \in {"unreadable", "invalid"} /\ (Tolerated <=> fault.kind = "invalid")
      /\ fault.thing[1] \in {"apsb", "fs_root_btree"} =>
           fault.kind \in {"missing", "unreadable", "invalid"} /\ ~Tolerated
      /\ fault.thing[1] = "records" => fault.kind \in {"missing", "unreadable"} /\ ~Tolerated
  BY <1>0 DEF KindsOf, Tolerated
<1>4. fault.thing \in {BlockZero, Area} => fault.kind = "unreadable" /\ ~Tolerated
  BY <1>1, <1>3
<1>5. fault.thing = ContainerOmap =>
        fault.kind \in {"unreadable", "invalid", "not physical"} /\ ~Tolerated
  BY <1>1, <1>3
<1>6. fault.thing = ContainerTree =>
        fault.kind \in {"unreadable", "invalid"} /\ (Tolerated <=> fault.kind = "invalid")
  BY <1>1, <1>3
<1>7. ASSUME NEW o, fault.thing = Ephemeral(o)
      PROVE  fault.kind \in {"unreadable", "invalid"} /\ ~Tolerated
  <2>1. fault.thing[1] = "ephemeral"
    BY <1>2, <1>7
  <2> QED
    BY <1>3, <2>1
<1>8. ASSUME NEW o, fault.thing = VolumeOmap(o)
      PROVE  fault.kind \in {"unreadable", "invalid", "not physical"} /\ ~Tolerated
  <2>1. fault.thing[1] = "fs_omap"
    BY <1>2, <1>8
  <2> QED
    BY <1>3, <2>1
<1>9. ASSUME NEW o, fault.thing = VolumeTree(o)
      PROVE  fault.kind \in {"unreadable", "invalid"} /\ (Tolerated <=> fault.kind = "invalid")
  <2>1. fault.thing[1] = "fs_omap_btree"
    BY <1>2, <1>9
  <2> QED
    BY <1>3, <2>1
<1>10. ASSUME NEW o, fault.thing = Volume(o)
      PROVE  fault.kind \in {"missing", "unreadable", "invalid"} /\ ~Tolerated
  <2>1. fault.thing[1] = "apsb"
    BY <1>2, <1>10
  <2> QED
    BY <1>3, <2>1
<1>11. ASSUME NEW o, fault.thing = Root(o)
      PROVE  fault.kind \in {"missing", "unreadable", "invalid"} /\ ~Tolerated
  <2>1. fault.thing[1] = "fs_root_btree"
    BY <1>2, <1>11
  <2> QED
    BY <1>3, <2>1
<1>12. ASSUME NEW o, NEW k, fault.thing = Query(o, k)
      PROVE  fault.kind \in {"missing", "unreadable"} /\ ~Tolerated
  <2>1. fault.thing[1] = "records"
    BY <1>2, <1>12
  <2> QED
    BY <1>3, <2>1
<1> QED
  BY <1>4, <1>5, <1>6, <1>7, <1>8, <1>9, <1>10, <1>11, <1>12

-----------------------------------------------------------------------------
(* Every step keeps the invariant.                                         *)

(* What the writer leaves alone.                                           *)
LEMMA WriterKeepsRest ==
  ASSUME Inv, NEW maps \in MapLists, NEW n \in 0 .. Len(maps) + 1, WriteCheckpoint(maps, n)
  PROVE  Inv'
<1>1. /\ phase = "not run yet" /\ phase' = phase
      /\ UNCHANGED <<nx_fs_oid, contiguous, fault, xp_desc, nxsb, xp, xp_obj,
                     num_file_systems, apsbs, i, j>>
  BY DEF WriteCheckpoint
<1>2. RingInv'
  BY WriterKeepsRing DEF Inv
<1>3. MemoryInv'
  BY <1>1 DEF Inv, MemoryInv, Ends, WithArea, WithSuperblock, WithCheckpoint, WithEphemeral,
              WithContainerOmap, WithCount, WithVolumes
<1>4. PassedInv'
  <2>1. xp_obj = <<>> /\ apsbs = <<>>
    BY <1>1 DEF Inv, MemoryInv, Ends, WithCheckpoint, WithEphemeral,
              WithContainerOmap, WithCount, WithVolumes
  <2>2. Len(xp_obj') = 0 /\ Len(apsbs') = 0
    BY <1>1, <2>1
  <2>3. \A k \in 1 .. Len(xp_obj') : FALSE
    BY <2>2
  <2>4. \A k \in 1 .. Len(apsbs') : FALSE
    BY <2>2
  <2> QED
    BY <1>1, <2>3, <2>4 DEF PassedInv, Ends, WithArea, WithSuperblock,
              WithCheckpoint, WithEphemeral, WithContainerOmap, WithCount, WithVolumes
<1>5. StopsOnlyForReason'
  BY <1>1 DEF StopsOnlyForReason
<1> QED
  BY <1>2, <1>3, <1>4, <1>5 DEF Inv

(* The command leaves the container alone.                                 *)
LEMMA CommandKeepsRing ==
  ASSUME RingInv, UNCHANGED container
  PROVE  RingInv' /\ (Tolerated' <=> Tolerated)
BY DEF RingInv, container, committed, Tolerated

(* A command that ends says why.                                           *)
LEMMA EndsInOrder ==
  ASSUME Inv, NEW how \in Ends, Stop(how), StopsOnlyForReason'
  PROVE  Inv'
<1>1. UNCHANGED container /\ phase' \in Ends
      /\ UNCHANGED <<xp_desc, nxsb, xp, xp_obj, num_file_systems, apsbs, i, j>>
  BY DEF Stop
<1> USE DEF Ends, WithArea, WithSuperblock, WithCheckpoint, WithEphemeral,
            WithContainerOmap, WithCount, WithVolumes
<1>2. MemoryInv'
  BY <1>1 DEF Inv, MemoryInv, container
<1>3. PassedInv'
  BY <1>1 DEF Inv, PassedInv, container, Is
<1> QED
  BY <1>1, <1>2, <1>3, CommandKeepsRing DEF Inv

(* Failing, and ending, for what is wrong with something that is reached.  *)
LEMMA FailsForFault ==
  ASSUME Inv, Stop("failed"), fault.thing \in Reached, fault.kind \in {"unreadable", "missing"}
  PROVE  Inv'
<1>1. StopsOnlyForReason'
  BY DEF Stop, container, StopsOnlyForReason, Reached, Volumes
<1> QED
  BY <1>1, EndsInOrder DEF Ends

LEMMA EndsForFault ==
  ASSUME Inv, Stop("ended"), fault.thing \in Reached, ~Tolerated,
         fault.kind \in {"invalid", "not physical"}
  PROVE  Inv'
<1>1. StopsOnlyForReason'
  BY DEF Stop, container, StopsOnlyForReason, Reached, Volumes, Tolerated
<1> QED
  BY <1>1, EndsInOrder DEF Ends

(* The steps up to the superblock.                                         *)
LEMMA Starts ==
  ASSUME Inv, ReadBlockZero \/ ReadArea \/ Scan
  PROVE  Inv'
<1> USE DEF Ends, WithArea, WithSuperblock, WithCheckpoint, WithEphemeral,
            WithContainerOmap, WithCount, WithVolumes
<1>1. CASE ReadBlockZero
  <2>1. CASE Is(BlockZero, "unreadable")
    <3>1. Stop("failed")
      BY <1>1, <2>1 DEF ReadBlockZero
    <3>2. StopsOnlyForReason'
      BY <2>1, <3>1 DEF Stop, container, StopsOnlyForReason, Is, Reached
    <3> QED
      BY <3>1, <3>2, EndsInOrder
  <2>2. CASE ~Is(BlockZero, "unreadable") /\ ~contiguous
    <3>1. Stop("ended")
      BY <1>1, <2>2 DEF ReadBlockZero
    <3>2. StopsOnlyForReason'
      BY <2>2, <3>1 DEF Stop, container, StopsOnlyForReason
    <3> QED
      BY <3>1, <3>2, EndsInOrder
  <2>3. CASE ~Is(BlockZero, "unreadable") /\ contiguous
    <3>1. Stop("area") /\ phase = "not run yet"
      BY <1>1, <2>3 DEF ReadBlockZero
    <3>2. MemoryInv'
      BY <3>1 DEF Inv, MemoryInv, Stop, container
    <3>3. fault.thing # BlockZero
      BY <2>3, FaultKinds DEF Is
    <3>4. PassedInv'
      BY <2>3, <3>1, <3>3 DEF Inv, MemoryInv, PassedInv, Stop, container, Fine, Is
    <3> QED
      BY <3>1, <3>2, <3>4, CommandKeepsRing DEF Inv, Stop, StopsOnlyForReason
  <2> QED
    BY <2>1, <2>2, <2>3
<1>2. CASE ReadArea
  <2>1. CASE Is(Area, "unreadable")
    <3>1. Stop("failed")
      BY <1>2, <2>1 DEF ReadArea
    <3>2. StopsOnlyForReason'
      BY <2>1, <3>1 DEF Stop, container, StopsOnlyForReason, Is, Reached
    <3> QED
      BY <3>1, <3>2, EndsInOrder
  <2>2. CASE ~Is(Area, "unreadable")
    <3>1. /\ phase = "area" /\ phase' = "scan" /\ xp_desc' = ring
          /\ UNCHANGED <<container, nxsb, xp, xp_obj, num_file_systems, apsbs, i, j>>
      BY <1>2, <2>2 DEF ReadArea
    <3>2. MemoryInv'
      BY <3>1 DEF Inv, MemoryInv, container
    <3>3. fault.thing # Area
      BY <2>2, FaultKinds DEF Is
    <3>4. PassedInv'
      BY <2>2, <3>1, <3>3, CommandKeepsRing DEF Inv, MemoryInv, PassedInv, container, Fine, Is
    <3> QED
      BY <3>1, <3>2, <3>4, CommandKeepsRing DEF Inv, StopsOnlyForReason
  <2> QED
    BY <2>1, <2>2
<1>3. CASE Scan
  <2>0. xp_desc = ring
    BY <1>3 DEF Inv, MemoryInv, Scan
  <2>1. CASE \A s \in Slot : ~Acceptable(s)
    <3>1. checkpoint = <<>> /\ Stop("ended")
      BY <1>3, <2>0, <2>1, LastIsAcceptable DEF Inv, Scan
    <3>2. StopsOnlyForReason'
      BY <3>1 DEF StopsOnlyForReason, Stop, container
    <3> QED
      BY <3>1, <3>2, EndsInOrder
  <2>2. CASE \E s \in Slot : Acceptable(s)
    <3>1. PICK s \in Slot : Latest(s) /\ nxsb' = xp_desc[s]
      BY <1>3, <2>2 DEF Scan
    <3>2. checkpoint # <<>> /\ nxsb' = Last(checkpoint)
      BY <2>0, <3>1, NewestIsLast DEF Inv
    <3>3. /\ phase = "scan" /\ phase' = "copy"
          /\ UNCHANGED <<container, xp_desc, xp, xp_obj, num_file_systems, apsbs, i, j>>
      BY <1>3, <2>2 DEF Scan
    <3>4. MemoryInv'
      BY <3>2, <3>3 DEF Inv, MemoryInv, container, Last
    <3>5. PassedInv'
      BY <3>3, CommandKeepsRing DEF Inv, MemoryInv, PassedInv, container, Fine, Is
    <3> QED
      BY <3>3, <3>4, <3>5, CommandKeepsRing DEF Inv, StopsOnlyForReason
  <2> QED
    BY <2>1, <2>2
<1> QED
  BY <1>1, <1>2, <1>3

(* The checkpoint is copied, and its blocks are of the types they should   *)
(* be.                                                                     *)
LEMMA Loads ==
  ASSUME Inv, Copy \/ ShowCheckpoint
  PROVE  Inv'
<1> USE DEF Ends, WithArea, WithSuperblock, WithCheckpoint, WithEphemeral,
            WithContainerOmap, WithCount, WithVolumes
<1>1. CASE Copy
  <2>1. xp_desc = ring /\ checkpoint # <<>> /\ nxsb = Last(checkpoint)
    BY <1>1 DEF Inv, MemoryInv, Copy
  <2>2. /\ phase = "copy" /\ phase' = "checkpoint" /\ xp' = checkpoint
        /\ UNCHANGED <<container, xp_desc, nxsb, xp_obj, num_file_systems, apsbs, i, j>>
    BY <1>1, <2>1, CopiesCheckpoint DEF Inv, Copy
  <2>3. Mappings(checkpoint) \in Seq(Nat) /\ Len(Mappings(checkpoint)) \in Nat
    BY <2>1, LastTyped, MappingsTyped DEF Inv
  <2>4. MemoryInv'
    <3>1. xp_obj = <<>> /\ Len(xp_obj) = 0
      BY <2>2 DEF Inv, MemoryInv
    <3>2. UNCHANGED <<checkpoint, nx_fs_oid, fault, ring>>
      BY <2>2 DEF container
    <3> QED
      BY <2>1, <2>2, <2>3, <3>1, <3>2 DEF Inv, MemoryInv
  <2>5. PassedInv'
    BY <2>2, CommandKeepsRing DEF Inv, MemoryInv, PassedInv, container, Fine, Is
  <2> QED
    BY <2>2, <2>4, <2>5, CommandKeepsRing DEF Inv, StopsOnlyForReason
<1>2. CASE ShowCheckpoint
  <2>1. phase = "checkpoint" /\ xp = checkpoint /\ checkpoint # <<>>
    BY <1>2 DEF Inv, MemoryInv, ShowCheckpoint
  <2>2. \A k \in DOMAIN xp : xp[k].kind \in {"nxsb", "map"}
    <3>1. IsCheckpoint(checkpoint) /\ checkpoint \in Seq(Block) /\ Len(checkpoint) \in Nat
      BY <2>1, LastTyped DEF Inv, RingInv
    <3>2. \A k \in 1 .. Len(checkpoint) : k \in 1 .. Len(checkpoint) - 1 \/ k = Len(checkpoint)
      BY <3>1
    <3>3. \A k \in 1 .. Len(checkpoint) : checkpoint[k].kind \in {"nxsb", "map"}
      BY <3>1, <3>2 DEF IsCheckpoint
    <3>4. DOMAIN checkpoint = 1 .. Len(checkpoint)
      BY <3>1
    <3> QED
      BY <2>1, <3>3, <3>4
  <2>3. Stop("ephemeral objects")
    BY <1>2, <2>2 DEF ShowCheckpoint
  <2>4. MemoryInv'
    BY <2>1, <2>3 DEF Inv, MemoryInv, Stop, container
  <2>5. PassedInv'
    BY <2>1, <2>3, CommandKeepsRing DEF Inv, PassedInv, Stop, container, Fine, Is
  <2> QED
    BY <2>3, <2>4, <2>5, CommandKeepsRing DEF Inv, Stop, StopsOnlyForReason
<1> QED
  BY <1>1, <1>2

(* The Ephemeral objects.                                                  *)
LEMMA ReadsEphemeral ==
  ASSUME Inv, ReadEphemeral \/ ValidateEphemeral
  PROVE  Inv'
<1> USE DEF Ends, WithArea, WithSuperblock, WithCheckpoint, WithEphemeral,
            WithContainerOmap, WithCount, WithVolumes
<1> DEFINE addresses == Mappings(checkpoint)
<1>0. /\ phase = "ephemeral objects" /\ xp = checkpoint /\ checkpoint # <<>>
      /\ xp_obj \in Seq(Nat) /\ Len(xp_obj) <= Len(addresses)
      /\ \A k \in 1 .. Len(xp_obj) : xp_obj[k] = addresses[k]
  BY DEF Inv, MemoryInv, ReadEphemeral, ValidateEphemeral
<1>a. addresses \in Seq(Nat) /\ Len(addresses) \in Nat /\ xp_obj_len = Len(addresses)
  <2>1. checkpoint \in Seq(Block)
    BY <1>0, LastTyped DEF Inv
  <2>2. addresses \in Seq(Nat)
    BY <2>1, MappingsTyped
  <2>3. xp_obj_len = Len(addresses)
    BY <1>0 DEF xp_obj_len
  <2> HIDE DEF addresses
  <2> QED
    BY <2>2, <2>3
<1>b. \A k \in 1 .. Len(addresses) : Ephemeral(addresses[k]) \in Reached
  <2>1. \A k \in 1 .. Len(addresses) : addresses[k] \in ToSet(addresses)
    BY <1>a DEF ToSet
  <2> QED
    BY <2>1 DEF Reached
<1> HIDE DEF addresses
<1>1. CASE ReadEphemeral
  <2> DEFINE paddr == addresses[Len(xp_obj) + 1]
  <2>1. Len(xp_obj) + 1 \in 1 .. Len(addresses) /\ paddr \in Nat
    <3>1. Len(xp_obj) < Len(addresses) /\ Len(xp_obj) \in Nat
      <4>1. Len(xp_obj) < xp_obj_len
        BY <1>1 DEF ReadEphemeral
      <4>2. xp_obj \in Seq(Nat)
        BY <1>0
      <4>3. Len(xp_obj) \in Nat
        BY <4>2
      <4> QED
        BY <1>a, <4>1, <4>3
    <3>2. Len(xp_obj) + 1 \in 1 .. Len(addresses)
      BY <1>a, <3>1
    <3> QED
      BY <1>a, <3>2
  <2>2. CASE Is(Ephemeral(paddr), "unreadable")
    <3>1. Stop("failed")
      BY <1>0, <1>1, <2>2 DEF ReadEphemeral, addresses
    <3>2. fault.thing \in Reached /\ fault.kind = "unreadable"
      BY <1>b, <2>1, <2>2 DEF Is
    <3>3. StopsOnlyForReason'
      BY <3>1, <3>2 DEF Stop, container, StopsOnlyForReason, Reached, Volumes
    <3> QED
      BY <3>1, <3>3, EndsInOrder
  <2>3. CASE ~Is(Ephemeral(paddr), "unreadable")
    <3>1. /\ xp_obj' = Append(xp_obj, paddr)
          /\ UNCHANGED <<container, phase, xp_desc, nxsb, xp, num_file_systems, apsbs, i, j>>
      BY <1>0, <1>1, <2>3 DEF ReadEphemeral, addresses
    <3>2. /\ xp_obj' \in Seq(Nat) /\ Len(xp_obj') = Len(xp_obj) + 1
          /\ \A k \in 1 .. Len(xp_obj') :
               \/ k \in 1 .. Len(xp_obj) /\ xp_obj'[k] = xp_obj[k]
               \/ k = Len(xp_obj) + 1 /\ xp_obj'[k] = paddr
      <4> HIDE DEF paddr
      <4> QED
        BY <1>0, <2>1, <3>1, Longer
    <3>3. \A k \in 1 .. Len(xp_obj') : xp_obj'[k] = addresses[k]
      BY <1>0, <3>2
    <3>4. Mappings(checkpoint)' = addresses
      BY <3>1 DEF container, addresses
    <3>5. MemoryInv'
      <4>1. Len(xp_obj') <= Len(addresses)
        BY <1>a, <2>1, <3>2
      <4> HIDE DEF addresses
      <4> QED
        BY <1>0, <4>1, <3>1, <3>2, <3>3, <3>4 DEF Inv, MemoryInv, container
    <3>6. PassedInv'
      BY <1>0, <2>3, <3>1, <3>2, CommandKeepsRing DEF Inv, PassedInv, container, Fine, Is
    <3> QED
      BY <1>0, <3>1, <3>5, <3>6, CommandKeepsRing DEF Inv, StopsOnlyForReason
  <2> QED
    BY <2>2, <2>3
<1>2. CASE ValidateEphemeral
  <2>0. Len(xp_obj) = Len(addresses)
    BY <1>2, <1>a DEF ValidateEphemeral
  <2>1. CASE Len(addresses) = 0
    <3>0. addresses = <<>>
      BY <1>a, <2>1
    <3>1. Stop("aborted")
      BY <1>2, <1>a, <2>1 DEF ValidateEphemeral
    <3>2. StopsOnlyForReason'
      BY <1>0, <3>0, <3>1 DEF Stop, container, StopsOnlyForReason, addresses
    <3> QED
      BY <3>1, <3>2, EndsInOrder
  <2>2. CASE Len(addresses) # 0 /\ \E k \in 1 .. Len(addresses) : Is(Ephemeral(xp_obj[k]), "invalid")
    <3>1. Stop("ended")
      BY <1>2, <1>a, <2>2 DEF ValidateEphemeral
    <3>2. fault.thing \in Reached /\ fault.kind = "invalid" /\ ~Tolerated
      BY <1>0, <1>b, <2>0, <2>2, FaultKinds DEF Is
    <3>3. StopsOnlyForReason'
      BY <3>1, <3>2 DEF Stop, container, StopsOnlyForReason, Reached, Volumes, Tolerated
    <3> QED
      BY <3>1, <3>3, EndsInOrder
  <2>3. CASE Len(addresses) # 0 /\ \A k \in 1 .. Len(addresses) : ~Is(Ephemeral(xp_obj[k]), "invalid")
    <3>1. Stop("nx_omap")
      BY <1>2, <1>a, <2>3 DEF ValidateEphemeral
    <3>2. \A k \in 1 .. Len(addresses) : fault.thing # Ephemeral(addresses[k])
      <4> SUFFICES ASSUME NEW k \in 1 .. Len(addresses), fault.thing = Ephemeral(addresses[k])
                   PROVE  FALSE
        OBVIOUS
      <4>1. xp_obj[k] = addresses[k] /\ ~Is(Ephemeral(addresses[k]), "unreadable")
        BY <1>0, <2>0 DEF Inv, PassedInv
      <4> QED
        BY <2>3, <4>1, FaultKinds DEF Is
    <3>3. MemoryInv'
      BY <1>0, <1>a, <3>1 DEF Inv, MemoryInv, Stop, container
    <3>4. PassedInv'
      BY <1>0, <3>1, <3>2, CommandKeepsRing DEF Inv, PassedInv, Stop, container, Fine, Is, addresses
    <3> QED
      BY <3>1, <3>3, <3>4, CommandKeepsRing DEF Inv, Stop, StopsOnlyForReason
  <2> QED
    BY <2>1, <2>2, <2>3
<1> QED
  BY <1>1, <1>2

(* The container's object map; the volumes are counted.                    *)
LEMMA ReadsContainerOmap ==
  ASSUME Inv, ReadContainerOmap \/ CountVolumes
  PROVE  Inv'
<1> USE DEF Ends, WithArea, WithSuperblock, WithCheckpoint, WithEphemeral,
            WithContainerOmap, WithCount, WithVolumes
<1>1. CASE ReadContainerOmap
  <2>0. ContainerOmap \in Reached /\ ContainerTree \in Reached
    BY DEF Reached
  <2>1. CASE Is(ContainerOmap, "unreadable")
    <3>1. Stop("failed")
      BY <1>1, <2>1 DEF ReadContainerOmap, StopAtOmap
    <3> QED
      BY <2>0, <2>1, <3>1, FailsForFault DEF Is
  <2>2. CASE /\ ~Is(ContainerOmap, "unreadable")
             /\ Is(ContainerOmap, "invalid") \/ Is(ContainerOmap, "not physical")
    <3>1. Stop("ended")
      BY <1>1, <2>2 DEF ReadContainerOmap, StopAtOmap
    <3>2. fault.thing = ContainerOmap /\ ~Tolerated
      BY <2>2, FaultKinds DEF Is
    <3> QED
      BY <2>0, <2>2, <3>1, <3>2, EndsForFault DEF Is
  <2>3. CASE /\ ~Is(ContainerOmap, "unreadable") /\ ~Is(ContainerOmap, "invalid")
             /\ ~Is(ContainerOmap, "not physical") /\ Is(ContainerTree, "unreadable")
    <3>1. Stop("failed")
      BY <1>1, <2>3 DEF ReadContainerOmap, StopAtOmap
    <3> QED
      BY <2>0, <2>3, <3>1, FailsForFault DEF Is
  <2>4. CASE /\ ~Is(ContainerOmap, "unreadable") /\ ~Is(ContainerOmap, "invalid")
             /\ ~Is(ContainerOmap, "not physical") /\ ~Is(ContainerTree, "unreadable")
    <3>1. Stop("count volumes") /\ phase = "nx_omap"
      BY <1>1, <2>4 DEF ReadContainerOmap, StopAtOmap
    <3>2. Fine(ContainerOmap) /\ Fine(ContainerTree)
      BY <2>4, FaultKinds DEF Is, Fine
    <3>3. MemoryInv'
      BY <3>1 DEF Inv, MemoryInv, Stop, container
    <3>4. PassedInv'
      BY <3>1, <3>2, CommandKeepsRing DEF Inv, PassedInv, Stop, container, Fine, Is
    <3> QED
      BY <3>1, <3>3, <3>4, CommandKeepsRing DEF Inv, Stop, StopsOnlyForReason
  <2> QED
    BY <2>1, <2>2, <2>3, <2>4
<1>2. CASE CountVolumes
  <2>1. /\ phase = "count volumes" /\ phase' = "volumes" /\ num_file_systems' \in 0 .. Len(nx_fs_oid)
        /\ UNCHANGED <<container, xp_desc, nxsb, xp, xp_obj, apsbs, i, j>>
    BY <1>2 DEF CountVolumes
  <2>2. apsbs = <<>>
    BY <2>1 DEF Inv, MemoryInv
  <2>3. MemoryInv'
    <3>0. nx_fs_oid \in Seq(Nat)
      BY VolumeAssumption DEF Inv, MemoryInv
    <3>1. Len(apsbs') = 0 /\ num_file_systems' \in Nat
      <4>1. apsbs' = <<>>
        BY <2>1, <2>2
      <4>2. Len(nx_fs_oid) \in Nat
        BY <3>0
      <4>3. Len(apsbs') = 0
        BY <4>1
      <4>4. num_file_systems' \in Nat
        <5>1. num_file_systems' \in 0 .. Len(nx_fs_oid)
          BY <2>1
        <5> HIDE DEF Ends, WithArea, WithSuperblock, WithCheckpoint, WithEphemeral,
                     WithContainerOmap, WithCount, WithVolumes
        <5> QED
          BY <4>2, <5>1
      <4> QED
        BY <4>3, <4>4
    <3>2. \A k \in 1 .. Len(apsbs') : FALSE
      BY <3>1
    <3>3. UNCHANGED <<ring, checkpoint, nx_fs_oid, fault>>
      BY <2>1 DEF container
    <3>4. i = 1 /\ j = 1 /\ Len(apsbs') <= num_file_systems'
      <4>1. i = 1 /\ j = 1
        BY <2>1 DEF Inv, MemoryInv
      <4> QED
        BY <3>1, <4>1
    <3> QED
      BY <2>1, <3>1, <3>2, <3>3, <3>4 DEF Inv, MemoryInv
  <2>4. PassedInv'
    BY <2>1, CommandKeepsRing DEF Inv, PassedInv, container, Fine, Is
  <2> QED
    BY <2>1, <2>3, <2>4, CommandKeepsRing DEF Inv, StopsOnlyForReason
<1> QED
  BY <1>1, <1>2

(* The volume superblocks read, and those whose turn it is to be.          *)
LEMMA VolumesTyped ==
  ASSUME Inv, phase \in WithCount
  PROVE  /\ nx_fs_oid \in Seq(Nat) /\ num_file_systems \in Nat
         /\ num_file_systems <= Len(nx_fs_oid)
         /\ apsbs \in Seq(Nat) /\ Len(apsbs) \in Nat /\ Len(apsbs) <= num_file_systems
         /\ \A k \in 1 .. Len(apsbs) : apsbs[k] = nx_fs_oid[k]
         /\ \A k \in 1 .. num_file_systems : nx_fs_oid[k] \in Nat /\ nx_fs_oid[k] \in Volumes
<1>1. nx_fs_oid \in Seq(Nat)
  BY VolumeAssumption DEF Inv, MemoryInv
<1>2. num_file_systems \in 0 .. Len(nx_fs_oid) /\ apsbs \in Seq(Nat) /\ Len(apsbs) <= num_file_systems
      /\ \A k \in 1 .. Len(apsbs) : apsbs[k] = nx_fs_oid[k]
  BY DEF Inv, MemoryInv
<1>3. Len(nx_fs_oid) \in Nat
  BY <1>1
<1>4. \A k \in 1 .. num_file_systems : k \in 1 .. Len(nx_fs_oid)
  BY <1>2, <1>3
<1>5. \A k \in 1 .. num_file_systems : nx_fs_oid[k] \in Nat /\ nx_fs_oid[k] \in Volumes
  BY <1>1, <1>4 DEF Volumes
<1> QED
  BY <1>1, <1>2, <1>3, <1>5

(* What is read of a volume is part of what the container leads to.        *)
LEMMA VolumeReached ==
  ASSUME NEW o \in Volumes
  PROVE  /\ Volume(o) \in Reached /\ VolumeOmap(o) \in Reached /\ VolumeTree(o) \in Reached
         /\ Root(o) \in Reached
         /\ \A k \in 1 .. NUM_QUERIES : Query(o, k) \in Reached
BY DEF Reached

LEMMA ReadsVolumes ==
  ASSUME Inv, ReadVolume \/ ValidateVolumes
  PROVE  Inv'
<1> USE DEF Ends, WithArea, WithSuperblock, WithCheckpoint, WithEphemeral,
            WithContainerOmap, WithCount, WithVolumes
<1>0. phase = "volumes"
  BY DEF ReadVolume, ValidateVolumes
<1>a. /\ nx_fs_oid \in Seq(Nat) /\ num_file_systems \in Nat
      /\ num_file_systems <= Len(nx_fs_oid)
      /\ apsbs \in Seq(Nat) /\ Len(apsbs) \in Nat /\ Len(apsbs) <= num_file_systems
      /\ \A k \in 1 .. Len(apsbs) : apsbs[k] = nx_fs_oid[k]
      /\ \A k \in 1 .. num_file_systems : nx_fs_oid[k] \in Nat /\ nx_fs_oid[k] \in Volumes
  BY <1>0, VolumesTyped
<1>b. \A k \in 1 .. num_file_systems : Volume(nx_fs_oid[k]) \in Reached
  BY <1>a, VolumeReached
<1>1. CASE ReadVolume
  <2> DEFINE oid == nx_fs_oid[Len(apsbs) + 1]
  <2>1. Len(apsbs) + 1 \in 1 .. num_file_systems /\ oid \in Nat /\ Volume(oid) \in Reached
    <3>1. Len(apsbs) < num_file_systems
      BY <1>1 DEF ReadVolume
    <3>2. Len(apsbs) + 1 \in 1 .. num_file_systems
      BY <1>a, <3>1
    <3> QED
      BY <1>a, <1>b, <3>2
  <2>2. CASE Is(Volume(oid), "missing") \/ Is(Volume(oid), "unreadable")
    <3>1. Stop("failed")
      BY <1>1, <2>2 DEF ReadVolume
    <3> QED
      BY <2>1, <2>2, <3>1, FailsForFault DEF Is
  <2>3. CASE ~Is(Volume(oid), "missing") /\ ~Is(Volume(oid), "unreadable")
    <3>1. /\ apsbs' = Append(apsbs, oid)
          /\ UNCHANGED <<container, phase, xp_desc, nxsb, xp, xp_obj, num_file_systems, i, j>>
      BY <1>1, <2>3 DEF ReadVolume
    <3>2. /\ apsbs' \in Seq(Nat) /\ Len(apsbs') = Len(apsbs) + 1
          /\ \A k \in 1 .. Len(apsbs') :
               \/ k \in 1 .. Len(apsbs) /\ apsbs'[k] = apsbs[k]
               \/ k = Len(apsbs) + 1 /\ apsbs'[k] = oid
      <4> HIDE DEF oid
      <4> QED
        BY <1>a, <2>1, <3>1, Longer
    <3>3. \A k \in 1 .. Len(apsbs') : apsbs'[k] = nx_fs_oid[k]
      BY <1>a, <3>2
    <3>4. MemoryInv'
      <4>1. Len(apsbs') <= num_file_systems
        BY <1>a, <2>1, <3>2
      <4>2. UNCHANGED <<ring, checkpoint, nx_fs_oid, fault>>
        BY <3>1 DEF container
      <4> QED
        BY <1>0, <3>1, <3>2, <3>3, <4>1, <4>2 DEF Inv, MemoryInv
    <3>5. fault.thing = Volume(oid) => fault.kind = "invalid"
      <4> HIDE DEF oid
      <4> SUFFICES ASSUME fault.thing = Volume(oid)
                   PROVE  fault.kind = "invalid"
        OBVIOUS
      <4>1. fault.kind \in {"missing", "unreadable", "invalid"}
        BY FaultKinds
      <4> QED
        BY <2>3, <4>1 DEF Is
    <3>6. PassedInv'
      <4> HIDE DEF oid
      <4> QED
        BY <1>0, <3>1, <3>2, <3>5, CommandKeepsRing DEF Inv, PassedInv, container, Fine, Is
    <3> QED
      BY <1>0, <3>1, <3>4, <3>6, CommandKeepsRing DEF Inv, StopsOnlyForReason
  <2> QED
    BY <2>2, <2>3
<1>2. CASE ValidateVolumes
  <2>0. Len(apsbs) = num_file_systems /\ DOMAIN apsbs = 1 .. num_file_systems
    BY <1>a, <1>2 DEF ValidateVolumes
  <2>1. CASE \E k \in 1 .. num_file_systems : Is(Volume(apsbs[k]), "invalid")
    <3>1. Stop("ended")
      BY <1>2, <2>0, <2>1 DEF ValidateVolumes
    <3>2. PICK k \in 1 .. num_file_systems : Is(Volume(apsbs[k]), "invalid")
      BY <2>1
    <3>3. Volume(apsbs[k]) \in Reached
      BY <1>a, <1>b, <2>0
    <3>4. ~Tolerated
      BY <3>2, FaultKinds DEF Is
    <3> QED
      BY <3>1, <3>2, <3>3, <3>4, EndsForFault DEF Is
  <2>2. CASE \A k \in 1 .. num_file_systems : ~Is(Volume(apsbs[k]), "invalid")
    <3>1. Stop("volume")
      BY <1>2, <2>0, <2>2 DEF ValidateVolumes
    <3>2. \A k \in 1 .. Len(apsbs) : fault.thing # Volume(apsbs[k])
      BY <2>0, <2>2 DEF Inv, PassedInv, Is
    <3>3. i = 1 /\ j = 1 /\ i <= num_file_systems + 1
      BY <1>0, <1>a DEF Inv, MemoryInv
    <3>4. MemoryInv'
      BY <1>0, <2>0, <3>1, <3>3 DEF Inv, MemoryInv, Stop, container
    <3>5. \A k \in 1 .. i - 1 : FALSE
      BY <3>3
    <3>6. PassedInv'
      BY <1>0, <3>1, <3>2, <3>5, CommandKeepsRing DEF Inv, PassedInv, Stop, container, Fine, Is
    <3> QED
      BY <3>1, <3>4, <3>6, CommandKeepsRing DEF Inv, Stop, StopsOnlyForReason
  <2> QED
    BY <2>1, <2>2
<1> QED
  BY <1>1, <1>2

-----------------------------------------------------------------------------
(* The volume whose turn it is.                                            *)
LEMMA TurnTyped ==
  ASSUME Inv, phase \in WithVolumes, i <= num_file_systems
  PROVE  /\ i \in 1 .. num_file_systems /\ i \in 1 .. Len(apsbs) /\ apsbs[i] \in Volumes
         /\ Volume(apsbs[i]) \in Reached /\ VolumeOmap(apsbs[i]) \in Reached
         /\ VolumeTree(apsbs[i]) \in Reached /\ Root(apsbs[i]) \in Reached
         /\ \A k \in 1 .. NUM_QUERIES : Query(apsbs[i], k) \in Reached
<1>1. /\ num_file_systems \in Nat
      /\ \A k \in 1 .. Len(apsbs) : apsbs[k] = nx_fs_oid[k]
      /\ \A k \in 1 .. num_file_systems : nx_fs_oid[k] \in Volumes
  BY VolumesTyped DEF WithCount
<1>2. Len(apsbs) = num_file_systems /\ i \in Nat \ {0}
  BY DEF Inv, MemoryInv
<1>3. i \in 1 .. num_file_systems
  BY <1>1, <1>2
<1>4. apsbs[i] \in Volumes
  BY <1>1, <1>2, <1>3
<1> QED
  BY <1>2, <1>3, <1>4, VolumeReached

(* The steps of one volume: object map, root and records.                  *)
LEMMA ReadsVolumeOmap ==
  ASSUME Inv, ReadVolumeOmap
  PROVE  Inv'
<1> DEFINE omap == VolumeOmap(apsbs[i])
           tree == VolumeTree(apsbs[i])
<1>0. phase = "volume" /\ i <= num_file_systems /\ StopAtOmap(omap, tree, Stop("root"))
  BY DEF ReadVolumeOmap
<1>a. omap \in Reached /\ tree \in Reached
  BY <1>0, TurnTyped DEF WithVolumes
<1>b. fault.thing = omap => ~Tolerated /\ fault.kind \in {"unreadable", "invalid", "not physical"}
  BY FaultKinds
<1>c. fault.thing = tree =>
        fault.kind \in {"unreadable", "invalid"} /\ (Tolerated <=> fault.kind = "invalid")
  BY FaultKinds
<1> HIDE DEF omap, tree
<1>1. CASE Is(omap, "unreadable")
  <2>1. Stop("failed")
    BY <1>0, <1>1 DEF StopAtOmap
  <2> QED
    BY <1>1, <1>a, <2>1, FailsForFault DEF Is
<1>2. CASE ~Is(omap, "unreadable") /\ (Is(omap, "invalid") \/ Is(omap, "not physical"))
  <2>1. Stop("ended")
    BY <1>0, <1>2 DEF StopAtOmap
  <2> QED
    BY <1>2, <1>a, <1>b, <2>1, EndsForFault DEF Is
<1>3. CASE /\ ~Is(omap, "unreadable") /\ ~Is(omap, "invalid") /\ ~Is(omap, "not physical")
           /\ Is(tree, "unreadable")
  <2>1. Stop("failed")
    BY <1>0, <1>3 DEF StopAtOmap
  <2> QED
    BY <1>3, <1>a, <2>1, FailsForFault DEF Is
<1>4. CASE /\ ~Is(omap, "unreadable") /\ ~Is(omap, "invalid") /\ ~Is(omap, "not physical")
           /\ ~Is(tree, "unreadable")
  <2>1. Stop("root")
    BY <1>0, <1>4 DEF StopAtOmap
  <2>2. FineOmap(apsbs[i])
    BY <1>4, <1>b, <1>c DEF Is, Fine, FineOmap, omap, tree
  <2>3. MemoryInv'
    BY <1>0, <2>1 DEF Inv, MemoryInv, Stop, container, Ends, WithArea, WithSuperblock, WithCheckpoint,
       WithEphemeral, WithContainerOmap, WithCount, WithVolumes
  <2>4. PassedInv'
    BY <1>0, <2>1, <2>2, CommandKeepsRing
       DEF Inv, PassedInv, Stop, container, Fine, FineOmap, FineVolume, Is, Ends, WithArea,
           WithSuperblock, WithCheckpoint, WithEphemeral, WithContainerOmap, WithCount, WithVolumes
  <2> QED
    BY <2>1, <2>3, <2>4, CommandKeepsRing DEF Inv, Stop, StopsOnlyForReason
<1> QED
  BY <1>1, <1>2, <1>3, <1>4

LEMMA ReadsRoot ==
  ASSUME Inv, ReadRoot
  PROVE  Inv'
<1> DEFINE root == Root(apsbs[i])
<1>0. phase = "root" /\ i <= num_file_systems
  BY DEF Inv, MemoryInv, ReadRoot
<1>a. root \in Reached
  BY <1>0, TurnTyped DEF WithVolumes
<1>b. fault.thing = root => ~Tolerated /\ fault.kind \in {"missing", "unreadable", "invalid"}
  BY FaultKinds
<1>1. CASE Is(root, "missing") \/ Is(root, "unreadable")
  <2>1. Stop("failed")
    BY <1>1 DEF ReadRoot
  <2> QED
    BY <1>1, <1>a, <2>1, FailsForFault DEF Is
<1>2. CASE ~Is(root, "missing") /\ ~Is(root, "unreadable") /\ Is(root, "invalid")
  <2>1. Stop("ended")
    BY <1>2 DEF ReadRoot
  <2> QED
    BY <1>2, <1>a, <1>b, <2>1, EndsForFault DEF Is
<1>3. CASE ~Is(root, "missing") /\ ~Is(root, "unreadable") /\ ~Is(root, "invalid")
  <2>1. Stop("records")
    BY <1>3 DEF ReadRoot
  <2>2. Fine(root)
    BY <1>3, <1>b DEF Is, Fine
  <2>3. j = 1
    BY <1>0 DEF Inv, MemoryInv, Ends
  <2>4. MemoryInv'
    <3>1. j <= NUM_QUERIES + 1
      BY <2>3, QueryAssumption
    <3> QED
      BY <1>0, <2>1, <3>1 DEF Inv, MemoryInv, Stop, container, Ends, WithArea, WithSuperblock,
         WithCheckpoint, WithEphemeral, WithContainerOmap, WithCount, WithVolumes
  <2>5. PassedInv'
    <3>1. \A k \in 1 .. j - 1 : FALSE
      BY <2>3
    <3> QED
      BY <1>0, <2>1, <2>2, <3>1, CommandKeepsRing
         DEF Inv, PassedInv, Stop, container, Fine, FineOmap, FineVolume, Is, Ends, WithArea,
             WithSuperblock, WithCheckpoint, WithEphemeral, WithContainerOmap, WithCount, WithVolumes
  <2> QED
    BY <2>1, <2>4, <2>5, CommandKeepsRing DEF Inv, Stop, StopsOnlyForReason
<1> QED
  BY <1>1, <1>2, <1>3

LEMMA ShowsRecords ==
  ASSUME Inv, ShowRecords
  PROVE  Inv'
<1> DEFINE query == Query(apsbs[i], j)
<1>0. phase = "records" /\ i <= num_file_systems /\ j \in Nat \ {0} /\ j <= NUM_QUERIES
  BY DEF Inv, MemoryInv, ShowRecords
<1>a. query \in Reached
  <2>1. j \in 1 .. NUM_QUERIES
    BY <1>0, QueryAssumption
  <2> QED
    BY <1>0, <2>1, TurnTyped DEF WithVolumes
<1>b. fault.thing = query => ~Tolerated /\ fault.kind \in {"missing", "unreadable"}
  BY FaultKinds
<1>1. CASE Is(query, "missing") \/ Is(query, "unreadable")
  <2>1. Stop("failed")
    BY <1>1 DEF ShowRecords
  <2> QED
    BY <1>1, <1>a, <2>1, FailsForFault DEF Is
<1>2. CASE ~Is(query, "missing") /\ ~Is(query, "unreadable")
  <2>1. /\ j' = j + 1
        /\ UNCHANGED <<container, phase, xp_desc, nxsb, xp, xp_obj, num_file_systems, apsbs, i>>
    BY <1>2 DEF ShowRecords
  <2>2. Fine(query)
    BY <1>2, <1>b DEF Is, Fine
  <2>3. MemoryInv'
    <3>1. j' \in Nat \ {0} /\ j' <= NUM_QUERIES + 1
      BY <1>0, <2>1, QueryAssumption
    <3>2. UNCHANGED <<ring, checkpoint, nx_fs_oid, fault>>
      BY <2>1 DEF container
    <3> QED
      BY <1>0, <2>1, <3>1, <3>2 DEF Inv, MemoryInv, Ends, WithArea, WithSuperblock,
         WithCheckpoint, WithEphemeral, WithContainerOmap, WithCount, WithVolumes
  <2>4. PassedInv'
    <3>1. \A k \in 1 .. j' - 1 : k \in 1 .. j - 1 \/ k = j
      BY <1>0, <2>1
    <3>2. \A k \in 1 .. j' - 1 : Fine(Query(apsbs[i], k))
      BY <1>0, <2>2, <3>1 DEF Inv, PassedInv
    <3> QED
      BY <1>0, <2>1, <3>2, CommandKeepsRing
         DEF Inv, PassedInv, container, Fine, FineOmap, FineVolume, Is, Ends, WithArea,
             WithSuperblock, WithCheckpoint, WithEphemeral, WithContainerOmap, WithCount, WithVolumes
  <2> QED
    BY <1>0, <2>1, <2>3, <2>4, CommandKeepsRing DEF Inv, StopsOnlyForReason
<1> QED
  BY <1>1, <1>2

(* Whatever step the command takes.                                        *)
LEMMA Goes ==
  ASSUME Inv, NextVolume \/ AllDone
  PROVE  Inv'
<1>1. CASE NextVolume
  <2>0. /\ phase = "records" /\ i <= num_file_systems /\ i \in Nat \ {0} /\ j \in Nat \ {0}
        /\ j > NUM_QUERIES /\ j <= NUM_QUERIES + 1
    BY <1>1 DEF Inv, MemoryInv, NextVolume
  <2>1. /\ i' = i + 1 /\ j' = 1 /\ phase' = "volume"
        /\ UNCHANGED <<container, xp_desc, nxsb, xp, xp_obj, num_file_systems, apsbs>>
    BY <1>1 DEF NextVolume
  <2>2. FineVolume(apsbs[i])
    <3>1. \A k \in 1 .. NUM_QUERIES : k \in 1 .. j - 1
      BY <2>0, QueryAssumption
    <3> QED
      BY <2>0, <3>1 DEF Inv, PassedInv, FineVolume
  <2>a. num_file_systems \in Nat
    BY <2>0, VolumesTyped DEF WithCount, WithVolumes
  <2>3. MemoryInv'
    <3>1. i' \in Nat \ {0} /\ i' <= num_file_systems + 1 /\ 1 \in Nat \ {0}
      BY <2>0, <2>1, <2>a
    <3>2. UNCHANGED <<ring, checkpoint, nx_fs_oid, fault>>
      BY <2>1 DEF container
    <3> QED
      BY <2>0, <2>1, <3>1, <3>2 DEF Inv, MemoryInv, Ends, WithArea, WithSuperblock,
         WithCheckpoint, WithEphemeral, WithContainerOmap, WithCount, WithVolumes
  <2>4. PassedInv'
    <3>1. \A k \in 1 .. i' - 1 : k \in 1 .. i - 1 \/ k = i
      BY <2>0, <2>1
    <3>2. \A k \in 1 .. i' - 1 : FineVolume(apsbs[k])
      BY <2>0, <2>2, <3>1 DEF Inv, PassedInv, WithVolumes
    <3> QED
      BY <2>0, <2>1, <3>2, CommandKeepsRing
         DEF Inv, PassedInv, container, Fine, FineOmap, FineVolume, Is, Ends, WithArea,
             WithSuperblock, WithCheckpoint, WithEphemeral, WithContainerOmap, WithCount, WithVolumes
  <2> QED
    BY <2>1, <2>3, <2>4, CommandKeepsRing DEF Inv, StopsOnlyForReason
<1>2. CASE AllDone
  <2>0. phase = "volume" /\ i > num_file_systems /\ i <= num_file_systems + 1 /\ i \in Nat \ {0}
    BY <1>2 DEF Inv, MemoryInv, AllDone, WithVolumes
  <2>1. Stop("done")
    BY <1>2 DEF AllDone
  <2>2. i = num_file_systems + 1
    <3>1. num_file_systems \in Nat
      BY <2>0, VolumesTyped DEF WithCount, WithVolumes
    <3> QED
      BY <2>0, <3>1
  <2>3. MemoryInv'
    BY <2>0, <2>1, <2>2 DEF Inv, MemoryInv, Stop, container, Ends, WithArea, WithSuperblock,
       WithCheckpoint, WithEphemeral, WithContainerOmap, WithCount, WithVolumes
  <2>4. PassedInv'
    BY <2>0, <2>1, CommandKeepsRing
       DEF Inv, PassedInv, Stop, container, Fine, FineOmap, FineVolume, Is, Ends, WithArea,
           WithSuperblock, WithCheckpoint, WithEphemeral, WithContainerOmap, WithCount, WithVolumes
  <2> QED
    BY <2>1, <2>3, <2>4, CommandKeepsRing DEF Inv, Stop, StopsOnlyForReason
<1> QED
  BY <1>1, <1>2

(* The invariant holds in every state the container and the command reach. *)
THEOREM InvHolds == Spec => []Inv
<1>1. Init => Inv
  <2> SUFFICES ASSUME Init
               PROVE  Inv
    OBVIOUS
  <2>0. xp_desc_blocks \in Nat \ {0} /\ MaxXid \in Nat
    BY RingAssumption
  <2>1. RingInv
    <3>1. Blank \in Block /\ 0 \in Slot
      BY <2>0 DEF Blank, Block, Slot
    <3>2. \A s \in Slot : ring[s] = Blank
      BY DEF Init
    <3>3. ~Blank.valid
      BY DEF Blank
    <3> QED
      BY <3>1, <3>2, <3>3 DEF Init, RingInv
  <2>2. MemoryInv
    <3>1. nx_fs_oid \in Seq(Nat)
      BY VolumeAssumption DEF Init
    <3>2. Len(nx_fs_oid) \in Nat /\ <<>> \in Seq(Nat)
      BY <3>1
    <3>3. 0 \in 0 .. Len(nx_fs_oid) /\ 1 \in Nat \ {0}
      BY <3>2
    <3> QED
      BY <3>2, <3>3 DEF Init, MemoryInv, Ends, WithArea, WithSuperblock,
         WithCheckpoint, WithEphemeral, WithContainerOmap, WithCount, WithVolumes
  <2>3. PassedInv
    <3>1. Len(xp_obj) = 0 /\ Len(apsbs) = 0
      BY DEF Init
    <3>2. \A k \in 1 .. Len(xp_obj) : FALSE
      BY <3>1
    <3>3. \A k \in 1 .. Len(apsbs) : FALSE
      BY <3>1
    <3> QED
      BY <3>2, <3>3 DEF Init, PassedInv, Ends, WithArea, WithSuperblock,
         WithCheckpoint, WithEphemeral, WithContainerOmap, WithCount, WithVolumes
  <2> QED
    BY <2>1, <2>2, <2>3 DEF Inv, Init, StopsOnlyForReason
<1>2. Inv /\ [Next]_vars => Inv'
  <2> SUFFICES ASSUME Inv, [Next]_vars
               PROVE  Inv'
    OBVIOUS
  <2>1. CASE UNCHANGED vars
    <3>1. RingInv' /\ MemoryInv' /\ PassedInv' /\ StopsOnlyForReason'
      <4>1. UNCHANGED <<container, phase, xp_desc, nxsb, xp, xp_obj, num_file_systems, apsbs, i, j>>
        BY <2>1 DEF vars
      <4>2. MemoryInv'
        BY <4>1 DEF Inv, MemoryInv, container, Ends, WithArea, WithSuperblock,
         WithCheckpoint, WithEphemeral, WithContainerOmap, WithCount, WithVolumes
      <4>3. PassedInv'
        BY <4>1, CommandKeepsRing DEF Inv, PassedInv, container, Fine, FineOmap, FineVolume, Is,
           Ends, WithArea, WithSuperblock, WithCheckpoint, WithEphemeral, WithContainerOmap,
           WithCount, WithVolumes
      <4>4. StopsOnlyForReason'
        BY <4>1 DEF Inv, StopsOnlyForReason, container, Reached, Volumes, Tolerated
      <4> QED
        BY <4>1, <4>2, <4>3, <4>4, CommandKeepsRing DEF Inv
    <3> QED
      BY <3>1 DEF Inv
  <2> QED
    BY <2>1, WriterKeepsRest, Starts, Loads, ReadsEphemeral, ReadsContainerOmap, ReadsVolumes,
       ReadsVolumeOmap, ReadsRoot, ShowsRecords, Goes DEF Next
<1> QED
  BY <1>1, <1>2, PTL DEF Spec

(* The checkpoint copied out of the ring is the last complete one          *)
(* (inspect.c:142-214).                                                    *)
THEOREM LoadsCheckpoint == Spec => []LoadsLastCheckpoint
<1>1. Inv => LoadsLastCheckpoint
  BY DEF Inv, MemoryInv, LoadsLastCheckpoint
<1> QED
  BY <1>1, InvHolds, PTL

(* "END: All done." is said only of a container that is in order.          *)
THEOREM DoneMeansSound == Spec => []DoneOnlyIfSound
<1>1. Inv => DoneOnlyIfSound
  <2> SUFFICES ASSUME Inv, phase = "done", fault.thing \in Reached, ~Tolerated
               PROVE  FALSE
    BY DEF DoneOnlyIfSound
  <2> USE DEF Ends, WithArea, WithSuperblock, WithCheckpoint, WithEphemeral,
              WithContainerOmap, WithCount, WithVolumes
  <2>1. checkpoint # <<>> /\ i = num_file_systems + 1 /\ Len(apsbs) = num_file_systems
    BY DEF Inv, MemoryInv
  <2>2. fault.thing \notin {BlockZero, Area, ContainerOmap, ContainerTree}
    BY DEF Inv, PassedInv, Fine
  <2>3. ASSUME NEW a \in ToSet(Mappings(checkpoint)), fault.thing = Ephemeral(a)
        PROVE  FALSE
    <3>1. checkpoint \in Seq(Block)
      BY <2>1, LastTyped DEF Inv
    <3>2. Mappings(checkpoint) \in Seq(Nat)
      BY <3>1, MappingsTyped
    <3>3. PICK k \in 1 .. Len(Mappings(checkpoint)) : a = Mappings(checkpoint)[k]
      BY <2>3, <3>2 DEF ToSet
    <3> QED
      BY <2>3, <3>3 DEF Inv, PassedInv, Fine
  <2>4. ASSUME NEW o \in Volumes
        PROVE  Fine(Volume(o)) /\ FineVolume(o)
    <3>1. PICK k \in 1 .. num_file_systems : o = nx_fs_oid[k]
      BY DEF Volumes
    <3>2. num_file_systems \in Nat /\ \A l \in 1 .. Len(apsbs) : apsbs[l] = nx_fs_oid[l]
      BY VolumesTyped
    <3>3. k \in 1 .. Len(apsbs) /\ k \in 1 .. i - 1 /\ o = apsbs[k]
      BY <2>1, <3>1, <3>2
    <3> QED
      BY <3>3 DEF Inv, PassedInv
  <2> QED
    BY <2>2, <2>3, <2>4 DEF Reached, Fine, FineVolume, FineOmap
<1> QED
  BY <1>1, InvHolds, PTL

(* An end before that has its reason in the container.                     *)
THEOREM StopsForReason == Spec => []StopsOnlyForReason
<1>1. Inv => StopsOnlyForReason
  BY DEF Inv
<1> QED
  BY <1>1, InvHolds, PTL
=============================================================================
