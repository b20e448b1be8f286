---------------------------- MODULE Mount_proofs ----------------------------
(***************************************************************************)
(* Proofs about Mount, for any number of transactions and of superblock    *)
(* slots, all layouts, and all command lines.                              *)
(***************************************************************************)
EXTENDS Mount, TLAPS

USE DEF nx_omap, nx_omap_btree, apsb, fs_omap, fs_omap_btree, fs_root_btree, Kind

(* The objects of transaction x are where layout f has them ...            *)
Intact(x, f) == \A k \in Kind : disk[f[k]] = Written(f, k, x, TRUE)

(* ... and so is the superblock that leads to them.                        *)
InRing(x, f) == ring[x % Slots] = [xid |-> x, valid |-> TRUE, next |-> f[nx_omap]]

(* What the writer maintains: the last checkpoint is there, and the one    *)
(* before as long as nothing has been begun since; a superblock that looks *)
(* complete is of a checkpoint and in the slot of its XID.                 *)
LastCheckpoint ==
  /\ home \in Layouts
  /\ begun \in {committed, committed + 1}
  /\ Intact(committed, home)
  /\ InRing(committed, home)

Transaction ==
  fresh # <<>> =>
    /\ fresh \in Layouts
    /\ Disjoint(fresh, home)
    /\ begun = committed + 1

CheckpointBefore ==
  begun = committed /\ committed > 1 =>
    \E f \in Layouts : Intact(committed - 1, f) /\ InRing(committed - 1, f)

(* What has been written of the transaction under way.                     *)
DoneIsWritten ==
  fresh # <<>> => \A k \in done : disk[fresh[k]] = Written(fresh, k, committed + 1, TRUE)

SlotsByXid ==
  \A s \in 0 .. Slots - 1 :
    ring[s].valid /\ ring[s].xid > 0 => ring[s].xid <= committed /\ s = ring[s].xid % Slots

ValidHasXid ==
  /\ \A a \in Addr : disk[a].valid => disk[a].xid > 0
  /\ object.valid => object.xid > 0

WriterInv ==
  /\ LastCheckpoint
  /\ Transaction
  /\ CheckpointBefore
  /\ DoneIsWritten
  /\ SlotsByXid

(* Checkpoint x is where layout f has it.                                  *)
Located(x, f) == f \in Layouts /\ Intact(x, f) /\ (x = committed => f = home)

(* What is in memory of the descriptor area: superblocks of checkpoints    *)
(* that still are where they say, unless the writer has overtaken them,    *)
(* and among them the one expected, once its slot is copied.               *)
Copy ==
  stage = -1 /\ copied > 0 =>
    /\ newest \in 1 .. committed
    /\ \A s \in 0 .. copied - 1 :
         xp_desc[s].valid /\ xp_desc[s].xid > 0 =>
           /\ xp_desc[s].xid <= committed
           /\ ~Overtaken(xp_desc[s].xid) =>
                \E f \in Layouts : Located(xp_desc[s].xid, f) /\ xp_desc[s].next = f[nx_omap]
    /\ ~Overtaken(Expected) /\ Expected % Slots < copied =>
         xp_desc[Expected % Slots].valid /\ xp_desc[Expected % Slots].xid = Expected

(* What the command maintains after that: it is on its way through the     *)
(* checkpoint of the superblock chosen, which is at layout f.              *)
Follows(f) ==
  /\ Located(nxsb.xid, f)
  /\ limit = nxsb.xid
  /\ stage = 0 => next = f[nx_omap]
  /\ stage \in Kind => object = Written(f, stage, nxsb.xid, TRUE) /\ next = object.next

Scanned == stage >= 0 /\ request.omap = NONE

OnTheWay ==
  Scanned =>
    /\ newest \in 1 .. committed
    /\ nxsb.xid \in 1 .. committed
    /\ nxsb.xid <= bound
    /\ nxsb.xid < Expected => Overtaken(Expected)
    /\ ~Overtaken(nxsb.xid) => \E f \in Layouts : Follows(f)

(* How far it is, and with what result it has ended.                       *)
Position ==
  /\ stage <= goal
  /\ stage > nx_omap_btree => volume = 1 \/ OutsideArray

(* Reasons to stop.                                                        *)
Reason(how) ==
  request.omap = NONE =>
    /\ how = "ended" /\ stage = -1 => ~contiguous \/ Overtaken(Expected)
    /\ how = "astray" => Overtaken(nxsb.xid)
    /\ how = "ended" /\ stage >= 0 /\ ~Overtaken(nxsb.xid) =>
         /\ volume # 1
         /\ request.command = "resolver" => volume > 1 \/ request.volume_name

Outcome ==
  /\ status = "mounted" => stage = goal /\ request.command # "resolver"
  /\ status = "resolved" =>
       /\ stage = goal /\ request.command = "resolver"
       /\ answers = [i \in DOMAIN request.oids |->
            IF request.oids[i] = object.kind + 1 /\ object.xid <= bound
              THEN <<object.next, object.xid>> ELSE NONE]
  /\ Reason(status)

IInv ==
  /\ TypeOK
  /\ ValidHasXid
  /\ WriterInv
  /\ Copy
  /\ OnTheWay
  /\ Position
  /\ Outcome

-----------------------------------------------------------------------------
(* Slots.                                                                  *)

LEMMA NoDivisorOfOne ==
  ASSUME NEW m \in Nat \ {0, 1}, NEW d \in Int
  PROVE  m * d # 1
<1>1. CASE d <= 0
  <2>1. m * d <= 0
    BY <1>1
  <2> QED
    BY <2>1
<1>2. CASE d >= 1
  <2>1. m * d >= m
    BY <1>2
  <2> QED
    BY <2>1
<1> QED
  BY <1>1, <1>2

(* Superblocks of consecutive transactions are in different slots.         *)
LEMMA NextSlot ==
  ASSUME NEW n \in Nat
  PROVE  /\ n % Slots \in 0 .. Slots - 1
         /\ (n + 1) % Slots # n % Slots
<1>0. Slots \in Nat \ {0, 1}
  BY RingAssumption
<1> DEFINE q == n \div Slots
           p == (n + 1) \div Slots
<1>1. n = Slots * q + (n % Slots) /\ q \in Int /\ n % Slots \in 0 .. Slots - 1
  BY <1>0
<1>2. n + 1 = Slots * p + ((n + 1) % Slots) /\ p \in Int /\ (n + 1) % Slots \in 0 .. Slots - 1
  BY <1>0
<1>3. SUFFICES ASSUME (n + 1) % Slots = n % Slots PROVE FALSE
  BY <1>1
<1>4. Slots * (p - q) = 1
  BY <1>0, <1>1, <1>2, <1>3
<1>5. p - q \in Int
  BY <1>1, <1>2
<1>6. Slots * (p - q) # 1
  <2> HIDE DEF p, q
  <2> QED
    BY ONLY <1>0, <1>5, NoDivisorOfOne
<1> QED
  BY ONLY <1>4, <1>6

LEMMA WrittenTyped ==
  ASSUME NEW f \in [Kind -> Addr], NEW k \in Kind, NEW x \in 0 .. MaxXid, NEW ok \in BOOLEAN
  PROVE  /\ Written(f, k, x, ok) \in Object
         /\ Written(f, k, x, ok).xid = x
         /\ Written(f, k, x, ok).valid = ok
         /\ Written(f, k, x, ok).kind = k
         /\ Written(f, k, x, ok).next = f[IF k = fs_root_btree THEN k ELSE k + 1]
  BY DEF Written, Object

LEMMA LayoutTyped ==
  /\ \A f \in Layouts : f \in [Kind -> Addr]
  /\ \A f \in Layouts : \A j, k \in Kind : f[j] = f[k] => j = k
  BY LayoutAssumption

-----------------------------------------------------------------------------
(* Initial states.                                                         *)

LEMMA InitInv == Init => IInv
<1> SUFFICES ASSUME Init PROVE IInv
  OBVIOUS
<1>0. /\ home \in Layouts /\ home \in [Kind -> Addr] /\ MaxXid \in Nat \ {0} /\ Slots \in Nat \ {0, 1}
      /\ request \in Requests
  BY LayoutTyped, RingAssumption DEF Init
<1>a. AnyAddr \in Addr
  <2>1. home[1] \in Addr
    BY <1>0
  <2> QED
    BY <2>1 DEF AnyAddr
<1>b. NoSuperblock \in Superblock /\ Zeroes \in Object
  BY <1>a, <1>0 DEF NoSuperblock, Zeroes, Superblock, Object
<1>c. \A k \in Kind : Written(home, k, 1, TRUE) \in Object /\ Written(home, k, 1, TRUE).xid = 1
  <2>1. 1 \in 0 .. MaxXid
    BY <1>0
  <2> QED
    BY <1>0, <2>1 DEF Written, Object
<1>d. \A a \in Addr : disk[a] = IF \E k \in Kind : home[k] = a
                THEN Written(home, CHOOSE k \in Kind : home[k] = a, 1, TRUE) ELSE Zeroes
  BY DEF Init
<1>1. TypeOK
  <2>1. ring \in [0 .. Slots - 1 -> Superblock]
    <3>1. [xid |-> 1, valid |-> TRUE, next |-> home[nx_omap]] \in Superblock
      BY <1>0 DEF Superblock
    <3> QED
      BY <3>1, <1>b DEF Init
  <2>2. disk \in [Addr -> Object]
    <3>1. \A a \in Addr : disk[a] \in Object
      <4> TAKE a \in Addr
      <4>1. CASE \E k \in Kind : home[k] = a
        <5>1. (CHOOSE k \in Kind : home[k] = a) \in Kind
          BY <4>1
        <5>2. disk[a] = Written(home, CHOOSE k \in Kind : home[k] = a, 1, TRUE)
          BY <4>1, <1>d
        <5> QED
          BY <5>1, <5>2, <1>c
      <4>2. CASE ~\E k \in Kind : home[k] = a
        BY <4>2, <1>d, <1>b
      <4> QED
        BY <4>1, <4>2
    <3>2. disk = [a \in Addr |-> disk[a]]
      BY DEF Init
    <3> QED
      BY <3>1, <3>2
  <2>3. committed \in Xid /\ begun \in Xid /\ limit \in 0 .. MaxXid /\ newest \in 0 .. MaxXid
    BY <1>0 DEF Init, Xid
  <2>4. nxsb \in Superblock /\ object \in Object /\ next \in Addr
    BY <1>a, <1>b DEF Init
  <2>5. /\ fresh = <<>> /\ done \subseteq Kind /\ contiguous \in BOOLEAN /\ answers = <<>>
        /\ stage \in -1 .. fs_root_btree /\ status = "running"
    BY DEF Init
  <2>6. xp_desc \in [0 .. Slots - 1 -> Superblock] /\ copied \in 0 .. Slots
    BY <1>0, <1>b DEF Init, Unread
  <2> QED
    BY <2>1, <2>2, <2>3, <2>4, <2>5, <2>6, <1>0 DEF TypeOK
<1>2. \A k \in Kind : disk[home[k]] = Written(home, k, 1, TRUE)
  <2> TAKE k \in Kind
  <2>1. home[k] \in Addr /\ \E j \in Kind : home[j] = home[k]
    BY <1>0
  <2>2. (CHOOSE j \in Kind : home[j] = home[k]) = k
    BY <1>0, LayoutTyped
  <2> QED
    BY <2>1, <2>2, <1>d
<1>3. WriterInv
  <2>1. LastCheckpoint
    <3>1. 1 % Slots = 1 /\ 1 \in 0 .. Slots - 1
      BY <1>0
    <3>2. InRing(committed, home)
      BY <3>1 DEF InRing, Init
    <3>3. Intact(committed, home)
      BY <1>2 DEF Intact, Init
    <3> QED
      BY <3>2, <3>3, <1>0 DEF LastCheckpoint, Init
  <2>2. SlotsByXid
    <3> SUFFICES ASSUME NEW s \in 0 .. Slots - 1, ring[s].valid, ring[s].xid > 0
                 PROVE  ring[s].xid <= committed /\ s = ring[s].xid % Slots
      BY DEF SlotsByXid
    <3>1. s = 1
      BY DEF Init, NoSuperblock
    <3>2. ring[s].xid = 1 /\ committed = 1
      BY <3>1 DEF Init
    <3>3. 1 % Slots = 1
      BY <1>0
    <3> QED
      BY <3>1, <3>2, <3>3
  <2>3. Transaction /\ DoneIsWritten /\ CheckpointBefore
    BY DEF Init, Transaction, DoneIsWritten, CheckpointBefore
  <2> QED
    BY <2>1, <2>2, <2>3 DEF WriterInv
<1>4. ValidHasXid
  <2>1. \A a \in Addr : disk[a].valid => disk[a].xid > 0
    <3> TAKE a \in Addr
    <3>1. CASE \E k \in Kind : home[k] = a
      <4>1. PICK k \in Kind : home[k] = a
        BY <3>1
      <4>2. disk[a].xid = 1
        BY <4>1, <1>2, <1>c
      <4> QED
        BY <4>2
    <3>2. CASE ~\E k \in Kind : home[k] = a
      <4>1. disk[a] = Zeroes
        BY <3>2, <1>d
      <4> QED
        BY <4>1 DEF Zeroes
    <3> QED
      BY <3>1, <3>2
  <2> QED
    BY <2>1 DEF ValidHasXid, Init, Zeroes
<1>5. Copy /\ OnTheWay /\ Position /\ Outcome
  BY DEF Init, Copy, OnTheWay, Scanned, Position, Outcome, Reason, goal
<1> QED
  BY <1>1, <1>3, <1>4, <1>5 DEF IInv

-----------------------------------------------------------------------------
(* Steps of the writer.                                                    *)

LEMMA Numbers ==
  ASSUME TypeOK
  PROVE  /\ MaxXid \in Nat \ {0} /\ Slots \in Nat \ {0, 1}
         /\ committed \in 1 .. MaxXid /\ begun \in 1 .. MaxXid
         /\ newest \in 0 .. MaxXid /\ limit \in 0 .. MaxXid
         /\ stage \in -1 .. 6 /\ copied \in 0 .. Slots
         /\ nxsb.xid \in Nat
         /\ \A s \in 0 .. Slots - 1 : xp_desc[s].xid \in Nat /\ xp_desc[s].next \in Addr
  BY RingAssumption DEF TypeOK, Xid, Superblock

LEMMA RequestTyped ==
  ASSUME TypeOK
  PROVE  /\ bound \in Nat \ {0}
         /\ volume \in Int
         /\ request.volume_name \in BOOLEAN
         /\ request.omap \in Addr \union {NONE}
         /\ request.oids \in Seq({0, apsb, fs_root_btree})
         /\ request.command # "resolver" => request.omap = NONE
         /\ goal \in {nx_omap_btree, fs_omap_btree, fs_root_btree}
         /\ goal = fs_root_btree <=> request.command # "resolver"
         /\ request.omap # NONE => goal = nx_omap_btree
<1>1. request \in Request /\ request \in Requests
  BY RequestAssumption DEF TypeOK
<1>2. request.command # "resolver" => request.omap = NONE
  BY <1>1, RequestAssumption
<1>3. /\ bound \in Nat \ {0} /\ volume \in Int /\ request.volume_name \in BOOLEAN
      /\ request.omap \in Addr \union {NONE} /\ request.oids \in Seq({0, apsb, fs_root_btree})
  BY <1>1 DEF Request, bound, volume
<1> QED
  BY <1>2, <1>3 DEF goal

LEMMA BeginInv ==
  ASSUME IInv, Begin
  PROVE  TypeOK' /\ ValidHasXid' /\ WriterInv'
<1>0. TypeOK /\ WriterInv /\ ValidHasXid
  BY DEF IInv
<1>1. MaxXid \in Nat /\ committed \in 1 .. MaxXid /\ committed < MaxXid /\ begun' = committed + 1
  BY <1>0, Numbers DEF Begin
<1>2. fresh' \in Layouts /\ Disjoint(fresh', home) /\ fresh' \in [Kind -> Addr] /\ done' = {}
  BY LayoutTyped DEF Begin
<1>3. UNCHANGED <<ring, disk, committed, home, contiguous, tool>>
  BY DEF Begin
<1>4. TypeOK'
  <2>1. begun' \in Xid
    BY <1>1 DEF Xid
  <2> QED
    BY <2>1, <1>0, <1>2, <1>3 DEF TypeOK, tool, scan
<1>5. LastCheckpoint' /\ Transaction' /\ CheckpointBefore'
  BY <1>0, <1>1, <1>2, <1>3
     DEF WriterInv, LastCheckpoint, Transaction, CheckpointBefore, Intact, InRing
<1>6. DoneIsWritten' /\ SlotsByXid'
  BY <1>0, <1>2, <1>3 DEF WriterInv, DoneIsWritten, SlotsByXid
<1>7. ValidHasXid'
  BY <1>0, <1>3 DEF ValidHasXid, tool
<1> QED
  BY <1>4, <1>5, <1>6, <1>7 DEF WriterInv

LEMMA WriteObjectInv ==
  ASSUME IInv, NEW k \in Kind, NEW ok \in BOOLEAN, WriteObject(k, ok)
  PROVE  TypeOK' /\ ValidHasXid' /\ WriterInv'
<1>0. TypeOK /\ WriterInv /\ ValidHasXid
  BY DEF IInv
<1>1. /\ MaxXid \in Nat /\ committed \in 1 .. MaxXid /\ begun \in 1 .. MaxXid
      /\ begun = committed + 1 /\ committed + 1 \in 1 .. MaxXid
  BY <1>0, Numbers DEF WriteObject, WriterInv, Transaction
<1>2. /\ fresh # <<>> /\ fresh \in Layouts /\ Disjoint(fresh, home)
      /\ fresh \in [Kind -> Addr] /\ home \in [Kind -> Addr] /\ home \in Layouts
      /\ \A i, j \in Kind : fresh[j] = fresh[i] => j = i
  BY <1>0, LayoutTyped DEF WriteObject, WriterInv, Transaction, LastCheckpoint
<1> DEFINE new == Written(fresh, k, committed + 1, ok)
<1>3. new \in Object /\ new.xid = committed + 1
  BY <1>1, <1>2 DEF Written, Object
<1> HIDE DEF new
<1>4. /\ disk' = [disk EXCEPT ![fresh[k]] = new] /\ disk \in [Addr -> Object] /\ fresh[k] \in Addr
      /\ done' = IF ok THEN done \union {k} ELSE {}
      /\ fresh' = IF ok THEN fresh ELSE <<>>
      /\ UNCHANGED <<ring, committed, home, begun, contiguous, tool>>
  BY <1>0, <1>2 DEF WriteObject, TypeOK, new
<1>5. /\ disk' \in [Addr -> Object] /\ disk'[fresh[k]] = new
      /\ \A a \in Addr : a # fresh[k] => disk'[a] = disk[a]
  BY <1>3, <1>4
<1>6. TypeOK'
  <2>1. fresh' = <<>> \/ fresh' \in [Kind -> Addr]
    BY <1>2, <1>4
  <2>2. done' \subseteq Kind
    BY <1>0, <1>4 DEF TypeOK
  <2> QED
    BY <1>0, <1>4, <1>5, <2>1, <2>2 DEF TypeOK, tool, scan
<1>7. LastCheckpoint'
  <2>1. \A j \in Kind : disk'[home[j]] = Written(home, j, committed, TRUE)
    <3> TAKE j \in Kind
    <3>1. home[j] \in Addr /\ home[j] # fresh[k]
      BY <1>2 DEF Disjoint
    <3>2. disk[home[j]] = Written(home, j, committed, TRUE)
      BY <1>0 DEF WriterInv, LastCheckpoint, Intact
    <3> QED
      BY <3>1, <3>2, <1>5
  <2> QED
    BY <2>1, <1>0, <1>4 DEF WriterInv, LastCheckpoint, Intact, InRing
<1>8. Transaction' /\ CheckpointBefore'
  BY <1>1, <1>2, <1>4 DEF Transaction, CheckpointBefore
<1>9. DoneIsWritten'
  <2> SUFFICES ASSUME ok = TRUE, NEW j \in done \union {k}
               PROVE  disk'[fresh[j]] = Written(fresh, j, committed + 1, TRUE)
    BY <1>4 DEF DoneIsWritten
  <2>1. CASE j = k
    BY <2>1, <1>5 DEF new
  <2>2. CASE j # k
    <3>1. j \in done /\ j \in Kind
      BY <2>2, <1>0 DEF TypeOK
    <3>2. fresh[j] \in Addr /\ fresh[j] # fresh[k]
      BY <3>1, <2>2, <1>2
    <3>3. disk[fresh[j]] = Written(fresh, j, committed + 1, TRUE)
      BY <3>1, <1>0, <1>2 DEF WriterInv, DoneIsWritten
    <3> QED
      BY <3>2, <3>3, <1>5
  <2> QED
    BY <2>1, <2>2
<1>10. SlotsByXid'
  BY <1>0, <1>4 DEF WriterInv, SlotsByXid
<1>11. ValidHasXid'
  <2>1. \A a \in Addr : disk'[a].valid => disk'[a].xid > 0
    <3> TAKE a \in Addr
    <3>1. CASE a = fresh[k]
      BY <3>1, <1>1, <1>3, <1>5
    <3>2. CASE a # fresh[k]
      BY <3>2, <1>0, <1>5 DEF ValidHasXid
    <3> QED
      BY <3>1, <3>2
  <2> QED
    BY <2>1, <1>0, <1>4 DEF ValidHasXid, tool
<1> QED
  BY <1>6, <1>7, <1>8, <1>9, <1>10, <1>11 DEF WriterInv

LEMMA WriteSuperblockInv ==
  ASSUME IInv, NEW ok \in BOOLEAN, WriteSuperblock(ok)
  PROVE  TypeOK' /\ ValidHasXid' /\ WriterInv'
<1>0. TypeOK /\ WriterInv /\ ValidHasXid
  BY DEF IInv
<1>1. /\ MaxXid \in Nat /\ committed \in 1 .. MaxXid /\ begun \in 1 .. MaxXid
      /\ begun = committed + 1 /\ committed + 1 \in 1 .. MaxXid
  BY <1>0, Numbers DEF WriteSuperblock, WriterInv, Transaction
<1>2. /\ fresh # <<>> /\ fresh \in Layouts /\ fresh \in [Kind -> Addr]
      /\ home \in Layouts /\ home \in [Kind -> Addr]
  BY <1>0, LayoutTyped DEF WriteSuperblock, WriterInv, Transaction, LastCheckpoint
<1> DEFINE slot == (committed + 1) % Slots
           new == [xid |-> committed + 1, valid |-> ok, next |-> fresh[nx_omap]]
<1>3. slot \in 0 .. Slots - 1 /\ committed % Slots \in 0 .. Slots - 1 /\ slot # committed % Slots
  BY <1>1, NextSlot
<1>4. new \in Superblock
  BY <1>1, <1>2 DEF Superblock
<1>5. /\ ring' = [ring EXCEPT ![slot] = new] /\ ring \in [0 .. Slots - 1 -> Superblock]
      /\ committed' = IF ok THEN committed + 1 ELSE committed
      /\ home' = IF ok THEN fresh ELSE home
      /\ fresh' = <<>> /\ done' = {} /\ done = Kind
      /\ UNCHANGED <<disk, begun, contiguous, tool>>
  BY <1>0 DEF WriteSuperblock, TypeOK
<1>6. /\ ring' \in [0 .. Slots - 1 -> Superblock] /\ ring'[slot] = new
      /\ \A s \in 0 .. Slots - 1 : s # slot => ring'[s] = ring[s]
  <2> HIDE DEF slot, new
  <2> QED
    BY <1>3, <1>4, <1>5
<1>7. TypeOK'
  <2>1. committed' \in Xid
    BY <1>1, <1>5, <1>0 DEF Xid, TypeOK
  <2>2. home' \in [Kind -> Addr]
    BY <1>2, <1>5
  <2> QED
    BY <1>0, <1>5, <1>6, <2>1, <2>2 DEF TypeOK, tool, scan
<1>8. InRing(committed, home) /\ ring'[committed % Slots] = ring[committed % Slots]
  BY <1>0, <1>3, <1>6 DEF WriterInv, LastCheckpoint
<1>9. Intact(committed, home)
  BY <1>0 DEF WriterInv, LastCheckpoint
<1>10. LastCheckpoint' /\ CheckpointBefore'
  <2>1. CASE ok = TRUE
    <3>1. committed' = committed + 1 /\ home' = fresh /\ begun' = committed + 1
      BY <2>1, <1>1, <1>5
    <3>2. \A k \in Kind : disk'[fresh[k]] = Written(fresh, k, committed + 1, TRUE)
      BY <1>0, <1>2, <1>5 DEF WriterInv, DoneIsWritten
    <3>3. ring'[(committed + 1) % Slots] = [xid |-> committed + 1, valid |-> TRUE, next |-> fresh[nx_omap]]
      BY <1>6, <2>1
    <3>4. LastCheckpoint'
      BY <3>1, <3>2, <3>3, <1>2 DEF LastCheckpoint, Intact, InRing
    <3>5. committed' - 1 = committed
      BY <3>1, <1>1
    <3>6. Intact(committed, home) /\ InRing(committed, home) /\ disk' = disk
      BY <1>8, <1>9, <1>5
    <3>7. /\ \A k \in Kind : disk'[home[k]] = Written(home, k, committed, TRUE)
          /\ ring'[committed % Slots] = [xid |-> committed, valid |-> TRUE, next |-> home[nx_omap]]
      BY <3>6, <1>8 DEF Intact, InRing
    <3>8. CheckpointBefore'
      BY <3>5, <3>7, <1>2 DEF CheckpointBefore, Intact, InRing
    <3> QED
      BY <3>4, <3>8
  <2>2. CASE ok = FALSE
    <3>1. committed' = committed /\ home' = home /\ begun' = committed + 1 /\ disk' = disk
      BY <2>2, <1>1, <1>5
    <3>2. LastCheckpoint'
      BY <3>1, <1>0, <1>8, <1>9 DEF WriterInv, LastCheckpoint, Intact, InRing
    <3>3. CheckpointBefore'
      BY <3>1, <1>1 DEF CheckpointBefore
    <3> QED
      BY <3>2, <3>3
  <2> QED
    BY <2>1, <2>2
<1>11. SlotsByXid'
  <2> SUFFICES ASSUME NEW s \in 0 .. Slots - 1, ring'[s].valid, ring'[s].xid > 0
               PROVE  ring'[s].xid <= committed' /\ s = ring'[s].xid % Slots
    BY DEF SlotsByXid
  <2>1. CASE s = slot
    BY <2>1, <1>1, <1>5, <1>6
  <2>2. CASE s # slot
    <3>1. ring'[s] = ring[s]
      BY <2>2, <1>6
    <3>2. ring[s].xid <= committed /\ s = ring[s].xid % Slots /\ ring[s].xid \in Nat
      BY <3>1, <1>0, <1>1 DEF WriterInv, SlotsByXid, TypeOK, Superblock
    <3> QED
      BY <3>1, <3>2, <1>1, <1>5
  <2> QED
    BY <2>1, <2>2
<1>12. Transaction' /\ DoneIsWritten'
  BY <1>5 DEF Transaction, DoneIsWritten
<1>13. ValidHasXid'
  BY <1>0, <1>5 DEF ValidHasXid, tool
<1> QED
  BY <1>7, <1>10, <1>11, <1>12, <1>13 DEF WriterInv

(* The blocks of a checkpoint change place only when the next one is       *)
(* complete; no object is written but for a transaction that has begun.    *)
LEMMA HomeKept ==
  ASSUME IInv, Writer, committed' = committed
  PROVE  home' = home
<1>1. committed + 1 # committed
  BY Numbers DEF IInv
<1>2. ASSUME NEW ok \in BOOLEAN, WriteSuperblock(ok) PROVE home' = home
  BY <1>1, <1>2 DEF WriteSuperblock
<1>3. ASSUME NEW k \in Kind, NEW ok \in BOOLEAN, WriteObject(k, ok) PROVE home' = home
  BY <1>3 DEF WriteObject
<1> QED
  BY <1>2, <1>3 DEF Writer, Begin

LEMMA DiskKept ==
  ASSUME IInv, Writer, begun' # committed' + 1
  PROVE  disk' = disk
<1>1. ASSUME NEW k \in Kind, NEW ok \in BOOLEAN, WriteObject(k, ok) PROVE FALSE
  BY <1>1 DEF WriteObject, IInv, WriterInv, Transaction
<1>2. ASSUME NEW ok \in BOOLEAN, WriteSuperblock(ok) PROVE disk' = disk
  BY <1>2 DEF WriteSuperblock
<1> QED
  BY <1>1, <1>2 DEF Writer, Begin


(* A checkpoint stays where it is until it is overtaken.                   *)
LEMMA Stays ==
  ASSUME IInv, Writer, NEW x \in 1 .. committed, NEW f, Located(x, f), begun' <= x + 1,
         committed <= committed', begun' \in {committed', committed' + 1}, WriterInv',
         committed \in Nat, committed' \in Nat
  PROVE  Located(x, f)'
<1>1. f \in Layouts
  BY DEF Located
<1>2. CASE x = committed'
  <2>1. x = committed /\ committed' = committed /\ f = home
    BY <1>2 DEF Located
  <2>2. home' = home
    BY <2>1, HomeKept
  <2>3. Intact(committed, home)'
    BY <1>2 DEF WriterInv, LastCheckpoint
  <2> QED
    BY <1>1, <1>2, <2>1, <2>2, <2>3 DEF Located, Intact
<1>3. CASE x # committed'
  <2>1. x + 1 <= committed'
    BY <1>3
  <2>2. begun' # committed' + 1
    <3>1. PICK b \in Int : b = begun'
      OBVIOUS
    <3>2. PICK c \in Int : c = committed'
      OBVIOUS
    <3>3. b <= x + 1 /\ x + 1 <= c /\ x \in Int /\ b \in Int /\ c \in Int
      BY <2>1, <3>1, <3>2
    <3>4. b # c + 1
      BY ONLY <3>3, Z3
    <3> QED
      BY <3>1, <3>2, <3>4
  <2>3. disk' = disk
    BY <2>2, DiskKept
  <2> QED
    BY <1>1, <1>3, <2>3 DEF Located, Intact
<1> QED
  BY <1>2, <1>3

(* What the command has found stays, whatever the writer does, until it is *)
(* overtaken.                                                              *)
LEMMA WriterStep ==
  ASSUME IInv, Writer
  PROVE  IInv'
<1>1. TypeOK' /\ ValidHasXid' /\ WriterInv'
  BY BeginInv, WriteObjectInv, WriteSuperblockInv DEF Writer
<1>2. UNCHANGED tool /\ UNCHANGED contiguous
  BY DEF Writer, Begin, WriteObject, WriteSuperblock
<1>3. /\ committed \in Nat /\ begun \in Nat /\ newest \in Nat /\ bound \in Nat
      /\ begun \in {committed, committed + 1}
      /\ committed' \in Nat /\ begun' \in {committed', committed' + 1}
  <2>1. committed \in Nat /\ begun \in Nat /\ newest \in Nat /\ bound \in Nat
    BY Numbers, RequestTyped DEF IInv
  <2>2. committed' \in Nat
    BY <1>1, RingAssumption DEF TypeOK, Xid
  <2> QED
    BY <2>1, <2>2, <1>1 DEF IInv, WriterInv, LastCheckpoint
<1>4. \/ begun' = begun /\ committed' \in {committed, begun}
      \/ begun' = committed + 1 /\ committed' = committed
  <2>1. CASE Begin
    BY <2>1 DEF Begin
  <2>2. ASSUME NEW k \in Kind, NEW ok \in BOOLEAN, WriteObject(k, ok)
        PROVE  begun' = begun /\ committed' = committed
    BY <2>2 DEF WriteObject
  <2>3. ASSUME NEW ok \in BOOLEAN, WriteSuperblock(ok)
        PROVE  begun' = begun /\ committed' \in {committed, begun}
    <3>1. begun = committed + 1
      BY <2>3 DEF WriteSuperblock, IInv, WriterInv, Transaction
    <3> QED
      BY <2>3, <3>1 DEF WriteSuperblock
  <2> QED
    BY <2>1, <2>2, <2>3 DEF Writer
<1>5. begun <= begun' /\ committed <= committed'
  BY <1>3, <1>4
<1>6. Expected' = Expected /\ Expected \in Nat
  BY <1>2, <1>3 DEF tool, scan, Expected, bound
<1>7. \A x \in Nat : begun > x + 1 => begun' > x + 1
  BY <1>3, <1>5
<1>8. ASSUME NEW x \in 1 .. committed, NEW f, Located(x, f), ~(begun' > x + 1)
      PROVE  Located(x, f)'
  <2>1. begun' <= x + 1
    BY <1>3, <1>8
  <2> QED
    BY <2>1, <1>1, <1>3, <1>5, <1>8, Stays
<1>9. Copy'
  <2> SUFFICES ASSUME stage = -1, copied > 0
               PROVE  /\ newest \in 1 .. committed'
                      /\ \A s \in 0 .. copied - 1 :
                           xp_desc[s].valid /\ xp_desc[s].xid > 0 =>
                             /\ xp_desc[s].xid <= committed'
                             /\ ~(begun' > xp_desc[s].xid + 1) =>
                                  \E f \in Layouts : Located(xp_desc[s].xid, f)'
                                                    /\ xp_desc[s].next = f[nx_omap]
                      /\ ~(begun' > Expected + 1) /\ Expected % Slots < copied =>
                           xp_desc[Expected % Slots].valid /\ xp_desc[Expected % Slots].xid = Expected
    BY <1>2, <1>6 DEF Copy, tool, scan, Overtaken
  <2>1. newest \in 1 .. committed'
    BY <1>3, <1>5 DEF IInv, Copy
  <2>2. ASSUME NEW s \in 0 .. copied - 1, xp_desc[s].valid, xp_desc[s].xid > 0
        PROVE  /\ xp_desc[s].xid <= committed'
               /\ ~(begun' > xp_desc[s].xid + 1) =>
                    \E f \in Layouts : Located(xp_desc[s].xid, f)' /\ xp_desc[s].next = f[nx_omap]
    <3>1. s \in 0 .. Slots - 1
      BY <2>2, Numbers DEF IInv
    <3>2. PICK x \in Nat : x = xp_desc[s].xid
      BY <3>1, Numbers DEF IInv
    <3>3. x \in 1 .. committed
      BY <2>2, <3>2, <1>3 DEF IInv, Copy
    <3>4. ASSUME ~(begun' > x + 1)
          PROVE  \E f \in Layouts : Located(x, f)' /\ xp_desc[s].next = f[nx_omap]
      <4>1. ~Overtaken(x)
        BY <3>4, <1>7 DEF Overtaken
      <4>2. PICK f \in Layouts : Located(x, f) /\ xp_desc[s].next = f[nx_omap]
        BY <4>1, <2>2, <3>2 DEF IInv, Copy
      <4>3. Located(x, f)'
        BY <4>2, <3>3, <3>4, <1>8
      <4> QED
        BY <4>2, <4>3
    <3>5. x <= committed'
      BY <3>3, <1>3, <1>5
    <3> QED
      BY <3>2, <3>4, <3>5, <1>2 DEF Located, Intact, tool, scan
  <2>3. ASSUME ~(begun' > Expected + 1), Expected % Slots < copied
        PROVE  xp_desc[Expected % Slots].valid /\ xp_desc[Expected % Slots].xid = Expected
    <3>1. ~Overtaken(Expected)
      BY <2>3, <1>6, <1>7 DEF Overtaken
    <3> QED
      BY <3>1, <2>3 DEF IInv, Copy
  <2> QED
    BY <2>1, <2>2, <2>3
<1>10. OnTheWay'
  <2> SUFFICES ASSUME Scanned
               PROVE  /\ newest \in 1 .. committed'
                      /\ nxsb.xid \in 1 .. committed'
                      /\ nxsb.xid <= bound
                      /\ nxsb.xid < Expected => begun' > Expected + 1
                      /\ ~(begun' > nxsb.xid + 1) => \E f \in Layouts : Follows(f)'
    BY <1>2, <1>6 DEF OnTheWay, Scanned, Overtaken, tool, scan, bound
  <2>1. PICK x \in Nat : x = nxsb.xid
    BY Numbers DEF IInv
  <2>2. x \in 1 .. committed
    BY <2>1 DEF IInv, OnTheWay
  <2>3. newest \in 1 .. committed' /\ x \in 1 .. committed' /\ x <= bound
    BY <2>1, <2>2, <1>3, <1>5 DEF IInv, OnTheWay
  <2>4. x < Expected => begun' > Expected + 1
    BY <2>1, <1>6, <1>7 DEF IInv, OnTheWay, Overtaken
  <2>5. ASSUME ~(begun' > x + 1)
        PROVE  \E f \in Layouts : Follows(f)'
    <3>1. ~Overtaken(x)
      BY <2>5, <1>7 DEF Overtaken
    <3>2. PICK f \in Layouts : Follows(f)
      BY <3>1, <2>1 DEF IInv, OnTheWay
    <3>3. Located(x, f)'
      BY <2>1, <2>2, <2>5, <3>2, <1>8 DEF Follows
    <3>4. Follows(f)'
      BY <3>2, <3>3, <2>1, <1>2 DEF Follows, tool, Located, Intact
    <3> QED
      BY <3>4
  <2> QED
    BY <2>1, <2>3, <2>4, <2>5
<1>11. Position'
  BY <1>2 DEF IInv, Position, goal, volume, OutsideArray, tool
<1>12. Outcome'
  <2>1. nxsb.xid \in Nat
    BY Numbers DEF IInv
  <2>2. Overtaken(nxsb.xid) => begun' > nxsb.xid + 1
    BY <2>1, <1>7 DEF Overtaken
  <2>3. Overtaken(Expected) => begun' > Expected + 1
    BY <1>6, <1>7 DEF Overtaken
  <2>4. Reason(status)
    BY DEF IInv, Outcome
  <2>5. Reason(status)'
    BY <2>2, <2>3, <2>4, <1>2, <1>6 DEF Reason, Overtaken, volume, tool
  <2> QED
    BY <2>5, <1>2 DEF IInv, Outcome, goal, volume, bound, tool
<1> QED
  BY <1>1, <1>9, <1>10, <1>11, <1>12 DEF IInv

-----------------------------------------------------------------------------
(* Steps of the command.                                                   *)

LEMMA ContainerKept ==
  ASSUME WriterInv, UNCHANGED container
  PROVE  WriterInv'
  BY DEF container, WriterInv, LastCheckpoint, Transaction, CheckpointBefore, DoneIsWritten,
         SlotsByXid, Intact, InRing

LEMMA ExpectedTyped ==
  ASSUME IInv, newest \in 1 .. committed
  PROVE  Expected \in 1 .. committed /\ Expected <= bound
<1>1. bound \in Nat \ {0} /\ committed \in Nat
  BY Numbers, RequestTyped DEF IInv
<1> QED
  BY <1>1 DEF Expected

(* The object in memory, as long as the command is not overtaken.          *)
LEMMA ObjectFound ==
  ASSUME IInv, Scanned, ~Overtaken(nxsb.xid), stage \in Kind
  PROVE  /\ object.kind = stage /\ object.valid
         /\ object.xid = nxsb.xid
         /\ limit = nxsb.xid
<1>1. PICK f \in Layouts : Follows(f)
  BY DEF IInv, OnTheWay
<1>2. object = Written(f, stage, nxsb.xid, TRUE) /\ limit = nxsb.xid
  BY <1>1 DEF Follows
<1> QED
  BY <1>2 DEF Written

(* A step that only changes the status, or not even that.                  *)
LEMMA SameFindings ==
  ASSUME IInv, UNCHANGED <<container, request, stage, nxsb, object, next, limit, answers, scan>>
  PROVE  /\ WriterInv' /\ ValidHasXid' /\ Copy' /\ OnTheWay' /\ Position'
         /\ \A how : Reason(how)' <=> Reason(how)
<1>1. WriterInv' /\ ValidHasXid'
  BY ContainerKept DEF IInv, ValidHasXid, container
<1>2. /\ Expected' = Expected /\ nxsb' = nxsb /\ xp_desc' = xp_desc /\ copied' = copied
      /\ newest' = newest /\ bound' = bound /\ volume' = volume /\ goal' = goal
      /\ UNCHANGED <<ring, disk, committed, home, begun, request, stage, limit, object, next, contiguous>>
  BY DEF container, scan, Expected, bound, volume, goal
<1>3. Copy'
  BY <1>2 DEF IInv, Copy, Overtaken, Located, Intact
<1>4. OnTheWay'
  BY <1>2 DEF IInv, OnTheWay, Scanned, Overtaken, Follows, Located, Intact
<1>5. Position'
  BY <1>2 DEF IInv, Position, OutsideArray
<1>6. \A how : Reason(how)' <=> Reason(how)
  BY <1>2 DEF Reason, Overtaken
<1> QED
  BY <1>1, <1>3, <1>4, <1>5, <1>6

(* A command that only stops has found the same as before.                 *)
LEMMA StopKeeps ==
  ASSUME IInv, Running, NEW how, Stop(how), Reason(how),
         how \in {"ended", "astray", "failed", "crashed"}
  PROVE  IInv'
<1>1. /\ status' = how
      /\ UNCHANGED <<container, request, stage, nxsb, object, next, limit, answers, scan>>
  BY DEF Stop
<1>2. TypeOK'
  BY <1>1 DEF IInv, TypeOK, container, scan
<1>3. /\ WriterInv' /\ ValidHasXid' /\ Copy' /\ OnTheWay' /\ Position'
      /\ Reason(how)'
  BY <1>1, SameFindings
<1>4. Outcome'
  BY <1>1, <1>3 DEF Outcome
<1> QED
  BY <1>2, <1>3, <1>4 DEF IInv

LEMMA NotContiguousInv ==
  ASSUME IInv, NotContiguous
  PROVE  IInv'
<1>1. Running /\ Stop("ended") /\ ~contiguous /\ stage = -1
  BY DEF NotContiguous, Scanning
<1>2. Reason("ended")
  BY <1>1 DEF Reason
<1> QED
  BY <1>1, <1>2, StopKeeps

(* The slot of the checkpoint expected holds an acceptable superblock.     *)
LEMMA ExpectedCopied ==
  ASSUME IInv, Scanning, copied = Slots, ~Overtaken(Expected)
  PROVE  /\ Expected % Slots \in DOMAIN xp_desc
         /\ Acceptable(Expected % Slots)
         /\ xp_desc[Expected % Slots].xid = Expected
<1>1. stage = -1 /\ copied > 0 /\ Slots \in Nat \ {0, 1} /\ committed \in Nat
  BY Numbers DEF IInv, Scanning
<1>2. newest \in 1 .. committed
  BY <1>1 DEF IInv, Copy
<1>3. Expected \in 1 .. committed /\ Expected <= bound
  BY <1>2, ExpectedTyped
<1>4. Expected \in Nat /\ Expected % Slots \in 0 .. Slots - 1
  BY <1>1, <1>3, NextSlot
<1>5. Expected % Slots < copied
  BY <1>1, <1>4
<1>6. xp_desc[Expected % Slots].valid /\ xp_desc[Expected % Slots].xid = Expected
  BY <1>1, <1>5 DEF IInv, Copy
<1>7. DOMAIN xp_desc = 0 .. Slots - 1
  BY DEF IInv, TypeOK
<1> QED
  BY <1>3, <1>4, <1>6, <1>7 DEF Acceptable

LEMMA NoAcceptableSuperblockInv ==
  ASSUME IInv, NoAcceptableSuperblock
  PROVE  IInv'
<1>1. /\ Running /\ Stop("ended") /\ Scanning /\ copied = Slots /\ stage = -1
      /\ \A s \in DOMAIN xp_desc : ~Acceptable(s)
  BY DEF NoAcceptableSuperblock, Scanning
<1>2. Overtaken(Expected)
  BY <1>1, ExpectedCopied
<1>3. Reason("ended")
  BY <1>1, <1>2 DEF Reason
<1> QED
  BY <1>1, <1>3, StopKeeps

LEMMA NoSuchVolumeInv ==
  ASSUME IInv, NoSuchVolume
  PROVE  IInv'
<1>1. Running /\ Stop("ended") /\ volume # 1 /\ goal # nx_omap_btree /\ stage = nx_omap_btree
  BY DEF NoSuchVolume, Choosing
<1>2. request.command = "resolver" => volume > 0 \/ request.volume_name
  BY <1>1 DEF goal
<1>3. request.command = "resolver" => volume > 1 \/ request.volume_name
  BY <1>1, <1>2, RequestTyped DEF IInv
<1>4. Reason("ended")
  BY <1>1, <1>3 DEF Reason
<1> QED
  BY <1>1, <1>4, StopKeeps

LEMMA ReadsOutsideInv ==
  ASSUME IInv, ReadsOutside
  PROVE  IInv'
<1>1. Running /\ Stop("crashed")
  BY DEF ReadsOutside
<1>2. Reason("crashed")
  BY DEF Reason
<1> QED
  BY <1>1, <1>2, StopKeeps

LEMMA LookupFailsInv ==
  ASSUME IInv, LookupFails
  PROVE  IInv'
<1>1. Running /\ Stop("ended") /\ stage \in {nx_omap_btree, fs_omap_btree} /\ ~(object.xid <= limit)
  BY DEF LookupFails, Continues, Found
<1>2. Scanned => Overtaken(nxsb.xid)
  <2>1. nxsb.xid \in Nat
    BY Numbers DEF IInv
  <2> QED
    BY <1>1, <2>1, ObjectFound
<1>3. Reason("ended")
  BY <1>1, <1>2 DEF Reason, Scanned
<1> QED
  BY <1>1, <1>3, StopKeeps

LEMMA GoesAstrayInv ==
  ASSUME IInv, GoesAstray
  PROVE  IInv'
<1>1. Running /\ Stop("astray") /\ stage \in Kind /\ ~Sound
  BY DEF GoesAstray
<1>2. Scanned => Overtaken(nxsb.xid)
  BY <1>1, ObjectFound DEF Sound
<1>3. Reason("astray")
  BY <1>1, <1>2 DEF Reason, Scanned
<1> QED
  BY <1>1, <1>3, StopKeeps

LEMMA ReadFailsInv ==
  ASSUME IInv, ReadFails
  PROVE  IInv'
<1>1. Running /\ Stop("failed")
  BY DEF ReadFails
<1>2. Reason("failed")
  BY DEF Reason
<1> QED
  BY <1>1, <1>2, StopKeeps

(* A checkpoint is there, unless the writer has begun the second           *)
(* transaction after it.                                                   *)
LEMMA CheckpointIsThere ==
  ASSUME IInv, NEW x \in 1 .. committed, begun <= x + 1
  PROVE  \E f \in Layouts : Intact(x, f) /\ InRing(x, f) /\ (x = committed => f = home)
<1>0. committed \in Nat /\ begun \in Nat /\ begun \in {committed, committed + 1}
  BY Numbers DEF IInv, WriterInv, LastCheckpoint
<1>1. CASE x = committed
  BY <1>1 DEF IInv, WriterInv, LastCheckpoint
<1>2. CASE x # committed
  <2>1. begun = committed /\ committed > 1 /\ x = committed - 1
    BY <1>0, <1>2
  <2>2. PICK f \in Layouts : Intact(committed - 1, f) /\ InRing(committed - 1, f)
    BY <2>1 DEF IInv, WriterInv, CheckpointBefore
  <2> QED
    BY <2>1, <2>2, <1>2
<1> QED
  BY <1>1, <1>2

LEMMA ReadDescriptorInv ==
  ASSUME IInv, ReadDescriptor
  PROVE  IInv'
<1>0. TypeOK /\ WriterInv /\ ValidHasXid
  BY DEF IInv
<1>1. /\ status = "running" /\ stage = -1 /\ request.omap = NONE /\ contiguous
      /\ copied < Slots
      /\ xp_desc' = [xp_desc EXCEPT ![copied] = ring[copied]]
      /\ copied' = copied + 1
      /\ newest' = IF copied = 0 THEN committed ELSE newest
      /\ UNCHANGED <<container, request, stage, status, nxsb, object, next, limit, answers>>
  BY DEF ReadDescriptor, Scanning, Running
<1>2. /\ copied \in 0 .. Slots - 1 /\ Slots \in Nat \ {0, 1} /\ copied' \in 1 .. Slots
      /\ committed \in 1 .. MaxXid /\ MaxXid \in Nat /\ begun \in Nat /\ bound \in Nat \ {0}
  BY <1>0, <1>1, Numbers, RequestTyped
<1>3. ring[copied] \in Superblock /\ xp_desc \in [0 .. Slots - 1 -> Superblock]
  BY <1>0, <1>2 DEF TypeOK
<1>4. /\ xp_desc' \in [0 .. Slots - 1 -> Superblock] /\ xp_desc'[copied] = ring[copied]
      /\ \A s \in 0 .. copied - 1 : xp_desc'[s] = xp_desc[s]
  BY <1>1, <1>2, <1>3
<1>5. TypeOK'
  <2>1. newest' \in 0 .. MaxXid
    BY <1>0, <1>1, <1>2 DEF TypeOK
  <2>2. copied' \in 0 .. Slots
    BY <1>2
  <2> QED
    BY <2>1, <2>2, <1>0, <1>1, <1>4 DEF TypeOK, container
<1>6. WriterInv' /\ ValidHasXid'
  BY <1>0, <1>1, ContainerKept DEF ValidHasXid, container
<1>7. UNCHANGED <<committed, begun, home, disk, ring, request, stage, nxsb>>
  BY <1>1 DEF container
<1>8. newest' \in 1 .. committed
  <2>1. CASE copied = 0
    BY <2>1, <1>1, <1>2
  <2>2. CASE copied # 0
    <3>1. copied > 0
      BY <2>2, <1>2
    <3> QED
      BY <2>2, <3>1, <1>1 DEF IInv, Copy
  <2> QED
    BY <2>1, <2>2
<1> DEFINE x == IF bound < newest' THEN bound ELSE newest'
<1>9. Expected' = x /\ x \in 1 .. committed
  BY <1>2, <1>7, <1>8 DEF Expected, bound
<1>10. copied > 0 => x = Expected
  <2>1. copied > 0 => newest' = newest
    BY <1>1, <1>2
  <2> QED
    BY <2>1 DEF Expected
<1> HIDE DEF x
<1>11. Copy'
  <2>1. ASSUME NEW s \in 0 .. copied, xp_desc'[s].valid, xp_desc'[s].xid > 0
        PROVE  /\ xp_desc'[s].xid <= committed
               /\ ~Overtaken(xp_desc'[s].xid) =>
                    \E f \in Layouts : Located(xp_desc'[s].xid, f) /\ xp_desc'[s].next = f[nx_omap]
    <3>1. CASE s = copied
      <4>1. PICK y \in Nat : y = ring[s].xid
        BY <3>1, <1>3 DEF Superblock
      <4>2. xp_desc'[s] = ring[s] /\ ring[s].valid /\ y > 0 /\ s \in 0 .. Slots - 1
        BY <2>1, <3>1, <4>1, <1>2, <1>4
      <4>3. y <= committed /\ s = y % Slots
        BY <4>1, <4>2, <1>0 DEF WriterInv, SlotsByXid
      <4>4. ASSUME ~Overtaken(y)
            PROVE  \E f \in Layouts : Located(y, f) /\ ring[s].next = f[nx_omap]
        <5>1. begun <= y + 1 /\ y \in 1 .. committed
          BY <4>2, <4>3, <4>4, <1>2 DEF Overtaken
        <5>2. PICK f \in Layouts : Intact(y, f) /\ InRing(y, f) /\ (y = committed => f = home)
          BY <5>1, CheckpointIsThere
        <5> QED
          BY <5>2, <4>3 DEF InRing, Located
      <4> QED
        BY <4>1, <4>2, <4>3, <4>4
    <3>2. CASE s # copied
      <4>1. s \in 0 .. copied - 1 /\ copied > 0
        BY <3>2, <1>2
      <4>2. xp_desc'[s] = xp_desc[s]
        BY <4>1, <1>4
      <4> QED
        BY <4>1, <4>2, <2>1, <1>1 DEF IInv, Copy
    <3> QED
      BY <3>1, <3>2
  <2>2. ASSUME ~Overtaken(x), x % Slots < copied + 1
        PROVE  xp_desc'[x % Slots].valid /\ xp_desc'[x % Slots].xid = x
    <3>0. x \in Nat
      BY <1>2, <1>9
    <3>1. PICK t \in 0 .. Slots - 1 : t = x % Slots
      BY <3>0, NextSlot
    <3>2. CASE t = copied
      <4>1. begun <= x + 1
        BY <2>2, <1>2, <1>9 DEF Overtaken
      <4>2. PICK f \in Layouts : InRing(x, f)
        BY <4>1, <1>9, CheckpointIsThere
      <4> QED
        BY <4>2, <3>1, <3>2, <1>4 DEF InRing
    <3>3. CASE t # copied
      <4>1. t \in 0 .. copied - 1 /\ copied > 0 /\ t < copied
        BY <3>1, <3>3, <2>2, <1>2
      <4>2. xp_desc[t].valid /\ xp_desc[t].xid = x
        BY <4>1, <3>1, <2>2, <1>1, <1>10 DEF IInv, Copy
      <4> QED
        BY <4>1, <4>2, <3>1, <1>4
    <3> QED
      BY <3>2, <3>3
  <2>3. 0 .. copied' - 1 = 0 .. copied
    BY <1>1, <1>2
  <2>4. \A n, f : (Located(n, f)' <=> Located(n, f)) /\ (Overtaken(n)' <=> Overtaken(n))
    BY <1>7 DEF Located, Intact, Overtaken
  <2> QED
    BY <2>1, <2>2, <2>3, <2>4, <1>1, <1>7, <1>8, <1>9 DEF Copy, Overtaken
<1>12. OnTheWay' /\ Position' /\ Outcome'
  BY <1>1, RequestTyped, <1>0
     DEF OnTheWay, Scanned, Position, Outcome, Reason, goal, volume, IInv
<1> QED
  BY <1>5, <1>6, <1>11, <1>12 DEF IInv

LEMMA ScanInv ==
  ASSUME IInv, NEW s \in DOMAIN xp_desc, Scan(s)
  PROVE  IInv'
<1>0. TypeOK /\ WriterInv
  BY DEF IInv
<1>1. /\ Scanning /\ copied = Slots
      /\ Running /\ stage = -1 /\ request.omap = NONE /\ Latest(s)
      /\ nxsb' = xp_desc[s] /\ next' = xp_desc[s].next /\ limit' = xp_desc[s].xid /\ stage' = 0
      /\ xp_desc' = Unread
      /\ UNCHANGED <<container, request, status, object, answers, copied, newest>>
  BY DEF Scan, Scanning
<1>2. DOMAIN xp_desc = 0 .. Slots - 1 /\ xp_desc[s] \in Superblock
  BY <1>0 DEF TypeOK
<1>3. /\ bound \in Nat \ {0} /\ committed \in 1 .. MaxXid /\ MaxXid \in Nat /\ begun \in Nat
      /\ goal \in {nx_omap_btree, fs_omap_btree, fs_root_btree} /\ Slots \in Nat \ {0, 1}
  BY <1>0, Numbers, RequestTyped
<1>4. TypeOK'
  <2>1. nxsb' \in Superblock /\ next' \in Addr /\ limit' \in 0 .. MaxXid
    BY <1>1, <1>2 DEF Superblock
  <2>2. xp_desc' \in [0 .. Slots - 1 -> Superblock]
    <3>1. NoSuperblock \in Superblock
      <4>1. nxsb'.next \in Addr
        BY <2>1 DEF Superblock
      <4>2. AnyAddr \in Addr
        BY <4>1 DEF AnyAddr
      <4> QED
        BY <4>2, <1>3 DEF NoSuperblock, Superblock
    <3> QED
      BY <3>1, <1>1 DEF Unread
  <2> QED
    BY <2>1, <2>2, <1>0, <1>1 DEF TypeOK, container
<1>5. WriterInv' /\ ValidHasXid'
  BY <1>1, ContainerKept DEF IInv, ValidHasXid, container
<1>6. UNCHANGED <<committed, begun, home, disk, ring, request, newest>> /\ Expected' = Expected
      /\ bound' = bound
  BY <1>1 DEF container, Expected, bound
<1>7. PICK y \in Nat : y = xp_desc[s].xid
  BY <1>2 DEF Superblock
<1>8. xp_desc[s].valid /\ y > 0 /\ y <= bound
  BY <1>1, <1>7 DEF Latest, Acceptable
<1>9. /\ y <= committed
      /\ ~Overtaken(y) => \E f \in Layouts : Located(y, f) /\ xp_desc[s].next = f[nx_omap]
      /\ newest \in 1 .. committed
  <2>1. copied > 0 /\ s \in 0 .. copied - 1
    BY <1>1, <1>2, <1>3
  <2> QED
    BY <2>1, <1>1, <1>7, <1>8 DEF IInv, Copy
<1>10. y < Expected => Overtaken(Expected)
  <2> SUFFICES ASSUME ~Overtaken(Expected) PROVE ~(y < Expected)
    OBVIOUS
  <2>1. PICK t \in DOMAIN xp_desc : Acceptable(t) /\ xp_desc[t].xid = Expected
    BY <1>1, ExpectedCopied
  <2>2. Expected < y \/ Expected = y
    BY <2>1, <1>1, <1>7 DEF Latest
  <2>3. Expected \in Nat
    BY <1>3, <1>9 DEF Expected
  <2> QED
    BY <2>2, <2>3
<1>11. OnTheWay'
  <2>1. ASSUME ~Overtaken(y)
        PROVE  \E f \in Layouts : Follows(f)'
    <3>1. PICK f \in Layouts : Located(y, f) /\ xp_desc[s].next = f[nx_omap]
      BY <2>1, <1>9
    <3>2. Located(nxsb.xid, f)'
      BY <3>1, <1>1, <1>6, <1>7 DEF Located, Intact
    <3>3. stage' = 0 /\ stage' \notin Kind /\ limit' = nxsb'.xid /\ next' = f[nx_omap]
      BY <1>1, <3>1
    <3>4. Follows(f)'
      BY <3>2, <3>3 DEF Follows
    <3> QED
      BY <3>4
  <2>2. nxsb'.xid = y /\ y \in 1 .. committed
    BY <1>1, <1>3, <1>7, <1>8, <1>9
  <2> QED
    BY <2>1, <2>2, <1>6, <1>8, <1>9, <1>10 DEF OnTheWay, Overtaken
<1>12. Position' /\ Outcome'
  <2>1. goal' = goal /\ status' = "running"
    BY <1>1 DEF goal, volume, Running
  <2> QED
    BY <2>1, <1>1, <1>3 DEF Position, Outcome, Reason
<1>13. Copy'
  BY <1>1 DEF Copy
<1> QED
  BY <1>4, <1>5, <1>11, <1>12, <1>13 DEF IInv

LEMMA ReadNextInv ==
  ASSUME IInv, ReadNext
  PROVE  IInv'
<1>0. TypeOK /\ WriterInv /\ ValidHasXid
  BY DEF IInv
<1>1. /\ status = "running" /\ stage \in 0 .. goal - 1
      /\ object' = disk[next] /\ next' = disk[next].next
      /\ limit' = IF stage + 1 = apsb THEN disk[next].xid ELSE limit
      /\ stage' = stage + 1
      /\ status' = IF Arrived(stage + 1) THEN "mounted" ELSE status
      /\ UNCHANGED <<container, request, nxsb, answers, scan>>
      /\ HasVolume
  BY DEF ReadNext, Continues, Running
<1>2. goal \in {nx_omap_btree, fs_omap_btree, fs_root_btree} /\ goal' = goal /\ volume' = volume
  BY <1>0, <1>1, RequestTyped DEF goal, volume
<1>3. stage' \in 1 .. goal /\ stage \in 0 .. 5 /\ stage' \in Kind
  BY <1>1, <1>2
<1>4. next \in Addr /\ disk[next] \in Object
  BY <1>0 DEF TypeOK
<1>5. TypeOK'
  <2>1. object' \in Object /\ next' \in Addr /\ limit' \in 0 .. MaxXid
    BY <1>0, <1>1, <1>4 DEF Object, TypeOK
  <2>2. stage' \in -1 .. fs_root_btree /\ status' \in {"running", "mounted"}
    BY <1>1, <1>3
  <2> QED
    BY <2>1, <2>2, <1>0, <1>1 DEF TypeOK, container, scan
<1>6. WriterInv' /\ ValidHasXid'
  <2>1. disk[next].valid => disk[next].xid > 0
    BY <1>0, <1>4 DEF ValidHasXid
  <2> QED
    BY <2>1, <1>0, <1>1, ContainerKept DEF ValidHasXid, container
<1>7. OnTheWay'
  <2>0. /\ UNCHANGED <<committed, begun, home, disk, ring, request, newest, nxsb>>
        /\ Expected' = Expected /\ bound' = bound
    BY <1>1 DEF container, scan, Expected, bound
  <2>1. Scanned' => Scanned
    BY <2>0, <1>3 DEF Scanned
  <2>2. ASSUME Scanned, ~Overtaken(nxsb.xid)
        PROVE  \E f \in Layouts : Follows(f)'
    <3>1. PICK f \in Layouts : Follows(f)
      BY <2>2 DEF IInv, OnTheWay
    <3>2. next = f[stage + 1]
      <4>1. CASE stage = 0
        BY <4>1, <3>1 DEF Follows
      <4>2. CASE stage # 0
        <5>1. stage \in Kind /\ stage # fs_root_btree
          BY <4>2, <1>3
        <5>2. object = Written(f, stage, nxsb.xid, TRUE) /\ next = object.next
          BY <5>1, <3>1 DEF Follows
        <5> QED
          BY <5>1, <5>2 DEF Written
      <4> QED
        BY <4>1, <4>2
    <3>3. object' = Written(f, stage', nxsb.xid, TRUE)
      <4>1. disk[f[stage']] = Written(f, stage', nxsb.xid, TRUE)
        BY <3>1, <1>3 DEF Follows, Located, Intact
      <4> QED
        BY <4>1, <3>2, <1>1
    <3>4. object'.xid = nxsb.xid
      BY <3>3 DEF Written
    <3>5. limit' = nxsb.xid
      BY <3>1, <3>4, <1>1 DEF Follows
    <3>6. next' = object'.next /\ stage' # 0
      BY <1>1, <1>3
    <3>7. Located(nxsb.xid, f)'
      BY <2>0, <3>1 DEF Follows, Located, Intact
    <3> QED
      BY <2>0, <3>1, <3>3, <3>5, <3>6, <3>7 DEF Follows
  <2> QED
    BY <2>0, <2>1, <2>2 DEF IInv, OnTheWay, Overtaken
<1>8. Position'
  <2> SUFFICES ASSUME stage' > nx_omap_btree PROVE volume = 1 \/ OutsideArray
    BY <1>2, <1>3 DEF Position, OutsideArray
  <2>1. CASE stage = nx_omap_btree
    BY <2>1, <1>1, <1>2, <1>3 DEF Choosing, HasVolume
  <2>2. CASE stage > nx_omap_btree
    BY <2>2 DEF IInv, Position
  <2> QED
    BY <2>1, <2>2, <1>1, <1>3
<1>9. Outcome'
  <2>1. status' = "running" \/ (status' = "mounted" /\ Arrived(stage'))
    BY <1>1
  <2> QED
    BY <2>1, <1>1, <1>2 DEF Outcome, Reason, Arrived
<1>10. Copy'
  BY <1>1, <1>3 DEF Copy
<1> QED
  BY <1>5, <1>6, <1>7, <1>8, <1>9, <1>10 DEF IInv

LEMMA ReadGivenMapInv ==
  ASSUME IInv, ReadGivenMap
  PROVE  IInv'
<1>0. TypeOK /\ WriterInv /\ ValidHasXid
  BY DEF IInv
<1>1. /\ status = "running" /\ request.omap # NONE
      /\ object' = disk[request.omap] /\ next' = disk[request.omap].next
      /\ stage' = nx_omap_btree
      /\ UNCHANGED <<container, request, status, nxsb, limit, answers, scan>>
  BY DEF ReadGivenMap, Running
<1>2. request.omap \in Addr /\ disk[request.omap] \in Object
  <2>1. request.omap \in Addr
    BY <1>0, <1>1, RequestTyped
  <2> QED
    BY <2>1, <1>0 DEF TypeOK
<1>3. goal' = goal /\ goal = nx_omap_btree
  BY <1>0, <1>1, RequestTyped DEF goal, volume
<1>4. TypeOK'
  <2>1. object' \in Object /\ next' \in Addr
    BY <1>1, <1>2 DEF Object
  <2> QED
    BY <2>1, <1>0, <1>1 DEF TypeOK, container, scan
<1>5. WriterInv' /\ ValidHasXid'
  BY <1>0, <1>1, <1>2, ContainerKept DEF ValidHasXid, container
<1>6. Copy' /\ OnTheWay' /\ Position' /\ Outcome'
  BY <1>1, <1>3 DEF Copy, OnTheWay, Scanned, Position, Outcome, Reason
<1> QED
  BY <1>4, <1>5, <1>6 DEF IInv

LEMMA ResolveInv ==
  ASSUME IInv, Resolve
  PROVE  IInv'
<1>0. TypeOK /\ WriterInv /\ ValidHasXid
  BY DEF IInv
<1>1. /\ request.command = "resolver" /\ stage = goal /\ Sound
      /\ answers' = [i \in DOMAIN request.oids |->
           IF request.oids[i] = object.kind + 1 /\ object.xid <= bound
             THEN <<object.next, object.xid>> ELSE NONE]
      /\ status' = "resolved"
      /\ UNCHANGED <<container, request, stage, nxsb, object, next, limit, scan>>
  BY DEF Resolve
<1>2. TypeOK'
  <2>1. object.xid \in Xid /\ object.next \in Addr
    BY <1>0, <1>1, RingAssumption DEF TypeOK, Object, ValidHasXid, Sound, Xid
  <2>2. answers' \in [DOMAIN request.oids -> (Addr \X Xid) \union {NONE}]
    BY <2>1, <1>1
  <2> QED
    BY <2>2, <1>0, <1>1 DEF TypeOK, container, scan
<1>3. WriterInv' /\ ValidHasXid'
  BY <1>0, <1>1, ContainerKept DEF ValidHasXid, container
<1>4. Copy' /\ OnTheWay' /\ Position'
  <2>1. stage >= 0
    BY <1>0, <1>1, RequestTyped
  <2>2. Copy'
    BY <2>1, <1>1 DEF Copy
  <2>3. OnTheWay' /\ Position'
    BY <1>1 DEF IInv, OnTheWay, Position, Scanned, Overtaken, Expected, Follows, Located, Intact,
                goal, volume, OutsideArray, bound, container, scan
  <2> QED
    BY <2>2, <2>3
<1>5. Outcome'
  BY <1>1 DEF Outcome, Reason, goal, volume, bound
<1> QED
  BY <1>2, <1>3, <1>4, <1>5 DEF IInv

-----------------------------------------------------------------------------
(* The theorems.                                                           *)

LEMMA NextInv ==
  ASSUME IInv, [Next]_vars
  PROVE  IInv'
<1>1. CASE Writer
  BY <1>1, WriterStep
<1>2. CASE Tool
  BY <1>2, ReadDescriptorInv, ScanInv, NotContiguousInv, NoAcceptableSuperblockInv,
     NoSuchVolumeInv, ReadsOutsideInv, LookupFailsInv, GoesAstrayInv, ReadNextInv, ReadGivenMapInv, ResolveInv, ReadFailsInv DEF Tool
<1>3. CASE UNCHANGED vars
  <2>1. UNCHANGED container /\ UNCHANGED tool
    BY <1>3 DEF vars
  <2>2. /\ WriterInv' /\ ValidHasXid' /\ Copy' /\ OnTheWay' /\ Position'
        /\ \A how : Reason(how)' <=> Reason(how)
    BY <2>1, SameFindings DEF tool
  <2>3. TypeOK'
    BY <2>1 DEF IInv, TypeOK, container, tool, scan
  <2>4. Outcome'
    <3>1. Reason(status)'
      BY <2>1, <2>2 DEF IInv, Outcome, tool
    <3> QED
      BY <2>1, <3>1 DEF IInv, Outcome, goal, volume, bound, tool
  <2> QED
    BY <2>2, <2>3, <2>4 DEF IInv
<1> QED
  BY <1>1, <1>2, <1>3 DEF Next

LEMMA Invariance == Spec => []IInv
<1>1. Init => IInv
  BY InitInv
<1>2. IInv /\ [Next]_vars => IInv'
  BY NextInv
<1> QED
  BY <1>1, <1>2, PTL DEF Spec

(* Types are correct for any number of transactions, slots, layouts and    *)
(* command lines (recover.c:252-473, resolver.c:181-440).                  *)
THEOREM TypeCorrect == Spec => []TypeOK
<1>1. IInv => TypeOK
  BY DEF IInv
<1> QED
  BY <1>1, Invariance, PTL

(* What a command that has arrived has in memory.                          *)
LEMMA SnapshotOfInv ==
  ASSUME IInv
  PROVE  MountsNewestSnapshot
<1>0. TypeOK
  BY DEF IInv
<1>1. ASSUME stage >= 0, request.omap = NONE
      PROVE  nxsb.xid <= bound /\ (nxsb.xid < Expected => Overtaken(Expected))
  BY <1>1 DEF IInv, OnTheWay, Scanned
<1>2. ASSUME status = "mounted", ~Overtaken(nxsb.xid)
      PROVE  /\ object.kind = fs_root_btree /\ object.valid /\ object.xid = nxsb.xid
             /\ volume \in 1 .. NX_MAX_FILE_SYSTEMS => volume = 1
  <2>1. stage = goal /\ request.command # "resolver"
    BY <1>2 DEF IInv, Outcome
  <2>2. stage = fs_root_btree /\ Scanned
    BY <2>1, <1>0, RequestTyped DEF Scanned
  <2>3. volume = 1 \/ OutsideArray
    BY <2>2 DEF IInv, Position
  <2> QED
    BY <2>2, <2>3, <1>2, ObjectFound DEF OutsideArray
<1>3. ASSUME status = "resolved", request.omap = NONE, ~Overtaken(nxsb.xid)
      PROVE  LET named == volume > 0 \/ request.volume_name IN
             /\ object.kind = IF named THEN fs_omap_btree ELSE nx_omap_btree
             /\ DOMAIN answers = DOMAIN request.oids
             /\ \A i \in DOMAIN answers :
                  IF request.oids[i] = IF named THEN fs_root_btree ELSE apsb
                    THEN answers[i] # NONE /\ answers[i][2] = nxsb.xid
                    ELSE answers[i] = NONE
  <2> DEFINE named == volume > 0 \/ request.volume_name
  <2>1. /\ stage = goal /\ request.command = "resolver"
        /\ answers = [i \in DOMAIN request.oids |->
             IF request.oids[i] = object.kind + 1 /\ object.xid <= bound
               THEN <<object.next, object.xid>> ELSE NONE]
    BY <1>3 DEF IInv, Outcome
  <2>2. /\ stage = IF named THEN fs_omap_btree ELSE nx_omap_btree
        /\ stage \in Kind /\ Scanned
    BY <2>1, <1>3 DEF Scanned, goal
  <2>3. object.kind = stage /\ object.xid = nxsb.xid /\ nxsb.xid <= bound /\ nxsb.xid \in Nat
    <3>1. nxsb.xid <= bound
      BY <2>2 DEF IInv, OnTheWay
    <3> QED
      BY <3>1, <2>2, <1>0, <1>3, ObjectFound, Numbers
  <2>4. object.kind + 1 = IF named THEN fs_root_btree ELSE apsb
    BY <2>2, <2>3
  <2>5. <<object.next, object.xid>> # NONE
    <3>1. object.next \in Addr /\ object.xid \in Nat
      BY <1>0, <2>3 DEF TypeOK, Object
    <3> QED
      BY <3>1, NoneAssumption
  <2> HIDE DEF named
  <2>6. /\ object.kind = IF named THEN fs_omap_btree ELSE nx_omap_btree
        /\ DOMAIN answers = DOMAIN request.oids
        /\ \A i \in DOMAIN answers :
             IF request.oids[i] = IF named THEN fs_root_btree ELSE apsb
               THEN answers[i] # NONE /\ answers[i][2] = nxsb.xid
               ELSE answers[i] = NONE
    BY <2>1, <2>2, <2>3, <2>4, <2>5
  <2> QED
    BY <2>6 DEF named
<1> QED
  BY <1>1, <1>2, <1>3 DEF MountsNewestSnapshot

(* Whatever the layouts, and wherever the writer crashes and its writes    *)
(* fall, between the reads of the descriptor area as well: the superblock  *)
(* chosen is at least as new as what --max-xid allowed when the reading    *)
(* began, a mount that is not overtaken yields the checkpoint of that      *)
(* superblock, and resolver answers from it (recover.c:288-471,            *)
(* resolver.c:226-432).                                                    *)
THEOREM SnapshotIsMounted == Spec => []MountsNewestSnapshot
  BY SnapshotOfInv, Invariance, PTL

(* A mount that is not overtaken ends early only for want of the volume    *)
(* or for a descriptor area that is a tree (recover.c:327-330, 375-388,    *)
(* resolver.c:325-345).                                                    *)
THEOREM FailureHasReason == Spec => []FailsOnlyWithReason
<1>1. IInv => FailsOnlyWithReason
  BY DEF IInv, Outcome, Reason, FailsOnlyWithReason
<1> QED
  BY <1>1, Invariance, PTL

=============================================================================
