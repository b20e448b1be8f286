---------------------------- MODULE Blocks_proofs ----------------------------
(***************************************************************************)
(* Proofs about the blocks of a container: that they are read as BlockIO   *)
(* has it, that Search, which reads them one by one, counts what is in     *)
(* them, and what their checksums (Cksum) tell.                            *)
(***************************************************************************)
EXTENDS Search, Cksum, FiniteSetTheorems, WellFoundedInduction, TLAPS

-----------------------------------------------------------------------------
(* BlockIO, for all containers, block sizes and calls.                     *)

(* While a call goes on, there is a block left to be read.                 *)
HasBlockLeft == status = "reading" => num_blocks_read < request.num

(* Nothing has been called while the container is being opened.            *)
NothingCalled == status = "opening" => request.num = 0

(* The error flag is never seen outside a read, and the end-of-file flag   *)
(* only when the process has been aborted for it.                          *)
FlagsClear == ~error /\ (eof => status = "aborted")

IInv ==
  /\ TypeOK
  /\ HasBlockLeft
  /\ NothingCalled
  /\ FlagsClear
  /\ ReadsNamedBlocks
  /\ ShortOnlyForReason

-----------------------------------------------------------------------------
(* Arithmetic.                                                             *)

(* A product of natural numbers is one.                                    *)
LEMMA Product == ASSUME NEW m \in Nat, NEW n \in Nat PROVE m * n \in Nat
  OBVIOUS

(* A number is not changed by a modulus above it, and is in range after    *)
(* one that is not.                                                        *)
LEMMA Wraps ==
  ASSUME NEW n \in Nat, NEW m \in Nat \ {0}
  PROVE  /\ n % m \in 0 .. m - 1
         /\ n < m => n % m = n
  OBVIOUS

(* Where fseeko() goes is where the block is, if that fits (io.c:141).     *)
LEMMA OffsetIsNamed ==
  ASSUME TypeOK
  PROVE  /\ Offset \in Nat
         /\ Named(num_blocks_read) < Modulus => Offset = Named(num_blocks_read)
<1> DEFINE n == request.start + num_blocks_read
<1>1. n \in Nat /\ block_size \in Nat
  BY DEF TypeOK
<1>2. n * block_size \in Nat
  BY <1>1, Product
<1>3. Modulus \in Nat \ {0}
  BY WidthAssumption
<1> HIDE DEF n
<1>4. (n * block_size) % Modulus \in Nat
  BY <1>2, <1>3, Wraps
<1>5. n * block_size < Modulus => (n * block_size) % Modulus = n * block_size
  BY <1>2, <1>3, Wraps
<1> QED
  BY <1>4, <1>5 DEF n, Offset, Named

-----------------------------------------------------------------------------
(* The inductive invariant.                                                *)

LEMMA InvInit == Init => IInv
<1> SUFFICES ASSUME Init
             PROVE  IInv
  OBVIOUS
<1>1. TypeOK
  <2>1. MaxBlocks \in Nat /\ block_size \in Nat
    BY RequestAssumption DEF Init
  <2>2. request \in [start : Nat, num : 0 .. MaxBlocks] /\ num_blocks_read \in 0 .. request.num
    BY <2>1 DEF Init
  <2>3. buffer \in [0 .. MaxBlocks - 1 -> Nat \union {Junk}]
    BY DEF Init
  <2> QED
    BY <2>1, <2>2, <2>3 DEF Init, TypeOK
<1>2. HasBlockLeft /\ NothingCalled /\ FlagsClear
  BY DEF Init, HasBlockLeft, NothingCalled, FlagsClear
<1>3. ReadsNamedBlocks /\ ShortOnlyForReason
  BY DEF Init, ReadsNamedBlocks, ShortOnlyForReason
<1> QED
  BY <1>1, <1>2, <1>3 DEF IInv

(* Opening the container leaves what the calls use as it is.               *)
LEMMA OpenKeeps ==
  ASSUME IInv, Open
  PROVE  IInv'
<1> USE DEF IInv, Junk
<1>1. UNCHANGED <<container, error, request, num_blocks_read, buffer>>
      /\ status = "opening" /\ status' \in {"idle", "failed", "aborted"}
      /\ (eof' => eof \/ status' = "aborted")
  BY DEF Open, CannotOpen, OpenWithOption, OpenWithField, OpenFails, OpenHitsEnd, stream
<1>2. block_size' \in Nat /\ eof' \in BOOLEAN
  BY WidthAssumption, ContainerAssumption
  DEF Open, CannotOpen, OpenWithOption, OpenWithField, OpenFails, OpenHitsEnd, stream, TypeOK,
      Container
<1>3. request.num = 0 /\ num_blocks_read = 0
  BY <1>1 DEF NothingCalled, TypeOK
<1>4. TypeOK'
  BY <1>1, <1>2 DEF TypeOK
<1>5. HasBlockLeft' /\ NothingCalled' /\ FlagsClear'
  BY <1>1 DEF HasBlockLeft, NothingCalled, FlagsClear
<1>6. ReadsNamedBlocks' /\ ShortOnlyForReason'
  BY <1>1, <1>3 DEF ReadsNamedBlocks, ShortOnlyForReason
<1> QED
  BY <1>4, <1>5, <1>6

(* So does the beginning of a call.                                        *)
LEMMA CallKeeps ==
  ASSUME IInv, NEW r \in Requests, Call(r)
  PROVE  IInv'
<1> USE DEF IInv, Call, stream
<1>1. r \in [start : Nat, num : 0 .. MaxBlocks] /\ MaxBlocks \in Nat
  BY RequestAssumption
<1>2. TypeOK'
  BY <1>1 DEF TypeOK
<1>3. HasBlockLeft' /\ NothingCalled' /\ FlagsClear'
  BY <1>1 DEF HasBlockLeft, NothingCalled, FlagsClear
<1>4. ReadsNamedBlocks' /\ ShortOnlyForReason'
  BY <1>1 DEF ReadsNamedBlocks, ShortOnlyForReason
<1> QED
  BY <1>2, <1>3, <1>4

(* A block that cannot be read ends the call with what it has.             *)
LEMMA GivingUpKeeps ==
  ASSUME IInv, SeekRefused \/ ReadError \/ ReadPastEnd
  PROVE  IInv'
<1> USE DEF IInv, SeekRefused, ReadError, ReadPastEnd, Return, stream
<1>1. UNCHANGED <<container, block_size, request, num_blocks_read>> /\ ~error'
      /\ status = "reading" /\ status' \in {"idle", "aborted"} /\ (eof' => status' = "aborted")
  BY DEF FlagsClear
<1>2. num_blocks_read \in Nat /\ request.num \in 0 .. MaxBlocks /\ MaxBlocks \in Nat
      /\ num_blocks_read < request.num
  BY <1>1, RequestAssumption DEF TypeOK, HasBlockLeft
<1>3. buffer' \in [0 .. MaxBlocks - 1 -> Nat \union {Junk}]
      /\ \A b \in 0 .. num_blocks_read - 1 : buffer'[b] = buffer[b]
  BY <1>2 DEF TypeOK
<1>4. TypeOK'
  BY <1>1, <1>3 DEF TypeOK
<1>5. HasBlockLeft' /\ NothingCalled' /\ FlagsClear'
  BY <1>1 DEF HasBlockLeft, NothingCalled, FlagsClear
<1>6. ReadsNamedBlocks'
  <2> SUFFICES ASSUME NEW b \in 0 .. num_blocks_read - 1, Named(b) < Modulus
               PROVE  buffer'[b] = Named(b)
    BY <1>1 DEF ReadsNamedBlocks, Named
  <2> QED
    BY <1>3 DEF ReadsNamedBlocks
<1>7. ShortOnlyForReason'
  <2>1. Offset' = Offset /\ block_size' = block_size /\ container' = container
    BY <1>1 DEF Offset
  <2>2. status' = "idle" => SeekFails(Offset) \/ ReadHitsError(Offset, block_size)
    BY <1>1
  <2> QED
    BY <2>1, <2>2 DEF ShortOnlyForReason, SeekFails, ReadHitsError, Sectors
<1> QED
  BY <1>4, <1>5, <1>6, <1>7

(* A block that is read is the one at Offset.                              *)
LEMMA ReadKeeps ==
  ASSUME IInv, ReadBlock
  PROVE  IInv'
<1> USE DEF IInv, ReadBlock, Return
<1>1. num_blocks_read \in Nat /\ request.num \in 0 .. MaxBlocks /\ MaxBlocks \in Nat
      /\ num_blocks_read < request.num /\ num_blocks_read' = num_blocks_read + 1
      /\ UNCHANGED <<container, block_size, request>>
  BY RequestAssumption DEF TypeOK, HasBlockLeft
<1>2. Offset \in Nat
      /\ (Named(num_blocks_read) < Modulus => Offset = Named(num_blocks_read))
  BY OffsetIsNamed
<1>3. buffer' \in [0 .. MaxBlocks - 1 -> Nat \union {Junk}]
      /\ buffer'[num_blocks_read] = Offset
      /\ \A b \in 0 .. num_blocks_read - 1 : buffer'[b] = buffer[b]
  <2> HIDE DEF Offset
  <2> QED
    BY <1>1, <1>2 DEF TypeOK
<1>4. status' \in {"idle", "reading"} /\ (status' = "reading" => num_blocks_read' # request.num)
  BY <1>1
<1>5. TypeOK'
  <2>1. num_blocks_read' \in 0 .. request'.num
    BY <1>1
  <2>2. container' \in Containers /\ block_size' \in Nat /\ eof' \in BOOLEAN /\ error' \in BOOLEAN
        /\ request' \in [start : Nat, num : 0 .. MaxBlocks]
    BY <1>1 DEF TypeOK
  <2> QED
    BY <2>1, <2>2, <1>3, <1>4 DEF TypeOK
<1>6. HasBlockLeft' /\ NothingCalled' /\ FlagsClear'
  BY <1>1, <1>4 DEF HasBlockLeft, NothingCalled, FlagsClear
<1>7. ReadsNamedBlocks'
  <2> SUFFICES ASSUME NEW b \in 0 .. num_blocks_read, Named(b) < Modulus
               PROVE  buffer'[b] = Named(b)
    BY <1>1 DEF ReadsNamedBlocks, Named
  <2>1. CASE b = num_blocks_read
    BY <2>1, <1>2, <1>3
  <2>2. CASE b \in 0 .. num_blocks_read - 1
    BY <2>2, <1>3 DEF ReadsNamedBlocks
  <2> QED
    BY <2>1, <2>2, <1>1
<1>8. ShortOnlyForReason'
  BY <1>1 DEF ShortOnlyForReason
<1> QED
  BY <1>5, <1>6, <1>7, <1>8

LEMMA InvStep == IInv /\ [Next]_vars => IInv'
<1> SUFFICES ASSUME IInv, [Next]_vars
             PROVE  IInv'
  OBVIOUS
<1>1. CASE Open
  BY <1>1, OpenKeeps
<1>2. CASE Read
  BY <1>2, GivingUpKeeps, ReadKeeps DEF Read
<1>3. CASE \E r \in Requests : Call(r)
  BY <1>3, CallKeeps
<1>4. CASE UNCHANGED vars
  BY <1>4 DEF vars, stream, IInv, TypeOK, HasBlockLeft, NothingCalled, FlagsClear,
     ReadsNamedBlocks, Named, ShortOnlyForReason, SeekFails, ReadHitsError, Sectors, Offset
<1> QED
  BY <1>1, <1>2, <1>3, <1>4 DEF Next

(* The invariant holds throughout.                                         *)
LEMMA Invariant == Spec => []IInv
  BY InvInit, InvStep, PTL DEF Spec

(* Types.                                                                  *)
THEOREM TypeCorrect == Spec => []TypeOK
<1>1. IInv => TypeOK
  BY DEF IInv
<1> QED
  BY <1>1, Invariant, PTL

(* The blocks that read_blocks() reports as read are, in their order, the  *)
(* ones at the addresses asked for, unless the product of address and      *)
(* block size wraps around (io.c:131-178).                                 *)
THEOREM NamedBlocksAreRead == Spec => []ReadsNamedBlocks
<1>1. IInv => ReadsNamedBlocks
  BY DEF IInv
<1> QED
  BY <1>1, Invariant, PTL

(* A call comes back short only when the first block that is missing       *)
(* cannot be read, whatever earlier calls have met.                        *)
THEOREM ShortForReason == Spec => []ShortOnlyForReason
<1>1. IInv => ShortOnlyForReason
  BY DEF IInv
<1> QED
  BY <1>1, Invariant, PTL

(* No flag of the stream outlives the call that set it, so that the        *)
(* assertion before clearerr() is about the present read (io.c:152-157),   *)
(* and end_of_container() holds nowhere it is asked (search.c:178).        *)
THEOREM FlagsAreCleared == Spec => []FlagsClearBetweenCalls
<1>1. IInv => FlagsClearBetweenCalls
  BY DEF IInv, FlagsClear, FlagsClearBetweenCalls, end_of_container
<1> QED
  BY <1>1, Invariant, PTL

-----------------------------------------------------------------------------
(* Induction and recursion over numbers.                                   *)

(* Induction up to a number, the formula being membership in a set.        *)
LEMMA UpTo ==
  ASSUME NEW d \in Nat, NEW T, 0 \in T, \A l \in 0 .. d - 1 : l \in T => l + 1 \in T
  PROVE  \A l \in 0 .. d : l \in T
<1> DEFINE Out == {l \in 0 .. d : l \notin T}
           R == OpToRel(<, Nat)
<1> SUFFICES ASSUME Out # {}
             PROVE  FALSE
  OBVIOUS
<1>1. IsWellFoundedOn(R, Nat)
  BY NatLessThanWellFounded
<1>2. \A m, n \in Nat : m < n => <<m, n>> \in R
  BY DEF OpToRel
<1> HIDE DEF R
<1>3. Out \in SUBSET Nat
  OBVIOUS
<1>4. PICK n \in Out : \A m \in Out : <<m, n>> \notin R
  <2>1. \E n \in Out : \A m \in Out : ~ (<<m, n>> \in R)
    BY <1>1, <1>3, WFMin
  <2> QED
    BY <2>1
<1>5. n - 1 \in 0 .. d - 1 /\ n - 1 \in T
  <2>1. n # 0
    OBVIOUS
  <2>2. n \in Nat /\ n - 1 \in Nat /\ n - 1 < n
    BY <2>1
  <2>3. n - 1 \notin Out
    BY <1>2, <1>4, <2>2
  <2> QED
    BY <2>1, <2>2, <2>3
<1>6. (n - 1) + 1 \in T
  BY <1>5
<1>7. (n - 1) + 1 = n
  OBVIOUS
<1> QED
  BY <1>6, <1>7

(* The same from one number to another.                                    *)
LEMMA FromTo ==
  ASSUME NEW m \in Nat, NEW n \in Nat, m <= n,
         NEW T, m \in T, \A k \in m .. n - 1 : k \in T => k + 1 \in T
  PROVE  \A k \in m .. n : k \in T
<1> DEFINE D == {l \in Nat : m + l \in T}
<1>1. n - m \in Nat /\ 0 \in D
  OBVIOUS
<1>2. \A l \in 0 .. (n - m) - 1 : l \in D => l + 1 \in D
  <2> SUFFICES ASSUME NEW l \in 0 .. (n - m) - 1, l \in D
               PROVE  l + 1 \in D
    OBVIOUS
  <2>1. m + l \in m .. n - 1 /\ m + l \in T /\ (m + l) + 1 = m + (l + 1) /\ l + 1 \in Nat
    OBVIOUS
  <2> QED
    BY <2>1
<1>3. \A l \in 0 .. n - m : l \in D
  <2> HIDE DEF D
  <2> QED
    BY <1>1, <1>2, UpTo
<1> SUFFICES ASSUME NEW k \in m .. n
             PROVE  k \in T
  OBVIOUS
<1>4. k - m \in 0 .. n - m /\ m + (k - m) = k
  OBVIOUS
<1> QED
  BY <1>3, <1>4

(* A function on m .. n may be given by its first value and by a step from *)
(* each value to the next.                                                 *)
Recurs(f, m, n, base, step) ==
  f = [k \in m .. n |-> IF k = m THEN base ELSE step[k][f[k - 1]]]

LEMMA Recursion ==
  ASSUME NEW m \in Nat, NEW n \in Nat, m <= n,
         NEW V, NEW base \in V, NEW step \in [m + 1 .. n -> [V -> V]]
  PROVE  \E f \in [m .. n -> V] : Recurs(f, m, n, base, step)
<1> DEFINE IsPart(f, k) ==
             /\ f \in [m .. k -> V]
             /\ f[m] = base
             /\ \A j \in m + 1 .. k : f[j] = step[j][f[j - 1]]
           T == {k \in m .. n : \E f : IsPart(f, k)}
<1>1. m \in T
  <2>1. IsPart([k \in m .. m |-> base], m)
    OBVIOUS
  <2> HIDE DEF IsPart
  <2> QED
    BY <2>1
<1>2. ASSUME NEW l \in m .. n - 1, l \in T
      PROVE  l + 1 \in T
  <2>1. PICK f : IsPart(f, l)
    <3> HIDE DEF IsPart
    <3> QED
      BY <1>2
  <2> DEFINE g == [k \in m .. l + 1 |-> IF k = l + 1 THEN step[l + 1][f[l]] ELSE f[k]]
  <2>2. /\ l \in Nat /\ l + 1 \in m + 1 .. n /\ l \in m .. l /\ m \in m .. l /\ f[l] \in V
        /\ l + 1 # m /\ m \in m .. l + 1 /\ l \in m .. l + 1 /\ l # l + 1 /\ l + 1 \in m .. l + 1
    BY <2>1
  <2>3. step[l + 1][f[l]] \in V
    <3>1. PICK h \in [V -> V] : h = step[l + 1]
      BY <2>2
    <3>2. h[f[l]] \in V
      BY <2>2, <3>1
    <3> QED
      BY <3>1, <3>2
  <2>4. g \in [m .. l + 1 -> V]
    <3>1. \A k \in m .. l + 1 : k = l + 1 \/ k \in m .. l
      BY <2>2
    <3>2. \A k \in m .. l : f[k] \in V
      BY <2>1
    <3>3. \A k \in m .. l + 1 : (IF k = l + 1 THEN step[l + 1][f[l]] ELSE f[k]) \in V
      BY <2>3, <3>1, <3>2
    <3> QED
      BY <3>3
  <2>5. g[m] = base
    BY <2>1, <2>2
  <2>6. \A j \in m + 1 .. l + 1 : g[j] = step[j][g[j - 1]]
    <3>1. ASSUME NEW j \in m + 1 .. l
          PROVE  g[j] = step[j][g[j - 1]]
      <4>1. j \in m .. l + 1 /\ j # l + 1 /\ j - 1 \in m .. l + 1 /\ j - 1 # l + 1
        BY <2>2
      <4>2. g[j] = f[j] /\ g[j - 1] = f[j - 1]
        BY <4>1
      <4>3. f[j] = step[j][f[j - 1]]
        BY <2>1
      <4> QED
        BY <4>2, <4>3
    <3>2. g[l + 1] = step[l + 1][g[l]]
      BY <2>2
    <3>3. \A j \in m + 1 .. l + 1 : j \in m + 1 .. l \/ j = l + 1
      BY <2>2
    <3>4. (l + 1) - 1 = l
      BY <2>2
    <3> HIDE DEF g
    <3> QED
      BY <3>1, <3>2, <3>3, <3>4
  <2>7. IsPart(g, l + 1)
    <3> HIDE DEF g
    <3> QED
      BY <2>4, <2>5, <2>6
  <2>8. l + 1 \in m .. n
    BY <2>2
  <2> HIDE DEF IsPart, g
  <2> QED
    BY <2>7, <2>8
<1>3. n \in T
  <2> HIDE DEF T
  <2>1. \A l \in m .. n : l \in T
    BY <1>1, <1>2, FromTo
  <2>2. n \in m .. n
    OBVIOUS
  <2> QED
    BY <2>1, <2>2
<1>4. PICK f : IsPart(f, n)
  <2> HIDE DEF IsPart
  <2> QED
    BY <1>3
<1>5. Recurs(f, m, n, base, step)
  <2>1. \A k \in m .. n : f[k] = IF k = m THEN base ELSE step[k][f[k - 1]]
    <3>1. \A k \in m .. n : k = m \/ k \in m + 1 .. n
      OBVIOUS
    <3> QED
      BY <1>4, <3>1
  <2>2. f = [k \in m .. n |-> f[k]]
    BY <1>4
  <2> HIDE DEF IsPart
  <2> QED
    BY <2>1, <2>2 DEF Recurs
<1> QED
  BY <1>4, <1>5

-----------------------------------------------------------------------------
(* Search, for all disks and ranges: what it knows where.                  *)

(* What each criterion finds in the block in memory.                       *)
VirtualHits == IF Current.valid /\ Current.virtual THEN 1 ELSE 0
RecordHits == IF IsFsNode /\ \E n \in DOMAIN Current.records : Current.records[n].oid THEN 1 ELSE 0
NameHits == IF IsFsNode THEN Cardinality(WithName(Current)) ELSE 0
TargetHits == IF IsFsNode THEN Cardinality(WithTarget(Current)) ELSE 0

Matching == {"virtual objects", "records", "names", "targets"}
Starting == {"open", "block count", "reading block count"}

(* Where the search is.                                                    *)
PhaseInv ==
  /\ disk \in Disks
  /\ phase \in Starting \union {"loop", "reading", "unreadable", "done", "ended"} \union Matching
  /\ addr \in start_addr .. end_addr
  /\ phase \in Starting => addr = start_addr /\ num_matches = 0
  /\ phase \notin {"open", "ended"} => block_size # 0
  /\ phase = "reading" => request = [start |-> addr, num |-> 1] /\ num_blocks_read = 0
  /\ phase \in {"reading", "unreadable"} \union Matching => addr < end_addr
  /\ phase = "unreadable" => status = "idle"
  /\ phase = "done" => addr = end_addr

(* What it has in memory, and what it has found.                           *)
Fits == end_addr * block_size <= Modulus

CountInv ==
  /\ phase = "unreadable" => ~Readable(addr)
  /\ phase \in Matching => Readable(addr) /\ buffer[0] = addr * block_size
  /\ phase \in {"names", "targets"} => ~SkippedNode
  /\ phase \in {"loop", "reading", "unreadable", "virtual objects", "done"} =>
       num_matches = FoundBefore[addr]
  /\ phase = "records" => num_matches = FoundBefore[addr] + VirtualHits
  /\ phase = "names" => num_matches = FoundBefore[addr] + VirtualHits + RecordHits
  /\ phase = "targets" => num_matches = FoundBefore[addr] + VirtualHits + RecordHits + NameHits

SearchInv == IInv /\ PhaseInv /\ (Fits => CountInv)

(* The search uses the stream as BlockIO has it, so that what holds of all *)
(* calls of read_blocks() holds of its calls.                              *)
LEMMA SearchStepIsStep ==
  ASSUME PhaseInv, SearchNext
  PROVE  [Next]_vars
<1> DEFINE Reads == [start : 0 .. end_addr, num : {1}]
<1>1. Reads \subseteq Requests
  BY CallAssumption
<1>2. CASE OpenContainer
  BY <1>2 DEF OpenContainer, Next
<1>3. CASE ReadingBlockCount \/ Reading
  BY <1>3 DEF ReadingBlockCount, Reading, Next
<1>4. CASE StartReadBlockCount
  <2>1. [start |-> 0, num |-> 1] \in Reads
    BY RangeAssumption
  <2>2. \E r \in Requests : Call(r)
    BY <1>1, <1>4, <2>1 DEF StartReadBlockCount
  <2> QED
    BY <2>2 DEF Next
<1>5. CASE StartRead
  <2>1. [start |-> addr, num |-> 1] \in Reads
    BY RangeAssumption DEF PhaseInv
  <2>2. \E r \in Requests : Call(r)
    BY <1>1, <1>5, <2>1 DEF StartRead
  <2> QED
    BY <2>2 DEF Next
<1>6. CASE SkipUnreadable \/ MatchVirtual \/ SkipNode \/ MatchRecords \/ MatchNames
           \/ MatchTargets \/ Finish
  BY <1>6 DEF SkipUnreadable, MatchVirtual, SkipNode, MatchRecords, MatchNames, MatchTargets,
     Finish
<1> QED
  BY <1>2, <1>3, <1>4, <1>5, <1>6 DEF SearchNext

(* Finite sets of records.                                                 *)
LEMMA Countable ==
  ASSUME NEW b \in Contents, NEW S \in SUBSET (DOMAIN b.records)
  PROVE  IsFiniteSet(S) /\ Cardinality(S) \in Nat
<1>1. b.records \in Seq(Record)
  BY DEF Contents
<1>2. DOMAIN b.records = 1 .. Len(b.records) /\ Len(b.records) \in Nat
  BY <1>1
<1>3. IsFiniteSet(1 .. Len(b.records))
  BY <1>2, FS_Interval
<1> QED
  BY <1>2, <1>3, FS_Subset, FS_CardinalityType

(* A copy of each element under a name.                                    *)
LEMMA Tagged ==
  ASSUME NEW tag, NEW S, IsFiniteSet(S)
  PROVE  IsFiniteSet({tag} \X S) /\ Cardinality({tag} \X S) = Cardinality(S)
<1>1. IsFiniteSet({tag}) /\ Cardinality({tag}) = 1
  BY FS_Singleton
<1>2. IsFiniteSet({tag} \X S) /\ Cardinality({tag} \X S) = 1 * Cardinality(S)
  BY <1>1, FS_Product
<1>3. Cardinality(S) \in Nat
  BY FS_CardinalityType
<1> QED
  BY <1>2, <1>3

(* A set of one element or none.                                           *)
LEMMA AtMostOne ==
  ASSUME NEW e, NEW P \in BOOLEAN
  PROVE  LET S == {h \in {e} : P}
         IN IsFiniteSet(S) /\ Cardinality(S) = IF P THEN 1 ELSE 0
<1>1. CASE P
  <2>1. {h \in {e} : P} = {e}
    BY <1>1
  <2> QED
    BY <1>1, <2>1, FS_Singleton
<1>2. CASE ~P
  <2>1. {h \in {e} : P} = {}
    BY <1>2
  <2> QED
    BY <1>2, <2>1, FS_EmptySet
<1> QED
  BY <1>1, <1>2

(* Sets without a common element.                                          *)
LEMMA Disjoint ==
  ASSUME NEW S, NEW T, IsFiniteSet(S), IsFiniteSet(T), S \intersect T = {}
  PROVE  /\ IsFiniteSet(S \union T)
         /\ Cardinality(S \union T) = Cardinality(S) + Cardinality(T)
         /\ Cardinality(S \union T) \in Nat
<1>1. IsFiniteSet(S \union T)
      /\ Cardinality(S \union T) = Cardinality(S) + Cardinality(T) - Cardinality(S \intersect T)
  BY FS_Union
<1>2. Cardinality(S \intersect T) = 0
  BY FS_EmptySet
<1>3. Cardinality(S) \in Nat /\ Cardinality(T) \in Nat
  BY FS_CardinalityType
<1> QED
  BY <1>1, <1>2, <1>3

(* The hits in a block are those of the criteria, one after the other.     *)
LEMMA HitsAdd ==
  ASSUME NEW b \in Contents
  PROVE  LET node == b.valid /\ b.fs_node
             skipped == node /\ (b.fixed \/ ~b.leaf)
             virtual == IF b.valid /\ b.virtual THEN 1 ELSE 0
             records == IF node /\ \E n \in DOMAIN b.records : b.records[n].oid THEN 1 ELSE 0
             names == IF node THEN Cardinality(WithName(b)) ELSE 0
             targets == IF node THEN Cardinality(WithTarget(b)) ELSE 0
         IN Cardinality(Hits(b)) = IF skipped THEN virtual ELSE virtual + records + names + targets
<1> DEFINE V == {h \in {<<"virtual", 0>>} : b.virtual}
           R == {h \in {<<"record", 0>>} : \E n \in DOMAIN b.records : b.records[n].oid}
           N == {"name"} \X WithName(b)
           T == {"target"} \X WithTarget(b)
           HasOid == \E n \in DOMAIN b.records : b.records[n].oid
<1>1. b.valid \in BOOLEAN /\ b.virtual \in BOOLEAN /\ b.fs_node \in BOOLEAN
      /\ b.fixed \in BOOLEAN /\ b.leaf \in BOOLEAN /\ HasOid \in BOOLEAN
  BY DEF Contents
<1>2. IsFiniteSet(V) /\ Cardinality(V) = IF b.virtual THEN 1 ELSE 0
  BY <1>1, AtMostOne
<1>3. IsFiniteSet(R) /\ Cardinality(R) = IF HasOid THEN 1 ELSE 0
  <2>1. PICK p \in BOOLEAN : p = HasOid
    BY <1>1
  <2>2. R = {h \in {<<"record", 0>>} : p}
    BY <2>1
  <2> HIDE DEF R, HasOid
  <2> QED
    BY <2>1, <2>2, AtMostOne
<1>4. IsFiniteSet(N) /\ Cardinality(N) = Cardinality(WithName(b)) /\ Cardinality(WithName(b)) \in Nat
  <2>1. WithName(b) \in SUBSET (DOMAIN b.records)
    BY DEF WithName
  <2> QED
    BY <2>1, Countable, Tagged
<1>5. IsFiniteSet(T) /\ Cardinality(T) = Cardinality(WithTarget(b))
      /\ Cardinality(WithTarget(b)) \in Nat
  <2>1. WithTarget(b) \in SUBSET (DOMAIN b.records)
    BY DEF WithTarget
  <2> QED
    BY <2>1, Countable, Tagged
<1>6. \A h \in V : h[1] = "virtual"
  <2>1. \A h \in V : h = <<"virtual", 0>>
    OBVIOUS
  <2> HIDE DEF V
  <2> QED
    BY <2>1
<1>7. \A h \in R : h[1] = "record"
  OBVIOUS
<1>8. \A h \in N : h[1] = "name"
  OBVIOUS
<1>9. \A h \in T : h[1] = "target"
  OBVIOUS
<1>10. Hits(b) = IF ~b.valid THEN {} ELSE
                 V \union (IF ~b.fs_node \/ b.fixed \/ ~b.leaf THEN {} ELSE R \union N \union T)
  BY DEF Hits, WithName, WithTarget
<1> HIDE DEF V, R, N, T, HasOid
<1>11. /\ IsFiniteSet(R \union N)
       /\ Cardinality(R \union N) = Cardinality(R) + Cardinality(N)
  <2>1. R \intersect N = {}
    BY <1>7, <1>8
  <2> QED
    BY <1>3, <1>4, <2>1, Disjoint
<1>12. /\ IsFiniteSet(R \union N \union T)
       /\ Cardinality(R \union N \union T) = Cardinality(R) + Cardinality(N) + Cardinality(T)
  <2>1. (R \union N) \intersect T = {}
    BY <1>7, <1>8, <1>9
  <2>2. Cardinality((R \union N) \union T) = Cardinality(R \union N) + Cardinality(T)
        /\ IsFiniteSet((R \union N) \union T)
    BY <1>5, <1>11, <2>1, Disjoint
  <2> QED
    BY <1>11, <2>2
<1>13. Cardinality(V \union (R \union N \union T))
         = Cardinality(V) + (Cardinality(R) + Cardinality(N) + Cardinality(T))
  <2>1. V \intersect (R \union N \union T) = {}
    BY <1>6, <1>7, <1>8, <1>9
  <2>2. Cardinality(V \union (R \union N \union T))
          = Cardinality(V) + Cardinality(R \union N \union T)
    BY <1>2, <1>12, <2>1, Disjoint
  <2> QED
    BY <1>12, <2>2
<1>14. Cardinality({}) = 0 /\ V \union {} = V
  BY FS_EmptySet
<1>15. CASE ~b.valid
  BY <1>10, <1>14, <1>15
<1>16. CASE b.valid /\ ~b.fs_node
  BY <1>1, <1>2, <1>10, <1>14, <1>16
<1>17. CASE b.valid /\ b.fs_node /\ (b.fixed \/ ~b.leaf)
  BY <1>1, <1>2, <1>10, <1>14, <1>17
<1>18. CASE b.valid /\ b.fs_node /\ ~(b.fixed \/ ~b.leaf)
  <2>1. Cardinality(Hits(b)) = Cardinality(V) + (Cardinality(R) + Cardinality(N) + Cardinality(T))
    BY <1>10, <1>13, <1>18
  <2>2. PICK v \in {0, 1}, r \in {0, 1}, n \in Nat, t \in Nat :
          /\ v = Cardinality(V) /\ r = Cardinality(R)
          /\ n = Cardinality(N) /\ t = Cardinality(T)
    BY <1>1, <1>2, <1>3, <1>4, <1>5
  <2>3. Cardinality(Hits(b)) = v + r + n + t
    BY <2>1, <2>2
  <2> QED
    BY <1>2, <1>3, <1>4, <1>5, <1>18, <2>2, <2>3 DEF HasOid
<1> QED
  BY <1>1, <1>15, <1>16, <1>17, <1>18

(* A block is readable if fread() at its first sector gets all of it.      *)
LEMMA ReadableIs ==
  ASSUME TypeOK, NEW a \in Nat, NEW first, first = a * block_size
  PROVE  /\ first \in Nat
         /\ Readable(a) <=> ReadSucceeds(first, block_size)
<1>1. block_size \in Nat
  BY DEF TypeOK
<1>2. first \in Nat /\ (a + 1) * block_size = first + block_size
  BY <1>1, Product
<1>3. PICK end : end = (a + 1) * block_size
  OBVIOUS
<1>4. end = first + block_size
  BY <1>2, <1>3
<1>5. Readable(a) <=> \A s \in first .. end - 1 : s < container.size /\ s \notin container.bad
  BY <1>3 DEF Readable
<1>6. ReadSucceeds(first, block_size)
        <=> \A s \in first .. end - 1 : s < container.size /\ s \notin container.bad
  BY <1>1, <1>2, <1>4 DEF ReadSucceeds, Sectors
<1> QED
  BY <1>2, <1>5, <1>6

(* It is on the container, then.                                           *)
LEMMA FirstSector ==
  ASSUME TypeOK, disk \in Disks, block_size # 0, NEW a \in Nat, Readable(a)
  PROVE  disk[a * block_size] \in Contents
<1>1. block_size \in Nat /\ block_size > 0 /\ container \in Containers /\ container.size \in Nat
  BY ContainerAssumption DEF TypeOK, Container
<1>2. PICK s \in Nat : s = a * block_size
  BY <1>1, Product
<1>3. ReadSucceeds(s, block_size)
  BY <1>2, ReadableIs
<1>4. s \in s .. s + block_size - 1
  BY <1>1, <1>2
<1>5. s < container.size
  BY <1>3, <1>4 DEF ReadSucceeds, Sectors
<1>6. s \in 0 .. container.size - 1
  BY <1>1, <1>2, <1>5
<1>7. disk[s] \in Contents
  BY <1>1, <1>6, DiskAssumption
<1> QED
  BY <1>2, <1>7

(* What there is to be found in a block is a finite number.                *)
LEMMA HitsCounted ==
  ASSUME NEW b \in Contents
  PROVE  Cardinality(Hits(b)) \in Nat
<1>1. /\ WithName(b) \in SUBSET (DOMAIN b.records)
      /\ WithTarget(b) \in SUBSET (DOMAIN b.records)
  BY DEF WithName, WithTarget
<1>2. Cardinality(WithName(b)) \in Nat /\ Cardinality(WithTarget(b)) \in Nat
  BY <1>1, Countable
<1> QED
  BY <1>2, HitsAdd

(* What is found before each address, as a recursion.                      *)
LEMMA FoundIs ==
  ASSUME TypeOK, disk \in Disks, block_size # 0
  PROVE  /\ \A a \in Nat : HitsAt(a) \in Nat
         /\ FoundBefore[start_addr] = 0
         /\ \A a \in start_addr .. end_addr : FoundBefore[a] \in Nat
         /\ \A a \in start_addr .. end_addr - 1 : FoundBefore[a + 1] = FoundBefore[a] + HitsAt(a)
<1> DEFINE step == [k \in start_addr + 1 .. end_addr |-> [x \in Nat |-> x + HitsAt(k - 1)]]
           S == start_addr .. end_addr
           Body(f, a) == IF a = start_addr THEN 0 ELSE f[a - 1] + HitsAt(a - 1)
<1>1. start_addr \in Nat /\ end_addr \in Nat /\ start_addr <= end_addr
  BY RangeAssumption
<1>2. ASSUME NEW a \in Nat
      PROVE  HitsAt(a) \in Nat
  <2>1. CASE Readable(a)
    <3>2. disk[a * block_size] \in Contents
      BY <2>1, FirstSector
    <3>3. Cardinality(Hits(disk[a * block_size])) \in Nat
      BY <3>2, HitsCounted
    <3> QED
      BY <2>1, <3>3 DEF HitsAt
  <2> QED
    BY <2>1 DEF HitsAt
<1> HIDE DEF HitsAt
<1>3. step \in [start_addr + 1 .. end_addr -> [Nat -> Nat]]
  <2> SUFFICES ASSUME NEW k \in start_addr + 1 .. end_addr
               PROVE  [x \in Nat |-> x + HitsAt(k - 1)] \in [Nat -> Nat]
    OBVIOUS
  <2>1. k - 1 \in Nat
    BY <1>1
  <2>2. HitsAt(k - 1) \in Nat
    BY <1>2, <2>1
  <2> QED
    BY <2>2
<1>4. PICK f \in [S -> Nat] : f = [a \in S |-> IF a = start_addr THEN 0 ELSE step[a][f[a - 1]]]
  <2>1. 0 \in Nat
    OBVIOUS
  <2> HIDE DEF step
  <2>2. \E f \in [start_addr .. end_addr -> Nat] : Recurs(f, start_addr, end_addr, 0, step)
    BY <1>1, <1>3, <2>1, Recursion
  <2> QED
    BY <2>2 DEF Recurs
<1>5. \A a \in S : f[a] = Body(f, a)
  <2> SUFFICES ASSUME NEW a \in S, a # start_addr
               PROVE  f[a] = f[a - 1] + HitsAt(a - 1)
    BY <1>4
  <2>1. a \in start_addr + 1 .. end_addr /\ a - 1 \in S
    BY <1>1
  <2>2. f[a] = step[a][f[a - 1]] /\ f[a - 1] \in Nat
    BY <1>4, <2>1
  <2> QED
    BY <2>1, <2>2
<1>6. f = [a \in S |-> Body(f, a)]
  BY <1>4, <1>5
<1>7. FoundBefore = [a \in S |-> Body(FoundBefore, a)]
  BY <1>6 DEF FoundBefore
<1>8. \A a \in start_addr .. end_addr - 1 : FoundBefore[a + 1] = FoundBefore[a] + HitsAt(a)
  <2> SUFFICES ASSUME NEW a \in start_addr .. end_addr - 1
               PROVE  FoundBefore[a + 1] = FoundBefore[a] + HitsAt(a)
    OBVIOUS
  <2>1. a + 1 \in S /\ a + 1 # start_addr /\ (a + 1) - 1 = a
    BY <1>1
  <2> QED
    BY <1>7, <2>1
<1>9. FoundBefore[start_addr] = 0
  BY <1>1, <1>7
<1>10. \A a \in S : FoundBefore[a] \in Nat
  <2> DEFINE T == {a \in S : FoundBefore[a] \in Nat}
  <2>1. start_addr \in T
    BY <1>1, <1>9
  <2>2. ASSUME NEW a \in start_addr .. end_addr - 1, a \in T
        PROVE  a + 1 \in T
    <3>1. a \in Nat /\ a + 1 \in S
      BY <1>1
    <3>2. HitsAt(a) \in Nat
      BY <1>2, <3>1
    <3> QED
      BY <1>8, <2>2, <3>1, <3>2
  <2>3. \A a \in S : a \in T
    <3> HIDE DEF T
    <3> QED
      BY <1>1, <2>1, <2>2, FromTo
  <2> QED
    BY <2>3
<1> QED
  BY <1>2, <1>8, <1>9, <1>10

(* As long as disk and block size stay as they are, so does all that.      *)
LEMMA FoundKept ==
  ASSUME UNCHANGED <<container, block_size, disk>>
  PROVE  FoundBefore' = FoundBefore
  BY DEF FoundBefore, HitsAt, Readable

LEMMA HereKept ==
  ASSUME UNCHANGED <<container, block_size, disk, addr>>
  PROVE  /\ FoundBefore'[addr'] = FoundBefore[addr]
         /\ Readable(addr)' <=> Readable(addr)
         /\ (addr * block_size)' = addr * block_size
  BY FoundKept DEF Readable

LEMMA Below ==
  ASSUME NEW a \in Nat, NEW b \in Nat, NEW c \in Nat, a < b, c # 0
  PROVE  a * c < b * c
<1>1. PICK d \in Nat : b = a + d /\ d >= 1
  <2>1. b - a \in Nat /\ b = a + (b - a) /\ b - a >= 1
    OBVIOUS
  <2> QED
    BY <2>1
<1>2. d * c >= 1 /\ a * c \in Nat
  BY <1>1
<1>3. b * c = a * c + d * c
  BY <1>1
<1> QED
  BY <1>2, <1>3

(* A block that can be read is read, and one that cannot is reported: what *)
(* read_blocks() does when it is asked for one block.                      *)
LEMMA OneBlock ==
  ASSUME IInv, Fits, addr \in Nat, addr < end_addr, block_size # 0,
         request = [start |-> addr, num |-> 1], num_blocks_read = 0
  PROVE  /\ SeekRefused \/ ReadError => ~Readable(addr)
         /\ ReadBlock => Readable(addr) /\ buffer'[0] = addr * block_size
<1>1. TypeOK /\ end_addr \in Nat /\ Modulus \in Nat \ {0}
  BY RangeAssumption, WidthAssumption DEF IInv
<1>2. block_size \in Nat /\ container \in Containers /\ container.size \in Nat
      /\ 2 * container.size < Modulus
  BY <1>1, ContainerAssumption DEF TypeOK, Container
<1>3. PICK first \in Nat : first = addr * block_size
  BY <1>2, Product
<1>4. first < Modulus
  <2>1. addr * block_size < end_addr * block_size
    BY <1>1, <1>2, Below
  <2>2. end_addr * block_size \in Nat
    BY <1>1, <1>2, Product
  <2> QED
    BY <1>1, <1>3, <2>1, <2>2 DEF Fits
<1>5. Named(num_blocks_read) = first
  BY <1>3 DEF Named
<1>6. Offset = first
  BY <1>1, <1>4, <1>5, OffsetIsNamed
<1>7. Readable(addr) <=> ReadSucceeds(first, block_size)
  BY <1>1, <1>3, ReadableIs
<1>8. first \in Sectors(first, block_size)
  BY <1>2 DEF Sectors
<1>9. SeekFails(first) => first >= container.size
  BY <1>1, <1>2 DEF SeekFails
<1>10. SeekFails(first) => ~ReadSucceeds(first, block_size)
  BY <1>2, <1>8, <1>9 DEF ReadSucceeds
<1>11. ReadHitsError(first, block_size) => ~ReadSucceeds(first, block_size)
  BY DEF ReadSucceeds, ReadHitsError
<1>12. ReadBlock => buffer'[0] = first
  <2>1. MaxBlocks \in Nat /\ request.num \in 0 .. MaxBlocks /\ request.num = 1
    BY <1>1, RequestAssumption DEF TypeOK
  <2>2. 0 \in 0 .. MaxBlocks - 1
    BY <2>1
  <2>3. buffer \in [0 .. MaxBlocks - 1 -> Nat \union {Junk}]
    BY <1>1 DEF TypeOK
  <2> QED
    BY <1>6, <2>2, <2>3 DEF ReadBlock
<1>13. ReadBlock => ReadSucceeds(first, block_size)
  BY <1>6 DEF ReadBlock
<1>14. SeekRefused \/ ReadError => SeekFails(first) \/ ReadHitsError(first, block_size)
  BY <1>6 DEF SeekRefused, ReadError
<1> QED
  BY <1>3, <1>7, <1>10, <1>11, <1>12, <1>13, <1>14

(* What is found at the address searched is what is found in the buffer.   *)
LEMMA HitsHere ==
  ASSUME TypeOK, disk \in Disks, block_size # 0, addr \in Nat,
         Readable(addr), buffer[0] = addr * block_size
  PROVE  /\ VirtualHits \in Nat /\ RecordHits \in Nat /\ NameHits \in Nat /\ TargetHits \in Nat
         /\ HitsAt(addr) = IF SkippedNode THEN VirtualHits
                           ELSE VirtualHits + RecordHits + NameHits + TargetHits
<1>1. Current = disk[addr * block_size]
  BY DEF Current
<1>2. PICK b \in Contents : b = Current
  BY <1>1, FirstSector
<1>3. HitsAt(addr) = Cardinality(Hits(b))
  BY <1>1, <1>2 DEF HitsAt
<1>4. /\ WithName(b) \in SUBSET (DOMAIN b.records)
      /\ WithTarget(b) \in SUBSET (DOMAIN b.records)
  BY DEF WithName, WithTarget
<1>5. Cardinality(WithName(b)) \in Nat /\ Cardinality(WithTarget(b)) \in Nat
  BY <1>4, Countable
<1>6. VirtualHits \in Nat /\ RecordHits \in Nat /\ NameHits \in Nat /\ TargetHits \in Nat
  BY <1>2, <1>5 DEF VirtualHits, RecordHits, NameHits, TargetHits
<1>7. Cardinality(Hits(b)) = IF SkippedNode THEN VirtualHits
                             ELSE VirtualHits + RecordHits + NameHits + TargetHits
  BY <1>2, HitsAdd DEF VirtualHits, RecordHits, NameHits, TargetHits, SkippedNode, IsFsNode
<1> QED
  BY <1>3, <1>6, <1>7

(* What every read leaves as it is.                                        *)
LEMMA ReadLeaves ==
  ASSUME Read
  PROVE  /\ UNCHANGED <<container, block_size, request>>
         /\ status = "reading" /\ status' \in {"idle", "reading", "aborted"}
  BY DEF Read, SeekRefused, ReadBlock, ReadError, ReadPastEnd, Return

(* A call for one block is over after one step.                            *)
LEMMA OneRead ==
  ASSUME Read, request.num = 1, num_blocks_read = 0
  PROVE  \/ (SeekRefused \/ ReadError) /\ num_blocks_read' = 0 /\ status' = "idle"
         \/ ReadBlock /\ num_blocks_read' = 1 /\ status' = "idle"
         \/ ReadPastEnd /\ status' = "aborted"
  BY DEF Read, SeekRefused, ReadBlock, ReadError, ReadPastEnd, Return

-----------------------------------------------------------------------------
(* The inductive invariant of the search.                                  *)

LEMMA SearchInvInit == SearchInit => SearchInv
<1> SUFFICES ASSUME SearchInit
             PROVE  SearchInv
  OBVIOUS
<1>1. IInv
  BY InvInit DEF SearchInit
<1>2. PhaseInv
  BY RangeAssumption DEF SearchInit, PhaseInv, Starting, Matching
<1>3. CountInv
  BY DEF SearchInit, CountInv, Matching
<1> QED
  BY <1>1, <1>2, <1>3 DEF SearchInv

LEMMA PhaseStep ==
  ASSUME IInv, PhaseInv, SearchNext
  PROVE  PhaseInv'
<1>1. start_addr \in Nat /\ end_addr \in Nat /\ start_addr <= end_addr /\ addr \in Nat
      /\ start_addr <= addr /\ addr <= end_addr
  BY RangeAssumption DEF PhaseInv
<1>2. disk' \in Disks
  BY DEF SearchNext, OpenContainer, StartReadBlockCount, ReadingBlockCount, StartRead, Reading,
     SkipUnreadable, MatchVirtual, SkipNode, MatchRecords, MatchNames, MatchTargets, Finish,
     PhaseInv
<1> USE DEF Starting, Matching
<1>3. CASE OpenContainer
  <2>1. status' = "idle" => block_size' # 0
    BY <1>3, WidthAssumption
    DEF OpenContainer, Open, CannotOpen, OpenWithOption, OpenWithField, OpenFails, OpenHitsEnd
  <2> QED
    BY <1>1, <1>2, <1>3, <2>1 DEF OpenContainer, PhaseInv
<1>4. CASE StartReadBlockCount
  BY <1>1, <1>2, <1>4 DEF StartReadBlockCount, Call, PhaseInv
<1>5. CASE ReadingBlockCount
  BY <1>1, <1>2, <1>5, ReadLeaves DEF ReadingBlockCount, PhaseInv
<1>6. CASE StartRead
  BY <1>1, <1>2, <1>6 DEF StartRead, Call, PhaseInv
<1>7. CASE Reading
  <2>1. phase = "reading" /\ Read /\ addr' = addr /\ block_size' = block_size
    BY <1>7, ReadLeaves DEF Reading
  <2>2. request.num = 1 /\ num_blocks_read = 0 /\ block_size # 0 /\ addr < end_addr
    BY <2>1 DEF PhaseInv
  <2>3. phase' \in {"ended", "virtual objects", "unreadable"}
        /\ (phase' = "unreadable" => status' = "idle")
    BY <1>7, <2>1, <2>2, OneRead DEF Reading
  <2> QED
    BY <1>1, <1>2, <2>1, <2>2, <2>3 DEF PhaseInv
<1>8. CASE SkipUnreadable
  <2>1. ~end_of_container
    BY <1>8 DEF SkipUnreadable, PhaseInv, IInv, FlagsClear, end_of_container
  <2>2. phase' = "loop" /\ addr' = addr + 1 /\ addr < end_addr /\ block_size' = block_size
        /\ block_size # 0
    BY <1>8, <2>1 DEF SkipUnreadable, NextAddr, PhaseInv, vars
  <2>3. addr' \in start_addr .. end_addr
    BY <1>1, <2>2
  <2> QED
    BY <1>2, <2>2, <2>3 DEF PhaseInv
<1>9. CASE SkipNode \/ MatchTargets
  <2>1. phase' = "loop" /\ addr' = addr + 1 /\ addr < end_addr /\ block_size' = block_size
        /\ block_size # 0
    BY <1>9 DEF SkipNode, MatchTargets, NextAddr, PhaseInv, vars
  <2>2. addr' \in start_addr .. end_addr
    BY <1>1, <2>1
  <2> QED
    BY <1>2, <2>1, <2>2 DEF PhaseInv
<1>10. CASE MatchVirtual \/ MatchRecords \/ MatchNames
  <2>1. phase' \in {"records", "names", "targets"} /\ addr' = addr /\ addr < end_addr
        /\ block_size' = block_size /\ block_size # 0
    BY <1>10 DEF MatchVirtual, MatchRecords, MatchNames, PhaseInv, vars
  <2> QED
    BY <1>1, <1>2, <2>1 DEF PhaseInv
<1>11. CASE Finish
  <2>1. phase' = "done" /\ addr' = addr /\ addr >= end_addr /\ block_size' = block_size
        /\ block_size # 0
    BY <1>11 DEF Finish, PhaseInv, vars
  <2>2. addr' = end_addr /\ addr' \in start_addr .. end_addr
    BY <1>1, <2>1
  <2> QED
    BY <1>2, <2>1, <2>2 DEF PhaseInv
<1> QED
  BY <1>3, <1>4, <1>5, <1>6, <1>7, <1>8, <1>9, <1>10, <1>11 DEF SearchNext

(* A step within a block leaves what the criteria find in it as it is.     *)
LEMMA HitsKept ==
  ASSUME UNCHANGED <<vars, disk>>
  PROVE  /\ UNCHANGED <<VirtualHits, RecordHits, NameHits, TargetHits, container, block_size>>
         /\ SkippedNode' <=> SkippedNode
         /\ buffer'[0] = buffer[0]
  BY DEF vars, VirtualHits, RecordHits, NameHits, TargetHits, SkippedNode, IsFsNode, Current,
     WithName, WithTarget

LEMMA CountStep ==
  ASSUME SearchInv, SearchNext, Fits'
  PROVE  CountInv'
<1> USE DEF Matching
<1>1. TypeOK /\ IInv /\ PhaseInv /\ disk \in Disks
  BY DEF SearchInv, IInv, PhaseInv
<1>2. start_addr \in Nat /\ end_addr \in Nat /\ start_addr <= end_addr
      /\ addr \in start_addr .. end_addr /\ addr \in Nat
  <2>1. addr \in start_addr .. end_addr
    BY <1>1 DEF PhaseInv
  <2> QED
    BY <2>1, RangeAssumption
<1>3. CASE OpenContainer \/ StartReadBlockCount
  BY <1>3 DEF OpenContainer, StartReadBlockCount, CountInv
<1>4. SUFFICES ASSUME ~(OpenContainer \/ StartReadBlockCount)
               PROVE  CountInv'
  BY <1>3
<1>5. UNCHANGED <<container, block_size, disk>>
  BY <1>4, ReadLeaves
  DEF SearchNext, ReadingBlockCount, StartRead, Call, Reading, SkipUnreadable, MatchVirtual,
      SkipNode, MatchRecords, MatchNames, MatchTargets, Finish, vars
<1>6. CountInv
  BY <1>5 DEF SearchInv, Fits
<1>7. block_size # 0
  BY <1>4
  DEF SearchNext, ReadingBlockCount, StartRead, Reading, SkipUnreadable, MatchVirtual,
      SkipNode, MatchRecords, MatchNames, MatchTargets, Finish, SearchInv, PhaseInv
<1>8. FoundBefore' = FoundBefore /\ FoundBefore[start_addr] = 0 /\ FoundBefore[addr] \in Nat
  BY <1>1, <1>2, <1>5, <1>7, FoundKept, FoundIs
<1>9. addr < end_addr => /\ HitsAt(addr) \in Nat
                         /\ FoundBefore[addr + 1] = FoundBefore[addr] + HitsAt(addr)
  BY <1>1, <1>2, <1>7, FoundIs
<1>10. addr' = addr => /\ Readable(addr)' <=> Readable(addr)
                       /\ (addr * block_size)' = addr * block_size
  BY <1>5, HereKept
<1>11. phase \in Matching /\ addr < end_addr =>
         /\ VirtualHits \in Nat /\ RecordHits \in Nat /\ NameHits \in Nat /\ TargetHits \in Nat
         /\ HitsAt(addr) = IF SkippedNode THEN VirtualHits
                           ELSE VirtualHits + RecordHits + NameHits + TargetHits
  BY <1>1, <1>2, <1>6, <1>7, HitsHere DEF CountInv
<1> HIDE DEF Matching
<1>12. CASE ReadingBlockCount
  <2>1. phase' \in {"loop", "ended"} /\ num_matches' = 0 /\ addr' = start_addr
    BY <1>1, <1>12 DEF ReadingBlockCount, PhaseInv, Starting
  <2> QED
    BY <1>8, <2>1 DEF CountInv, Matching
<1>13. CASE StartRead
  <2>1. phase' = "reading" /\ num_matches' = num_matches /\ addr' = addr
        /\ num_matches = FoundBefore[addr]
    BY <1>6, <1>13 DEF StartRead, CountInv
  <2> QED
    BY <1>8, <2>1 DEF CountInv, Matching
<1>14. CASE Reading
  <2>1. /\ phase = "reading" /\ Read /\ request = [start |-> addr, num |-> 1]
        /\ num_blocks_read = 0 /\ addr < end_addr
        /\ addr' = addr /\ num_matches' = num_matches /\ num_matches = FoundBefore[addr]
    BY <1>1, <1>6, <1>14 DEF Reading, PhaseInv, CountInv
  <2>2. Fits
    BY <1>5 DEF Fits
  <2>3. /\ SeekRefused \/ ReadError => ~Readable(addr)
        /\ ReadBlock => Readable(addr) /\ buffer'[0] = addr * block_size
    BY <1>1, <1>2, <1>7, <2>1, <2>2, OneBlock
  <2>4. request.num = 1
    BY <2>1
  <2>5. \/ (SeekRefused \/ ReadError) /\ num_blocks_read' = 0 /\ status' = "idle"
        \/ ReadBlock /\ num_blocks_read' = 1 /\ status' = "idle"
        \/ status' = "aborted"
    BY <2>1, <2>4, OneRead
  <2>6. phase' = IF status' = "aborted" THEN "ended"
                 ELSE IF num_blocks_read' = 1 THEN "virtual objects" ELSE "unreadable"
    BY <1>14 DEF Reading
  <2>7. \/ (SeekRefused \/ ReadError) /\ phase' = "unreadable"
        \/ ReadBlock /\ phase' = "virtual objects"
        \/ phase' = "ended"
    <3>1. CASE (SeekRefused \/ ReadError) /\ num_blocks_read' = 0 /\ status' = "idle"
      <4>1. phase' = "unreadable"
        BY <2>6, <3>1
      <4> QED
        BY <3>1, <4>1
    <3>2. CASE ReadBlock /\ num_blocks_read' = 1 /\ status' = "idle"
      <4>1. phase' = "virtual objects"
        BY <2>6, <3>2
      <4> QED
        BY <3>2, <4>1
    <3>3. CASE status' = "aborted"
      BY <2>6, <3>3
    <3> QED
      BY <2>5, <3>1, <3>2, <3>3
  <2> QED
    BY <1>8, <1>10, <2>1, <2>3, <2>7 DEF CountInv, Matching
<1>15. CASE SkipUnreadable
  <2>1. ~end_of_container
    BY <1>1, <1>15 DEF SkipUnreadable, PhaseInv, IInv, FlagsClear, end_of_container
  <2>2. phase' = "loop" /\ addr' = addr + 1 /\ num_matches' = num_matches
        /\ num_matches = FoundBefore[addr] /\ addr < end_addr /\ ~Readable(addr)
    BY <1>1, <1>6, <1>15, <2>1 DEF SkipUnreadable, NextAddr, PhaseInv, CountInv
  <2>3. num_matches' = FoundBefore[addr + 1]
    BY <1>8, <1>9, <2>2 DEF HitsAt
  <2> QED
    BY <1>8, <2>2, <2>3 DEF CountInv, Matching
<1>16. SUFFICES ASSUME MatchVirtual \/ SkipNode \/ MatchRecords \/ MatchNames \/ MatchTargets
                       \/ Finish
                PROVE  CountInv'
  BY <1>4, <1>12, <1>13, <1>14, <1>15 DEF SearchNext
<1>17. /\ UNCHANGED <<VirtualHits, RecordHits, NameHits, TargetHits>>
       /\ SkippedNode' <=> SkippedNode
       /\ buffer'[0] = buffer[0]
  BY <1>16, HitsKept DEF MatchVirtual, SkipNode, MatchRecords, MatchNames, MatchTargets, Finish
<1>18. phase \in Matching => addr < end_addr /\ Readable(addr) /\ buffer[0] = addr * block_size
  BY <1>1, <1>6 DEF PhaseInv, CountInv
<1>19. CASE MatchVirtual
  <2>1. phase' = "records" /\ addr' = addr /\ num_matches' = FoundBefore[addr] + VirtualHits
        /\ phase \in Matching
    BY <1>6, <1>19 DEF MatchVirtual, VirtualHits, CountInv, Matching
  <2> QED
    BY <1>8, <1>10, <1>17, <1>18, <2>1 DEF CountInv, Matching
<1>20. CASE SkipNode
  <2>1. phase' = "loop" /\ addr' = addr + 1 /\ num_matches' = FoundBefore[addr] + VirtualHits
        /\ phase \in Matching /\ SkippedNode
    BY <1>6, <1>20 DEF SkipNode, NextAddr, CountInv, Matching
  <2>2. num_matches' = FoundBefore[addr + 1]
    BY <1>9, <1>11, <1>18, <2>1
  <2> QED
    BY <1>8, <2>1, <2>2 DEF CountInv, Matching
<1>21. CASE MatchRecords
  <2>1. phase' = "names" /\ addr' = addr /\ phase \in Matching /\ ~SkippedNode
        /\ num_matches' = FoundBefore[addr] + VirtualHits + RecordHits
    BY <1>6, <1>21 DEF MatchRecords, RecordHits, CountInv, Matching
  <2> QED
    BY <1>8, <1>10, <1>17, <1>18, <2>1 DEF CountInv, Matching
<1>22. CASE MatchNames
  <2>1. phase' = "targets" /\ addr' = addr /\ phase \in Matching /\ ~SkippedNode
        /\ num_matches' = FoundBefore[addr] + VirtualHits + RecordHits + NameHits
    BY <1>6, <1>22 DEF MatchNames, NameHits, CountInv, Matching
  <2> QED
    BY <1>8, <1>10, <1>17, <1>18, <2>1 DEF CountInv, Matching
<1>23. CASE MatchTargets
  <2>1. phase' = "loop" /\ addr' = addr + 1 /\ phase \in Matching /\ ~SkippedNode
        /\ num_matches' = FoundBefore[addr] + VirtualHits + RecordHits + NameHits + TargetHits
    BY <1>6, <1>23 DEF MatchTargets, TargetHits, NextAddr, CountInv, Matching
  <2>2. num_matches' = FoundBefore[addr + 1]
    BY <1>8, <1>9, <1>11, <1>18, <2>1
  <2> QED
    BY <1>8, <2>1, <2>2 DEF CountInv, Matching
<1>24. CASE Finish
  <2>1. phase' = "done" /\ addr' = addr /\ num_matches' = num_matches
        /\ num_matches = FoundBefore[addr]
    BY <1>6, <1>24 DEF Finish, CountInv
  <2> QED
    BY <1>8, <2>1 DEF CountInv, Matching
<1> QED
  BY <1>16, <1>19, <1>20, <1>21, <1>22, <1>23, <1>24

LEMMA SearchInvStep == SearchInv /\ [SearchNext]_search_vars => SearchInv'
<1> SUFFICES ASSUME SearchInv, [SearchNext]_search_vars
             PROVE  SearchInv'
  OBVIOUS
<1>1. CASE SearchNext
  <2>1. IInv /\ PhaseInv
    BY DEF SearchInv
  <2>2. IInv'
    BY <1>1, <2>1, SearchStepIsStep, InvStep
  <2> QED
    BY <1>1, <2>1, <2>2, PhaseStep, CountStep DEF SearchInv
<1>2. CASE UNCHANGED search_vars
  <2>1. UNCHANGED <<vars, disk, phase, addr, num_matches, container, block_size, request,
                    num_blocks_read, status>>
    BY <1>2 DEF search_vars, vars
  <2>2. IInv'
    BY <2>1, InvStep DEF SearchInv
  <2>3. PhaseInv'
    BY <2>1 DEF SearchInv, PhaseInv
  <2>4. Fits' => CountInv'
    <3> SUFFICES ASSUME Fits'
                 PROVE  CountInv'
      OBVIOUS
    <3>1. CountInv
      BY <2>1 DEF SearchInv, Fits
    <3> QED
      BY <2>1, <3>1, FoundKept, HereKept, HitsKept DEF CountInv
  <2> QED
    BY <2>2, <2>3, <2>4 DEF SearchInv
<1> QED
  BY <1>1, <1>2

LEMMA SearchInvariant == SearchSpec => []SearchInv
  BY SearchInvInit, SearchInvStep, PTL DEF SearchSpec

(* Opening the container and reading from it, search does what BlockIO     *)
(* says, so that what holds of all calls of read_blocks() holds of its     *)
(* calls (search.c:103-185).                                               *)
THEOREM SearchUsesBlockIO == SearchSpec => Spec
<1>1. SearchInit => Init
  BY DEF SearchInit
<1>2. SearchInv /\ [SearchNext]_search_vars => [Next]_vars
  BY SearchStepIsStep DEF SearchInv, search_vars, vars
<1> QED
  BY <1>1, <1>2, SearchInvariant, PTL DEF SearchSpec, Spec

(* Nothing is counted twice, nothing is missed, and nothing is counted     *)
(* that is not there (search.c:174-477), for any container and any range,  *)
(* as long as no address of it wraps around.                               *)
THEOREM CountIsExact == SearchSpec => []CountsExactly
<1>1. SearchInv => CountsExactly
  BY DEF SearchInv, PhaseInv, Fits, CountInv, CountsExactly
<1> QED
  BY <1>1, SearchInvariant, PTL

-----------------------------------------------------------------------------
(* Residues.                                                               *)

(* a and b differ by a multiple of the modulus.                            *)
Cong(a, b) == \E q \in Int : a = b + q * modulus

LEMMA ModulusType == modulus \in Nat \ {0} /\ Width = modulus + 1
  BY WordsAssumption DEF modulus

LEMMA CongRefl == ASSUME NEW a \in Int PROVE Cong(a, a)
<1>1. 0 \in Int /\ a = a + 0 * modulus
  BY ModulusType
<1> QED
  BY <1>1 DEF Cong

LEMMA CongSym ==
  ASSUME NEW a \in Int, NEW b \in Int, Cong(a, b)
  PROVE  Cong(b, a)
<1>1. PICK q \in Int : a = b + q * modulus
  BY DEF Cong
<1>2. (-q) * modulus = -(q * modulus) /\ -q \in Int /\ q * modulus \in Int
  BY ModulusType
<1>3. b = a + (-q) * modulus
  BY <1>1, <1>2
<1> QED
  BY <1>2, <1>3 DEF Cong

LEMMA CongTrans ==
  ASSUME NEW a \in Int, NEW b \in Int, NEW c \in Int, Cong(a, b), Cong(b, c)
  PROVE  Cong(a, c)
<1>1. PICK p \in Int : a = b + p * modulus
  BY DEF Cong
<1>2. PICK q \in Int : b = c + q * modulus
  BY DEF Cong
<1>3. (p + q) * modulus = p * modulus + q * modulus /\ p + q \in Int
      /\ p * modulus \in Int /\ q * modulus \in Int
  BY ModulusType
<1>4. a = c + (p + q) * modulus
  BY <1>1, <1>2, <1>3
<1> QED
  BY <1>3, <1>4 DEF Cong

LEMMA CongAdd ==
  ASSUME NEW a \in Int, NEW b \in Int, NEW c \in Int, NEW d \in Int, Cong(a, b), Cong(c, d)
  PROVE  Cong(a + c, b + d)
<1>1. PICK p \in Int : a = b + p * modulus
  BY DEF Cong
<1>2. PICK q \in Int : c = d + q * modulus
  BY DEF Cong
<1>3. (p + q) * modulus = p * modulus + q * modulus /\ p + q \in Int
      /\ p * modulus \in Int /\ q * modulus \in Int
  BY ModulusType
<1>4. a + c = (b + d) + (p + q) * modulus
  BY <1>1, <1>2, <1>3
<1> QED
  BY <1>3, <1>4 DEF Cong

LEMMA CongTimes ==
  ASSUME NEW a \in Int, NEW b \in Int, NEW c \in Int, Cong(a, b)
  PROVE  Cong(c * a, c * b)
<1>1. PICK p \in Int : a = b + p * modulus
  BY DEF Cong
<1>2. PICK x \in Int : x = p * modulus
  BY ModulusType
<1>3. c * a = c * b + c * x
  BY <1>1, <1>2
<1>4. c * x = (c * p) * modulus /\ c * p \in Int
  BY <1>2, ModulusType
<1> QED
  BY <1>3, <1>4 DEF Cong

(* Residues are congruent to what they are residues of, and are the same   *)
(* when they are congruent.                                                *)
LEMMA CongMod ==
  ASSUME NEW a \in Int
  PROVE  a % modulus \in 0 .. modulus - 1 /\ Cong(a % modulus, a) /\ Cong(a, a % modulus)
<1>1. PICK m \in Nat \ {0} : m = modulus
  BY ModulusType
<1>2. a % m \in 0 .. m - 1 /\ a \div m \in Int
  BY <1>1
<1>3. a = (a % m) + (a \div m) * m
  BY <1>1
<1>4. Cong(a, a % modulus)
  BY <1>1, <1>2, <1>3 DEF Cong
<1> QED
  BY <1>1, <1>2, <1>4, CongSym

LEMMA CongSame ==
  ASSUME NEW a \in 0 .. modulus - 1, NEW b \in 0 .. modulus - 1, Cong(a, b)
  PROVE  a = b
<1>1. PICK q \in Int : a = b + q * modulus
  BY DEF Cong
<1>2. PICK m \in Nat \ {0} : m = modulus
  BY ModulusType
<1>3. PICK x \in Int : x = q * m
  BY <1>2
<1>4. q >= 1 => x >= m
  BY <1>2, <1>3
<1>5. q <= -1 => x <= -m
  <2>1. q <= -1 => (-q) * m >= m /\ (-q) * m = -x
    BY <1>2, <1>3
  <2> QED
    BY <1>2, <1>3, <2>1
<1>6. q = 0 => x = 0
  BY <1>2, <1>3
<1> QED
  BY <1>1, <1>2, <1>3, <1>4, <1>5, <1>6

LEMMA CongIsCongruent ==
  ASSUME NEW u \in Int, NEW v \in Int
  PROVE  Congruent(u, v) <=> Cong(u, v)
<1>1. /\ u % modulus \in 0 .. modulus - 1 /\ Cong(u % modulus, u) /\ Cong(u, u % modulus)
      /\ v % modulus \in 0 .. modulus - 1 /\ Cong(v % modulus, v) /\ Cong(v, v % modulus)
  BY CongMod
<1>2. PICK x \in 0 .. modulus - 1, y \in 0 .. modulus - 1 : x = u % modulus /\ y = v % modulus
  BY <1>1
<1>3. x \in Int /\ y \in Int
  BY ModulusType
<1>4. ASSUME x = y PROVE Cong(u, v)
  BY <1>1, <1>2, <1>3, <1>4, CongTrans
<1>5. ASSUME Cong(u, v) PROVE x = y
  <2>1. Cong(x, v)
    BY <1>1, <1>2, <1>3, <1>5, CongTrans
  <2>2. Cong(x, y)
    BY <1>1, <1>2, <1>3, <2>1, CongTrans
  <2> QED
    BY <2>2, CongSame
<1> QED
  BY <1>2, <1>4, <1>5 DEF Congruent

(* The same number, added or taken away on both sides, makes no difference. *)
LEMMA CongShift ==
  ASSUME NEW a \in Int, NEW b \in Int, NEW c \in Int
  PROVE  Cong(a + c, b + c) <=> Cong(a, b)
<1>1. ASSUME Cong(a, b) PROVE Cong(a + c, b + c)
  BY <1>1, CongRefl, CongAdd
<1>2. ASSUME Cong(a + c, b + c) PROVE Cong(a, b)
  <2>1. PICK q \in Int : a + c = (b + c) + q * modulus
    BY <1>2 DEF Cong
  <2>2. q * modulus \in Int
    BY ModulusType
  <2>3. a = b + q * modulus
    BY <2>1, <2>2
  <2> QED
    BY <2>3 DEF Cong
<1> QED
  BY <1>1, <1>2

-----------------------------------------------------------------------------
(* Sums.                                                                   *)

LEMMA SumIs ==
  ASSUME NEW f, \A j \in 2 .. num_words - 1 : f[j] \in Nat
  PROVE  /\ SumTo(f)[2] = 0
         /\ \A n \in 2 .. num_words : SumTo(f)[n] \in Nat
         /\ \A n \in 2 .. num_words - 1 : SumTo(f)[n + 1] = SumTo(f)[n] + f[n]
<1> DEFINE step == [n \in 3 .. num_words |-> [x \in Nat |-> x + f[n - 1]]]
           S == 2 .. num_words
           Body(g, n) == IF n = 2 THEN 0 ELSE g[n - 1] + f[n - 1]
           sum == CHOOSE g : g = [n \in S |-> Body(g, n)]
<1>1. num_words \in Nat /\ num_words >= 2 /\ 2 \in Nat /\ 0 \in Nat
  BY WordsAssumption
<1>2. step \in [2 + 1 .. num_words -> [Nat -> Nat]]
  <2> SUFFICES ASSUME NEW n \in 3 .. num_words
               PROVE  [x \in Nat |-> x + f[n - 1]] \in [Nat -> Nat]
    OBVIOUS
  <2>1. n - 1 \in 2 .. num_words - 1
    BY <1>1
  <2> QED
    BY <2>1
<1>3. PICK g \in [S -> Nat] : Recurs(g, 2, num_words, 0, step)
  <2> HIDE DEF step
  <2> QED
    BY <1>1, <1>2, Recursion
<1>4. \A n \in S : g[n] = Body(g, n)
  <2> SUFFICES ASSUME NEW n \in S, n # 2
               PROVE  g[n] = g[n - 1] + f[n - 1]
    BY <1>3 DEF Recurs
  <2>1. n \in 3 .. num_words /\ n - 1 \in S
    BY <1>1
  <2>2. g[n] = step[n][g[n - 1]] /\ g[n - 1] \in Nat
    BY <1>3, <2>1 DEF Recurs
  <2> QED
    BY <2>1, <2>2
<1>5. g = [n \in S |-> Body(g, n)]
  BY <1>3, <1>4
<1>6. sum = [n \in S |-> Body(sum, n)]
  BY <1>5
<1>7. SumTo(f) = sum
  BY DEF SumTo
<1> HIDE DEF sum
<1>8. sum[2] = 0
  BY <1>1, <1>6
<1>9. \A n \in 2 .. num_words - 1 : sum[n + 1] = sum[n] + f[n]
  <2> SUFFICES ASSUME NEW n \in 2 .. num_words - 1
               PROVE  sum[n + 1] = sum[n] + f[n]
    OBVIOUS
  <2>1. n + 1 \in S /\ n + 1 # 2 /\ (n + 1) - 1 = n
    BY <1>1
  <2> QED
    BY <1>6, <2>1
<1>10. \A n \in S : sum[n] \in Nat
  <2> DEFINE T == {n \in S : sum[n] \in Nat}
  <2>1. 2 \in T
    BY <1>1, <1>8
  <2>2. ASSUME NEW n \in 2 .. num_words - 1, n \in T
        PROVE  n + 1 \in T
    <3>1. n + 1 \in S
      BY <1>1
    <3> QED
      BY <1>9, <2>2, <3>1
  <2>3. \A n \in 2 .. num_words : n \in T
    <3> HIDE DEF T
    <3> QED
      BY <1>1, <2>1, <2>2, FromTo
  <2> QED
    BY <2>3
<1> QED
  BY <1>7, <1>8, <1>9, <1>10

(* A sum changes by as much as the one number in it that changes.          *)
LEMMA OneChanged ==
  ASSUME NEW f, \A j \in 2 .. num_words - 1 : f[j] \in Nat,
         NEW g, \A j \in 2 .. num_words - 1 : g[j] \in Nat,
         NEW k \in 2 .. num_words - 1,
         \A j \in 2 .. num_words - 1 : j # k => g[j] = f[j]
  PROVE  SumTo(g)[num_words] = SumTo(f)[num_words] + (g[k] - f[k])
<1> DEFINE T == {n \in 2 .. num_words :
                   SumTo(g)[n] = SumTo(f)[n] + IF n > k THEN g[k] - f[k] ELSE 0}
<1>1. num_words \in Nat /\ num_words >= 2 /\ 2 \in Nat
  BY WordsAssumption
<1>2. /\ SumTo(f)[2] = 0
      /\ \A n \in 2 .. num_words : SumTo(f)[n] \in Nat
      /\ \A n \in 2 .. num_words - 1 : SumTo(f)[n + 1] = SumTo(f)[n] + f[n]
  BY SumIs
<1>3. /\ SumTo(g)[2] = 0
      /\ \A n \in 2 .. num_words : SumTo(g)[n] \in Nat
      /\ \A n \in 2 .. num_words - 1 : SumTo(g)[n + 1] = SumTo(g)[n] + g[n]
  BY SumIs
<1>4. 2 \in T
  BY <1>1, <1>2, <1>3
<1>5. ASSUME NEW n \in 2 .. num_words - 1, n \in T
      PROVE  n + 1 \in T
  <2>1. n + 1 \in 2 .. num_words /\ n \in 2 .. num_words
    BY <1>1
  <2>2. /\ SumTo(f)[n + 1] = SumTo(f)[n] + f[n] /\ SumTo(f)[n] \in Nat
        /\ SumTo(g)[n + 1] = SumTo(g)[n] + g[n] /\ SumTo(g)[n] \in Nat
        /\ f[n] \in Nat /\ g[n] \in Nat /\ f[k] \in Nat /\ g[k] \in Nat
    BY <1>2, <1>3, <2>1
  <2>3. SumTo(g)[n] = SumTo(f)[n] + IF n > k THEN g[k] - f[k] ELSE 0
    BY <1>5
  <2>4. CASE n < k
    <3>1. g[n] = f[n]
      BY <2>4
    <3> QED
      BY <2>1, <2>2, <2>3, <2>4, <3>1
  <2>5. CASE n = k
    BY <2>1, <2>2, <2>3, <2>5
  <2>6. CASE n > k
    <3>1. g[n] = f[n]
      BY <2>6
    <3> QED
      BY <2>1, <2>2, <2>3, <2>6, <3>1
  <2> QED
    BY <2>4, <2>5, <2>6
<1>6. \A n \in 2 .. num_words : n \in T
  <2> HIDE DEF T
  <2> QED
    BY <1>1, <1>4, <1>5, FromTo
<1>7. num_words \in T /\ num_words > k
  BY <1>1, <1>6
<1> QED
  BY <1>7

(* Any block, of any words.                                                *)
AnyBlock == [0 .. num_words - 1 -> 0 .. modulus]

LEMMA BlockIsAny == Block \subseteq AnyBlock
  BY WordsAssumption DEF Block, AnyBlock, modulus

LEMMA WordIs ==
  ASSUME NEW b \in AnyBlock, NEW j \in 2 .. num_words - 1
  PROVE  /\ b[j] \in Nat /\ b[j] \in 0 .. modulus
         /\ Weighted(b)[j] = (num_words - j) * b[j] /\ Weighted(b)[j] \in Nat
<1>1. b[j] \in 0 .. modulus /\ num_words - j \in Nat
  BY WordsAssumption DEF AnyBlock
<1>2. b[j] \in Nat
  BY <1>1, ModulusType
<1>3. (num_words - j) * b[j] \in Nat
  BY <1>1, <1>2, Product
<1> QED
  BY <1>1, <1>2, <1>3 DEF Weighted

(* The sums of two blocks that differ in one word.                         *)
LEMMA WordChanged ==
  ASSUME NEW b \in AnyBlock, NEW k \in 2 .. num_words - 1, NEW w \in 0 .. modulus
  PROVE  LET b2 == [b EXCEPT ![k] = w]
         IN /\ b2 \in AnyBlock
            /\ Sum(b) \in Nat /\ Sum(b2) = Sum(b) + (w - b[k])
            /\ WeightedSum(b) \in Nat
            /\ WeightedSum(b2) = WeightedSum(b) + (num_words - k) * (w - b[k])
<1> DEFINE b2 == [b EXCEPT ![k] = w]
<1>1. num_words \in Nat /\ num_words >= 2 /\ k \in 0 .. num_words - 1 /\ num_words - k \in Nat
      /\ num_words \in 2 .. num_words
  BY WordsAssumption
<1>2. b2 \in AnyBlock
  BY DEF AnyBlock
<1>3. b2[k] = w /\ w \in Nat /\ b[k] \in Nat
  BY <1>1, WordIs, ModulusType DEF AnyBlock
<1>4. \A j \in 2 .. num_words - 1 : j # k => b2[j] = b[j]
  BY <1>1 DEF AnyBlock
<1> HIDE DEF b2
<1>5. \A j \in 2 .. num_words - 1 : /\ b[j] \in Nat /\ Weighted(b)[j] \in Nat
                                    /\ b2[j] \in Nat /\ Weighted(b2)[j] \in Nat
  BY <1>2, WordIs
<1>6. Sum(b2) = Sum(b) + (w - b[k]) /\ Sum(b) \in Nat
  BY <1>1, <1>3, <1>4, <1>5, OneChanged, SumIs DEF Sum
<1>7. \A j \in 2 .. num_words - 1 : j # k => Weighted(b2)[j] = Weighted(b)[j]
  BY <1>2, <1>4, WordIs
<1>8. WeightedSum(b2) = WeightedSum(b) + (Weighted(b2)[k] - Weighted(b)[k])
      /\ WeightedSum(b) \in Nat
  BY <1>1, <1>5, <1>7, OneChanged, SumIs DEF WeightedSum
<1>9. Weighted(b2)[k] = (num_words - k) * w /\ Weighted(b)[k] = (num_words - k) * b[k]
  BY <1>2, <1>3, WordIs
<1>10. (num_words - k) * w - (num_words - k) * b[k] = (num_words - k) * (w - b[k])
  <2>1. PICK d \in Nat, x \in Nat, y \in Nat : d = num_words - k /\ x = w /\ y = b[k]
    BY <1>1, <1>3
  <2>2. d * x - d * y = d * (x - y)
    OBVIOUS
  <2> QED
    BY <2>1, <2>2
<1>11. WeightedSum(b2) = WeightedSum(b) + (num_words - k) * (w - b[k])
  BY <1>8, <1>9, <1>10
<1> QED
  BY <1>2, <1>6, <1>8, <1>11 DEF b2

-----------------------------------------------------------------------------
(* The loop.                                                               *)

Sums == [simple : 0 .. modulus - 1, second : 0 .. modulus - 1]

LEMMA AddType ==
  ASSUME NEW s \in Int, NEW x \in Int
  PROVE  Add(s, x) \in 0 .. modulus - 1 /\ Add(s, x) \in Int /\ Cong(Add(s, x), s + x)
<1>1. s + x \in Int
  OBVIOUS
<1>2. Add(s, x) \in 0 .. modulus - 1 /\ Cong(Add(s, x), s + x)
  BY <1>1, CongMod DEF Add
<1> QED
  BY <1>2, ModulusType

LEMMA LoopIs ==
  ASSUME NEW b \in AnyBlock
  PROVE  /\ Loop(b)[2] = [simple |-> 0, second |-> 0]
         /\ \A n \in 2 .. num_words : Loop(b)[n] \in Sums
         /\ \A n \in 2 .. num_words - 1 :
              Loop(b)[n + 1] = [simple |-> Add(Loop(b)[n].simple, b[n]),
                                second |-> Add(Loop(b)[n].second, Add(Loop(b)[n].simple, b[n]))]
<1> DEFINE After(s, x) == [simple |-> Add(s.simple, x), second |-> Add(s.second, Add(s.simple, x))]
           zero == [simple |-> 0, second |-> 0]
           step == [n \in 3 .. num_words |-> [s \in Sums |-> After(s, b[n - 1])]]
           S == 2 .. num_words
           Body(g, n) == IF n = 2 THEN zero ELSE After(g[n - 1], b[n - 1])
           sums == CHOOSE g : g = [n \in S |-> Body(g, n)]
<1>1. num_words \in Nat /\ num_words >= 2 /\ 2 \in Nat
  BY WordsAssumption
<1>2. zero \in Sums
  BY ModulusType DEF Sums
<1>3. ASSUME NEW s \in Sums, NEW x \in Nat
      PROVE  After(s, x) \in Sums
  <2>1. s.simple \in Int /\ s.second \in Int /\ x \in Int
    BY <1>3, ModulusType DEF Sums
  <2>2. Add(s.simple, x) \in 0 .. modulus - 1 /\ Add(s.simple, x) \in Int
    BY <2>1, AddType
  <2>3. Add(s.second, Add(s.simple, x)) \in 0 .. modulus - 1
    BY <2>1, <2>2, AddType
  <2> QED
    BY <2>2, <2>3 DEF Sums
<1> HIDE DEF After, zero
<1>4. step \in [2 + 1 .. num_words -> [Sums -> Sums]]
  <2> SUFFICES ASSUME NEW n \in 3 .. num_words
               PROVE  [s \in Sums |-> After(s, b[n - 1])] \in [Sums -> Sums]
    OBVIOUS
  <2>1. n - 1 \in 2 .. num_words - 1
    BY <1>1
  <2>2. b[n - 1] \in Nat
    BY <2>1, WordIs
  <2> QED
    BY <1>3, <2>2
<1>5. PICK g \in [S -> Sums] : Recurs(g, 2, num_words, zero, step)
  <2> HIDE DEF step
  <2> QED
    BY <1>1, <1>2, <1>4, Recursion
<1>6. \A n \in S : g[n] = Body(g, n)
  <2> SUFFICES ASSUME NEW n \in S, n # 2
               PROVE  g[n] = After(g[n - 1], b[n - 1])
    BY <1>5 DEF Recurs
  <2>1. n \in 3 .. num_words /\ n - 1 \in S
    BY <1>1
  <2>2. g[n] = step[n][g[n - 1]] /\ g[n - 1] \in Sums
    BY <1>5, <2>1 DEF Recurs
  <2> QED
    BY <2>1, <2>2
<1>7. g = [n \in S |-> Body(g, n)]
  BY <1>5, <1>6
<1>8. sums = [n \in S |-> Body(sums, n)]
  BY <1>7
<1>9. Loop(b) = sums
  BY DEF Loop, After, zero
<1> HIDE DEF sums
<1>10. sums[2] = zero
  BY <1>1, <1>8
<1>11. \A n \in 2 .. num_words - 1 : sums[n + 1] = After(sums[n], b[n])
  <2> SUFFICES ASSUME NEW n \in 2 .. num_words - 1
               PROVE  sums[n + 1] = After(sums[n], b[n])
    OBVIOUS
  <2>1. n + 1 \in S /\ n + 1 # 2 /\ (n + 1) - 1 = n
    BY <1>1
  <2> QED
    BY <1>8, <2>1
<1>12. \A n \in S : sums[n] \in Sums
  <2> DEFINE T == {n \in S : sums[n] \in Sums}
  <2>1. 2 \in T
    BY <1>1, <1>2, <1>10
  <2>2. ASSUME NEW n \in 2 .. num_words - 1, n \in T
        PROVE  n + 1 \in T
    <3>1. n + 1 \in S /\ b[n] \in Nat
      BY <1>1, WordIs
    <3>2. After(sums[n], b[n]) \in Sums
      BY <1>3, <2>2, <3>1
    <3> QED
      BY <1>11, <3>1, <3>2
  <2>3. \A n \in 2 .. num_words : n \in T
    <3> HIDE DEF T
    <3> QED
      BY <1>1, <2>1, <2>2, FromTo
  <2> QED
    BY <2>3
<1> QED
  BY <1>9, <1>10, <1>11, <1>12 DEF After, zero

(* Its sums are those of the words so far, and of the words by their       *)
(* distance from the next one.                                             *)
Plain(b, n) == SumTo(b)[n]
ByDistance(b, n) == SumTo(Weighted(b))[n] - (num_words - n) * SumTo(b)[n]

LEMMA LoopSums ==
  ASSUME NEW b \in AnyBlock
  PROVE  \A n \in 2 .. num_words : /\ Cong(Loop(b)[n].simple, Plain(b, n))
                                   /\ Cong(Loop(b)[n].second, ByDistance(b, n))
<1> DEFINE T == {n \in 2 .. num_words : /\ Cong(Loop(b)[n].simple, Plain(b, n))
                                        /\ Cong(Loop(b)[n].second, ByDistance(b, n))}
<1>1. num_words \in Nat /\ num_words >= 2 /\ 2 \in Nat /\ 2 \in 2 .. num_words
  BY WordsAssumption
<1>2. \A j \in 2 .. num_words - 1 : /\ b[j] \in Nat /\ Weighted(b)[j] \in Nat
                                    /\ Weighted(b)[j] = (num_words - j) * b[j]
  BY WordIs
<1>3. /\ SumTo(b)[2] = 0
      /\ \A n \in 2 .. num_words : SumTo(b)[n] \in Nat
      /\ \A n \in 2 .. num_words - 1 : SumTo(b)[n + 1] = SumTo(b)[n] + b[n]
  BY <1>2, SumIs
<1>4. /\ SumTo(Weighted(b))[2] = 0
      /\ \A n \in 2 .. num_words : SumTo(Weighted(b))[n] \in Nat
      /\ \A n \in 2 .. num_words - 1 :
           SumTo(Weighted(b))[n + 1] = SumTo(Weighted(b))[n] + Weighted(b)[n]
  BY <1>2, SumIs
<1>5. 2 \in T
  <2>1. Loop(b)[2].simple = 0 /\ Loop(b)[2].second = 0
    BY LoopIs
  <2>2. Plain(b, 2) = 0 /\ ByDistance(b, 2) = 0
    <3>1. (num_words - 2) * 0 = 0
      BY <1>1
    <3> QED
      BY <1>3, <1>4, <3>1 DEF Plain, ByDistance
  <2> QED
    BY <1>1, <2>1, <2>2, CongRefl
<1>6. ASSUME NEW n \in 2 .. num_words - 1, n \in T
      PROVE  n + 1 \in T
  <2>1. n \in 2 .. num_words /\ n + 1 \in 2 .. num_words /\ num_words - n \in Nat
    BY <1>1
  <2>2. PICK s \in Nat, x \in Nat, v \in Nat, d \in Nat :
          s = SumTo(b)[n] /\ x = b[n] /\ v = SumTo(Weighted(b))[n] /\ d = num_words - n
    BY <1>2, <1>3, <1>4, <2>1
  <2>3. PICK y \in 0 .. modulus - 1, z \in 0 .. modulus - 1 :
          y = Loop(b)[n].simple /\ z = Loop(b)[n].second
    <3>1. Loop(b)[n] \in Sums
      BY <2>1, LoopIs
    <3> QED
      BY <3>1 DEF Sums
  <2>4. y \in Int /\ z \in Int /\ x \in Int
    BY <2>2, ModulusType
  <2>5. Loop(b)[n + 1].simple = Add(y, x) /\ Loop(b)[n + 1].second = Add(z, Add(y, x))
    <3>1. Loop(b)[n + 1] =
            [simple |-> Add(Loop(b)[n].simple, b[n]),
             second |-> Add(Loop(b)[n].second, Add(Loop(b)[n].simple, b[n]))]
      BY LoopIs
    <3> QED
      BY <2>2, <2>3, <3>1
  <2>6. Cong(y, s) /\ Cong(z, v - d * s) /\ v - d * s \in Int /\ d * s \in Int
    BY <1>6, <2>2, <2>3 DEF Plain, ByDistance
  <2>7. PICK a \in Int : a = Add(y, x) /\ Cong(a, y + x)
    BY <2>4, AddType
  <2>8. PICK c \in Int : c = Add(z, a) /\ Cong(c, z + a)
    BY <2>4, AddType
  <2>9. Cong(a, s + x)
    <3>1. x \in Int /\ s \in Int /\ y + x \in Int /\ s + x \in Int
      BY <2>4
    <3>2. Cong(y + x, s + x)
      BY <2>4, <2>6, <3>1, CongShift
    <3> QED
      BY <2>7, <3>1, <3>2, CongTrans
  <2>10. Cong(c, (v - d * s) + (s + x))
    <3>1. s + x \in Int /\ z + a \in Int /\ (v - d * s) + (s + x) \in Int
      BY <2>4, <2>6
    <3>2. Cong(z + a, (v - d * s) + (s + x))
      BY <2>4, <2>6, <2>9, <3>1, CongAdd
    <3> QED
      BY <2>8, <3>1, <3>2, CongTrans
  <2>11. Plain(b, n + 1) = s + x
    BY <1>3, <2>2 DEF Plain
  <2>12. ByDistance(b, n + 1) = (v - d * s) + (s + x)
    <3>1. SumTo(Weighted(b))[n + 1] = v + d * x /\ SumTo(b)[n + 1] = s + x
      BY <1>2, <1>3, <1>4, <2>2
    <3>2. num_words - (n + 1) = d - 1
      BY <1>1, <2>2
    <3>3. (v + d * x) - (d - 1) * (s + x) = (v - d * s) + (s + x)
      <4>1. (d - 1) * (s + x) = d * s + d * x - (s + x)
        OBVIOUS
      <4>2. d * s \in Int /\ d * x \in Int
        OBVIOUS
      <4> QED
        BY <4>1, <4>2
    <3> QED
      BY <3>1, <3>2, <3>3 DEF ByDistance
  <2> QED
    BY <2>1, <2>5, <2>7, <2>8, <2>9, <2>10, <2>11, <2>12
<1>7. \A n \in 2 .. num_words : n \in T
  <2> HIDE DEF T
  <2> QED
    BY <1>1, <1>5, <1>6, FromTo
<1> QED
  BY <1>7

(* At the end, from the end.                                               *)
LEMMA LoopEnds ==
  ASSUME NEW b \in AnyBlock
  PROVE  /\ Loop(b)[num_words] \in Sums
         /\ Sum(b) \in Nat /\ WeightedSum(b) \in Nat
         /\ Cong(Loop(b)[num_words].simple, Sum(b))
         /\ Cong(Loop(b)[num_words].second, WeightedSum(b))
<1>1. num_words \in 2 .. num_words /\ num_words - num_words = 0
  BY WordsAssumption
<1>2. \A j \in 2 .. num_words - 1 : b[j] \in Nat /\ Weighted(b)[j] \in Nat
  BY WordIs
<1>3. Sum(b) \in Nat /\ WeightedSum(b) \in Nat
  BY <1>1, <1>2, SumIs DEF Sum, WeightedSum
<1>4. Plain(b, num_words) = Sum(b)
  BY DEF Plain, Sum
<1>5. ByDistance(b, num_words) = WeightedSum(b)
  <2>1. 0 * Sum(b) = 0 /\ WeightedSum(b) - 0 = WeightedSum(b)
    BY <1>3
  <2> QED
    BY <1>1, <2>1 DEF ByDistance, Sum, WeightedSum
<1> QED
  BY <1>1, <1>3, <1>4, <1>5, LoopIs, LoopSums

-----------------------------------------------------------------------------
(* The checksum.                                                           *)

LEMMA ResiduesSame ==
  ASSUME NEW x \in 0 .. modulus - 1, NEW y \in 0 .. modulus - 1, NEW a \in Int, NEW b \in Int,
         Cong(x, a), Cong(y, b)
  PROVE  x = y <=> Cong(a, b)
<1>1. x \in Int /\ y \in Int
  BY ModulusType
<1>2. ASSUME x = y PROVE Cong(a, b)
  <2>1. Cong(a, x)
    BY <1>1, CongSym
  <2> QED
    BY <1>1, <1>2, <2>1, CongTrans
<1>3. ASSUME Cong(a, b) PROVE x = y
  <2>1. Cong(b, y)
    BY <1>1, CongSym
  <2>2. Cong(x, b)
    BY <1>1, <1>3, CongTrans
  <2>3. Cong(x, y)
    BY <1>1, <2>1, <2>2, CongTrans
  <2> QED
    BY <2>3, CongSame
<1> QED
  BY <1>2, <1>3

LEMMA LowWordIs ==
  ASSUME NEW s \in Int, NEW t \in Int
  PROVE  LowWord(s, t) \in 1 .. modulus
<1>1. s + t \in Int
  OBVIOUS
<1>2. (s + t) % modulus \in 0 .. modulus - 1
  BY <1>1, CongMod
<1> QED
  BY <1>2, ModulusType DEF LowWord

(* The halves of a checksum.                                               *)
Both(p) == p.second * Width + LowWord(p.simple, p.second)

LEMMA BothRange ==
  ASSUME NEW p \in Sums
  PROVE  Both(p) \in 1 .. Width * Width - 1
<1>1. PICK x \in Nat, u \in 1 .. modulus :
        x = p.second /\ x <= modulus - 1 /\ u = LowWord(p.simple, p.second)
  <2>1. p.simple \in Int /\ p.second \in Int /\ p.second \in Nat /\ p.second <= modulus - 1
    BY ModulusType DEF Sums
  <2> QED
    BY <2>1, LowWordIs
<1>2. PICK w \in Nat : w = Width /\ modulus = w - 1 /\ w >= 2
  BY ModulusType
<1>3. PICK d \in Nat : d = (w - 2) - x
  BY <1>1, <1>2
<1>4. x * w + d * w = (w - 2) * w
  <2>1. (x + d) * w = x * w + d * w /\ x + d = w - 2
    BY <1>2, <1>3
  <2> QED
    BY <2>1
<1>5. x * w \in Nat /\ d * w \in Nat /\ w * w \in Nat
  BY Product
<1>6. (w - 2) * w = w * w - 2 * w
  OBVIOUS
<1>7. x * w + u \in 1 .. w * w - 1
  BY <1>1, <1>2, <1>4, <1>5, <1>6
<1> QED
  BY <1>1, <1>2, <1>7 DEF Both

LEMMA HalvesApart ==
  ASSUME NEW x \in Nat, NEW y \in Nat, NEW u \in 1 .. modulus, NEW v \in 1 .. modulus,
         x * Width + u = y * Width + v
  PROVE  x = y /\ u = v
<1>1. PICK w \in Nat : w = Width /\ modulus = w - 1 /\ w >= 2
  BY ModulusType
<1>2. (x - y) * w = x * w - y * w /\ x * w \in Nat /\ y * w \in Nat
  BY Product
<1>3. PICK z \in Int : z = (x - y) * w
  OBVIOUS
<1>4. z = v - u
  BY <1>1, <1>2, <1>3
<1>5. x - y >= 1 => z >= w
  BY <1>1, <1>3
<1>6. x - y <= -1 => z <= -w
  <2>1. x - y <= -1 => (y - x) * w >= w
    BY <1>1
  <2>2. (y - x) * w = -z
    BY <1>2, <1>3
  <2> QED
    BY <1>1, <1>3, <2>1, <2>2
<1>7. x = y
  BY <1>1, <1>4, <1>5, <1>6
<1> QED
  BY <1>1, <1>2, <1>7

LEMMA BothSame ==
  ASSUME NEW p \in Sums, NEW q \in Sums
  PROVE  Both(p) = Both(q) <=> p.simple = q.simple /\ p.second = q.second
<1>1. /\ p.simple \in 0 .. modulus - 1 /\ p.second \in 0 .. modulus - 1
      /\ q.simple \in 0 .. modulus - 1 /\ q.second \in 0 .. modulus - 1
      /\ p.simple \in Int /\ p.second \in Nat /\ p.second \in Int
      /\ q.simple \in Int /\ q.second \in Nat /\ q.second \in Int
  BY ModulusType DEF Sums
<1>2. /\ LowWord(p.simple, p.second) \in 1 .. modulus
      /\ LowWord(q.simple, q.second) \in 1 .. modulus
  BY <1>1, LowWordIs
<1>3. ASSUME Both(p) = Both(q) PROVE p.simple = q.simple /\ p.second = q.second
  <2>1. p.second = q.second /\ LowWord(p.simple, p.second) = LowWord(q.simple, q.second)
    BY <1>1, <1>2, <1>3, HalvesApart DEF Both
  <2>2. PICK s \in 0 .. modulus - 1, r \in 0 .. modulus - 1, t \in Int :
          s = p.simple /\ r = q.simple /\ t = p.second
    BY <1>1
  <2>3. s \in Int /\ r \in Int /\ s + t \in Int /\ r + t \in Int
    BY ModulusType
  <2>4. (s + t) % modulus = (r + t) % modulus
    <3>1. (s + t) % modulus \in Int /\ (r + t) % modulus \in Int
      BY <2>3, CongMod, ModulusType
    <3>2. modulus - ((s + t) % modulus) = modulus - ((r + t) % modulus)
      BY <2>1, <2>2 DEF LowWord
    <3> QED
      BY <3>1, <3>2, ModulusType
  <2>5. Cong(s + t, r + t)
    BY <2>3, <2>4, CongIsCongruent DEF Congruent
  <2>6. Cong(s, r)
    BY <2>2, <2>3, <2>5, CongShift
  <2>7. s = r
    BY <2>6, CongSame
  <2> QED
    BY <2>1, <2>2, <2>7
<1> QED
  BY <1>3 DEF Both

(* Two blocks have the same checksum if their sums are congruent.          *)
LEMMA SameChecksum ==
  ASSUME NEW b \in AnyBlock, NEW d \in AnyBlock
  PROVE  ChecksumOf(b) = ChecksumOf(d)
           <=> Cong(Sum(b), Sum(d)) /\ Cong(WeightedSum(b), WeightedSum(d))
<1>1. PICK p \in Sums : p = Loop(b)[num_words]
  BY LoopEnds
<1>2. PICK q \in Sums : q = Loop(d)[num_words]
  BY LoopEnds
<1>3. ChecksumOf(b) = Both(p) /\ ChecksumOf(d) = Both(q)
  BY <1>1, <1>2 DEF ChecksumOf, Both
<1>4. /\ Sum(b) \in Int /\ WeightedSum(b) \in Int /\ Sum(d) \in Int /\ WeightedSum(d) \in Int
      /\ Cong(p.simple, Sum(b)) /\ Cong(p.second, WeightedSum(b))
      /\ Cong(q.simple, Sum(d)) /\ Cong(q.second, WeightedSum(d))
  BY <1>1, <1>2, LoopEnds
<1>5. /\ p.simple \in 0 .. modulus - 1 /\ p.second \in 0 .. modulus - 1
      /\ q.simple \in 0 .. modulus - 1 /\ q.second \in 0 .. modulus - 1
  BY DEF Sums
<1>6. p.simple = q.simple <=> Cong(Sum(b), Sum(d))
  BY <1>4, <1>5, ResiduesSame
<1>7. p.second = q.second <=> Cong(WeightedSum(b), WeightedSum(d))
  BY <1>4, <1>5, ResiduesSame
<1> QED
  BY <1>3, <1>6, <1>7, BothSame

(* One word changed.                                                       *)
LEMMA WordNoticed ==
  ASSUME NEW b \in AnyBlock, NEW k \in 2 .. num_words - 1, NEW w \in 0 .. modulus
  PROVE  ChecksumOf([b EXCEPT ![k] = w]) = ChecksumOf(b) <=> Congruent(w, b[k])
<1> DEFINE b2 == [b EXCEPT ![k] = w]
<1>1. /\ b2 \in AnyBlock
      /\ Sum(b) \in Nat /\ Sum(b2) = Sum(b) + (w - b[k])
      /\ WeightedSum(b) \in Nat
      /\ WeightedSum(b2) = WeightedSum(b) + (num_words - k) * (w - b[k])
  BY WordChanged
<1> HIDE DEF b2
<1>2. PICK s \in Int, t \in Int, x \in Int, y \in Int, d \in Int :
        s = Sum(b) /\ t = WeightedSum(b) /\ x = w /\ y = b[k] /\ d = num_words - k
  BY <1>1, WordIs, ModulusType, WordsAssumption
<1>3. Cong(Sum(b2), Sum(b)) <=> Cong(x, y)
  <2>1. PICK c \in Int : Sum(b2) = x + c /\ Sum(b) = y + c
    <3>1. Sum(b2) = x + (s - y) /\ Sum(b) = y + (s - y) /\ s - y \in Int
      BY <1>1, <1>2
    <3> QED
      BY <3>1
  <2>2. Cong(x + c, y + c) <=> Cong(x, y)
    BY CongShift
  <2> QED
    BY <2>1, <2>2
<1>4. Cong(x, y) => Cong(WeightedSum(b2), WeightedSum(b))
  <2>1. PICK e \in Int, f \in Int : e = d * x /\ f = d * y
    OBVIOUS
  <2>2. d * (x - y) = e - f
    BY <2>1
  <2>3. PICK g \in Int : g = t - f
    OBVIOUS
  <2>4. WeightedSum(b2) = t + (e - f) /\ WeightedSum(b) = t
    BY <1>1, <1>2, <2>2
  <2>5. WeightedSum(b2) = e + g /\ WeightedSum(b) = f + g
    BY <2>3, <2>4
  <2>6. Cong(x, y) => Cong(e, f)
    BY <2>1, CongTimes
  <2>7. Cong(e + g, f + g) <=> Cong(e, f)
    BY CongShift
  <2> QED
    BY <2>5, <2>6, <2>7
<1>5. ChecksumOf(b2) = ChecksumOf(b)
        <=> Cong(Sum(b2), Sum(b)) /\ Cong(WeightedSum(b2), WeightedSum(b))
  BY <1>1, SameChecksum
<1>6. Congruent(x, y) <=> Cong(x, y)
  BY CongIsCongruent
<1> QED
  BY <1>2, <1>3, <1>4, <1>5, <1>6 DEF b2

(* Two words exchanged.                                                    *)
LEMMA ExchangeNoticed ==
  ASSUME NEW b \in AnyBlock, NEW k \in 2 .. num_words - 1, NEW l \in 2 .. k - 1
  PROVE  ChecksumOf([b EXCEPT ![k] = b[l], ![l] = b[k]]) = ChecksumOf(b)
           <=> Congruent((k - l) * b[k], (k - l) * b[l])
<1> DEFINE b1 == [b EXCEPT ![k] = b[l]]
           b2 == [b1 EXCEPT ![l] = b[k]]
<1>1. num_words \in Nat /\ l \in 2 .. num_words - 1 /\ l # k
      /\ k \in 0 .. num_words - 1 /\ l \in 0 .. num_words - 1
  BY WordsAssumption
<1>2. b[k] \in 0 .. modulus /\ b[l] \in 0 .. modulus
  BY <1>1, WordIs
<1>3. /\ b1 \in AnyBlock
      /\ Sum(b) \in Nat /\ Sum(b1) = Sum(b) + (b[l] - b[k])
      /\ WeightedSum(b) \in Nat
      /\ WeightedSum(b1) = WeightedSum(b) + (num_words - k) * (b[l] - b[k])
  BY <1>2, WordChanged
<1>4. b1[l] = b[l]
  BY <1>1 DEF AnyBlock
<1>5. [b EXCEPT ![k] = b[l], ![l] = b[k]] = b2
  OBVIOUS
<1> HIDE DEF b1
<1>6. /\ b2 \in AnyBlock
      /\ Sum(b2) = Sum(b1) + (b[k] - b[l])
      /\ WeightedSum(b2) = WeightedSum(b1) + (num_words - l) * (b[k] - b[l])
  BY <1>1, <1>2, <1>3, <1>4, WordChanged
<1> HIDE DEF b2
<1>7. PICK s \in Int, t \in Int, x \in Int, y \in Int, c \in Int, d \in Int :
        /\ s = Sum(b) /\ t = WeightedSum(b) /\ x = b[k] /\ y = b[l]
        /\ c = num_words - k /\ d = num_words - l
  BY <1>1, <1>2, <1>3, ModulusType
<1>8. Cong(Sum(b2), Sum(b))
  <2>1. Sum(b2) = s
    BY <1>3, <1>6, <1>7
  <2> QED
    BY <1>7, <2>1, CongRefl
<1>9. PICK e \in Int : e = k - l /\ e = d - c
  BY <1>1, <1>7
<1>10. PICK f \in Int, g \in Int : f = e * x /\ g = e * y
  OBVIOUS
<1>11. PICK h \in Int : WeightedSum(b2) = f + h /\ WeightedSum(b) = g + h
  <2>1. PICK p \in Int, q \in Int : p = c * (y - x) /\ q = d * (x - y)
    OBVIOUS
  <2>2. WeightedSum(b2) = (t + p) + q /\ WeightedSum(b) = t
    BY <1>3, <1>6, <1>7, <2>1
  <2>3. p + q = (d - c) * (x - y)
    BY <2>1
  <2>4. e * (x - y) = f - g
    BY <1>10
  <2>5. p + q = f - g
    BY <1>9, <2>3, <2>4
  <2>6. t - g \in Int /\ (t + p) + q = f + (t - g) /\ t = g + (t - g)
    BY <2>5
  <2> QED
    BY <2>2, <2>6
<1>12. Cong(WeightedSum(b2), WeightedSum(b)) <=> Cong(f, g)
  <2>1. Cong(f + h, g + h) <=> Cong(f, g)
    BY CongShift
  <2> QED
    BY <1>11, <2>1
<1>13. ChecksumOf(b2) = ChecksumOf(b)
         <=> Cong(Sum(b2), Sum(b)) /\ Cong(WeightedSum(b2), WeightedSum(b))
  BY <1>6, SameChecksum
<1>14. Congruent(f, g) <=> Cong(f, g)
  BY CongIsCongruent
<1>15. f = (k - l) * b[k] /\ g = (k - l) * b[l]
  BY <1>7, <1>9, <1>10
<1> QED
  BY <1>5, <1>8, <1>12, <1>13, <1>14, <1>15

(* The halves are the residues that the comment describes.                 *)
LEMMA Documented ==
  ASSUME NEW b \in AnyBlock
  PROVE  ChecksumOf(b) = c2(b) * Width + c1(b)
<1>1. PICK p \in Sums : p = Loop(b)[num_words]
  BY LoopEnds
<1>2. PICK x \in 0 .. modulus - 1, y \in 0 .. modulus - 1, s \in Int, t \in Int, m \in Nat \ {0} :
        x = p.simple /\ y = p.second /\ s = Sum(b) /\ t = WeightedSum(b) /\ m = modulus
  BY <1>1, LoopEnds, ModulusType DEF Sums
<1>3. Cong(x, s) /\ Cong(y, t) /\ x \in Int /\ y \in Int /\ x + y \in Int /\ s + t \in Int
  BY <1>1, <1>2, LoopEnds
<1>4. (x + y) % modulus = (s + t) % modulus
  <2>1. Cong(x + y, s + t)
    BY <1>3, CongAdd
  <2> QED
    BY <1>3, <2>1, CongIsCongruent DEF Congruent
<1>5. PICK r \in 0 .. modulus - 1 : r = (s + t) % modulus /\ Cong(r, s + t)
  BY <1>3, CongMod
<1>6. c1(b) = m - r /\ LowWord(p.simple, p.second) = c1(b) /\ r \in Int
  BY <1>2, <1>4, <1>5 DEF c1, LowWord
<1>7. PICK z \in 0 .. modulus - 1 : z = (s + (m - r)) % modulus /\ Cong(z, s + (m - r))
  BY <1>6, CongMod
<1>8. z \in Int /\ m - z \in Int
  BY <1>2
<1>9. PICK v \in 0 .. modulus - 1 : v = (m - z) % modulus /\ Cong(v, m - z)
  BY <1>8, CongMod
<1>10. c2(b) = v
  BY <1>2, <1>6, <1>7, <1>9 DEF c2
<1>11. Cong(m - z, t)
  <2>1. PICK p1 \in Int : z = (s + (m - r)) + p1 * m
    BY <1>2, <1>7 DEF Cong
  <2>2. PICK p2 \in Int : r = (s + t) + p2 * m
    BY <1>2, <1>5 DEF Cong
  <2>3. m - z = t + (p2 - p1) * m
    <3>1. (p2 - p1) * m = p2 * m - p1 * m /\ p1 * m \in Int /\ p2 * m \in Int
      OBVIOUS
    <3> QED
      BY <1>6, <1>8, <2>1, <2>2, <3>1
  <2>4. p2 - p1 \in Int
    OBVIOUS
  <2> QED
    BY <1>2, <2>3, <2>4 DEF Cong
<1>12. v = y
  <2>1. Cong(y, t) /\ Cong(t, m - z)
    BY <1>3, <1>8, <1>11, CongSym
  <2>2. Cong(m - z, t) <=> v = y
    BY <1>3, <1>8, <1>9, ResiduesSame
  <2> QED
    BY <1>11, <2>2
<1> QED
  BY <1>1, <1>2, <1>6, <1>10, <1>12 DEF ChecksumOf

-----------------------------------------------------------------------------
(* The inductive invariant of the loop: it is where Loop is, and what is   *)
(* returned is what ChecksumOf says, which is never 0.                     *)
CksumInv ==
  /\ CksumTypeOK
  /\ result # 0
  /\ compute => /\ i >= 2
                /\ simple_sum = Loop(block)[i].simple
                /\ second_sum = Loop(block)[i].second
                /\ result # -1 => result = ChecksumOf(block)

LEMMA CksumInvInit == CksumInit => CksumInv
<1> SUFFICES ASSUME CksumInit
             PROVE  CksumInv
  OBVIOUS
<1>1. block \in AnyBlock
  BY BlockIsAny DEF CksumInit
<1>2. Loop(block)[2] = [simple |-> 0, second |-> 0]
  BY <1>1, LoopIs
<1>3. num_words \in Nat /\ num_words >= 2
  BY WordsAssumption
<1>4. Width * Width - 1 \in Nat
  <2>1. PICK w \in Nat : w = Width /\ w >= 2
    BY WordsAssumption
  <2>2. w * w - 1 \in Nat
    BY <2>1
  <2> QED
    BY <2>1, <2>2
<1>5. CksumTypeOK
  BY <1>3, <1>4, ModulusType DEF CksumInit, CksumTypeOK
<1> QED
  BY <1>2, <1>5 DEF CksumInit, CksumInv

LEMMA AddWordKeeps ==
  ASSUME CksumInv, AddWord
  PROVE  CksumInv'
<1>1. CksumTypeOK /\ result = -1 /\ result' = -1 /\ block' = block /\ compute' = compute
      /\ i' = i + 1 /\ i < num_words /\ num_words \in Nat
  BY WordsAssumption DEF CksumInv, AddWord
<1>2. block \in AnyBlock /\ i \in 0 .. num_words - 1 /\ i \in Int
  BY <1>1, BlockIsAny DEF CksumTypeOK
<1>3. block[i] \in Int
  BY <1>2, ModulusType DEF AnyBlock
<1>4. simple_sum \in Int /\ second_sum \in Int
  BY <1>1, ModulusType DEF CksumTypeOK
<1>5. /\ simple_sum' = Add(simple_sum, block[i])
      /\ second_sum' = Add(second_sum, Add(simple_sum, block[i]))
  BY DEF AddWord
<1>6. Add(simple_sum, block[i]) \in 0 .. modulus - 1 /\ Add(simple_sum, block[i]) \in Int
  BY <1>3, <1>4, AddType
<1>7. Add(second_sum, Add(simple_sum, block[i])) \in 0 .. modulus - 1
  BY <1>4, <1>6, AddType
<1>8. CksumTypeOK'
  BY <1>1, <1>2, <1>5, <1>6, <1>7 DEF CksumTypeOK
<1>9. ASSUME compute
      PROVE  /\ i' >= 2
             /\ simple_sum' = Loop(block)[i'].simple
             /\ second_sum' = Loop(block)[i'].second
  <2>1. i >= 2 /\ simple_sum = Loop(block)[i].simple /\ second_sum = Loop(block)[i].second
    BY <1>9 DEF CksumInv
  <2>2. i \in 2 .. num_words - 1
    BY <1>2, <2>1
  <2>3. Loop(block)[i + 1] =
          [simple |-> Add(Loop(block)[i].simple, block[i]),
           second |-> Add(Loop(block)[i].second, Add(Loop(block)[i].simple, block[i]))]
    BY <1>2, <2>2, LoopIs
  <2>4. /\ simple_sum' = Loop(block)[i + 1].simple
        /\ second_sum' = Loop(block)[i + 1].second
    BY <1>5, <2>1, <2>3
  <2> QED
    BY <1>1, <1>2, <2>1, <2>4
<1> QED
  BY <1>1, <1>8, <1>9 DEF CksumInv

LEMMA ReturnCksumKeeps ==
  ASSUME CksumInv, ReturnCksum
  PROVE  CksumInv'
<1>1. /\ CksumTypeOK /\ i = num_words
      /\ UNCHANGED <<block, compute, i, simple_sum, second_sum>>
      /\ block \in AnyBlock
  BY BlockIsAny DEF CksumInv, ReturnCksum, CksumTypeOK
<1> DEFINE p == [simple |-> simple_sum, second |-> second_sum]
<1>2. p \in Sums
  BY <1>1 DEF CksumTypeOK, Sums
<1>3. result' = Both(p)
  BY DEF ReturnCksum, Both
<1> HIDE DEF p
<1>4. result' \in 1 .. Width * Width - 1
  BY <1>2, <1>3, BothRange
<1>5. result' \in -1 .. Width * Width - 1 /\ result' # 0
  <2>1. PICK e \in Int : e = Width * Width - 1
    BY WordsAssumption
  <2>2. result' \in 1 .. e
    BY <1>4, <2>1
  <2>3. result' \in -1 .. e /\ result' # 0
    BY <2>2
  <2> QED
    BY <2>1, <2>3
<1>6. CksumTypeOK'
  BY <1>1, <1>5 DEF CksumTypeOK
<1>7. ASSUME compute
      PROVE  result' = ChecksumOf(block)
  <2>1. simple_sum = Loop(block)[num_words].simple /\ second_sum = Loop(block)[num_words].second
    BY <1>1, <1>7 DEF CksumInv
  <2> QED
    BY <2>1 DEF ReturnCksum, ChecksumOf
<1> QED
  BY <1>1, <1>5, <1>6, <1>7 DEF CksumInv

LEMMA CksumInvStep == CksumInv /\ [CksumNext]_cksum_vars => CksumInv'
<1> SUFFICES ASSUME CksumInv, [CksumNext]_cksum_vars
             PROVE  CksumInv'
  OBVIOUS
<1>1. CASE AddWord
  BY <1>1, AddWordKeeps
<1>2. CASE ReturnCksum
  BY <1>2, ReturnCksumKeeps
<1>3. CASE UNCHANGED cksum_vars
  BY <1>3 DEF cksum_vars, CksumInv, CksumTypeOK
<1> QED
  BY <1>1, <1>2, <1>3 DEF CksumNext

LEMMA CksumInvariant == CksumSpec => []CksumInv
  BY CksumInvInit, CksumInvStep, PTL DEF CksumSpec

(* The sums stay below the modulus, so that no addition overflows its 64   *)
(* bits, and what is returned fits in as many (cksum.c:30-43, 72).         *)
THEOREM CksumTypeCorrect == CksumSpec => []CksumTypeOK
<1>1. CksumInv => CksumTypeOK
  BY DEF CksumInv
<1> QED
  BY <1>1, CksumInvariant, PTL

(* The loop computes the checksum that the comment in it describes, c2     *)
(* being the second sum itself (cksum.c:45-57), for words of any width and *)
(* blocks of any length.                                                   *)
THEOREM ComputedAsDocumented == CksumSpec => []ComputesCksum
<1>1. CksumInv => ComputesCksum
  <2> SUFFICES ASSUME CksumInv, compute, result # -1
               PROVE  result = c2(block) * Width + c1(block)
    BY DEF ComputesCksum
  <2>1. block \in AnyBlock /\ result = ChecksumOf(block)
    BY BlockIsAny DEF CksumInv, CksumTypeOK
  <2> QED
    BY <2>1, Documented
<1> QED
  BY <1>1, CksumInvariant, PTL

(* Which damage to a block the checksum notices (cksum.c:26-73): a changed *)
(* word, unless it is congruent to the old one, and an exchange of two,    *)
(* unless their difference times their distance is a multiple of the       *)
(* modulus; and no block has the checksum 0.                               *)
THEOREM DamageIsNoticed == CksumSpec => []DetectsDamage
<1>1. CksumInv => DetectsDamage
  <2> SUFFICES ASSUME CksumInv
               PROVE  DetectsDamage
    OBVIOUS
  <2>1. result # 0 /\ block \in AnyBlock
    BY BlockIsAny DEF CksumInv, CksumTypeOK
  <2>2. ASSUME compute, result # -1, NEW k \in 2 .. num_words - 1
        PROVE  /\ \A w \in 0 .. modulus :
                    ChecksumOf([block EXCEPT ![k] = w]) = result <=> Congruent(w, block[k])
               /\ \A l \in 2 .. k - 1 :
                    ChecksumOf([block EXCEPT ![k] = block[l], ![l] = block[k]]) = result
                      <=> Congruent((k - l) * block[k], (k - l) * block[l])
    <3>1. result = ChecksumOf(block)
      BY <2>2 DEF CksumInv
    <3>2. \A w \in 0 .. modulus :
            ChecksumOf([block EXCEPT ![k] = w]) = result <=> Congruent(w, block[k])
      BY <2>1, <3>1, WordNoticed
    <3>3. \A l \in 2 .. k - 1 :
            ChecksumOf([block EXCEPT ![k] = block[l], ![l] = block[k]]) = result
              <=> Congruent((k - l) * block[k], (k - l) * block[l])
      BY <2>1, <3>1, ExchangeNoticed
    <3> QED
      BY <3>2, <3>3
  <2> QED
    BY <2>1, <2>2 DEF DetectsDamage
<1> QED
  BY <1>1, CksumInvariant, PTL

=============================================================================
