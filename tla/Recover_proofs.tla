--------------------------- MODULE Recover_proofs ---------------------------
(***************************************************************************)
(* Any number of invocations of recover, interleaved in any way and killed *)
(* at any point, keep their hands off each other's temporary files; a      *)
(* temporary file left behind blocks its name; and what is written is a    *)
(* beginning of the file, or all of it.                                    *)
(***************************************************************************)
EXTENDS Recover, WellFoundedInduction, TLAPS

LEMMA CopyBlockTyped ==
  ASSUME TypeOK, NEW p \in Procs, CopyBlock(p)
  PROVE  TypeOK'
<1>0. /\ extent \in [Procs -> Nat \ {0}] /\ index \in [Procs -> Nat] /\ remaining \in [Procs -> Nat]
      /\ buffer \in [Procs -> Seq(Chunk)] /\ file \in File /\ BlockSize \in Nat \ {0}
  BY FileAssumption, BlockSizeAssumption DEF TypeOK
<1>a. extent[p] \in Nat \ {0} /\ index[p] \in Nat /\ remaining[p] \in Nat /\ buffer[p] \in Seq(Chunk)
  BY <1>0
<1>b. pc[p] = "copy" /\ extent[p] <= Len(file.extents)
  BY DEF CopyBlock
<1>1. extent[p] \in 1 .. Len(file.extents)
  <2>1. Len(file.extents) \in Nat
    BY <1>0 DEF File
  <2> QED
    BY <1>a, <1>b, <2>1
<1>2. CurrentExtent(p) \in [phys_block_num : Nat, len : Nat]
  <2>1. file.extents \in Seq(Extent)
    BY <1>0 DEF File
  <2>2. \A e \in 1 .. Len(file.extents) : file.extents[e] \in Extent
    BY <2>1
  <2> QED
    BY <1>1, <2>2 DEF CurrentExtent, Extent
<1> DEFINE bytes_to_write == IF remaining[p] < BlockSize THEN remaining[p] ELSE BlockSize
           chunk == [block |-> CurrentExtent(p).phys_block_num + index[p], bytes |-> bytes_to_write]
<1>3. bytes_to_write \in 0 .. BlockSize /\ remaining[p] - bytes_to_write \in Nat
  BY <1>0, <1>a
<1>4. chunk \in Chunk
  <2>1. CurrentExtent(p).phys_block_num + index[p] \in Nat
    BY <1>2, <1>a
  <2> QED
    BY <2>1, <1>3 DEF Chunk
<1>5. Write(p, chunk) /\ remaining' = [remaining EXCEPT ![p] = remaining[p] - bytes_to_write]
  BY DEF CopyBlock
<1>6. buffer' \in [Procs -> Seq(Chunk)] /\ content' \in [Procs -> Seq(Chunk)]
  <2>0. content \in [Procs -> Seq(Chunk)] /\ content[p] \in Seq(Chunk)
    BY DEF TypeOK
  <2>1. Append(buffer[p], chunk) \in Seq(Chunk) /\ Append(content[p], chunk) \in Seq(Chunk)
    BY <1>4, <1>a, <2>0
  <2>2. CASE p \in stdout
    <3>1. content' = [content EXCEPT ![p] = Append(content[p], chunk)] /\ buffer' = buffer
      BY <1>5, <2>2 DEF Write
    <3> QED
      BY <1>0, <2>0, <2>1, <3>1
  <2>3. CASE p \notin stdout
    <3>1. buffer' = [buffer EXCEPT ![p] = Append(buffer[p], chunk)] /\ content' = content
      BY <1>5, <2>3 DEF Write
    <3> QED
      BY <1>0, <2>0, <2>1, <3>1
  <2> QED
    BY <2>2, <2>3
<1>7. remaining' \in [Procs -> Nat]
  BY <1>0, <1>3, <1>5
<1>8. index' \in [Procs -> Nat]
  <2>1. index' = [index EXCEPT ![p] = index[p] + 1]
    BY DEF CopyBlock
  <2>2. index[p] + 1 \in Nat
    BY <1>a
  <2> QED
    BY <1>0, <2>1, <2>2
<1>9. pc' \in [Procs -> {"start", "locate", "prompt", "size", "copy", "rename", "close", "done", "ended"}]
  BY DEF TypeOK, CopyBlock, Goto
<1> QED
  BY <1>6, <1>7, <1>8, <1>9 DEF TypeOK, CopyBlock, given

LEMMA WrittenTyped ==
  ASSUME TypeOK, NEW p \in Procs
  PROVE  /\ Written(p) => content' \in [Procs -> Seq(Chunk)]
         /\ Emptied(p) => buffer' \in [Procs -> Seq(Chunk)]
<1>1. content[p] \o buffer[p] \in Seq(Chunk)
  BY DEF TypeOK
<1>2. Written(p) => content' \in [Procs -> Seq(Chunk)]
  <2>1. Written(p) => content' = [content EXCEPT ![p] = content[p] \o buffer[p]]
    BY DEF Written
  <2>2. content \in [Procs -> Seq(Chunk)]
    BY DEF TypeOK
  <2> QED
    BY <1>1, <2>1, <2>2
<1>3. Emptied(p) => buffer' \in [Procs -> Seq(Chunk)]
  <2>1. <<>> \in Seq(Chunk)
    OBVIOUS
  <2> QED
    BY <2>1 DEF TypeOK, Emptied
<1> QED
  BY <1>2, <1>3

LEMMA SizeTyped ==
  ASSUME TypeOK, NEW p \in Procs, NEW size \in Nat, StartCopy(p, size),
         answer' \in [Procs -> {"none", "y", "n"}]
  PROVE  TypeOK'
<1>1. remaining' \in [Procs -> Nat]
  BY DEF TypeOK, StartCopy, given
<1>2. pc' \in [Procs -> {"start", "locate", "prompt", "size", "copy", "rename", "close", "done", "ended"}]
  BY DEF TypeOK, StartCopy, Goto
<1> QED
  BY <1>1, <1>2 DEF TypeOK, StartCopy, given

(* A size is a natural number, whatever the fields are.                    *)
LEMMA FileSizeTyped ==
  ASSUME NEW inode \in Inode
  PROVE  get_file_size(inode) \in Nat
<1>1. ASSUME NEW n
      PROVE  Size(inode, n) \in Nat
  BY DEF Size, Inode
<1>2. inode.uncompressed_size \in Nat
  BY DEF Inode
<1> QED
  BY <1>1, <1>2 DEF get_file_size

(* Every state of any number of invocations is well typed.                 *)
THEOREM TypeCorrect == Spec => []TypeOK
<1>1. Init => TypeOK
  BY DEF Init, TypeOK
<1>2. TypeOK /\ [Next]_vars => TypeOK'
  <2> SUFFICES ASSUME TypeOK, [Next]_vars
               PROVE  TypeOK'
    OBVIOUS
  <2>1. ASSUME NEW p \in Procs,
               CreateTemp(p) \/ CannotCreateTemp(p) \/ UseStdout(p) \/ Locate(p) \/ CannotLocate(p)
        PROVE  TypeOK'
    BY <2>1 DEF TypeOK, CreateTemp, CannotCreateTemp, UseStdout, Locate, CannotLocate, Goto,
                given, local
  <2>2. ASSUME NEW p \in Procs, GetSize(p) \/ User(p)
        PROVE  TypeOK'
    <3>1. file \in File
      BY FileAssumption DEF TypeOK
    <3>2. file_size \in Nat
      BY <3>1, FileSizeTyped DEF File, file_size
    <3>3. answer' \in [Procs -> {"none", "y", "n"}]
      BY <2>2 DEF TypeOK, GetSize, User, AnswerYes, AnswerNo
    <3> QED
      BY <2>2, <3>2, <3>3, SizeTyped DEF GetSize, User, AnswerYes, AnswerNo
  <2>3. ASSUME NEW p \in Procs, NextExtent(p) \/ OutOfExtents(p)
        PROVE  TypeOK'
    <3>1. extent' \in [Procs -> Nat \ {0}] /\ index' \in [Procs -> Nat]
      <4>0. extent[p] \in Nat \ {0}
        BY DEF TypeOK
      <4>1. extent[p] + 1 \in Nat \ {0}
        BY <4>0
      <4>2. CASE NextExtent(p)
        <5>1. extent' = [extent EXCEPT ![p] = extent[p] + 1]
          BY <4>2 DEF NextExtent
        <5>2. index' = [index EXCEPT ![p] = 0]
          BY <4>2 DEF NextExtent
        <5>3. extent \in [Procs -> Nat \ {0}] /\ index \in [Procs -> Nat]
          BY DEF TypeOK
        <5>4. extent' \in [Procs -> Nat \ {0}]
          BY <4>1, <5>1, <5>3
        <5> QED
          BY <5>2, <5>3, <5>4
      <4>3. CASE OutOfExtents(p)
        BY <4>3 DEF TypeOK, OutOfExtents, local
      <4> QED
        BY <2>3, <4>2, <4>3
    <3>2. pc' \in [Procs -> {"start", "locate", "prompt", "size", "copy", "rename", "close", "done", "ended"}]
      BY <2>3 DEF TypeOK, NextExtent, OutOfExtents, Goto
    <3> QED
      BY <2>3, <3>1, <3>2 DEF TypeOK, NextExtent, OutOfExtents, given, local
  <2>4. ASSUME NEW p \in Procs,
               FlushBuffer(p) \/ CopyFails(p) \/ Close(p) \/ CloseFails(p) \/ Kill(p)
        PROVE  TypeOK'
    <3>1. content' \in [Procs -> Seq(Chunk)] /\ buffer' \in [Procs -> Seq(Chunk)]
      BY <2>4, WrittenTyped DEF TypeOK, FlushBuffer, CopyFails, Close, CloseFails, Kill, local
    <3> QED
      BY <2>4, <3>1 DEF TypeOK, FlushBuffer, CopyFails, Close, CloseFails, Kill, Goto, given, local
  <2>5. ASSUME NEW p \in Procs, Rename(p)
        PROVE  TypeOK'
    BY <2>5 DEF TypeOK, Rename, Goto, given, local
  <2>6. CASE UNCHANGED vars
    BY <2>6 DEF TypeOK, vars, given, local
  <2> QED
    BY <2>1, <2>2, <2>3, <2>4, <2>5, <2>6, CopyBlockTyped DEF Next, Proceed
<1> QED
  BY <1>1, <1>2, PTL DEF Spec

-----------------------------------------------------------------------------
(* The states in which an invocation still has its temporary file.         *)
Holding == {"locate", "prompt", "size", "copy", "rename"}

(* O_EXCL makes the invocation the owner of the temporary name until it    *)
(* renames the file (recover.c:196, 648).                                  *)
THEOREM TempIsOwned == Spec => []OwnsTemp
<1>1. Init => OwnsTemp
  <2>1. TypeOK /\ Init => stdout \subseteq Procs /\ dir.temp = NONE /\ dir.target \in {NONE, OldFile}
    BY PipedAssumption DEF Init
  <2>2. Init => TypeOK
    BY DEF Init, TypeOK
  <2> QED
    BY <2>1, <2>2, ProcAssumption DEF Init, OwnsTemp
<1>2. TypeOK /\ OwnsTemp /\ [Next]_vars => OwnsTemp'
  <2> SUFFICES ASSUME TypeOK, OwnsTemp, [Next]_vars
               PROVE  OwnsTemp'
    OBVIOUS
  <2>a. stdout \subseteq Procs
    BY PipedAssumption DEF TypeOK
  <2>b. dir \in [temp : Procs \union {NONE}, target : Procs \union {OldFile, NONE}]
    BY DEF TypeOK
  <2>1. ASSUME NEW p \in Procs, CreateTemp(p)
        PROVE  OwnsTemp'
    <3>1. dir' = [dir EXCEPT !.temp = p] /\ dir.temp = NONE /\ stdout' = stdout /\ p \notin stdout
      BY <2>1 DEF CreateTemp, given
    <3>2. dir'.temp = p /\ dir'.target = dir.target
      BY <3>1, <2>b
    <3>3. ASSUME NEW q \in Procs \ stdout, pc'[q] \in Holding
          PROVE  q = p
      <4>1. q # p => dir.temp = q
        BY <2>1, <3>3 DEF CreateTemp, TypeOK, Goto, OwnsTemp, Holding
      <4> QED
        BY <3>1, <4>1, ProcAssumption
    <3> QED
      BY <3>1, <3>2, <3>3 DEF OwnsTemp, Holding
  <2>2. ASSUME NEW p \in Procs, Rename(p)
        PROVE  OwnsTemp'
    <3>1. /\ stdout' = stdout /\ pc[p] = "rename" /\ pc'[p] = "close"
          /\ \A q \in Procs : q # p => pc'[q] = pc[q]
      BY <2>2 DEF Rename, given, Goto, TypeOK
    <3>2. CASE p \in stdout
      <4>1. dir' = dir
        BY <2>2, <3>2 DEF Rename
      <4> QED
        BY <3>1, <4>1 DEF OwnsTemp
    <3>3. CASE p \notin stdout
      <4>1. dir.temp = p
        BY <3>1, <3>3 DEF OwnsTemp
      <4>2. dir' = [temp |-> NONE, target |-> p]
        BY <2>2, <3>3, <4>1, ProcAssumption DEF Rename
      <4>3. \A q \in Procs \ stdout : pc'[q] \notin Holding
        BY <3>1, <4>1 DEF OwnsTemp, Holding
      <4> QED
        BY <2>a, <3>1, <3>3, <4>2, <4>3, ProcAssumption DEF OwnsTemp, Holding
    <3> QED
      BY <3>2, <3>3
  <2>3. ASSUME dir' = dir, stdout' = stdout,
               \A q \in Procs \ stdout : pc'[q] \in Holding => pc[q] \in Holding
        PROVE  OwnsTemp'
    BY <2>3 DEF OwnsTemp, Holding
  <2>4. ASSUME NEW p \in Procs, \/ Locate(p) \/ GetSize(p) \/ User(p) \/ CopyBlock(p)
                                \/ NextExtent(p) \/ OutOfExtents(p) \/ FlushBuffer(p)
        PROVE  OwnsTemp'
    <3>1. /\ dir' = dir /\ stdout' = stdout /\ pc[p] \in Holding
          /\ \A q \in Procs : q # p => pc'[q] = pc[q]
      BY <2>4 DEF Locate, GetSize, User, AnswerYes, AnswerNo, StartCopy, CopyBlock, NextExtent,
                  OutOfExtents, FlushBuffer, Holding, given, Goto, TypeOK
    <3> QED
      BY <2>3, <3>1
  <2>5. ASSUME NEW p \in Procs, \/ CannotCreateTemp(p) \/ CannotLocate(p) \/ CopyFails(p)
                                \/ Close(p) \/ CloseFails(p) \/ Kill(p)
        PROVE  OwnsTemp'
    <3>1. /\ dir' = dir /\ stdout' = stdout /\ pc'[p] \notin Holding
          /\ \A q \in Procs : q # p => pc'[q] = pc[q]
      BY <2>5 DEF CannotCreateTemp, CannotLocate, CopyFails, Close, CloseFails, Kill, Holding,
                  given, Goto, TypeOK
    <3> QED
      BY <2>3, <3>1
  <2>6. ASSUME NEW p \in Procs, UseStdout(p)
        PROVE  OwnsTemp'
    <3>1. /\ dir' = dir /\ stdout' = stdout /\ p \in stdout
          /\ \A q \in Procs : q # p => pc'[q] = pc[q]
      BY <2>6 DEF UseStdout, given, Goto, TypeOK
    <3> QED
      BY <2>3, <3>1
  <2>7. CASE UNCHANGED vars
    BY <2>3, <2>7 DEF vars, given
  <2> QED
    BY <2>1, <2>2, <2>4, <2>5, <2>6, <2>7 DEF Next, Proceed
<1> QED
  BY <1>1, <1>2, TypeCorrect, PTL DEF Spec

(* The temporary file of an invocation that has ended is never renamed nor *)
(* replaced, and no later invocation gets anything to the target name.     *)
THEOREM StaleTempStays == Spec => StaleTempBlocks
<1>1. TypeOK /\ OwnsTemp /\ [Next]_vars =>
        [dir.temp \in Procs /\ pc[dir.temp] = "ended" => dir' = dir]_vars
  <2> SUFFICES ASSUME TypeOK, OwnsTemp, Next, dir.temp \in Procs, pc[dir.temp] = "ended"
               PROVE  dir' = dir
    OBVIOUS
  <2>1. ASSUME NEW p \in Procs, CreateTemp(p)
        PROVE  FALSE
    BY <2>1, ProcAssumption DEF CreateTemp
  <2>2. ASSUME NEW p \in Procs, Rename(p)
        PROVE  dir' = dir
    <3>1. CASE p \in stdout
      BY <2>2, <3>1 DEF Rename
    <3>2. CASE p \notin stdout
      <4>1. dir.temp = p
        BY <2>2, <3>2 DEF Rename, OwnsTemp
      <4> QED
        BY <2>2, <4>1 DEF Rename
    <3> QED
      BY <3>1, <3>2
  <2> QED
    BY <2>1, <2>2 DEF Next, Proceed, CannotCreateTemp, UseStdout, Locate, CannotLocate, GetSize, User,
         AnswerYes, AnswerNo, StartCopy, CopyBlock, NextExtent, OutOfExtents, FlushBuffer,
         CopyFails, Close, CloseFails, Kill
<1> QED
  BY <1>1, TypeCorrect, TempIsOwned, PTL DEF Spec, StaleTempBlocks

-----------------------------------------------------------------------------
(* Lemmas about numbers, and about functions defined along them.           *)

(* Induction up to a number, the formula being membership in a set.        *)
LEMMA UpTo ==
  ASSUME NEW d \in Nat, NEW T, 0 \in T, \A l \in 0 .. d - 1 : l \in T => l + 1 \in T
  PROVE  \A l \in 0 .. d : l \in T
<1> DEFINE Out == {l \in 0 .. d : l \notin T}
           R == OpToRel(<, Nat)
<1> SUFFICES ASSUME Out # {}
             PROVE  FALSE
  OBVIOUS
<1>1. IsWellFoundedOn(R, Nat)
  BY NatLessThanWellFounded
<1>2. \A m, n \in Nat : m < n => <<m, n>> \in R
  BY DEF OpToRel
<1> HIDE DEF R
<1>3. Out \in SUBSET Nat
  OBVIOUS
<1>4. PICK n \in Out : \A m \in Out : <<m, n>> \notin R
  <2>1. \E n \in Out : \A m \in Out : ~ (<<m, n>> \in R)
    BY <1>1, <1>3, WFMin
  <2> QED
    BY <2>1
<1>5. n - 1 \in 0 .. d - 1 /\ n - 1 \in T
  <2>1. n # 0
    OBVIOUS
  <2>2. n \in Nat /\ n - 1 \in Nat /\ n - 1 < n
    BY <2>1
  <2>3. n - 1 \notin Out
    BY <1>2, <1>4, <2>2
  <2> QED
    BY <2>1, <2>2, <2>3
<1>6. (n - 1) + 1 \in T
  BY <1>5
<1>7. (n - 1) + 1 = n
  OBVIOUS
<1> QED
  BY <1>6, <1>7

(* A function on 0 .. n may be given by its first value and by a step from *)
(* each value to the next.                                                 *)
LEMMA Recursion ==
  ASSUME NEW n \in Nat, NEW step \in [1 .. n -> [Nat -> Nat]]
  PROVE  \E f \in [0 .. n -> Nat] :
           f = [k \in 0 .. n |-> IF k = 0 THEN 0 ELSE step[k][f[k - 1]]]
<1> DEFINE IsPart(f, k) ==
             /\ f \in [0 .. k -> Nat]
             /\ f[0] = 0
             /\ \A j \in 1 .. k : f[j] = step[j][f[j - 1]]
           T == {k \in 0 .. n : \E f : IsPart(f, k)}
<1>1. 0 \in T
  <2>1. IsPart([k \in 0 .. 0 |-> 0], 0)
    OBVIOUS
  <2> HIDE DEF IsPart
  <2> QED
    BY <2>1
<1>2. ASSUME NEW l \in 0 .. n - 1, l \in T
      PROVE  l + 1 \in T
  <2>1. PICK f : IsPart(f, l)
    <3> HIDE DEF IsPart
    <3> QED
      BY <1>2
  <2> DEFINE g == [k \in 0 .. l + 1 |-> IF k = l + 1 THEN step[l + 1][f[l]] ELSE f[k]]
  <2>2. /\ l + 1 \in 1 .. n /\ l \in 0 .. l /\ 0 \in 0 .. l /\ f[l] \in Nat
        /\ l + 1 # 0 /\ 0 \in 0 .. l + 1 /\ l \in 0 .. l + 1 /\ l # l + 1 /\ l + 1 \in 0 .. l + 1
    BY <2>1
  <2>3. step[l + 1][f[l]] \in Nat
    <3>1. PICK h \in [Nat -> Nat] : h = step[l + 1]
      BY <2>2
    <3>2. h[f[l]] \in Nat
      BY <2>2, <3>1
    <3> QED
      BY <3>1, <3>2
  <2>4. g \in [0 .. l + 1 -> Nat]
    <3>1. \A k \in 0 .. l + 1 : k = l + 1 \/ k \in 0 .. l
      BY <2>2
    <3>2. \A k \in 0 .. l : f[k] \in Nat
      BY <2>1
    <3>3. \A k \in 0 .. l + 1 : (IF k = l + 1 THEN step[l + 1][f[l]] ELSE f[k]) \in Nat
      BY <2>3, <3>1, <3>2
    <3> QED
      BY <3>3
  <2>5. g[0] = 0
    BY <2>1, <2>2
  <2>6. \A j \in 1 .. l + 1 : g[j] = step[j][g[j - 1]]
    <3>1. ASSUME NEW j \in 1 .. l
          PROVE  g[j] = step[j][g[j - 1]]
      <4>1. j \in 0 .. l + 1 /\ j # l + 1 /\ j - 1 \in 0 .. l + 1 /\ j - 1 # l + 1
        BY <2>2
      <4>2. g[j] = f[j] /\ g[j - 1] = f[j - 1]
        BY <4>1
      <4>3. f[j] = step[j][f[j - 1]]
        BY <2>1
      <4> QED
        BY <4>2, <4>3
    <3>2. g[l + 1] = step[l + 1][g[l]]
      BY <2>2
    <3>3. \A j \in 1 .. l + 1 : j \in 1 .. l \/ j = l + 1
      BY <2>2
    <3>4. (l + 1) - 1 = l
      OBVIOUS
    <3> HIDE DEF g
    <3> QED
      BY <3>1, <3>2, <3>3, <3>4
  <2>7. IsPart(g, l + 1)
    <3> HIDE DEF g
    <3> QED
      BY <2>4, <2>5, <2>6
  <2>8. l + 1 \in 0 .. n
    BY <2>2
  <2> HIDE DEF IsPart, g
  <2> QED
    BY <2>7, <2>8
<1>3. n \in T
  <2> HIDE DEF T
  <2>1. \A l \in 0 .. n : l \in T
    BY <1>1, <1>2, UpTo
  <2>2. n \in 0 .. n
    OBVIOUS
  <2> QED
    BY <2>1, <2>2
<1>4. PICK f : IsPart(f, n)
  <2> HIDE DEF IsPart
  <2> QED
    BY <1>3
<1>5. f = [k \in 0 .. n |-> IF k = 0 THEN 0 ELSE step[k][f[k - 1]]]
  <2>1. \A k \in 0 .. n : f[k] = IF k = 0 THEN 0 ELSE step[k][f[k - 1]]
    <3>1. \A k \in 0 .. n : k = 0 \/ k \in 1 .. n
      OBVIOUS
    <3> QED
      BY <1>4, <3>1
  <2>2. f = [k \in 0 .. n |-> f[k]]
    BY <1>4
  <2> HIDE DEF IsPart
  <2> QED
    BY <2>1, <2>2
<1> QED
  BY <1>4, <1>5

(* How often b goes into m, and what is left.                              *)
LEMMA Division ==
  ASSUME NEW b \in Nat \ {0}, NEW q \in Nat, NEW r \in 0 .. b - 1
  PROVE  (q * b + r) \div b = q /\ (q * b + r) % b = r
  OBVIOUS

-----------------------------------------------------------------------------
(* The size of a file.                                                     *)

(* Where the field with the data stream begins does not hang on what comes *)
(* behind it: the cursor takes on the offsets that the writer has chosen   *)
(* (xf.c:52-66), and the size is read where it is.                         *)
LEMMA SizeIsFound ==
  ASSUME NEW inode \in Inode, NEW size \in Nat, HoldsSize(inode, size)
  PROVE  get_file_size(inode) = size
<1>1. CASE inode.has_uncompressed_size
  <2>1. inode.uncompressed_size = size
    BY <1>1 DEF HoldsSize
  <2> QED
    BY <1>1, <2>1 DEF get_file_size
<1>2. CASE ~inode.has_uncompressed_size /\ DStreams(inode) = {}
  <2>1. size = 0
    BY <1>2 DEF HoldsSize
  <2> QED
    BY <1>2, <2>1 DEF get_file_size
<1>3. CASE ~inode.has_uncompressed_size /\ DStreams(inode) # {}
  <2>a. PICK keys : keys = inode.xf_keys
    OBVIOUS
  <2>0. /\ keys \in Seq(Key) /\ Len(keys) \in Nat
        /\ \A i \in 1 .. Len(keys) : keys[i].x_size \in Nat
        /\ DStreams(inode) \subseteq 1 .. Len(keys)
        /\ Width \in Nat /\ Width < 65536
    <3>1. keys \in Seq(Key)
      BY <2>a DEF Inode
    <3>2. \A i \in 1 .. Len(keys) : keys[i] \in Key
      BY <3>1
    <3>3. \A i \in 1 .. Len(keys) : keys[i].x_size \in Nat
      BY <3>2 DEF Key
    <3>4. DStreams(inode) \subseteq 1 .. Len(keys)
      <4>1. ASSUME NEW i \in DStreams(inode)
            PROVE  i \in 1 .. Len(keys)
        <5>1. i \in DOMAIN keys
          BY <2>a DEF DStreams
        <5> QED
          BY <3>1, <5>1
      <4> QED
        BY <4>1
    <3>5. Len(keys) \in Nat
      BY <3>1
    <3>6. Width \in Nat /\ Width < 65536
      BY WidthAssumption
    <3> QED
      BY <3>1, <3>3, <3>4, <3>5, <3>6
  <2>1. PICK first \in DStreams(inode) :
          /\ \A i \in DStreams(inode) : first <= i
          /\ \E at \in [1 .. first -> 0 .. Width] :
               AreOffsets(at, keys, first) /\ inode.xf_values[at[first]] = size
    BY <1>3, <2>a DEF HoldsSize
  <2>2. PICK at \in [1 .. first -> 0 .. Width] :
          AreOffsets(at, keys, first) /\ inode.xf_values[at[first]] = size
    BY <2>1
  <2>b. PICK d : d = Len(keys)
    OBVIOUS
  <2>c. d \in Nat /\ \A i \in 1 .. d : keys[i].x_size \in Nat
    BY <2>0, <2>b
  <2>3. first \in 1 .. d
    BY <2>0, <2>b
  <2> DEFINE after(k, v) == (Aligned(v) + keys[k].x_size) % 65536
  <2>d. \A k \in 1 .. d, v \in Nat : after(k, v) \in Nat
    <3> SUFFICES ASSUME NEW k \in 1 .. d, NEW v \in Nat
                 PROVE  after(k, v) \in Nat
      OBVIOUS
    <3>1. Aligned(v) \in Nat
      BY DEF Aligned
    <3>2. keys[k].x_size \in Nat
      BY <2>c
    <3> QED
      BY <3>1, <3>2, SMT
  <2> HIDE DEF after
  <2> DEFINE Body(f) == [k \in 0 .. d |-> IF k = 0 THEN 0 ELSE after(k, f[k - 1])]
             end == CHOOSE f : f = Body(f)
             step == [k \in 1 .. d |-> [v \in Nat |-> after(k, v)]]
  <2>4. /\ end \in [0 .. d -> Nat] /\ end[0] = 0
        /\ \A k \in 1 .. d : end[k] = after(k, end[k - 1])
    <3>1. step \in [1 .. d -> [Nat -> Nat]]
      BY <2>d
    <3>2. PICK f \in [0 .. d -> Nat] :
            f = [k \in 0 .. d |-> IF k = 0 THEN 0 ELSE step[k][f[k - 1]]]
      <4> HIDE DEF step
      <4> QED
        BY <2>c, <3>1, Recursion
    <3>3. \A k \in 0 .. d : k # 0 => k \in 1 .. d /\ k - 1 \in 0 .. d
      BY <2>c
    <3>4. f = Body(f)
      <4>1. ASSUME NEW k \in 1 .. d
            PROVE  step[k][f[k - 1]] = after(k, f[k - 1])
        <5>1. k - 1 \in 0 .. d
          BY <2>c
        <5>2. PICK v \in Nat : v = f[k - 1]
          BY <3>2, <5>1
        <5>3. step[k][v] = after(k, v)
          OBVIOUS
        <5> HIDE DEF step
        <5> QED
          BY <5>2, <5>3
      <4> HIDE DEF step
      <4> QED
        BY <3>2, <3>3, <4>1
    <3>5. end = Body(end)
      <4> HIDE DEF Body
      <4> QED
        BY <3>4
    <3>6. 0 \in 0 .. d /\ \A k \in 1 .. d : k \in 0 .. d /\ k # 0
      BY <2>c
    <3> HIDE DEF end
    <3>7. end[0] = 0 /\ \A k \in 1 .. d : end[k] = after(k, end[k - 1])
      BY <3>5, <3>6
    <3>8. \A k \in 0 .. d : end[k] \in Nat
      <4> DEFINE T == {k \in 0 .. d : end[k] \in Nat}
      <4>1. 0 \in T
        BY <3>6, <3>7
      <4>2. ASSUME NEW l \in 0 .. d - 1, l \in T
            PROVE  l + 1 \in T
        <5>1. l + 1 \in 1 .. d /\ l + 1 \in 0 .. d /\ (l + 1) - 1 = l /\ end[l] \in Nat
          BY <2>c, <4>2
        <5>2. end[l + 1] \in Nat
          BY <2>d, <3>7, <5>1
        <5> QED
          BY <5>1, <5>2
      <4> HIDE DEF T
      <4>3. \A k \in 0 .. d : k \in T
        BY <2>c, <4>1, <4>2, UpTo
      <4> QED
        BY <4>3 DEF T
    <3>9. end = [k \in 0 .. d |-> end[k]]
      <4>1. Body(end) = [k \in 0 .. d |-> Body(end)[k]]
        OBVIOUS
      <4> HIDE DEF Body
      <4> QED
        BY <3>5, <4>1
    <3>10. end \in [0 .. d -> Nat]
      BY <3>8, <3>9
    <3> QED
      BY <3>7, <3>10
  <2> HIDE DEF end, Body, step
  <2>5. \A k \in 0 .. first - 1 : Aligned(end[k]) = at[k + 1]
    <3> DEFINE T == {k \in 0 .. first - 1 : Aligned(end[k]) = at[k + 1]}
    <3>0. first - 1 \in Nat /\ first \in Nat /\ 0 \in 0 .. first - 1
      BY <2>3
    <3>1. 0 \in T
      <4>1. Aligned(end[0]) = 0
        BY <2>4 DEF Aligned
      <4> QED
        BY <2>2, <3>0, <4>1 DEF AreOffsets
    <3>2. ASSUME NEW l \in 0 .. (first - 1) - 1, l \in T
          PROVE  l + 1 \in T
      <4>1. /\ l + 1 \in 1 .. d /\ l + 1 \in 1 .. first /\ l + 2 \in 2 .. first
            /\ l + 2 \in 1 .. first /\ (l + 1) - 1 = l /\ (l + 2) - 1 = l + 1
            /\ l + 1 \in 0 .. first - 1 /\ (l + 1) + 1 = l + 2
        BY <2>c, <2>3, <3>0
      <4>2. PICK a, b, s : a = at[l + 1] /\ b = at[l + 2] /\ s = keys[l + 1].x_size
        OBVIOUS
      <4>3. a \in Nat /\ b \in Nat /\ s \in Nat /\ b < 65536 /\ b % 8 = 0 /\ b - (a + s) \in 0 .. 7
        <5>1. a \in 0 .. Width /\ b \in 0 .. Width
          BY <4>1, <4>2
        <5>2. s \in Nat
          BY <2>c, <4>1, <4>2
        <5>3. b % 8 = 0 /\ b - (a + s) \in 0 .. 7
          BY <2>2, <4>1, <4>2 DEF AreOffsets
        <5> QED
          BY <2>0, <5>1, <5>2, <5>3, SMT
      <4>4. end[l + 1] = (a + s) % 65536
        BY <2>4, <3>2, <4>1, <4>2 DEF after
      <4>5. (a + s) % 65536 = a + s
        BY <4>3
      <4>6. Aligned(a + s) = b
        BY <4>3 DEF Aligned
      <4> QED
        BY <4>1, <4>2, <4>4, <4>5, <4>6
    <3> HIDE DEF T
    <3>3. \A k \in 0 .. first - 1 : k \in T
      BY <3>0, <3>1, <3>2, UpTo
    <3> QED
      BY <3>3 DEF T
  <2>6. xf_value_cursor_index(keys, first) = at[first]
    <3>1. xf_value_cursor_index(keys, first) = Aligned(end[first - 1])
      BY <2>b DEF xf_value_cursor_index, end, Body, after
    <3>2. first - 1 \in 0 .. first - 1 /\ (first - 1) + 1 = first
      BY <2>3
    <3> QED
      BY <2>5, <3>1, <3>2
  <2>7. (CHOOSE i \in DStreams(inode) : \A j \in DStreams(inode) : i <= j) = first
    <3>1. \A i \in DStreams(inode) : (\A j \in DStreams(inode) : i <= j) => i = first
      <4>1. \A i \in DStreams(inode) : i \in Nat
        BY <2>0
      <4> QED
        BY <2>1, <4>1
    <3> QED
      BY <2>0, <2>1, <3>1
  <2>8. Size(inode, at[first]) = size
    <3>1. at[first] \in 0 .. Width
      BY <2>2, <2>3
    <3> QED
      BY <2>2, <3>1 DEF Size
  <2>9. get_file_size(inode) =
          Size(inode, xf_value_cursor_index(keys,
                        CHOOSE i \in DStreams(inode) : \A j \in DStreams(inode) : i <= j))
    BY <1>3, <2>a DEF get_file_size
  <2> QED
    BY <2>6, <2>7, <2>8, <2>9
<1> QED
  BY <1>1, <1>2, <1>3

-----------------------------------------------------------------------------
(* The inductive invariant of the copy.                                    *)

(* How many blocks the extents before each hold.                           *)
Before == [e \in 0 .. Len(file.extents) |-> BlocksBefore(e)]

(* What an invocation has written or will have.                            *)
Chunks(p) == content[p] \o buffer[p]

(* Chunk c is the nth of the file.                                         *)
IsChunk(n, c) ==
  \E e \in 1 .. Len(file.extents) :
    LET offset == n - 1 - Before[e - 1] IN
    /\ offset \in 0 .. file.extents[e].len - 1
    /\ (n - 1) * BlockSize < file.size
    /\ c.block = file.extents[e].phys_block_num + offset
    /\ c.bytes = IF n * BlockSize <= file.size THEN BlockSize ELSE file.size % BlockSize

(* As many chunks as the extents hold of the file; none if declined.       *)
Whole(p, len) ==
  LET blocks == Before[Len(file.extents)] IN
  len = IF Declined(p) THEN 0
        ELSE IF blocks * BlockSize < file.size THEN blocks
        ELSE (file.size + BlockSize - 1) \div BlockSize

(* In the loop as many blocks are written as the extent and the index say, *)
(* and bytes_remaining is what they leave of the size.                     *)
Copying(p) ==
  /\ extent[p] \in 1 .. Len(file.extents) + 1
  /\ index[p] <= IF extent[p] <= Len(file.extents) THEN file.extents[extent[p]].len ELSE 0
  /\ Len(Chunks(p)) = Before[extent[p] - 1] + index[p]
  /\ Len(Chunks(p)) * BlockSize + remaining[p] = file.size
  /\ remaining[p] > 0

(* Where an invocation is, and what it has written by then.                *)
CopyInv(p) ==
  /\ \A n \in 1 .. Len(Chunks(p)) : IsChunk(n, Chunks(p)[n])
  /\ p \in stdout => buffer[p] = <<>>
  /\ pc[p] \in {"start", "locate", "prompt", "size"} =>
       Chunks(p) = <<>> /\ extent[p] = 1 /\ index[p] = 0 /\ answer[p] = "none"
  /\ pc[p] = "prompt" => file.nlink > 1 /\ ~ skip
  /\ pc[p] = "size" => (file.nlink > 1 => skip)
  /\ pc[p] = "copy" => Copying(p) /\ ~ Declined(p)
  /\ pc[p] \in {"rename", "close", "done"} => Whole(p, Len(Chunks(p)))

Inv == TypeOK /\ \A p \in Procs : CopyInv(p)

(* The file asked for, and its parts.                                      *)
LEMMA FileTyped ==
  ASSUME TypeOK
  PROVE  /\ file.size \in Nat /\ file.nlink \in Nat
         /\ file.extents \in Seq(Extent) /\ Len(file.extents) \in Nat
         /\ \A e \in 1 .. Len(file.extents) :
              /\ file.extents[e].len \in Nat /\ file.extents[e].phys_block_num \in Nat
         /\ BlockSize \in Nat \ {0}
         /\ file_size = file.size
<1>1. file \in File
  BY FileAssumption DEF TypeOK
<1>2. file.size \in Nat /\ file.nlink \in Nat /\ file.extents \in Seq(Extent)
  BY <1>1 DEF File
<1>3. \A e \in 1 .. Len(file.extents) : file.extents[e] \in Extent
  BY <1>2
<1>4. \A e \in 1 .. Len(file.extents) :
        /\ file.extents[e].len \in Nat /\ file.extents[e].phys_block_num \in Nat
  BY <1>3 DEF Extent
<1>5. Len(file.extents) \in Nat
  BY <1>2
<1>6. file_size = file.size
  <2>1. CASE file.inode = NONE
    BY <2>1, SizeAssumption DEF TypeOK, file_size
  <2>2. CASE file.inode # NONE
    <3>1. file.inode \in Inode /\ HoldsSize(file.inode, file.size)
      BY <1>1, <2>2, SizeAssumption DEF TypeOK, File
    <3>2. get_file_size(file.inode) = file.size
      BY <1>2, <3>1, SizeIsFound
    <3> QED
      BY <2>2, <3>2 DEF file_size
  <2> QED
    BY <2>1, <2>2
<1> QED
  BY <1>2, <1>4, <1>5, <1>6, BlockSizeAssumption

(* The blocks before an extent are those of the extents in front of it.    *)
LEMMA BeforeIs ==
  ASSUME TypeOK
  PROVE  /\ Before \in [0 .. Len(file.extents) -> Nat] /\ Before[0] = 0
         /\ \A e \in 1 .. Len(file.extents) : Before[e] = Before[e - 1] + file.extents[e].len
         /\ \A e \in 0 .. Len(file.extents) : Before[e] <= Before[Len(file.extents)]
<1>1. PICK d, x : d = Len(file.extents) /\ x = file.extents
  OBVIOUS
<1>2. d \in Nat /\ \A e \in 1 .. d : x[e].len \in Nat
  BY <1>1, FileTyped
<1> DEFINE Body(f) == [k \in 0 .. d |-> IF k = 0 THEN 0 ELSE f[k - 1] + x[k].len]
           upTo == CHOOSE f : f = Body(f)
           step == [k \in 1 .. d |-> [v \in Nat |-> v + x[k].len]]
<1>3. step \in [1 .. d -> [Nat -> Nat]]
  <2>1. ASSUME NEW k \in 1 .. d, NEW v \in Nat
        PROVE  v + x[k].len \in Nat
    BY <1>2
  <2> QED
    BY <2>1
<1>4. PICK f \in [0 .. d -> Nat] :
        f = [k \in 0 .. d |-> IF k = 0 THEN 0 ELSE step[k][f[k - 1]]]
  <2> HIDE DEF step
  <2> QED
    BY <1>2, <1>3, Recursion
<1>5. f = Body(f)
  <2>1. ASSUME NEW k \in 1 .. d
        PROVE  step[k][f[k - 1]] = f[k - 1] + x[k].len
    <3>1. k - 1 \in 0 .. d
      BY <1>2
    <3>2. PICK v \in Nat : v = f[k - 1]
      BY <1>4, <3>1
    <3>3. step[k][v] = v + x[k].len
      OBVIOUS
    <3> HIDE DEF step
    <3> QED
      BY <3>2, <3>3
  <2>2. \A k \in 0 .. d : k # 0 => k \in 1 .. d
    BY <1>2
  <2> HIDE DEF step
  <2> QED
    BY <1>4, <2>1, <2>2
<1>6. upTo = Body(upTo)
  <2> HIDE DEF Body
  <2> QED
    BY <1>5
<1>7. 0 \in 0 .. d /\ \A k \in 1 .. d : k \in 0 .. d /\ k # 0
  BY <1>2
<1>8. /\ upTo[0] = 0
      /\ \A k \in 1 .. d : upTo[k] = upTo[k - 1] + x[k].len
  <2> HIDE DEF upTo
  <2> QED
    BY <1>6, <1>7
<1>9. \A e \in 0 .. d : BlocksBefore(e) = upTo[e]
  BY <1>1 DEF BlocksBefore
<1> HIDE DEF upTo, Body, step
<1>10. \A k \in 0 .. d : upTo[k] \in Nat /\ \A j \in 0 .. k : upTo[j] <= upTo[k]
  <2> DEFINE T == {k \in 0 .. d :
                   upTo[k] \in Nat /\ \A j \in 0 .. k : upTo[j] \in Nat /\ upTo[j] <= upTo[k]}
  <2>1. 0 \in T
    <3>1. \A j \in 0 .. 0 : j = 0
      OBVIOUS
    <3> QED
      BY <1>7, <1>8, <3>1
  <2>2. ASSUME NEW l \in 0 .. d - 1, l \in T
        PROVE  l + 1 \in T
    <3>1. l + 1 \in 1 .. d /\ (l + 1) - 1 = l /\ l + 1 \in 0 .. d
      BY <1>2
    <3>2. upTo[l + 1] = upTo[l] + x[l + 1].len /\ upTo[l] \in Nat /\ x[l + 1].len \in Nat
      BY <1>2, <1>8, <2>2, <3>1
    <3>3. upTo[l + 1] \in Nat /\ upTo[l] <= upTo[l + 1]
      BY <3>2
    <3>4. ASSUME NEW j \in 0 .. l + 1
          PROVE  upTo[j] \in Nat /\ upTo[j] <= upTo[l + 1]
      <4>1. CASE j = l + 1
        BY <3>3, <4>1
      <4>2. CASE j # l + 1
        <5>1. j \in 0 .. l
          BY <4>2
        <5>2. upTo[j] \in Nat /\ upTo[j] <= upTo[l]
          BY <2>2, <5>1
        <5> QED
          BY <3>2, <3>3, <5>2
      <4> QED
        BY <4>1, <4>2
    <3> QED
      BY <3>1, <3>3, <3>4
  <2>3. \A k \in 0 .. d : k \in T
    <3> HIDE DEF T
    <3> QED
      BY <1>2, <2>1, <2>2, UpTo
  <2> QED
    BY <2>3
<1>11. Before = [e \in 0 .. d |-> upTo[e]]
  BY <1>1, <1>9 DEF Before
<1>12. Before \in [0 .. d -> Nat] /\ \A e \in 0 .. d : Before[e] = upTo[e]
  BY <1>10, <1>11
<1>13. d \in 0 .. d /\ \A e \in 1 .. d : e \in 0 .. d /\ e - 1 \in 0 .. d
  BY <1>2
<1>14. \A e \in 1 .. d : Before[e] = Before[e - 1] + x[e].len
  BY <1>8, <1>12, <1>13
<1>15. \A e \in 0 .. d : Before[e] <= Before[d]
  BY <1>10, <1>12, <1>13
<1> QED
  BY <1>1, <1>7, <1>8, <1>12, <1>14, <1>15

(* What is written and what is in the buffer, as one sequence.             *)
LEMMA ChunksTyped ==
  ASSUME TypeOK, NEW p \in Procs
  PROVE  /\ content[p] \in Seq(Chunk) /\ buffer[p] \in Seq(Chunk) /\ Chunks(p) \in Seq(Chunk)
         /\ Len(Chunks(p)) = Len(content[p]) + Len(buffer[p])
         /\ Len(Chunks(p)) \in Nat /\ Len(content[p]) \in Nat
         /\ \A n \in 1 .. Len(content[p]) :
              n \in 1 .. Len(Chunks(p)) /\ Chunks(p)[n] = content[p][n]
<1>1. content[p] \in Seq(Chunk) /\ buffer[p] \in Seq(Chunk)
  BY DEF TypeOK
<1>2. PICK s, t : s = content[p] /\ t = buffer[p]
  OBVIOUS
<1>3. s \in Seq(Chunk) /\ t \in Seq(Chunk)
  BY <1>1, <1>2
<1>4. /\ s \o t \in Seq(Chunk) /\ Len(s \o t) = Len(s) + Len(t)
      /\ Len(s) \in Nat /\ Len(t) \in Nat
      /\ \A n \in 1 .. Len(s) : (s \o t)[n] = s[n]
  BY <1>3
<1>5. \A n \in 1 .. Len(s) : n \in 1 .. Len(s) + Len(t)
  BY <1>4
<1>6. Chunks(p) = s \o t
  BY <1>2 DEF Chunks
<1>7. Len(s) + Len(t) \in Nat
  BY <1>4
<1> QED
  BY <1>1, <1>2, <1>4, <1>5, <1>6, <1>7

(* Blocks and bytes: after w whole blocks r bytes of the size are left.    *)
Left(b, w, r, size) ==
  /\ w * b < size
  /\ (w + 1) * b <= size <=> b <= r
  /\ r < b => size % b = r
  /\ r <= b => (size + b - 1) \div b = w + 1
  /\ r > b => (w + 1) * b + (r - b) = size
  /\ r <= b => \A m \in Nat : w + 1 <= m => ~ (m * b < size)

LEMMA BytesLeft ==
  ASSUME NEW b \in Nat \ {0}, NEW w \in Nat, NEW r \in Nat \ {0}, NEW size \in Nat,
         w * b + r = size
  PROVE  Left(b, w, r, size)
<1>1. (w + 1) * b = w * b + b /\ w * b \in Nat
  BY SMT
<1>2. r < b => size % b = r
  <2>1. r < b => r \in 0 .. b - 1
    OBVIOUS
  <2> QED
    BY <2>1, Division
<1>3. r <= b => (size + b - 1) \div b = w + 1
  <2>1. r <= b => r - 1 \in 0 .. b - 1
    OBVIOUS
  <2>2. size + b - 1 = (w + 1) * b + (r - 1)
    BY <1>1
  <2>3. w + 1 \in Nat
    OBVIOUS
  <2> QED
    BY <2>1, <2>2, <2>3, Division
<1>4. ASSUME r <= b, NEW m \in Nat, w + 1 <= m
      PROVE  ~ (m * b < size)
  <2>1. (w + 1) * b <= m * b
    <3>1. PICK x \in Nat : m = (w + 1) + x
      <4>1. m - (w + 1) \in Nat /\ m = (w + 1) + (m - (w + 1))
        BY <1>4
      <4> QED
        BY <4>1
    <3>2. m * b = (w + 1) * b + x * b /\ x * b \in Nat
      BY <3>1
    <3> QED
      BY <1>1, <3>2
  <2>2. m * b \in Nat
    OBVIOUS
  <2> QED
    BY <1>1, <1>4, <2>1, <2>2
<1> QED
  BY <1>1, <1>2, <1>3, <1>4 DEF Left

(* The file does not change.                                               *)
LEMMA FileKept ==
  ASSUME file' = file
  PROVE  Before' = Before
BY DEF Before, BlocksBefore

(* What an invocation does leaves the others where they are.               *)
SameFor(q) ==
  /\ content'[q] = content[q] /\ buffer'[q] = buffer[q] /\ pc'[q] = pc[q]
  /\ remaining'[q] = remaining[q] /\ extent'[q] = extent[q] /\ index'[q] = index[q]
  /\ answer'[q] = answer[q]

LEMMA OthersKept ==
  ASSUME TypeOK, NEW p \in Procs, Proceed(p) \/ User(p) \/ FlushBuffer(p) \/ Kill(p)
  PROVE  given' = given /\ \A q \in Procs \ {p} : SameFor(q)
<1> SUFFICES ASSUME NEW q \in Procs \ {p}
             PROVE  given' = given /\ SameFor(q)
  BY DEF Proceed, User, CreateTemp, CannotCreateTemp, UseStdout, Locate, CannotLocate, GetSize,
         AnswerYes, AnswerNo, StartCopy, CopyBlock, NextExtent, OutOfExtents, FlushBuffer,
         CopyFails, Rename, Close, CloseFails, Kill
<1>1. CASE \/ CreateTemp(p) \/ CannotCreateTemp(p) \/ UseStdout(p) \/ Locate(p)
           \/ CannotLocate(p) \/ Rename(p) \/ OutOfExtents(p)
  BY <1>1 DEF TypeOK, SameFor, CreateTemp, CannotCreateTemp, UseStdout, Locate, CannotLocate,
              Rename, OutOfExtents, Goto, local
<1>2. CASE GetSize(p) \/ User(p)
  BY <1>2 DEF TypeOK, SameFor, GetSize, User, AnswerYes, AnswerNo, StartCopy, Goto
<1>3. CASE CopyBlock(p)
  BY <1>3 DEF TypeOK, SameFor, CopyBlock, Write, Goto
<1>4. CASE NextExtent(p)
  BY <1>4 DEF TypeOK, SameFor, NextExtent
<1>5. CASE FlushBuffer(p) \/ CopyFails(p) \/ Close(p) \/ CloseFails(p) \/ Kill(p)
  BY <1>5 DEF TypeOK, SameFor, FlushBuffer, CopyFails, Close, CloseFails, Kill, Written, Emptied,
              Goto, local
<1> QED
  BY <1>1, <1>2, <1>3, <1>4, <1>5 DEF Proceed

(* The invariant holds on of an invocation that does not move.             *)
LEMMA InvKept ==
  ASSUME NEW q \in Procs, CopyInv(q), given' = given, SameFor(q)
  PROVE  CopyInv(q)'
<1>1. file' = file /\ stdout' = stdout /\ skip' = skip
  BY DEF given
<1>2. Before' = Before /\ Chunks(q)' = Chunks(q) /\ (Declined(q)' <=> Declined(q))
  BY <1>1, FileKept DEF Chunks, SameFor, Declined
<1>3. Copying(q)' <=> Copying(q)
  BY <1>1, <1>2 DEF Copying, SameFor
<1>4. Whole(q, Len(Chunks(q)))' <=> Whole(q, Len(Chunks(q)))
  BY <1>1, <1>2 DEF Whole
<1>5. \A n : IsChunk(n, Chunks(q)[n])' <=> IsChunk(n, Chunks(q)[n])
  BY <1>1, <1>2 DEF IsChunk
<1> QED
  BY <1>1, <1>2, <1>3, <1>4, <1>5 DEF CopyInv, SameFor

(* Steps that leave alone what is written, and do not enter the loop.      *)
LEMMA ChunksKept ==
  ASSUME NEW p \in Procs, CopyInv(p), given' = given,
         content'[p] = content[p], buffer'[p] = buffer[p],
         extent'[p] = extent[p], index'[p] = index[p]
  PROVE  /\ file' = file /\ stdout' = stdout /\ skip' = skip
         /\ Before' = Before /\ Chunks(p)' = Chunks(p)
         /\ \A n \in 1 .. Len(Chunks(p)') : IsChunk(n, Chunks(p)[n])'
         /\ p \in stdout' => buffer'[p] = <<>>
<1>1. file' = file /\ stdout' = stdout /\ skip' = skip
  BY DEF given
<1>2. Before' = Before
  BY <1>1, FileKept
<1>3. Chunks(p)' = Chunks(p)
  BY DEF Chunks
<1>4. \A n : IsChunk(n, Chunks(p)[n])' <=> IsChunk(n, Chunks(p)[n])
  BY <1>1, <1>2, <1>3 DEF IsChunk
<1> QED
  BY <1>1, <1>2, <1>3, <1>4 DEF CopyInv

(* Whether the file is declined is settled before its copy begins.         *)
LEMMA DeclinedKept ==
  ASSUME NEW p \in Procs, given' = given, answer'[p] = answer[p], Before' = Before
  PROVE  /\ Declined(p)' <=> Declined(p)
         /\ \A len : Whole(p, len)' <=> Whole(p, len)
<1>1. file' = file /\ skip' = skip
  BY DEF given
<1>2. Declined(p)' <=> Declined(p)
  BY <1>1 DEF Declined
<1> QED
  BY <1>1, <1>2 DEF Whole

(* Steps between the stages, and the end of the loop without an extent.    *)
LEMMA Moves ==
  ASSUME TypeOK, NEW p \in Procs, CopyInv(p), given' = given,
         \/ CreateTemp(p) \/ CannotCreateTemp(p) \/ UseStdout(p) \/ Locate(p)
         \/ CannotLocate(p) \/ Rename(p) \/ OutOfExtents(p) \/ CloseFails(p)
  PROVE  CopyInv(p)'
<1>1. /\ content'[p] = content[p] /\ buffer'[p] = buffer[p] /\ remaining'[p] = remaining[p]
      /\ extent'[p] = extent[p] /\ index'[p] = index[p] /\ answer'[p] = answer[p]
  BY DEF CreateTemp, CannotCreateTemp, UseStdout, Locate, CannotLocate, Rename, OutOfExtents,
         CloseFails, local
<1>2. /\ file' = file /\ stdout' = stdout /\ skip' = skip
      /\ Before' = Before /\ Chunks(p)' = Chunks(p)
      /\ \A n \in 1 .. Len(Chunks(p)') : IsChunk(n, Chunks(p)[n])'
      /\ p \in stdout' => buffer'[p] = <<>>
  BY <1>1, ChunksKept
<1>a. \A len : Whole(p, len)' <=> Whole(p, len)
  BY <1>1, <1>2, DeclinedKept
<1>3. \/ pc[p] = "start" /\ pc'[p] \in {"locate", "ended"}
      \/ pc[p] = "locate" /\ pc'[p] = "ended"
      \/ pc[p] = "locate" /\ pc'[p] = "prompt" /\ file.nlink > 1 /\ ~ skip
      \/ pc[p] = "locate" /\ pc'[p] = "size" /\ (file.nlink > 1 => skip)
      \/ pc[p] = "rename" /\ pc'[p] = "close"
      \/ pc[p] = "close" /\ pc'[p] = "done"
      \/ OutOfExtents(p) /\ pc[p] = "copy" /\ pc'[p] = "rename"
  BY DEF TypeOK, CreateTemp, CannotCreateTemp, UseStdout, Locate, CannotLocate, Rename,
         OutOfExtents, CloseFails, Goto
<1>4. ASSUME OutOfExtents(p)
      PROVE  Whole(p, Len(Chunks(p)))
  <2>1. pc[p] = "copy" /\ extent[p] > Len(file.extents)
    BY <1>4 DEF OutOfExtents
  <2>2. Copying(p) /\ ~ Declined(p)
    BY <2>1 DEF CopyInv
  <2>3. Len(file.extents) \in Nat /\ file.size \in Nat /\ BlockSize \in Nat \ {0}
    BY FileTyped
  <2>4. index[p] \in Nat /\ remaining[p] \in Nat /\ extent[p] \in Nat /\ Len(Chunks(p)) \in Nat
    BY ChunksTyped DEF TypeOK
  <2>5. PICK d, w, e : d = Len(file.extents) /\ w = Len(Chunks(p)) /\ e = extent[p]
    OBVIOUS
  <2>6. e = d + 1 /\ index[p] = 0
    <3>1. e \in 1 .. d + 1 /\ e > d /\ index[p] <= IF e <= d THEN file.extents[e].len ELSE 0
      BY <2>1, <2>2, <2>5 DEF Copying
    <3>2. d \in Nat /\ e \in Nat /\ index[p] \in Nat
      BY <2>3, <2>4, <2>5
    <3>3. e = d + 1 /\ ~ (e <= d)
      BY <3>1, <3>2
    <3> QED
      BY <3>1, <3>2, <3>3
  <2>7. w = Before[d]
    <3>1. w = Before[e - 1] + index[p] /\ e - 1 = d
      BY <2>2, <2>3, <2>5, <2>6 DEF Copying
    <3>2. w = Before[d] + 0 /\ d \in 0 .. Len(file.extents)
      BY <2>3, <2>5, <2>6, <3>1
    <3>3. Before[d] \in Nat
      BY <3>2, BeforeIs
    <3> QED
      BY <3>2, <3>3
  <2>8. w * BlockSize < file.size
    <3>1. w * BlockSize + remaining[p] = file.size /\ remaining[p] > 0
      BY <2>2, <2>5 DEF Copying
    <3>2. remaining[p] \in Nat \ {0} /\ w \in Nat
      BY <2>4, <2>5, <3>1
    <3>3. Left(BlockSize, w, remaining[p], file.size)
      BY <2>3, <3>1, <3>2, BytesLeft
    <3> QED
      BY <3>3 DEF Left
  <2> QED
    BY <2>2, <2>5, <2>7, <2>8 DEF Whole
<1> QED
  BY <1>1, <1>2, <1>a, <1>3, <1>4 DEF CopyInv

(* The copy begins with everything before it.                              *)
LEMMA Begins ==
  ASSUME TypeOK, NEW p \in Procs, CopyInv(p), given' = given, NEW size \in Nat,
         pc[p] \in {"prompt", "size"}, StartCopy(p, size),
         size = IF Declined(p)' THEN 0 ELSE file.size
  PROVE  CopyInv(p)'
<1>1. /\ content'[p] = content[p] /\ buffer'[p] = buffer[p] /\ remaining'[p] = size
      /\ extent'[p] = extent[p] /\ index'[p] = index[p]
      /\ pc'[p] = IF size = 0 THEN "rename" ELSE "copy"
  BY DEF TypeOK, StartCopy, Goto
<1>2. /\ file' = file /\ stdout' = stdout /\ Before' = Before /\ Chunks(p)' = Chunks(p)
      /\ \A n \in 1 .. Len(Chunks(p)') : IsChunk(n, Chunks(p)[n])'
      /\ p \in stdout' => buffer'[p] = <<>>
  BY <1>1, ChunksKept
<1>3. Chunks(p) = <<>> /\ extent[p] = 1 /\ index[p] = 0 /\ Len(Chunks(p)) = 0
  BY DEF CopyInv
<1>4. /\ Len(file.extents) \in Nat /\ file.size \in Nat /\ BlockSize \in Nat \ {0}
      /\ \A e \in 1 .. Len(file.extents) : file.extents[e].len \in Nat
  BY FileTyped
<1>5. Before[0] = 0 /\ Before[Len(file.extents)] \in Nat
  BY <1>4, BeforeIs
<1>6. CASE size = 0
  <2>1. Whole(p, 0)'
    <3>1. CASE Declined(p)'
      BY <3>1 DEF Whole
    <3>2. CASE ~ Declined(p)'
      <4>0. file.size = 0
        BY <1>6, <3>2
      <4>1. Before[Len(file.extents)] * BlockSize \in Nat
        BY <1>4, <1>5
      <4>2. BlockSize - 1 \in 0 .. BlockSize - 1 /\ 0 * BlockSize + (BlockSize - 1) = BlockSize - 1
        BY <1>4
      <4>3. (BlockSize - 1) \div BlockSize = 0
        BY <1>4, <4>2, Division
      <4>4. (file.size + BlockSize - 1) \div BlockSize = 0
        BY <1>4, <4>0, <4>3
      <4>5. ~ (Before[Len(file.extents)] * BlockSize < file.size)
        BY <4>0, <4>1
      <4> QED
        BY <1>2, <3>2, <4>4, <4>5 DEF Whole
    <3> QED
      BY <3>1, <3>2
  <2> QED
    BY <1>1, <1>2, <1>3, <1>6, <2>1 DEF CopyInv
<1>7. CASE size # 0
  <2>1. Copying(p)'
    <3>1. /\ extent'[p] = 1 /\ index'[p] = 0 /\ Len(Chunks(p)') = 0 /\ remaining'[p] = file.size
          /\ file.size > 0
      BY <1>1, <1>2, <1>3, <1>4, <1>7
    <3>2. 1 \in 1 .. Len(file.extents) + 1 /\ 1 - 1 = 0
      BY <1>4
    <3>3. 0 <= IF 1 <= Len(file.extents) THEN file.extents[1].len ELSE 0
      BY <1>4
    <3>4. 0 * BlockSize + file.size = file.size
      BY <1>4
    <3> QED
      BY <1>2, <1>5, <3>1, <3>2, <3>3, <3>4 DEF Copying
  <2> QED
    BY <1>1, <1>2, <1>7, <2>1 DEF CopyInv
<1> QED
  BY <1>6, <1>7

(* A block is copied: it is the next of the file, of which what remains is *)
(* the rest (recover.c:609-636).                                           *)
LEMMA Copies ==
  ASSUME TypeOK, NEW p \in Procs, CopyInv(p), given' = given, CopyBlock(p)
  PROVE  CopyInv(p)'
<1>1. PICK s, w, e, i, r, d, b :
        /\ s = Chunks(p) /\ w = Len(Chunks(p)) /\ e = extent[p] /\ i = index[p]
        /\ r = remaining[p] /\ d = Len(file.extents) /\ b = BlockSize
  OBVIOUS
<1>2. PICK x, size : x = file.extents /\ size = file.size
  OBVIOUS
<1> DEFINE bytes == IF r < b THEN r ELSE b
           c == [block |-> x[e].phys_block_num + i, bytes |-> bytes]
<1>3. /\ pc[p] = "copy" /\ e <= d /\ i < x[e].len /\ Write(p, c)
      /\ remaining' = [remaining EXCEPT ![p] = r - bytes]
      /\ index' = [index EXCEPT ![p] = i + 1] /\ extent' = extent
      /\ Goto(p, IF remaining'[p] = 0 THEN "rename" ELSE "copy")
  BY <1>1, <1>2 DEF CopyBlock, CurrentExtent
<1>4. /\ e \in 1 .. d + 1 /\ w = Before[e - 1] + i /\ w * b + r = size /\ r > 0
  BY <1>1, <1>2, <1>3 DEF CopyInv, Copying
<1>5. /\ d \in Nat /\ b \in Nat \ {0} /\ size \in Nat
      /\ \A k \in 1 .. d : x[k].len \in Nat /\ x[k].phys_block_num \in Nat
  BY <1>1, <1>2, FileTyped
<1>6. w \in Nat /\ i \in Nat /\ r \in Nat \ {0} /\ s \in Seq(Chunk) /\ w = Len(s)
  <2>1. index[p] \in Nat /\ remaining[p] \in Nat
    BY DEF TypeOK
  <2> QED
    <3>1. w \in Nat /\ s \in Seq(Chunk) /\ w = Len(s)
      BY <1>1, ChunksTyped
    <3>2. i \in Nat /\ r \in Nat
      BY <1>1, <2>1
    <3>3. r > 0
      BY <1>4
    <3> QED
      BY <3>1, <3>2, <3>3
<1>7. e \in 1 .. d /\ e - 1 \in 0 .. d /\ e \in 0 .. d
  BY <1>3, <1>4, <1>5
<1>8. /\ Before[e] = Before[e - 1] + x[e].len /\ Before[e] <= Before[d]
      /\ Before[e - 1] \in Nat /\ Before[e] \in Nat /\ Before[d] \in Nat
  <2>1. d \in 0 .. d
    BY <1>5
  <2>2. Before \in [0 .. d -> Nat]
    BY <1>1, BeforeIs
  <2>3. Before[e - 1] \in Nat /\ Before[e] \in Nat /\ Before[d] \in Nat
    BY <1>7, <2>1, <2>2
  <2> QED
    BY <1>1, <1>2, <1>7, <2>3, BeforeIs
<1>a. PICK q, z, l : q = Before[e - 1] /\ z = Before[d] /\ l = x[e].len
  OBVIOUS
<1>b. /\ q \in Nat /\ z \in Nat /\ l \in Nat /\ q + l <= z
      /\ w = q + i /\ i < l
  <2>1. l \in Nat
    BY <1>5, <1>7, <1>a
  <2> QED
    BY <1>3, <1>4, <1>8, <1>a, <2>1
<1>9. /\ w * b < size
      /\ (w + 1) * b <= size <=> b <= r
      /\ r < b => size % b = r
      /\ r <= b => (size + b - 1) \div b = w + 1
      /\ r > b => (w + 1) * b + (r - b) = size
      /\ r <= b => \A m \in Nat : w + 1 <= m => ~ (m * b < size)
  <2>1. w * b + r = size
    BY <1>4
  <2>2. b \in Nat \ {0} /\ size \in Nat /\ w \in Nat /\ r \in Nat \ {0}
    BY <1>5, <1>6
  <2>3. Left(b, w, r, size)
    BY <2>1, <2>2, BytesLeft
  <2> QED
    BY <2>3 DEF Left
<1>10. /\ Chunks(p)' = Append(s, c)
       /\ p \in stdout => buffer'[p] = <<>>
  <2>1. /\ content[p] \in Seq(Chunk) /\ buffer[p] \in Seq(Chunk)
        /\ content \in [Procs -> Seq(Chunk)] /\ buffer \in [Procs -> Seq(Chunk)]
    BY DEF TypeOK
  <2>2. PICK u, v : u = content[p] /\ v = buffer[p]
    OBVIOUS
  <2>3. u \in Seq(Chunk) /\ v \in Seq(Chunk) /\ s = u \o v
    BY <1>1, <2>1, <2>2 DEF Chunks
  <2>4. bytes \in 0 .. b /\ x[e].phys_block_num + i \in Nat
    BY <1>5, <1>6, <1>7
  <2>5. c \in Chunk
    BY <1>1, <2>4 DEF Chunk
  <2> HIDE DEF c
  <2>6. CASE p \in stdout
    <3>1. v = <<>> /\ buffer' = buffer /\ content' = [content EXCEPT ![p] = Append(u, c)]
      BY <1>3, <2>2, <2>6 DEF CopyInv, Write
    <3>2. content'[p] = Append(u, c) /\ buffer'[p] = <<>>
      BY <2>1, <2>2, <3>1
    <3>3. Append(u, c) \o <<>> = Append(u, c) /\ u \o <<>> = u
      <4>1. Append(u, c) \in Seq(Chunk)
        BY <2>3, <2>5
      <4> QED
        BY <2>3, <4>1
    <3> QED
      BY <2>3, <3>1, <3>2, <3>3 DEF Chunks
  <2>7. CASE p \notin stdout
    <3>1. content' = content /\ buffer' = [buffer EXCEPT ![p] = Append(v, c)]
      BY <1>3, <2>2, <2>7 DEF Write
    <3>2. content'[p] = u /\ buffer'[p] = Append(v, c)
      BY <2>1, <2>2, <3>1
    <3>3. u \o Append(v, c) = Append(u \o v, c)
      BY <2>3, <2>5
    <3> QED
      BY <2>3, <2>7, <3>2, <3>3 DEF Chunks
  <2> QED
    BY <2>6, <2>7
<1>11. /\ file' = file /\ stdout' = stdout /\ Before' = Before
       /\ ~ Declined(p) /\ ~ Declined(p)' /\ (\A len : Whole(p, len)' <=> Whole(p, len))
  <2>1. file' = file /\ stdout' = stdout /\ answer' = answer
    BY DEF given, CopyBlock
  <2>2. Before' = Before
    BY <2>1, FileKept
  <2>3. ~ Declined(p)
    BY <1>3 DEF CopyInv
  <2> QED
    BY <2>1, <2>2, <2>3, DeclinedKept
<1>12. IsChunk(w + 1, c)
  <2>1. (w + 1) - 1 = w /\ w - Before[e - 1] = i /\ i \in 0 .. x[e].len - 1
    <3>1. (w + 1) - 1 = w /\ w - q = i /\ i \in 0 .. l - 1
      BY <1>6, <1>b
    <3> QED
      BY <1>a, <3>1
  <2>2. bytes = IF (w + 1) * b <= size THEN b ELSE size % b
    <3>1. CASE r < b
      BY <1>5, <1>6, <1>9, <3>1
    <3>2. CASE ~ (r < b)
      BY <1>5, <1>6, <1>9, <3>2
    <3> QED
      BY <3>1, <3>2
  <2>3. c.block = x[e].phys_block_num + i /\ c.bytes = bytes
    OBVIOUS
  <2> HIDE DEF c, bytes
  <2> QED
    BY <1>1, <1>2, <1>7, <1>9, <2>1, <2>2, <2>3 DEF IsChunk
<1>13. Len(Chunks(p)') = w + 1 /\ \A n \in 1 .. w + 1 : IsChunk(n, Chunks(p)[n])'
  <2> HIDE DEF c
  <2>1. /\ Len(Append(s, c)) = w + 1 /\ Append(s, c)[w + 1] = c
        /\ \A n \in 1 .. w : Append(s, c)[n] = s[n]
    BY <1>6
  <2>2. ASSUME NEW n \in 1 .. w + 1
        PROVE  IsChunk(n, Append(s, c)[n])
    <3>1. CASE n = w + 1
      BY <1>12, <2>1, <3>1
    <3>2. CASE n # w + 1
      <4>1. n \in 1 .. w
        BY <1>6, <3>2
      <4>2. IsChunk(n, s[n])
        BY <1>1, <4>1 DEF CopyInv
      <4> QED
        BY <2>1, <4>1, <4>2
    <3> QED
      BY <3>1, <3>2
  <2>3. \A n : IsChunk(n, Chunks(p)[n])' <=> IsChunk(n, Append(s, c)[n])
    BY <1>10, <1>11 DEF IsChunk
  <2> QED
    BY <1>10, <2>1, <2>2, <2>3
<1>14. remaining'[p] = r - bytes /\ index'[p] = i + 1 /\ extent'[p] = e
  BY <1>1, <1>3 DEF TypeOK
<1>15. pc'[p] = IF r - bytes = 0 THEN "rename" ELSE "copy"
  BY <1>3, <1>14 DEF TypeOK, Goto
<1>16. ASSUME pc'[p] = "rename"
       PROVE  Whole(p, w + 1)
  <2>1. r <= b
    BY <1>5, <1>6, <1>15, <1>16
  <2>2. w + 1 <= Before[d]
    <3>1. w + 1 <= z
      BY <1>6, <1>b
    <3> QED
      BY <1>a, <3>1
  <2>3. ~ (Before[d] * b < size) /\ (size + b - 1) \div b = w + 1
    BY <1>8, <1>9, <2>1, <2>2
  <2> QED
    BY <1>1, <1>2, <1>11, <2>3 DEF Whole
<1>17. ASSUME pc'[p] = "copy"
       PROVE  Copying(p)'
  <2>1. r > b /\ bytes = b
    BY <1>5, <1>6, <1>15, <1>17
  <2>2. /\ i + 1 <= IF e <= d THEN x[e].len ELSE 0
        /\ w + 1 = Before[e - 1] + (i + 1)
        /\ (w + 1) * b + (r - b) = size /\ r - b > 0
    <3>1. i + 1 <= l /\ w + 1 = q + (i + 1)
      BY <1>6, <1>b
    <3>2. (w + 1) * b + (r - b) = size
      BY <1>9, <2>1
    <3>3. r - b > 0
      BY <1>5, <1>6, <2>1
    <3> QED
      BY <1>3, <1>a, <3>1, <3>2, <3>3
  <2> QED
    BY <1>1, <1>2, <1>4, <1>11, <1>13, <1>14, <2>1, <2>2 DEF Copying
<1> HIDE DEF c, bytes
<1> QED
  BY <1>10, <1>11, <1>13, <1>15, <1>16, <1>17 DEF CopyInv

(* After its last block an extent is left for the first of the next.       *)
LEMMA Advances ==
  ASSUME TypeOK, NEW p \in Procs, CopyInv(p), given' = given, NextExtent(p)
  PROVE  CopyInv(p)'
<1>1. PICK w, e, i, d : /\ w = Len(Chunks(p)) /\ e = extent[p] /\ i = index[p]
                        /\ d = Len(file.extents)
  OBVIOUS
<1>2. PICK x : x = file.extents
  OBVIOUS
<1>3. /\ pc[p] = "copy" /\ pc' = pc /\ e <= d /\ i >= x[e].len
      /\ content' = content /\ buffer' = buffer /\ remaining' = remaining
      /\ extent'[p] = e + 1 /\ index'[p] = 0
  BY <1>1, <1>2 DEF NextExtent, CurrentExtent, TypeOK
<1>4. /\ e \in 1 .. d + 1 /\ w = Before[e - 1] + i
      /\ i <= IF e <= d THEN x[e].len ELSE 0
      /\ w * BlockSize + remaining[p] = file.size /\ remaining[p] > 0
  BY <1>1, <1>2, <1>3 DEF CopyInv, Copying
<1>5. d \in Nat /\ \A k \in 1 .. d : x[k].len \in Nat
  BY <1>1, <1>2, FileTyped
<1>6. i \in Nat
  BY <1>1 DEF TypeOK
<1>7. /\ e \in 1 .. d /\ i = x[e].len /\ (e + 1) - 1 = e /\ e + 1 \in 1 .. d + 1
      /\ (e + 1 <= d => e + 1 \in 1 .. d)
  <2>1. /\ e \in 1 .. d /\ (e + 1) - 1 = e /\ e + 1 \in 1 .. d + 1
        /\ (e + 1 <= d => e + 1 \in 1 .. d)
    <3>1. e \in 1 .. d + 1 /\ e <= d /\ d \in Nat
      BY <1>3, <1>4, <1>5
    <3> QED
      BY <3>1
  <2>2. PICK l \in Nat : l = x[e].len
    BY <1>5, <2>1
  <2>3. i <= l /\ i >= l
    BY <1>3, <1>4, <2>2
  <2>4. i = l
    BY <1>6, <2>2, <2>3
  <2> QED
    BY <2>1, <2>2, <2>4
<1>8. Before[e] = Before[e - 1] + x[e].len /\ Before[e] \in Nat
  <2>1. Before \in [0 .. d -> Nat] /\ e \in 0 .. d
    BY <1>1, <1>5, <1>7, BeforeIs
  <2> QED
    BY <1>1, <1>2, <1>7, <2>1, BeforeIs
<1>9. w = Before[(e + 1) - 1] + 0
  <2>1. w = Before[e]
    <3>1. w = Before[e - 1] + i
      BY <1>4
    <3>2. i = x[e].len
      BY <1>7
    <3> QED
      BY <1>8, <3>1, <3>2
  <2>2. PICK q \in Nat : q = Before[e]
    BY <1>8
  <2>3. w = q + 0
    BY <2>1, <2>2
  <2> QED
    BY <1>7, <2>2, <2>3
<1>10. 0 <= IF e + 1 <= d THEN x[e + 1].len ELSE 0
  BY <1>5, <1>7
<1>11. /\ file' = file /\ stdout' = stdout /\ Before' = Before /\ Chunks(p)' = Chunks(p)
       /\ ~ Declined(p)'
  <2>1. file' = file /\ stdout' = stdout /\ answer' = answer
    BY DEF given, NextExtent
  <2>2. Before' = Before
    BY <2>1, FileKept
  <2>3. ~ Declined(p)
    BY <1>3 DEF CopyInv
  <2> QED
    BY <1>3, <2>1, <2>2, <2>3, DeclinedKept DEF Chunks
<1>12. \A n : IsChunk(n, Chunks(p)[n])' <=> IsChunk(n, Chunks(p)[n])
  BY <1>11 DEF IsChunk
<1>13. Copying(p)'
  BY <1>1, <1>2, <1>3, <1>4, <1>7, <1>9, <1>10, <1>11 DEF Copying
<1> QED
  BY <1>3, <1>11, <1>12, <1>13 DEF CopyInv

(* The buffer is written out, or lost with all that could come after it.   *)
LEMMA Empties ==
  ASSUME TypeOK, NEW p \in Procs, CopyInv(p), given' = given,
         FlushBuffer(p) \/ CopyFails(p) \/ Close(p) \/ Kill(p)
  PROVE  CopyInv(p)'
<1>1. /\ buffer'[p] = <<>>
      /\ content'[p] = content[p] \/ content'[p] = content[p] \o buffer[p]
      /\ remaining' = remaining /\ extent' = extent /\ index' = index /\ answer' = answer
  BY DEF TypeOK, FlushBuffer, CopyFails, Close, Kill, Written, Emptied
<1>2. \/ /\ content'[p] = content[p] \o buffer[p]
         /\ (pc[p] = "copy" /\ pc'[p] = "copy") \/ (pc[p] = "close" /\ pc'[p] = "done")
      \/ pc'[p] = "ended"
  BY DEF TypeOK, FlushBuffer, CopyFails, Close, Kill, Written, Goto
<1>3. PICK s, t : s = content[p] /\ t = Chunks(p)
  OBVIOUS
<1>4. s \in Seq(Chunk) /\ t \in Seq(Chunk) /\ s \o <<>> = s /\ t \o <<>> = t
  <2>1. s \in Seq(Chunk) /\ t \in Seq(Chunk)
    BY <1>3, ChunksTyped
  <2> QED
    BY <2>1
<1>5. /\ file' = file /\ stdout' = stdout /\ Before' = Before
      /\ Declined(p)' <=> Declined(p)
      /\ \A len : Whole(p, len)' <=> Whole(p, len)
  <2>1. file' = file /\ stdout' = stdout
    BY DEF given
  <2>2. Before' = Before
    BY <2>1, FileKept
  <2> QED
    BY <1>1, <2>1, <2>2, DeclinedKept
<1>6. Chunks(p)' = s \/ Chunks(p)' = t
  BY <1>1, <1>3, <1>4 DEF Chunks
<1>7. content'[p] = content[p] \o buffer[p] => Chunks(p)' = Chunks(p)
  BY <1>1, <1>3, <1>4 DEF Chunks
<1>8. \A n \in 1 .. Len(Chunks(p)') : IsChunk(n, Chunks(p)[n])'
  <2>1. CASE Chunks(p)' = t
    <3>1. \A n : IsChunk(n, Chunks(p)[n])' <=> IsChunk(n, Chunks(p)[n])
      BY <1>3, <1>5, <2>1 DEF IsChunk
    <3> QED
      BY <1>3, <2>1, <3>1 DEF CopyInv
  <2>2. CASE Chunks(p)' = s
    <3>1. \A n : IsChunk(n, Chunks(p)[n])' <=> IsChunk(n, s[n])
      BY <1>5, <2>2 DEF IsChunk
    <3>2. \A n \in 1 .. Len(s) : n \in 1 .. Len(Chunks(p)) /\ Chunks(p)[n] = s[n]
      BY <1>3, ChunksTyped
    <3>3. \A n \in 1 .. Len(s) : IsChunk(n, s[n])
      BY <3>2 DEF CopyInv
    <3> QED
      BY <2>2, <3>1, <3>3
  <2> QED
    BY <1>6, <2>1, <2>2
<1>9. CASE pc'[p] = "ended"
  BY <1>1, <1>8, <1>9 DEF CopyInv
<1>10. CASE /\ content'[p] = content[p] \o buffer[p]
            /\ (pc[p] = "copy" /\ pc'[p] = "copy") \/ (pc[p] = "close" /\ pc'[p] = "done")
  <2>1. Chunks(p)' = Chunks(p)
    BY <1>7, <1>10
  <2>2. Copying(p)' <=> Copying(p)
    BY <1>1, <1>5, <2>1 DEF Copying
  <2> QED
    BY <1>1, <1>5, <1>8, <1>10, <2>1, <2>2 DEF CopyInv
<1> QED
  BY <1>2, <1>9, <1>10

-----------------------------------------------------------------------------
(* Theorems about the output.                                              *)

(* The invariant holds in every state of any number of invocations.        *)
THEOREM InvHolds == Spec => []Inv
<1>1. Init => \A p \in Procs : CopyInv(p)
  <2> SUFFICES ASSUME Init, NEW p \in Procs
               PROVE  CopyInv(p)
    OBVIOUS
  <2>1. /\ content[p] = <<>> /\ buffer[p] = <<>> /\ pc[p] = "start"
        /\ extent[p] = 1 /\ index[p] = 0 /\ answer[p] = "none"
    BY DEF Init
  <2>2. Chunks(p) = <<>> /\ Len(Chunks(p)) = 0
    BY <2>1 DEF Chunks
  <2> QED
    BY <2>1, <2>2 DEF CopyInv
<1>2. TypeOK /\ (\A p \in Procs : CopyInv(p)) /\ [Next]_vars => (\A p \in Procs : CopyInv(p))'
  <2> SUFFICES ASSUME TypeOK, \A p \in Procs : CopyInv(p), [Next]_vars, NEW q \in Procs
               PROVE  CopyInv(q)'
    OBVIOUS
  <2>1. CASE UNCHANGED vars
    <3>1. given' = given /\ SameFor(q)
      BY <2>1 DEF vars, local, SameFor
    <3> QED
      BY <3>1, InvKept
  <2>2. CASE Next
    <3>1. PICK p \in Procs : Proceed(p) \/ User(p) \/ FlushBuffer(p) \/ Kill(p)
      BY <2>2 DEF Next
    <3>2. given' = given /\ (q # p => SameFor(q))
      BY <3>1, OthersKept
    <3>3. CASE q # p
      BY <3>2, <3>3, InvKept
    <3>4. ASSUME \/ CreateTemp(p) \/ CannotCreateTemp(p) \/ UseStdout(p) \/ Locate(p)
                 \/ CannotLocate(p) \/ Rename(p) \/ OutOfExtents(p) \/ CloseFails(p)
          PROVE  CopyInv(p)'
      BY <3>2, <3>4, Moves
    <3>5. ASSUME GetSize(p) \/ User(p)
          PROVE  CopyInv(p)'
      <4>1. file_size = file.size /\ file.size \in Nat /\ 0 \in Nat
        BY FileTyped
      <4>0. file' = file /\ skip' = skip
        BY <3>2 DEF given
      <4>2. CASE GetSize(p)
        <5>1. /\ pc[p] = "size" /\ (file.nlink > 1 => skip) /\ answer[p] = "none"
              /\ answer' = answer /\ StartCopy(p, IF file.nlink > 1 THEN 0 ELSE file_size)
          BY <4>2 DEF GetSize, CopyInv
        <5>2. Declined(p)' <=> file.nlink > 1
          BY <4>0, <5>1 DEF Declined
        <5>3. (IF file.nlink > 1 THEN 0 ELSE file_size) = IF Declined(p)' THEN 0 ELSE file.size
          BY <4>1, <5>2
        <5>4. (IF file.nlink > 1 THEN 0 ELSE file_size) \in Nat
          BY <4>1
        <5> QED
          BY <3>2, <5>1, <5>3, <5>4, Begins
      <4>3. CASE AnswerYes(p)
        <5>1. pc[p] = "prompt" /\ ~ skip /\ answer'[p] = "y" /\ StartCopy(p, file.size)
          BY <4>1, <4>3 DEF AnswerYes, CopyInv, TypeOK
        <5>2. ~ Declined(p)'
          BY <4>0, <5>1 DEF Declined
        <5> QED
          BY <3>2, <4>1, <5>1, <5>2, Begins
      <4>4. CASE AnswerNo(p)
        <5>1. pc[p] = "prompt" /\ file.nlink > 1 /\ answer'[p] = "n" /\ StartCopy(p, 0)
          BY <4>4 DEF AnswerNo, CopyInv, TypeOK
        <5>2. Declined(p)'
          BY <4>0, <5>1 DEF Declined
        <5> QED
          BY <3>2, <4>1, <5>1, <5>2, Begins
      <4> QED
        BY <3>5, <4>2, <4>3, <4>4 DEF User
    <3>6. ASSUME CopyBlock(p)
          PROVE  CopyInv(p)'
      BY <3>2, <3>6, Copies
    <3>7. ASSUME NextExtent(p)
          PROVE  CopyInv(p)'
      BY <3>2, <3>7, Advances
    <3>8. ASSUME FlushBuffer(p) \/ CopyFails(p) \/ Close(p) \/ Kill(p)
          PROVE  CopyInv(p)'
      BY <3>2, <3>8, Empties
    <3>9. CopyInv(p)'
      BY <3>1, <3>4, <3>5, <3>6, <3>7, <3>8 DEF Proceed
    <3> QED
      BY <3>3, <3>9
  <2> QED
    BY <2>1, <2>2
<1> QED
  BY <1>1, <1>2, TypeCorrect, PTL DEF Spec, Inv

(* What an invocation has written is a beginning of the file, in order and *)
(* without a byte too many, whenever it fails or is killed                 *)
(* (recover.c:586-636).                                                    *)
THEOREM OutputIsBeginning == Spec => []OutputIsPrefix
<1>1. Inv => OutputIsPrefix
  <2> SUFFICES ASSUME Inv, NEW p \in Procs, NEW n \in 1 .. Len(Chunks(p))
               PROVE  IsChunk(n, Chunks(p)[n]) =>
                        \E e \in 1 .. Len(file.extents) :
                          LET offset == n - 1 - BlocksBefore(e - 1) IN
                          /\ offset \in 0 .. file.extents[e].len - 1
                          /\ (n - 1) * BlockSize < file.size
                          /\ Chunks(p)[n].block = file.extents[e].phys_block_num + offset
                          /\ Chunks(p)[n].bytes =
                               IF n * BlockSize <= file.size THEN BlockSize
                                                             ELSE file.size % BlockSize
    BY DEF Inv, CopyInv, OutputIsPrefix, IsOutput, Chunks
  <2>1. ASSUME NEW e \in 1 .. Len(file.extents)
        PROVE  Before[e - 1] = BlocksBefore(e - 1)
    <3>1. e - 1 \in 0 .. Len(file.extents)
      BY FileTyped DEF Inv
    <3> QED
      BY <3>1 DEF Before
  <2> QED
    BY <2>1 DEF IsChunk
<1> QED
  BY <1>1, InvHolds, PTL

LEMMA WholeIs ==
  ASSUME TypeOK, NEW p \in Procs, Whole(p, Len(Chunks(p)))
  PROVE  IsWhole(p)
<1>1. Before[Len(file.extents)] = BlocksBefore(Len(file.extents))
  <2>1. Len(file.extents) \in 0 .. Len(file.extents)
    BY FileTyped
  <2> QED
    BY <2>1 DEF Before
<1> QED
  BY <1>1 DEF Whole, IsWhole, Chunks

(* An invocation that comes to its end has written every block that the    *)
(* extents hold of the file, or nothing, but only where it was declined.   *)
(* What fclose() then loses of it is in buffer (recover.c:551-662).        *)
THEOREM DoneMeansWhole == Spec => []DoneIsWhole
<1>1. Inv => DoneIsWhole
  BY WholeIs DEF Inv, CopyInv, DoneIsWhole
<1> QED
  BY <1>1, InvHolds, PTL

(* Whatever runs beside it, an invocation puts at the target name, and     *)
(* over the file that was there, the file it has itself created, with all  *)
(* it copies (recover.c:196, 648).                                         *)
THEOREM OnlyWholeReplaces == Spec => ReplacesOnlyByWhole
<1>1. Inv /\ OwnsTemp /\ [Next]_vars =>
        [\A p \in Procs : dir'.target = p /\ dir.target # p => IsWhole(p)]_vars
  <2> SUFFICES ASSUME Inv, OwnsTemp, Next, NEW p \in Procs, dir'.target = p, dir.target # p
               PROVE  IsWhole(p)
    OBVIOUS
  <2>1. PICK q \in Procs : Proceed(q) \/ User(q) \/ FlushBuffer(q) \/ Kill(q)
    BY DEF Next
  <2>2. ASSUME CreateTemp(q)
        PROVE  FALSE
    <3>1. dir'.target = dir.target
      BY <2>2 DEF CreateTemp, Inv, TypeOK
    <3> QED
      BY <3>1
  <2>3. dir' # dir
    OBVIOUS
  <2>4. Rename(q)
    BY <2>1, <2>2, <2>3 DEF Proceed, CannotCreateTemp, UseStdout, Locate, CannotLocate,
       GetSize, User, AnswerYes, AnswerNo, StartCopy, CopyBlock, NextExtent, OutOfExtents,
       FlushBuffer, CopyFails, Close, CloseFails, Kill
  <2>5. q \notin stdout /\ pc[q] = "rename" /\ dir' = [temp |-> NONE, target |-> dir.temp]
    BY <2>3, <2>4 DEF Rename
  <2>6. dir.temp = q
    BY <2>5 DEF OwnsTemp
  <2>7. IsWhole(q)
    BY <2>5, WholeIs DEF Inv, CopyInv
  <2>8. dir'.target = q
    BY <2>5, <2>6
  <2> QED
    BY <2>7, <2>8
<1> QED
  BY <1>1, InvHolds, TempIsOwned, PTL DEF Spec, ReplacesOnlyByWhole

=============================================================================
