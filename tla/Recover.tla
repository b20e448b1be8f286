------------------------------- MODULE Recover -------------------------------
(***************************************************************************)
(* What cmd_recover() does to the file system it writes to (src/src/       *)
(* commands/recover.c:163-234 and 536-663): the temporary file is created  *)
(* exclusively, before anything is looked up; the extents of the file are  *)
(* copied into it block by block through a stdio buffer; it is renamed to  *)
(* the target name; and the stream is closed, which writes what is still   *)
(* in the buffer.  Several invocations with the same --output may run, one *)
(* after another or at the same time, and each may fail or be killed.      *)
(*                                                                         *)
(* Finding the file in the container (recover.c:236-535) appears as        *)
(* Locate or one of its failures.  With --output -, which is the default,  *)
(* nothing is created: the file goes to the standard output, unbuffered.   *)
(***************************************************************************)
EXTENDS Integers, Sequences, XFields

CONSTANTS
  Procs,       \* the invocations
  Files,       \* the files there may be to recover
  BlockSize,   \* globals.block_size
  OldFile,     \* a file that is at the target name beforehand
  Piped,       \* which of the invocations may have --output -
  NONE         \* no file

(* The records of the file: its inode, with the link count, and its        *)
(* extents in key order, lengths in blocks.  size is what the file had     *)
(* when these records were written; the code does not see it.              *)
Extent == [phys_block_num : Nat, len : Nat]
File ==
  [size : Nat, inode : Inode \union {NONE}, nlink : Nat, extents : Seq(Extent)]

ASSUME ProcAssumption == OldFile \notin Procs /\ NONE \notin Procs \union {OldFile}
ASSUME BlockSizeAssumption == BlockSize \in Nat \ {0}
ASSUME FileAssumption == Files \subseteq File
ASSUME SizeAssumption ==
  \A f \in Files : IF f.inode = NONE THEN f.size = 0 ELSE HoldsSize(f.inode, f.size)
ASSUME PipedAssumption == Piped \subseteq SUBSET Procs

(* A piece of output: the block it was read from and the bytes taken.      *)
Chunk == [block : Nat, bytes : 0 .. BlockSize]

VARIABLES
  file,        \* the file asked for
  skip,        \* --skip-multilinked-inodes
  stdout,      \* the invocations with --output -
  dir,         \* the directory: which file has the temporary name, the target name
  content,     \* what each process has written: to the file it has created, or to stdout
  pc,          \* where each invocation is
  answer,      \* what the user has answered to the question, if it was asked
  remaining,   \* bytes_remaining
  extent,      \* the extent being copied
  index,       \* and the block within it
  buffer       \* what stdio holds back

given == <<file, skip, stdout>>
local == <<answer, remaining, extent, index, buffer>>
vars == <<given, dir, content, pc, local>>

Init ==
  /\ file \in Files
  /\ skip \in BOOLEAN
  /\ stdout \in Piped
  /\ dir \in {[temp |-> NONE, target |-> t] : t \in {NONE, OldFile}}
  /\ content = [p \in Procs |-> <<>>]
  /\ pc = [p \in Procs |-> "start"]
  /\ answer = [p \in Procs |-> "none"]
  /\ remaining = [p \in Procs |-> 0]
  /\ extent = [p \in Procs |-> 1]
  /\ index = [p \in Procs |-> 0]
  /\ buffer = [p \in Procs |-> <<>>]

Goto(p, label) == pc' = [pc EXCEPT ![p] = label]

(* Mutant: open() without O_EXCL.                                          *)
CreateTempAnyway(p) ==
  /\ pc[p] = "start" /\ p \notin stdout
  /\ dir' = [dir EXCEPT !.temp = p]
  /\ Goto(p, "locate")
  /\ UNCHANGED <<given, content, local>>

(* open() with O_CREAT | O_EXCL.                                           *)
CreateTemp(p) ==
  /\ pc[p] = "start" /\ p \notin stdout
  /\ dir.temp = NONE
  /\ dir' = [dir EXCEPT !.temp = p]
  /\ Goto(p, "locate")
  /\ UNCHANGED <<given, content, local>>

(* Mutant: an error is reported, but the command goes on.                  *)
CannotCreateTempGoesOn(p) ==
  /\ pc[p] = "start" /\ p \notin stdout
  /\ Goto(p, "locate")
  /\ UNCHANGED <<given, dir, content, local>>

(* EEXIST, or any other error: nothing is left behind.                     *)
CannotCreateTemp(p) ==
  /\ pc[p] = "start" /\ p \notin stdout
  /\ Goto(p, "ended")
  /\ UNCHANGED <<given, dir, content, local>>

UseStdout(p) ==
  /\ pc[p] = "start" /\ p \in stdout
  /\ Goto(p, "locate")
  /\ UNCHANGED <<given, dir, content, local>>

(* The container opens, mounts, and the path leads to the file.            *)
Locate(p) ==
  /\ pc[p] = "locate"
  /\ Goto(p, IF file.nlink > 1 /\ ~skip THEN "prompt" ELSE "size")
  /\ UNCHANGED <<given, dir, content, local>>

(* It does not: the command returns, or dies of a record array that is     *)
(* NULL, leaving the temporary file.                                       *)
CannotLocate(p) ==
  /\ pc[p] = "locate"
  /\ Goto(p, "ended")
  /\ UNCHANGED <<given, dir, content, local>>

(* bytes_remaining is set to the size; an empty file needs no copying.     *)
StartCopy(p, size) ==
  /\ remaining' = [remaining EXCEPT ![p] = size]
  /\ Goto(p, IF size = 0 THEN "rename" ELSE "copy")
  /\ UNCHANGED <<given, dir, content, extent, index, buffer>>

(* Without an inode record the size stays 0.                               *)
file_size == IF file.inode = NONE THEN 0 ELSE get_file_size(file.inode)

(* "This inode is multilinked. Do you still want to recover the file data?"*)
(* Any other input asks again; at end of file it asks for ever.            *)
AnswerYes(p) ==
  /\ pc[p] = "prompt"
  /\ answer' = [answer EXCEPT ![p] = "y"]
  /\ StartCopy(p, file_size)

AnswerNo(p) ==
  /\ pc[p] = "prompt"
  /\ answer' = [answer EXCEPT ![p] = "n"]
  /\ StartCopy(p, 0)

GetSize(p) ==
  /\ pc[p] = "size"
  /\ StartCopy(p, IF file.nlink > 1 THEN 0 ELSE file_size)
  /\ UNCHANGED answer

CurrentExtent(p) == file.extents[extent[p]]

(* fwrite(): by way of the buffer, unless stdout is written to.            *)
Write(p, chunk) ==
  IF p \in stdout
    THEN content' = [content EXCEPT ![p] = Append(@, chunk)] /\ UNCHANGED buffer
    ELSE buffer' = [buffer EXCEPT ![p] = Append(@, chunk)] /\ UNCHANGED content

(* Mutant: always a whole block.                                           *)
CopyWholeBlock(p) ==
  /\ pc[p] = "copy"
  /\ extent[p] <= Len(file.extents)
  /\ index[p] < CurrentExtent(p).len
  /\ Write(p, [block |-> CurrentExtent(p).phys_block_num + index[p], bytes |-> BlockSize])
  /\ remaining' = [remaining EXCEPT ![p] = @ - BlockSize]
  /\ index' = [index EXCEPT ![p] = @ + 1]
  /\ Goto(p, IF remaining'[p] = 0 THEN "rename" ELSE "copy")
  /\ UNCHANGED <<given, dir, extent, answer>>

(* read_blocks() and fwrite() of one block.                                *)
CopyBlock(p) ==
  /\ pc[p] = "copy"
  /\ extent[p] <= Len(file.extents)
  /\ index[p] < CurrentExtent(p).len
  /\ LET bytes_to_write == IF remaining[p] < BlockSize THEN remaining[p] ELSE BlockSize IN
       /\ Write(p, [block |-> CurrentExtent(p).phys_block_num + index[p],
                    bytes |-> bytes_to_write])
       /\ remaining' = [remaining EXCEPT ![p] = @ - bytes_to_write]
  /\ index' = [index EXCEPT ![p] = @ + 1]
  /\ Goto(p, IF remaining'[p] = 0 THEN "rename" ELSE "copy")
  /\ UNCHANGED <<given, dir, extent, answer>>

(* Mutant: the next extent is not started from its first block.            *)
NextExtentSameIndex(p) ==
  /\ pc[p] = "copy"
  /\ extent[p] <= Len(file.extents)
  /\ index[p] >= CurrentExtent(p).len
  /\ extent' = [extent EXCEPT ![p] = @ + 1]
  /\ UNCHANGED <<given, dir, content, pc, remaining, index, buffer, answer>>

NextExtent(p) ==
  /\ pc[p] = "copy"
  /\ extent[p] <= Len(file.extents)
  /\ index[p] >= CurrentExtent(p).len
  /\ extent' = [extent EXCEPT ![p] = @ + 1]
  /\ index' = [index EXCEPT ![p] = 0]
  /\ UNCHANGED <<given, dir, content, pc, remaining, buffer, answer>>

(* Mutant: the loop goes on until all bytes are written.                   *)
OutOfExtentsAndBytes(p) ==
  /\ pc[p] = "copy"
  /\ extent[p] > Len(file.extents)
  /\ remaining[p] = 0
  /\ Goto(p, "rename")
  /\ UNCHANGED <<given, dir, content, local>>

(* No extent is left.  Whether any bytes are still missing is not asked.   *)
OutOfExtents(p) ==
  /\ pc[p] = "copy"
  /\ extent[p] > Len(file.extents)
  /\ Goto(p, "rename")
  /\ UNCHANGED <<given, dir, content, local>>

(* stdio writes its buffer when it is full, at fclose() and at exit.       *)
Written(p) == content' = [content EXCEPT ![p] = @ \o buffer[p]]
Emptied(p) == buffer' = [buffer EXCEPT ![p] = <<>>]

FlushBuffer(p) ==
  /\ pc[p] = "copy"
  /\ buffer[p] # <<>>
  /\ Written(p)
  /\ Emptied(p)
  /\ UNCHANGED <<given, dir, pc, remaining, extent, index, answer>>

(* A block cannot be read, or fwrite() fails: return -1, and exit() writes *)
(* the buffer out, if it can.                                              *)
CopyFails(p) ==
  /\ pc[p] = "copy"
  /\ extent[p] <= Len(file.extents)
  /\ index[p] < CurrentExtent(p).len
  /\ Written(p) \/ UNCHANGED content
  /\ Emptied(p)
  /\ Goto(p, "ended")
  /\ UNCHANGED <<given, dir, remaining, extent, index, answer>>

(* rename(): whatever has the temporary name takes the target name, and    *)
(* what had the target name is lost.  With --output - it is called, too,   *)
(* and fails for the lack of a name.                                       *)
Rename(p) ==
  /\ pc[p] = "rename"
  /\ dir' = IF p \in stdout \/ dir.temp = NONE THEN dir ELSE [temp |-> NONE, target |-> dir.temp]
  /\ Goto(p, "close")
  /\ UNCHANGED <<given, content, local>>

(* fclose(); its result is not looked at.                                  *)
Close(p) ==
  /\ pc[p] = "close"
  /\ Written(p)
  /\ Emptied(p)
  /\ Goto(p, "done")
  /\ UNCHANGED <<given, dir, remaining, extent, index, answer>>

(* The last write fails: what was in the buffer is lost, the run goes on   *)
(* and returns 0.  After this, buffer is the part that was lost.           *)
CloseFails(p) ==
  /\ pc[p] = "close"
  /\ buffer[p] # <<>>
  /\ Goto(p, "done")
  /\ UNCHANGED <<given, dir, content, local>>

(* The process is killed; its buffer goes with it.                         *)
Kill(p) ==
  /\ pc[p] \notin {"done", "ended"}
  /\ Emptied(p)
  /\ Goto(p, "ended")
  /\ UNCHANGED <<given, dir, content, remaining, extent, index, answer>>

Proceed(p) ==
  \/ CreateTemp(p)
  \/ CannotCreateTemp(p)
  \/ UseStdout(p)
  \/ Locate(p)
  \/ CannotLocate(p)
  \/ GetSize(p)
  \/ CopyBlock(p)
  \/ NextExtent(p)
  \/ OutOfExtents(p)
  \/ CopyFails(p)
  \/ Rename(p)
  \/ Close(p)
  \/ CloseFails(p)

User(p) == AnswerYes(p) \/ AnswerNo(p)

Next == \E p \in Procs : Proceed(p) \/ User(p) \/ FlushBuffer(p) \/ Kill(p)

Spec == Init /\ [][Next]_vars

(* A command that was started goes on, and its user answers the question.  *)
FairSpec == Spec /\ \A p \in Procs : WF_vars(Proceed(p)) /\ WF_vars(User(p))

-----------------------------------------------------------------------------
(* Properties.                                                             *)

TypeOK ==
  /\ file \in Files
  /\ skip \in BOOLEAN
  /\ stdout \in Piped
  /\ dir \in [temp : Procs \union {NONE}, target : Procs \union {OldFile, NONE}]
  /\ content \in [Procs -> Seq(Chunk)]
  /\ pc \in [Procs -> {"start", "locate", "prompt", "size", "copy", "rename", "close",
                       "done", "ended"}]
  /\ answer \in [Procs -> {"none", "y", "n"}]
  /\ remaining \in [Procs -> Nat]
  /\ extent \in [Procs -> Nat \ {0}]
  /\ index \in [Procs -> Nat]
  /\ buffer \in [Procs -> Seq(Chunk)]

(* Until it has renamed it, an invocation owns the temporary file, however *)
(* many run at once and whichever of them die: it never renames or         *)
(* appends to a file another one has created.  One that writes to its      *)
(* standard output puts nothing into the directory.                        *)
OwnsTemp ==
  /\ \A p \in Procs \ stdout :
       pc[p] \in {"locate", "prompt", "size", "copy", "rename"} => dir.temp = p
  /\ dir.temp \notin stdout /\ dir.target \notin stdout

(* Reference: the output is the blocks of the extents in order, cut off at *)
(* the size of the file.                                                   *)
BlocksBefore(e) ==
  LET upTo[k \in 0 .. Len(file.extents)] ==
        IF k = 0 THEN 0 ELSE upTo[k - 1] + file.extents[k].len
  IN upTo[e]

IsOutput(s) ==
  \A n \in 1 .. Len(s) :
    \E e \in 1 .. Len(file.extents) :
      LET offset == n - 1 - BlocksBefore(e - 1) IN
      /\ offset \in 0 .. file.extents[e].len - 1
      /\ (n - 1) * BlockSize < file.size
      /\ s[n].block = file.extents[e].phys_block_num + offset
      /\ s[n].bytes = IF n * BlockSize <= file.size THEN BlockSize ELSE file.size % BlockSize

(* Every file an invocation has created holds a beginning of that output,  *)
(* whenever the invocation fails or is killed: no block out of order, none *)
(* twice, no byte past the end of the file.                                *)
OutputIsPrefix == \A p \in Procs : IsOutput(content[p] \o buffer[p])

(* An invocation that runs to its end has written all that the extents     *)
(* hold of the file; or nothing instead, but only where there are several  *)
(* links to it and these are skipped or the user has declined.  What       *)
(* counts is what it has given to stdio: if the write at fclose() fails,   *)
(* the bytes in buffer are lost, and the program does not know             *)
(* (recover.c:659-662).                                                    *)
Declined(p) == file.nlink > 1 /\ (skip \/ answer[p] = "n")

IsWhole(p) ==
  LET blocks == BlocksBefore(Len(file.extents)) IN
  Len(content[p] \o buffer[p]) =
    IF Declined(p) THEN 0
    ELSE IF blocks * BlockSize < file.size THEN blocks
    ELSE (file.size + BlockSize - 1) \div BlockSize

DoneIsWhole == \A p \in Procs : pc[p] = "done" => IsWhole(p)

(* The target name is taken, and the file that had it is lost, only by the *)
(* output of an invocation that has come to the end of its copying,        *)
(* whichever invocation calls rename(): not by a file that another one has *)
(* begun meanwhile under the same temporary name (recover.c:196, 648).     *)
ReplacesOnlyByWhole ==
  [][\A p \in Procs : dir'.target = p /\ dir.target # p => IsWhole(p)]_vars

(* The temporary file of an invocation that failed blocks the name for     *)
(* good: the directory never changes again.                                *)
StaleTempBlocks ==
  [][dir.temp \in Procs /\ pc[dir.temp] = "ended" => dir' = dir]_vars

(* Every invocation ends, provided its question is answered.               *)
Terminates == \A p \in Procs : <>(pc[p] \in {"done", "ended"})

(* "Whilst files are being recovered, they are temporarily named           *)
(* `_com.dratapp.recover_<target name>`, and then renamed to               *)
(* `<target name>` once they have been fully recovered."                   *)
(* (docs/commands/recover.md:36-38): the file at the target name has all   *)
(* its bytes, even if the invocation is killed.                            *)
Bytes(s) ==
  LET upTo[n \in 0 .. Len(s)] == IF n = 0 THEN 0 ELSE upTo[n - 1] + s[n].bytes
  IN upTo[Len(s)]

TargetFullyRecovered ==
  dir.target \in Procs /\ file.nlink = 1 => Bytes(content[dir.target]) = file.size

=============================================================================
