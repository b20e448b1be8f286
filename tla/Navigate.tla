------------------------------ MODULE Navigate ------------------------------
(***************************************************************************)
(* How cmd_recover() (src/src/commands/recover.c:475-547) and cmd_list()   *)
(* (src/src/commands/list.c:389-461) come from --path or --fsoid to the    *)
(* records of one object.  A path is followed element by element: among    *)
(* the records of the object reached so far the first directory entry of   *)
(* that name is taken, and the records of the object it refers to replace  *)
(* the ones in hand.                                                       *)
(*                                                                         *)
(* get_fs_records() answers as FsRecords shows it to: with all records of  *)
(* the object, with NULL if there are none, or not at all, when a node on  *)
(* the way to them is lost.                                                *)
(***************************************************************************)
EXTENDS Integers, Sequences

CONSTANTS
  Oid,                \* object IDs
  ROOT_DIR_INO_NUM,
  INVALID,            \* ~0, which as a signed number is -1
  Name,               \* names of directory entries
  EMPTY,              \* the empty path element, as in "/a//b/"
  Volumes,            \* the volumes there may be
  Paths,              \* values of --path
  NONE,               \* no such option
  LOST                \* a search that ends the process

(* What is looked at of a record: whether it is a directory entry, and     *)
(* then its name and the object it refers to.                              *)
Record == [dentry : BOOLEAN, name : Name, file_id : Oid]

ASSUME OidAssumption == {ROOT_DIR_INO_NUM, INVALID} \subseteq Oid /\ ROOT_DIR_INO_NUM # INVALID
ASSUME OptionAssumption == NONE \notin Paths /\ NONE \notin Oid /\ EMPTY \notin Name
ASSUME PathAssumption == Paths \subseteq Seq(Name \union {EMPTY})
ASSUME VolumeAssumption ==
  /\ LOST \notin Seq(Record)
  /\ Volumes \subseteq [Oid -> Seq(Record) \union {LOST}]

VARIABLES
  volume,      \* the answer of get_fs_records() for every object
  path,        \* options.path, or NONE
  option,      \* the value of --fsoid, or NONE
  pos,         \* the number of path elements taken
  fsoid,       \* fsoid, then options.fsoid
  records,     \* fs_records; <<>> stands for NULL
  status       \* where the command is, or how it ended

input == <<volume, path, option>>
vars == <<input, pos, fsoid, records, status>>

(* The argument parser insists on one of the options.                      *)
Init ==
  /\ volume \in Volumes
  /\ path \in Paths \union {NONE}
  /\ option \in (Oid \ {INVALID}) \union {NONE}
  /\ path # NONE \/ option # NONE
  /\ pos = 0
  /\ fsoid = ROOT_DIR_INO_NUM
  /\ records = <<>>
  /\ status = "start"

(* Mutant: the records in hand stay those of the object before.            *)
GetRecordsOnce(o, then) ==
  /\ fsoid' = o
  /\ IF volume[o] = LOST
       THEN status' = "exited" /\ UNCHANGED records
       ELSE status' = then /\ records' = IF records = <<>> THEN volume[o] ELSE records

(* get_fs_records() for object o, then on.                                 *)
GetRecords(o, then) ==
  /\ fsoid' = o
  /\ IF volume[o] = LOST
       THEN status' = "exited" /\ UNCHANGED records
       ELSE status' = then /\ records' = volume[o]

(* --path: begin at the root directory.  It is preferred to --fsoid.       *)
StartAtRoot ==
  /\ status = "start"
  /\ path # NONE
  /\ GetRecords(ROOT_DIR_INO_NUM,
                IF volume[ROOT_DIR_INO_NUM] = <<>> THEN "ended" ELSE "navigating")
  /\ UNCHANGED <<input, pos>>

Element == path[pos + 1]

(* Mutant: the character after a separator is always skipped with it.      *)
SkipTwoElements ==
  /\ status = "navigating"
  /\ pos < Len(path)
  /\ Element = EMPTY
  /\ pos' = pos + 2
  /\ UNCHANGED <<input, fsoid, records, status>>

SkipEmptyElement ==
  /\ status = "navigating"
  /\ pos < Len(path)
  /\ Element = EMPTY
  /\ pos' = pos + 1
  /\ UNCHANGED <<input, fsoid, records, status>>

TakesElement ==
  /\ status = "navigating"
  /\ pos < Len(path)
  /\ Element # EMPTY

(* Mutant: records that are not directory entries are compared as well.    *)
MatchesAnyRecord(i) == records[i].name = Element

Matches(i) == records[i].dentry /\ records[i].name = Element

(* The first matching record leads on.                                     *)
FollowEntry ==
  /\ TakesElement
  /\ \E i \in DOMAIN records :
       /\ Matches(i)
       /\ \A j \in 1 .. i - 1 : ~Matches(j)
       /\ GetRecords(records[i].file_id, "navigating")
  /\ pos' = pos + 1
  /\ UNCHANGED input

(* "END: No dentry found for path"                                         *)
NoMatch ==
  /\ TakesElement
  /\ records # <<>>
  /\ \A i \in DOMAIN records : ~Matches(i)
  /\ status' = "ended"
  /\ UNCHANGED <<input, pos, fsoid, records>>

(* The object before has no records: NULL is walked like an array.         *)
NothingToMatch ==
  /\ TakesElement
  /\ records = <<>>
  /\ status' = "crashed"
  /\ UNCHANGED <<input, pos, fsoid, records>>

(* Mutant: a path that ends in "/" is not taken to its end.                *)
ArriveEarly ==
  /\ status = "navigating"
  /\ \A i \in pos + 1 .. Len(path) - 1 : path[i] = EMPTY
  /\ status' = IF fsoid = INVALID THEN "aborted" ELSE "finding"
  /\ UNCHANGED <<input, pos, fsoid, records>>

(* options.fsoid = fsoid, and assert(options.fsoid != -1).                 *)
Arrive ==
  /\ status = "navigating"
  /\ pos = Len(path)
  /\ status' = IF fsoid = INVALID THEN "aborted" ELSE "finding"
  /\ UNCHANGED <<input, pos, fsoid, records>>

(* --fsoid alone.                                                          *)
StartAtOption ==
  /\ status = "start"
  /\ path = NONE
  /\ fsoid' = option
  /\ status' = "finding"
  /\ UNCHANGED <<input, pos, records>>

(* Mutant: records are not looked up after all.                            *)
FindNoRecords ==
  /\ status = "finding"
  /\ status' = "counting"
  /\ UNCHANGED <<input, pos, fsoid, records>>

(* Records are looked up if there are none in hand, be it a second time.   *)
FindRecords ==
  /\ status = "finding"
  /\ IF records = <<>> THEN GetRecords(fsoid, "counting")
     ELSE status' = "counting" /\ UNCHANGED <<fsoid, records>>
  /\ UNCHANGED <<input, pos>>

(* The records are counted and used; NULL cannot be.                       *)
CountRecords ==
  /\ status = "counting"
  /\ status' = IF records = <<>> THEN "crashed" ELSE "located"
  /\ UNCHANGED <<input, pos, fsoid, records>>

Next ==
  \/ StartAtRoot
  \/ SkipEmptyElement
  \/ FollowEntry
  \/ NoMatch
  \/ NothingToMatch
  \/ Arrive
  \/ StartAtOption
  \/ FindRecords
  \/ CountRecords

Spec == Init /\ [][Next]_vars

-----------------------------------------------------------------------------
(* Properties.                                                             *)

TypeOK ==
  /\ volume \in [Oid -> Seq(Record) \union {LOST}]
  /\ path \in Paths \union {NONE}
  /\ option \in Oid \union {NONE}
  /\ path # NONE \/ option # NONE
  /\ pos \in Nat
  /\ path # NONE => pos <= Len(path)
  /\ fsoid \in Oid
  /\ records \in Seq(Record)
  /\ status \in {"start", "navigating", "finding", "counting", "located",
                 "ended", "exited", "crashed", "aborted"}

(* Object o has, readably, an entry of that name for object t.             *)
HasEntry(o, name, t) ==
  /\ volume[o] # LOST
  /\ \E i \in DOMAIN volume[o] :
       volume[o][i].dentry /\ volume[o][i].name = name /\ volume[o][i].file_id = t

(* The first k elements of the path lead from the root directory to o.     *)
LeadsTo(k, o) ==
  \E walk \in [0 .. k -> Oid] :
    /\ walk[0] = ROOT_DIR_INO_NUM
    /\ walk[k] = o
    /\ \A n \in 1 .. k :
         IF path[n] = EMPTY THEN walk[n] = walk[n - 1]
         ELSE HasEntry(walk[n - 1], path[n], walk[n])

(* What is listed or recovered are the records of the object asked for:    *)
(* the one that the whole path leads to, or else --fsoid.                  *)
LocatesNamedObject ==
  status = "located" =>
    /\ records = volume[fsoid] /\ records # <<>>
    /\ IF path # NONE THEN LeadsTo(Len(path), fsoid) ELSE fsoid = option

UniqueNames ==
  \A o \in Oid : volume[o] # LOST =>
    \A i, j \in DOMAIN volume[o] :
      volume[o][i].dentry /\ volume[o][j].dentry /\ volume[o][i].name = volume[o][j].name => i = j

(* "END: No dentry found" is said only where the path leads nowhere.       *)
(* Claimed of volumes whose directories have no name twice: if they do,    *)
(* only the first entry is tried.                                          *)
EndsOnlyIfAbsent ==
  status = "ended" /\ UniqueNames =>
    volume[ROOT_DIR_INO_NUM] = <<>> \/ \A o \in Oid : ~LeadsTo(Len(path), o)

(* The command dies of a NULL array, or of the assertion, only in the      *)
(* object the options or a directory entry have led it to, and only if     *)
(* there are no records of it or it is no object at all.                   *)
DiesOnlyOfDangling ==
  status \in {"crashed", "aborted"} =>
    /\ status = "crashed" => volume[fsoid] = <<>>
    /\ status = "aborted" => fsoid = INVALID
    /\ IF path # NONE THEN \E k \in 1 .. Len(path) : LeadsTo(k, fsoid) ELSE fsoid = option

=============================================================================
