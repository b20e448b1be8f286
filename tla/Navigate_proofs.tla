--------------------------- MODULE Navigate_proofs ---------------------------
(***************************************************************************)
(* Proofs about Navigate, for every volume and every path.  The invariant  *)
(* says where the walk along the path stands: the object in hand is at the *)
(* end of a walk over the elements taken, and its records are in hand.     *)
(***************************************************************************)
EXTENDS Navigate, TLAPS

(* The object in hand is the one the path has led to so far, and the       *)
(* records are its own, not those of a directory left behind -- also when  *)
(* elements are empty, when the last one is, and when --fsoid is given too *)
(* (recover.c:487-525).                                                    *)
FollowsPath ==
  path # NONE /\ status \notin {"start", "exited"} =>
    LeadsTo(pos, fsoid) /\ records = volume[fsoid]

(* Of an empty object the directory entry of no name leads anywhere, so    *)
(* that any command that goes beyond the root has found records there.     *)
RootNotEmpty ==
  path # NONE /\ status \notin {"start", "ended", "exited"} => volume[ROOT_DIR_INO_NUM] # <<>>

(* With --fsoid alone nothing is in hand until it is looked up.            *)
OptionInHand ==
  path = NONE =>
    /\ status \in {"start", "finding", "counting", "located", "exited", "crashed"}
    /\ status \in {"start", "finding"} => records = <<>>
    /\ status # "start" => fsoid = option
    /\ status \in {"counting", "located", "crashed"} => records = volume[fsoid]

(* Beyond the navigation the path is used up.                              *)
PathTaken ==
  path # NONE /\ status \in {"finding", "counting", "located"} => pos = Len(path)

Outcome ==
  /\ status \in {"located"} => records # <<>>
  /\ status = "crashed" => records = <<>>
  /\ status = "aborted" => fsoid = INVALID

NothingTaken == status = "start" => pos = 0

IInv ==
  /\ TypeOK
  /\ FollowsPath
  /\ RootNotEmpty
  /\ OptionInHand
  /\ PathTaken
  /\ Outcome
  /\ NothingTaken

-----------------------------------------------------------------------------
(* Types.                                                                  *)

LEMMA AnswerType ==
  ASSUME TypeOK, NEW o \in Oid, volume[o] # LOST
  PROVE  volume[o] \in Seq(Record)
BY DEF TypeOK

(* A record that is followed refers to an object.                          *)
LEMMA TargetType ==
  ASSUME TypeOK, NEW i \in DOMAIN records
  PROVE  records[i].file_id \in Oid
<1>1. records \in Seq(Record)
  BY DEF TypeOK
<1>2. records[i] \in Record
  BY <1>1
<1> QED
  BY <1>2 DEF Record

LEMMA GetRecordsType ==
  ASSUME TypeOK, NEW o \in Oid, NEW then, GetRecords(o, then)
  PROVE  fsoid' \in Oid /\ records' \in Seq(Record) /\ status' \in {then, "exited"}
BY AnswerType DEF GetRecords, TypeOK

LEMMA TypeStep == TypeOK /\ [Next]_vars => TypeOK'
<1> SUFFICES ASSUME TypeOK, [Next]_vars PROVE TypeOK'
  OBVIOUS
<1> USE DEF input
<1>1. CASE StartAtRoot
  <2>1. fsoid' \in Oid /\ records' \in Seq(Record)
          /\ status' \in {"ended", "navigating", "exited"}
    BY <1>1, GetRecordsType, OidAssumption DEF StartAtRoot
  <2> QED
    BY <1>1, <2>1 DEF StartAtRoot, TypeOK
<1>2. CASE SkipEmptyElement
  <2>1. path \in Seq(Name \union {EMPTY}) \/ path = NONE
    BY PathAssumption DEF TypeOK
  <2>2. path # NONE => Len(path) \in Nat
    BY <2>1
  <2> QED
    BY <1>2, <2>2 DEF SkipEmptyElement, TypeOK
<1>3. CASE FollowEntry
  <2>1. fsoid' \in Oid /\ records' \in Seq(Record) /\ status' \in {"navigating", "exited"}
    BY <1>3, GetRecordsType, TargetType DEF FollowEntry
  <2>2. path # NONE => Len(path) \in Nat
    BY PathAssumption DEF TypeOK
  <2>3. pos' = pos + 1 /\ pos < Len(path) /\ UNCHANGED <<volume, path, option>>
    BY <1>3 DEF FollowEntry, TakesElement
  <2> QED
    BY <2>1, <2>2, <2>3 DEF TypeOK
<1>4. CASE NoMatch
  BY <1>4 DEF NoMatch, TypeOK
<1>5. CASE NothingToMatch
  BY <1>5 DEF NothingToMatch, TypeOK
<1>6. CASE Arrive
  BY <1>6 DEF Arrive, TypeOK
<1>7. CASE StartAtOption
  BY <1>7 DEF StartAtOption, TypeOK
<1>8. CASE FindRecords
  <2>1. fsoid' \in Oid /\ records' \in Seq(Record) /\ status' \in {"counting", "exited"}
    <3>1. fsoid \in Oid
      BY DEF TypeOK
    <3> QED
      BY <1>8, <3>1, GetRecordsType DEF FindRecords, TypeOK
  <2> QED
    BY <1>8, <2>1 DEF FindRecords, TypeOK
<1>9. CASE CountRecords
  BY <1>9 DEF CountRecords, TypeOK
<1>10. CASE UNCHANGED vars
  BY <1>10 DEF vars, TypeOK
<1> QED
  BY <1>1, <1>2, <1>3, <1>4, <1>5, <1>6, <1>7, <1>8, <1>9, <1>10 DEF Next

LEMMA TypeInit == Init => TypeOK
<1> SUFFICES ASSUME Init PROVE TypeOK
  OBVIOUS
<1>1. path # NONE => Len(path) \in Nat
  BY PathAssumption DEF Init
<1> QED
  BY <1>1, OidAssumption, VolumeAssumption DEF Init, TypeOK

(* The types of the navigation (recover.c:475-547).                        *)
THEOREM TypeCorrect == Spec => []TypeOK
BY TypeInit, TypeStep, PTL DEF Spec

-----------------------------------------------------------------------------
(* Walks.                                                                  *)

(* Where a walk over k elements ends, an empty element or an entry leads   *)
(* to the end of a walk over k + 1.                                        *)
LEMMA WalkExtends ==
  ASSUME NEW k \in Nat, NEW o \in Oid, NEW t \in Oid, LeadsTo(k, o),
         IF path[k + 1] = EMPTY THEN t = o ELSE HasEntry(o, path[k + 1], t)
  PROVE  LeadsTo(k + 1, t)
<1>1. PICK walk \in [0 .. k -> Oid] :
        /\ walk[0] = ROOT_DIR_INO_NUM
        /\ walk[k] = o
        /\ \A n \in 1 .. k :
             IF path[n] = EMPTY THEN walk[n] = walk[n - 1]
             ELSE HasEntry(walk[n - 1], path[n], walk[n])
  BY DEF LeadsTo
<1> DEFINE longer == [n \in 0 .. k + 1 |-> IF n = k + 1 THEN t ELSE walk[n]]
<1>2. longer \in [0 .. k + 1 -> Oid] /\ longer[0] = ROOT_DIR_INO_NUM /\ longer[k + 1] = t
  BY <1>1
<1>3. \A n \in 0 .. k : longer[n] = walk[n]
  OBVIOUS
<1>4. ASSUME NEW n \in 1 .. k + 1
      PROVE  IF path[n] = EMPTY THEN longer[n] = longer[n - 1]
             ELSE HasEntry(longer[n - 1], path[n], longer[n])
  <2>1. CASE n = k + 1
    <3>1. longer[n - 1] = o /\ longer[n] = t
      BY <1>1, <1>2, <1>3, <2>1
    <3> QED
      BY <2>1, <3>1
  <2>2. CASE n \in 1 .. k
    <3>1. longer[n - 1] = walk[n - 1] /\ longer[n] = walk[n]
      BY <1>3, <2>2
    <3> QED
      BY <1>1, <2>2, <3>1
  <2> QED
    BY <2>1, <2>2
<1> HIDE DEF longer
<1> QED
  BY <1>2, <1>4 DEF LeadsTo

(* What a walk over k + 1 elements leads to is one element on from what    *)
(* one over k leads to.                                                    *)
LEMMA WalkShortens ==
  ASSUME NEW k \in Nat, NEW t \in Oid, LeadsTo(k + 1, t)
  PROVE  \E o \in Oid :
           /\ LeadsTo(k, o)
           /\ IF path[k + 1] = EMPTY THEN t = o ELSE HasEntry(o, path[k + 1], t)
<1>1. PICK walk \in [0 .. k + 1 -> Oid] :
        /\ walk[0] = ROOT_DIR_INO_NUM
        /\ walk[k + 1] = t
        /\ \A n \in 1 .. k + 1 :
             IF path[n] = EMPTY THEN walk[n] = walk[n - 1]
             ELSE HasEntry(walk[n - 1], path[n], walk[n])
  BY DEF LeadsTo
<1> DEFINE shorter == [n \in 0 .. k |-> walk[n]]
<1>2. shorter \in [0 .. k -> Oid] /\ \A n \in 0 .. k : shorter[n] = walk[n]
  BY <1>1
<1>3. \A n \in 1 .. k :
        IF path[n] = EMPTY THEN shorter[n] = shorter[n - 1]
        ELSE HasEntry(shorter[n - 1], path[n], shorter[n])
  <2> SUFFICES ASSUME NEW n \in 1 .. k
               PROVE  IF path[n] = EMPTY THEN shorter[n] = shorter[n - 1]
                      ELSE HasEntry(shorter[n - 1], path[n], shorter[n])
    OBVIOUS
  <2>1. shorter[n - 1] = walk[n - 1] /\ shorter[n] = walk[n]
    BY <1>2
  <2> QED
    BY <1>1, <2>1
<1>4. shorter[0] = ROOT_DIR_INO_NUM /\ shorter[k] = walk[k] /\ walk[k] \in Oid
  BY <1>1, <1>2
<1> HIDE DEF shorter
<1>5. LeadsTo(k, walk[k])
  BY <1>2, <1>3, <1>4 DEF LeadsTo
<1>6. IF path[k + 1] = EMPTY THEN t = walk[k] ELSE HasEntry(walk[k], path[k + 1], t)
  BY <1>1
<1> QED
  BY <1>4, <1>5, <1>6

(* A walk over k elements has led somewhere after j of them.               *)
LEMMA WalkPasses ==
  ASSUME NEW k \in Nat, NEW j \in 0 .. k, NEW t \in Oid, LeadsTo(k, t)
  PROVE  \E o \in Oid : LeadsTo(j, o)
<1>1. PICK walk \in [0 .. k -> Oid] :
        /\ walk[0] = ROOT_DIR_INO_NUM
        /\ \A n \in 1 .. k :
             IF path[n] = EMPTY THEN walk[n] = walk[n - 1]
             ELSE HasEntry(walk[n - 1], path[n], walk[n])
  BY DEF LeadsTo
<1> DEFINE shorter == [n \in 0 .. j |-> walk[n]]
<1>2. shorter \in [0 .. j -> Oid] /\ \A n \in 0 .. j : shorter[n] = walk[n]
  BY <1>1
<1>3. \A n \in 1 .. j :
        IF path[n] = EMPTY THEN shorter[n] = shorter[n - 1]
        ELSE HasEntry(shorter[n - 1], path[n], shorter[n])
  <2> SUFFICES ASSUME NEW n \in 1 .. j
               PROVE  IF path[n] = EMPTY THEN shorter[n] = shorter[n - 1]
                      ELSE HasEntry(shorter[n - 1], path[n], shorter[n])
    OBVIOUS
  <2>1. shorter[n - 1] = walk[n - 1] /\ shorter[n] = walk[n]
    BY <1>2
  <2> QED
    BY <1>1, <2>1
<1>4. shorter[0] = ROOT_DIR_INO_NUM /\ shorter[j] \in Oid
  BY <1>1, <1>2
<1> HIDE DEF shorter
<1> QED
  BY <1>2, <1>3, <1>4 DEF LeadsTo

(* Before the first element there is only the root directory.              *)
LEMMA WalkBegins == \A o \in Oid : LeadsTo(0, o) <=> o = ROOT_DIR_INO_NUM
<1> SUFFICES ASSUME NEW o \in Oid PROVE LeadsTo(0, o) <=> o = ROOT_DIR_INO_NUM
  OBVIOUS
<1>1. ASSUME o = ROOT_DIR_INO_NUM PROVE LeadsTo(0, o)
  <2> DEFINE walk == [n \in 0 .. 0 |-> o]
  <2>1. walk \in [0 .. 0 -> Oid] /\ walk[0] = o
    OBVIOUS
  <2> HIDE DEF walk
  <2> QED
    BY <1>1, <2>1 DEF LeadsTo
<1>2. ASSUME LeadsTo(0, o) PROVE o = ROOT_DIR_INO_NUM
  BY <1>2 DEF LeadsTo
<1> QED
  BY <1>1, <1>2

(* No step changes what leads where.                                       *)
LEMMA FollowsAfterStep ==
  ASSUME UNCHANGED input,
         path # NONE /\ status' \notin {"start", "exited"} =>
           LeadsTo(pos', fsoid') /\ records' = volume[fsoid']
  PROVE  FollowsPath'
BY DEF FollowsPath, LeadsTo, HasEntry, input

-----------------------------------------------------------------------------
(* The invariant.                                                          *)

LEMMA InvInit == Init => IInv
<1> SUFFICES ASSUME Init PROVE IInv
  OBVIOUS
<1>1. status = "start" /\ records = <<>> /\ pos = 0
  BY DEF Init
<1> QED
  BY <1>1, TypeInit
     DEF IInv, FollowsPath, RootNotEmpty, OptionInHand, PathTaken, Outcome, NothingTaken

LEMMA FollowsStep == IInv /\ Next => FollowsPath'
<1> SUFFICES ASSUME IInv, Next PROVE FollowsPath'
  OBVIOUS
<1>1. UNCHANGED input
  BY DEF Next, StartAtRoot, SkipEmptyElement, FollowEntry, NoMatch, NothingToMatch, Arrive,
         StartAtOption, FindRecords, CountRecords
<1>2. ASSUME path # NONE, status' \notin {"start", "exited"}
      PROVE  LeadsTo(pos', fsoid') /\ records' = volume[fsoid']
  <2>1. fsoid \in Oid /\ pos \in Nat
    BY DEF IInv, TypeOK
  <2>2. CASE StartAtRoot
    <3>1. pos' = pos /\ fsoid' = ROOT_DIR_INO_NUM /\ records' = volume[fsoid']
      BY <1>2, <2>2 DEF StartAtRoot, GetRecords
    <3>2. pos = 0
      BY <2>2 DEF StartAtRoot, IInv, NothingTaken
    <3> QED
      BY <3>1, <3>2, WalkBegins, OidAssumption
  <2>3. CASE SkipEmptyElement
    <3>1. path[pos + 1] = EMPTY /\ pos' = pos + 1 /\ fsoid' = fsoid /\ records' = records
            /\ status = "navigating"
      BY <2>3 DEF SkipEmptyElement, Element
    <3>2. LeadsTo(pos, fsoid) /\ records = volume[fsoid]
      BY <1>2, <3>1 DEF IInv, FollowsPath
    <3> QED
      BY <2>1, <3>1, <3>2, WalkExtends
  <2>4. CASE FollowEntry
    <3>1. PICK i \in DOMAIN records :
            Matches(i) /\ GetRecords(records[i].file_id, "navigating")
      BY <2>4 DEF FollowEntry
    <3>2. status = "navigating" /\ path[pos + 1] # EMPTY /\ pos' = pos + 1
      BY <2>4 DEF FollowEntry, TakesElement, Element
    <3>3. LeadsTo(pos, fsoid) /\ records = volume[fsoid]
      BY <1>2, <3>2 DEF IInv, FollowsPath
    <3>4. fsoid' = records[i].file_id /\ records' = volume[fsoid']
      BY <1>2, <3>1 DEF GetRecords
    <3>5. fsoid' \in Oid
      BY <3>4, TargetType DEF IInv
    <3>6. HasEntry(fsoid, path[pos + 1], fsoid')
      <4>1. records \in Seq(Record)
        BY DEF IInv, TypeOK
      <4> QED
        BY <3>1, <3>3, <3>4, <4>1, VolumeAssumption DEF HasEntry, Matches, Element
    <3> QED
      BY <2>1, <3>2, <3>3, <3>4, <3>5, <3>6, WalkExtends
  <2>5. CASE NoMatch \/ NothingToMatch \/ Arrive \/ CountRecords
    <3>1. UNCHANGED <<pos, fsoid, records>> /\ status \notin {"start", "exited"}
      BY <2>5 DEF NoMatch, NothingToMatch, Arrive, CountRecords, TakesElement
    <3> QED
      BY <1>2, <3>1 DEF IInv, FollowsPath
  <2>6. CASE FindRecords
    <3>1. fsoid' = fsoid /\ pos' = pos /\ records' = volume[fsoid]
      BY <1>2, <2>6 DEF FindRecords, GetRecords, IInv, FollowsPath
    <3>2. LeadsTo(pos, fsoid)
      BY <1>2, <2>6 DEF FindRecords, IInv, FollowsPath
    <3> QED
      BY <3>1, <3>2
  <2>7. ~StartAtOption
    BY <1>2 DEF StartAtOption
  <2> QED
    BY <2>2, <2>3, <2>4, <2>5, <2>6, <2>7 DEF Next
<1> QED
  BY <1>1, <1>2, FollowsAfterStep

(* The other parts of the invariant.                                       *)
LEMMA OthersStep ==
  IInv /\ Next => (RootNotEmpty /\ OptionInHand /\ PathTaken /\ Outcome /\ NothingTaken)'
<1> SUFFICES ASSUME IInv, Next
             PROVE  (RootNotEmpty /\ OptionInHand /\ PathTaken /\ Outcome /\ NothingTaken)'
  OBVIOUS
<1> USE DEF IInv, RootNotEmpty, OptionInHand, PathTaken, Outcome, NothingTaken, input, GetRecords
<1>1. CASE StartAtRoot
  BY <1>1 DEF StartAtRoot
<1>2. CASE SkipEmptyElement
  BY <1>2 DEF SkipEmptyElement
<1>3. CASE FollowEntry
  <2>1. path # NONE
    BY <1>3 DEF FollowEntry, TakesElement
  <2>2. status = "navigating" /\ status' \in {"navigating", "exited"} /\ UNCHANGED input
    BY <1>3 DEF FollowEntry, TakesElement
  <2> QED
    BY <2>1, <2>2
<1>4. CASE NoMatch
  BY <1>4 DEF NoMatch, TakesElement
<1>5. CASE NothingToMatch
  BY <1>5 DEF NothingToMatch, TakesElement
<1>6. CASE Arrive
  BY <1>6 DEF Arrive
<1>7. CASE StartAtOption
  BY <1>7 DEF StartAtOption
<1>8. CASE FindRecords
  BY <1>8 DEF FindRecords
<1>9. CASE CountRecords
  BY <1>9 DEF CountRecords
<1> QED
  BY <1>1, <1>2, <1>3, <1>4, <1>5, <1>6, <1>7, <1>8, <1>9 DEF Next

LEMMA InvStep == IInv /\ [Next]_vars => IInv'
<1> SUFFICES ASSUME IInv, [Next]_vars PROVE IInv'
  OBVIOUS
<1>1. CASE Next
  BY <1>1, TypeStep, FollowsStep, OthersStep DEF IInv
<1>2. CASE UNCHANGED vars
  <2>1. FollowsPath'
    BY <1>2, FollowsAfterStep DEF vars, IInv, FollowsPath
  <2> QED
    BY <1>2, <2>1, TypeStep
       DEF vars, input, IInv, RootNotEmpty, OptionInHand, PathTaken, Outcome, NothingTaken
<1> QED
  BY <1>1, <1>2

LEMMA Invariant == Spec => []IInv
BY InvInit, InvStep, PTL DEF Spec

(* Through any directories, cycles and repeated names, the object in hand  *)
(* is the one the path elements taken lead to, and the records are its own *)
(* (recover.c:487-527).                                                    *)
THEOREM PathIsFollowed == Spec => []FollowsPath
<1>1. IInv => FollowsPath
  BY DEF IInv
<1> QED
  BY <1>1, Invariant, PTL

(* What is listed or recovered is what was asked for (recover.c:530-547).  *)
THEOREM NamedObjectIsLocated == Spec => []LocatesNamedObject
<1>1. IInv => LocatesNamedObject
  BY DEF IInv, LocatesNamedObject, FollowsPath, OptionInHand, PathTaken, Outcome
<1> QED
  BY <1>1, Invariant, PTL

(* A NULL array is walked, or the assertion fails, only where an entry or  *)
(* --fsoid names an object that is not there (recover.c:502, 534, 543).    *)
THEOREM DeathIsOfDangling == Spec => []DiesOnlyOfDangling
<1>1. IInv => DiesOnlyOfDangling
  <2> SUFFICES ASSUME IInv, status \in {"crashed", "aborted"}
               PROVE  /\ status = "crashed" => volume[fsoid] = <<>>
                      /\ status = "aborted" => fsoid = INVALID
                      /\ IF path # NONE THEN \E k \in 1 .. Len(path) : LeadsTo(k, fsoid)
                                        ELSE fsoid = option
    BY DEF DiesOnlyOfDangling
  <2>1. (status = "crashed" => volume[fsoid] = <<>>) /\ (status = "aborted" => fsoid = INVALID)
    BY DEF IInv, FollowsPath, OptionInHand, Outcome
  <2>2. path = NONE => fsoid = option
    BY DEF IInv, OptionInHand
  <2>3. ASSUME path # NONE PROVE \E k \in 1 .. Len(path) : LeadsTo(k, fsoid)
    <3>1. LeadsTo(pos, fsoid) /\ volume[ROOT_DIR_INO_NUM] # <<>>
      BY <2>3 DEF IInv, FollowsPath, RootNotEmpty
    <3>2. fsoid # ROOT_DIR_INO_NUM
      BY <2>1, <3>1, OidAssumption
    <3>3. pos \in Nat /\ pos <= Len(path) /\ fsoid \in Oid
      BY <2>3 DEF IInv, TypeOK
    <3>4. pos # 0
      BY <3>1, <3>2, <3>3, WalkBegins
    <3>5. Len(path) \in Nat
      BY <2>3, PathAssumption DEF IInv, TypeOK
    <3> QED
      BY <3>1, <3>3, <3>4, <3>5
  <2> QED
    BY <2>1, <2>2, <2>3
<1> QED
  BY <1>1, Invariant, PTL

-----------------------------------------------------------------------------
(* Where names are unique, the object in hand is the only one the elements *)
(* taken lead to, and the navigation ends only at a name that is not there.*)

OnlyWay ==
  UniqueNames /\ path # NONE /\ status \notin {"start", "exited"} =>
    /\ \A o \in Oid : LeadsTo(pos, o) => o = fsoid
    /\ status = "ended" =>
         \/ volume[ROOT_DIR_INO_NUM] = <<>>
         \/ /\ pos < Len(path)
            /\ path[pos + 1] # EMPTY
            /\ \A i \in DOMAIN volume[fsoid] :
                 ~(volume[fsoid][i].dentry /\ volume[fsoid][i].name = path[pos + 1])

LEMMA OnlyWayAfterStep ==
  ASSUME UNCHANGED input,
         UniqueNames /\ path # NONE /\ status' \notin {"start", "exited"} =>
           /\ \A o \in Oid : LeadsTo(pos', o) => o = fsoid'
           /\ status' = "ended" =>
                \/ volume[ROOT_DIR_INO_NUM] = <<>>
                \/ /\ pos' < Len(path)
                   /\ path[pos' + 1] # EMPTY
                   /\ \A i \in DOMAIN volume[fsoid'] :
                        ~(volume[fsoid'][i].dentry /\ volume[fsoid'][i].name = path[pos' + 1])
  PROVE  OnlyWay'
BY DEF OnlyWay, UniqueNames, LeadsTo, HasEntry, input

(* One more element leads to one more object at most.                      *)
LEMMA OneStepOn ==
  ASSUME IInv, OnlyWay, UniqueNames, path # NONE, status = "navigating",
         NEW t \in Oid, LeadsTo(pos + 1, t)
  PROVE  IF path[pos + 1] = EMPTY THEN t = fsoid ELSE HasEntry(fsoid, path[pos + 1], t)
<1>1. pos \in Nat
  BY DEF IInv, TypeOK
<1>2. PICK o \in Oid :
        LeadsTo(pos, o) /\ IF path[pos + 1] = EMPTY THEN t = o ELSE HasEntry(o, path[pos + 1], t)
  BY <1>1, WalkShortens
<1>3. o = fsoid
  BY <1>2 DEF OnlyWay
<1> QED
  BY <1>2, <1>3

LEMMA OnlyWayStep == IInv /\ OnlyWay /\ [Next]_vars => OnlyWay'
<1> SUFFICES ASSUME IInv, OnlyWay, [Next]_vars PROVE OnlyWay'
  OBVIOUS
<1>1. CASE UNCHANGED vars
  BY <1>1, OnlyWayAfterStep DEF vars, OnlyWay, input
<1>2. CASE Next
  <2>1. UNCHANGED input
    BY <1>2 DEF Next, StartAtRoot, SkipEmptyElement, FollowEntry, NoMatch, NothingToMatch, Arrive,
           StartAtOption, FindRecords, CountRecords
  <2>2. ASSUME UniqueNames, path # NONE, status' \notin {"start", "exited"}
        PROVE  /\ \A o \in Oid : LeadsTo(pos', o) => o = fsoid'
               /\ status' = "ended" =>
                    \/ volume[ROOT_DIR_INO_NUM] = <<>>
                    \/ /\ pos' < Len(path)
                       /\ path[pos' + 1] # EMPTY
                       /\ \A i \in DOMAIN volume[fsoid'] :
                            ~(volume[fsoid'][i].dentry /\ volume[fsoid'][i].name = path[pos' + 1])
    <3>1. CASE StartAtRoot
      <4>1. pos' = 0 /\ fsoid' = ROOT_DIR_INO_NUM
        BY <3>1 DEF StartAtRoot, GetRecords, IInv, NothingTaken
      <4>2. status' = "ended" => volume[ROOT_DIR_INO_NUM] = <<>>
        BY <3>1 DEF StartAtRoot, GetRecords
      <4> QED
        BY <4>1, <4>2, WalkBegins
    <3>2. CASE SkipEmptyElement
      <4>1. status = "navigating" /\ status' = status /\ path[pos + 1] = EMPTY /\ pos' = pos + 1
              /\ fsoid' = fsoid
        BY <3>2 DEF SkipEmptyElement, Element
      <4> QED
        BY <2>2, <4>1, OneStepOn
    <3>3. CASE FollowEntry
      <4>1. PICK i \in DOMAIN records :
              Matches(i) /\ GetRecords(records[i].file_id, "navigating")
        BY <3>3 DEF FollowEntry
      <4>2. status = "navigating" /\ path[pos + 1] # EMPTY /\ pos' = pos + 1
        BY <3>3 DEF FollowEntry, TakesElement, Element
      <4>3. records = volume[fsoid] /\ records \in Seq(Record) /\ fsoid \in Oid
        BY <2>2, <4>2 DEF IInv, FollowsPath, TypeOK
      <4>4. status' = "navigating" /\ fsoid' = records[i].file_id
        BY <2>2, <4>1 DEF GetRecords
      <4>5. volume[fsoid] # LOST
        BY <4>3, VolumeAssumption
      <4>6. ASSUME NEW o \in Oid, HasEntry(fsoid, path[pos + 1], o) PROVE o = fsoid'
        <5>1. PICK j \in DOMAIN volume[fsoid] :
                volume[fsoid][j].dentry /\ volume[fsoid][j].name = path[pos + 1]
                  /\ volume[fsoid][j].file_id = o
          BY <4>6 DEF HasEntry
        <5>2. volume[fsoid][i].dentry /\ volume[fsoid][i].name = path[pos + 1]
          BY <4>1, <4>3 DEF Matches, Element
        <5>3. i = j
          BY <2>2, <4>3, <4>5, <5>1, <5>2 DEF UniqueNames
        <5> QED
          BY <4>3, <4>4, <5>1, <5>3
      <4> QED
        BY <2>2, <4>2, <4>4, <4>6, OneStepOn
    <3>4. CASE NoMatch
      <4>1. status = "navigating" /\ path[pos + 1] # EMPTY /\ pos < Len(path)
              /\ UNCHANGED <<pos, fsoid>>
              /\ \A i \in DOMAIN records : ~(records[i].dentry /\ records[i].name = path[pos + 1])
        BY <3>4 DEF NoMatch, TakesElement, Matches, Element
      <4>2. records = volume[fsoid]
        BY <2>2, <4>1 DEF IInv, FollowsPath
      <4> QED
        BY <2>2, <4>1, <4>2 DEF OnlyWay
    <3>5. CASE NothingToMatch \/ Arrive \/ CountRecords
      <4>1. UNCHANGED <<pos, fsoid>> /\ status \notin {"start", "exited"} /\ status' # "ended"
        BY <3>5 DEF NothingToMatch, Arrive, CountRecords, TakesElement
      <4> QED
        BY <2>2, <4>1 DEF OnlyWay
    <3>6. CASE FindRecords
      <4>1. UNCHANGED <<pos, fsoid>> /\ status \notin {"start", "exited"} /\ status' # "ended"
        BY <3>6 DEF FindRecords, GetRecords
      <4> QED
        BY <2>2, <4>1 DEF OnlyWay
    <3>7. ~StartAtOption
      BY <2>2 DEF StartAtOption
    <3> QED
      BY <1>2, <3>1, <3>2, <3>3, <3>4, <3>5, <3>6, <3>7 DEF Next
  <2> QED
    BY <2>1, <2>2, OnlyWayAfterStep
<1> QED
  BY <1>1, <1>2

(* "No dentry found" is said only of paths that lead nowhere               *)
(* (recover.c:514-518).                                                    *)
THEOREM EndIsOfAbsence == Spec => []EndsOnlyIfAbsent
<1>1. Init => OnlyWay
  BY DEF Init, OnlyWay
<1>2. IInv /\ OnlyWay => EndsOnlyIfAbsent
  <2> SUFFICES ASSUME IInv, OnlyWay, status = "ended", UniqueNames,
                      volume[ROOT_DIR_INO_NUM] # <<>>, NEW o \in Oid, LeadsTo(Len(path), o)
               PROVE  FALSE
    BY DEF EndsOnlyIfAbsent
  <2>1. path # NONE
    BY DEF IInv, OptionInHand
  <2>2. pos < Len(path) /\ path[pos + 1] # EMPTY /\ pos \in Nat /\ Len(path) \in Nat
    BY <2>1, PathAssumption DEF OnlyWay, IInv, TypeOK
  <2>3. PICK t \in Oid : LeadsTo(pos + 1, t)
    BY <2>2, WalkPasses
  <2>4. PICK p \in Oid : LeadsTo(pos, p) /\ HasEntry(p, path[pos + 1], t)
    BY <2>2, <2>3, WalkShortens
  <2>5. p = fsoid
    BY <2>1, <2>4 DEF OnlyWay
  <2> QED
    BY <2>1, <2>4, <2>5 DEF OnlyWay, HasEntry
<1> QED
  BY <1>1, <1>2, OnlyWayStep, Invariant, PTL DEF Spec

=============================================================================
