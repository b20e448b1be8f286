----------------------------- MODULE Drat_proofs -----------------------------
(***************************************************************************)
(* Theorems about Drat, for command lines of any length, every container   *)
(* and whatever the user types: the options a command runs with are those  *)
(* of its line; an explorer shows what was chosen, and stops short only    *)
(* for a reason.                                                           *)
(***************************************************************************)
EXTENDS Drat, SequenceTheorems, WellFoundedInduction, TLAPS

-----------------------------------------------------------------------------
(* The inductive invariant of the parsers.                                 *)

(* What a word makes of its option, and what the option is before.         *)
Value(w) ==
  IF w.key \notin A!Numbers THEN w.arg ELSE IF w.arg = AUTO THEN 0 ELSE A!Saturated(w.arg)

Default(k) ==
  IF k = "volume" /\ command \in {"list", "recover", "resolver"} THEN -1 ELSE A!Unset[k]

IsLast(w, k) == argv[w].key = k /\ \A j \in w + 1 .. next - 1 : argv[j].key # k

(* Each option has its default, or what the last word parsed that names it *)
(* makes of it.                                                            *)
OptionIs(k) ==
  \/ options[k] = Default(k) /\ \A w \in 1 .. next - 1 : argv[w].key # k
  \/ \E w \in 1 .. next - 1 :
       /\ IsLast(w, k)
       /\ options[k] = Value(argv[w])
       /\ k \in A!Numbers => argv[w].arg \in Int \/ (k = "block-size" /\ argv[w].arg = AUTO)

(* seen[n] are the OIDs in the first n words.                              *)
SeenIn(w) == IF argv[w].key = "oids" THEN argv[w].arg ELSE <<>>

AreSeen(seen) ==
  /\ seen \in [0 .. next - 1 -> Seq(Int \union {BAD})]
  /\ seen[0] = <<>>
  /\ \A n \in 1 .. next - 1 : seen[n] = seen[n - 1] \o SeenIn(n)

OidsInv ==
  /\ oids # <<>> => \E w \in 1 .. next - 1 : argv[w].key = "oids"
  /\ \E seen : /\ AreSeen(seen)
               /\ seen[next - 1] \in Seq(Int)
               /\ Len(oids) = Len(seen[next - 1])
               /\ \A n \in 1 .. Len(oids) : oids[n] = A!Saturated(seen[next - 1][n])

(* What has been parsed is in the options and in the OIDs.                 *)
Parsed ==
  /\ command \in A!Commands \ {"version"}
  /\ \A k \in A!Known \ {"oids"} : OptionIs(k)
  /\ OidsInv

LineInv ==
  /\ argv \in Lines
  /\ next \in 1 .. Len(argv) + 1
  /\ command \in A!Commands \union {NONE}
  /\ options \in [A!Options -> {options[k] : k \in A!Options}]
  /\ \A k \in A!Numbers : options[k] \in -MaxInt - 1 .. MaxInt
  /\ oids \in Seq((-MaxInt - 1 .. MaxInt) \ {-1})
  /\ status \in {"start", "parsing", "running", "usage", "refused"}
  /\ status = "start" => next = 1 /\ command = NONE /\ options = A!Unset /\ oids = <<>>
  /\ status = "parsing" => Parsed
  /\ status = "running" =>
       command = "version" \/ (Parsed /\ next = Len(argv) + 1 /\ ~A!Missing)

-----------------------------------------------------------------------------
(* The inductive invariant of a session.                                   *)

(* The node an answer leads to from node n.                                *)
NodeBelow(n, answer) ==
  LET i == answer % Width IN
  IF n \in E!Unread \/ i >= Len(n.entries) \/ n.leaf THEN n
  ELSE LET to == n.entries[i + 1].to IN
       IF ~E!ExploresFs THEN E!Block(to)
       ELSE LET seen == E!Seen(to, E!Root.xid) IN
            IF seen = {} THEN LOST ELSE E!Block(E!Newest(seen).v)

(* path[n] is the node that the first n answers lead to.                   *)
IsPath(path, answers) ==
  /\ path \in [0 .. Len(answers) -> E!Node \union E!Unread]
  /\ path[0] = E!Root
  /\ \A n \in 1 .. Len(answers) : path[n] = NodeBelow(path[n - 1], answers[n])

OnPath == \E path : IsPath(path, typed) /\ path[Len(typed)] = node

(* The last number typed has chosen an entry of the leaf the rest led to.  *)
AtEnd ==
  /\ typed # <<>>
  /\ \E path : IsPath(path, typed) /\ path[Len(typed) - 1] = node
  /\ node.leaf
  /\ LET choice == typed[Len(typed)] % Width IN
       choice < Len(node.entries) /\ shown = node.entries[choice + 1]

(* What makes an explorer stop short at node n.                            *)
HasReason(n, how) ==
  \/ how = "failed" /\ E!Dangling(n, LOST)
  \/ how = "aborted" /\ ((E!ExploresFs /\ n.entries = <<>>) \/ E!Dangling(n, BEYOND))
  \/ how = "ended" /\
       \/ n.fixed = E!ExploresFs
       \/ E!ExploresFs /\ ~n.leaf /\ \E i \in DOMAIN n.entries :
            E!Seen(n.entries[i].to, E!Root.xid) = {}

Exploring == {"listing", "asking", "ended", "failed"}

(* The option --omap of explore-fs-tree names where lookups may begin.     *)
MapGiven ==
  explorer = "explore-fs-tree" /\ device # NONE =>
    E!Block(address.omap) \in E!Unread \/ E!Place(address.omap) \in device.roots

SessionInv ==
  /\ E!TypeOK
  /\ state = "idle" => typed = <<>>
  /\ state # "idle" =>
       /\ status = "running" /\ command = explorer
       /\ explorer \in {"read", "explore-fs-tree", "explore-omap-tree"}
       /\ \A k \in {"fs", "omap", "block"} : address[k] = options[k]
       /\ MapGiven
  /\ state = "opening" => typed = <<>>
  /\ state = "noinput" /\ device # NONE => E!RootsMeet(LOST)
  /\ state \in Exploring \union {"done"} => E!RootsReadable /\ node \notin E!Unread
  /\ state \in Exploring => explorer # "read"
  /\ state \in {"listing", "asking"} /\ ~stuck => OnPath
  /\ state = "done" /\ ~stuck =>
       IF explorer = "read" THEN node = E!Block(address.block) ELSE AtEnd
  /\ state = "aborted" => E!RootsMeet(BEYOND) \/ HasReason(node, state)
  /\ state \in {"failed", "ended"} => HasReason(node, state)

Inv == LineInv /\ SessionInv

-----------------------------------------------------------------------------
(* Lemmas about the parsers.                                               *)
(* What the constants of the parsers are.                                  *)
LEMMA Constants ==
  /\ MaxInt \in Nat \ {0} /\ AUTO \notin Int /\ BAD \notin Int
  /\ \A l \in Lines : l \in Seq(A!ToSet(l)) /\ \A n \in DOMAIN l : A!IsWord(l[n])
BY ArgsAssumption DEF A!Parameters

(* The options there are, and those that each command has.                 *)
LEMMA OptionKeys ==
  /\ A!Options = {"container", "block-size", "volume", "volume-name", "max-xid", "fsoid", "path",
                  "output", "skip-multilinked-inodes", "omap", "oids", "fs", "block"}
  /\ \A c \in A!Commands : A!Own(c) \subseteq A!Options
<1>1. \A c \in A!Commands : A!Own(c) \subseteq A!Options
  BY DEF A!Options
<1>2. \A c \in A!Commands :
        A!Own(c) \subseteq {"fsoid", "path", "output", "skip-multilinked-inodes", "omap", "oids",
                            "fs", "block"}
  BY DEF A!Commands, A!Own
<1>3. /\ {"fsoid", "path", "output", "skip-multilinked-inodes"} \subseteq A!Own("recover")
      /\ {"omap", "oids"} \subseteq A!Own("resolver")
      /\ "fs" \in A!Own("explore-fs-tree") /\ "block" \in A!Own("read")
  BY DEF A!Own
<1>4. {"recover", "resolver", "explore-fs-tree", "read"} \subseteq A!Commands
  BY DEF A!Commands
<1> QED
  BY <1>1, <1>2, <1>3, <1>4 DEF A!Options, A!Globals

(* The words of a line.                                                    *)
LEMMA WordsTyped ==
  ASSUME LineInv
  PROVE  /\ Len(argv) \in Nat
         /\ \A w \in 1 .. Len(argv) : w \in DOMAIN argv /\ A!IsWord(argv[w])
         /\ \A w \in DOMAIN argv : w \in 1 .. Len(argv)
<1>1. argv \in Seq(A!ToSet(argv)) /\ \A w \in DOMAIN argv : A!IsWord(argv[w])
  BY Constants DEF LineInv
<1>2. Len(argv) \in Nat
  BY <1>1
<1>3. DOMAIN argv = 1 .. Len(argv)
  BY <1>1
<1> QED
  BY <1>1, <1>2, <1>3

(* strtoimax() and the numbers that fit.                                   *)
LEMMA SaturatedIs ==
  ASSUME NEW n \in Int
  PROVE  /\ A!Saturated(n) \in -MaxInt - 1 .. MaxInt
         /\ A!Saturated(n) = -1 <=> n = -1
         /\ A!Fits(n) => A!Saturated(n) = n
<1>1. MaxInt \in Nat \ {0}
  BY Constants
<1>2. /\ A!Saturated(n) \in -MaxInt - 1 .. MaxInt
      /\ A!Saturated(n) = -1 <=> n = -1
  BY <1>1 DEF A!Saturated
<1>3. A!Fits(n) => A!Saturated(n) = n
  BY <1>1 DEF A!Saturated, A!Fits
<1> QED
  BY <1>2, <1>3

(* Before a word is parsed every option has its default.                   *)
LEMMA DefaultsTyped ==
  /\ DOMAIN A!Unset = A!Options
  /\ \A k \in A!Options :
       A!Unset[k] = CASE k \in {"volume", "block-size"} -> 0
                      [] k \in {"max-xid", "fsoid", "fs", "omap", "block"} -> -1
                      [] k = "output" -> STDOUT
                      [] k = "skip-multilinked-inodes" -> FALSE
                      [] OTHER -> NONE
BY DEF A!Unset, A!Numbers

(* The option that the next word names becomes what the word makes of it,  *)
(* the others stay what they are.                                          *)
LEMMA NextWord ==
  ASSUME LineInv, next <= Len(argv), next' = next + 1, UNCHANGED <<argv, command>>
  PROVE  /\ \A k : argv[next].key # k /\ options'[k] = options[k] /\ OptionIs(k) => OptionIs(k)'
         /\ \A k : /\ argv[next].key = k /\ options'[k] = Value(argv[next])
                   /\ k \in A!Numbers => argv[next].arg \in Int
                                          \/ (k = "block-size" /\ argv[next].arg = AUTO)
                   => OptionIs(k)'
<1>1. next \in 1 .. Len(argv) /\ Len(argv) \in Nat
  BY WordsTyped DEF LineInv
<1>2. 1 .. next' - 1 = 1 .. next
  BY <1>1
<1>3. \A w \in 1 .. next - 1 : w \in 1 .. next /\ w + 1 .. next = (w + 1 .. next - 1) \union {next}
  BY <1>1
<1>4. ASSUME NEW k, argv[next].key # k, options'[k] = options[k], OptionIs(k)
      PROVE  OptionIs(k)'
  <2>1. CASE options[k] = Default(k) /\ \A w \in 1 .. next - 1 : argv[w].key # k
    <3>1. \A w \in 1 .. next : w \in 1 .. next - 1 \/ w = next
      BY <1>1
    <3>2. options'[k] = Default(k)'
      BY <1>4, <2>1 DEF Default
    <3> QED
      BY <1>2, <1>4, <2>1, <3>1, <3>2 DEF OptionIs
  <2>2. ASSUME NEW w \in 1 .. next - 1, IsLast(w, k), options[k] = Value(argv[w]),
               k \in A!Numbers => argv[w].arg \in Int \/ (k = "block-size" /\ argv[w].arg = AUTO)
        PROVE  OptionIs(k)'
    <3>1. IsLast(w, k)'
      BY <1>1, <1>3, <1>4, <2>2 DEF IsLast
    <3>2. w \in 1 .. next' - 1 /\ options'[k] = Value(argv'[w])
      BY <1>2, <1>3, <1>4, <2>2
    <3> QED
      BY <2>2, <3>1, <3>2 DEF OptionIs
  <2> QED
    BY <1>4, <2>1, <2>2 DEF OptionIs
<1>5. ASSUME NEW k, argv[next].key = k, options'[k] = Value(argv[next]),
             k \in A!Numbers => argv[next].arg \in Int
                                 \/ (k = "block-size" /\ argv[next].arg = AUTO)
      PROVE  OptionIs(k)'
  <2>1. PICK w : w = next
    OBVIOUS
  <2>2. w \in 1 .. next' - 1 /\ \A j \in w + 1 .. next' - 1 : FALSE
    BY <1>1, <2>1
  <2>3. IsLast(w, k)'
    BY <1>5, <2>1, <2>2 DEF IsLast
  <2> QED
    BY <1>5, <2>1, <2>2, <2>3 DEF OptionIs
<1> QED
  BY <1>4, <1>5

(* The OIDs of the next word are added to those seen.                      *)
LEMMA NextOids ==
  ASSUME LineInv, OidsInv, next <= Len(argv), next' = next + 1, UNCHANGED argv,
         NEW more \in Seq(Int), SeenIn(next) = more,
         more # <<>> => argv[next].key = "oids",
         oids' \in Seq(Int), Len(oids') = Len(oids) + Len(more),
         \A n \in 1 .. Len(oids) : oids'[n] = oids[n],
         \A n \in 1 .. Len(more) : oids'[Len(oids) + n] = A!Saturated(more[n])
  PROVE  OidsInv'
<1>1. next \in 1 .. Len(argv) /\ Len(argv) \in Nat
  BY WordsTyped DEF LineInv
<1>2. PICK seen : /\ AreSeen(seen)
                  /\ seen[next - 1] \in Seq(Int)
                  /\ Len(oids) = Len(seen[next - 1])
                  /\ \A n \in 1 .. Len(oids) : oids[n] = A!Saturated(seen[next - 1][n])
  BY DEF OidsInv
<1> DEFINE all == seen[next - 1] \o more
           seen2 == [n \in 0 .. next |-> IF n = next THEN all ELSE seen[n]]
<1>3. /\ all \in Seq(Int) /\ Len(all) = Len(oids) + Len(more)
      /\ \A n \in 1 .. Len(oids) : all[n] = seen[next - 1][n]
      /\ \A n \in 1 .. Len(more) : all[Len(oids) + n] = more[n]
  BY <1>2
<1>4. Len(oids) \in Nat /\ Len(more) \in Nat
  <2>1. Len(more) \in Nat /\ Len(seen[next - 1]) \in Nat
    BY <1>2
  <2> QED
    BY <1>2, <2>1
<1> HIDE DEF all
<1>c. PICK s : s = seen2
  OBVIOUS
<1>5. AreSeen(s)'
  <2>1. next' - 1 = next /\ next \in Nat
    BY <1>1
  <2>2. /\ seen \in [0 .. next - 1 -> Seq(Int \union {BAD})] /\ seen[0] = <<>>
        /\ \A n \in 1 .. next - 1 : seen[n] = seen[n - 1] \o SeenIn(n)
    BY <1>2 DEF AreSeen
  <2>3. seen2 \in [0 .. next -> Seq(Int \union {BAD})]
    <3>1. all \in Seq(Int \union {BAD})
      BY <1>3
    <3>2. \A n \in 0 .. next : n = next \/ n \in 0 .. next - 1
      BY <2>1
    <3> QED
      BY <2>2, <3>1, <3>2
  <2>4. seen2[0] = <<>>
    BY <1>1, <2>2
  <2>5. ASSUME NEW n \in 1 .. next
        PROVE  seen2[n] = seen2[n - 1] \o SeenIn(n)
    <3>1. CASE n = next
      <4>1. seen2[n] = all /\ seen2[n - 1] = seen[next - 1]
        BY <1>1, <3>1
      <4> QED
        BY <3>1, <4>1 DEF all
    <3>2. CASE n # next
      <4>1. n \in 1 .. next - 1 /\ n - 1 \in 0 .. next - 1
        BY <2>1, <3>2
      <4>2. seen2[n] = seen[n] /\ seen2[n - 1] = seen[n - 1]
        BY <2>1, <4>1
      <4> QED
        BY <2>2, <4>1, <4>2
    <3> QED
      BY <3>1, <3>2
  <2>6. \A n : SeenIn(n)' = SeenIn(n)
    BY DEF SeenIn
  <2> HIDE DEF seen2
  <2>7. /\ s \in [0 .. next' - 1 -> Seq(Int \union {BAD})] /\ s[0] = <<>>
        /\ \A n \in 1 .. next' - 1 : s[n] = s[n - 1] \o SeenIn(n)'
    BY <1>c, <2>1, <2>3, <2>4, <2>5, <2>6
  <2> QED
    BY <2>7 DEF AreSeen
<1>6. s[next' - 1] = all
  <2>1. next' - 1 = next /\ next \in 0 .. next
    BY <1>1
  <2> QED
    BY <1>c, <2>1
<1>7. ASSUME NEW n \in 1 .. Len(oids')
      PROVE  oids'[n] = A!Saturated(all[n])
  <2>1. CASE n <= Len(oids)
    <3>1. n \in 1 .. Len(oids)
      BY <1>4, <2>1
    <3> QED
      BY <1>2, <1>3, <3>1
  <2>2. CASE n > Len(oids)
    <3>1. PICK m \in 1 .. Len(more) : n = Len(oids) + m
      <4>1. n - Len(oids) \in 1 .. Len(more) /\ n = Len(oids) + (n - Len(oids))
        BY <1>4, <2>2
      <4> QED
        BY <4>1
    <3> QED
      BY <1>3, <3>1
  <2> QED
    BY <1>4, <2>1, <2>2
<1>8. oids' # <<>> => \E w \in 1 .. next' - 1 : argv'[w].key = "oids"
  <2>1. CASE more = <<>>
    <3>1. Len(oids') = Len(oids)
      BY <1>4, <2>1
    <3>2. oids' # <<>> => Len(oids) # 0
      BY <3>1
    <3>3. oids' # <<>> => oids # <<>>
      BY <3>2
    <3>4. \A w \in 1 .. next - 1 : w \in 1 .. next' - 1
      BY <1>1
    <3> QED
      BY <3>3, <3>4 DEF OidsInv
  <2>2. CASE more # <<>>
    <3>1. next \in 1 .. next' - 1
      BY <1>1
    <3> QED
      BY <2>2, <3>1
  <2> QED
    BY <2>1, <2>2
<1> HIDE DEF seen2
<1>9. /\ AreSeen(s)'
      /\ s[next' - 1] \in Seq(Int)
      /\ Len(oids') = Len(s[next' - 1])
      /\ \A n \in 1 .. Len(oids') : oids'[n] = A!Saturated(s[next' - 1][n])
  BY <1>3, <1>5, <1>6, <1>7
<1>10. \E seen3 : /\ AreSeen(seen3)'
                  /\ seen3[next' - 1] \in Seq(Int)
                  /\ Len(oids') = Len(seen3[next' - 1])
                  /\ \A n \in 1 .. Len(oids') : oids'[n] = A!Saturated(seen3[next' - 1][n])
  BY <1>9
<1> QED
  BY <1>8, <1>10 DEF OidsInv, A!Saturated

(* A word that names no OIDs adds none.                                    *)
LEMMA OtherWord ==
  ASSUME LineInv, OidsInv, next <= Len(argv), next' = next + 1, UNCHANGED <<argv, oids>>,
         argv[next].key # "oids"
  PROVE  OidsInv'
<1>1. SeenIn(next) = <<>>
  BY DEF SeenIn
<1>2. oids \in Seq((-MaxInt - 1 .. MaxInt) \ {-1})
  BY DEF LineInv
<1>3. oids' \in Seq(Int) /\ Len(oids) \in Nat
  BY <1>2, Constants
<1>4. <<>> \in Seq(Int) /\ Len(<<>>) = 0
  OBVIOUS
<1>5. Len(oids') = Len(oids) + Len(<<>>)
  BY <1>3, <1>4
<1>6. \A n \in 1 .. Len(<<>>) : oids'[Len(oids) + n] = A!Saturated(<<>>[n])
  BY <1>4
<1> QED
  BY <1>1, <1>3, <1>4, <1>5, <1>6, NextOids

(* While the line is parsed.                                               *)
LEMMA ParsingTyped ==
  ASSUME LineInv, A!Parsing
  PROVE  /\ Parsed /\ next \in 1 .. Len(argv) /\ A!IsWord(A!Word) /\ Len(argv) \in Nat
         /\ A!Word = argv[next] /\ A!Known \subseteq A!Options
<1>1. Parsed /\ next \in 1 .. Len(argv) /\ Len(argv) \in Nat
  BY WordsTyped DEF LineInv, A!Parsing
<1>2. A!Own(command) \subseteq A!Options
  BY <1>1, OptionKeys DEF Parsed
<1>3. A!Globals \subseteq A!Options
  BY OptionKeys DEF A!Globals
<1> QED
  BY <1>1, <1>2, <1>3, WordsTyped DEF A!Word, A!Known
(* To set an option to the value of its word keeps the invariant.          *)
LEMMA SetKeeps ==
  ASSUME LineInv, A!Parsing, A!Word.key \in A!Known \ {"oids"},
         A!Set(Value(A!Word)),
         A!Word.key \in A!Numbers =>
           /\ A!Word.arg \in Int \/ (A!Word.key = "block-size" /\ A!Word.arg = AUTO)
           /\ Value(A!Word) \in -MaxInt - 1 .. MaxInt
  PROVE  LineInv'
<1>1. /\ options' = [options EXCEPT ![A!Word.key] = Value(A!Word)]
      /\ next' = next + 1 /\ UNCHANGED <<argv, command, oids, status>>
  BY DEF A!Set
<1>2. /\ Parsed /\ next \in 1 .. Len(argv) /\ Len(argv) \in Nat
      /\ A!Word = argv[next] /\ A!Word.key \in A!Options /\ status = "parsing"
  BY ParsingTyped DEF A!Parsing
<1>3. DOMAIN options = A!Options
  BY DEF LineInv
<1>4. /\ DOMAIN options' = A!Options
      /\ options' \in [A!Options -> {options'[k] : k \in A!Options}]
      /\ \A k \in A!Options :
           options'[k] = IF k = argv[next].key THEN Value(argv[next]) ELSE options[k]
  BY <1>1, <1>2, <1>3
<1>5. A!Known' = A!Known
  BY <1>1 DEF A!Known, A!Own
<1>6. ASSUME NEW k \in A!Known \ {"oids"}
      PROVE  OptionIs(k)'
  <2>1. k \in A!Options /\ OptionIs(k)
    BY <1>2, ParsingTyped DEF Parsed
  <2>2. CASE k = argv[next].key
    BY <1>1, <1>2, <1>4, <2>1, <2>2, NextWord
  <2>3. CASE k # argv[next].key
    BY <1>1, <1>2, <1>4, <2>1, <2>3, NextWord
  <2> QED
    BY <2>2, <2>3
<1>7. OidsInv'
  BY <1>1, <1>2, OtherWord DEF Parsed
<1>8. Parsed'
  BY <1>1, <1>2, <1>5, <1>6, <1>7 DEF Parsed
<1>9. \A k \in A!Numbers : options'[k] \in -MaxInt - 1 .. MaxInt
  BY <1>2, <1>4, OptionKeys DEF LineInv, A!Numbers
<1>10. next' \in 1 .. Len(argv') + 1
  BY <1>1, <1>2
<1> QED
  BY <1>1, <1>2, <1>4, <1>8, <1>9, <1>10 DEF LineInv
(* The option parsers, of numbers and of strings, keep the invariant.      *)
LEMMA Sets ==
  ASSUME LineInv, A!SetNumber \/ A!SetString
  PROVE  LineInv'
<1>1. CASE A!SetNumber
  <2>1. A!Parsing /\ A!Word.key \in A!Known \intersect A!Numbers /\ AUTO \notin Int
    BY <1>1, Constants DEF A!SetNumber
  <2>2. "oids" \notin A!Numbers
    BY DEF A!Numbers
  <2>3. CASE A!Word.arg \in Int /\ A!Set(A!Saturated(A!Word.arg))
    <3>1. Value(A!Word) = A!Saturated(A!Word.arg)
      BY <2>1, <2>3 DEF Value
    <3>2. Value(A!Word) \in -MaxInt - 1 .. MaxInt
      BY <2>3, <3>1, SaturatedIs
    <3> QED
      BY <2>1, <2>2, <2>3, <3>1, <3>2, SetKeeps
  <2>4. CASE A!Word.key = "block-size" /\ A!Word.arg = AUTO /\ A!Set(0)
    <3>1. Value(A!Word) = 0
      BY <2>1, <2>4 DEF Value
    <3>2. 0 \in -MaxInt - 1 .. MaxInt
      BY Constants
    <3> QED
      BY <2>1, <2>2, <2>4, <3>1, <3>2, SetKeeps
  <2> QED
    BY <1>1, <2>3, <2>4 DEF A!SetNumber
<1>2. CASE A!SetString
  <2>1. A!Parsing /\ A!Word.key \in A!Known \ (A!Numbers \union {"oids"}) /\ A!Set(A!Word.arg)
    BY <1>2 DEF A!SetString
  <2>2. Value(A!Word) = A!Word.arg
    BY <2>1 DEF Value
  <2> QED
    BY <2>1, <2>2, SetKeeps
<1> QED
  BY <1>1, <1>2

(* --oids.                                                                 *)
LEMMA AddsOids ==
  ASSUME LineInv, A!AddOids
  PROVE  LineInv'
<1> DEFINE more == argv[next].arg
           added == [n \in DOMAIN more |-> A!Saturated(more[n])]
           Number == (-MaxInt - 1 .. MaxInt) \ {-1}
<1>1. /\ A!Parsing /\ argv[next].key = "oids"
      /\ \A n \in DOMAIN more : A!IsOid(more[n])
      /\ oids' = oids \o added
      /\ next' = next + 1 /\ UNCHANGED <<argv, command, options, status>>
  BY DEF A!AddOids, A!Word
<1>2. /\ Parsed /\ next \in 1 .. Len(argv) /\ Len(argv) \in Nat
      /\ A!IsWord(argv[next]) /\ status = "parsing"
  BY <1>1, ParsingTyped DEF A!Parsing
<1>3. more \in Seq(Int) /\ \A n \in 1 .. Len(more) : more[n] \in Int /\ more[n] # -1
  <2>1. more \in Seq(Int \union {BAD})
    BY <1>1, <1>2 DEF A!IsWord
  <2>2. \A n \in 1 .. Len(more) : more[n] \in Int /\ more[n] # -1
    BY <1>1, <2>1 DEF A!IsOid
  <2> QED
    BY <2>1, <2>2
<1>4. added \in Seq(Number) /\ Len(added) = Len(more)
      /\ \A n \in 1 .. Len(more) : added[n] = A!Saturated(more[n])
  <2>1. \A n \in 1 .. Len(more) : A!Saturated(more[n]) \in Number
    <3>1. ASSUME NEW n \in 1 .. Len(more)
          PROVE  A!Saturated(more[n]) \in Number
      <4>1. more[n] \in Int /\ more[n] # -1
        BY <1>3
      <4> HIDE DEF more
      <4> QED
        BY <4>1, SaturatedIs
    <3> QED
      BY <3>1
  <2> HIDE DEF more
  <2>2. DOMAIN more = 1 .. Len(more) /\ Len(more) \in Nat
    BY <1>3
  <2> QED
    BY <2>1, <2>2
<1>5. oids \in Seq(Number)
  BY DEF LineInv
<1> HIDE DEF added, more, Number
<1>6. /\ oids' \in Seq(Number) /\ Len(oids') = Len(oids) + Len(added)
      /\ \A n \in 1 .. Len(oids) : oids'[n] = oids[n]
      /\ \A n \in 1 .. Len(added) : oids'[Len(oids) + n] = added[n]
  BY <1>1, <1>4, <1>5
<1>7. oids' \in Seq(Int)
  <2>1. oids' \in Seq((-MaxInt - 1 .. MaxInt) \ {-1})
    BY <1>6 DEF Number
  <2> QED
    BY <2>1, Constants
<1>8. OidsInv'
  <2>1. SeenIn(next) = more
    BY <1>1 DEF SeenIn, more
  <2> QED
    <3>1. \A n \in 1 .. Len(more) : oids'[Len(oids) + n] = A!Saturated(more[n])
      BY <1>4, <1>6
    <3>2. /\ next <= Len(argv) /\ next' = next + 1 /\ UNCHANGED argv
          /\ more \in Seq(Int) /\ argv[next].key = "oids" /\ Len(oids') = Len(oids) + Len(more)
          /\ \A n \in 1 .. Len(oids) : oids'[n] = oids[n]
      BY <1>1, <1>2, <1>3, <1>4, <1>6
    <3>3. OidsInv
      BY <1>2 DEF Parsed
    <3> QED
      BY <1>7, <2>1, <3>1, <3>2, <3>3, NextOids
<1>9. A!Known' = A!Known
  BY <1>1 DEF A!Known, A!Own
<1>10. ASSUME NEW k \in A!Known \ {"oids"}
       PROVE  OptionIs(k)'
  BY <1>1, <1>2, <1>10, NextWord DEF Parsed
<1>11. Parsed'
  BY <1>1, <1>2, <1>8, <1>9, <1>10 DEF Parsed
<1> QED
  BY <1>1, <1>2, <1>6, <1>11 DEF LineInv, Number

(* The command's own name, met again by its parser, keeps the invariant.   *)
LEMMA SkipsName ==
  ASSUME LineInv, A!SkipName
  PROVE  LineInv'
<1>1. /\ A!Parsing /\ argv[next].key = "name"
      /\ next' = next + 1 /\ UNCHANGED <<argv, command, options, oids, status>>
  BY DEF A!SkipName, A!Word
<1>2. /\ Parsed /\ next \in 1 .. Len(argv) /\ Len(argv) \in Nat /\ status = "parsing"
      /\ A!Known \subseteq A!Options
  BY <1>1, ParsingTyped DEF A!Parsing
<1>3. A!Known' = A!Known
  BY <1>1 DEF A!Known, A!Own
<1>4. "name" \notin A!Options
  BY OptionKeys
<1>5. ASSUME NEW k \in A!Known \ {"oids"}
      PROVE  OptionIs(k)'
  BY <1>1, <1>2, <1>4, <1>5, NextWord DEF Parsed
<1>6. OidsInv'
  BY <1>1, <1>2, OtherWord DEF Parsed
<1>7. Parsed'
  BY <1>1, <1>2, <1>3, <1>5, <1>6 DEF Parsed
<1> QED
  BY <1>1, <1>2, <1>7 DEF LineInv

(* To end without running a command keeps the invariant.                   *)
LEMMA EndsEarly ==
  ASSUME LineInv, A!End("usage") \/ A!End("refused")
  PROVE  LineInv'
BY DEF LineInv, A!End

(* So does the refusal of an OID, after those before it have been added.   *)
LEMMA RefusesOid ==
  ASSUME LineInv, A!InvalidOid
  PROVE  LineInv'
<1> DEFINE more == argv[next].arg
           Number == (-MaxInt - 1 .. MaxInt) \ {-1}
           Added(n) == [m \in 1 .. n - 1 |-> A!Saturated(more[m])]
<1>1. A!Parsing /\ argv[next].key = "oids"
      /\ status' = "refused" /\ UNCHANGED <<argv, next, command, options>>
  BY DEF A!InvalidOid, A!Word
<1>2. PICK n \in DOMAIN more : /\ ~A!IsOid(more[n])
                               /\ \A m \in 1 .. n - 1 : A!IsOid(more[m])
                               /\ oids' = oids \o Added(n)
  BY DEF A!InvalidOid, A!Word
<1>3. next \in DOMAIN argv /\ A!IsWord(argv[next])
  BY <1>1, ParsingTyped, WordsTyped
<1>4. more \in Seq(Int \union {BAD})
  BY <1>1, <1>3 DEF A!IsWord
<1> HIDE DEF more
<1>5. ASSUME NEW m \in 1 .. n - 1
      PROVE  A!Saturated(more[m]) \in Number
  <2>1. m \in 1 .. Len(more)
    BY <1>2, <1>4
  <2>2. more[m] \in Int \union {BAD}
    BY <1>4, <2>1
  <2>3. more[m] \in Int /\ more[m] # -1
    BY <1>2, <2>2 DEF A!IsOid
  <2> QED
    BY <2>3, SaturatedIs
<1>6. oids \in Seq(Number)
  BY DEF LineInv
<1> HIDE DEF Number
<1>7. Added(n) \in Seq(Number)
  <2>1. n - 1 \in Nat
    BY <1>2, <1>4
  <2> QED
    BY <1>5, <2>1
<1>8. oids' \in Seq(Number)
  BY <1>2, <1>6, <1>7
<1> QED
  BY <1>1, <1>8 DEF LineInv, Number

(* The command is called.                                                  *)
LEMMA Starts ==
  ASSUME LineInv, A!Start
  PROVE  LineInv'
<1>1. PICK n \in DOMAIN argv : /\ A!Skipped(n) /\ argv[n].key = "name"
                               /\ argv[n].arg \in A!Commands /\ command' = argv[n].arg
  BY DEF A!Start
<1>2. /\ status = "start" /\ UNCHANGED <<argv, next, oids>>
      /\ options' = IF command' \in {"list", "recover", "resolver"}
                      THEN [options EXCEPT !["volume"] = -1] ELSE options
      /\ status' = CASE command' = "version" -> IF Len(argv) > 1 THEN "refused" ELSE "running"
                     [] command' # "version" -> IF Len(argv) = 1 THEN "usage" ELSE "parsing"
  BY DEF A!Start
<1>3. /\ next = 1 /\ options = A!Unset /\ oids = <<>> /\ DOMAIN options = A!Options
      /\ "volume" \in A!Options
  BY <1>2, OptionKeys DEF LineInv
<1>4. /\ DOMAIN options' = A!Options
      /\ options' \in [A!Options -> {options'[k] : k \in A!Options}]
      /\ \A k \in A!Options : options'[k] = Default(k)'
  <2>1. DOMAIN options' = A!Options
    BY <1>2, <1>3
  <2>2. \A k \in A!Options : options'[k] = Default(k)'
    BY <1>2, <1>3 DEF Default
  <2>3. options' = [k \in A!Options |-> options'[k]]
    <3>1. options = [k \in A!Options |-> options[k]]
      BY DEF LineInv
    <3>2. CASE options' = options
      BY <3>1, <3>2
    <3>3. CASE options' = [options EXCEPT !["volume"] = -1]
      BY <1>3, <3>3
    <3> QED
      BY <1>2, <3>2, <3>3
  <2> QED
    BY <2>1, <2>2, <2>3
<1>5. \A k \in A!Numbers : options'[k] \in -MaxInt - 1 .. MaxInt
  BY <1>2, <1>3, OptionKeys, Constants DEF LineInv, A!Numbers
<1>6. CASE command' = "version"
  BY <1>1, <1>2, <1>4, <1>5, <1>6 DEF LineInv
<1>7. CASE command' # "version"
  <2>1. \A w \in 1 .. next' - 1 : FALSE
    BY <1>2, <1>3
  <2>2. (A!Known \subseteq A!Options)'
    <3>1. A!Own(command') \subseteq A!Options
      BY <1>1, OptionKeys
    <3>2. A!Globals \subseteq A!Options
      BY OptionKeys DEF A!Globals
    <3> QED
      BY <3>1, <3>2 DEF A!Known
  <2>3. \A k \in A!Known' \ {"oids"} : OptionIs(k)'
    BY <1>4, <2>1, <2>2 DEF OptionIs
  <2>4. OidsInv'
    <3> DEFINE seen == [m \in 0 .. 0 |-> <<>>]
    <3>1. next' - 1 = 0 /\ seen \in [0 .. 0 -> Seq(Int \union {BAD})] /\ seen[0] = <<>>
      BY <1>2, <1>3
    <3>2. AreSeen(seen)'
      BY <2>1, <3>1 DEF AreSeen
    <3>3. oids' = <<>> /\ seen[next' - 1] = <<>> /\ <<>> \in Seq(Int) /\ Len(<<>>) = 0
      BY <1>2, <1>3, <3>1
    <3>4. \A m \in 1 .. Len(oids') : oids'[m] = A!Saturated(seen[next' - 1][m])
      BY <3>3
    <3> HIDE DEF seen
    <3> QED
      BY <3>2, <3>3, <3>4 DEF OidsInv, A!Saturated
  <2>5. Parsed'
    BY <1>1, <1>7, <2>3, <2>4 DEF Parsed
  <2>6. status' \in {"usage", "parsing"}
    BY <1>2, <1>7
  <2> QED
    BY <1>1, <1>2, <1>4, <1>5, <2>5, <2>6 DEF LineInv
<1> QED
  BY <1>6, <1>7

(* The end of the line.                                                    *)
LEMMA Finishes ==
  ASSUME LineInv, A!Finish
  PROVE  LineInv'
<1>1. /\ Parsed /\ next = Len(argv) + 1
      /\ status' = IF A!Missing THEN "refused" ELSE "running"
      /\ UNCHANGED <<argv, next, command, options, oids>>
  BY DEF A!Finish, A!End, LineInv
<1>2. (A!Missing' <=> A!Missing) /\ A!Known' = A!Known
  BY <1>1 DEF A!Missing, A!NoOmap, A!Known, A!Own
<1>3. \A k : OptionIs(k)' <=> OptionIs(k)
  BY <1>1 DEF OptionIs, IsLast, Default, Value
<1>4. OidsInv' <=> OidsInv
  BY <1>1 DEF OidsInv, AreSeen, SeenIn
<1>5. Parsed'
  BY <1>1, <1>2, <1>3, <1>4 DEF Parsed
<1> QED
  BY <1>1, <1>2, <1>5 DEF LineInv
(* Every step of the parsers keeps the invariant.                          *)
LEMMA LineStep ==
  ASSUME LineInv, A!Next
  PROVE  LineInv'
<1>1. CASE \/ A!NoArguments \/ A!HelpInstead \/ A!Help \/ A!NoCommand
           \/ A!UnknownBeforeCommand \/ A!UnknownCommand \/ A!InvalidArgument \/ A!Unparsable
  BY <1>1, EndsEarly DEF A!NoArguments, A!HelpInstead, A!Help, A!NoCommand,
     A!UnknownBeforeCommand, A!UnknownCommand, A!InvalidArgument, A!Unparsable
<1> QED
  BY <1>1, RefusesOid, Starts, Sets, AddsOids, SkipsName, Finishes DEF A!Next

(* A session leaves the line alone.                                        *)
LEMMA LineKept ==
  ASSUME LineInv, UNCHANGED line
  PROVE  LineInv'
<1>1. UNCHANGED <<argv, next, command, options, oids, status>>
  BY DEF line
<1>2. (A!Missing' <=> A!Missing) /\ A!Known' = A!Known
  BY <1>1 DEF A!Missing, A!NoOmap, A!Known, A!Own
<1>3. \A k : OptionIs(k)' <=> OptionIs(k)
  BY <1>1 DEF OptionIs, IsLast, Default, Value
<1>4. OidsInv' <=> OidsInv
  BY <1>1 DEF OidsInv, AreSeen, SeenIn
<1>5. Parsed' <=> Parsed
  BY <1>1, <1>2, <1>3, <1>4 DEF Parsed
<1> QED
  BY <1>1, <1>2, <1>5 DEF LineInv

-----------------------------------------------------------------------------
(* What the invariant says of the line.                                    *)

(* A set of numbers up to d that holds 0 and the successor of each number  *)
(* below d in it holds them all.                                           *)
LEMMA UpTo ==
  ASSUME NEW d \in Nat, NEW T, 0 \in T, \A l \in 0 .. d - 1 : l \in T => l + 1 \in T
  PROVE  \A l \in 0 .. d : l \in T
<1> DEFINE Out == {l \in 0 .. d : l \notin T}
           R == OpToRel(<, Nat)
<1> SUFFICES ASSUME Out # {}
             PROVE  FALSE
  OBVIOUS
<1>1. IsWellFoundedOn(R, Nat)
  BY NatLessThanWellFounded
<1>2. \A m, n \in Nat : m < n => <<m, n>> \in R
  BY DEF OpToRel
<1> HIDE DEF R
<1>3. Out \in SUBSET Nat
  OBVIOUS
<1>4. PICK n \in Out : \A m \in Out : <<m, n>> \notin R
  <2>1. \E n \in Out : \A m \in Out : ~ (<<m, n>> \in R)
    BY <1>1, <1>3, WFMin
  <2> QED
    BY <2>1
<1>5. n - 1 \in 0 .. d - 1 /\ n - 1 \in T
  <2>1. n # 0
    OBVIOUS
  <2>2. n \in Nat /\ n - 1 \in Nat /\ n - 1 < n
    BY <2>1
  <2>3. n - 1 \notin Out
    BY <1>2, <1>4, <2>2
  <2> QED
    BY <2>1, <2>2, <2>3
<1>6. (n - 1) + 1 \in T
  BY <1>5
<1>7. (n - 1) + 1 = n
  OBVIOUS
<1> QED
  BY <1>6, <1>7

(* The OIDs on the line are those seen at its end.                         *)
LEMMA AllSeen ==
  ASSUME LineInv, next = Len(argv) + 1, NEW seen, AreSeen(seen)
  PROVE  A!AllOids = seen[next - 1]
<1> DEFINE Body(f, n) == IF n = 0 THEN <<>>
                         ELSE f[n - 1] \o IF argv[n].key = "oids" THEN argv[n].arg ELSE <<>>
           upTo == CHOOSE f : f = [n \in 0 .. Len(argv) |-> Body(f, n)]
           T == {n \in 0 .. Len(argv) : upTo[n] = seen[n]}
<1>1. Len(argv) \in Nat /\ next - 1 = Len(argv)
  BY WordsTyped
<1>2. /\ seen \in [0 .. Len(argv) -> Seq(Int \union {BAD})] /\ seen[0] = <<>>
      /\ \A n \in 1 .. Len(argv) : seen[n] = seen[n - 1] \o SeenIn(n)
  BY <1>1 DEF AreSeen
<1>3. \A n \in 0 .. Len(argv) : seen[n] = Body(seen, n)
  <2>1. \A n \in 0 .. Len(argv) : n = 0 \/ n \in 1 .. Len(argv)
    BY <1>1
  <2> QED
    BY <1>1, <1>2, <2>1 DEF SeenIn
<1>4. seen = [n \in 0 .. Len(argv) |-> Body(seen, n)]
  BY <1>2, <1>3
<1>5. upTo = [n \in 0 .. Len(argv) |-> Body(upTo, n)]
  BY <1>4
<1>6. A!AllOids = upTo[Len(argv)]
  BY DEF A!AllOids
<1> HIDE DEF upTo
<1>7. 0 \in T
  BY <1>1, <1>2, <1>5
<1>8. ASSUME NEW l \in 0 .. Len(argv) - 1, l \in T
      PROVE  l + 1 \in T
  <2>1. l + 1 \in 1 .. Len(argv) /\ (l + 1) - 1 = l
    BY <1>1
  <2>2. upTo[l + 1] = upTo[l] \o SeenIn(l + 1)
    BY <1>5, <2>1 DEF SeenIn
  <2>3. seen[l + 1] = seen[l] \o SeenIn(l + 1)
    BY <1>2, <2>1
  <2>4. upTo[l] = seen[l] /\ l + 1 \in 0 .. Len(argv)
    BY <1>1, <1>8, <2>1
  <2>5. upTo[l + 1] = seen[l + 1]
    BY <2>2, <2>3, <2>4
  <2> QED
    BY <2>4, <2>5
<1>9. \A l \in 0 .. Len(argv) : l \in T
  <2> HIDE DEF T
  <2> QED
    BY <1>1, <1>7, <1>8, UpTo
<1>10. Len(argv) \in T
  BY <1>1, <1>9
<1> QED
  BY <1>1, <1>6, <1>10

(* The last word that names an option.                                     *)
LEMMA LastGivenIs ==
  ASSUME LineInv, NEW k, NEW w \in 1 .. Len(argv), argv[w].key = k,
         \A j \in w + 1 .. Len(argv) : argv[j].key # k
  PROVE  A!Given(k) /\ A!LastGiven(k) = argv[w].arg
<1>1. Len(argv) \in Nat /\ w \in DOMAIN argv
  BY WordsTyped
<1> DEFINE last == CHOOSE i \in DOMAIN argv :
                     argv[i].key = k /\ \A j \in i + 1 .. Len(argv) : argv[j].key # k
<1>2. /\ last \in DOMAIN argv /\ argv[last].key = k
      /\ \A j \in last + 1 .. Len(argv) : argv[j].key # k
  BY <1>1
<1>3. last \in 1 .. Len(argv)
  BY <1>2, WordsTyped
<1>4. A!LastGiven(k) = argv[last].arg
  BY DEF A!LastGiven
<1> HIDE DEF last
<1>5. last = w
  <2>1. ~(last < w)
    BY <1>1, <1>2, <1>3
  <2>2. ~(w < last)
    BY <1>1, <1>2, <1>3
  <2> QED
    BY <1>1, <1>3, <2>1, <2>2
<1> QED
  BY <1>1, <1>4, <1>5 DEF A!Given

(* At the end of the line each option has its default and is not on the    *)
(* line, or it is what its last word makes of it.                          *)
LEMMA OptionAtEnd ==
  ASSUME LineInv, Parsed, next = Len(argv) + 1, NEW k \in A!Known \ {"oids"}
  PROVE  \/ options[k] = Default(k) /\ ~A!Given(k)
         \/ /\ A!Given(k) /\ k \notin A!Numbers
            /\ options[k] = A!LastGiven(k) /\ A!LastGiven(k) # NONE
         \/ A!Given(k) /\ k = "block-size" /\ A!LastGiven(k) = AUTO /\ options[k] = 0
         \/ /\ A!Given(k) /\ k \in A!Numbers
            /\ A!LastGiven(k) \in Int /\ options[k] = A!Saturated(A!LastGiven(k))
<1>1. Len(argv) \in Nat /\ next - 1 = Len(argv) /\ AUTO \notin Int
  BY WordsTyped, Constants
<1>2. CASE options[k] = Default(k) /\ \A w \in 1 .. next - 1 : argv[w].key # k
  <2>1. ~A!Given(k)
    BY <1>1, <1>2, WordsTyped DEF A!Given
  <2> QED
    BY <1>2, <2>1
<1>3. ASSUME NEW w \in 1 .. next - 1, IsLast(w, k), options[k] = Value(argv[w]),
             k \in A!Numbers => argv[w].arg \in Int \/ (k = "block-size" /\ argv[w].arg = AUTO)
      PROVE  A!Given(k) /\ A!LastGiven(k) = argv[w].arg /\ argv[w].key = k
  BY <1>1, <1>3, LastGivenIs DEF IsLast
<1>4. ASSUME NEW w \in 1 .. next - 1, IsLast(w, k), options[k] = Value(argv[w]),
             k \in A!Numbers => argv[w].arg \in Int \/ (k = "block-size" /\ argv[w].arg = AUTO)
      PROVE  \/ /\ A!Given(k) /\ k \notin A!Numbers
                /\ options[k] = A!LastGiven(k) /\ A!LastGiven(k) # NONE
             \/ A!Given(k) /\ k = "block-size" /\ A!LastGiven(k) = AUTO /\ options[k] = 0
             \/ /\ A!Given(k) /\ k \in A!Numbers
                /\ A!LastGiven(k) \in Int /\ options[k] = A!Saturated(A!LastGiven(k))
  <2>1. A!Given(k) /\ A!LastGiven(k) = argv[w].arg /\ argv[w].key = k
    BY <1>3, <1>4
  <2>2. CASE k \notin A!Numbers
    <3>1. k \in A!Options
      <4>1. A!Own(command) \subseteq A!Options /\ A!Globals \subseteq A!Options
        BY OptionKeys DEF Parsed, A!Globals
      <4> QED
        BY <4>1 DEF A!Known
    <3>2. argv[w].arg # NONE
      BY <1>1, <2>1, <3>1, WordsTyped DEF A!IsWord
    <3> QED
      BY <1>4, <2>1, <2>2, <3>2 DEF Value
  <2>3. CASE k \in A!Numbers
    BY <1>1, <1>4, <2>1, <2>3 DEF Value
  <2> QED
    BY <2>2, <2>3
<1>5. OptionIs(k)
  BY DEF Parsed
<1> QED
  BY <1>2, <1>4, <1>5 DEF OptionIs

(* What is mandatory, command by command.                                  *)
LEMMA MandatoryIs ==
  ASSUME command \in A!Commands
  PROVE  \A alternatives : alternatives \in A!Mandatory <=>
           \/ alternatives = {"container"}
           \/ command \in {"list", "recover"} /\ alternatives = {"volume"}
           \/ command \in {"list", "recover"} /\ alternatives = {"fsoid", "path"}
           \/ command = "resolver" /\ alternatives = {"omap", "volume", "volume-name"}
           \/ command = "resolver" /\ alternatives = {"oids"}
           \/ command = "explore-fs-tree" /\ alternatives = {"fs"}
           \/ command = "explore-fs-tree" /\ alternatives = {"omap"}
           \/ command = "explore-omap-tree" /\ alternatives = {"omap"}
           \/ command = "read" /\ alternatives = {"block"}
BY DEF A!Mandatory

(* What is mandatory and not missing has been given.                       *)
LEMMA MissingIs ==
  ASSUME LineInv, Parsed, next = Len(argv) + 1, ~A!Missing,
         NEW alternatives \in A!Mandatory
  PROVE  \E k \in alternatives : A!Given(k)
<1>0. command \in A!Commands
  BY DEF Parsed
<1>1. ASSUME NEW k \in A!Known, k \in {"fsoid", "fs", "omap", "block"}
      PROVE  options[k] # -1 => A!Given(k)
  <2>1. k \in A!Known \ {"oids"} /\ k \in A!Numbers /\ k # "block-size"
    BY <1>1 DEF A!Numbers
  <2>2. Default(k) = -1
    BY <1>1, OptionKeys, DefaultsTyped DEF Default
  <2> QED
    BY <2>1, <2>2, OptionAtEnd, SaturatedIs
<1>2. ASSUME command \in {"list", "recover", "resolver"}
      PROVE  options["volume"] # -1 => A!Given("volume")
  <2>1. "volume" \in A!Known \ {"oids"} /\ "volume" \in A!Numbers
    BY DEF A!Numbers, A!Known, A!Globals
  <2>2. Default("volume") = -1
    BY <1>2 DEF Default
  <2> QED
    BY <2>1, <2>2, OptionAtEnd, SaturatedIs
<1>3. ASSUME NEW k \in A!Known, k \in {"container", "volume-name", "path"}
      PROVE  options[k] # NONE => A!Given(k)
  <2>1. k \in A!Known \ {"oids"} /\ k \notin A!Numbers /\ k # "block-size"
    BY <1>3 DEF A!Numbers
  <2>2. Default(k) = NONE
    BY <1>3, OptionKeys, DefaultsTyped DEF Default
  <2> QED
    BY <2>1, <2>2, OptionAtEnd
<1>4. oids # <<>> => A!Given("oids")
  <2>1. \A w \in 1 .. next - 1 : w \in DOMAIN argv
    BY WordsTyped
  <2> QED
    BY <2>1 DEF Parsed, OidsInv, A!Given
<1>5. {"container", "volume-name"} \subseteq A!Known
  BY DEF A!Known, A!Globals
<1>6. /\ command \in {"list", "recover"} => {"fsoid", "path"} \subseteq A!Known
      /\ command = "resolver" => {"omap", "oids"} \subseteq A!Known
      /\ command = "explore-fs-tree" => {"fs", "omap"} \subseteq A!Known
      /\ command = "explore-omap-tree" => "omap" \in A!Known
      /\ command = "read" => "block" \in A!Known
  BY DEF A!Known, A!Own
<1>7. options["container"] # NONE
  BY DEF A!Missing
<1>8. CASE alternatives = {"container"}
  BY <1>3, <1>5, <1>7, <1>8
<1>9. CASE command \in {"list", "recover"} /\ alternatives = {"volume"}
  BY <1>2, <1>9 DEF A!Missing
<1>10. CASE command \in {"list", "recover"} /\ alternatives = {"fsoid", "path"}
  BY <1>1, <1>3, <1>6, <1>10 DEF A!Missing
<1>11. CASE command = "resolver" /\ alternatives = {"omap", "volume", "volume-name"}
  BY <1>1, <1>2, <1>3, <1>5, <1>6, <1>11 DEF A!Missing, A!NoOmap
<1>12. CASE command = "resolver" /\ alternatives = {"oids"}
  BY <1>4, <1>12 DEF A!Missing
<1>13. CASE command = "explore-fs-tree" /\ alternatives \in {{"fs"}, {"omap"}}
  BY <1>1, <1>6, <1>13 DEF A!Missing
<1>14. CASE command = "explore-omap-tree" /\ alternatives = {"omap"}
  BY <1>1, <1>6, <1>14 DEF A!Missing
<1>15. CASE command = "read" /\ alternatives = {"block"}
  BY <1>1, <1>6, <1>15 DEF A!Missing
<1> QED
  BY <1>0, <1>8, <1>9, <1>10, <1>11, <1>12, <1>13, <1>14, <1>15, MandatoryIs

(* In a line that runs, every option is as its last word says.             *)
LEMMA LineRunsAsAsked ==
  ASSUME LineInv
  PROVE  A!RunsAsAsked
<1> SUFFICES ASSUME status = "running", command # "version"
             PROVE  /\ \A alternatives \in A!Mandatory : \E k \in alternatives : A!Given(k)
                    /\ \A k \in A!Known \ {"oids"} : A!AsGiven(k)
                    /\ Len(oids) = Len(A!AllOids)
                    /\ \A n \in DOMAIN oids :
                         A!Fits(A!AllOids[n]) => oids[n] = A!AllOids[n]
  BY DEF A!RunsAsAsked
<1>1. Parsed /\ next = Len(argv) + 1 /\ ~A!Missing
  BY DEF LineInv
<1>2. ASSUME NEW k \in A!Known \ {"oids"}
      PROVE  A!AsGiven(k)
  <2>1. Default(k) \in {A!Unset[k], -1}
    BY DEF Default
  <2>2. AUTO \notin Int
    BY Constants
  <2>3. "block-size" \in A!Numbers
    BY DEF A!Numbers
  <2> QED
    BY <1>1, <2>1, <2>2, <2>3, OptionAtEnd, SaturatedIs DEF A!AsGiven
<1>3. PICK seen : /\ AreSeen(seen) /\ seen[next - 1] \in Seq(Int)
                  /\ Len(oids) = Len(seen[next - 1])
                  /\ \A n \in 1 .. Len(oids) : oids[n] = A!Saturated(seen[next - 1][n])
  BY <1>1 DEF Parsed, OidsInv
<1>4. A!AllOids = seen[next - 1]
  BY <1>1, <1>3, AllSeen
<1>5. ASSUME NEW n \in DOMAIN oids
      PROVE  A!Fits(A!AllOids[n]) => oids[n] = A!AllOids[n]
  <2>1. oids \in Seq((-MaxInt - 1 .. MaxInt) \ {-1})
    BY DEF LineInv
  <2>2. n \in 1 .. Len(oids)
    BY <2>1
  <2>3. seen[next - 1][n] \in Int
    BY <1>3, <2>2
  <2> QED
    BY <1>3, <1>4, <2>2, <2>3, SaturatedIs
<1> QED
  BY <1>1, <1>2, <1>3, <1>4, <1>5, MissingIs
-----------------------------------------------------------------------------
(* Lemmas about the explorers.                                             *)
(* What the constants of the explorers are.                                *)
LEMMA SessionConstants ==
  /\ Addr \subseteq Nat /\ \A d \in Devices : E!IsDevice(d)
  /\ Places \in Nat \ {0} /\ \A a \in Addr : a < Places
  /\ Width \in Nat \ {0} /\ Answers \subseteq Int /\ ANY_XID \in Nat
  /\ Refs \subseteq Nat /\ NULL \notin Refs \union E!Node \union E!Unread
  /\ E!Unread \intersect Refs = {} /\ NONE \notin Devices
BY ExploreAssumption DEF E!Parameters

(* Among the entries of an object map that are visible there is a newest.  *)
LEMMA NewestExists ==
  ASSUME NEW S \in SUBSET E!Mapping, S # {}
  PROVE  \E e \in S : \A f \in S : f.xid <= e.xid
<1> DEFINE Gap(e) == ANY_XID - e.xid
           Gaps == {Gap(e) : e \in S}
           R == OpToRel(<, Nat)
<1>1. \A e \in S : e.xid \in 0 .. ANY_XID /\ Gap(e) \in Nat
  BY SessionConstants DEF E!Mapping
<1>2. Gaps \in SUBSET Nat /\ Gaps # {}
  BY <1>1
<1>3. IsWellFoundedOn(R, Nat)
  BY NatLessThanWellFounded
<1>4. \A m, n \in Nat : m < n => <<m, n>> \in R
  BY DEF OpToRel
<1> HIDE DEF R, Gaps
<1>5. PICK n \in Gaps : \A m \in Gaps : <<m, n>> \notin R
  <2>1. \E n \in Gaps : \A m \in Gaps : ~ (<<m, n>> \in R)
    BY <1>2, <1>3, WFMin
  <2> QED
    BY <2>1
<1>6. PICK e \in S : n = Gap(e)
  BY DEF Gaps
<1>7. ASSUME NEW f \in S
      PROVE  f.xid <= e.xid
  <2>1. Gap(f) \in Gaps
    BY DEF Gaps
  <2>2. ~(Gap(f) < Gap(e))
    BY <1>1, <1>4, <1>5, <1>6, <2>1
  <2> QED
    BY <1>1, <2>2, SessionConstants
<1> QED
  BY <1>7

(* What is read.                                                           *)
LEMMA BlockTyped ==
  ASSUME E!TypeOK, device # NONE, NEW a
  PROVE  E!Block(a) \in E!Node \union E!Unread
<1>1. E!IsDevice(device)
  BY SessionConstants DEF E!TypeOK
<1>2. \A b \in Addr : device.disk[b] \in E!Node \union {LOST}
  BY <1>1 DEF E!IsDevice
<1> QED
  BY <1>2 DEF E!Block, E!BlockOf, E!Unread

(* The parts of a node.                                                    *)
LEMMA NodeTyped ==
  ASSUME NEW n \in E!Node
  PROVE  /\ n.fixed \in BOOLEAN /\ n.leaf \in BOOLEAN /\ n.xid \in 0 .. ANY_XID
         /\ n.entries \in Seq(E!Entry) /\ Len(n.entries) \in Nat
         /\ \A i \in 0 .. Len(n.entries) - 1 :
              /\ i + 1 \in DOMAIN n.entries
              /\ n.entries[i + 1] \in E!Entry /\ n.entries[i + 1].to \in Refs
         /\ \A i \in DOMAIN n.entries : n.entries[i].to \in Refs
<1>1. n.fixed \in BOOLEAN /\ n.leaf \in BOOLEAN /\ n.xid \in 0 .. ANY_XID /\ n.entries \in Seq(E!Entry)
  BY DEF E!Node
<1>2. Len(n.entries) \in Nat
  BY <1>1
<1>3. DOMAIN n.entries = 1 .. Len(n.entries)
  BY <1>1
<1>4. \A i \in DOMAIN n.entries : n.entries[i] \in E!Entry /\ n.entries[i].to \in Refs
  <2>1. \A i \in DOMAIN n.entries : n.entries[i] \in E!Entry
    BY <1>1
  <2>2. \A e \in E!Entry : e.to \in Refs
    BY DEF E!Entry
  <2> QED
    BY <2>1, <2>2
<1>5. \A i \in 0 .. Len(n.entries) - 1 : i + 1 \in DOMAIN n.entries
  BY <1>2, <1>3
<1> QED
  BY <1>1, <1>2, <1>4, <1>5

(* The lookup answers with what the newest entry that is visible maps to,  *)
(* if there is one and no node on the way to it is missing.                *)
LEMMA LookupIs ==
  ASSUME E!TypeOK, device # NONE, E!Place(address.omap) \in device.roots,
         NEW o \in Refs, NEW x \in 0 .. ANY_XID,
         NEW found, found = E!NodeFound(device, E!Place(address.omap), o, x),
         NEW seen, seen = E!Seen(o, x), NEW v, v = E!Lookup(o, x)
  PROVE  /\ found \in E!Unread => v = found
         /\ found \notin E!Unread /\ seen = {} => v = NULL
         /\ found \notin E!Unread /\ seen # {} => v = E!Newest(seen).v /\ v \in Refs
<1>1. PICK root : root = E!Place(address.omap)
  OBVIOUS
<1>2. E!IsDevice(device)
  BY SessionConstants DEF E!TypeOK
<1>3. root \in Addr /\ device.map[root] \in SUBSET E!Mapping /\ E!LooksUp(device, root, o, x)
  BY <1>1, <1>2 DEF E!IsDevice
<1>4. v = E!LookupIn(device, root, o, x) /\ found = E!NodeFound(device, root, o, x)
  BY <1>1 DEF E!Lookup
<1>5. CASE found \in E!Unread
  <2>1. found \in E!Node \union E!Unread
    BY <1>5
  <2>2. v = found
    BY <1>4, <1>5, <2>1 DEF E!LookupIn
  <2> QED
    BY <1>5, <2>2
<1>6. CASE found \notin E!Unread
  <2>1. v = IF seen = {} THEN NULL ELSE E!Newest(seen).v
    BY <1>1, <1>3, <1>4, <1>6 DEF E!LooksUp, E!Seen
  <2>2. seen \in SUBSET E!Mapping
    BY <1>1, <1>3 DEF E!Seen, E!Visible
  <2>3. ASSUME seen # {}
        PROVE  E!Newest(seen).v \in Refs
    <3>1. \E e \in seen : \A f \in seen : f.xid <= e.xid
      BY <2>2, <2>3, NewestExists
    <3>2. E!Newest(seen) \in seen
      BY <3>1 DEF E!Newest
    <3> QED
      BY <2>2, <3>2 DEF E!Mapping
  <2> QED
    BY <1>6, <2>1, <2>3
<1> QED
  BY <1>5, <1>6

(* The block of a child in a file-system tree, or what there is instead.   *)
LEMMA FollowIs ==
  ASSUME E!TypeOK, device # NONE, E!Place(address.omap) \in device.roots,
         NEW o \in Refs, NEW x \in 0 .. ANY_XID,
         NEW seen, seen = E!Seen(o, x), NEW child, child = E!Follow(E!Lookup(o, x))
  PROVE  /\ child = NULL => seen = {}
         /\ child \in E!Unread =>
              \/ E!NodeFound(device, E!Place(address.omap), o, x) = child
              \/ seen # {} /\ E!Block(E!Newest(seen).v) = child
         /\ child # NULL /\ child \notin E!Unread =>
              seen # {} /\ child = E!Block(E!Newest(seen).v) /\ child \in E!Node
<1>1. PICK found, v : /\ found = E!NodeFound(device, E!Place(address.omap), o, x)
                      /\ v = E!Lookup(o, x)
  OBVIOUS
<1>2. child = IF v = NULL \/ v \in E!Unread THEN v ELSE E!Block(v)
  BY <1>1 DEF E!Follow
<1>3. PICK b : b = E!Block(v)
  OBVIOUS
<1>4. b \in E!Node \union E!Unread /\ b # NULL
  BY <1>3, BlockTyped, SessionConstants
<1>l. /\ found \in E!Unread => v = found
      /\ found \notin E!Unread /\ seen = {} => v = NULL
      /\ found \notin E!Unread /\ seen # {} => v = E!Newest(seen).v /\ v \in Refs
  BY <1>1, LookupIs
<1>5. CASE found \in E!Unread
  <2>1. v = found
    BY <1>5, <1>l
  <2> QED
    BY <1>1, <1>2, <1>5, <2>1, SessionConstants
<1>6. CASE found \notin E!Unread /\ seen = {}
  <2>1. v = NULL
    BY <1>6, <1>l
  <2> QED
    BY <1>2, <1>6, <2>1, SessionConstants
<1>7. CASE found \notin E!Unread /\ seen # {}
  <2>1. v = E!Newest(seen).v /\ v \in Refs
    BY <1>7, <1>l
  <2>2. child = b
    BY <1>2, <1>3, <2>1, SessionConstants
  <2> QED
    BY <1>3, <1>4, <1>7, <2>1, <2>2
<1> QED
  BY <1>5, <1>6, <1>7

-----------------------------------------------------------------------------
(* Paths: the nodes that answers lead to.                                  *)

(* What Trail computes is the path.                                        *)
LEMMA TrailIs ==
  ASSUME typed \in Seq(Answers), NEW path, IsPath(path, typed), NEW end \in 0 .. Len(typed)
  PROVE  E!Trail(end) = path[end]
<1> DEFINE Below(n, k) ==
             LET i == typed[k] % Width
             IN IF n \in E!Unread \/ i >= Len(n.entries) \/ n.leaf THEN n
                ELSE LET to == n.entries[i + 1].to IN
                     IF ~E!ExploresFs THEN E!Block(to)
                     ELSE LET seen == E!Seen(to, E!Root.xid) IN
                          IF seen = {} THEN LOST ELSE E!Block(E!Newest(seen).v)
           Body(f, k) == IF k = 0 THEN E!Root ELSE Below(f[k - 1], k)
           upTo == CHOOSE f : f = [k \in 0 .. Len(typed) |-> Body(f, k)]
           T == {k \in 0 .. Len(typed) : upTo[k] = path[k]}
<1>1. Len(typed) \in Nat
  OBVIOUS
<1>2. E!Trail(end) = upTo[end]
  BY DEF E!Trail
<1>3. \A n, k : Below(n, k) = NodeBelow(n, typed[k])
  BY DEF NodeBelow
<1> HIDE DEF Below
<1>4. path = [k \in 0 .. Len(typed) |-> Body(path, k)]
  <2>1. \A k \in 0 .. Len(typed) : k = 0 \/ k \in 1 .. Len(typed)
    BY <1>1
  <2>2. \A k \in 0 .. Len(typed) : path[k] = Body(path, k)
    BY <1>1, <1>3, <2>1 DEF IsPath
  <2> QED
    BY <2>2 DEF IsPath
<1>5. upTo = [k \in 0 .. Len(typed) |-> Body(upTo, k)]
  BY <1>4
<1> HIDE DEF upTo
<1>6. 0 \in T
  BY <1>1, <1>5 DEF IsPath
<1>7. ASSUME NEW l \in 0 .. Len(typed) - 1, l \in T
      PROVE  l + 1 \in T
  <2>1. l + 1 \in 0 .. Len(typed) /\ (l + 1) - 1 = l /\ l + 1 # 0
    BY <1>1
  <2>2. upTo[l] = path[l]
    BY <1>7
  <2>3. upTo[l + 1] = Below(upTo[l], l + 1) /\ path[l + 1] = Below(path[l], l + 1)
    BY <1>4, <1>5, <2>1
  <2> QED
    BY <2>1, <2>2, <2>3
<1>8. \A l \in 0 .. Len(typed) : l \in T
  <2> HIDE DEF T
  <2> QED
    BY <1>1, <1>6, <1>7, UpTo
<1>9. end \in T
  <2> HIDE DEF T
  <2> QED
    BY <1>8
<1> QED
  BY <1>2, <1>9

-----------------------------------------------------------------------------
(* Steps of a session.                                                     *)

(* What the device, the command and its options determine.                 *)
LEMMA Kept ==
  ASSUME UNCHANGED <<device, explorer, address>>
  PROVE  /\ \A a : E!Block(a)' = E!Block(a)
         /\ (E!ExploresFs' <=> E!ExploresFs) /\ (E!RootsReadable' <=> E!RootsReadable)
         /\ \A what : E!RootsMeet(what)' <=> E!RootsMeet(what)
         /\ MapGiven' <=> MapGiven
         /\ \A n, how : HasReason(n, how)' <=> HasReason(n, how)
         /\ \A path, answers : IsPath(path, answers)' <=> IsPath(path, answers)
<1>1. \A a : E!Block(a)' = E!Block(a)
  BY DEF E!Block
<1>2. E!ExploresFs' <=> E!ExploresFs
  BY DEF E!ExploresFs
<1>3. E!Roots' = E!Roots
  BY DEF E!Roots
<1>4. E!RootsReadable' <=> E!RootsReadable
  BY <1>1, <1>3 DEF E!RootsReadable
<1>5. \A what : E!RootsMeet(what)' <=> E!RootsMeet(what)
  BY <1>1, <1>3 DEF E!RootsMeet
<1>6. MapGiven' <=> MapGiven
  BY DEF MapGiven, E!Block
<1>7. E!Root' = E!Root
  <2>1. PICK r : r = address[E!Roots[1]]
    OBVIOUS
  <2>2. E!Root = E!Block(r)
    BY <2>1 DEF E!Root
  <2>3. E!Root' = E!Block(r)'
    BY <1>3, <2>1 DEF E!Root
  <2> QED
    BY <1>1, <2>2, <2>3
<1>8. \A o, x : E!Seen(o, x)' = E!Seen(o, x)
  BY DEF E!Seen
<1>9. \A n, what : E!Dangling(n, what)' <=> E!Dangling(n, what)
  <2>1. \A o, x, what : E!LeadsTo(o, x, what)' <=> E!LeadsTo(o, x, what)
    BY DEF E!LeadsTo, E!Seen, E!Block
  <2> QED
    BY <1>1, <1>2, <1>7, <2>1 DEF E!Dangling
<1>10. \A n, how : HasReason(n, how)' <=> HasReason(n, how)
  BY <1>2, <1>7, <1>8, <1>9 DEF HasReason
<1>11. \A n, answer : NodeBelow(n, answer)' = NodeBelow(n, answer)
  BY <1>1, <1>2, <1>7, <1>8 DEF NodeBelow
<1>12. \A path, answers : IsPath(path, answers)' <=> IsPath(path, answers)
  BY <1>7, <1>11 DEF IsPath
<1> QED
  BY <1>1, <1>2, <1>4, <1>5, <1>6, <1>10, <1>12

(* The blocks an explorer begins with.                                     *)
LEMMA RootIs ==
  ASSUME SessionInv, E!RootsReadable, state # "idle",
         explorer \in {"explore-fs-tree", "explore-omap-tree"}
  PROVE  /\ device # NONE /\ E!Root \in E!Node /\ E!Root \notin E!Unread
         /\ E!ExploresFs => E!Place(address.omap) \in device.roots
<1>1. E!TypeOK /\ device # NONE /\ MapGiven
  BY DEF SessionInv, E!RootsReadable
<1>2. 1 \in DOMAIN E!Roots /\ (E!ExploresFs => 2 \in DOMAIN E!Roots /\ E!Roots[2] = "omap")
  BY DEF E!Roots, E!ExploresFs
<1>3. E!Root \notin E!Unread
  BY <1>2 DEF E!RootsReadable, E!Root
<1>4. E!ExploresFs => E!Block(address["omap"]) \notin E!Unread
  BY <1>2 DEF E!RootsReadable
<1>5. E!Root \in E!Node
  <2>1. E!Root = E!Block(address[E!Roots[1]])
    BY DEF E!Root
  <2> QED
    BY <1>1, <1>3, <2>1, BlockTyped
<1> QED
  BY <1>1, <1>3, <1>4, <1>5 DEF MapGiven, E!ExploresFs

(* How the program ends when it meets no block.                            *)
LEMMA DanglingStops ==
  ASSUME NEW n, NEW what \in E!Unread, E!Dangling(n, what)
  PROVE  E!Ending(what) \in {"failed", "aborted"} /\ HasReason(n, E!Ending(what))
BY DEF E!Ending, E!Unread, HasReason

(* A lookup that leads to no block is a reason to stop.                    *)
LEMMA LookupStops ==
  ASSUME SessionInv, E!RootsReadable, state # "idle", E!ExploresFs,
         NEW n, ~n.leaf, NEW i \in DOMAIN n.entries,
         NEW to \in Refs, to = n.entries[i].to, NEW x \in {ANY_XID, E!Root.xid},
         NEW child \in E!Unread, child = E!Follow(E!Lookup(to, x))
  PROVE  E!Dangling(n, child)
<1>1. /\ E!TypeOK /\ device # NONE /\ E!Root \in E!Node
      /\ E!Place(address.omap) \in device.roots
  BY RootIs DEF SessionInv, E!ExploresFs
<1>2. x \in 0 .. ANY_XID
  BY <1>1, NodeTyped, SessionConstants
<1>3. PICK seen : seen = E!Seen(to, x)
  OBVIOUS
<1>4. \/ E!NodeFound(device, E!Place(address.omap), to, x) = child
      \/ seen # {} /\ E!Block(E!Newest(seen).v) = child
  BY <1>1, <1>2, <1>3, FollowIs
<1> QED
  BY <1>3, <1>4 DEF E!Dangling, E!LeadsTo

(* An answer leads to a child, if it is mapped and can be read; if not,    *)
(* there is a reason to stop.                                              *)
LEMMA ChildIs ==
  ASSUME SessionInv, E!RootsReadable, state # "idle",
         explorer \in {"explore-fs-tree", "explore-omap-tree"},
         node \notin E!Unread, ~node.leaf, NEW k \in 0 .. Width - 1, k < Len(node.entries),
         NEW to, to = node.entries[k + 1].to, NEW child, child = E!Child(to)
  PROVE  /\ child = NULL => HasReason(node, "ended")
         /\ child \in E!Unread => E!Dangling(node, child)
         /\ child # NULL /\ child \notin E!Unread =>
              /\ child \in E!Node
              /\ \A answer \in Int : answer % Width = k => NodeBelow(node, answer) = child
<1>1. E!TypeOK /\ node \in E!Node /\ device # NONE /\ E!Root \in E!Node
  BY RootIs DEF SessionInv, E!TypeOK
<1>2. k + 1 \in DOMAIN node.entries /\ to \in Refs /\ ~(k >= Len(node.entries))
  <2>1. k \in 0 .. Len(node.entries) - 1 /\ ~(k >= Len(node.entries))
    BY <1>1, NodeTyped, SessionConstants
  <2> QED
    BY <1>1, <2>1, NodeTyped
<1>3. CASE ~E!ExploresFs
  <2>1. child = E!Block(to)
    BY <1>2, <1>3, SessionConstants DEF E!Child, E!Follow
  <2>2. child \in E!Node \union E!Unread /\ child # NULL
    BY <1>1, <2>1, BlockTyped, SessionConstants
  <2>3. child \in E!Unread => E!Dangling(node, child)
    BY <1>2, <1>3, <2>1 DEF E!Dangling
  <2>4. \A answer \in Int : answer % Width = k => NodeBelow(node, answer) = child
    BY <1>2, <1>3, <2>1 DEF NodeBelow
  <2> QED
    BY <2>2, <2>3, <2>4
<1>4. CASE E!ExploresFs
  <2>1. PICK x, seen : x = E!Root.xid /\ seen = E!Seen(to, x)
    OBVIOUS
  <2>2. x \in 0 .. ANY_XID /\ E!Place(address.omap) \in device.roots
    BY <1>1, <1>4, <2>1, NodeTyped, RootIs
  <2>3. child = E!Follow(E!Lookup(to, x))
    BY <1>4, <2>1 DEF E!Child
  <2>4. /\ child = NULL => seen = {}
        /\ child # NULL /\ child \notin E!Unread =>
             seen # {} /\ child = E!Block(E!Newest(seen).v) /\ child \in E!Node
    BY <1>1, <1>2, <2>1, <2>2, <2>3, FollowIs
  <2>5. seen = {} => HasReason(node, "ended")
    BY <1>2, <1>4, <2>1 DEF HasReason
  <2>6. child \in E!Unread => E!Dangling(node, child)
    BY <1>2, <1>4, <2>1, <2>3, LookupStops
  <2>7. ASSUME seen # {}, NEW answer \in Int, answer % Width = k
        PROVE  NodeBelow(node, answer) = E!Block(E!Newest(seen).v)
    BY <1>2, <1>4, <2>1, <2>7 DEF NodeBelow
  <2> QED
    BY <2>4, <2>5, <2>6, <2>7
<1> QED
  BY <1>3, <1>4

(* A path with one more answer.                                            *)
LEMMA PathOn ==
  ASSUME typed \in Seq(Answers), NEW path, IsPath(path, typed), NEW answer \in Answers,
         NEW n \in E!Node \union E!Unread, n = NodeBelow(path[Len(typed)], answer)
  PROVE  \E path2 : /\ IsPath(path2, Append(typed, answer))
                    /\ path2[Len(typed)] = path[Len(typed)] /\ path2[Len(typed) + 1] = n
<1> DEFINE typed2 == Append(typed, answer)
           len == Len(typed)
           path2 == [k \in 0 .. len + 1 |-> IF k <= len THEN path[k] ELSE n]
<1>1. /\ len \in Nat /\ Len(typed2) = len + 1 /\ typed2[len + 1] = answer
      /\ \A k \in 1 .. len : typed2[k] = typed[k]
  OBVIOUS
<1>2. /\ path \in [0 .. len -> E!Node \union E!Unread] /\ path[0] = E!Root
      /\ \A k \in 1 .. len : path[k] = NodeBelow(path[k - 1], typed[k])
  BY DEF IsPath
<1> HIDE DEF typed2, len
<1>3. path2 \in [0 .. len + 1 -> E!Node \union E!Unread]
  <2>1. \A k \in 0 .. len + 1 : k \in 0 .. len \/ ~(k <= len)
    BY <1>1
  <2> QED
    BY <1>2, <2>1
<1>4. path2[0] = E!Root
  BY <1>1, <1>2
<1>5. path2[len] = path[len] /\ path2[len + 1] = n
  BY <1>1
<1>6. ASSUME NEW k \in 1 .. len + 1
      PROVE  path2[k] = NodeBelow(path2[k - 1], typed2[k])
  <2>1. CASE k = len + 1
    <3>1. k - 1 = len
      BY <1>1, <2>1
    <3> QED
      BY <1>1, <1>5, <2>1, <3>1 DEF len
  <2>2. CASE k # len + 1
    <3>1. k \in 1 .. len /\ k <= len /\ k - 1 \in 0 .. len + 1 /\ k - 1 <= len
      BY <1>1, <2>2
    <3>2. path2[k] = path[k] /\ path2[k - 1] = path[k - 1]
      BY <1>1, <3>1
    <3> HIDE DEF path2
    <3> QED
      BY <1>1, <1>2, <3>1, <3>2
  <2> QED
    BY <2>1, <2>2
<1> HIDE DEF path2
<1>7. IsPath(path2, typed2)
  BY <1>1, <1>3, <1>4, <1>6 DEF IsPath
<1> QED
  BY <1>5, <1>7 DEF typed2, len

(* One more step of a session under way.                                   *)
LEMMA GoesOn ==
  ASSUME SessionInv, UNCHANGED <<device, explorer, address>>, UNCHANGED line,
         state # "idle", E!RootsReadable, state' \in Exploring \union {"done", "aborted"},
         node' \in E!Node, entry_index' \in (0 .. Width - 1) \union {NONE},
         typed' \in Seq(Answers), stuck' \in BOOLEAN, shown' \in E!Entry \union {NONE},
         node' \notin E!Unread, state' \in Exploring => explorer # "read",
         state' \in {"listing", "asking"} /\ ~stuck' => OnPath',
         state' = "done" /\ ~stuck' =>
           IF explorer = "read" THEN node' = E!Block(address.block) ELSE AtEnd',
         state' \in {"aborted", "failed", "ended"} => HasReason(node', state')
  PROVE  SessionInv'
<1>1. UNCHANGED <<argv, next, command, options, oids, status>>
  BY DEF line
<1>2. E!TypeOK'
  BY DEF SessionInv, E!TypeOK, Exploring
<1>3. HasReason(node', state') <=> HasReason(node, state)'
  <2>1. PICK n, how : n = node' /\ how = state'
    OBVIOUS
  <2>2. HasReason(n, how)' <=> HasReason(n, how)
    BY Kept
  <2>3. HasReason(node, state)' <=> HasReason(n, how)'
    BY <2>1 DEF HasReason, E!Seen, E!LeadsTo, E!Dangling
  <2> QED
    BY <2>1, <2>2, <2>3
<1>4. E!Block(address.block)' = E!Block(address.block)
  <2>1. PICK a : a = address.block
    OBVIOUS
  <2>2. E!Block(a)' = E!Block(a)
    BY Kept
  <2> QED
    BY <2>1, <2>2 DEF E!Block
<1>5. (E!RootsReadable' <=> E!RootsReadable) /\ (MapGiven' <=> MapGiven)
  BY Kept
<1>6. state' \notin {"idle", "opening", "noinput"}
  BY DEF Exploring
<1>7. E!Unread' = E!Unread
  BY DEF E!Unread
<1> QED
  BY <1>1, <1>2, <1>3, <1>4, <1>5, <1>6, <1>7 DEF SessionInv

(* An entry is taken.                                                      *)
LEMMA Takes ==
  ASSUME SessionInv, state = "asking", NEW k \in 0 .. Width - 1, E!InRange(k), E!Take(k),
         UNCHANGED <<device, explorer, address>>
  PROVE  /\ node' \in E!Node /\ shown' \in E!Entry \union {NONE} /\ node' \notin E!Unread
         /\ \/ /\ state' = "done" /\ node.leaf /\ node' = node
               /\ shown' = node.entries[k + 1]
            \/ state' \in {"ended", "failed", "aborted"} /\ HasReason(node', state')
            \/ /\ state' = "listing" /\ ~node.leaf
               /\ \A answer \in Int : answer % Width = k => NodeBelow(node, answer) = node'
<1>1. /\ E!TypeOK /\ E!RootsReadable /\ node \in E!Node /\ node \notin E!Unread
      /\ explorer \in {"explore-fs-tree", "explore-omap-tree"} /\ k < Len(node.entries)
      /\ shown \in E!Entry \union {NONE} /\ state # "idle"
  BY DEF SessionInv, E!TypeOK, E!InRange, E!Entries, Exploring
<1>2. CASE E!ShowEntry(k)
  <2>1. node.leaf /\ shown' = node.entries[k + 1] /\ state' = "done" /\ node' = node
    BY <1>2 DEF E!ShowEntry, E!Entries
  <2>2. node.entries[k + 1] \in E!Entry
    BY <1>1, NodeTyped, SessionConstants
  <2> QED
    BY <1>1, <2>1, <2>2
<1>3. PICK to, child : to = node.entries[k + 1].to /\ child = E!Child(to)
  OBVIOUS
<1>4. CASE E!ChildUnmapped(k)
  <2>1. ~node.leaf /\ child = NULL /\ state' = "ended" /\ node' = node /\ shown' = shown
    BY <1>3, <1>4 DEF E!ChildUnmapped, E!Entries
  <2>2. HasReason(node, "ended")
    BY <1>1, <1>3, <2>1, ChildIs
  <2> QED
    BY <1>1, <2>1, <2>2
<1>5. CASE E!ChildUnreadable(k)
  <2>1. /\ ~node.leaf /\ child \in E!Unread
        /\ state' = E!Ending(child) /\ node' = node /\ shown' = shown
    BY <1>3, <1>5 DEF E!ChildUnreadable, E!Entries
  <2>2. E!Dangling(node, child)
    BY <1>1, <1>3, <2>1, ChildIs
  <2>3. E!Ending(child) \in {"failed", "aborted"} /\ HasReason(node, E!Ending(child))
    BY <2>1, <2>2, DanglingStops
  <2> QED
    BY <1>1, <2>1, <2>3
<1>6. CASE E!Descend(k)
  <2>1. /\ ~node.leaf /\ child # NULL /\ child \notin E!Unread /\ node' = child
        /\ state' = "listing" /\ shown' = shown
    BY <1>3, <1>6 DEF E!Descend, E!Entries
  <2>2. child \in E!Node /\ \A answer \in Int : answer % Width = k => NodeBelow(node, answer) = child
    BY <1>1, <1>3, <2>1, ChildIs
  <2> QED
    BY <1>1, <2>1, <2>2
<1> QED
  BY <1>2, <1>4, <1>5, <1>6 DEF E!Take

(* A session begins with the options that are on the line.                 *)
LEMMA Dispatches ==
  ASSUME LineInv, SessionInv, Dispatch
  PROVE  SessionInv'
<1> DEFINE given == [fs |-> options["fs"], omap |-> options["omap"], block |-> options["block"]]
<1>1. /\ status = "running" /\ command \in {"read", "explore-fs-tree", "explore-omap-tree"}
      /\ state = "idle" /\ explorer' = command /\ address' = given
      /\ device' \in Devices \union {NONE} /\ state' = "opening"
      /\ UNCHANGED <<node, entry_index, typed, stuck, shown>>
      /\ UNCHANGED <<status, command, options>>
  BY DEF Dispatch, E!Call, line
<1>2. \A k \in {"fs", "omap", "block"} : given[k] = options[k] /\ given[k] \in Int
  <2>1. {"fs", "omap", "block"} \subseteq A!Numbers
    BY DEF A!Numbers
  <2>2. MaxInt \in Nat
    BY Constants
  <2> QED
    BY <2>1, <2>2 DEF LineInv
<1> HIDE DEF given
<1>3. MapGiven'
  <2>1. command = "explore-fs-tree" /\ device' # NONE =>
          \/ E!BlockOf(device', given.omap) \in E!Unread
          \/ E!Place(given.omap) \in device'.roots
    BY DEF Dispatch, E!Call, given
  <2> QED
    BY <1>1, <2>1 DEF MapGiven, E!Block
<1>4. E!TypeOK'
  <2>1. E!TypeOK
    BY DEF SessionInv
  <2> QED
    BY <1>1, <1>2, <2>1 DEF E!TypeOK
<1>5. typed' = <<>>
  BY <1>1 DEF SessionInv
<1> QED
  BY <1>1, <1>2, <1>3, <1>4, <1>5 DEF SessionInv, Exploring

(* The first blocks are read.                                              *)
LEMMA Opens ==
  ASSUME SessionInv, UNCHANGED line, E!NoInput \/ E!RootBeyond \/ E!ShowBlock \/ E!ReadRoots
  PROVE  SessionInv'
<1>0. /\ E!TypeOK /\ node \in E!Node /\ entry_index \in (0 .. Width - 1) \union {NONE}
      /\ typed \in Seq(Answers) /\ stuck \in BOOLEAN /\ shown \in E!Entry \union {NONE}
  BY DEF SessionInv, E!TypeOK
<1>1. CASE E!NoInput \/ E!RootBeyond
  <2>1. /\ state = "opening"
        /\ \/ state' = "noinput" /\ (device # NONE => E!RootsMeet(LOST))
           \/ state' = "aborted" /\ E!RootsMeet(BEYOND)
        /\ UNCHANGED <<device, explorer, address, node, entry_index, typed, stuck, shown>>
    BY <1>1 DEF E!NoInput, E!RootBeyond, E!End, E!session
  <2>2. E!TypeOK'
    BY <1>0, <2>1 DEF E!TypeOK
  <2>3. UNCHANGED <<status, command, options>>
    BY DEF line
  <2>4. (MapGiven' <=> MapGiven) /\ \A what : E!RootsMeet(what)' <=> E!RootsMeet(what)
    BY <2>1, Kept
  <2>5. /\ state' = "noinput" /\ device' # NONE => E!RootsMeet(LOST)'
        /\ state' = "aborted" => E!RootsMeet(BEYOND)'
    BY <2>1, <2>4
  <2> QED
    BY <2>1, <2>2, <2>3, <2>4, <2>5 DEF SessionInv, Exploring
<1>2. CASE E!ShowBlock
  <2>1. /\ state = "opening" /\ explorer = "read" /\ E!RootsReadable
        /\ node' = E!Block(address.block) /\ state' = "done"
        /\ UNCHANGED <<device, explorer, address, entry_index, typed, stuck, shown>>
    BY <1>2 DEF E!ShowBlock, E!session
  <2>2. E!Roots = <<"block">>
    BY <2>1 DEF E!Roots
  <2>3. E!Block(address["block"]) \notin E!Unread /\ device # NONE
    <3>1. 1 \in DOMAIN E!Roots /\ E!Roots[1] = "block"
      BY <2>2
    <3> QED
      BY <2>1, <3>1 DEF E!RootsReadable
  <2>4. node' \in E!Node /\ node' \notin E!Unread
    BY <1>0, <2>1, <2>3, BlockTyped
  <2> QED
    BY <1>0, <2>1, <2>4, GoesOn DEF Exploring
<1>3. CASE E!ReadRoots
  <2>1. /\ state = "opening" /\ explorer # "read" /\ E!RootsReadable
        /\ node' = E!Root /\ state' = "listing"
        /\ UNCHANGED <<device, explorer, address, entry_index, typed, stuck, shown>>
    BY <1>3 DEF E!ReadRoots, E!session, E!Root
  <2>2. explorer \in {"explore-fs-tree", "explore-omap-tree"} /\ typed = <<>> /\ state # "idle"
    BY <2>1 DEF SessionInv
  <2>3. node' \in E!Node /\ node' \notin E!Unread
    BY <2>1, <2>2, RootIs
  <2>4. OnPath'
    <3>1. PICK path : path = [k \in 0 .. 0 |-> E!Root]
      OBVIOUS
    <3>2. Len(typed) = 0
      BY <2>2
    <3>3. IsPath(path, typed)
      BY <2>1, <2>3, <3>1, <3>2 DEF IsPath
    <3>4. IsPath(path, typed)'
      <4>1. PICK t : t = typed
        OBVIOUS
      <4>2. IsPath(path, t)' <=> IsPath(path, t)
        BY <2>1, Kept
      <4>3. IsPath(path, typed)' <=> IsPath(path, t)'
        BY <2>1, <4>1 DEF IsPath
      <4> QED
        BY <3>3, <4>1, <4>2, <4>3
    <3>5. path[Len(typed')] = node'
      BY <2>1, <3>1, <3>2
    <3> QED
      BY <3>4, <3>5 DEF OnPath
  <2> QED
    BY <1>0, <2>1, <2>3, <2>4, GoesOn DEF Exploring
<1> QED
  BY <1>1, <1>2, <1>3

(* A session whose path is as it was.                                      *)
LEMMA OnPathKept ==
  ASSUME OnPath, UNCHANGED <<device, explorer, address, typed, node>>
  PROVE  OnPath'
<1>1. PICK path : IsPath(path, typed) /\ path[Len(typed)] = node
  BY DEF OnPath
<1>2. PICK t : t = typed
  OBVIOUS
<1>3. IsPath(path, t)' <=> IsPath(path, t)
  BY Kept
<1>4. IsPath(path, typed)'
  BY <1>1, <1>2, <1>3 DEF IsPath
<1> QED
  BY <1>1, <1>4 DEF OnPath

(* A node is listed.                                                       *)
LEMMA Lists ==
  ASSUME SessionInv, UNCHANGED line, E!WrongKind \/ E!NoEntries \/ E!CannotList \/ E!ListNode
  PROVE  SessionInv'
<1>0. /\ E!TypeOK /\ node \in E!Node /\ entry_index \in (0 .. Width - 1) \union {NONE}
      /\ typed \in Seq(Answers) /\ stuck \in BOOLEAN /\ shown \in E!Entry \union {NONE}
  BY DEF SessionInv, E!TypeOK
<1>1. /\ state = "listing" /\ state # "idle" /\ E!RootsReadable /\ node \notin E!Unread
      /\ explorer \in {"explore-fs-tree", "explore-omap-tree"}
      /\ ~stuck => OnPath
  <2>1. state = "listing"
    BY DEF E!WrongKind, E!NoEntries, E!CannotList, E!ListNode, E!Listable
  <2> QED
    BY <2>1 DEF SessionInv, Exploring
<1>2. CASE E!WrongKind
  <2>1. /\ HasReason(node, "ended") /\ state' = "ended"
        /\ UNCHANGED <<device, explorer, address, node, entry_index, typed, stuck, shown>>
    BY <1>2 DEF E!WrongKind, E!End, E!session, HasReason
  <2> QED
    BY <1>0, <1>1, <2>1, GoesOn DEF Exploring
<1>3. CASE E!NoEntries
  <2>1. /\ HasReason(node, "aborted") /\ state' = "aborted"
        /\ UNCHANGED <<device, explorer, address, node, entry_index, typed, stuck, shown>>
    BY <1>3 DEF E!NoEntries, E!End, E!session, HasReason
  <2> QED
    BY <1>0, <1>1, <2>1, GoesOn DEF Exploring
<1>4. CASE E!CannotList
  <2>1. PICK i \in DOMAIN node.entries, what \in E!Unread :
          what = E!Listed(i) /\ state' = E!Ending(what)
    BY <1>4 DEF E!CannotList, E!Entries, E!End
  <2>2. UNCHANGED <<device, explorer, address, node, entry_index, typed, stuck, shown>>
    BY <1>4 DEF E!CannotList, E!End, E!session
  <2>3. PICK to \in Refs : to = node.entries[i].to
    BY <1>0, <2>1, NodeTyped
  <2>4. E!Dangling(node, what)
    <3>1. CASE E!ExploresFs /\ ~node.leaf
      <4>1. what = E!Follow(E!Lookup(to, ANY_XID))
        BY <2>1, <2>3, <3>1 DEF E!Listed, E!Entries
      <4> QED
        BY <1>1, <2>1, <2>3, <3>1, <4>1, LookupStops
    <3>2. CASE ~E!ExploresFs /\ node.leaf
      <4>1. what = E!Block(to)
        BY <2>1, <2>3, <3>2 DEF E!Listed, E!Entries
      <4> QED
        BY <2>3, <3>2, <4>1 DEF E!Dangling
    <3>3. CASE ~(E!ExploresFs /\ ~node.leaf) /\ ~(~E!ExploresFs /\ node.leaf)
      BY <2>1, <3>3, SessionConstants DEF E!Listed
    <3> QED
      BY <3>1, <3>2, <3>3
  <2>5. E!Ending(what) \in {"failed", "aborted"} /\ HasReason(node, E!Ending(what))
    BY <2>4, DanglingStops
  <2> QED
    BY <1>0, <1>1, <2>1, <2>2, <2>5, GoesOn DEF Exploring
<1>5. CASE E!ListNode
  <2>1. /\ state' = "asking" /\ entry_index' = NONE
        /\ UNCHANGED <<device, explorer, address, node, typed, stuck, shown>>
    BY <1>5 DEF E!ListNode, E!session
  <2> QED
    BY <1>0, <1>1, <2>1, OnPathKept, GoesOn DEF Exploring
<1> QED
  BY <1>2, <1>3, <1>4, <1>5

(* An answer is given that names an entry.                                 *)
LEMMA ChoosesEntry ==
  ASSUME SessionInv, UNCHANGED line, NEW answer \in Answers, E!ValidChoice(answer)
  PROVE  SessionInv'
<1> DEFINE k == answer % Width
<1>0. /\ state = "asking" /\ ~stuck /\ E!InRange(k) /\ E!Take(k)
      /\ entry_index' = k /\ typed' = Append(typed, answer)
      /\ UNCHANGED <<device, explorer, address, stuck>>
  BY DEF E!ValidChoice, E!session
<1>1. /\ typed \in Seq(Answers) /\ node \in E!Node /\ E!RootsReadable /\ node \notin E!Unread
      /\ explorer \in {"explore-fs-tree", "explore-omap-tree"} /\ OnPath /\ answer \in Int
      /\ stuck' = FALSE /\ k < Len(node.entries)
  BY <1>0, SessionConstants DEF SessionInv, E!TypeOK, Exploring, E!InRange, E!Entries
<1>2. k \in 0 .. Width - 1
  BY <1>1, SessionConstants
<1> DEFINE len == Len(typed)
<1>3. /\ typed' \in Seq(Answers) /\ Len(typed') = len + 1 /\ typed'[len + 1] = answer
      /\ typed' # <<>> /\ len \in Nat
  <2>1. Append(typed, answer) # <<>>
    BY <1>1
  <2> QED
    BY <1>0, <1>1, <2>1
<1>4. PICK path : IsPath(path, typed) /\ path[len] = node
  BY <1>1 DEF OnPath
<1> HIDE DEF len
<1>5. ASSUME NEW n \in E!Node, n = NodeBelow(node, answer)
      PROVE  \E path2 : IsPath(path2, typed)' /\ path2[len] = node /\ path2[len + 1] = n
  <2>1. PICK path2 : /\ IsPath(path2, Append(typed, answer))
                     /\ path2[len] = path[len] /\ path2[len + 1] = n
    BY <1>1, <1>4, <1>5, PathOn DEF len
  <2>2. PICK t : t = Append(typed, answer)
    OBVIOUS
  <2>3. IsPath(path2, t)' <=> IsPath(path2, t)
    BY <1>0, Kept
  <2>4. IsPath(path2, typed)' <=> IsPath(path2, t)'
    BY <1>0, <2>2 DEF IsPath
  <2> QED
    BY <1>4, <2>1, <2>2, <2>3, <2>4
<1>6. /\ node' \in E!Node /\ shown' \in E!Entry \union {NONE} /\ node' \notin E!Unread
      /\ \/ /\ state' = "done" /\ node.leaf /\ node' = node
            /\ shown' = node.entries[k + 1]
         \/ state' \in {"ended", "failed", "aborted"} /\ HasReason(node', state')
         \/ /\ state' = "listing" /\ ~node.leaf
            /\ \A a \in Int : a % Width = k => NodeBelow(node, a) = node'
  BY <1>0, <1>2, Takes
<1>7. CASE /\ state' = "done" /\ node.leaf /\ node' = node
           /\ shown' = node.entries[k + 1]
  <2>1. NodeBelow(node, answer) = node
    BY <1>7 DEF NodeBelow
  <2>2. PICK path2 : IsPath(path2, typed)' /\ path2[len] = node
    BY <1>1, <1>5, <2>1
  <2>3. path2[Len(typed') - 1] = node' /\ typed'[Len(typed')] % Width = k
    BY <1>3, <1>7, <2>2
  <2>4. AtEnd'
    BY <1>1, <1>3, <1>7, <2>2, <2>3 DEF AtEnd
  <2> QED
    BY <1>0, <1>1, <1>2, <1>3, <1>6, <1>7, <2>4, GoesOn DEF Exploring
<1>8. CASE state' \in {"ended", "failed", "aborted"} /\ HasReason(node', state')
  BY <1>0, <1>1, <1>2, <1>3, <1>6, <1>8, GoesOn DEF Exploring
<1>9. CASE /\ state' = "listing" /\ ~node.leaf
           /\ \A a \in Int : a % Width = k => NodeBelow(node, a) = node'
  <2>1. NodeBelow(node, answer) = node'
    BY <1>1, <1>9
  <2>2. PICK n \in E!Node : n = node'
    BY <1>6
  <2>3. PICK path2 : IsPath(path2, typed)' /\ path2[len + 1] = n
    BY <1>5, <2>1, <2>2
  <2>4. OnPath'
    BY <1>3, <2>2, <2>3 DEF OnPath
  <2> QED
    BY <1>0, <1>1, <1>2, <1>3, <1>6, <1>9, <2>4, GoesOn DEF Exploring
<1> QED
  BY <1>6, <1>7, <1>8, <1>9

(* An answer that names none leads nowhere.                                *)
LEMMA ChoosesNone ==
  ASSUME SessionInv, UNCHANGED line, NEW answer \in Answers, E!InvalidChoice(answer)
  PROVE  SessionInv'
<1> DEFINE k == answer % Width
           len == Len(typed)
<1>0. /\ state = "asking" /\ ~stuck /\ ~E!InRange(k)
      /\ entry_index' = k /\ typed' = Append(typed, answer)
      /\ UNCHANGED <<device, explorer, address, stuck, node, shown, state>>
  BY DEF E!InvalidChoice, E!session, E!AskAgain
<1>1. /\ typed \in Seq(Answers) /\ node \in E!Node /\ E!RootsReadable /\ node \notin E!Unread
      /\ explorer \in {"explore-fs-tree", "explore-omap-tree"} /\ OnPath /\ answer \in Int
      /\ stuck' = FALSE /\ ~(k < Len(node.entries)) /\ shown \in E!Entry \union {NONE}
  BY <1>0, SessionConstants DEF SessionInv, E!TypeOK, Exploring, E!InRange, E!Entries
<1>2. k \in 0 .. Width - 1
  BY <1>1, SessionConstants
<1>3. typed' \in Seq(Answers) /\ Len(typed') = len + 1 /\ len \in Nat
  BY <1>0, <1>1
<1>4. PICK path : IsPath(path, typed) /\ path[len] = node
  BY <1>1 DEF OnPath
<1>5. NodeBelow(node, answer) = node
  <2>1. k >= Len(node.entries)
    BY <1>1, <1>2, NodeTyped, SessionConstants
  <2> QED
    BY <2>1 DEF NodeBelow
<1> HIDE DEF len
<1>6. PICK path2 : IsPath(path2, Append(typed, answer)) /\ path2[len + 1] = node
  <2>1. PICK n \in E!Node : n = node
    BY <1>1
  <2> QED
    BY <1>1, <1>4, <1>5, <2>1, PathOn DEF len
<1>7. IsPath(path2, typed)'
  <2>1. PICK t : t = Append(typed, answer)
    OBVIOUS
  <2>2. IsPath(path2, t)' <=> IsPath(path2, t)
    BY <1>0, Kept
  <2>3. IsPath(path2, typed)' <=> IsPath(path2, t)'
    BY <1>0, <2>1 DEF IsPath
  <2> QED
    BY <1>6, <2>1, <2>2, <2>3
<1>8. OnPath'
  BY <1>0, <1>3, <1>6, <1>7 DEF OnPath
<1> QED
  BY <1>0, <1>1, <1>2, <1>3, <1>8, GoesOn DEF Exploring

(* What is typed is no number: nothing is claimed of the path any more.    *)
LEMMA Fails ==
  ASSUME SessionInv, UNCHANGED line, E!ScanFails \/ E!ScanFailsAgain
  PROVE  SessionInv'
<1>0. /\ E!TypeOK /\ node \in E!Node /\ entry_index \in (0 .. Width - 1) \union {NONE}
      /\ typed \in Seq(Answers) /\ shown \in E!Entry \union {NONE}
  BY DEF SessionInv, E!TypeOK
<1>1. /\ state = "asking" /\ E!RootsReadable /\ node \notin E!Unread /\ explorer # "read"
      /\ stuck' = TRUE /\ UNCHANGED <<device, explorer, address, typed>>
  <2>1. state = "asking"
    BY DEF E!ScanFails, E!ScanFailsAgain
  <2> QED
    BY <2>1 DEF SessionInv, Exploring, E!ScanFails, E!ScanFailsAgain, E!session
<1>2. CASE E!ScanFails
  <2>1. PICK k \in 0 .. Width - 1 : /\ entry_index' = k
                                    /\ IF E!InRange(k) THEN E!Take(k) ELSE E!AskAgain
    BY <1>2 DEF E!ScanFails
  <2>2. CASE E!InRange(k)
    <3>1. /\ node' \in E!Node /\ shown' \in E!Entry \union {NONE} /\ node' \notin E!Unread
          /\ \/ state' \in {"done", "listing"}
             \/ state' \in {"ended", "failed", "aborted"} /\ HasReason(node', state')
      BY <1>1, <2>1, <2>2, Takes
    <3> QED
      BY <1>0, <1>1, <2>1, <3>1, GoesOn DEF Exploring
  <2>3. CASE ~E!InRange(k)
    BY <1>0, <1>1, <2>1, <2>3, GoesOn DEF Exploring, E!AskAgain
  <2> QED
    BY <2>2, <2>3
<1>3. CASE E!ScanFailsAgain
  <2>1. UNCHANGED <<node, shown, state, entry_index>>
    BY <1>3 DEF E!ScanFailsAgain, E!AskAgain
  <2> QED
    BY <1>0, <1>1, <2>1, GoesOn DEF Exploring
<1> QED
  BY <1>2, <1>3

(* While the line is parsed there is no session.                           *)
LEMMA NoSession ==
  ASSUME SessionInv, A!Next, UNCHANGED session
  PROVE  SessionInv'
<1>1. UNCHANGED <<device, explorer, address, node, entry_index, typed, stuck, shown, state>>
  BY DEF session
<1>2. status # "running"
  BY DEF A!Next, A!NoArguments, A!NoCommand, A!HelpInstead, A!UnknownBeforeCommand,
         A!UnknownCommand, A!Start, A!SetNumber, A!SetString, A!InvalidArgument, A!AddOids,
         A!InvalidOid, A!SkipName, A!Unparsable, A!Help, A!Finish, A!Parsing
<1>3. state = "idle"
  BY <1>2 DEF SessionInv
<1>4. E!TypeOK'
  BY <1>1 DEF SessionInv, E!TypeOK
<1> QED
  BY <1>1, <1>3, <1>4 DEF SessionInv, Exploring

(* Nothing happens.                                                        *)
LEMMA SessionKept ==
  ASSUME SessionInv, UNCHANGED <<line, session>>
  PROVE  SessionInv'
<1>1. /\ UNCHANGED <<device, explorer, address, node, entry_index, typed, stuck, shown, state>>
      /\ UNCHANGED <<argv, next, command, options, oids, status>>
  BY DEF session, line
<1>2. E!TypeOK'
  BY <1>1 DEF SessionInv, E!TypeOK
<1>k. /\ (MapGiven' <=> MapGiven) /\ \A what : E!RootsMeet(what)' <=> E!RootsMeet(what)
      /\ HasReason(node, state)' <=> HasReason(node, state)
  <2>1. PICK n, how : n = node /\ how = state
    OBVIOUS
  <2>2. HasReason(n, how)' <=> HasReason(n, how)
    BY <1>1, Kept
  <2>3. HasReason(node, state)' <=> HasReason(n, how)'
    BY <1>1, <2>1 DEF HasReason, E!Seen, E!LeadsTo, E!Dangling
  <2> QED
    BY <1>1, <2>1, <2>2, <2>3, Kept
<1>3. CASE state \in {"idle", "opening", "noinput", "aborted"}
  BY <1>1, <1>2, <1>3, <1>k DEF SessionInv, Exploring
<1>4. CASE state \in Exploring \union {"done"}
  <2>1. state = "done" /\ ~stuck /\ explorer # "read" => AtEnd'
    <3> SUFFICES ASSUME AtEnd
                 PROVE  AtEnd'
      BY DEF SessionInv
    <3>1. PICK path : IsPath(path, typed) /\ path[Len(typed) - 1] = node
      BY DEF AtEnd
    <3>2. PICK t : t = typed
      OBVIOUS
    <3>3. IsPath(path, t)' <=> IsPath(path, t)
      BY <1>1, Kept
    <3>4. IsPath(path, typed)'
      BY <1>1, <3>1, <3>2, <3>3 DEF IsPath
    <3> QED
      BY <1>1, <3>1, <3>4 DEF AtEnd
  <2>2. state \in {"listing", "asking"} /\ ~stuck => OnPath'
    BY <1>1, OnPathKept DEF SessionInv
  <2> QED
    BY <1>1, <1>4, <2>1, <2>2, GoesOn DEF SessionInv, E!TypeOK, Exploring
<1> QED
  BY <1>3, <1>4 DEF SessionInv, E!TypeOK, Exploring

-----------------------------------------------------------------------------
(* Theorems.                                                               *)

(* The invariant holds in every state of the program.                      *)
THEOREM InvHolds == Spec => []Inv
<1>1. Init => Inv
  <2> SUFFICES ASSUME Init
               PROVE  Inv
    OBVIOUS
  <2>1. LineInv
    <3>1. /\ argv \in Lines /\ next = 1 /\ command = NONE /\ options = A!Unset
          /\ oids = <<>> /\ status = "start"
      BY DEF Init, A!Init
    <3>2. Len(argv) \in Nat
      <4>1. argv \in Seq(A!ToSet(argv))
        BY <3>1, Constants
      <4> QED
        BY <4>1
    <3>3. options \in [A!Options -> {options[k] : k \in A!Options}]
      <4>1. options = [k \in A!Options |-> options[k]]
        BY <3>1 DEF A!Unset
      <4> QED
        BY <4>1
    <3>4. \A k \in A!Numbers : options[k] \in -MaxInt - 1 .. MaxInt
      BY <3>1, OptionKeys, DefaultsTyped, Constants DEF A!Numbers
    <3> QED
      BY <3>1, <3>2, <3>3, <3>4 DEF LineInv
  <2>2. SessionInv
    <3>1. /\ device = NONE /\ explorer = NONE /\ state = "idle" /\ typed = <<>>
          /\ address = [fs |-> NONE, omap |-> NONE, block |-> NONE]
          /\ node = E!NoNode /\ entry_index = NONE /\ stuck = FALSE /\ shown = NONE
      BY DEF Init, E!Init
    <3>2. node \in E!Node
      BY <3>1, SessionConstants DEF E!NoNode, E!Node
    <3>3. \A k \in {"fs", "omap", "block"} : address[k] \in Int \union {NONE}
      BY <3>1
    <3>4. typed \in Seq(Answers)
      BY <3>1
    <3>5. E!TypeOK
      BY <3>1, <3>2, <3>3, <3>4 DEF E!TypeOK
    <3> QED
      BY <3>1, <3>5 DEF SessionInv, Exploring
  <2> QED
    BY <2>1, <2>2 DEF Inv
<1>2. Inv /\ [Next]_vars => Inv'
  <2> SUFFICES ASSUME Inv, [Next]_vars
               PROVE  Inv'
    OBVIOUS
  <2>0. LineInv /\ SessionInv
    BY DEF Inv
  <2>1. CASE Parse
    BY <2>0, <2>1, LineStep, NoSession DEF Parse, Inv
  <2>2. CASE Dispatch
    <3>1. UNCHANGED line
      BY <2>2 DEF Dispatch
    <3> QED
      BY <2>0, <2>2, <3>1, LineKept, Dispatches DEF Inv
  <2>3. CASE Proceed
    <3>1. E!Step /\ UNCHANGED line
      BY <2>3 DEF Proceed
    <3>2. SessionInv'
      BY <2>0, <3>1, Opens, Lists DEF E!Step
    <3> QED
      BY <2>0, <3>1, <3>2, LineKept DEF Inv
  <2>4. CASE Answer
    <3>1. E!User /\ UNCHANGED line
      BY <2>4 DEF Answer
    <3>2. SessionInv'
      BY <2>0, <3>1, ChoosesEntry, ChoosesNone, Fails DEF E!User, E!Choose
    <3> QED
      BY <2>0, <3>1, <3>2, LineKept DEF Inv
  <2>5. CASE UNCHANGED vars
    <3>1. UNCHANGED <<line, session>>
      BY <2>5 DEF vars
    <3> QED
      BY <2>0, <3>1, LineKept, SessionKept DEF Inv
  <2> QED
    BY <2>1, <2>2, <2>3, <2>4, <2>5 DEF Next
<1> QED
  BY <1>1, <1>2, PTL DEF Spec

(* Types.                                                                  *)
THEOREM TypeCorrect == Spec => []TypeOK
<1>1. Inv => TypeOK
  <2> SUFFICES ASSUME Inv
               PROVE  TypeOK
    OBVIOUS
  <2>0. LineInv
    BY DEF Inv
  <2>1. \A n \in DOMAIN argv : A!IsWord(argv[n])
    BY <2>0, WordsTyped
  <2>2. \A n \in DOMAIN oids : oids[n] \in (-MaxInt - 1 .. MaxInt) \ {-1}
    <3>1. oids \in Seq((-MaxInt - 1 .. MaxInt) \ {-1})
      BY <2>0 DEF LineInv
    <3> QED
      BY <3>1
  <2>3. A!TypeOK
    BY <2>0, <2>1, <2>2 DEF LineInv, A!TypeOK
  <2> QED
    BY <2>3 DEF Inv, SessionInv, TypeOK
<1> QED
  BY <1>1, InvHolds, PTL

(* The options of a command that runs (argp.c:109-147) are those of its    *)
(* line, and all that is mandatory is on it.                               *)
THEOREM OptionsAreAsGiven == Spec => []RunsAsAsked
<1>1. Inv => RunsAsAsked
  BY LineRunsAsAsked DEF Inv, RunsAsAsked
<1> QED
  BY <1>1, InvHolds, PTL

(* What an explorer shows in the end is what the numbers typed lead to,    *)
(* from the blocks that the line names (explore-fs-tree.c:344-424).        *)
THEOREM ChosenIsShown == Spec => []ShowsChosen
<1>1. Inv => ShowsChosen
  <2> SUFFICES ASSUME Inv, state = "done", ~stuck
               PROVE  /\ E!ShowsChosen
                      /\ \A n \in DOMAIN E!Roots :
                           A!Fits(A!LastGiven(E!Roots[n])) =>
                             address[E!Roots[n]] = A!LastGiven(E!Roots[n])
    BY DEF ShowsChosen
  <2>1. /\ status = "running" /\ command = explorer
        /\ explorer \in {"read", "explore-fs-tree", "explore-omap-tree"}
        /\ \A k \in {"fs", "omap", "block"} : address[k] = options[k]
        /\ LineInv /\ SessionInv /\ typed \in Seq(Answers)
    BY DEF Inv, SessionInv, E!TypeOK
  <2>2. ASSUME explorer = "read"
        PROVE  E!ShowsChosen
    <3>1. node = E!Block(address.block)
      BY <2>1, <2>2 DEF SessionInv
    <3>2. ASSUME address.block \in Addr
          PROVE  E!Block(address.block) = device.disk[address.block]
      <4>1. PICK a \in Nat : a = address.block /\ a < Places
        BY <3>2, SessionConstants
      <4>2. a % Places = a
        BY <4>1, SessionConstants
      <4>3. E!Place(address.block) = address.block
        BY <4>1, <4>2 DEF E!Place
      <4> QED
        BY <3>2, <4>3 DEF E!Block, E!BlockOf
    <3> QED
      BY <2>2, <3>1, <3>2 DEF E!ShowsChosen
  <2>3. ASSUME explorer # "read"
        PROVE  E!ShowsChosen
    <3>1. AtEnd
      BY <2>1, <2>3 DEF SessionInv
    <3>2. PICK path : IsPath(path, typed) /\ path[Len(typed) - 1] = node
      BY <3>1 DEF AtEnd
    <3>3. Len(typed) - 1 \in 0 .. Len(typed)
      <4>1. Len(typed) \in Nat /\ Len(typed) # 0
        BY <2>1, <3>1 DEF AtEnd
      <4> QED
        BY <4>1
    <3>4. E!Trail(Len(typed) - 1) = node
      BY <2>1, <3>2, <3>3, TrailIs
    <3>5. node \notin E!Unread
      BY <2>1 DEF SessionInv
    <3>6. /\ typed # <<>> /\ node.leaf
          /\ typed[Len(typed)] % Width < Len(node.entries)
          /\ shown = node.entries[(typed[Len(typed)] % Width) + 1]
      BY <3>1 DEF AtEnd
    <3> QED
      BY <2>3, <3>4, <3>5, <3>6 DEF E!ShowsChosen
  <2>4. ASSUME NEW n \in DOMAIN E!Roots
        PROVE  A!Fits(A!LastGiven(E!Roots[n])) => address[E!Roots[n]] = A!LastGiven(E!Roots[n])
    <3>1. PICK k : k = E!Roots[n]
      OBVIOUS
    <3>2. k \in A!Own(command) /\ k \in {"fs", "omap", "block"}
      BY <2>1, <3>1 DEF E!Roots, A!Own
    <3>3. k \in A!Known \ {"oids"} /\ k \in A!Numbers /\ k # "block-size"
      BY <3>2 DEF A!Known, A!Numbers
    <3>4. Parsed /\ next = Len(argv) + 1 /\ ~A!Missing
      BY <2>1 DEF LineInv
    <3>5. options[k] # Default(k)
      <4>1. Default(k) = -1
        BY <3>2, OptionKeys, DefaultsTyped DEF Default
      <4>2. options[k] # -1
        BY <2>1, <3>1, <3>2, <3>4 DEF A!Missing, E!Roots
      <4> QED
        BY <4>1, <4>2
    <3>6. A!LastGiven(k) \in Int /\ options[k] = A!Saturated(A!LastGiven(k))
      BY <2>1, <3>3, <3>4, <3>5, OptionAtEnd
    <3> QED
      BY <2>1, <3>1, <3>2, <3>6, SaturatedIs
  <2> QED
    BY <2>2, <2>3, <2>4
<1> QED
  BY <1>1, InvHolds, PTL

(* An exploration stops short only for a reason that is in the container.  *)
THEOREM StopsForReason == Spec => []StopsOnlyForReason
<1>1. Inv => StopsOnlyForReason
  BY DEF Inv, SessionInv, StopsOnlyForReason, E!StopsOnlyForReason, HasReason, E!Seen, E!Entries
<1> QED
  BY <1>1, InvHolds, PTL
=============================================================================
