-------------------------------- MODULE Args --------------------------------
(***************************************************************************)
(* From the command line to the options of a command.  main() (src/src/    *)
(* drat.c:25-75) looks for the command's name; the command lets argp parse *)
(* the whole line again with its own options and the global ones           *)
(* (src/include/drat/argp.c:109-147).  argp calls the parsers for one word *)
(* after another, and in the end to have them ask for what is mandatory.   *)
(* Both the absence of a number and the number -1 are -1.                  *)
(***************************************************************************)
EXTENDS Integers, Sequences, SequencesExt

CONSTANTS
  Lines,        \* the command lines
  MaxInt,       \* INT64_MAX
  NONE,         \* NULL
  AUTO,         \* the word "auto"
  BAD,          \* a word that is no number, or no absolute path
  STDOUT        \* the output path "-"

(* The global options and those of each command.                           *)
Globals == {"container", "block-size", "volume", "volume-name", "max-xid"}

Own(c) ==
  CASE c = "list" -> {"fsoid", "path"}
    [] c = "recover" -> {"fsoid", "path", "output", "skip-multilinked-inodes"}
    [] c = "resolver" -> {"omap", "oids"}
    [] c = "explore-fs-tree" -> {"fs", "omap"}
    [] c = "explore-omap-tree" -> {"omap"}
    [] c = "read" -> {"block"}
    [] OTHER -> {}

Commands ==
  {"explore-fs-tree", "explore-omap-tree", "inspect", "list", "read", "recover", "resolver",
   "search", "version"}

Numbers == {"block-size", "volume", "max-xid", "fsoid", "fs", "omap", "block"}
Options == Globals \union UNION {Own(c) : c \in Commands}

(* A word of the command line is an option with its argument, --help and   *)
(* the like, which argp answers itself, an option nobody knows, or, under  *)
(* the key "name", anything else.  The argument of --oids is its list.     *)
WordKeys == Options \union {"help", "unknown", "name"}

IsWord(w) ==
  /\ w.key \in WordKeys
  /\ w.key \in Numbers => w.arg \in Int \union {AUTO, BAD}
  /\ w.key = "oids" => w.arg \in Seq(Int \union {BAD})
  /\ w.key \in Options => w.arg # NONE

(* What the constants are.                                                 *)
Parameters ==
  /\ \A line \in Lines : line \in Seq(ToSet(line)) /\ \A i \in DOMAIN line : IsWord(line[i])
  /\ MaxInt \in Nat \ {0}
  /\ AUTO \notin Int /\ BAD \notin Int

VARIABLES
  argv,       \* the words after the program's name
  next,       \* state->next, the word to be parsed
  command,    \* globals.command_name, or NONE
  options,    \* the global options and those of the command
  oids,       \* options->oids
  status      \* where the program is, or how it ended

vars == <<argv, next, command, options, oids, status>>

(* globals.c:6-15 and the first assignments of the commands.               *)
Unset ==
  [k \in Options |->
    CASE k \in {"volume", "block-size"} -> 0
      [] k \in Numbers \ {"volume", "block-size"} -> -1
      [] k = "output" -> STDOUT
      [] k = "skip-multilinked-inodes" -> FALSE
      [] OTHER -> NONE]

Init ==
  /\ argv \in Lines
  /\ next = 1
  /\ command = NONE
  /\ options = Unset
  /\ oids = <<>>
  /\ status = "start"

-----------------------------------------------------------------------------
(* main().                                                                 *)

End(how) ==
  /\ status' = how
  /\ UNCHANGED <<argv, next, command, options, oids>>

NoArguments ==
  /\ status = "start"
  /\ argv = <<>>
  /\ End("usage")

(* argp_command: global options are skipped, up to the command's name.     *)
Skipped(i) == \A j \in 1 .. i - 1 : argv[j].key \in Globals

(* The name of the program still stands for that of the command            *)
(* (drat.c:37-39): it is looked up, and not found.                         *)
NoCommand ==
  /\ status = "start"
  /\ argv # <<>>
  /\ Skipped(Len(argv) + 1)
  /\ End("refused")

HelpInstead ==
  /\ status = "start"
  /\ \E i \in DOMAIN argv : Skipped(i) /\ argv[i].key = "help"
  /\ End("usage")

(* Among them the command's own options, if they come before its name.     *)
UnknownBeforeCommand ==
  /\ status = "start"
  /\ \E i \in DOMAIN argv : Skipped(i) /\ argv[i].key \notin Globals \union {"help", "name"}
  /\ End("refused")

UnknownCommand ==
  /\ status = "start"
  /\ \E i \in DOMAIN argv : Skipped(i) /\ argv[i].key = "name" /\ argv[i].arg \notin Commands
  /\ End("refused")

(* Mutant: the default of --volume is left as it is.                       *)
StartKeepsVolume ==
  /\ status = "start"
  /\ \E i \in DOMAIN argv :
       /\ Skipped(i) /\ argv[i].key = "name" /\ argv[i].arg \in Commands
       /\ command' = argv[i].arg
  /\ options' = options
  /\ status' = CASE command' = "version" -> IF Len(argv) > 1 THEN "refused" ELSE "running"
                 [] command' # "version" -> IF Len(argv) = 1 THEN "usage" ELSE "parsing"
  /\ UNCHANGED <<argv, next, oids>>

(* The command is called.  Those that need a volume make the default of    *)
(* --volume -1, so as to see whether it is given.                          *)
Start ==
  /\ status = "start"
  /\ \E i \in DOMAIN argv :
       /\ Skipped(i) /\ argv[i].key = "name" /\ argv[i].arg \in Commands
       /\ command' = argv[i].arg
  /\ options' = IF command' \in {"list", "recover", "resolver"}
                  THEN [options EXCEPT !["volume"] = -1] ELSE options
  /\ status' = CASE command' = "version" -> IF Len(argv) > 1 THEN "refused" ELSE "running"
                 [] command' # "version" -> IF Len(argv) = 1 THEN "usage" ELSE "parsing"
  /\ UNCHANGED <<argv, next, oids>>

-----------------------------------------------------------------------------
(* The parsers, word by word.                                              *)

Known == Globals \union Own(command)

(* strtoimax(): numbers that do not fit become the nearest ones that do,   *)
(* and parse_number() does not look at errno.                              *)
Saturated(n) == IF n > MaxInt THEN MaxInt ELSE IF n < -MaxInt - 1 THEN -MaxInt - 1 ELSE n

Parsing == status = "parsing" /\ next <= Len(argv)
Word == argv[next]

Set(value) ==
  /\ options' = [options EXCEPT ![Word.key] = value]
  /\ next' = next + 1
  /\ UNCHANGED <<argv, command, oids, status>>

SetNumber ==
  /\ Parsing
  /\ Word.key \in Known \intersect Numbers
  /\ \/ Word.arg \in Int /\ Set(Saturated(Word.arg))
     \/ Word.key = "block-size" /\ Word.arg = AUTO /\ Set(0)

SetString ==
  /\ Parsing
  /\ Word.key \in Known \ (Numbers \union {"oids"})
  /\ Word.key = "path" => Word.arg # BAD
  /\ Set(Word.arg)

(* A number that is none, or a path that does not begin with "/".          *)
InvalidArgument ==
  /\ Parsing
  /\ \/ Word.key \in Known \intersect Numbers /\ Word.arg \notin Int
        /\ ~(Word.key = "block-size" /\ Word.arg = AUTO)
     \/ Word.key \in Known /\ Word.key = "path" /\ Word.arg = BAD
  /\ End("refused")

(* Mutant: -1, which stands for no OID, is let in.                         *)
IsNumber(v) == v # BAD

IsOid(v) == v # BAD /\ v # -1

(* --oids and --oid add to the list, element by element.                   *)
AddOids ==
  /\ Parsing
  /\ Word.key = "oids" /\ "oids" \in Known
  /\ \A i \in DOMAIN Word.arg : IsOid(Word.arg[i])
  /\ oids' = oids \o [i \in DOMAIN Word.arg |-> Saturated(Word.arg[i])]
  /\ next' = next + 1
  /\ UNCHANGED <<argv, command, options, status>>

(* The elements before the one that is refused are in the list already.    *)
InvalidOid ==
  /\ Parsing
  /\ Word.key = "oids" /\ "oids" \in Known
  /\ \E i \in DOMAIN Word.arg :
       /\ ~IsOid(Word.arg[i])
       /\ \A j \in 1 .. i - 1 : IsOid(Word.arg[j])
       /\ oids' = oids \o [j \in 1 .. i - 1 |-> Saturated(Word.arg[j])]
  /\ status' = "refused"
  /\ UNCHANGED <<argv, next, command, options>>

(* The first word that is no option has been taken for the command's name; *)
(* a second one is too many.                                               *)
SkipName ==
  /\ Parsing
  /\ Word.key = "name"
  /\ \A j \in 1 .. next - 1 : argv[j].key # "name"
  /\ next' = next + 1
  /\ UNCHANGED <<argv, command, options, oids, status>>

Unparsable ==
  /\ Parsing
  /\ \/ Word.key \in Options \ Known \/ Word.key = "unknown"
     \/ Word.key = "name" /\ \E j \in 1 .. next - 1 : argv[j].key = "name"
  /\ End("refused")

Help ==
  /\ Parsing
  /\ Word.key = "help"
  /\ End("usage")

NoOmap == options["omap"] = -1 /\ options["volume"] = -1 /\ options["volume-name"] = NONE

(* ARGP_KEY_END: what is mandatory but still has the value it has if it is *)
(* not given.                                                              *)
Missing ==
  \/ options["container"] = NONE
  \/ command \in {"list", "recover"} /\ options["volume"] = -1
  \/ command \in {"list", "recover"} /\ options["fsoid"] = -1 /\ options["path"] = NONE
  \/ command = "resolver" /\ (NoOmap \/ oids = <<>>)
  \/ command = "explore-fs-tree" /\ (options["fs"] = -1 \/ options["omap"] = -1)
  \/ command = "explore-omap-tree" /\ options["omap"] = -1
  \/ command = "read" /\ options["block"] = -1

Finish ==
  /\ status = "parsing"
  /\ next = Len(argv) + 1
  /\ End(IF Missing THEN "refused" ELSE "running")

Next ==
  \/ NoArguments
  \/ NoCommand
  \/ HelpInstead
  \/ UnknownBeforeCommand
  \/ UnknownCommand
  \/ Start
  \/ SetNumber
  \/ SetString
  \/ InvalidArgument
  \/ AddOids
  \/ InvalidOid
  \/ SkipName
  \/ Unparsable
  \/ Help
  \/ Finish

Spec == Init /\ [][Next]_vars

-----------------------------------------------------------------------------
(* Properties.                                                             *)

TypeOK ==
  /\ \A i \in DOMAIN argv : IsWord(argv[i])
  /\ next \in 1 .. Len(argv) + 1
  /\ command \in Commands \union {NONE}
  /\ \A k \in Numbers : options[k] \in -MaxInt - 1 .. MaxInt
  /\ \A i \in DOMAIN oids : oids[i] \in (-MaxInt - 1 .. MaxInt) \ {-1}
  /\ status \in {"start", "parsing", "running", "usage", "refused"}

Given(k) == \E i \in DOMAIN argv : argv[i].key = k
LastGiven(k) ==
  LET w == CHOOSE i \in DOMAIN argv :
             argv[i].key = k /\ \A j \in i + 1 .. Len(argv) : argv[j].key # k
  IN argv[w].arg

(* The numbers that an int64_t holds.                                      *)
Fits(n) == n \in -MaxInt - 1 .. MaxInt

(* The value of option k is what the line says of it, the last time if it  *)
(* does so repeatedly.  Nothing is claimed of a number that does not fit,  *)
(* which becomes another number without a word (argp.c:80-84), nor of a    *)
(* negative volume, which is accepted although the parser's own message    *)
(* (argp.c:38-42) calls it no value.                                       *)
AsGiven(k) ==
  IF ~Given(k) THEN options[k] \in {Unset[k], -1}
  ELSE LET v == LastGiven(k) IN
    IF k \notin Numbers THEN options[k] = v
    ELSE IF v = AUTO THEN options[k] = 0
    ELSE Fits(v) /\ (k = "volume" => v >= 0) => options[k] = v

AllOids ==
  LET upTo[n \in 0 .. Len(argv)] ==
        IF n = 0 THEN <<>>
        ELSE upTo[n - 1] \o IF argv[n].key = "oids" THEN argv[n].arg ELSE <<>>
  IN upTo[Len(argv)]

(* What must be on the line, as sets of alternatives.                      *)
Mandatory ==
  {{"container"}} \union
  CASE command \in {"list", "recover"} -> {{"volume"}, {"fsoid", "path"}}
    [] command = "resolver" -> {{"omap", "volume", "volume-name"}, {"oids"}}
    [] command = "explore-fs-tree" -> {{"fs"}, {"omap"}}
    [] command = "explore-omap-tree" -> {{"omap"}}
    [] command = "read" -> {{"block"}}
    [] OTHER -> {}

(* A command that runs has been given all that is mandatory, by options    *)
(* and not by their defaults, and has every option as the line has it,     *)
(* wherever on the line it is: before the command's name or after it, once *)
(* or several times.  (By the documentation some of what is mandatory has  *)
(* defaults; the parsers insist on it.)                                    *)
RunsAsAsked ==
  status = "running" /\ command # "version" =>
    /\ \A alternatives \in Mandatory : \E k \in alternatives : Given(k)
    /\ \A k \in Known \ {"oids"} : AsGiven(k)
    /\ Len(oids) = Len(AllOids)
    /\ \A i \in DOMAIN oids : Fits(AllOids[i]) => oids[i] = AllOids[i]

=============================================================================
