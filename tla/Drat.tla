-------------------------------- MODULE Drat --------------------------------
(***************************************************************************)
(* The program from its command line to the end of a command: main() and   *)
(* the parsers (Args), and, for the commands that show single blocks, what *)
(* they then do (Explore).  For the other commands the options with which  *)
(* this ends are those that their modules begin with.                      *)
(***************************************************************************)
EXTENDS Integers, Sequences

CONSTANTS
  Lines, MaxInt, AUTO, BAD, STDOUT,                         \* of Args
  Addr, Places, Refs, Height, Devices, Answers, Width,      \* of Explore
  MaxTyped, ANY_XID, LOST, BEYOND, NULL, NONE

VARIABLES
  argv, next, command, options, oids, status,
  device, explorer, address, node, entry_index, typed, stuck, shown, state

A == INSTANCE Args
E == INSTANCE Explore

ASSUME ArgsAssumption == A!Parameters
ASSUME ExploreAssumption == E!Parameters

line == <<argv, next, command, options, oids, status>>
session == <<device, explorer, address, node, entry_index, typed, stuck, shown, state>>
vars == <<line, session>>

Init == A!Init /\ E!Init

Parse == A!Next /\ UNCHANGED session

(* The call of the command found, after its arguments are parsed.          *)
Dispatch ==
  /\ status = "running"
  /\ command \in {"read", "explore-fs-tree", "explore-omap-tree"}
  /\ E!Call(command, [fs |-> options["fs"], omap |-> options["omap"], block |-> options["block"]])
  /\ UNCHANGED line

Proceed == E!Step /\ UNCHANGED line
Answer == E!User /\ UNCHANGED line

Next == Parse \/ Dispatch \/ Proceed \/ Answer

Spec == Init /\ [][Next]_vars

(* The program goes on by itself; its user goes on to choose entries.      *)
FairSpec ==
  /\ Spec
  /\ WF_vars(Parse \/ Dispatch \/ Proceed)
  /\ WF_vars(state = "asking" /\ (\E n \in Answers : E!ValidChoice(n)) /\ UNCHANGED line)

-----------------------------------------------------------------------------
(* Properties; for what they say, see the modules.                         *)

(* Types.                                                                  *)
TypeOK == A!TypeOK /\ E!TypeOK

(* The options of a command that runs (argp.c:109-147).                    *)
RunsAsAsked == A!RunsAsAsked

(* What is shown is what was chosen, of the blocks that the line names:    *)
(* from the words of the command line to the record at the end.            *)
ShowsChosen ==
  state = "done" /\ ~stuck =>
    /\ E!ShowsChosen
    /\ \A i \in DOMAIN E!Roots :
         LET given == A!LastGiven(E!Roots[i]) IN A!Fits(given) => address[E!Roots[i]] = given

(* An exploration stops short only for a reason that is in the container.  *)
StopsOnlyForReason == E!StopsOnlyForReason

(* Every line with which an explorer runs leads to the end of a session,   *)
(* or to a question that cannot be answered.                               *)
EndsUnlessUnanswerable == E!EndsUnlessUnanswerable

=============================================================================
