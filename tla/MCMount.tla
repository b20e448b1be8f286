------------------------------- MODULE MCMount -------------------------------
(***************************************************************************)
(* Mount on twelve blocks.  A transaction lies in the first six or in the  *)
(* last six; of the latter there are two layouts, so that a block that is  *)
(* used again may come to hold an object of the same or of another kind.   *)
(***************************************************************************)
EXTENDS Mount

MCAddr == 1 .. 12
MCLayouts == {<<1, 2, 3, 4, 5, 6>>, <<7, 8, 9, 10, 11, 12>>, <<7, 11, 12, 10, 8, 9>>}

Mounting(c, x, v) ==
  [command |-> c, bound |-> x, volume |-> v, volume_name |-> FALSE, omap |-> NONE, oids |-> <<>>]
Resolving(x, v, named, a) ==
  [command |-> "resolver", bound |-> x, volume |-> v, volume_name |-> named, omap |-> a,
   oids |-> <<0, fs_root_btree, apsb>>]

MCRequests ==
  {Mounting("list", 1, 1), Mounting("recover", 3, 1),
   Mounting("recover", 3, 0), Mounting("list", 3, 101), Resolving(3, 1, FALSE, NONE),
   Resolving(2, 0, FALSE, NONE), Resolving(3, -1, TRUE, NONE),
   Resolving(2, -1, FALSE, 11)}

(* What the writer does after the command has ended is not followed, nor,  *)
(* but for --max-xid 1, a mount that has been overtaken.                   *)
WhileRunning ==
  /\ status = "running"
  /\ stage >= 0 /\ request.omap = NONE /\ Overtaken(nxsb.xid) => bound = 1
=============================================================================
