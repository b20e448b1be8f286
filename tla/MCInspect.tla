------------------------------ MODULE MCInspect ------------------------------
(***************************************************************************)
(* Checkpoints, volumes and faults for Inspect.                            *)
(***************************************************************************)
EXTENDS Inspect

(* No map, an empty one, one or two with up to two objects.                *)
MCMapLists == {<<>>, <<<<>>>>, <<<<1, 2>>>>, <<<<1>>, <<2>>>>}

(* No volume, some, one behind a gap, as many as there can be.             *)
MCVolumeLists == {<<0, 0>>, <<1, 0>>, <<0, 1>>, <<1, 2>>}

(* Each thing in every way that it can be wrong; block 0's checksum does   *)
(* not matter, and the fault of nothing at all is none.                    *)
MCFaults ==
  LET Of(things, kinds) == [thing : things, kind : kinds]
      oids == 1 .. 2
  IN Of({<<"nothing", 0>>}, {"invalid"}) \union
     Of({BlockZero, Area}, {"unreadable"}) \union
     Of({Ephemeral(a) : a \in 1 .. 2}, {"unreadable", "invalid"}) \union
     Of({ContainerOmap} \union {VolumeOmap(o) : o \in oids},
        {"unreadable", "invalid", "not physical"}) \union
     Of({ContainerTree} \union {VolumeTree(o) : o \in oids}, {"unreadable", "invalid"}) \union
     Of({Volume(o) : o \in oids} \union {Root(o) : o \in oids},
        {"missing", "unreadable", "invalid"}) \union
     Of({Query(o, k) : o \in oids, k \in 1 .. NUM_QUERIES}, {"missing", "unreadable"})
=============================================================================
