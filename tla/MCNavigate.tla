----------------------------- MODULE MCNavigate -----------------------------
(***************************************************************************)
(* Volumes for Navigate: the root directory, two objects that may be       *)
(* directories, files, empty or lost, and the object ~0.  Entries may      *)
(* dangle, form cycles, and have the same name.                            *)
(***************************************************************************)
EXTENDS Navigate

CONSTANTS a, b, x, y, MaxPath

Entry(n, o) == [dentry |-> TRUE, name |-> n, file_id |-> o]
Other(n, o) == [dentry |-> FALSE, name |-> n, file_id |-> o]

Directories ==
  {<<Other(x, a), Entry(x, b)>>,
   <<Entry(x, a), Entry(y, ROOT_DIR_INO_NUM)>>,
   <<Entry(x, INVALID), Entry(y, b)>>,
   <<Entry(x, a), Entry(x, b)>>}

MCVolumes ==
  {[o \in Oid |-> CASE o = ROOT_DIR_INO_NUM -> r [] o = a -> s [] o = b -> t [] OTHER -> <<>>] :
    r \in Directories \union {<<>>, LOST},
    s \in Directories \union {<<>>, LOST},
    t \in Directories \union {<<Other(y, a)>>, <<>>, LOST}}

MCPaths == UNION {[1 .. n -> {x, y, EMPTY}] : n \in 0 .. MaxPath}
=============================================================================
