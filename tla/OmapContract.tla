---------------------------- MODULE OmapContract ----------------------------
(***************************************************************************)
(* What get_btree_phys_omap_entry() promises (the comment above it in      *)
(* src/include/drat/func/btree.c).  The object map is a set of entries     *)
(* [oid, xid, v]; one lookup answers, in one step, with the entry of the   *)
(* requested OID whose XID is the highest one not above max_xid, or with   *)
(* NULL when there is none.  The process exits without an answer only if   *)
(* some of the tree cannot be read or is not a B-tree.  Where it is not a  *)
(* B-tree, all that is promised is a version of the right object.          *)
(***************************************************************************)
EXTENDS ObjectMap

VARIABLES
  omap, oid, max_xid,
  sound,               \* what can be read is a well-formed B-tree
  whole,               \* all of it can be read
  status, result

vars == <<omap, oid, max_xid, sound, whole, status, result>>

Init == status = "pending" /\ result = NULL

Answer ==
  /\ status = "pending"
  /\ status' = "returned"
  /\ IF sound
     THEN IsAnswer(omap, oid, max_xid, result')
     ELSE result' = NULL \/ (result'.oid = oid /\ result'.xid <= max_xid)
  /\ UNCHANGED <<omap, oid, max_xid, sound, whole>>

Exit ==
  /\ status = "pending"
  /\ ~(sound /\ whole)
  /\ status' = "aborted"
  /\ UNCHANGED <<omap, oid, max_xid, sound, whole, result>>

Next == Answer \/ Exit

Spec == Init /\ [][Next]_vars

=============================================================================
