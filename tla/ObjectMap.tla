----------------------------- MODULE ObjectMap -----------------------------
(***************************************************************************)
(* Object maps as sets of entries [oid, xid, v], and the answer the lookup *)
(* function of src/include/drat/func/btree.c is documented to give on one  *)
(* (btree.c:20-47).                                                        *)
(***************************************************************************)
EXTENDS Integers

CONSTANT NULL

(* The entries a lookup may return: the versions of the object that the    *)
(* bound max_xid leaves visible.                                           *)
Visible(entries, o, x) == {e \in entries : e.oid = o /\ e.xid <= x}

(* r is a right answer for OID o and bound x over this set of entries.     *)
IsAnswer(entries, o, x, r) ==
  \/ r = NULL /\ Visible(entries, o, x) = {}
  \/ r \in Visible(entries, o, x) /\ \A e \in Visible(entries, o, x) : e.xid <= r.xid

=============================================================================
