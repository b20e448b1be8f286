------------------------------ MODULE MCSearch ------------------------------
(***************************************************************************)
(* Containers for Search: a few blocks long, with up to one bad sector;    *)
(* what they hold is a sequence of different blocks, begun anywhere.       *)
(***************************************************************************)
EXTENDS Search

CONSTANT MaxSize

MCContainers ==
  UNION {[size : {n}, nx_block_size : {1, 2},
          bad : {{}} \union {{s} : s \in 0 .. n - 1}, strict : BOOLEAN] : n \in 0 .. MaxSize}

MCRequests == [start : 0 .. end_addr, num : {1}]

Rec(o, d, n, t) == [oid |-> o, dentry |-> d, name |-> n, target |-> t]

Leaf ==
  [valid |-> TRUE, virtual |-> TRUE, fs_node |-> TRUE, fixed |-> FALSE, leaf |-> TRUE,
   records |-> <<Rec(TRUE, FALSE, TRUE, TRUE), Rec(TRUE, TRUE, TRUE, FALSE),
                 Rec(FALSE, TRUE, TRUE, TRUE)>>]

Cycle ==
  <<Leaf, [Leaf EXCEPT !.leaf = FALSE], [Leaf EXCEPT !.valid = FALSE],
    [Leaf EXCEPT !.virtual = FALSE, !.records = <<Rec(FALSE, TRUE, FALSE, TRUE)>>],
    [Leaf EXCEPT !.fixed = TRUE], [Leaf EXCEPT !.fs_node = FALSE]>>

MCDisks == {[s \in 0 .. MaxSize - 1 |-> Cycle[((s + shift) % 6) + 1]] : shift \in 0 .. 5}
=============================================================================
