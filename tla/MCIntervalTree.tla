--------------------------- MODULE MCIntervalTree ---------------------------
(* Intervals over three points: nested, disjoint and equal ones.  Nodes are  *)
(* interchangeable: no operation depends on the address of a node.           *)
EXTENDS IntervalTree

Intervals == {<<1, 1>>, <<1, 3>>, <<2, 2>>}

Addresses == Permutations(Node)

=============================================================================
