---------------------------- MODULE MCTableStore ----------------------------
(* Instances of TableStore for TLC. *)
EXTENDS TableStore, TLC

CONSTANTS main, other, e1, e2, e3, r1, r2

OverlapFault == {"overlap"}

Symmetry == Permutations(Edits) \cup Permutations(Removals)
=============================================================================
