---------------------------- MODULE MCSelection ----------------------------
(* Small instances of KSelectionProxyModel. *)
EXTENDS KSelectionProxyModel, TLC

CONSTANTS n1, n2, n3, n4

Symmetry == Permutations(Nodes)
============================================================================
