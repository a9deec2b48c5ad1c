---------------------------- MODULE MCContainer ----------------------------
(* Small instances of KBiAssociativeContainer. *)
EXTENDS KBiAssociativeContainer, TLC

CONSTANTS l1, l2, l3
============================================================================
