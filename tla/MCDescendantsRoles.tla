------------------------- MODULE MCDescendantsRoles -------------------------
(* Small instances of KDescendantsRoles. *)
EXTENDS KDescendantsRoles, TLC

CONSTANTS n1, n2, n3, n4, n5, n6

Symmetry == Permutations(Nodes)

\* As in MCDescendants: each pair counts only until the change it belongs to is over.
View ==
    <<srcVars, m_mapping, m_rowCount, m_pendingParents, userVars, m_relayouting,
      m_layoutChangePersistentIndexes, controlVars, viewVars, roleVars,
      IF phase \in {"inserting", "inserted"} THEN m_insertPair ELSE NoPair,
      IF phase \in {"removing", "removed"} THEN m_removePair ELSE NoPair>>
============================================================================
