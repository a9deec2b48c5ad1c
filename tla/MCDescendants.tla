--------------------------- MODULE MCDescendants ---------------------------
(* Small instances of KDescendantsProxyModel. *)
EXTENDS KDescendantsProxyModel, TLC

CONSTANTS n1, n2, n3, n4, n5, n6

Symmetry == Permutations(Nodes)

\* m_insertPair and m_removePair are read only by the handler that closes the
\* insertion or removal; what they hold at other times makes no difference.
View ==
    <<srcVars, m_mapping, m_rowCount, m_pendingParents, userVars, m_relayouting,
      m_layoutChangePersistentIndexes, controlVars, viewVars,
      IF phase \in {"inserting", "inserted"} THEN m_insertPair ELSE NoPair,
      IF phase \in {"removing", "removed"} THEN m_removePair ELSE NoPair>>
============================================================================
