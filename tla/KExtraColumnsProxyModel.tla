---------------------- MODULE KExtraColumnsProxyModel ----------------------
(***************************************************************************)
(* KExtraColumnsProxyModel (kextracolumnsproxymodel.cpp): appends columns  *)
(* of its own to those of the KRearrangeColumnsProxyModel below.  No index *)
(* of that stands for them: an index in an extra column has the pointer of *)
(* its row, by which parent() finds its way, and the proxy itself moves    *)
(* the persistent indexes over a layout change.                            *)
(***************************************************************************)
EXTENDS KRearrangeColumnsProxyModel

VARIABLES
    held,                           \* a persistent index of the proxy that a client holds
    proxyIndexes,                   \* over a layout change: where it was,
    layoutChangePersistentIndexes   \* and the index of the source that stands for it

extraVars == <<held, proxyIndexes, layoutChangePersistentIndexes>>

\* columnCount of the source.
Width == Len(m_sourceColumns)

\* extraColumnForProxyColumn; 0 when it is none.
extraColumnForProxyColumn(column) == IF column > Width THEN column - Width ELSE 0
IsExtra(column) == extraColumnForProxyColumn(column) > 0

mapToSource(i) == IF i = NoIndex \/ IsExtra(i.column) THEN NoIndex ELSE i

\* index and parent.
index(row, column, p) ==
    LET base == rearrangedIndex(row, IF IsExtra(column) THEN 1 ELSE column, mapToSource(p))
    IN  IF IsExtra(column) THEN Index(row, column, PointerOf(base)) ELSE base
parent(i) == rearrangedParent(IF IsExtra(i.column) THEN Index(i.row, 1, i.pointer) ELSE i)

rowCount(p) == rearrangedRowCount(mapToSource(p))
hasChildren(i) == (i # NoIndex => i.column = 1) /\ rearrangedHasChildren(mapToSource(i))

\* sibling, in the same row.
sibling(i, column) == IF column = i.column THEN i ELSE index(i.row, column, parent(i))

\* What _ec_sourceLayoutAboutToBeChanged asks the source to follow.
FollowedIndex(i) == IF IsExtra(i.column) THEN sibling(i, 1) ELSE i

\* _ec_sourceLayoutAboutToBeChanged, after the signal; persistent is the source's
\* persistent index of what is followed.
sourceLayoutAboutToBeChanged(persistent) ==
    /\ proxyIndexes' = held /\ layoutChangePersistentIndexes' = persistent
    /\ UNCHANGED held

\* Mutant of MovedIndex: an index in an extra column ends up in the column that stood for it.
MovedIndexFollowed(old, now) == now

\* The index in place of old, when what was followed is at now.
MovedIndex(old, now) == IF IsExtra(old.column) THEN sibling(now, old.column) ELSE now

\* _ec_sourceLayoutChanged; now is where the source's persistent index is now.
sourceLayoutChanged(now) ==
    /\ held' = IF proxyIndexes = NoIndex THEN held
               ELSE MovedIndex(proxyIndexes, now)
    /\ proxyIndexes' = NoIndex /\ layoutChangePersistentIndexes' = NoIndex

----------------------------------------------------------------------------
\* The indexes of a range of a selection; none unless it is valid.
Cells(topLeft, bottomRight) ==
    IF NoIndex \in {topLeft, bottomRight} \/ topLeft.pointer # bottomRight.pointer THEN {}
    ELSE {Index(r, c, topLeft.pointer) :
             r \in topLeft.row .. bottomRight.row, c \in topLeft.column .. bottomRight.column}

\* Mutant of SourceCells: the range keeps its last column.
SourceCellsUncut(range) == Cells(mapToSource(sibling(range.topLeft, 1)), mapToSource(range.bottomRight))

\* A range in the source: cut to the columns there, and from the first one on.
SourceCells(range) ==
    LET bottomRight == IF IsExtra(range.bottomRight.column) THEN sibling(range.bottomRight, Width)
                       ELSE range.bottomRight
    IN  Cells(mapToSource(sibling(range.topLeft, 1)), mapToSource(bottomRight))

mapSelectionToSource(selection) == UNION {SourceCells(range) : range \in selection}
============================================================================
