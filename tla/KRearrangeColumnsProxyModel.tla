-------------------- MODULE KRearrangeColumnsProxyModel --------------------
(***************************************************************************)
(* KRearrangeColumnsProxyModel (krearrangecolumnsproxymodel.cpp): shows    *)
(* the columns of the source that m_sourceColumns lists, in that order.    *)
(* Children are always those of the source's first column, which may be    *)
(* anywhere in the proxy or not be there at all.                           *)
(***************************************************************************)
EXTENDS SourceTable

VARIABLES
    m_sourceColumns,
    m_resetting             \* the source model is being reset

rearrangeVars == <<m_sourceColumns, m_resetting>>

sourceColumnForProxyColumn(column) == m_sourceColumns[column]
proxyColumnForSourceColumn(column) == Position(m_sourceColumns, column)

\* mapToSource.
ToSource(i) == IF i = NoIndex THEN NoIndex ELSE [i EXCEPT !.column = sourceColumnForProxyColumn(@)]

\* The source's index of the first column for a parent in the proxy.
FirstColumn(p) == IF p = NoIndex THEN NoIndex ELSE sourceSibling(ToSource(p), p.row, 1)
IsBeside(p) == p # NoIndex /\ p.column > 1

\* Mutant of rearrangedRowCount: the children of the column that is first in the proxy.
rearrangedRowCountShown(p) == IF IsBeside(p) THEN 0 ELSE sourceRowCount(ToSource(p))

\* rowCount, hasChildren, index and parent.
rearrangedRowCount(p) == IF IsBeside(p) THEN 0 ELSE sourceRowCount(FirstColumn(p))
rearrangedHasChildren(p) ==
    m_sourceColumns # <<>> /\ ~IsBeside(p) /\ sourceRowCount(FirstColumn(p)) > 0
rearrangedIndex(row, column, p) ==
    IF IsBeside(p) \/ m_sourceColumns = <<>> THEN NoIndex
    ELSE LET i == sourceIndex(row, sourceColumnForProxyColumn(column), FirstColumn(p))
         IN  IF i = NoIndex THEN NoIndex ELSE Index(row, column, i.pointer)
rearrangedParent(i) ==
    LET p == sourceParent(ToSource(i))
    IN  IF p = NoIndex THEN NoIndex ELSE Index(p.row, 1, p.pointer)

\* The slots of the source's modelAboutToBeReset() and modelReset(): they come before
\* those of QIdentityProxyModel, which resets the proxy.
SourceAboutToBeReset == m_resetting' = TRUE /\ UNCHANGED m_sourceColumns
SourceReset == m_resetting' = FALSE /\ UNCHANGED m_sourceColumns

\* setSourceColumns: a reset of its own, or part of the one that is under way.
setSourceColumns(columns) == m_sourceColumns' = columns /\ UNCHANGED m_resetting
============================================================================
