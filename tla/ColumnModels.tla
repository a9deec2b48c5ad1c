---------------------------- MODULE ColumnModels ----------------------------
(***************************************************************************)
(* A source model with rows below rows, and columns; a                     *)
(* KRearrangeColumnsProxyModel on it or not, a KExtraColumnsProxyModel on  *)
(* that, and a KColumnHeadersModel on top.  All rows have the same         *)
(* columns, which come, go and move for all of them in one step and with   *)
(* one signal.                                                             *)
(***************************************************************************)
EXTENDS KExtraColumnsProxyModel, KColumnHeadersModel, FiniteSets

CONSTANTS
    ColumnIds,      \* the columns it may have
    Texts,          \* headers of columns
    m_extraHeaders  \* headers of the extra columns, in order

ASSUME ColumnsAssumption ==
    /\ IsFiniteSet(RowIds) /\ IsFiniteSet(ColumnIds)
    /\ Texts # {} /\ m_extraHeaders \in Seq(Texts)

VARIABLES
    headerText,                     \* header of each column
    rearranges,                     \* there is a KRearrangeColumnsProxyModel
    client,                         \* bound: it holds "indexes" or watches "headers"
    phase,                          \* idle, or where a layout change or a reset of the source is
    heldItem                        \* the row and column of the source, or the extra column, that held is on

vars == <<tableVars, rearrangeVars, extraVars, headerVars, headerText, rearranges, client, phase, heldItem>>

\* The orders that the rows of the source may be in.
Orderings ==
    LET rows(q) == Seqs!SetToSeqs({n \in RowIds : Under[n] = q})
    IN  {f \in [RowIds \cup {Top} -> UNION {rows(q) : q \in RowIds \cup {Top}}] : \A q \in DOMAIN f : f[q] \in rows(q)}

\* The columns that the extra columns follow, each by its position in the source.
Arrangements(columns) ==
    IF rearranges
    THEN {s \in UNION {[1 .. n -> DOMAIN columns] : n \in 1 .. Len(columns)} : Seqs!IsInjective(s)}
    ELSE {[i \in DOMAIN columns |-> i]}

\* headerData of the KExtraColumnsProxyModel, where the source below has the given headers.
HeadersOf(columns, arrangement, texts) ==
    [i \in DOMAIN arrangement |-> texts[columns[arrangement[i]]]] \o m_extraHeaders
Headers == HeadersOf(sourceColumns, m_sourceColumns, headerText)

Init ==
    /\ client \in {"indexes", "headers"}
    /\ sourceRows \in IF client = "indexes" THEN Orderings ELSE {CHOOSE f \in Orderings : TRUE}
    /\ \E S \in SUBSET ColumnIds : S # {} /\ sourceColumns \in Seqs!SetToSeqs(S)
    /\ headerText = [c \in ColumnIds |-> CHOOSE t \in Texts : TRUE]
    /\ rearranges \in BOOLEAN
    /\ m_sourceColumns \in Arrangements(sourceColumns) /\ m_resetting = FALSE
    /\ held = NoIndex /\ proxyIndexes = NoIndex /\ layoutChangePersistentIndexes = NoIndex
    /\ HeadersInit(Headers) /\ phase = "idle" /\ heldItem = NoIndex

\* What is at an index, for an extra column by way of its parent; and where that is.
data(i) ==
    IF IsExtra(i.column)
    THEN [row |-> RowAt([i EXCEPT !.pointer = RowAt(parent(i))]), extra |-> extraColumnForProxyColumn(i.column), column |-> NoIndex]
    ELSE [row |-> RowAt(mapToSource(i)), extra |-> 0, column |-> sourceColumns[sourceColumnForProxyColumn(i.column)]]
PlaceOf(item) ==
    Index(Position(sourceRows[Under[item.row]], item.row),
          proxyColumnForSourceColumn(Position(sourceColumns, item.column)), Under[item.row])

\* Every index that a client can come to: from a parent in the first column down.
Parents == {NoIndex} \cup {Index(Position(sourceRows[Under[n]], n), 1, Under[n]) : n \in RowIds}
Places ==
    UNION {{index(row, column, p) : row \in DOMAIN sourceRows[RowAt(p)], column \in 1 .. Width + Len(m_extraHeaders)} :
               p \in Parents}

sourceVars == <<tableVars, headerText, rearranges, client>>

----------------------------------------------------------------------------
\* A client takes a persistent index, also in a slot of layoutAboutToBeChanged().
Hold ==
    /\ client = "indexes" /\ phase \in {"idle", "announced"} /\ held = NoIndex
    /\ \E i \in Places : held' = i /\ heldItem' = data(i)
    /\ UNCHANGED <<rearrangeVars, proxyIndexes, layoutChangePersistentIndexes, headerVars, sourceVars, phase>>

\* The source changes its layout: the proxies announce it, keep what they need, and move
\* the persistent indexes when the rows are in another order.
LayoutAboutToBeChanged ==
    /\ client = "indexes" /\ phase = "idle" /\ phase' = "announced"
    /\ UNCHANGED <<rearrangeVars, extraVars, headerVars, sourceVars, heldItem>>
KeepIndexes ==
    /\ phase = "announced" /\ phase' = "kept"
    /\ sourceLayoutAboutToBeChanged(
           IF held = NoIndex THEN NoIndex ELSE data(mapToSource(FollowedIndex(held))))
    /\ UNCHANGED <<rearrangeVars, headerVars, sourceVars, heldItem>>
Relayout ==
    /\ phase = "kept" /\ phase' = "relaid"
    /\ sourceRows' \in Orderings
    /\ UNCHANGED <<rearrangeVars, extraVars, headerVars, sourceColumns, headerText, rearranges, client, heldItem>>
LayoutChanged ==
    /\ phase = "relaid" /\ phase' = "idle"
    /\ sourceLayoutChanged(
           IF proxyIndexes = NoIndex THEN NoIndex ELSE PlaceOf(layoutChangePersistentIndexes))
    /\ UNCHANGED <<rearrangeVars, headerVars, sourceVars, heldItem>>

----------------------------------------------------------------------------
\* QAbstractItemModel moves the persistent index with the columns that it is told of.
Shift(column) ==
    /\ held' = IF held = NoIndex \/ column = 0 THEN NoIndex ELSE [held EXCEPT !.column = column]
    /\ heldItem' = IF held' = NoIndex THEN NoIndex ELSE heldItem
    /\ UNCHANGED <<proxyIndexes, layoutChangePersistentIndexes, sourceRows, headerText, rearranges, client, phase>>
HeldColumn == IF held = NoIndex THEN 0 ELSE held.column

\* The source has other columns, while nothing rearranges them: KRearrangeColumnsProxyModel
\* would pass the signals on with the numbers of the source, and leave m_sourceColumns alone.
ColumnsBecome(columns) ==
    /\ phase = "idle" /\ ~rearranges
    /\ sourceColumns' = columns /\ m_sourceColumns' = [i \in DOMAIN columns |-> i]
    /\ UNCHANGED m_resetting
InsertColumn == \E at \in 1 .. Len(sourceColumns) + 1, c \in ColumnIds \ Seqs!ToSet(sourceColumns) :
    /\ ColumnsBecome(Seqs!InsertAt(sourceColumns, at, c))
    /\ InsertHeader(at, HeadersOf(sourceColumns', m_sourceColumns', headerText))
    /\ Shift(IF HeldColumn >= at THEN HeldColumn + 1 ELSE HeldColumn)
RemoveColumn == \E at \in DOMAIN sourceColumns :
    /\ Len(sourceColumns) > 1
    /\ ColumnsBecome(Seqs!RemoveAt(sourceColumns, at)) /\ RemoveHeader(at)
    /\ Shift(IF HeldColumn = at THEN 0 ELSE IF HeldColumn > at THEN HeldColumn - 1 ELSE HeldColumn)
MoveColumn == \E from, to \in DOMAIN sourceColumns :
    /\ from # to
    /\ ColumnsBecome(Seqs!InsertAt(Seqs!RemoveAt(sourceColumns, from), to, sourceColumns[from]))
    /\ MoveHeader(from, to)
    /\ LET left == IF HeldColumn > from THEN HeldColumn - 1 ELSE HeldColumn
       IN  Shift(IF HeldColumn \in {0, from} THEN IF HeldColumn = 0 THEN 0 ELSE to
                 ELSE IF left >= to THEN left + 1 ELSE left)

\* The number that headerDataChanged() has is the column's in the source: both proxies pass
\* it on as it is, so that the row drawn anew may be that of another column.
RenameColumn == \E at \in DOMAIN sourceColumns, t \in Texts :
    /\ client = "headers" /\ phase = "idle" /\ t # headerText[sourceColumns[at]]
    /\ headerText' = [headerText EXCEPT ![sourceColumns[at]] = t]
    /\ HeaderDataChanged(at, HeadersOf(sourceColumns, m_sourceColumns, headerText'),
           (headersMissed \cup {sourceColumns[at]}) \ {sourceColumns[m_sourceColumns[i]] : i \in DOMAIN m_sourceColumns \cap {at}})
    /\ UNCHANGED <<rearrangeVars, extraVars, sourceRows, sourceColumns, rearranges, client, phase, heldItem>>

----------------------------------------------------------------------------
Drop == held' = NoIndex /\ heldItem' = NoIndex /\ UNCHANGED <<proxyIndexes, layoutChangePersistentIndexes>>

\* Mutant of SetSourceColumns: part of a reset of the source whenever there was one.
SetSourceColumnsSilent ==
    /\ rearranges /\ phase \in {"idle", "resetting", "reset"}
    /\ \E columns \in Arrangements(sourceColumns) : setSourceColumns(columns)
    /\ UNCHANGED <<extraVars, heldItem, headerVars, sourceVars, phase>>

\* setSourceColumns: with reset signals of its own unless the source is being reset.
SetSourceColumns ==
    /\ rearranges /\ phase \in {"idle", "resetting", "reset"}
    /\ \E columns \in Arrangements(sourceColumns) : setSourceColumns(columns)
    /\ IF m_resetting THEN UNCHANGED <<extraVars, heldItem, headerVars>>
       ELSE Drop /\ ResetHeaders(HeadersOf(sourceColumns, m_sourceColumns', headerText))
    /\ UNCHANGED <<sourceVars, phase>>

ResetBegins ==
    /\ phase = "idle" /\ phase' = "resetting" /\ SourceAboutToBeReset
    /\ UNCHANGED <<extraVars, headerVars, sourceVars, heldItem>>

\* The source has other rows and columns.  When they are rearranged the client's slot may
\* see to m_sourceColumns before the proxy hears of it; columns that are gone go here.
SourceChanges ==
    /\ phase = "resetting" /\ phase' = "reset"
    /\ \E S \in SUBSET ColumnIds : S # {} /\ sourceColumns' \in Seqs!SetToSeqs(S)
    /\ headerText' \in IF client = "headers" THEN [ColumnIds -> Texts] ELSE {headerText}
    /\ m_sourceColumns' \in IF rearranges THEN {m_sourceColumns} ELSE {[i \in DOMAIN sourceColumns' |-> i]}
    /\ Seqs!ToSet(m_sourceColumns') \subseteq DOMAIN sourceColumns'
    /\ UNCHANGED <<m_resetting, extraVars, headerVars, sourceRows, rearranges, client, heldItem>>

ResetEnds ==
    /\ phase = "reset" /\ phase' = "idle" /\ SourceReset
    /\ Drop /\ ResetHeaders(Headers) /\ UNCHANGED sourceVars

----------------------------------------------------------------------------
MarkColumn == \E column \in 0 .. Width + Len(m_extraHeaders) :
    /\ client = "headers" /\ phase = "idle" /\ SetSortColumn(column, Headers)
    /\ UNCHANGED <<rearrangeVars, extraVars, sourceVars, phase, heldItem>>
MarkOrder == \E order \in Orders :
    /\ client = "headers" /\ phase = "idle" /\ SetSortOrder(order, Headers)
    /\ UNCHANGED <<rearrangeVars, extraVars, sourceVars, phase, heldItem>>
Attach ==
    /\ client = "headers" /\ phase = "idle" /\ SetSourceModel(Headers)
    /\ UNCHANGED <<rearrangeVars, extraVars, sourceVars, phase, heldItem>>

Next ==
    \/ Hold \/ LayoutAboutToBeChanged \/ KeepIndexes \/ Relayout \/ LayoutChanged
    \/ InsertColumn \/ RemoveColumn \/ MoveColumn \/ RenameColumn
    \/ SetSourceColumns \/ ResetBegins \/ SourceChanges \/ ResetEnds
    \/ MarkColumn \/ MarkOrder \/ Attach

Spec == Init /\ [][Next]_vars

----------------------------------------------------------------------------
\* A persistent index stays on the row it was taken on, and in the column of the source,
\* or the extra column, it was taken in, over layout changes and columns that come and go;
\* and its parent(), which has rows as far as that, leads back to it.
PersistentIndexesFollow ==
    phase = "idle" /\ held # NoIndex =>
        /\ data(held) = heldItem
        /\ index(held.row, held.column, parent(held)) = held
        /\ hasChildren(parent(held)) /\ held.row <= rowCount(parent(held))

\* The columns, rearranged, that a view need not show the header of: it changed, and the
\* number in headerDataChanged() was that of another row.
StaleRows == {i \in DOMAIN m_sourceColumns : sourceColumns[m_sourceColumns[i]] \in headersMissed}

\* A view of the header model shows a row for every column, with its header, while columns
\* come, go, move, are rearranged and reset (columns that come, go or move only where nothing
\* rearranges them), unless it is stale; and the mark where it belongs, until columns come or
\* go beside it (kcolumnheadersmodel.cpp).
HeadersHeard ==
    phase = "idle" =>
        LET rows == IF attached THEN RowsOf(Headers) ELSE <<>>
        IN  /\ DOMAIN drawn = DOMAIN rows
            /\ \A i \in DOMAIN rows :
                  /\ i \in StaleRows \/ drawn[i].text = rows[i].text
                  /\ marksMoved \/ drawn[i].mark = rows[i].mark

\* Ranges of the KExtraColumnsProxyModel.
Ranges ==
    {range \in [topLeft : Places, bottomRight : Places] : Cells(range.topLeft, range.bottomRight) # {}}

\* What is selected in the columns of the source is selected in the source, together with
\* nothing in other rows, and a row that is selected in an extra column only as well.
SelectionReachesSource ==
    phase = "idle" =>
        \A range \in Ranges :
            LET cells == Cells(range.topLeft, range.bottomRight)
                mapped == mapSelectionToSource({range})
                rows(S) == {<<i.row, i.pointer>> : i \in S}
            IN  /\ {i \in cells : ~IsExtra(i.column)} \subseteq mapped
                /\ rows(cells) = rows(mapped) /\ \A i \in mapped : ~IsExtra(i.column)
=============================================================================
