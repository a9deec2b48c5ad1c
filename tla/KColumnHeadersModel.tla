------------------------ MODULE KColumnHeadersModel ------------------------
(***************************************************************************)
(* KColumnHeadersModel (kcolumnheadersmodel.cpp): a list with a row for    *)
(* every column of the source model, which shows its header and whether    *)
(* the source is sorted by it.  A view of the model has drawn what it read *)
(* when the model last told it to: drawn.                                  *)
(***************************************************************************)
EXTENDS Integers, Sequences

Seqs == INSTANCE SequencesExt

CONSTANT Orders         \* sort orders

ASSUME OrdersAssumption == Orders # {}

VARIABLES
    attached,           \* there is a source model
    sortColumn,         \* the row that is marked; 0 for none
    sortOrder,
    drawn,
    marksMoved,         \* columns came, went or moved beside the marked row since the last reset
    headersMissed       \* columns whose header changed, and another row was drawn anew since

headerVars == <<attached, sortColumn, sortOrder, drawn, marksMoved, headersMissed>>

\* data, where the source has the headers texts.
RowData(texts, row, column, order) ==
    [text |-> texts[row], mark |-> IF row = column THEN {order} ELSE {}]
RowsOf(texts) == [row \in DOMAIN texts |-> RowData(texts, row, sortColumn, sortOrder)]

HeadersInit(texts) ==
    /\ attached = TRUE /\ sortColumn = 0 /\ sortOrder = (CHOOSE order \in Orders : TRUE)
    /\ drawn = RowsOf(texts) /\ marksMoved = FALSE /\ headersMissed = {}

\* dataChanged() for a set of rows, read with the new values of the properties.
Redraw(rows, texts) ==
    drawn' = [row \in DOMAIN drawn |-> IF row \in rows THEN RowData(texts, row, sortColumn', sortOrder') ELSE drawn[row]]

\* modelReset() with the headers texts; and setSourceModel.
ResetHeaders(texts) ==
    /\ drawn' = IF attached THEN RowsOf(texts) ELSE drawn
    /\ marksMoved' = FALSE /\ headersMissed' = {} /\ UNCHANGED <<attached, sortColumn, sortOrder>>
SetSourceModel(texts) ==
    /\ attached' = ~attached /\ drawn' = IF attached THEN <<>> ELSE RowsOf(texts)
    /\ marksMoved' = FALSE /\ headersMissed' = {} /\ UNCHANGED <<sortColumn, sortOrder>>

ColumnsChanged ==
    /\ marksMoved' = (marksMoved \/ sortColumn > 0)
    /\ UNCHANGED <<attached, sortColumn, sortOrder, headersMissed>>

\* columnsInserted, columnsRemoved and columnsMoved of the source: rows are.
InsertHeader(at, texts) ==
    /\ drawn' = IF attached THEN Seqs!InsertAt(drawn, at, RowData(texts, at, sortColumn, sortOrder)) ELSE drawn
    /\ ColumnsChanged
RemoveHeader(at) == drawn' = (IF attached THEN Seqs!RemoveAt(drawn, at) ELSE drawn) /\ ColumnsChanged
MoveHeader(from, to) ==
    /\ drawn' = IF attached THEN Seqs!InsertAt(Seqs!RemoveAt(drawn, from), to, drawn[from]) ELSE drawn
    /\ ColumnsChanged

\* headerDataChanged(Horizontal, at, at), where some headers are missed from then on.
HeaderDataChanged(at, texts, missed) ==
    /\ headersMissed' = missed
    /\ UNCHANGED <<attached, sortColumn, sortOrder, marksMoved>>
    /\ IF attached THEN Redraw({at}, texts) ELSE UNCHANGED drawn

SetSortColumn(column, texts) ==
    /\ column # sortColumn /\ sortColumn' = column
    /\ UNCHANGED <<attached, sortOrder, marksMoved, headersMissed>> /\ Redraw({sortColumn, column}, texts)
SetSortOrder(order, texts) ==
    /\ order # sortOrder /\ sortOrder' = order
    /\ UNCHANGED <<attached, sortColumn, marksMoved, headersMissed>> /\ Redraw({sortColumn}, texts)
============================================================================
