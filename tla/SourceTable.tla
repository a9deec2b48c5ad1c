---------------------------- MODULE SourceTable ----------------------------
(***************************************************************************)
(* A source model for the column proxies, as QAbstractItemModel asks for   *)
(* one: rows below rows, and the same columns everywhere, whose first one  *)
(* has the children.  An index is its row, its column and a pointer to the *)
(* row it is under.  Rows and columns count from 1, and 0 stands for none. *)
(***************************************************************************)
EXTENDS Integers, Sequences

CONSTANTS
    RowIds,         \* the rows of the source
    Under,          \* each row's parent row, or Top
    Top,
    NoIndex         \* the invalid index

ASSUME UnderAssumption ==
    /\ Under \in [RowIds -> RowIds \cup {Top}] /\ Top \notin RowIds
    /\ NoIndex \notin [row : Nat, column : Nat, pointer : RowIds \cup {Top}]

VARIABLES
    sourceRows,     \* row, or Top -> the rows under it, in order
    sourceColumns   \* the columns, in order

tableVars == <<sourceRows, sourceColumns>>

Index(row, column, pointer) == [row |-> row, column |-> column, pointer |-> pointer]
PointerOf(i) == IF i = NoIndex THEN Top ELSE i.pointer

Position(s, x) == IF \E i \in DOMAIN s : s[i] = x THEN CHOOSE i \in DOMAIN s : s[i] = x ELSE 0

\* The row that an index is on; Top for the invalid index.
RowAt(i) == IF i = NoIndex THEN Top ELSE sourceRows[i.pointer][i.row]

\* rowCount, index, parent and sibling of the source.
sourceRowCount(p) == IF p # NoIndex /\ p.column > 1 THEN 0 ELSE Len(sourceRows[RowAt(p)])
sourceIndex(row, column, p) ==
    IF row \in 1 .. sourceRowCount(p) /\ column \in DOMAIN sourceColumns
    THEN Index(row, column, RowAt(p)) ELSE NoIndex
sourceParent(i) ==
    IF i = NoIndex \/ i.pointer = Top THEN NoIndex
    ELSE Index(Position(sourceRows[Under[i.pointer]], i.pointer), 1, Under[i.pointer])
sourceSibling(i, row, column) == IF i = NoIndex THEN NoIndex ELSE sourceIndex(row, column, sourceParent(i))
============================================================================
