------------------------------ MODULE ModelTest ------------------------------
(***************************************************************************)
(* The checker that the tests attach to a model                            *)
(* (autotests/proxymodeltestsuite/modeltest.cpp), on the tree model below  *)
(* the proxies.  Its slots run at the signals before and after a change:   *)
(* before, they note the size of the rows that change and the texts around *)
(* the place; after, they compare.  No command makes a change within a     *)
(* change, so the notes of a change are the only ones on their stack.      *)
(*                                                                         *)
(* A model index is its row and an id, as in DynamicTreeModel::index.  A   *)
(* text stands for the item that has it.  The checker is never pedantic:   *)
(* no test constructs it so.                                               *)
(***************************************************************************)
EXTENDS DynamicTreeModel

Invalid == <<0, 0>>

\* DynamicTreeModel::index and parent.
modelIndex(row, q) ==
    IF row \in 0 .. Size(q) - 1 THEN <<row, m_childItems[q][row + 1]>> ELSE Invalid
modelParent(i) ==
    LET p == findParentId(i[2])
    IN  IF p \in {Absent, 0} THEN Invalid ELSE <<RowOf(p), p>>

\* The data of index(row, 0, q); Absent for an invalid index.
textAt(q, row) == IF modelIndex(row, q) = Invalid THEN Absent ELSE m_childItems[q][row + 1]

Reached == {0} \cup {n \in Held : 0 \in {findParentId(a) : a \in Tree!SelfAndAbove[n]}}
IndexAt(q) == IF q = 0 THEN Invalid ELSE <<RowOf(q), q>>

----------------------------------------------------------------------------
\* QAbstractItemModel::hasIndex and hasChildren, in the one column.
hasIndex(row, q) == row \in 0 .. Size(q) - 1
hasChildren(q) == hasIndex(0, q)

\* rowCount(): the first row has children just if it counts some, and so has its first child.
testRowCount ==
    Size(0) > 0 =>
        LET top == modelIndex(0, 0)[2] second == modelIndex(0, top)
        IN  /\ hasChildren(top) = (Size(top) > 0)
            /\ second # Invalid /\ Size(second[2]) > 0 => hasChildren(second[2])

\* hasIndex(): no row before the first or past the last, and row 0 if there are rows.
testHasIndex ==
    ~hasIndex(-2, 0) /\ ~hasIndex(Size(0), 0) /\ ~hasIndex(Size(0) + 1, 0) /\ hasIndex(0, 0) = (Size(0) > 0)

\* index(): no index past the last row, and one at row 0 if there are rows.
testIndex == modelIndex(Size(0), 0) = Invalid /\ (Size(0) > 0 => modelIndex(0, 0) # Invalid)

\* checkChildren(), for the whole tree: every row has a valid index, whose parent() is
\* the index that its children were asked of; the walk back up comes to an end.
checkChildren ==
    \A q \in Reached :
        /\ modelIndex(Size(q), q) = Invalid
        /\ \A row \in 0 .. Size(q) - 1 :
              LET i == modelIndex(row, q)
              IN  i # Invalid /\ i[1] = row /\ modelParent(i) = IndexAt(q)

\* parent(): the parent of a top-level row is invalid, that of its first child the row.
testParent ==
    LET top == modelIndex(0, 0)
    IN  Size(0) > 0 =>
            /\ modelParent(top) = Invalid
            /\ Size(top[2]) > 0 => modelParent(modelIndex(0, top[2])) = top
            /\ checkChildren

\* data(): a top-level row has a text.
testData == Size(0) > 0 => textAt(0, 0) # Absent

runAllTests == testRowCount /\ testHasIndex /\ testIndex /\ testParent /\ testData

----------------------------------------------------------------------------
\* What is noted about q, of whose rows "before" and "after" stay around the change.
Changing(i, q, before, after) ==
    [parent |-> i, oldSize |-> Size(q), last |-> textAt(q, before), next |-> textAt(q, after)]

rowsAboutToBeInserted(a) == Changing(IndexAt(a.parent), a.parent, a.first - 1, a.first)
rowsInserted(c, a) ==
    /\ c.oldSize + (a.last - a.first + 1) = Size(a.parent)
    /\ c.last = textAt(a.parent, a.first - 1) /\ c.next = textAt(a.parent, a.last + 1)

\* Mutant of rowsAboutToBeRemoved: the text of the last row that goes is noted.
rowsAboutToBeRemovedLast(a) == Changing(IndexAt(a.parent), a.parent, a.first - 1, a.last)

rowsAboutToBeRemoved(a) == Changing(IndexAt(a.parent), a.parent, a.first - 1, a.last + 1)
rowsRemoved(c, a) ==
    /\ c.oldSize - (a.last - a.first + 1) = Size(a.parent)
    /\ c.last = textAt(a.parent, a.first - 1) /\ c.next = textAt(a.parent, a.first)

\* layoutAboutToBeChanged: persistent indexes of the first 100 top-level rows.
Top == {modelIndex(row, 0) : row \in 0 .. Size(0) - 1}

\* layoutChanged: where changePersistentIndexList has put the index p, a row is found.
Placed(p, a) ==
    LET i == CHOOSE k \in DOMAIN a.before : a.before[k] = p[2]
    IN  IF \E k \in DOMAIN a.before : a.before[k] = p[2]
        THEN <<RowOf(a.after[i]), a.after[i]>> ELSE p
layoutChanged(changing, a) ==
    \A p \in changing :
        LET now == Placed(p, a) IN modelIndex(now[1], modelParent(now)[2]) = now

\* dataChanged: the two indexes name rows of the model.
dataChanged(a) ==
    /\ a.first <= a.last /\ a.last < Size(a.parent)
    /\ modelIndex(a.first, a.parent) # Invalid /\ modelIndex(a.last, a.parent) # Invalid

----------------------------------------------------------------------------
\* rowsAboutToBeMoved notes both parents; rowsMoved compares only the size when they are the same.
SourceNote(a) == Changing(IndexAt(a.parent), a.parent, a.first - 1, a.last + 1)
DestinationNote(a) == Changing(IndexAt(a.destination), a.destination, a.row - 1, a.row)

\* The parents that endMoveRows() names are the old indexes with their rows adjusted.
rowsMoved(cs, cd, a) ==
    LET count == a.last - a.first + 1
    IN  /\ cd.parent = IndexAt(a.destination)
        /\ IF a.parent = a.destination THEN cd.oldSize = Size(a.parent)
           ELSE /\ cd.oldSize + count = Size(a.destination)
                /\ cd.last = textAt(a.destination, a.row - 1)
                /\ cd.next = textAt(a.destination, a.row + count)
        /\ cs.parent = IndexAt(a.parent)
        /\ IF a.parent = a.destination THEN cs.oldSize = Size(a.parent)
           ELSE /\ cs.oldSize - count = Size(a.parent)
                /\ cs.last = textAt(a.parent, a.first - 1)
                /\ cs.next = textAt(a.parent, a.first)

\* A move next to the one parent among the rows of the other gives that parent another
\* row; rowsMoved() takes its index before and after for two parents.
ShiftsParent(a) == \E q \in {a.parent, a.destination} : IndexAt(q) # IndexAt(q)'

----------------------------------------------------------------------------
\* What is noted before the change announced as a holds good after it.
Verified(a) ==
    CASE a.signal = "rowsInserted" -> \E c \in {rowsAboutToBeInserted(a)} : rowsInserted(c, a)'
      [] a.signal = "queued" ->
            /\ \E c \in {rowsAboutToBeInserted(a)'} : rowsInserted(c, a)'
            /\ \E c \in {rowsAboutToBeRemoved(a)'} : rowsRemoved(c, a)'
      [] a.signal = "rowsRemoved" -> \E c \in {rowsAboutToBeRemoved(a)} : rowsRemoved(c, a)'
      [] a.signal = "rowsMoved" -> \E cs \in {SourceNote(a)}, cd \in {DestinationNote(a)} : rowsMoved(cs, cd, a)'
      [] a.signal \in {"layoutChanged", "treeLaidOut"} -> \E changing \in {Top} : layoutChanged(changing, a)'
      [] a.signal = "dataChanged" -> dataChanged(a)'
      [] a.signal = "modelReset" -> TRUE

\* The checker finds the model sound before and after every command, and finds what it
\* has noted before a change in its place after it.  It raises an alarm in two cases: when
\* signals come after the rows they announce have gone again, as it must; and, a false one,
\* for a move that gives one of two different parents another row.
ModelTestPasses ==
    [][/\ runAllTests /\ runAllTests'
       /\ \A a \in {announced'} : Verified(a) = (a.signal # "queued" /\ (a.signal = "rowsMoved" => ~ShiftsParent(a)))]_vars
============================================================================
