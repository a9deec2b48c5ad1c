------------------------ MODULE KSelectionProxyModel ------------------------
(***************************************************************************)
(* KSelectionProxyModel (kselectionproxymodel.cpp): the selected part of a *)
(* tree.  Which part depends on the filter behaviour; the roots of it are  *)
(* kept in depth-first order in m_rootIndexList.  m_mappedFirstChildren    *)
(* gives the proxy row of the first child of each root when the children,  *)
(* not the roots, make up the top level.  m_mappedParents gives the proxy  *)
(* index of each shown row that has rows of its own.                       *)
(*                                                                         *)
(* A proxy index is its row and an id, the internalPointer() that          *)
(* m_parentIds gives its parent.  Ids are fresh and go with the mapping,   *)
(* so the id is named after the source index of the parent and m_parentIds *)
(* is m_mappedParents seen from the other side.                            *)
(*                                                                         *)
(* Slots run at every signal: the steps of a call end where a signal is    *)
(* emitted.  "view" is a listener that keeps a tree of its own up to date  *)
(* from the signals and reads each new row with everything below it.  The  *)
(* selection model is on the source model itself and was created first, so *)
(* it hears of removals and resets before the proxy does.                  *)
(***************************************************************************)
EXTENDS SelectionRoots, ProxyRows

CONSTANTS
    Operations, \* what the source and the user do in a run
    MaxPending  \* bound: selection changes during one insertion or removal

\* "selectInserting" and "selectRemoving" change the selection from a slot while
\* rows come and go ("selectRemovingShown" when the proxy shows rows that go),
\* "clearRelayouting" clears it during a layout change and "selectResetting" changes
\* it while the source is reset.
\* "insertDeep" inserts below a shown row of SubTreesWithoutRoots.
\* "selectionModel" is a new selection model while nothing is selected,
\* "selectionModelLoaded" one while something is.
AllOperations ==
    {"select", "insert", "insertDeep", "remove", "layout", "move", "reset", "behavior",
     "selectionModel", "selectionModelLoaded",
     "selectInserting", "selectRemoving", "selectRemovingShown", "clearRelayouting",
     "selectResetting"}

ASSUME SelectionAssumption ==
    /\ Operations \subseteq AllOperations
    /\ MaxPending \in Nat

VARIABLES
    hasSource,      \* has setSourceModel been called?
    selection,      \* what the selection model has selected
    emptied,        \* has a slot emptied it during a layout change?
    m_filterBehavior,
    m_rootIndexList, m_mappedFirstChildren, m_mappedParents,
    m_rowsInserted, m_rowsRemoved,
    m_proxyRemoveRows, m_recreateFirstChildMappingOnRemoval,
    m_pendingSelectionChanges,
    m_resetting, m_sourceModelResetting, m_doubleResetting, m_layoutChanging,
    change,         \* the roots selectionChanged has still to remove and to insert
    phase, resume,  \* where the running call stands, and where it goes on after change
    op,             \* the arguments of the running source operation
    announced,      \* the begin... signals that are not ended yet
    view,           \* a listener's tree: index -> its rows
    heardRoots      \* the roots of which a listener has been told

tableVars == <<m_rootIndexList, m_mappedFirstChildren, m_mappedParents>>
rowFlags == <<m_rowsInserted, m_rowsRemoved, m_proxyRemoveRows,
              m_recreateFirstChildMappingOnRemoval>>
resetFlags == <<m_resetting, m_sourceModelResetting, m_doubleResetting, m_layoutChanging>>
selectVars == <<hasSource, selection, emptied, m_filterBehavior>>
changeVars == <<change, phase, resume, m_pendingSelectionChanges>>
viewVars == <<announced, view, heardRoots>>
vars == <<srcVars, selectVars, tableVars, rowFlags, resetFlags, changeVars, op, viewVars>>

Behaviors == {"SubTrees", "SubTreeRoots", "SubTreesWithoutRoots", "ExactSelection",
              "ChildrenOfExactSelection"}

m_omitChildren == m_filterBehavior \in {"SubTreeRoots", "ExactSelection"}
m_startWithChildTrees ==
    m_filterBehavior \in {"SubTreesWithoutRoots", "ChildrenOfExactSelection"}
m_includeAllSelected ==
    m_filterBehavior \in {"ExactSelection", "ChildrenOfExactSelection"}
isFlat == m_omitChildren \/ m_filterBehavior = "ChildrenOfExactSelection"

Phases ==
    {"idle", "inserting", "inserted", "draining", "toRemove", "removing", "removed",
     "relayouting", "relayouted", "layoutRebuilt", "resetting", "reset", "cleared",
     "rebuilt", "changing", "rootsLeaving", "adding", "rootComing", "rootAdded"}

NoIndex == <<NoRow, Root>>
NoPair == <<NoRow, NoRow>>
NoOp == [parent |-> Root, first |-> 0, last |-> 0, target |-> Root, dest |-> 0]
NoChange == [remove |-> {}, add |-> <<>>]

----------------------------------------------------------------------------
(* The tables: the roots and the two mappings, as one record.              *)

Tables == [roots |-> m_rootIndexList, firsts |-> m_mappedFirstChildren,
           parents |-> m_mappedParents]
EmptyTables == [roots |-> <<>>, firsts |-> EmptyMapping, parents |-> EmptyMapping]

SetTables(t) ==
    /\ m_rootIndexList' = t.roots
    /\ m_mappedFirstChildren' = t.firsts
    /\ m_mappedParents' = t.parents

Mapped(t, n) == n \in DOMAIN t.parents
RootRow(t, n) == CHOOSE k \in DOMAIN t.roots : t.roots[k] = n
IsRoot(t, n) == \E k \in DOMAIN t.roots : t.roots[k] = n

\* KHash2Map::insert for the entries of new: an index that one of them takes is
\* taken from its holder.
Bind(parents, new) ==
    [n \in {m \in DOMAIN parents : m \notin DOMAIN new
                                   /\ \A k \in DOMAIN new : new[k] # parents[m]} \cup DOMAIN new |->
        IF n \in DOMAIN new THEN new[n] ELSE parents[n]]

\* The node whose rows have proxy index i as their parent; Root when there is none.
mapParentToSource(t, i) ==
    IF \E n \in DOMAIN t.parents : t.parents[n] = i
    THEN CHOOSE n \in DOMAIN t.parents : t.parents[n] = i ELSE Root

\* q->parent(i): the invalid index for the top level, for ids without a parent, and
\* whenever there are no roots.
proxyParent(t, i) ==
    IF t.roots # <<>> /\ Mapped(t, i[2]) THEN t.parents[i[2]] ELSE NoIndex

\* KSelectionProxyModelPrivate::mapFromSource
mapFromSource(t, n) ==
    LET p == parent(n)
        first == index(0, p)
    IN  IF Mapped(t, n) THEN t.parents[n]
        ELSE IF Mapped(t, p) THEN <<IndexRow(n), p>>
        ELSE IF first \in MappedIndexes(t.firsts)
             THEN <<MappedRow(t.firsts, first) + IndexRow(n), Root>>
        ELSE IF ~IsRoot(t, n) THEN NoIndex
        ELSE IF ~m_startWithChildTrees THEN <<RootRow(t, n) - 1, Root>>
        ELSE IF ~IsRoot(t, p) THEN NoIndex
        ELSE <<MappedRow(t.firsts, first) + IndexRow(n), Root>>

mapTopLevelToSource(t, row) ==
    IF ~m_startWithChildTrees
    THEN IF row + 1 \in DOMAIN t.roots THEN t.roots[row + 1] ELSE Root
    ELSE IF \A q \in DOMAIN t.firsts : q > row THEN Root
    ELSE LET r == Greatest({q \in DOMAIN t.firsts : q <= row})
         IN  index(row - r, parent(t.firsts[r]))

\* What createTopLevelIndex asserts of a row: there is a root, or a first child, for it.
indexIsValid(t, row) ==
    IF ~m_startWithChildTrees THEN row < Len(t.roots)
    ELSE \E r \in DOMAIN t.firsts :
            /\ r <= row /\ \A q \in DOMAIN t.firsts : q <= row => q <= r
            /\ parent(t.firsts[r]) # Root
            /\ row <= r + rowCount(parent(t.firsts[r]))

topLevelRowCount(t) ==
    IF t.roots = <<>> THEN 0
    ELSE IF ~m_startWithChildTrees THEN Len(t.roots)
    ELSE IF t.firsts = EmptyMapping THEN 0
    ELSE LET r == Greatest(DOMAIN t.firsts)
         IN  r + rowCount(parent(t.firsts[r]))

mapToSource(t, i) ==
    IF t.roots = <<>> THEN Root
    ELSE IF i[2] # Root /\ ~Mapped(t, i[2]) THEN Root
    ELSE IF i[2] = Root THEN mapTopLevelToSource(t, i[1])
    ELSE index(i[1], mapParentToSource(t, t.parents[i[2]]))

----------------------------------------------------------------------------
(* Repairing the tables.                                                   *)

\* The entries below the proxy index at, NoIndex for the top level, move by offset
\* from row start on.
updateInternalIndexes(t, at, start, offset) ==
    LET moved == {n \in DOMAIN t.parents :
                     t.parents[n][1] >= start /\ proxyParent(t, t.parents[n]) = at}
    IN  [t EXCEPT !.parents =
            Bind(@, [n \in moved |-> <<t.parents[n][1] + offset, t.parents[n][2]>>])]

\* Mutant of updateInternalTopIndexes: every first child moves.
updateInternalTopIndexesAll(t, start, offset) ==
    [updateInternalIndexes(t, NoIndex, start, offset)
        EXCEPT !.firsts = MapShift(@, 0, offset)]

updateInternalTopIndexes(t, start, offset) ==
    [updateInternalIndexes(t, NoIndex, start, offset)
        EXCEPT !.firsts = MapShift(@, start, offset)]

createFirstChildMapping(t, p, row) ==
    IF index(0, p) \in MappedIndexes(t.firsts) THEN t
    ELSE [t EXCEPT !.firsts = MapInsert(@, index(0, p), row)]

\* Mutant of updateFirstChildMapping: the row is not taken back by the offset.
updateFirstChildMappingMoved(t, p, offset) ==
    LET previous == index(offset, p)
        row == MappedRow(t.firsts, previous)
    IN  IF previous \notin MappedIndexes(t.firsts) THEN t
        ELSE [t EXCEPT !.firsts = MapInsert(MapRemove(@, previous), index(0, p), row)]

\* The new first child takes over the entry of the old one, which
\* updateInternalTopIndexes has moved along.
updateFirstChildMapping(t, p, offset) ==
    LET previous == index(offset, p)
        row == MappedRow(t.firsts, previous)
    IN  IF previous \notin MappedIndexes(t.firsts) THEN t
        ELSE [t EXCEPT !.firsts =
                 MapInsert(MapRemove(@, previous), index(0, p), row - offset)]

\* Rows first .. last of p get an entry when they have rows, up to the first of them
\* that is not shown.
createParentMappings(t, p, first, last) ==
    LET lacking == {n \in Children(p) : /\ srcRow[n] \in first .. last
                                        /\ hasChildren(n) /\ ~Mapped(t, n)}
        created == {n \in lacking : \A m \in lacking :
                       srcRow[m] <= srcRow[n] => mapFromSource(t, m) # NoIndex}
    IN  IF isFlat THEN t
        ELSE [t EXCEPT !.parents = Bind(@, [n \in created |-> mapFromSource(t, n)])]

removeFirstChildMappings(t, first, last) == [t EXCEPT !.firsts = MapErase(@, first, last)]

\* Mutant of removeParentMappings: the entries below the top level stay.
removeParentMappingsTopOnly(t, first, last) ==
    [t EXCEPT !.parents =
        [n \in {m \in DOMAIN @ : ~(@[m][1] \in first .. last /\ ~Mapped(t, parent(m)))} |-> @[n]]]

\* Top-level rows first .. last lose their entries, and so does all below them.
removeParentMappings(t, first, last) ==
    LET top == {n \in DOMAIN t.parents :
                   t.parents[n][1] \in first .. last /\ ~Mapped(t, parent(n))}
        gone == {n \in DOMAIN t.parents : SelfAndAbove[n] \cap top # {}}
    IN  [t EXCEPT !.parents = [n \in DOMAIN @ \ gone |-> @[n]]]

\* The entries that rowCount() and mapFromSource() create when they are asked for
\* every row below the mapped ones.
Fetched(t) ==
    LET below == {n \in Present \ DOMAIN t.parents :
                     hasChildren(n) /\ Above(n) \cap DOMAIN t.parents # {}}
    IN  [t EXCEPT !.parents = Bind(@, [n \in below |-> <<srcRow[n], parent(n)>>])]

\* The row after the last child of the roots before position k, from the closest
\* root that has children: getProxyInitialRow and getTargetRow.
RowAfterRoots(t, k) ==
    LET fertile == {j \in 1 .. k - 1 : hasChildren(t.roots[j])}
        above == t.roots[Greatest(fertile)]
    IN  IF fertile = {} THEN 0
        ELSE mapFromSource(t, index(rowCount(above) - 1, above))[1] + 1

getProxyInitialRow(t, root) == RowAfterRoots(t, RootRow(t, root))

\* Mutant of getTargetRow: the position among the roots.
getTargetRowAmongRoots(t, rootListRow) == rootListRow

getTargetRow(t, rootListRow) ==
    IF m_startWithChildTrees THEN RowAfterRoots(t, rootListRow + 1) ELSE rootListRow

\* How many top-level rows a root stands for, and all roots before position k.
RowsOfRoot(n) == IF m_startWithChildTrees THEN rowCount(n) ELSE 1
RowsBefore(t, k) ==
    IF m_startWithChildTrees
    THEN Cardinality(UNION {Children(t.roots[j]) : j \in 1 .. k - 1})
    ELSE k - 1

----------------------------------------------------------------------------
(* Signals, as a listener sees them.                                       *)

ChildrenInOrder(p) == [k \in 1 .. rowCount(p) |-> index(k - 1, p)]

\* The rows a listener finds below the proxy index i.
ReadChildren(t, i) ==
    LET owner == mapParentToSource(t, i)
    IN  IF isFlat \/ owner = Root THEN <<>> ELSE ChildrenInOrder(owner)

AmongRows(rows, n) == \E k \in DOMAIN rows : rows[k] = n

\* n is one of rows, or below one of them.
Listed(rows, n) == \E a \in SelfAndAbove[n] : AmongRows(rows, a)

\* Where a listener with these top-level rows finds n.
ListedIndex(top, n) ==
    IF AmongRows(top, n) THEN <<(CHOOSE k \in DOMAIN top : top[k] = n) - 1, Root>>
    ELSE <<srcRow[n], parent(n)>>

\* The whole tree, read anew.
ReadTree(t) ==
    LET top == [k \in 1 .. topLevelRowCount(t) |-> mapToSource(t, <<k - 1, Root>>)]
    IN  [x \in Nodes \cup {Root} |->
            IF x = Root THEN top
            ELSE IF Listed(top, x) THEN ReadChildren(t, ListedIndex(top, x))
            ELSE <<>>]

Begin(kind, p, first, last) ==
    announced' = Append(announced, [kind |-> kind, parent |-> p, first |-> first, last |-> last])

Latest == announced[Len(announced)]
Closes(kind) == announced # <<>> /\ Latest.kind = kind
OnlyOpen == Len(announced) = 1

End(kind) ==
    announced' = IF Closes(kind) THEN SubSeq(announced, 1, Len(announced) - 1)
                 ELSE Append(announced, [kind |-> "unmatched", parent |-> Root,
                                         first |-> 0, last |-> 0])

\* The rows before row k, and those from row k on.
RowsUpTo(rows, k) == SubSeq(rows, 1, IF k < Len(rows) THEN k ELSE Len(rows))
RowsFrom(rows, k) == SubSeq(rows, k + 1, Len(rows))

\* endInsertRows() with the tables t.  Within a reset a listener waits for its end.
EndInsertRows(t) ==
    LET a == Latest
        new == [k \in 1 .. a.last - a.first + 1 |->
                   mapToSource(t, <<a.first + k - 1, a.parent>>)]
        old == view[a.parent]
        rows == RowsUpTo(old, a.first) \o new \o RowsFrom(old, a.first)
        top == IF a.parent = Root THEN rows ELSE view[Root]
    IN  /\ End("insert")
        /\ view' = IF ~Closes("insert") \/ ~OnlyOpen THEN view
                   ELSE [x \in Nodes \cup {Root} |->
                            IF x = a.parent THEN rows
                            ELSE IF x # Root /\ Listed(new, x)
                                 THEN ReadChildren(t, ListedIndex(top, x))
                            ELSE view[x]]

EndRemoveRows ==
    LET a == Latest
        rows == view[a.parent]
        gone == RowsFrom(RowsUpTo(rows, a.last + 1), a.first)
    IN  /\ End("remove")
        /\ view' = IF ~Closes("remove") \/ ~OnlyOpen THEN view
                   ELSE [x \in Nodes \cup {Root} |->
                            IF x = a.parent
                            THEN RowsUpTo(rows, a.first) \o RowsFrom(rows, a.last + 1)
                            ELSE IF x # Root /\ (x \notin Present \/ Listed(gone, x)) THEN <<>>
                            ELSE view[x]]

----------------------------------------------------------------------------
\* The proxy is made with a selection model; some of the tree may be selected.
Init ==
    /\ \E f \in Forests :
          /\ srcParent = [n \in Nodes |-> IF n \in DOMAIN f THEN f[n].parent ELSE Absent]
          /\ srcRow = [n \in Nodes |-> IF n \in DOMAIN f THEN f[n].row ELSE 0]
          /\ selection \in SUBSET DOMAIN f
    /\ hasSource = FALSE /\ emptied = FALSE
    /\ m_filterBehavior \in Behaviors
    /\ m_rootIndexList = <<>>
    /\ m_mappedFirstChildren = EmptyMapping
    /\ m_mappedParents = EmptyMapping
    /\ m_rowsInserted = FALSE /\ m_rowsRemoved = FALSE
    /\ m_proxyRemoveRows = NoPair
    /\ m_recreateFirstChildMappingOnRemoval = FALSE
    /\ m_pendingSelectionChanges = <<>>
    /\ m_resetting = FALSE /\ m_sourceModelResetting = FALSE
    /\ m_doubleResetting = FALSE /\ m_layoutChanging = FALSE
    /\ change = NoChange
    /\ phase = "idle" /\ resume = "idle" /\ op = NoOp
    /\ announced = <<>>
    /\ view = [x \in Nodes \cup {Root} |-> <<>>]
    /\ heardRoots = {}

\* After a layout change that has been left open, the tables are stale until a reset.
Starts(kind) ==
    /\ phase = "idle" /\ hasSource /\ kind \in Operations
    /\ emptied => kind \in {"reset", "behavior"}

Enters(next) == phase' = next /\ UNCHANGED <<resume, change, m_pendingSelectionChanges>>
Finishes == op' = NoOp /\ Enters("idle")

----------------------------------------------------------------------------
(* selectionChanged                                                        *)

\* The deselected roots, and those which the new selection obscures.
RemovedRoots(full, selected, deselected) ==
    LET existing == getRootRanges(full \ selected)
        new == {n \in getRootRanges(selected) : ~isDescendantOf(existing, n)}
    IN  IF m_includeAllSelected THEN deselected
        ELSE {n \in getRootRanges(deselected) : ~isDescendantOf(existing, n)}
             \cup getRootRanges({n \in existing : isDescendantOf(new, n)})

\* The selected roots, and those which a deselected one does not obscure any more.
NewRoots(full, selected, deselected) ==
    LET existing == getRootRanges(full \ selected)
        new == {n \in getRootRanges(selected) : ~isDescendantOf(existing, n)}
        uncovering == {n \in getRootRanges(deselected) : ~isDescendantOf(existing, n)}
        exposed == {n \in existing : Above(n) \cap uncovering # {} /\ ~isDescendantOf(new, n)}
    IN  IF m_includeAllSelected THEN selected
        ELSE new \cup getRootRanges(exposed)

\* selectionChanged(selected, deselected) up to removeSelectionFromProxy(), when no
\* rows are coming or going.  The call it is part of goes on at next.
Processes(selected, deselected, next) ==
    \/ /\ ~hasSource' \/ m_sourceModelResetting \/ selected \cup deselected = {}
       /\ phase' = next /\ resume' = "idle"
       /\ UNCHANGED change
    \/ /\ hasSource' /\ ~m_sourceModelResetting /\ selected \cup deselected # {}
       /\ \E order \in NormalizedOrders(NewRoots(selection', selected, deselected)) :
             change' = [remove |-> RemovedRoots(selection', selected, deselected),
                        add |-> order]
       /\ phase' = "changing" /\ resume' = next

\* While rows are coming or going, the change is put off.
selectionChanged(selected, deselected, next) ==
    IF (m_rowsInserted \/ m_rowsRemoved) /\ ~m_sourceModelResetting
    THEN /\ m_pendingSelectionChanges' =
               Append(m_pendingSelectionChanges,
                      [selected |-> selected, deselected |-> deselected])
         /\ phase' = next
         /\ UNCHANGED <<change, resume>>
    ELSE Processes(selected, deselected, next) /\ UNCHANGED m_pendingSelectionChanges

\* rootWillBeRemoved
Doomed(gone, root) ==
    IF m_includeAllSelected THEN root \in gone ELSE LiesWithin(gone, root)

\* The first roots in a row that are in doomedRoots: positions in the root list.
DoomedBlock(doomedRoots) ==
    LET doomed == {k \in DOMAIN m_rootIndexList : m_rootIndexList[k] \in doomedRoots}
    IN  {k \in doomed : Least(doomed) .. k \subseteq doomed}

\* The proxy rows of a block of roots; empty when last < first.
BlockPair(block) ==
    <<RowsBefore(Tables, Least(block)), RowsBefore(Tables, Greatest(block) + 1) - 1>>

RemovalBlock == DoomedBlock({root \in Seqs!ToSet(m_rootIndexList) : Doomed(change.remove, root)})
RemovalPair == BlockPair(RemovalBlock)
NodesAt(block) == {m_rootIndexList[k] : k \in block}

\* removeSelectionFromProxy up to beginRemoveRows()
AnnounceRootsLeaving ==
    /\ phase = "changing" /\ RemovalBlock # {} /\ RemovalPair[1] <= RemovalPair[2]
    /\ heardRoots' = heardRoots \ NodesAt(RemovalBlock)
    /\ Begin("remove", Root, RemovalPair[1], RemovalPair[2])
    /\ Enters("rootsLeaving")
    /\ UNCHANGED <<srcVars, selectVars, tableVars, rowFlags, resetFlags, op, view>>

\* The roots of the block leave the tables; the rest of the selection follows.
RemoveRoots ==
    LET count == RemovalPair[2] - RemovalPair[1] + 1
        kept == [Tables EXCEPT !.roots =
                    SubSeq(@, 1, Least(RemovalBlock) - 1)
                    \o SubSeq(@, Greatest(RemovalBlock) + 1, Len(@))]
        unmapped == removeParentMappings(kept, RemovalPair[1], RemovalPair[2])
        cleared == IF m_startWithChildTrees
                   THEN removeFirstChildMappings(unmapped, RemovalPair[1], RemovalPair[2])
                   ELSE unmapped
    IN  /\ \/ /\ phase = "rootsLeaving"
              /\ SetTables(updateInternalTopIndexes(cleared, RemovalPair[2] + 1, -count))
              /\ EndRemoveRows
              /\ UNCHANGED heardRoots
           \/ /\ phase = "changing" /\ RemovalBlock # {} /\ count <= 0
              /\ SetTables(kept)
              /\ heardRoots' = heardRoots \ NodesAt(RemovalBlock)
              /\ UNCHANGED <<announced, view>>
        /\ Enters("changing")
        /\ UNCHANGED <<srcVars, selectVars, rowFlags, resetFlags, op>>

\* insertSelectionIntoProxy takes the new roots one by one.
RootsRemoved == phase = "adding" \/ (phase = "changing" /\ RemovalBlock = {})
Inserting == RootsRemoved /\ change.add # <<>>
NewRoot == Head(change.add)
NewRootRow == getRootListRow(m_rootIndexList, NewRoot)

AnnounceRoot ==
    /\ Inserting /\ RowsOfRoot(NewRoot) > 0 /\ ~m_resetting
    /\ LET start == getTargetRow(Tables, NewRootRow)
       IN  Begin("insert", Root, start, start + RowsOfRoot(NewRoot) - 1)
    /\ Enters("rootComing")
    /\ UNCHANGED <<srcVars, selectVars, tableVars, rowFlags, resetFlags, op, view, heardRoots>>

\* The tables repaired for the root n, which is in the list: of a root without
\* children only the list changes.
WithRoot(n) ==
    LET row == RootRow(Tables, n) - 1
        start == RowsBefore(Tables, row + 1)
        shifted == updateInternalTopIndexes(Tables, start, rowCount(n))
    IN  IF ~m_startWithChildTrees
        THEN createParentMappings(updateInternalIndexes(Tables, NoIndex, row, 1),
                                  parent(n), srcRow[n], srcRow[n])
        ELSE IF ~hasChildren(n) THEN Tables
        ELSE createParentMappings(createFirstChildMapping(shifted, n, start),
                                  n, 0, rowCount(n) - 1)

\* Mutant of RootIsAnnounced: never within a reset.
RootIsAnnouncedOutsideResets == ~m_resetting

RootIsAnnounced == ~m_resetting \/ m_layoutChanging

\* The root is listed and rootIndexAdded() is emitted.
ListRoot ==
    /\ \/ phase = "rootComing"
       \/ Inserting /\ (RowsOfRoot(NewRoot) = 0 \/ m_resetting)
    /\ m_rootIndexList' = Seqs!InsertAt(m_rootIndexList, NewRootRow + 1, NewRoot)
    /\ heardRoots' = IF RootIsAnnounced THEN heardRoots \cup {NewRoot} ELSE heardRoots
    /\ Enters("rootAdded")
    /\ UNCHANGED <<srcVars, selectVars, m_mappedFirstChildren, m_mappedParents, rowFlags,
                   resetFlags, op, announced, view>>

\* Its rows follow, and endInsertRows().
InsertRoot ==
    /\ phase = "rootAdded"
    /\ IF RowsOfRoot(NewRoot) = 0 \/ m_resetting
       THEN SetTables(WithRoot(NewRoot)) /\ UNCHANGED <<announced, view>>
       ELSE /\ SetTables(Fetched(WithRoot(NewRoot)))
            /\ EndInsertRows(Fetched(WithRoot(NewRoot)))
    /\ change' = [change EXCEPT !.add = Tail(@)]
    /\ phase' = "adding"
    /\ UNCHANGED <<srcVars, selectVars, rowFlags, resetFlags, op, heardRoots, resume,
                   m_pendingSelectionChanges>>

FinishChange ==
    /\ RootsRemoved /\ change.add = <<>>
    /\ change' = NoChange
    /\ phase' = resume /\ resume' = "idle"
    /\ op' = IF resume = "idle" THEN NoOp ELSE op
    /\ UNCHANGED <<srcVars, selectVars, tableVars, rowFlags, resetFlags, viewVars,
                   m_pendingSelectionChanges>>

----------------------------------------------------------------------------
(* The user, or a slot, changes the selection.                             *)

\* The selection becomes S and selectionChanged() is emitted.
Selects(S, next) ==
    /\ S \subseteq Present /\ S # selection
    /\ selection' = S
    /\ UNCHANGED <<hasSource, emptied, m_filterBehavior>>
    /\ selectionChanged(S \ selection, selection \ S, next)
    /\ UNCHANGED <<srcVars, tableVars, rowFlags, resetFlags, op, viewVars>>

Select(S) == Starts("select") /\ Selects(S, "idle")

\* In a slot of a signal that is emitted while rows are inserted or removed.  (Slots
\* that select while rows come or go that the proxy has not announced are left out: of
\* a parent that is selected only then, it never announces those rows.)
SelectInserting(S) ==
    /\ "selectInserting" \in Operations
    /\ \/ phase = "inserted"
       \/ phase = "inserting" /\ m_rowsInserted
    /\ Len(m_pendingSelectionChanges) < MaxPending
    /\ Selects(S, phase)

SelectRemoving(S) ==
    /\ \/ "selectRemoving" \in Operations /\ phase = "removed" /\ ~m_rowsRemoved
       \/ "selectRemovingShown" \in Operations /\ phase \in {"removing", "removed"} /\ m_rowsRemoved
    /\ Len(m_pendingSelectionChanges) < MaxPending
    /\ phase = "removing" => S \cap InRows(op.parent, op.first, op.last) = {}
    /\ Selects(S, phase)

\* In a slot of the source during a layout change: the proxy has no roots to remove.
\* (A slot that selects something else is left out: that changes the roots in the middle
\* of the proxy's own layout change.)
ClearRelayouting ==
    /\ "clearRelayouting" \in Operations
    /\ phase \in {"relayouting", "relayouted"} /\ selection # {}
    /\ selection' = {} /\ emptied' = TRUE
    /\ UNCHANGED <<srcVars, hasSource, m_filterBehavior, tableVars, rowFlags, resetFlags,
                   changeVars, op, viewVars>>

\* In a slot of the source's modelReset that runs before those of the proxy.
SelectResetting(S) ==
    /\ "selectResetting" \in Operations
    /\ phase = "reset"
    /\ Selects(S, phase)

----------------------------------------------------------------------------
(* Rows inserted into the source.                                          *)

\* The indexes a row inserted now can have.
Fresh ==
    Nodes \ (Present \cup DOMAIN m_mappedParents \cup MappedIndexes(m_mappedFirstChildren)
             \cup UNION {m_pendingSelectionChanges[k].selected
                         \cup m_pendingSelectionChanges[k].deselected :
                         k \in DOMAIN m_pendingSelectionChanges})

IsShown(n) == mapFromSource(Tables, n) # NoIndex

\* beginInsertRows: the proxy rows of rows first .. last of p.
insertPair(p, first, last) ==
    LET start == getProxyInitialRow(Tables, p) + first
    IN  IF IsShown(p) /\ ~(m_startWithChildTrees /\ m_includeAllSelected) THEN <<first, last>>
        ELSE IF m_startWithChildTrees /\ IsRoot(Tables, p)
        THEN <<start, start + (last - first)>>
        ELSE NoPair

\* Without "insertDeep", a parent whose rows are announced as those of the top level
\* is a root.
MayInsert(p) ==
    \/ Starts("insertDeep")
    \/ Starts("insert") /\ (m_filterBehavior = "SubTreesWithoutRoots" => ~IsShown(p))

\* Mutant of AnnouncesInsert: with no children shown, rows are announced all the same.
AnnouncesInsertFlat(p, first, last) ==
    selection # {} /\ p # Root /\ insertPair(p, first, last) # NoPair

AnnouncesInsert(p, first, last) ==
    selection # {} /\ ~m_omitChildren /\ p # Root /\ insertPair(p, first, last) # NoPair

\* sourceRowsAboutToBeInserted
AboutToInsert(p, first, last) ==
    /\ MayInsert(p)
    /\ p \in Present \cup {Root}
    /\ first \in 0 .. rowCount(p)
    /\ \E f \in Forests : Cardinality(Tops(f)) = last - first + 1 /\ DOMAIN f \subseteq Fresh
    /\ op' = [NoOp EXCEPT !.parent = p, !.first = first, !.last = last]
    /\ IF AnnouncesInsert(p, first, last)
       THEN LET pair == insertPair(p, first, last)
            IN  /\ m_rowsInserted' = TRUE
                /\ Begin("insert", IF m_startWithChildTrees THEN Root ELSE p, pair[1], pair[2])
       ELSE UNCHANGED <<m_rowsInserted, announced>>
    /\ Enters("inserting")
    /\ UNCHANGED <<srcVars, selectVars, tableVars, resetFlags, view, heardRoots, m_rowsRemoved,
                   m_proxyRemoveRows, m_recreateFirstChildMappingOnRemoval>>

SourceInserts(f) ==
    /\ phase = "inserting"
    /\ DOMAIN f \subseteq Fresh
    /\ Cardinality(Tops(f)) = op.last - op.first + 1
    /\ InsertRows(f, op.parent, op.first)
    /\ Enters("inserted")
    /\ UNCHANGED <<selectVars, tableVars, rowFlags, resetFlags, op, viewVars>>

\* endInsertRows
endInsertRows(p, first, last) ==
    LET count == last - first + 1
        isNewParent == rowCount(p) = count
        start == getProxyInitialRow(Tables, p) + first
        moved == updateInternalTopIndexes(Tables, start, count)
        t == IF m_startWithChildTrees /\ IsRoot(Tables, p)
             THEN IF isNewParent THEN createFirstChildMapping(moved, p, start)
                  ELSE IF first = 0 THEN updateFirstChildMapping(moved, p, last + 1)
                  ELSE moved
             ELSE IF isNewParent
             THEN createParentMappings(Tables, parent(p), IndexRow(p), IndexRow(p))
             ELSE updateInternalIndexes(Tables, mapFromSource(Tables, p), first, count)
    IN  createParentMappings(t, p, first, last)

\* sourceRowsInserted up to the pending selection changes
HandleRowsInserted ==
    /\ phase = "inserted"
    /\ \/ /\ ~m_rowsInserted
          /\ Finishes
          /\ UNCHANGED <<tableVars, viewVars, m_rowsInserted>>
       \/ /\ m_rowsInserted
          /\ m_rowsInserted' = FALSE
          /\ LET t == Fetched(endInsertRows(op.parent, op.first, op.last))
             IN  SetTables(t) /\ EndInsertRows(t)
          /\ Enters("draining")
          /\ UNCHANGED <<heardRoots, op>>
    /\ UNCHANGED <<srcVars, selectVars, resetFlags, m_rowsRemoved,
                   m_proxyRemoveRows, m_recreateFirstChildMappingOnRemoval>>

\* The selection changes that came in between, each with the selection of now.
DrainPending ==
    /\ phase = "draining" /\ m_pendingSelectionChanges # <<>>
    /\ UNCHANGED selectVars
    /\ LET pending == Head(m_pendingSelectionChanges)
       IN  Processes(pending.selected, pending.deselected, "draining")
    /\ m_pendingSelectionChanges' = Tail(m_pendingSelectionChanges)
    /\ UNCHANGED <<srcVars, tableVars, rowFlags, resetFlags, op, viewVars>>

FinishInsert ==
    /\ phase = "draining" /\ m_pendingSelectionChanges = <<>>
    /\ Finishes
    /\ UNCHANGED <<srcVars, selectVars, tableVars, rowFlags, resetFlags, viewVars>>

----------------------------------------------------------------------------
(* Rows removed from the source.                                           *)

\* The selection model hears of it first and deselects what goes.
AboutToRemove(p, first, last) ==
    /\ Starts("remove")
    /\ p \in Present \cup {Root}
    /\ 0 <= first /\ first <= last /\ last < rowCount(p)
    /\ op' = [NoOp EXCEPT !.parent = p, !.first = first, !.last = last]
    /\ LET gone == InRows(p, first, last)
       IN  /\ selection' = selection \ gone
           /\ UNCHANGED <<hasSource, emptied, m_filterBehavior>>
           /\ selectionChanged({}, selection \cap gone, "toRemove")
    /\ UNCHANGED <<srcVars, tableVars, rowFlags, resetFlags, viewVars>>

\* beginRemoveRows: the proxy rows of rows first .. last of p.
removePair(p, first, last) ==
    LET start == getProxyInitialRow(Tables, p) + first
        gone == InRows(p, first, last)
        block == DoomedBlock({root \in Seqs!ToSet(m_rootIndexList) : LiesWithin(gone, root)})
        pair == BlockPair(block)
    IN  IF ~m_includeAllSelected /\ ~m_omitChildren /\ Mapped(Tables, p) THEN <<first, last>>
        ELSE IF m_startWithChildTrees /\ IsRoot(Tables, p)
        THEN <<start, start + (last - first)>>
        ELSE IF block = {} \/ pair[2] < pair[1] THEN NoPair
        ELSE pair

\* sourceRowsAboutToBeRemoved
HandleRowsAboutToBeRemoved ==
    /\ phase = "toRemove"
    /\ LET pair == removePair(op.parent, op.first, op.last)
       IN  IF selection = {} \/ pair = NoPair
           THEN UNCHANGED <<rowFlags, announced>>
           ELSE /\ m_rowsRemoved' = TRUE
                /\ m_proxyRemoveRows' = pair
                /\ m_recreateFirstChildMappingOnRemoval' =
                      (index(op.first, op.parent) \in MappedIndexes(m_mappedFirstChildren))
                /\ Begin("remove", IF Mapped(Tables, op.parent) THEN op.parent ELSE Root,
                         pair[1], pair[2])
                /\ UNCHANGED m_rowsInserted
    /\ Enters("removing")
    /\ UNCHANGED <<srcVars, selectVars, tableVars, resetFlags, op, view, heardRoots>>

SourceRemoves ==
    /\ phase = "removing"
    /\ RemoveRows(op.parent, op.first, op.last)
    /\ Enters("removed")
    /\ UNCHANGED <<selectVars, tableVars, rowFlags, resetFlags, op, viewVars>>

\* The loop that erases roots which have become invalid.
ValidRoots(list) ==
    LET valid[k \in 0 .. Len(list)] ==
            IF k = 0 THEN <<>>
            ELSE IF list[k] \in Present THEN Append(valid[k - 1], list[k])
            ELSE valid[k - 1]
    IN  valid[Len(list)]

\* endRemoveRows: entries and roots that have become invalid go, those below move up.
endRemoveRows(p, pair) ==
    LET at == IF Mapped(Tables, p) THEN m_mappedParents[p] ELSE NoIndex
        count == pair[2] - pair[1] + 1
        valid == [Tables EXCEPT !.parents = [n \in DOMAIN @ \cap Present |-> @[n]]]
        moved == IF at # NoIndex THEN updateInternalIndexes(valid, at, pair[2] + 1, -count)
                 ELSE updateInternalTopIndexes(removeFirstChildMappings(valid, pair[1], pair[2]),
                                               pair[2] + 1, -count)
    IN  [moved EXCEPT !.roots = ValidRoots(@)]

\* The rows after the removed first ones have a new first child.
recreated(t) ==
    IF m_recreateFirstChildMappingOnRemoval /\ hasChildren(op.parent)
    THEN createFirstChildMapping(t, op.parent, m_proxyRemoveRows[1])
    ELSE t

\* sourceRowsRemoved
HandleRowsRemoved ==
    /\ phase = "removed"
    /\ \/ ~m_rowsRemoved /\ UNCHANGED <<tableVars, rowFlags, viewVars>>
       \/ /\ m_rowsRemoved
          /\ SetTables(recreated(endRemoveRows(op.parent, m_proxyRemoveRows)))
          /\ m_rowsRemoved' = FALSE
          /\ m_recreateFirstChildMappingOnRemoval' = FALSE
          /\ m_proxyRemoveRows' = NoPair
          /\ EndRemoveRows
          /\ UNCHANGED <<m_rowsInserted, heardRoots>>
    /\ Finishes
    /\ UNCHANGED <<srcVars, selectVars, resetFlags>>

----------------------------------------------------------------------------
(* Layout changes and moves, which are handled alike.                      *)

\* Mutant of LayoutAboutToBeChanged: announced without any roots as well.
LayoutAboutToBeChangedAlways ==
    /\ Begin("layout", Root, 0, 0)
    /\ heardRoots' = heardRoots \ NodesAt(DOMAIN m_rootIndexList)
    /\ m_rootIndexList' = <<>>
    /\ Enters("relayouting")
    /\ UNCHANGED <<srcVars, selectVars, m_mappedFirstChildren, m_mappedParents, rowFlags,
                   resetFlags, view>>

\* sourceLayoutAboutToBeChanged: the roots are forgotten.
LayoutAboutToBeChanged ==
    /\ IF m_rootIndexList = <<>> THEN UNCHANGED <<announced, heardRoots>>
       ELSE /\ Begin("layout", Root, 0, 0)
            /\ heardRoots' = heardRoots \ NodesAt(DOMAIN m_rootIndexList)
    /\ m_rootIndexList' = <<>>
    /\ Enters("relayouting")
    /\ UNCHANGED <<srcVars, selectVars, m_mappedFirstChildren, m_mappedParents, rowFlags,
                   resetFlags, view>>

AboutToRelayout(p) ==
    /\ Starts("layout")
    /\ p \in Present \cup {Root} /\ rowCount(p) > 1
    /\ op' = [NoOp EXCEPT !.parent = p, !.target = p]
    /\ LayoutAboutToBeChanged

\* sourceRowsAboutToBeMoved
AboutToMove(p, first, last, q, dest) ==
    /\ Starts("move")
    /\ p \in Present \cup {Root} /\ q \in Present \cup {Root}
    /\ 0 <= first /\ first <= last /\ last < rowCount(p)
    /\ dest \in 0 .. rowCount(q)
    /\ CanMove(p, first, last, q, dest)
    /\ op' = [parent |-> p, first |-> first, last |-> last + 1, target |-> q, dest |-> dest]
    /\ LayoutAboutToBeChanged

\* A move has rows to move, op.first .. op.last - 1.
SourceRelayouts ==
    /\ phase = "relayouting"
    /\ IF op.last > 0 THEN MoveRows(op.parent, op.first, op.last - 1, op.target, op.dest)
       ELSE Reorder(op.parent)
    /\ Enters("relayouted")
    /\ UNCHANGED <<selectVars, tableVars, rowFlags, resetFlags, op, viewVars>>

\* sourceLayoutChanged up to layoutChanged(); nothing for an empty selection, not even
\* the end of what layoutAboutToBeChanged() has begun.
HandleLayoutChanged ==
    /\ phase = "relayouted"
    /\ UNCHANGED selectVars
    /\ \/ /\ selection = {}
          /\ Finishes
          /\ UNCHANGED <<tableVars, m_resetting, m_layoutChanging>>
       \/ /\ selection # {}
          /\ SetTables(EmptyTables)
          /\ m_resetting' = TRUE /\ m_layoutChanging' = TRUE
          /\ Processes(selection, {}, "layoutRebuilt")
          /\ UNCHANGED <<op, m_pendingSelectionChanges>>
    /\ UNCHANGED <<srcVars, rowFlags, viewVars, m_sourceModelResetting, m_doubleResetting>>

\* A listener reads everything again.
ReadsAll ==
    /\ SetTables(Fetched(Tables))
    /\ view' = ReadTree(Fetched(Tables))

FinishLayout ==
    /\ phase = "layoutRebuilt"
    /\ m_resetting' = FALSE /\ m_layoutChanging' = FALSE
    /\ End("layout")
    /\ ReadsAll
    /\ Finishes
    /\ UNCHANGED <<srcVars, selectVars, rowFlags, heardRoots, m_sourceModelResetting,
                   m_doubleResetting>>

----------------------------------------------------------------------------
(* Resets and setters.                                                     *)

\* A listener that is told of a reset does not wait for the end of a layout change.
BeginReset ==
    /\ announced' = <<[kind |-> "reset", parent |-> Root, first |-> 0, last |-> 0]>>
    /\ emptied' = FALSE

\* sourceModelAboutToBeReset, twice: the source is the model of the selection too,
\* and both connections deliver the signal.
AboutToReset ==
    /\ Starts("reset")
    /\ BeginReset
    /\ m_resetting' = TRUE /\ m_sourceModelResetting' = TRUE /\ m_doubleResetting' = TRUE
    /\ Enters("resetting")
    /\ UNCHANGED <<srcVars, hasSource, selection, m_filterBehavior, tableVars, rowFlags, op, view, heardRoots,
                   m_layoutChanging>>

\* The selection model resets itself without a signal.
SourceResets(f) ==
    /\ phase = "resetting"
    /\ ReplaceAll(f)
    /\ selection' = {}
    /\ Enters("reset")
    /\ UNCHANGED <<hasSource, emptied, m_filterBehavior, tableVars, rowFlags, resetFlags, op,
                   viewVars>>

\* sourceModelReset: the first of the two calls only takes note.
HandleModelReset ==
    /\ phase = "reset"
    /\ IF m_doubleResetting
       THEN /\ m_doubleResetting' = FALSE
            /\ Enters("reset")
            /\ UNCHANGED <<tableVars, m_resetting, m_sourceModelResetting>>
       ELSE /\ SetTables(EmptyTables)
            /\ m_resetting' = FALSE /\ m_sourceModelResetting' = FALSE
            /\ phase' = "cleared" /\ resume' = "rebuilt"
            /\ UNCHANGED <<change, m_pendingSelectionChanges, m_doubleResetting>>
    /\ UNCHANGED <<srcVars, selectVars, rowFlags, op, viewVars, m_layoutChanging>>

\* The selectionChanged() call with all that is selected.
Rebuild ==
    /\ phase = "cleared"
    /\ UNCHANGED selectVars
    /\ Processes(selection, {}, resume)
    /\ UNCHANGED <<srcVars, tableVars, rowFlags, resetFlags, op, viewVars,
                   m_pendingSelectionChanges>>

\* endResetModel(): a listener reads everything again.
FinishReset ==
    /\ phase = "rebuilt"
    /\ m_resetting' = FALSE
    /\ End("reset")
    /\ ReadsAll
    /\ heardRoots' = NodesAt(DOMAIN m_rootIndexList)
    /\ Finishes
    /\ UNCHANGED <<srcVars, selectVars, rowFlags, m_sourceModelResetting, m_doubleResetting,
                   m_layoutChanging>>

\* What setFilterBehavior and setSourceModel do up to selectionChanged().
StartsOver ==
    /\ BeginReset
    /\ SetTables(EmptyTables)
    /\ phase' = "cleared" /\ resume' = "rebuilt"
    /\ UNCHANGED <<srcVars, rowFlags, change, m_pendingSelectionChanges, op, view, heardRoots,
                   m_sourceModelResetting, m_doubleResetting, m_layoutChanging>>

SetFilterBehavior(behavior) ==
    /\ Starts("behavior")
    /\ behavior # m_filterBehavior
    /\ m_filterBehavior' = behavior
    /\ StartsOver
    /\ UNCHANGED <<hasSource, selection, m_resetting>>

SetSourceModel ==
    /\ phase = "idle" /\ ~hasSource
    /\ hasSource' = TRUE
    /\ m_resetting' = TRUE
    /\ StartsOver
    /\ UNCHANGED <<selection, m_filterBehavior>>

MaySetSelectionModel ==
    \/ Starts("selectionModelLoaded")
    \/ Starts("selectionModel") /\ selection = {}

\* setSelectionModel with one that has S selected: a reset in which only the list of
\* roots is cleared, and then selectionChanged().
SetSelectionModel(S) ==
    /\ MaySetSelectionModel
    /\ S \subseteq Present
    /\ selection' = S
    /\ m_rootIndexList' = <<>>
    /\ view' = [x \in Nodes \cup {Root} |-> <<>>]
    /\ heardRoots' = {}
    /\ phase' = "cleared" /\ resume' = "idle"
    /\ UNCHANGED <<srcVars, hasSource, emptied, m_filterBehavior, m_mappedFirstChildren,
                   m_mappedParents, rowFlags, resetFlags, change, m_pendingSelectionChanges, op,
                   announced>>

----------------------------------------------------------------------------
(* dataChanged                                                             *)

\* The root rows among the changed rows first .. last of p.
ChangedRootRows(p, first, last) ==
    LET changed == {k \in DOMAIN m_rootIndexList :
                       /\ parent(m_rootIndexList[k]) = p
                       /\ srcRow[m_rootIndexList[k]] \in first .. last}
    IN  {k - 1 : k \in changed}

\* Mutant of ContinuousRanges: the run that ends with the last row is left out.
ContinuousRangesButLast(rows) ==
    {r \in rows \X rows : /\ r[1] <= r[2] /\ r[1] .. r[2] \subseteq rows
                          /\ r[1] - 1 \notin rows /\ r[2] + 1 \notin rows /\ r[2] # Greatest(rows)}

\* What the loop over the changed rows announces: it emits the run so far at every
\* row that does not continue it, the first row included, and the last run only when
\* it is longer than one row.
ContinuousRanges(rows) ==
    LET starts == {r \in rows : r - 1 \notin rows}
        endOf(r) == Greatest({e \in rows : r .. e \subseteq rows})
        ranges == {<<r, endOf(r)>> : r \in starts}
        last == <<Greatest(starts), endOf(Greatest(starts))>>
    IN  IF rows = {} THEN {}
        ELSE (ranges \ {last}) \cup {<<Least(rows), Least(rows)>>}
             \cup (IF last[1] # last[2] THEN {last} ELSE {})

\* sourceDataChanged: the index ranges, as parent and rows, that dataChanged() names.
sourceDataChanged(p, first, last) ==
    LET top == mapFromSource(Tables, index(first, p))
        bottom == mapFromSource(Tables, index(last, p))
        nested == top # NoIndex /\ top[2] # Root
        direct == {<<top[2], top[1], bottom[1]>>}
    IN  IF p = Root /\ m_startWithChildTrees THEN {}
        ELSE IF m_startWithChildTrees THEN IF top = NoIndex THEN {} ELSE direct
        ELSE IF m_filterBehavior = "ExactSelection" \/ ~nested
        THEN {<<Root, r[1], r[2]>> : r \in ContinuousRanges(ChangedRootRows(p, first, last))}
        ELSE direct

----------------------------------------------------------------------------
(* Selections, drops and searches, passed on to the source or back.  A      *)
(* range of a selection is the first and the last index of it.              *)

\* KSelectionProxyModel::hasChildren, for the rows of owner; Root is the top level.
hasRows(t, owner) ==
    /\ t.roots # <<>>
    /\ IF owner # Root THEN ~isFlat /\ hasChildren(owner)
       ELSE m_startWithChildTrees => t.firsts # EmptyMapping

\* Mutant of mapSelectionToSource: top-level rows are taken for one range.
mapSelectionToSourceWhole(t, i, first, last) ==
    {<<mapToSource(t, <<first, i>>), mapToSource(t, <<last, i>>)>>}

\* mapSelectionToSource for rows first .. last of the rows with id i: rows of the top
\* level go one by one, since they need not lie side by side in the source.
\* (With the children of the roots on the top level, the row count of the source is
\* asked for an index of the proxy there; of such rows only one at a time is mapped.)
mapSelectionToSource(t, i, first, last) ==
    IF i = Root /\ m_filterBehavior # "ExactSelection"
    THEN {<<mapToSource(t, <<row, i>>), mapToSource(t, <<row, i>>)>> : row \in first .. last}
    ELSE {<<mapToSource(t, <<first, i>>), mapToSource(t, <<last, i>>)>>}

\* The source indexes that a set of ranges selects; a range of two parents selects none.
InRanges(ranges) ==
    UNION {{n \in Present : /\ parent(n) = parent(r[1]) /\ parent(n) = parent(r[2])
                            /\ srcRow[n] \in srcRow[r[1]] .. srcRow[r[2]]} : r \in ranges}

\* mapSelectionFromSource for rows first .. last of p.
mapSelectionFromSource(t, p, first, last) ==
    LET top == mapFromSource(t, index(first, p))
    IN  IF top = NoIndex THEN {} ELSE {<<top, mapFromSource(t, index(last, p))>>}

\* match: the proxy indexes of what the source has found.
match(t, found) == {mapFromSource(t, n) : n \in found} \ {NoIndex}

\* dropMimeData in front of proxy row "row" of owner's rows: the parent and the row that
\* the source is given.
dropMimeData(t, owner, row) ==
    LET n == mapToSource(t, <<row, owner>>)
        rows == IF owner = Root THEN topLevelRowCount(t) ELSE IF isFlat THEN 0 ELSE rowCount(owner)
    IN  IF row = rows THEN <<owner, rowCount(owner)>> ELSE <<parent(n), srcRow[n]>>

----------------------------------------------------------------------------
\* What the source and the user begin when nothing is under way.
Begins ==
    \/ SetSourceModel
    \/ \E S \in SUBSET Present : Select(S) \/ SetSelectionModel(S)
    \/ \E p \in Nodes \cup {Root} : \E first \in 0 .. rowCount(p) :
          \E last \in first .. first + MaxForest - 1 : AboutToInsert(p, first, last)
    \/ \E p \in Nodes \cup {Root} : \E last \in 0 .. rowCount(p) - 1 : \E first \in 0 .. last :
          \/ AboutToRemove(p, first, last)
          \/ \E q \in Nodes \cup {Root} : \E dest \in 0 .. rowCount(q) :
                AboutToMove(p, first, last, q, dest)
    \/ \E p \in Nodes \cup {Root} : AboutToRelayout(p)
    \/ AboutToReset
    \/ \E behavior \in Behaviors : SetFilterBehavior(behavior)

\* Slots that change the selection in the middle of a change of the source.
Interrupts ==
    \/ ClearRelayouting
    \/ \E S \in SUBSET Present :
        SelectInserting(S) \/ SelectRemoving(S) \/ SelectResetting(S)

\* What follows in the same call, down to the last signal.
Continues ==
    \/ AnnounceRootsLeaving \/ RemoveRoots \/ AnnounceRoot \/ ListRoot \/ InsertRoot
    \/ FinishChange
    \/ \E f \in Forests : SourceInserts(f)
    \/ HandleRowsInserted \/ DrainPending \/ FinishInsert
    \/ HandleRowsAboutToBeRemoved \/ SourceRemoves \/ HandleRowsRemoved
    \/ SourceRelayouts \/ HandleLayoutChanged \/ FinishLayout
    \/ \E f \in Forests : SourceResets(f)
    \/ HandleModelReset \/ Rebuild \/ FinishReset

Next == Begins \/ Continues \/ Interrupts

\* A call that has begun runs on: nothing in it waits for anything.
Spec == Init /\ [][Next]_vars /\ WF_vars(Continues)

----------------------------------------------------------------------------
IsIndex(i) == i \in (Nat \cup {NoRow}) \X (Nodes \cup {Root})

TypeOK ==
    /\ SourceTypeOK
    /\ {hasSource, emptied} \subseteq BOOLEAN /\ selection \subseteq Nodes /\ m_filterBehavior \in Behaviors
    /\ m_rootIndexList \in Seq(Nodes)
    /\ DOMAIN m_mappedFirstChildren \subseteq Nat
    /\ MappedIndexes(m_mappedFirstChildren) \subseteq Nodes
    /\ DOMAIN m_mappedParents \subseteq Nodes
    /\ \A n \in DOMAIN m_mappedParents : IsIndex(m_mappedParents[n])
    /\ {m_rowsInserted, m_rowsRemoved, m_recreateFirstChildMappingOnRemoval,
        m_resetting, m_sourceModelResetting, m_doubleResetting, m_layoutChanging} \subseteq BOOLEAN
    /\ m_proxyRemoveRows \in (Nat \X Nat) \cup {NoPair}
    /\ m_pendingSelectionChanges \in Seq([selected : SUBSET Nodes, deselected : SUBSET Nodes])
    /\ change \in [remove : SUBSET Nodes, add : Seq(Nodes)]
    /\ phase \in Phases /\ resume \in Phases
    /\ op \in [parent : Nodes \cup {Root}, first : Nat, last : Nat,
               target : Nodes \cup {Root}, dest : Nat]
    /\ announced \in Seq([kind : {"insert", "remove", "reset", "layout", "unmatched"},
                          parent : Nodes \cup {Root}, first : Nat, last : Nat])
    /\ view \in [Nodes \cup {Root} -> Seq(Nodes \cup {Root})]
    /\ heardRoots \subseteq Nodes

\* The tree that the class documentation draws for a selection.
ShownRoots ==
    CHOOSE s \in Seqs!SetToSeqs(IF m_includeAllSelected THEN selection ELSE getRootRanges(selection)) :
        \A j, k \in DOMAIN s : j < k => Before(s[j], s[k])
ShownTop ==
    LET roots == ShownRoots
    IN  IF m_startWithChildTrees
        THEN Seqs!FlattenSeq([k \in DOMAIN roots |-> ChildrenInOrder(roots[k])])
        ELSE roots

\* Whenever no call is under way, and no slot has emptied the selection in a layout
\* change, of whose end the proxy is silent then, a listener that only follows the signals of the
\* proxy has the tree that the selection and the filter behaviour call for: the
\* selected roots or their children in depth-first order, with all that is below them
\* unless the behaviour leaves it out.
ShowsSelection ==
    phase = "idle" /\ hasSource /\ ~emptied =>
        LET top == ShownTop
        IN  \A x \in Nodes \cup {Root} :
                view[x] = IF x = Root THEN top
                          ELSE IF ~isFlat /\ Listed(top, x) THEN ChildrenInOrder(x)
                          ELSE <<>>

\* Does the source look to the proxy as its tables say, and is no reset or layout
\* change open?  A slot of rootIndexAdded() finds the root listed, but not its rows.
Quiet ==
    /\ phase \notin {"inserted", "removed", "relayouting", "relayouted", "reset", "cleared",
                      "rootAdded"}
    /\ \A k \in DOMAIN announced : announced[k].kind \in {"insert", "remove"}

\* Between the begin... and the end... of an insertion or a removal, between two roots
\* of one selectionChanged(), and when no call is under way, though not in a slot of
\* rootIndexAdded(), where the root is listed and its rows are not mapped, the
\* proxy answers for exactly the rows that the listener has been told of, finds a root
\* or a first child for each of them, and hasChildren() agrees with rowCount().
ReadableMidway ==
    Quiet => /\ ReadTree(Tables) = view
             /\ \A k \in DOMAIN view[Root] : indexIsValid(Tables, k - 1)
             /\ \A x \in Nodes \cup {Root} : x = Root \/ Listed(view[Root], x) =>
                    (view[x] # <<>>) = hasRows(Tables, x)

\* Each row a listener has maps to its source index and back, so that the persistent
\* index of a row goes to the right place in a layout change; and each top-level row
\* with rows of its own has an entry in m_mappedParents, on which ensureMappable()
\* relies for the rows below.
MapsBackAndForth ==
    Quiet =>
        LET t == Fetched(Tables)
        IN  \A x \in Nodes : Listed(view[Root], x) /\ (isFlat => AmongRows(view[Root], x)) =>
                LET i == ListedIndex(view[Root], x)
                IN  /\ mapFromSource(t, x) = i
                    /\ mapToSource(t, i) = x
                    /\ ~isFlat /\ hasChildren(x) => Mapped(t, x)

\* A selection of neighbouring rows of the proxy selects their source indexes and no
\* others, though these may be far apart in the source; the selection of neighbouring
\* source rows that are all shown selects the rows that show them; a search finds an
\* index in the proxy exactly when it is shown; and what is dropped in front of a row
\* comes to stand in front of it in the source.  (Not so for several rows on the top
\* level when they are the children of the roots or the exact selection.)
SelectionsMapBack ==
    phase = "idle" /\ hasSource /\ ~emptied =>
        LET t == Fetched(Tables)
            shown(n) == IF isFlat THEN AmongRows(view[Root], n) ELSE Listed(view[Root], n)
            at(n) == ListedIndex(view[Root], n)
        IN  /\ \A x \in Nodes \cup {Root} : \A last \in 0 .. Len(view[x]) - 1 : \A first \in 0 .. last :
                  x # Root \/ first = last \/ m_filterBehavior \in {"SubTrees", "SubTreeRoots"} =>
                      InRanges(mapSelectionToSource(t, x, first, last))
                          = {view[x][k + 1] : k \in first .. last}
            /\ \A p \in Present \cup {Root} : \A last \in 0 .. rowCount(p) - 1 : \A first \in 0 .. last :
                  LET nodes == {index(k, p) : k \in first .. last}
                  IN  (\A n \in nodes : shown(n)) /\ (first = last \/ m_filterBehavior # "ExactSelection") =>
                          UNION {{<<row, r[1][2]>> : row \in r[1][1] .. r[2][1]} :
                                     r \in mapSelectionFromSource(t, p, first, last)}
                              = {at(n) : n \in nodes}
            /\ \A n \in Present : match(t, {n}) = IF shown(n) THEN {at(n)} ELSE {}
            /\ \A x \in Nodes \cup {Root} : \A k \in DOMAIN view[x] :
                  dropMimeData(t, x, k - 1) = <<parent(view[x][k]), srcRow[view[x][k]]>>

\* Every entry of m_mappedParents is for a row that is shown; none is left over from
\* roots that are no longer selected or rows that are gone.
NoStaleParents ==
    Quiet => \A n \in DOMAIN m_mappedParents :
                 n \in Present /\ mapToSource(Tables, m_mappedParents[n]) = n

\* The begin... and end... calls of the proxy pair up.  None begins while another is
\* open, except that rows may be announced within a reset, and none is left open when
\* the call that made it is over, but for the layout change during which a slot has
\* emptied the selection: that one stays open.
SignalsNest ==
    /\ Len(announced) > 1 => Len(announced) = 2 /\ announced[1].kind = "reset"
                             /\ announced[2].kind \in {"insert", "remove"}
    /\ Len(announced) = 1 => announced[1].kind # "unmatched"
    /\ phase = "idle" => IF emptied THEN OnlyOpen /\ Latest.kind = "layout"
                         ELSE announced = <<>>

\* The roots are in depth-first order and each is there once, also while some of a
\* selection are inserted and others are not; so a search in their list ends.
RootsInOrder ==
    /\ phase \notin {"inserted", "removed", "reset", "cleared"} =>
          \A j, k \in DOMAIN m_rootIndexList :
              j < k => Before(m_rootIndexList[j], m_rootIndexList[k])
    /\ Inserting => SearchReturns(m_rootIndexList, NewRoot)

\* When no call is under way, no change of the selection is left waiting, and whoever
\* keeps a set of the roots from rootIndexAdded() and rootIndexAboutToBeRemoved() has
\* those of sourceRootIndexes().
RootsHeard ==
    phase = "idle" => /\ heardRoots = NodesAt(DOMAIN m_rootIndexList)
                      /\ m_pendingSelectionChanges = <<>>

\* dataChanged() names rows that have changed and no others, and all of them that a
\* listener has, except that of several runs of changed roots the last is passed over
\* when it is a single row.
DataChangesReach ==
    phase = "idle" /\ ~emptied =>
        \A p \in Present \cup {Root} : \A last \in 0 .. rowCount(p) - 1 : \A first \in 0 .. last :
            LET ranges == sourceDataChanged(p, first, last)
                changed(n) == parent(n) = p /\ srcRow[n] \in first .. last
                roots == ChangedRootRows(p, first, last)
            IN  /\ \A r \in ranges : \A row \in r[2] .. r[3] :
                       row + 1 \in DOMAIN view[r[1]] /\ changed(view[r[1]][row + 1])
                /\ \A x \in Nodes \cup {Root} : \A k \in DOMAIN view[x] :
                       \/ ~changed(view[x][k])
                       \/ \E r \in ranges : r[1] = x /\ k - 1 \in r[2] .. r[3]
                       \/ /\ x = Root /\ ~m_startWithChildTrees
                          /\ k - 1 = Greatest(roots) /\ k - 2 \notin roots
============================================================================
