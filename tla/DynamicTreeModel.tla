-------------------------- MODULE DynamicTreeModel --------------------------
(***************************************************************************)
(* The model that the tests put below the proxies, and the commands that   *)
(* change it (autotests/proxymodeltestsuite/dynamictreemodel.cpp).  It     *)
(* keeps for each item the list of its children, here of one column, and   *)
(* finds parents and rows by searching the lists.  A command announces     *)
(* rows and then changes the lists; SourceTree says what a change of those *)
(* rows is.                                                                *)
(***************************************************************************)
EXTENDS Integers, Sequences, FiniteSets

LOCAL Seqs == INSTANCE SequencesExt
LOCAL Sets == INSTANCE FiniteSetsExt

CONSTANTS
    MaxId,          \* bound: items made since the model was last cleared
    MaxTree,        \* bound: items of a tree that is inserted
    Absent          \* parent of an item that is not in the model

Ids == 1 .. MaxId

VARIABLES
    m_childItems,   \* item, or 0 for the invalid index -> its children
    nextId,
    announced       \* the last change: its signal and the rows it named

vars == <<m_childItems, nextId, announced>>

Size(q) == Len(m_childItems[q])
IndexOf(s, x) == CHOOSE i \in DOMAIN s : s[i] = x

\* findParentId: the item with id in its list; Absent when there is none.
findParentId(id) ==
    IF \E q \in Ids \cup {0} : id \in Seqs!ToSet(m_childItems[q])
    THEN CHOOSE q \in Ids \cup {0} : id \in Seqs!ToSet(m_childItems[q]) ELSE Absent
RowOf(id) == IF findParentId(id) = Absent THEN 0 ELSE IndexOf(m_childItems[findParentId(id)], id) - 1

Tree == INSTANCE SourceTree WITH
    Nodes <- Ids, Root <- 0, MaxForest <- MaxTree,
    srcParent <- [n \in Ids |-> findParentId(n)], srcRow <- [n \in Ids |-> RowOf(n)]

Held == {n \in Ids : findParentId(n) # Absent}

\* A command is given its parent as a path, the rows from the top down: indexToPath of an
\* item, and findIndex, which follows a path.
indexToPath(n) ==
    LET nodes == Seqs!SetToSortSeq(Tree!SelfAndAbove[n],
                     LAMBDA a, b : Cardinality(Tree!SelfAndAbove[a]) < Cardinality(Tree!SelfAndAbove[b]))
    IN  [k \in DOMAIN nodes |-> RowOf(nodes[k])]
findIndex(path) == Seqs!FoldLeft(LAMBDA q, row : m_childItems[q][row + 1], 0, path)
Parents == {0} \cup {findIndex(indexToPath(n)) : n \in Held}

\* The items of a list in rows first .. last, and the list without them.
Rows(s, first, last) == SubSeq(s, first + 1, last + 1)
WithoutRows(s, first, last) == SubSeq(s, 1, first) \o SubSeq(s, last + 2, Len(s))
WithRows(s, at, new) == SubSeq(s, 1, at) \o new \o SubSeq(s, at + 1, Len(s))

Init ==
    /\ m_childItems = [q \in Ids \cup {0} |-> <<>>] /\ nextId = 1
    /\ announced = [signal |-> "none"]

----------------------------------------------------------------------------
\* getDepths of a tree string: each item is at most one deeper than the one before it.
Depths ==
    {d \in UNION {[1 .. n -> 0 .. n - 1] : n \in 1 .. MaxTree} :
        d[1] = 0 /\ \A i \in 2 .. Len(d) : d[i] <= d[i - 1] + 1}

\* doInsertTree: the items get the next ids, each below the last one before it that is
\* one less deep, and those of depth 0 below q from row start on.
InsertTree(children, first, q, start, d) ==
    LET id(i) == first + i - 1
        below(i) == IF d[i] = 0 THEN q ELSE id(Sets!Max({j \in 1 .. i - 1 : d[j] = d[i] - 1}))
        new(x) == LET places == Seqs!SetToSortSeq({i \in DOMAIN d : below(i) = x}, <)
                  IN  [k \in DOMAIN places |-> id(places[k])]
    IN  [x \in DOMAIN children |-> IF x = q THEN WithRows(children[x], start, new(x)) ELSE children[x] \o new(x)]

Count(d) == Cardinality({i \in DOMAIN d : d[i] = 0})

\* ModelInsertCommand::doCommand.
ModelInsertCommand == \E q \in Parents, d \in Depths : \E start \in 0 .. Size(q) :
    /\ nextId + Len(d) - 1 <= MaxId
    /\ m_childItems' = InsertTree(m_childItems, nextId, q, start, d)
    /\ nextId' = nextId + Len(d)
    /\ announced' = [signal |-> "rowsInserted", parent |-> q, first |-> start, last |-> start + Count(d) - 1]

\* purgeItem: what is below an item leaves the lists with it.
Purged(items) == {n \in Ids : items \cap Tree!SelfAndAbove[n] # {}}

\* ModelRemoveCommand::doCommand.
ModelRemoveCommand == \E q \in Parents : \E first \in 0 .. Size(q) - 1 : \E last \in first .. Size(q) - 1 :
    LET items == Seqs!ToSet(Rows(m_childItems[q], first, last))
    IN  /\ m_childItems' = [x \in Ids \cup {0} |->
               IF x = q THEN WithoutRows(m_childItems[x], first, last)
               ELSE IF x \in Purged(items) THEN <<>> ELSE m_childItems[x]]
        /\ announced' = [signal |-> "rowsRemoved", parent |-> q, first |-> first, last |-> last]
        /\ UNCHANGED nextId

\* ModelInsertAndRemoveQueuedCommand::doCommand: new rows come and go before the signals
\* of either, which are queued, reach anyone.
ModelInsertAndRemoveQueuedCommand == \E q \in Parents : \E start \in 0 .. Size(q), last \in 0 .. MaxId :
    /\ start <= last /\ nextId + last - start <= MaxId
    /\ LET inserted == WithRows(m_childItems[q], start, [k \in 1 .. last - start + 1 |-> nextId + k - 1])
       IN  m_childItems' = [m_childItems EXCEPT ![q] = WithoutRows(inserted, start, last)]
    /\ nextId' = nextId + last - start + 1
    /\ announced' = [signal |-> "queued", parent |-> q, first |-> start, last |-> last]

\* Mutant of DestinationRow: rows that go to another parent are counted out as well.
DestinationRowShifted(sameParent, first, last, dest) ==
    IF dest <= last THEN dest ELSE dest - (last - first + 1)

\* Where ModelMoveCommand puts the first of rows first .. last, which it has taken out.
DestinationRow(sameParent, first, last, dest) ==
    IF dest < first THEN dest
    ELSE IF sameParent THEN dest - (last - first + 1) ELSE dest - (last - first)

MovedItems(q, first, last, to, dest) ==
    LET items == Rows(m_childItems[q], first, last)
        left == [m_childItems EXCEPT ![q] = WithoutRows(@, first, last)]
    IN  [left EXCEPT ![to] = WithRows(@, DestinationRow(q = to, first, last, dest), items)]

\* Bound: rows that go to another parent's row that is not before first go one by one.
MayMove(q, first, last, to, dest) ==
    /\ Tree!CanMove(q, first, last, to, dest)
    /\ q # to /\ dest >= first => first = last

\* ModelMoveCommand::doCommand.
ModelMoveCommand == \E q, to \in Parents :
    \E first \in 0 .. Size(q) - 1, dest \in 0 .. Size(to) : \E last \in first .. Size(q) - 1 :
        /\ MayMove(q, first, last, to, dest)
        /\ m_childItems' = MovedItems(q, first, last, to, dest)
        /\ announced' = [signal |-> "rowsMoved", parent |-> q, first |-> first, last |-> last,
                         destination |-> to, row |-> dest]
        /\ UNCHANGED nextId

\* ModelDataChangeCommand::doCommand: rows get new texts, whose numbers are new as well.
ModelDataChangeCommand == \E q \in Parents : \E first \in 0 .. Size(q) - 1 : \E last \in first .. Size(q) - 1 :
    /\ nextId + last - first <= MaxId
    /\ nextId' = nextId + last - first + 1
    /\ announced' = [signal |-> "dataChanged", parent |-> q, first |-> first, last |-> last]
    /\ UNCHANGED m_childItems

\* The children of q in the given rows, in the order that these are listed.
IndexList(children, q, rows) == [k \in DOMAIN rows |-> children[q][rows[k] + 1]]
Range(from, to) == [k \in 1 .. Sets!Max({to - from + 1, 0}) |-> from + k - 1]

\* emitPreSignal and emitPostSignal of ModelMoveLayoutChangeCommand, for the row first: the
\* indexes that move, and where each goes.
BeforeMove(q, first, to, dest) ==
    IndexList(m_childItems, q, <<first>>) \o
    (IF q # to THEN IndexList(m_childItems, q, Range(first + 1, Size(q) - 1))
                       \o IndexList(m_childItems, to, Range(dest, Size(to) - 1))
     ELSE IF dest < first THEN IndexList(m_childItems, q, Range(dest, first - 1))
     ELSE IndexList(m_childItems, q, Range(first + 1, dest - 1)))
AfterMove(children, q, first, to, dest) ==
    IF q # to
    THEN IndexList(children, to, <<dest>>) \o IndexList(children, q, Range(first, Len(children[q]) - 1))
            \o IndexList(children, to, Range(dest + 1, Len(children[to]) - 1))
    ELSE IF dest < first
    THEN IndexList(children, to, <<dest>>) \o IndexList(children, q, Range(dest + 1, first))
    ELSE IndexList(children, to, <<dest - 1>>) \o IndexList(children, q, Range(first, dest - 2))

\* ModelMoveLayoutChangeCommand::doCommand: the move as a layout change, of one row.
ModelMoveLayoutChangeCommand == \E q, to \in Parents :
    \E first \in 0 .. Size(q) - 1, dest \in 0 .. Size(to) :
        /\ MayMove(q, first, first, to, dest)
        /\ m_childItems' = MovedItems(q, first, first, to, dest)
        /\ announced' = [signal |-> "layoutChanged", before |-> BeforeMove(q, first, to, dest),
                         after |-> AfterMove(m_childItems', q, first, to, dest)]
        /\ UNCHANGED nextId

\* ModelResetCommand::doCommand: the model is cleared, and the tree inserted.
ModelResetCommand == \E d \in Depths \cup {<<>>} :
    /\ m_childItems' = InsertTree([q \in Ids \cup {0} |-> <<>>], 1, 0, 0, d)
    /\ nextId' = 1 + Len(d) /\ announced' = [signal |-> "modelReset"]

\* ModelLayoutChangeCommand::doCommand: another tree, made while signals are blocked, and
\* for each item the new one that it becomes, which the test lists.  Bound: the new tree
\* has as many items, and all are listed, as the signal asks.
ModelLayoutChangeCommand ==
    \E d \in {e \in Depths : Len(e) = Cardinality(Held)}, before \in {Seqs!SetToSeq(Held)} :
        \E after \in {s \in [DOMAIN d -> DOMAIN d] : Seqs!ToSet(s) = DOMAIN d} :
            /\ m_childItems' = InsertTree([q \in Ids \cup {0} |-> <<>>], 1, 0, 0, d)
            /\ nextId' = 1 + Len(d)
            /\ announced' = [signal |-> "treeLaidOut", before |-> before, after |-> after]

Next ==
    \/ ModelInsertCommand \/ ModelRemoveCommand \/ ModelMoveCommand \/ ModelInsertAndRemoveQueuedCommand
    \/ ModelDataChangeCommand \/ ModelMoveLayoutChangeCommand \/ ModelResetCommand
    \/ ModelLayoutChangeCommand

Spec == Init /\ [][Next]_vars

----------------------------------------------------------------------------
\* The items that have come into the model, as a forest whose tops were put at row start of q.
NewForest(q, start) ==
    [n \in {m \in Ids : findParentId(m) = Absent /\ findParentId(m)' # Absent} |->
        LET top == findParentId(n)' = q
        IN  [parent |-> IF top THEN 0 ELSE findParentId(n)', row |-> RowOf(n)' - (IF top THEN start ELSE 0)]]

\* The abstract change that a signal announces.
Announces(a) ==
    CASE a.signal = "rowsInserted" ->
            LET f == NewForest(a.parent, a.first)
            IN  /\ Tree!IsForest(f) /\ Cardinality(Tree!Tops(f)) = a.last - a.first + 1
                /\ Tree!InsertRows(f, a.parent, a.first)
      [] a.signal = "rowsRemoved" -> Tree!RemoveRows(a.parent, a.first, a.last)
      [] a.signal = "rowsMoved" -> Tree!MoveRows(a.parent, a.first, a.last, a.destination, a.row)
      [] a.signal \in {"dataChanged", "queued"} -> UNCHANGED m_childItems
      [] a.signal = "layoutChanged" ->
            /\ a.before = a.after
            /\ \A n \in Held : n \notin Seqs!ToSet(a.before) => UNCHANGED <<findParentId(n), RowOf(n)>>
      [] a.signal = "treeLaidOut" ->
            Seqs!ToSet(a.before) = Held /\ Seqs!ToSet(a.after) = Held' /\ Len(a.after) = Cardinality(Held')
      [] a.signal = "modelReset" ->
            LET f == [n \in 1 .. nextId' - 1 |-> [parent |-> findParentId(n)', row |-> RowOf(n)']]
            IN  Tree!IsForest(f) /\ Tree!ReplaceAll(f)

\* Every command changes the tree just as the rows it announces say: the model implements
\* the source model that the proxies are specified against.  Over a move as a layout change
\* every index that is listed as moved comes to stand for the item it stood for, and every
\* item whose place changes is listed; over any other each item becomes one of the new ones.
ChangesAsAnnounced == [][Announces(announced')]_vars
============================================================================
