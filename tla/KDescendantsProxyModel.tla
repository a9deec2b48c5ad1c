----------------------- MODULE KDescendantsProxyModel -----------------------
(***************************************************************************)
(* KDescendantsProxyModel (kdescendantsproxymodel.cpp): the rows of a tree *)
(* as one flat list.  The proxy stores a proxy row only for the last child *)
(* of each shown parent (m_mapping) and finds every other row by climbing  *)
(* from one of those, so each signal of the source must repair exactly the *)
(* entries that the change disturbs.                                       *)
(*                                                                         *)
(* A change of the source takes three steps: the "about to be" signal with *)
(* its handler, the change of the tree, and the closing signal with its    *)
(* handler.  Slots that listen to the proxy or to the source run between   *)
(* them, and processPendingParents signals one parent at a time.  "view"   *)
(* is what such a listener believes: it applies each signal of the proxy   *)
(* to its own list of rows, reading new rows through mapToSource.          *)
(***************************************************************************)
EXTENDS SourceTree, ProxyRows, Sequences

CONSTANTS
    ExpandsByDefault,   \* the value set before the source model is
    Operations,         \* what the source and the user do in a run
    EagerListeners      \* does a slot connected to the source ahead of the proxy
                        \* ask the proxy for its rowCount()?

\* "remove", "move", "expandsByDefault" and "collapse" keep to what the proxy's
\* tests do; "removeCollapsed" removes rows of a parent below which rows are hidden,
\* "moveAcross" moves rows between a shown and a hidden parent,
\* "expandsLoaded" sets expandsByDefault when there are rows already, and
\* "collapseAny" collapses an index without children or one that is hidden.
AllOperations ==
    {"insert", "remove", "removeBeside", "removeCollapsed", "move", "moveAcross", "layout", "reset",
     "source", "expand", "collapse", "collapseAny", "expandsByDefault", "expandsLoaded"}

ASSUME ProxyAssumption ==
    /\ ExpandsByDefault \in BOOLEAN
    /\ EagerListeners \in BOOLEAN
    /\ Operations \subseteq AllOperations

VARIABLES
    m_mapping,              \* proxy row -> last child that is shown there
    m_rowCount,
    m_pendingParents,       \* queue of parents whose rows are still to be added
    m_insertPair, m_removePair,
    m_expandsByDefault,
    m_expandedSourceIndexes, m_collapsedSourceIndexes,
    m_relayouting,          \* do mapping changes go unannounced?
    m_layoutChangePersistentIndexes,    \* proxy row -> index, while relayouting
    phase,      \* where the running operation stands
    resume,     \* the phase that comes after the pending parents
    op,         \* the arguments of the running operation
    announced,  \* the begin... signals that are not ended yet
    view, viewCount     \* a listener's rows, and how many it counts

proxyVars == <<m_mapping, m_rowCount, m_pendingParents, m_insertPair, m_removePair,
               m_expandsByDefault, m_expandedSourceIndexes, m_collapsedSourceIndexes,
               m_relayouting, m_layoutChangePersistentIndexes>>
userVars == <<m_expandsByDefault, m_expandedSourceIndexes, m_collapsedSourceIndexes>>
viewVars == <<announced, view, viewCount>>
controlVars == <<phase, resume, op>>
vars == <<srcVars, proxyVars, controlVars, viewVars>>

NoRow == -1
NoPair == <<-1, -1>>
NoOp == [parent |-> Root, first |-> 0, last |-> 0, target |-> Root, dest |-> 0]

Phases ==
    {"idle", "inserting", "inserted", "removing", "removed", "moving", "moved",
     "relayouting", "relayouted", "layoutRead", "resetting", "reset", "rebuilt",
     "collapsing", "collapsed", "pending", "pendingOpen"}

----------------------------------------------------------------------------
(* Queries.                                                                *)

isSourceIndexExpanded(i) ==
    IF i = Root THEN TRUE
    ELSE IF m_expandsByDefault THEN i \notin m_collapsedSourceIndexes
    ELSE i \in m_expandedSourceIndexes

isSourceIndexVisible(i) == \A a \in Above(i) : isSourceIndexExpanded(a)

\* Are the rows below p part of the list?
Open(p) == isSourceIndexExpanded(p) /\ isSourceIndexVisible(p)

Least(S) == IF \E x \in S : \A y \in S : x <= y
            THEN CHOOSE x \in S : \A y \in S : x <= y ELSE NoRow
Greatest(S) == IF \E x \in S : \A y \in S : y <= x
               THEN CHOOSE x \in S : \A y \in S : y <= x ELSE NoRow

\* The rows a climb from n to i steps over: at each level below i's parent the
\* climbed index and the siblings above it, on i's own level those below i.
PassedOver(n, i) ==
    {z \in Nodes : \E y \in SelfAndAbove[n] :
        /\ srcParent[z] = srcParent[y]
        /\ srcRow[z] <= srcRow[y]
        /\ parent(i) \in SelfAndAbove[srcParent[y]] \cup {Root}
        /\ srcParent[y] = parent(i) => srcRow[z] > IndexRow(i)}

\* The mapped rows whose index, or an ancestor of it, is i or a sibling below i.
BlockRows(m, i) ==
    {r \in DOMAIN m : \E x \in SelfAndAbove[m[r]] :
        srcParent[x] = parent(i) /\ srcRow[x] >= IndexRow(i)}

\* mapFromSource(i).row(); NoRow stands for an invalid result.
mapFromSource(m, i) ==
    LET r == Least(BlockRows(m, i))
    IN  IF isSourceIndexVisible(i) /\ BlockRows(m, i) # {}
        THEN r - Cardinality(PassedOver(m[r], i))
        ELSE NoRow

\* Mutant of mapToSource: the upper bound instead of the lower bound.
mapToSourceUpper(m, row) ==
    LET r == Least({q \in DOMAIN m : q > row})
        distance(z) == Cardinality(PassedOver(m[r], z))
        passed == {z \in Nodes : \E y \in SelfAndAbove[m[r]] :
                      srcParent[z] = srcParent[y] /\ srcRow[z] <= srcRow[y]}
    IN  IF r \in DOMAIN m /\ \E z \in passed : distance(z) = r - row
        THEN CHOOSE z \in passed : distance(z) = r - row
        ELSE Root

\* mapToSource(row): climb from the mapped index at or below row until the
\* distance is used up.
mapToSource(m, row) ==
    LET r == Least({q \in DOMAIN m : q >= row})
        distance(z) == Cardinality(PassedOver(m[r], z))
        passed == {z \in Nodes : \E y \in SelfAndAbove[m[r]] :
                      srcParent[z] = srcParent[y] /\ srcRow[z] <= srcRow[y]}
    IN  IF r \in DOMAIN m /\ \E z \in passed : distance(z) = r - row
        THEN CHOOSE z \in passed : distance(z) = r - row
        ELSE Root

\* The last row that is shown under i, or i itself.
lastShown[i \in Nodes] ==
    IF isSourceIndexExpanded(i) /\ hasChildren(i)
    THEN lastShown[index(rowCount(i) - 1, i)] ELSE i

\* The last index below i, whether it is shown or not.
lastBelow[i \in Nodes] ==
    IF hasChildren(i) THEN lastBelow[index(rowCount(i) - 1, i)] ELSE i

----------------------------------------------------------------------------
(* Signals, as a listener sees them.                                       *)

At(v, r) == IF r \in DOMAIN v THEN v[r] ELSE Root

Begin(kind, first, last) ==
    announced' = Append(announced, [kind |-> kind, first |-> first, last |-> last])

\* An end... call closes the latest begin... call; one that closes nothing of
\* its kind stays on record.
Closes(kind) == announced # <<>> /\ announced[Len(announced)].kind = kind

End(kind) ==
    announced' = IF Closes(kind) THEN SubSeq(announced, 1, Len(announced) - 1)
                 ELSE Append(announced, [kind |-> "unmatched", first |-> 0, last |-> 0])

\* endInsertRows(), with the mapping m that listeners read through.
EndInsertRows(m) ==
    LET a == announced[Len(announced)]
        count == a.last - a.first + 1
    IN  /\ End("insert")
        /\ IF Closes("insert")
           THEN /\ viewCount' = viewCount + count
                /\ view' = [r \in 0 .. viewCount + count - 1 |->
                               IF r < a.first THEN At(view, r)
                               ELSE IF r <= a.last THEN mapToSource(m, r)
                               ELSE At(view, r - count)]
           ELSE UNCHANGED <<view, viewCount>>

EndRemoveRows ==
    LET a == announced[Len(announced)]
        count == a.last - a.first + 1
    IN  /\ End("remove")
        /\ IF Closes("remove")
           THEN /\ viewCount' = viewCount - count
                /\ view' = [r \in 0 .. viewCount - count - 1 |->
                               IF r < a.first THEN At(view, r) ELSE At(view, r + count)]
           ELSE UNCHANGED <<view, viewCount>>

\* endResetModel(): the listener reads every row again.
EndResetModel(m, rows) ==
    /\ End("reset")
    /\ viewCount' = rows
    /\ view' = [r \in 0 .. rows - 1 |-> mapToSource(m, r)]

----------------------------------------------------------------------------
Init ==
    /\ srcParent = [n \in Nodes |-> Absent]
    /\ srcRow = [n \in Nodes |-> 0]
    /\ m_mapping = EmptyMapping
    /\ m_rowCount = 0
    /\ m_pendingParents = <<>>
    /\ m_insertPair = NoPair /\ m_removePair = NoPair
    /\ m_expandsByDefault = ExpandsByDefault
    /\ m_expandedSourceIndexes = {} /\ m_collapsedSourceIndexes = {}
    /\ m_relayouting = FALSE
    /\ m_layoutChangePersistentIndexes = EmptyMapping
    /\ phase = "idle" /\ resume = "idle" /\ op = NoOp
    /\ announced = <<>> /\ view = EmptyMapping /\ viewCount = 0

\* What an operation leaves alone besides the variables it names.
PendingKept == UNCHANGED m_pendingParents
RowsKept == UNCHANGED <<m_mapping, m_rowCount>>
PairsKept == UNCHANGED <<m_insertPair, m_removePair>>
LayoutKept == UNCHANGED <<m_relayouting, m_layoutChangePersistentIndexes>>

Starts(kind) == phase = "idle" /\ kind \in Operations

Enters(next) == phase' = next /\ UNCHANGED <<resume, op>>

Finishes == phase' = "idle" /\ resume' = "idle" /\ op' = NoOp

\* The pending parents come next, and then the phase "next".
Refreshes(next) == phase' = "pending" /\ resume' = next /\ UNCHANGED op

----------------------------------------------------------------------------
(* synchronousMappingRefresh and processPendingParents.                    *)

\* synchronousMappingRefresh() up to its loop: the rest is the pending phase.
StartRefresh ==
    /\ m_rowCount' = 0
    /\ m_mapping' = EmptyMapping
    /\ m_pendingParents' = <<Root>>
    /\ m_relayouting' = TRUE

\* The parents that processPendingParents takes off its list without adding
\* rows: the root once there are rows, hidden parents and childless ones.
Passes(p) ==
    \/ p = Root /\ m_rowCount > 0
    \/ ~isSourceIndexVisible(p)
    \/ rowCount(p) = 0

\* Mutant of SkipPending: a parent that is passed stays on the list.
SkipPendingKeeps ==
    /\ phase = "pending"
    /\ m_pendingParents # <<>>
    /\ Passes(Head(m_pendingParents))
    /\ UNCHANGED vars

SkipPending ==
    /\ phase = "pending"
    /\ m_pendingParents # <<>>
    /\ Passes(Head(m_pendingParents))
    /\ m_pendingParents' = Tail(m_pendingParents)
    /\ UNCHANGED <<srcVars, userVars, controlVars, viewVars>>
    /\ RowsKept /\ PairsKept /\ LayoutKept

\* beginInsertRows() for the children of the first pending parent.
AnnouncePending ==
    /\ phase = "pending" /\ ~m_relayouting
    /\ m_pendingParents # <<>>
    /\ ~Passes(Head(m_pendingParents))
    /\ LET p == Head(m_pendingParents)
           start == mapFromSource(m_mapping, p) + 1
       IN  Begin("insert", start, start + rowCount(p) - 1)
    /\ Enters("pendingOpen")
    /\ UNCHANGED <<srcVars, userVars, view, viewCount>>
    /\ PendingKept /\ RowsKept /\ PairsKept /\ LayoutKept

\* The k-th of a set of rows, from above.
NthRow(S, k) == CHOOSE r \in S : Cardinality({q \in S : q <= r}) = k

\* Those of the nodes at rows first .. last of p that show rows of their own.
Expandable(p, first, last) ==
    LET shows == {r \in first .. last : /\ hasChildren(index(r, p))
                                        /\ isSourceIndexExpanded(index(r, p))}
    IN  [k \in 1 .. Cardinality(shows) |-> index(NthRow(shows, k), p)]

\* The mapping updates for the first pending parent, then endInsertRows().
AddPending ==
    /\ \/ phase = "pendingOpen"
       \/ phase = "pending" /\ m_relayouting
    /\ m_pendingParents # <<>>
    /\ ~Passes(Head(m_pendingParents))
    /\ LET p == Head(m_pendingParents)
           rows == rowCount(p)
           start == mapFromSource(m_mapping, p) + 1
           shifted == MapShift(m_mapping, start, rows)
           mapping == MapInsert(shifted, index(rows - 1, p), start + rows - 1)
       IN  /\ m_mapping' = mapping
           /\ m_rowCount' = m_rowCount + rows
           /\ m_pendingParents' = Tail(m_pendingParents) \o Expandable(p, 0, rows - 1)
           /\ IF m_relayouting THEN UNCHANGED viewVars ELSE EndInsertRows(mapping)
    /\ Enters("pending")
    /\ UNCHANGED <<srcVars, userVars>>
    /\ PairsKept /\ LayoutKept

\* The list is worked off: m_relayouting ends, if it was on.
EndPending ==
    /\ phase = "pending" /\ m_pendingParents = <<>>
    /\ m_relayouting' = FALSE
    /\ phase' = resume /\ resume' = "idle"
    /\ op' = IF resume = "idle" THEN NoOp ELSE op
    /\ UNCHANGED <<srcVars, userVars, m_layoutChangePersistentIndexes, viewVars>>
    /\ RowsKept /\ PendingKept /\ PairsKept

----------------------------------------------------------------------------
(* rowCount() asked by a listener while there is no mapping yet.           *)

\* Where slots of the proxy's listeners run, and, with EagerListeners, slots
\* connected to the source before the proxy's.  After an endInsertRows() of
\* processPendingParents they run too, but find a mapping.
Listening ==
    \/ phase \in {"idle", "inserting", "removing", "collapsing", "pendingOpen"}
    \/ EagerListeners /\ phase \in {"inserted", "removed", "reset"}

\* rowCount() says 0 while the root's rows are being announced.
RefusesRowCount == \E k \in DOMAIN m_pendingParents : m_pendingParents[k] = Root

\* rowCount() and hasChildren() of the list, when there is a mapping or nothing to map.
listRowCount == IF RefusesRowCount THEN 0 ELSE m_rowCount
listHasChildren == m_mapping # EmptyMapping

QueryRowCount ==
    /\ Listening
    /\ ~RefusesRowCount
    /\ m_mapping = EmptyMapping /\ hasChildren(Root)
    /\ StartRefresh
    /\ Refreshes(phase)
    /\ UNCHANGED <<srcVars, userVars, m_layoutChangePersistentIndexes, viewVars>>
    /\ PairsKept

----------------------------------------------------------------------------
(* Rows inserted into the source.                                          *)

\* The indexes a row inserted now can have.
Fresh == Nodes \ Present

\* Mutant of insertStart: behind the last child, not behind what it shows below.
insertStartBesideDescendants(p, first) ==
    IF rowCount(p) > first THEN mapFromSource(m_mapping, index(first, p))
    ELSE mapFromSource(m_mapping, index(rowCount(p) - 1, p)) + 1

\* sourceRowsAboutToBeInserted: where the new rows of p begin in the proxy.
insertStart(p, first) ==
    IF rowCount(p) > first THEN mapFromSource(m_mapping, index(first, p))
    ELSE IF rowCount(p) = 0 THEN mapFromSource(m_mapping, p) + 1
    ELSE mapFromSource(m_mapping, lastShown[index(rowCount(p) - 1, p)]) + 1

\* Mutant of AnnouncesInsert: a parent without rows is not left out.
AnnouncesAnyInsert(p) == Open(p)

\* Rows of a hidden parent are not announced, those of one that was not a parent
\* before are announced when they have come.
AnnouncesInsert(p) == Open(p) /\ hasChildren(p)

AboutToInsert(p, first, last) ==
    /\ Starts("insert")
    /\ p \in Present \cup {Root}
    /\ first \in 0 .. rowCount(p)
    /\ \E f \in Forests : Cardinality(Tops(f)) = last - first + 1 /\ DOMAIN f \subseteq Fresh
    /\ op' = [NoOp EXCEPT !.parent = p, !.first = first, !.last = last]
    /\ phase' = "inserting"
    /\ IF AnnouncesInsert(p)
       THEN LET start == insertStart(p, first)
            IN  /\ m_insertPair' = <<start, start + (last - first)>>
                /\ Begin("insert", start, start + (last - first))
       ELSE UNCHANGED <<m_insertPair, announced>>
    /\ UNCHANGED <<srcVars, userVars, resume, m_removePair, view, viewCount>>
    /\ RowsKept /\ PendingKept /\ LayoutKept

SourceInserts(f) ==
    /\ phase = "inserting"
    /\ DOMAIN f \subseteq Fresh
    /\ Cardinality(Tops(f)) = op.last - op.first + 1
    /\ InsertRows(f, op.parent, op.first)
    /\ Enters("inserted")
    /\ UNCHANGED <<proxyVars, viewVars>>

\* The mapping once rows first .. last have been added to the other rows of p.
\* When they come last, they take over the entry of the last child before them.
insertMapping(p, first, last) ==
    LET count == last - first + 1
        shifted == MapShift(m_mapping, m_insertPair[1], count)
        oldIndex == index(rowCount(p) - 1 - count, p)
    IN  IF rowCount(p) - 1 # last THEN shifted
        ELSE MapInsert(MapRemove(shifted, oldIndex), index(last, p),
                       MappedRow(shifted, lastShown[oldIndex]) + count)

\* sourceRowsInserted: nothing for a hidden parent; a parent that had no rows
\* becomes pending; otherwise the rows are added and those with rows of their own
\* become pending.
HandleRowsInserted ==
    /\ phase = "inserted"
    /\ LET p == op.parent
           count == op.last - op.first + 1
       IN  \/ /\ ~Open(p)
              /\ Finishes
              /\ UNCHANGED viewVars
              /\ RowsKept /\ PendingKept
           \/ /\ Open(p) /\ rowCount(p) = count
              /\ m_pendingParents' = Append(m_pendingParents, p)
              /\ Refreshes("idle")
              /\ UNCHANGED viewVars
              /\ RowsKept
           \/ /\ Open(p) /\ rowCount(p) # count
              /\ m_mapping' = insertMapping(p, op.first, op.last)
              /\ m_rowCount' = m_rowCount + count
              /\ m_pendingParents' = m_pendingParents \o Expandable(p, op.first, op.last)
              /\ EndInsertRows(m_mapping')
              /\ Refreshes("idle")
    /\ UNCHANGED <<srcVars, userVars>>
    /\ PairsKept /\ LayoutKept

----------------------------------------------------------------------------
(* Rows removed from the source.                                           *)

\* Is nothing below p hidden?
NoneHiddenBelow(p) ==
    \A n \in Present : (p \in Above(n) \cup {Root}) /\ hasChildren(n) => isSourceIndexExpanded(n)

\* getFirstDeepest: into the first child that has children, as long as there is
\* one; then the last child.
firstDeepest[i \in Nodes] ==
    LET parents == {n \in Children(i) : hasChildren(n)}
    IN  IF parents = {} THEN index(rowCount(i) - 1, i)
        ELSE firstDeepest[CHOOSE n \in parents : \A k \in parents : srcRow[n] <= srcRow[k]]

\* What sourceRowsAboutToBeRemoved and sourceRowsRemoved look up or count is shown: the
\* last index below rows first .. last of p, the first deepest one below the child of p
\* that comes to be the last, or, when that one has no children, those of its siblings.
LooksUpShownRows(p, first, last) ==
    LET newEnd == index(first - 1, p)
    IN  /\ isSourceIndexVisible(lastBelow[index(last, p)])
        /\ last = rowCount(p) - 1 /\ first > 0 =>
              IF hasChildren(newEnd) THEN isSourceIndexVisible(firstDeepest[newEnd])
              ELSE \A n \in Children(p) : srcRow[n] < first /\ hasChildren(n) => isSourceIndexExpanded(n)

\* Without "removeCollapsed", the rows are hidden, or, with "removeBeside", only rows
\* that the handlers do not look up are; with "remove", nothing below p is.
MayRemove(p, first, last) ==
    \/ Starts("removeCollapsed")
    \/ Starts("removeBeside") /\ (Open(p) => LooksUpShownRows(p, first, last))
    \/ Starts("remove") /\ (Open(p) => NoneHiddenBelow(p))

\* sourceRowsAboutToBeRemoved
AboutToRemove(p, first, last) ==
    /\ MayRemove(p, first, last)
    /\ p \in Present \cup {Root}
    /\ first \in 0 .. last /\ last < rowCount(p)
    /\ op' = [NoOp EXCEPT !.parent = p, !.first = first, !.last = last]
    /\ phase' = "removing"
    /\ IF Open(p)
       THEN LET start == mapFromSource(m_mapping, index(first, p))
                end == mapFromSource(m_mapping, lastBelow[index(last, p)])
            IN  /\ m_expandedSourceIndexes' =
                      m_expandedSourceIndexes \ {index(r, p) : r \in first .. last}
                /\ m_removePair' = <<start, end>>
                /\ Begin("remove", start, end)
       ELSE UNCHANGED <<m_expandedSourceIndexes, m_removePair, announced>>
    /\ UNCHANGED <<srcVars, m_expandsByDefault, m_collapsedSourceIndexes, resume,
                   m_insertPair, view, viewCount>>
    /\ RowsKept /\ PendingKept /\ LayoutKept

\* Persistent indexes of nodes that leave the source become invalid.
Invalidated(m, gone) == [r \in DOMAIN m |-> IF m[r] \in gone THEN Root ELSE m[r]]

SourceRemoves ==
    /\ phase = "removing"
    /\ RemoveRows(op.parent, op.first, op.last)
    /\ LET gone == InRows(op.parent, op.first, op.last)
       IN  /\ m_expandedSourceIndexes' = m_expandedSourceIndexes \ gone
           /\ m_collapsedSourceIndexes' = m_collapsedSourceIndexes \ gone
           /\ m_mapping' = Invalidated(m_mapping, gone)
    /\ Enters("removed")
    /\ UNCHANGED <<m_expandsByDefault, m_rowCount, viewVars>>
    /\ PendingKept /\ PairsKept /\ LayoutKept

\* The rows from the first row of a parent down to i: on i's level and on each
\* level above it, up to the children of "top".
rowsUpTo(i, top) ==
    Cardinality({z \in Nodes : \E y \in SelfAndAbove[i] :
                    /\ srcParent[z] = srcParent[y] /\ srcRow[z] <= srcRow[y]
                    /\ y \notin SelfAndAbove[top]})

\* The childless last children of p.
TrailingLeaves(p) ==
    {n \in Children(p) : \A k \in Children(p) : srcRow[k] >= srcRow[n] => ~hasChildren(k)}

\* Where boundAbove's climb stops: the first of its ancestors that is p or above
\* it, or is not mapped, or is mapped below boundAbove; at the latest a top-level one.
prevParent(m, p, above) ==
    LET candidates == {x \in Above(m[above]) :
                          \/ x \in SelfAndAbove[p]
                          \/ x \notin MappedIndexes(m)
                          \/ MappedRow(m, x) > above
                          \/ srcParent[x] = Root}
    IN  IF candidates = {} THEN Root
        ELSE CHOOSE x \in candidates : candidates \subseteq SelfAndAbove[x]

\* Mutant of rowBelowAbove: the climb is not cut off at prevParent.
rowBelowAboveUncut(m, p, above) ==
    above + rowsUpTo(p, m[above]) + IndexRow(index(rowCount(p) - 1, p)) + 1

\* From the last mapped row above the removed ones: straight down when p is below
\* its index, else by way of prevParent.
rowBelowAbove(m, p, above) ==
    LET prev == prevParent(m, p, above)
        newEnd == index(rowCount(p) - 1, p)
    IN  IF m[above] \in SelfAndAbove[p]
        THEN above + rowsUpTo(p, m[above]) + IndexRow(newEnd) + 1
        ELSE above - IndexRow(prev) + rowsUpTo(p, parent(prev)) + IndexRow(newEnd)

\* The proxy row of the new last child of p, whose rows from "start" on are gone.
newEndRow(m, p, start) ==
    LET newEnd == index(rowCount(p) - 1, p)
    IN  IF m = EmptyMapping THEN IndexRow(newEnd)
        ELSE IF hasChildren(newEnd)
        THEN MappedRow(m, firstDeepest[newEnd]) - rowsUpTo(firstDeepest[newEnd], newEnd)
        ELSE IF \A r \in DOMAIN m : r < start
        THEN Greatest(DOMAIN m) + Cardinality(TrailingLeaves(p))
        ELSE IF \A r \in DOMAIN m : r >= start
        THEN rowCount(p) - 1 + rowsUpTo(p, Root)
        ELSE rowBelowAbove(m, p, Greatest({r \in DOMAIN m : r < start}))

\* Mutant of NewLastChild: the end of the rows is not looked at.
NewLastChildForgotten(p, first) == FALSE

\* Have the rows from "first" on to the last one been removed, but not all?
NewLastChild(p, first) == rowCount(p) = first /\ rowCount(p) # 0

\* sourceRowsRemoved: the entries of the removed rows go, those below move up,
\* and the child that has become the last one of its parent gets an entry.
HandleRowsRemoved ==
    /\ phase = "removed"
    /\ LET p == op.parent
           start == m_removePair[1]
           difference == m_removePair[2] - start + 1
           shifted == MapShift(MapErase(m_mapping, start, m_removePair[2]), start, -difference)
       IN  \/ /\ ~Open(p)
              /\ UNCHANGED <<m_removePair, viewVars>>
              /\ RowsKept
           \/ /\ Open(p)
              /\ m_mapping' =
                    IF NewLastChild(p, op.first)
                    THEN MapInsert(shifted, index(rowCount(p) - 1, p),
                                   newEndRow(shifted, p, start))
                    ELSE shifted
              /\ m_rowCount' = m_rowCount - difference
              /\ m_removePair' = NoPair
              /\ EndRemoveRows
    /\ Finishes
    /\ UNCHANGED <<srcVars, userVars, m_insertPair>>
    /\ PendingKept /\ LayoutKept

----------------------------------------------------------------------------
(* Layout changes and moves.                                               *)

\* sourceLayoutAboutToBeChanged: the index at every row a listener may hold.
SaveLayout ==
    m_layoutChangePersistentIndexes' =
        IF m_mapping = EmptyMapping THEN m_layoutChangePersistentIndexes
        ELSE [r \in 0 .. viewCount - 1 |-> mapToSource(m_mapping, r)]

AboutToRelayout(p) ==
    /\ Starts("layout")
    /\ p \in Present \cup {Root}
    /\ hasChildren(p)
    /\ SaveLayout
    /\ op' = [NoOp EXCEPT !.parent = p]
    /\ phase' = "relayouting"
    /\ UNCHANGED <<srcVars, userVars, resume, m_relayouting, viewVars>>
    /\ RowsKept /\ PendingKept /\ PairsKept

SourceRelayouts ==
    /\ phase = "relayouting"
    /\ Reorder(op.parent)
    /\ Enters("relayouted")
    /\ UNCHANGED <<proxyVars, viewVars>>

\* sourceLayoutChanged up to the end of the refresh.
RefreshLayout ==
    IF m_mapping = EmptyMapping
    THEN Finishes /\ RowsKept /\ PendingKept /\ UNCHANGED m_relayouting
    ELSE StartRefresh /\ Refreshes("layoutRead")

HandleLayoutChanged ==
    /\ phase = "relayouted"
    /\ RefreshLayout
    /\ UNCHANGED <<srcVars, userVars, m_layoutChangePersistentIndexes, viewVars>>
    /\ PairsKept

\* The rest of sourceLayoutChanged: what was at a saved row is now where
\* mapFromSource says.
FinishLayout ==
    /\ phase = "layoutRead"
    /\ LET saved == m_layoutChangePersistentIndexes
           goesTo(r, n) == mapFromSource(m_mapping, saved[r]) = n
       IN  view' = [n \in 0 .. viewCount - 1 |->
                       IF \E r \in DOMAIN saved : goesTo(r, n)
                       THEN At(view, CHOOSE r \in DOMAIN saved : goesTo(r, n))
                       ELSE Root]
    /\ m_layoutChangePersistentIndexes' = EmptyMapping
    /\ Finishes
    /\ UNCHANGED <<srcVars, userVars, m_relayouting, announced, viewCount>>
    /\ RowsKept /\ PendingKept /\ PairsKept

\* Without "moveAcross", both parents are shown.
MayMove(p, q) ==
    \/ Starts("moveAcross")
    \/ Starts("move") /\ Open(p) /\ Open(q)

\* sourceRowsAboutToBeMoved.  Leaving the shown part is announced as a removal
\* and entering it as an insertion, both with the row of the old parent as base.
AboutToMove(p, first, last, q, dest) ==
    /\ MayMove(p, q)
    /\ p \in Present \cup {Root} /\ q \in Present \cup {Root}
    /\ first \in 0 .. last /\ last < rowCount(p)
    /\ dest \in 0 .. rowCount(q)
    /\ CanMove(p, first, last, q, dest)
    /\ op' = [parent |-> p, first |-> first, last |-> last, target |-> q, dest |-> dest]
    /\ phase' = "moving"
    /\ LET found == mapFromSource(m_mapping, p)
           base == IF found = NoRow THEN 0 ELSE found
       IN  IF Open(p) /\ ~Open(q) THEN Begin("remove", base + first, base + last)
           ELSE IF ~Open(p) /\ Open(q)
           THEN Begin("insert", base + dest, base + dest + (last - first))
           ELSE UNCHANGED announced
    /\ SaveLayout
    /\ UNCHANGED <<srcVars, userVars, resume, m_relayouting, view, viewCount>>
    /\ RowsKept /\ PendingKept /\ PairsKept

SourceMoves ==
    /\ phase = "moving"
    /\ MoveRows(op.parent, op.first, op.last, op.target, op.dest)
    /\ Enters("moved")
    /\ UNCHANGED <<proxyVars, viewVars>>

\* sourceRowsMoved.  The insertion ends only when the old parent itself is
\* collapsed and the new one is not; neither needs to be visible.
HandleRowsMoved ==
    /\ phase = "moved"
    /\ IF Open(op.parent) /\ ~Open(op.target) THEN EndRemoveRows
       ELSE IF ~isSourceIndexExpanded(op.parent) /\ isSourceIndexExpanded(op.target)
       THEN EndInsertRows(m_mapping)
       ELSE UNCHANGED viewVars
    /\ RefreshLayout
    /\ UNCHANGED <<srcVars, userVars, m_layoutChangePersistentIndexes>>
    /\ PairsKept

----------------------------------------------------------------------------
(* Resets.                                                                 *)

\* sourceModelAboutToBeReset
AboutToReset ==
    /\ Starts("reset")
    /\ Begin("reset", 0, 0)
    /\ m_relayouting' = TRUE
    /\ Enters("resetting")
    /\ UNCHANGED <<srcVars, userVars, m_layoutChangePersistentIndexes, view, viewCount>>
    /\ RowsKept /\ PendingKept /\ PairsKept

\* No index of before the reset stays valid.
SourceResets(f) ==
    /\ phase = "resetting"
    /\ ReplaceAll(f)
    /\ m_expandedSourceIndexes' = {} /\ m_collapsedSourceIndexes' = {}
    /\ m_mapping' = Invalidated(m_mapping, Nodes)
    /\ Enters("reset")
    /\ UNCHANGED <<m_expandsByDefault, m_rowCount, viewVars>>
    /\ PendingKept /\ PairsKept /\ LayoutKept

\* sourceModelReset up to processPendingParents()
HandleModelReset ==
    /\ phase = "reset"
    /\ m_rowCount' = 0
    /\ m_mapping' = EmptyMapping
    /\ m_layoutChangePersistentIndexes' = EmptyMapping
    /\ m_pendingParents' = IF hasChildren(Root) THEN Append(m_pendingParents, Root)
                           ELSE m_pendingParents
    /\ Refreshes("rebuilt")
    /\ UNCHANGED <<srcVars, userVars, m_relayouting, viewVars>>
    /\ PairsKept

\* The collapsed indexes that a source with the rows f may bring along:
\* m_collapsedSourceIndexes is not cleared, and has those of a source that comes back.
BroughtAlong(f) ==
    {S \in SUBSET DOMAIN f :
        S # {} => m_expandsByDefault /\ {"collapse", "collapseAny"} \cap Operations # {}}

\* setSourceModel up to its refresh; f stands for the rows of the new model.
SetSourceModel(f) ==
    /\ Starts("source")
    /\ Begin("reset", 0, 0)
    /\ ReplaceAll(f)
    /\ m_expandedSourceIndexes' = {} /\ m_collapsedSourceIndexes' \in BroughtAlong(f)
    /\ m_layoutChangePersistentIndexes' = EmptyMapping
    /\ IF f # EmptyMapping THEN StartRefresh
       ELSE /\ m_rowCount' = 0 /\ m_mapping' = EmptyMapping
            /\ PendingKept /\ UNCHANGED m_relayouting
    /\ Refreshes("rebuilt")
    /\ UNCHANGED <<m_expandsByDefault, view, viewCount>>
    /\ PairsKept

\* endResetModel() at the end of sourceModelReset and setSourceModel.
FinishReset ==
    /\ phase = "rebuilt"
    /\ EndResetModel(m_mapping, m_rowCount)
    /\ Finishes
    /\ UNCHANGED <<srcVars, proxyVars>>

----------------------------------------------------------------------------
(* Expanding and collapsing.                                               *)

\* Without "expandsLoaded", the default is chosen before there are rows.
MaySetExpands ==
    \/ Starts("expandsLoaded")
    \/ Starts("expandsByDefault") /\ ~hasChildren(Root)

\* setExpandsByDefault: a reset around the change.
SetExpandsByDefault(expand) ==
    /\ MaySetExpands
    /\ m_expandsByDefault # expand
    /\ m_expandsByDefault' = expand
    /\ m_expandedSourceIndexes' = {} /\ m_collapsedSourceIndexes' = {}
    /\ viewCount' = m_rowCount
    /\ view' = [r \in 0 .. m_rowCount - 1 |-> mapToSource(m_mapping, r)]
    /\ UNCHANGED <<srcVars, controlVars, announced>>
    /\ RowsKept /\ PendingKept /\ PairsKept /\ LayoutKept

\* Mutant of SetExpanded: an index counts as expanded in either case.
SetExpandedAlways(i) ==
    /\ m_collapsedSourceIndexes' = m_collapsedSourceIndexes \ {i}
    /\ m_expandedSourceIndexes' = m_expandedSourceIndexes \cup {i}
    /\ UNCHANGED m_expandsByDefault

SetExpanded(i) ==
    /\ m_collapsedSourceIndexes' = IF m_expandsByDefault THEN m_collapsedSourceIndexes \ {i}
                                   ELSE m_collapsedSourceIndexes
    /\ m_expandedSourceIndexes' = IF m_expandsByDefault THEN m_expandedSourceIndexes
                                  ELSE m_expandedSourceIndexes \cup {i}
    /\ UNCHANGED m_expandsByDefault

SetCollapsed(i) ==
    /\ m_collapsedSourceIndexes' = IF m_expandsByDefault THEN m_collapsedSourceIndexes \cup {i}
                                   ELSE m_collapsedSourceIndexes
    /\ m_expandedSourceIndexes' = IF m_expandsByDefault THEN m_expandedSourceIndexes
                                  ELSE m_expandedSourceIndexes \ {i}
    /\ UNCHANGED m_expandsByDefault

ExpandSourceIndex(i) ==
    /\ Starts("expand")
    /\ i \in Present /\ ~isSourceIndexExpanded(i)
    /\ SetExpanded(i)
    /\ m_pendingParents' = Append(m_pendingParents, i)
    /\ Refreshes("idle")
    /\ UNCHANGED <<srcVars, viewVars>>
    /\ RowsKept /\ PairsKept /\ LayoutKept

\* Without "collapseAny", what is collapsed is shown and has children.
MayCollapse(i) ==
    \/ Starts("collapseAny")
    \/ Starts("collapse") /\ isSourceIndexVisible(i) /\ hasChildren(i)

\* Mutant of ShownUnder: collapsed children are looked into as well.
ShownUnderAll(i) == {n \in Present : i \in Above(n)}

\* The rows that collapsing i takes away: its children, and those of each child
\* that is expanded.
ShownUnder(i) ==
    {n \in Present : /\ i \in Above(n)
                     /\ \A a \in Above(n) : i \in Above(a) => isSourceIndexExpanded(a)}

\* collapseSourceIndex up to beginRemoveRows()
AboutToCollapse(i) ==
    /\ MayCollapse(i)
    /\ i \in Present /\ isSourceIndexExpanded(i)
    /\ LET row == mapFromSource(m_mapping, i)
       IN  Begin("remove", row + 1, row + Cardinality(ShownUnder(i)))
    /\ op' = [NoOp EXCEPT !.parent = i]
    /\ phase' = "collapsing"
    /\ UNCHANGED <<srcVars, proxyVars, resume, view, viewCount>>

\* The index is marked; the mapping, from which the rows are erased first, is
\* then built anew.
CollapseSourceIndex ==
    /\ phase = "collapsing"
    /\ SetCollapsed(op.parent)
    /\ LET a == announced[Len(announced)] IN m_removePair' = <<a.first, a.last>>
    /\ StartRefresh
    /\ Refreshes("collapsed")
    /\ UNCHANGED <<srcVars, m_insertPair, m_layoutChangePersistentIndexes, viewVars>>

FinishCollapse ==
    /\ phase = "collapsed"
    /\ EndRemoveRows
    /\ Finishes
    /\ UNCHANGED <<srcVars, proxyVars>>

----------------------------------------------------------------------------
\* What the source and the user begin when nothing is under way.
Begins ==
    \/ \E p \in Nodes \cup {Root} : \E first \in 0 .. rowCount(p) :
          \E last \in first .. first + MaxForest - 1 : AboutToInsert(p, first, last)
    \/ \E p \in Nodes \cup {Root} : \E last \in 0 .. rowCount(p) - 1 : \E first \in 0 .. last :
          \/ AboutToRemove(p, first, last)
          \/ \E q \in Nodes \cup {Root} : \E dest \in 0 .. rowCount(q) :
                AboutToMove(p, first, last, q, dest)
    \/ \E p \in Nodes \cup {Root} : AboutToRelayout(p)
    \/ AboutToReset
    \/ \E f \in Forests : SetSourceModel(f)
    \/ \E expand \in BOOLEAN : SetExpandsByDefault(expand)
    \/ \E i \in Nodes : ExpandSourceIndex(i) \/ AboutToCollapse(i)

\* What follows in the same call, down to the last signal.
Continues ==
    \/ SkipPending \/ AnnouncePending \/ AddPending \/ EndPending
    \/ \E f \in Forests : SourceInserts(f)
    \/ HandleRowsInserted
    \/ SourceRemoves \/ HandleRowsRemoved
    \/ SourceRelayouts \/ HandleLayoutChanged \/ FinishLayout
    \/ SourceMoves \/ HandleRowsMoved
    \/ \E f \in Forests : SourceResets(f)
    \/ HandleModelReset \/ FinishReset
    \/ CollapseSourceIndex \/ FinishCollapse

Next == Begins \/ Continues \/ QueryRowCount

\* A call that has begun runs on: nothing in it waits for anything.
Spec == Init /\ [][Next]_vars /\ WF_vars(Continues)

----------------------------------------------------------------------------
IsMapping(m) ==
    /\ DOMAIN m \subseteq Int
    /\ m \in [DOMAIN m -> Nodes \cup {Root}]

\* Of the expanded and the collapsed indexes only those are kept that differ from
\* m_expandsByDefault.
TypeOK ==
    /\ SourceTypeOK
    /\ IsMapping(m_mapping)
    /\ m_rowCount \in Int
    /\ m_pendingParents \in Seq(Nodes \cup {Root})
    /\ m_insertPair \in Int \X Int /\ m_removePair \in Int \X Int
    /\ m_expandsByDefault \in BOOLEAN
    /\ m_expandedSourceIndexes \subseteq (IF m_expandsByDefault THEN {} ELSE Nodes)
    /\ m_collapsedSourceIndexes \subseteq (IF m_expandsByDefault THEN Nodes ELSE {})
    /\ m_relayouting \in BOOLEAN
    /\ IsMapping(m_layoutChangePersistentIndexes)
    /\ phase \in Phases /\ resume \in Phases
    /\ op \in [parent : Nodes \cup {Root}, first : Nat, last : Nat,
               target : Nodes \cup {Root}, dest : Nat]
    /\ announced \in Seq([kind : {"insert", "remove", "reset", "unmatched"},
                          first : Int, last : Int])
    /\ IsMapping(view) /\ viewCount \in Int

\* The rows of the flat list: the indexes whose ancestors are all expanded, in
\* depth-first order.
Shown == {n \in Present : isSourceIndexVisible(n)}
RowOf(n) == Cardinality({x \in Shown : Before(x, n)})

\* Whenever no call is under way, a listener that only follows the signals of the
\* proxy holds the rows of the tree with the hidden ones left out, in depth-first
\* order: no insertion, removal, move or reset was announced in the wrong place,
\* with the wrong size, or not at all.
ShowsVisibleTree ==
    phase = "idle" =>
        /\ viewCount = Cardinality(Shown)
        /\ DOMAIN view = 0 .. viewCount - 1
        /\ \A n \in Shown : view[RowOf(n)] = n

\* Whenever no call is under way, m_mapping holds the last child of each parent
\* whose rows are shown, at its row, and nothing else; m_rowCount counts the rows.
LastChildrenMapped ==
    phase = "idle" =>
        /\ m_rowCount = Cardinality(Shown)
        /\ MappedIndexes(m_mapping) =
              {n \in Shown : srcRow[n] = rowCount(srcParent[n]) - 1}
        /\ \A r \in DOMAIN m_mapping : RowOf(m_mapping[r]) = r

\* Wherever a slot of a listener can run, also in the middle of a change, the
\* proxy answers for exactly the rows that the listener has been told of, also when
\* asked whether there are any, and maps each of them back to itself.  One exception: with expandsByDefault off,
\* sourceRowsAboutToBeRemoved forgets that the rows are expanded before it calls
\* beginRemoveRows(), so that mapFromSource finds nothing for the rows below.
ReadableMidway ==
    /\ phase \in {"idle", "inserting", "removing", "collapsing", "pendingOpen"}
    => /\ listRowCount = viewCount /\ listHasChildren = (viewCount > 0)
       /\ \A r \in 0 .. viewCount - 1 :
             /\ mapToSource(m_mapping, r) = view[r]
             /\ phase # "removing" \/ m_expandsByDefault =>
                   mapFromSource(m_mapping, view[r]) = r

\* The begin... and end... calls of the proxy pair up: none begins while another is
\* open, each is closed by the end... of its own kind, and none is left open when
\* the call that made it is over, although the handlers decide again at the end,
\* from the changed tree, whether anything was announced at the beginning.
SignalsNest ==
    /\ Len(announced) <= 1
    /\ phase = "idle" => announced = <<>>

\* Each removal announces at least one row and only rows the listener has, and each
\* insertion a place between such rows.
AnnouncesRealRows ==
    \A k \in DOMAIN announced :
        LET a == announced[k]
        IN  \/ a.kind = "reset"
            \/ a.kind = "insert" /\ 0 <= a.first /\ a.first <= viewCount /\ a.first <= a.last
            \/ a.kind = "remove" /\ 0 <= a.first /\ a.first <= a.last /\ a.last < viewCount

\* Each call comes to its end; in particular processPendingParents, which puts
\* new parents on the list it is working off, does.
CallsEnd == phase # "idle" ~> phase = "idle"
============================================================================
