-------------------------- MODULE KDescendantsRoles --------------------------
(***************************************************************************)
(* The data of KDescendantsProxyModel's rows (kdescendantsproxymodel.cpp). *)
(* Besides the text, with the texts of the ancestors when these are to be  *)
(* displayed, a row tells its level, whether it can be and is expanded,    *)
(* and which of it and its ancestors have a sibling below.  All of that    *)
(* changes with rows elsewhere in the tree, so that the handlers have to   *)
(* name, in dataChanged(), the rows whose data they have not touched.      *)
(*                                                                         *)
(* A delegate reads a row when it is inserted, reads the roles named by a  *)
(* dataChanged(), and reads everything after a reset or a layout change.   *)
(* "stale" is what has changed since it was read.                          *)
(***************************************************************************)
EXTENDS KDescendantsProxyModel

VARIABLES
    m_displayAncestorData,
    stale,  \* the <<row's node, role>> pairs that the delegates have not read again
    owed    \* the pairs that the running call announces once the new rows are in

roleVars == <<m_displayAncestorData, stale, owed>>

Roles == {"display", "level", "expandable", "expanded", "hasSiblings"}

Level(n) == Cardinality(SelfAndAbove[n])
AtLevel(n, k) == CHOOSE a \in SelfAndAbove[n] : Level(a) = k

\* data(): of the display role, where the text comes from.
data(n, role) ==
    CASE role = "display" -> IF m_displayAncestorData THEN [k \in 1 .. Level(n) |-> AtLevel(n, k)] ELSE <<n>>
      [] role = "level" -> Level(n)
      [] role = "expandable" -> hasChildren(n)
      [] role = "expanded" -> isSourceIndexExpanded(n)
      [] role = "hasSiblings" -> [k \in 1 .. Level(n) |->
            LET a == AtLevel(n, k) IN rowCount(srcParent[a]) > srcRow[a] + 1]

Rows == {view[r] : r \in DOMAIN view}
Everything == Nodes \X Roles

\* The step announces the data of "now"; what it changes otherwise goes stale.
Hears(now) ==
    LET changed == {s \in Rows \X Roles : data(s[1], s[2]) # data(s[1], s[2])'}
    IN  stale' = {s \in (stale \cup changed) \ now : s[1] \in Rows'}

----------------------------------------------------------------------------
\* A parent's own row, if it has one.
Own(p, roles) == ({p} \ {Root}) \X roles

notifyhasSiblings(i) == {n \in Present : i \in SelfAndAbove[n]} \X {"hasSiblings"}

\* Mutant of SiblingAbove: only the row itself is named, not those below it.
SiblingAboveAlone(p, first) == IF first > 0 THEN {<<index(first - 1, p), "hasSiblings">>} ELSE {}

\* The row that has got or lost its sibling below, and what is below that row.
SiblingAbove(p, first) == IF first > 0 THEN notifyhasSiblings(index(first - 1, p)) ELSE {}

InsertedData(p, first) == Own(p, {"expandable", "expanded", "hasSiblings"}) \cup SiblingAbove(p, first)

\* sourceRowsInserted: at once when p shows no rows yet, else at the end of the call.
RowsInserted ==
    LET news == InsertedData(op.parent, op.first)
        now == ~Open(op.parent) \/ rowCount(op.parent) = op.last - op.first + 1
    IN  /\ HandleRowsInserted
        /\ Hears(IF now THEN news ELSE {})
        /\ owed' = IF now THEN {} ELSE news

\* sourceRowsRemoved.  (When p has a new last child, its own roles are named at most
\* in vain: it still has children.)
RowsRemoved ==
    LET p == op.parent
    IN  /\ HandleRowsRemoved
        /\ Hears(IF ~Open(p) THEN Own(p, {"expandable", "expanded"})
                 ELSE SiblingAbove(p, op.first)
                        \cup IF NewLastChild(p, op.first) THEN {} ELSE Own(p, {"expandable", "expanded"}))
        /\ UNCHANGED owed

\* expandSourceIndex: its row is named after those below it have come.
Expand == \E i \in Nodes :
    ExpandSourceIndex(i) /\ Hears({}) /\ owed' = Own(i, {"expanded"})

\* KDescendantsProxyModelQml (kdescendantsproxymodel_qml.cpp): a delegate toggles its row.
ToggleChildren == \E row \in 0 .. m_rowCount - 1 : \E i \in {mapToSource(m_mapping, row)} :
    /\ hasChildren(i)
    /\ IF isSourceIndexExpanded(i) THEN AboutToCollapse(i) /\ Hears({}) /\ UNCHANGED owed
       ELSE ExpandSourceIndex(i) /\ Hears({}) /\ owed' = Own(i, {"expanded"})

PendingDone == EndPending /\ Hears(owed) /\ owed' = {}

CollapseDone == FinishCollapse /\ Hears(Own(op.parent, {"expanded"})) /\ UNCHANGED owed

\* After layoutChanged() and modelReset() a delegate reads everything.
ReadAgain ==
    /\ (FinishLayout \/ FinishReset \/ \E expand \in BOOLEAN : SetExpandsByDefault(expand))
    /\ Hears(Everything)
    /\ UNCHANGED owed

\* No data is announced in the other steps.
Silent ==
    /\ \/ \E p \in Nodes \cup {Root} : \E first \in 0 .. rowCount(p) :
             \E last \in first .. first + MaxForest - 1 : AboutToInsert(p, first, last)
       \/ \E p \in Nodes \cup {Root} : \E last \in 0 .. rowCount(p) - 1 : \E first \in 0 .. last :
             \/ AboutToRemove(p, first, last)
             \/ \E q \in Nodes \cup {Root} : \E dest \in 0 .. rowCount(q) :
                   AboutToMove(p, first, last, q, dest)
       \/ \E p \in Nodes \cup {Root} : AboutToRelayout(p)
       \/ AboutToReset
       \/ \E i \in Nodes : AboutToCollapse(i)
       \/ SkipPending \/ AnnouncePending \/ AddPending \/ QueryRowCount
       \/ \E f \in Forests : SourceInserts(f) \/ SourceResets(f) \/ SetSourceModel(f)
       \/ SourceRemoves \/ SourceRelayouts \/ HandleLayoutChanged
       \/ SourceMoves \/ HandleRowsMoved \/ HandleModelReset \/ CollapseSourceIndex
    /\ Hears({})
    /\ UNCHANGED owed

----------------------------------------------------------------------------
\* Where a text is displayed: also below, when ancestors are.
DisplaysAny(nodes) ==
    {n \in Rows : n \in nodes \/ (m_displayAncestorData /\ nodes \cap SelfAndAbove[n] # {})} \X {"display"}

\* Bound: no text changes that is displayed in other rows as well; sourceDataChanged
\* does not name these.
MayRename(nodes) == DisplaysAny(nodes) \subseteq nodes \X Roles

\* sourceDataChanged, for rows first .. last of p: each of the rows is named, if shown.
SourceDataChanged(p, first, last) ==
    LET nodes == {index(r, p) : r \in first .. last}
    IN  /\ phase = "idle" /\ p \in Present \cup {Root} /\ MayRename(nodes)
        /\ stale' = (stale \cup DisplaysAny(nodes)) \ (IF Open(p) THEN nodes \X Roles ELSE {})
        /\ UNCHANGED <<vars, m_displayAncestorData, owed>>

\* setDisplayAncestorData and setAncestorSeparator name every row.
AllRows == IF m_rowCount > 0 THEN Rows \X {"display"} ELSE {}

SetDisplayAncestorData ==
    /\ phase = "idle"
    /\ m_displayAncestorData' = ~m_displayAncestorData
    /\ UNCHANGED <<vars, owed>>
    /\ Hears(AllRows)

SetAncestorSeparator ==
    LET displays == {n \in Rows : m_displayAncestorData /\ Level(n) > 1}
    IN  /\ phase = "idle"
        /\ stale' = (stale \cup displays \X {"display"}) \ (IF m_displayAncestorData THEN AllRows ELSE {})
        /\ UNCHANGED <<vars, m_displayAncestorData, owed>>

RolesInit == Init /\ m_displayAncestorData = FALSE /\ stale = {} /\ owed = {}

RolesNext ==
    \/ /\ UNCHANGED m_displayAncestorData
       /\ RowsInserted \/ RowsRemoved \/ Expand \/ ToggleChildren \/ PendingDone \/ CollapseDone \/ ReadAgain \/ Silent
    \/ \E p \in Nodes \cup {Root} : \E last \in 0 .. rowCount(p) - 1 : \E first \in 0 .. last :
          SourceDataChanged(p, first, last)
    \/ SetDisplayAncestorData
    \/ SetAncestorSeparator

RolesSpec == RolesInit /\ [][RolesNext]_<<vars, roleVars>>

\* Whenever no call is under way, the delegates show the data of every row as it is,
\* although they have read again only what dataChanged() named: no row is forgotten
\* whose level, expansion or siblings changed with rows that came, went or moved elsewhere.
RolesHeard == phase = "idle" => stale = {}
============================================================================
