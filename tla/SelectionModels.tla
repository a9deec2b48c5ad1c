-------------------------- MODULE SelectionModels --------------------------
(***************************************************************************)
(* Selection models at work together: a KLinkItemSelectionModel on a proxy *)
(* model and the selection model it is linked to, the breadcrumbs of one   *)
(* of those selection models, and a KCheckableProxyModel                   *)
(* (kcheckableproxymodel.cpp) that shows what the link selects as check    *)
(* boxes.                                                                  *)
(***************************************************************************)
EXTENDS KLinkItemSelectionModel, KBreadcrumbSelectionModel

CONSTANTS
    Trail,          \* the m_selectionModel of the breadcrumb model
    LinkItems       \* bound: the items that are selected where no items move

ASSUME TrailAssumption == Trail \in Others /\ CrumbItems = Items /\ NoItem = None /\ LinkItems \subseteq Items

VARIABLE checks    \* the boxes that a view of the checkable model has drawn checked

vars == <<linkVars, checks, crumbVars>>

\* Mutant of selectionChangedChecks: nothing is announced for what is deselected.
selectionChangedChecksSelectedOnly(before, now) ==
    checks' = checks \cup (now \ before)

\* KCheckableProxyModelPrivate::selectionChanged: the view reads the check state, data(),
\* of what changed.
selectionChangedChecks(before, now) ==
    checks' = (checks \ ((now \ before) \cup (before \ now))) \cup (now \ before)

\* The slots of selectionChanged() of the link and of Trail.
Slots ==
    /\ selectionChangedChecks(selected[Link], selected'[Link])
    /\ IF selected'[Trail] = selected[Trail] THEN UNCHANGED crumbVars
       ELSE sourceSelectionChangedCrumbs(selected[Trail], selected'[Trail])

SomeBase == CHOOSE m \in Bases : TRUE

\* Each scenario starts with the models that make a difference to it.
MCInit ==
    /\ Init /\ checks = {} /\ CrumbsInit
    /\ modelOf[Trail] \in Bases
    /\ "sources" \notin operations => modelOf[Trail] = SomeBase /\ sourceModel = [s \in Proxies |-> SomeBase]
    /\ "relink" \notin operations =>
          /\ modelOf[Link] \in Proxies
          /\ \A s \in Others \ {Trail} : modelOf[s] \in Proxies
    /\ "move" \notin operations =>
          /\ itemParent = [i \in Items |-> None] /\ m_includeActualSelection /\ m_selectionDepth < 0
          /\ InOther

----------------------------------------------------------------------------
SelectionsIn(m) == SUBSET (Shown(m) \cap (IF Does("move") THEN Items ELSE LinkItems))

SelectIndexOfLink == \E T \in {{i} : i \in Shown(modelOf[Link]) \cap LinkItems} \cup {{}}, command \in Commands :
    LinkSelectIndex(T, command) /\ Slots
SelectInLink == \E T \in SelectionsIn(modelOf[Link]), command \in Commands :
    Does("select") /\ LinkSelect(T, command) /\ Slots
ForwardToLinked == Forward /\ Slots
TellLinkDeselected == TellDeselected /\ Slots
TellLinkSelected == TellSelected /\ Slots
SelectInOther == \E r \in Others : \E T \in SelectionsIn(modelOf[r]), command \in Commands :
    /\ Does("select") \/ Does("move")
    /\ r \in {linked, Trail} /\ (r = Trail => InOther) /\ SelectOther(r, T, command) /\ Slots
Relink == \E r \in Others \cup {None} : ~Does("move") /\ SetLinkedItemSelectionModel(r) /\ Slots
RelinkToModel == \E m \in Models : linked # Trail /\ SetModelOfLinked(m) /\ Slots
ChangeSources == \E p \in Proxies, m \in Models : ChangeSourceModel(p, m) /\ UNCHANGED <<checks, crumbVars>>
ChangeCurrent == \E s \in {Link} \cup Others, i \in Items : SetCurrent(s, i) /\ UNCHANGED <<checks, crumbVars>>

\* setData(index, state, CheckStateRole): select() in the link, and the view reads the box.
SetCheckState == \E i \in Shown(modelOf[Link]), command \in {"Select", "Deselect"} :
    Does("check") /\ LinkSelect({i}, command) /\ Slots

\* select(T, command) of the breadcrumb model: first in Trail, then its own.  When the crumbs
\* are in Trail, nobody else selects there, and it is not linked.
SelectBreadcrumbs == \E T \in SUBSET Items, command \in {"Select", "ClearAndSelect"} :
    /\ Does("move")
    /\ \E bcc \in getBreadcrumbSelection(itemParent, T) :
          /\ SelectOther(Trail, SelectedInOther(T, bcc), command)
          /\ SelectThroughCrumbs(T, bcc, command, selected[Trail], selected'[Trail])
    /\ selectionChangedChecks(selected[Link], selected'[Link])

\* rowsMoved(), layoutChanged() or modelReset() of the model of Trail.
MoveRow == \E i \in Items, p \in Items \cup {None} :
    /\ Does("move") /\ Idle
    /\ \E bcc \in getBreadcrumbSelection([itemParent EXCEPT ![i] = p], selected[Trail]) :
          /\ MoveItem(i, p, bcc, selected[Trail])
          /\ SelectOther(Trail, SelectedInOther(selected[Trail], bcc), "ClearAndSelect")
    /\ selectionChangedChecks(selected[Link], selected'[Link])

Next ==
    \/ SelectIndexOfLink \/ SelectInLink \/ ForwardToLinked \/ SelectInOther
    \/ TellLinkDeselected \/ TellLinkSelected
    \/ Relink \/ RelinkToModel \/ ChangeSources \/ ChangeCurrent
    \/ SetCheckState \/ SelectBreadcrumbs \/ MoveRow

Spec == MCInit /\ [][Next]_vars

----------------------------------------------------------------------------
\* In either direction the breadcrumbs are ancestors, within the depth, of what is selected
\* and nothing else; all of them, unless an item that was deselected shared some with one
\* that is still selected.  With a depth of two or more, the way up from an item ends at a
\* crumb that is there already, and the ones above may be missing, or be left over.
BreadcrumbsLeadThere ==
    LET wanted == Wanted(itemParent, Chosen(selected[Trail]))
        crumbs == Crumbs(selected[Trail])
    IN  ~crumbsCut => crumbs \subseteq wanted /\ (~crumbsShared => crumbs = wanted)

\* A view of the checkable model shows checked what the link selects, whichever side
\* the selection came from.
ChecksShowSelection == checks = selected[Link]
============================================================================
