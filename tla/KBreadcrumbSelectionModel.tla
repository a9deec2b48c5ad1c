--------------------- MODULE KBreadcrumbSelectionModel ---------------------
(***************************************************************************)
(* KBreadcrumbSelectionModel (kbreadcrumbselectionmodel.cpp): the ancestors *)
(* of selected items are selected.  With MakeBreadcrumbSelectionInOther it *)
(* selects them itself, for what another selection model of the same       *)
(* model, m_selectionModel, selects; with MakeBreadcrumbSelectionInSelf,   *)
(* the default, m_selectionModel gets them, for what it selects itself.    *)
(***************************************************************************)
EXTENDS Integers, Sequences, FiniteSets

Sets == INSTANCE FiniteSetsExt
Paths == INSTANCE SequencesExt

CONSTANTS
    CrumbItems,     \* the items of the model
    NoItem,         \* the parent of a top item
    Depths,         \* values of m_selectionDepth; -1 for no limit
    Places          \* bound: where items may be, each with its parent

ASSUME CrumbsAssumption ==
    /\ IsFiniteSet(CrumbItems) /\ NoItem \notin CrumbItems /\ Depths \subseteq Int
    /\ Places \subseteq [CrumbItems -> CrumbItems \cup {NoItem}]

VARIABLES
    itemParent,     \* item -> its parent
    own,            \* what the breadcrumb model selects
    m_direction,
    m_includeActualSelection,
    m_selectionDepth,
    crumbsShared,   \* a crumb was taken away that an item still selected needs
    crumbsCut       \* the way up from an item was left at a crumb that was there already

crumbVars == <<itemParent, own, m_direction, m_includeActualSelection, m_selectionDepth, crumbsShared, crumbsCut>>

\* The selection that is made, and the breadcrumbs, when S is selected in m_selectionModel.
InOther == m_direction = "MakeBreadcrumbSelectionInOther"
Chosen(S) == IF InOther THEN S ELSE own
Crumbs(S) == IF InOther THEN own ELSE S

\* The ancestors of i, nearest first: the end of the way up from i.
Ancestors(parent, i) ==
    LET way[n \in 0 .. Cardinality(CrumbItems)] ==
            IF n = 0 THEN <<i>>
            ELSE LET w == way[n - 1]
                     above == parent[w[Len(w)]]
                 IN  IF above = NoItem THEN w ELSE Append(w, above)
    IN  Tail(way[Cardinality(CrumbItems)])

Forests == {f \in Places : \A i \in CrumbItems : i \notin Paths!ToSet(Ancestors(f, i))}

WithinDepth(path) ==
    IF m_selectionDepth < 0 THEN path ELSE SubSeq(path, 1, Sets!Min({m_selectionDepth, Len(path)}))

\* The crumbs of i join those in acc: they end where they meet one that is there.
WithCrumbsOf(parent, i, acc) ==
    LET path == WithinDepth(Ancestors(parent, i))
    IN  acc \cup {path[k] : k \in {n \in DOMAIN path : \A j \in 1 .. n : path[j] \notin acc}}

\* getBreadcrumbSelection of the items S, in any order.
getBreadcrumbSelection(parent, S) ==
    LET crumbsOf(order) ==
            LET acc[k \in 0 .. Len(order)] ==
                    IF k = 0 THEN IF m_includeActualSelection THEN S ELSE {}
                    ELSE WithCrumbsOf(parent, order[k], acc[k - 1])
            IN  acc[Len(order)]
    IN  {crumbsOf(order) : order \in Paths!SetToSeqs(S)}

\* What the breadcrumbs of S should be.
Wanted(parent, S) ==
    (UNION {Paths!ToSet(WithinDepth(Ancestors(parent, i))) : i \in S})
        \cup (IF m_includeActualSelection THEN S ELSE {})

\* The ways up from two items of S meet, and the one that is left there, if it comes second,
\* leads to an item that the other one does not reach.
Cut(parent, S) ==
    /\ m_selectionDepth > 1
    /\ \E i, j \in S :
          LET a == Paths!ToSet(WithinDepth(Ancestors(parent, i)))
              b == WithinDepth(Ancestors(parent, j))
          IN  \E m \in DOMAIN b : b[m] \in a /\ ~(Paths!ToSet(SubSeq(b, m, Len(b))) \subseteq a)

----------------------------------------------------------------------------
CrumbsInit ==
    /\ itemParent \in Forests /\ own = {} /\ crumbsShared = FALSE /\ crumbsCut = FALSE
    /\ m_direction \in {"MakeBreadcrumbSelectionInOther", "MakeBreadcrumbSelectionInSelf"}
    /\ m_includeActualSelection \in BOOLEAN /\ m_selectionDepth \in Depths

\* Mutant of crumbsAfter: the crumbs of what is deselected go, those that what is
\* selected needs as well.
crumbsAfterAll(removed, added) == (own \cup added) \ removed

crumbsAfter(removed, added) == (own \ (removed \ added)) \cup (added \ removed)

\* sourceSelectionChanged: the selection of m_selectionModel goes from before to now.  In
\* the other direction its signal is not connected.
sourceSelectionChangedCrumbs(before, now) ==
    IF ~InOther THEN UNCHANGED crumbVars
    ELSE /\ \E removed \in getBreadcrumbSelection(itemParent, before \ now),
               added \in getBreadcrumbSelection(itemParent, now \ before) : own' = crumbsAfter(removed, added)
         /\ crumbsShared' =
               \/ crumbsShared
               \/ (Wanted(itemParent, before \ now) \ Wanted(itemParent, now \ before)) \cap Wanted(itemParent, now) # {}
         /\ crumbsCut' = (crumbsCut \/ Cut(itemParent, before \ now) \/ Cut(itemParent, now \ before))
         /\ UNCHANGED <<itemParent, m_direction, m_includeActualSelection, m_selectionDepth>>

\* What select(selection, command) has m_selectionModel select, where bcc are the crumbs of T.
SelectedInOther(T, bcc) == IF InOther THEN T ELSE bcc

\* Then it selects the rest itself.  The command is Select or ClearAndSelect; before and now
\* are what was selected in m_selectionModel, whose signal has come first.
SelectThroughCrumbs(T, bcc, command, before, now) ==
    LET adds == command = "Select"
    IN  /\ IF InOther
           THEN \E added \in getBreadcrumbSelection(itemParent, now \ before) :
                    own' = bcc \cup (IF adds THEN crumbsAfter({}, added) ELSE {})
           ELSE own' = T \cup (IF adds THEN own ELSE {})
        /\ crumbsShared' = (adds /\ crumbsShared)
        /\ crumbsCut' = (Cut(itemParent, T) \/ (adds /\ (crumbsCut \/ Cut(itemParent, now \ before))))
        /\ UNCHANGED <<itemParent, m_direction, m_includeActualSelection, m_selectionDepth>>

\* The item i moves to p, and syncBreadcrumbs selects S, the selection of m_selectionModel,
\* anew; bcc are the crumbs of S where i is now.
MoveItem(i, p, bcc, S) ==
    /\ itemParent[i] # p
    /\ itemParent' = [itemParent EXCEPT ![i] = p] /\ itemParent' \in Forests
    /\ own' = IF InOther THEN bcc ELSE S
    /\ crumbsShared' = FALSE /\ crumbsCut' = Cut(itemParent', S)
    /\ UNCHANGED <<m_direction, m_includeActualSelection, m_selectionDepth>>
============================================================================
